-------------------------------- MODULE Settings --------------------------------
(* The configuration of the control plane: four documents below config/, their  *)
(* live copies in TGA3Config (config.py), and the requests that save them and   *)
(* discover models (app.py). Saves hold config_lock and await nothing, so no    *)
(* other request runs between their steps; the file system can fail at each     *)
(* step, and the process can die between them.                                  *)
(*                                                                             *)
(* What can only be edited by hand (ids, roles, runtimes and names of agents    *)
(* and scenes) is left out: apply_document turns changes of it away. The        *)
(* protocol of a binding is checked against its provider like the model is.     *)
EXTENDS Integers, Sequences

CONSTANTS Provider, BuiltIn,  \* model providers, those that cannot be deleted
          Url,                \* base_url and selected_api_key_id of a provider
          ModelLists,         \* lists of models a user writes
          Remote,             \* lists of names a provider may answer with
          Agent, Worker,      \* agents, those that need a container image
          Prompt,             \* prompts of the scenes
          Discovery           \* bound: discoveries at a time

Docs == <<"models", "agents", "scenes", "runtime">>

\* A provider that is configured, and one that is not.
Provided == [url : Url, models : ModelLists]
Absent == [url |-> "none", models |-> <<>>]

ModelsDocument == [Provider -> Provided \union {Absent}]

\* The ids and names of models: those a user writes, and what a provider answers. A
\* binding names an id.
Answered == UNION {{l[i] : i \in DOMAIN l} : l \in Remote}
Ids == Answered \union UNION {{l[i].id : i \in DOMAIN l} : l \in ModelLists}
Names == Answered \union UNION {{l[i].name : i \in DOMAIN l} : l \in ModelLists}

ModelConfig == [id : Ids, name : Names]

AgentsDocument == [Agent -> [provider : Provider, model : Ids]]

ASSUME SettingsAssumption ==
  /\ BuiltIn \subseteq Provider /\ Worker \subseteq Agent
  /\ "none" \notin Url
  /\ ModelLists \subseteq Seq(ModelConfig)
  /\ Remote \subseteq Seq(Names) \ {<<>>}

VARIABLES
  file,       \* the documents on disk
  live,       \* the documents in memory
  up,         \* the control plane runs
  save,       \* a save under way
  asked,      \* discover_models: what each call asked its provider
  torn        \* history: a save has left a mixture of old and new files

vars == <<file, live, up, save, asked, torn>>

\* _validate_values
Valid(c) ==
  /\ \A a \in Agent :
       LET offered == c.models[c.agents[a].provider].models IN
       \E i \in DOMAIN offered : offered[i].id = c.agents[a].model
  /\ Worker \subseteq c.runtime

NotAsked == [provider |-> "none", url |-> "none"]

Idle == [step |-> "none", todo |-> <<>>, done |-> <<>>, new |-> <<>>, originals |-> <<>>,
         for |-> NotAsked]

TypeOK ==
  /\ \A c \in {file, live} :
       /\ \A p \in Provider : c.models[p].models \in Seq(ModelConfig)
       /\ c.agents \in AgentsDocument /\ c.scenes \in Prompt
       /\ c.runtime \in SUBSET Agent
  /\ Valid(live)
  /\ up \in BOOLEAN /\ torn \in BOOLEAN
  /\ save.step \in {"none", "replace", "restore"}
  /\ asked \in [Discovery -> [provider : Provider, url : Url] \union {NotAsked}]

Init ==
  /\ file \in [models : ModelsDocument, agents : AgentsDocument, scenes : Prompt,
               runtime : {Worker}]
  /\ Valid(file)
  /\ live = file
  /\ up = TRUE
  /\ save = Idle
  /\ asked = [d \in Discovery |-> NotAsked]
  /\ torn = FALSE

-------------------------------------------------------------------------------
\* Saving: the new documents are validated, written to temporary files, and put in
\* the place of the old ones, one after the other.

Free == up /\ save.step = "none"

\* Mutation: nothing is checked.
BeginUnchecked(c, docs, for) ==
  save' = [step |-> "replace", todo |-> docs, done |-> <<>>, new |-> c,
           originals |-> file, for |-> for]

\* A configuration that does not validate is turned away here. for: the discovery
\* that found it.
Begin(c, docs, for) ==
  /\ Valid(c)
  /\ save' = [step |-> "replace", todo |-> docs, done |-> <<>>, new |-> c,
              originals |-> file, for |-> for]

\* apply_document
SaveDocument(name, value) ==
  /\ Free
  /\ Begin([live EXCEPT ![name] = value], <<name>>, NotAsked)
  /\ UNCHANGED <<file, live, up, asked, torn>>

\* A user's document may rest on anything they read before.
WriteModels == \E v \in ModelsDocument : SaveDocument("models", v)
WriteAgents == \E v \in AgentsDocument : SaveDocument("agents", v)
WriteScenes == \E v \in Prompt : SaveDocument("scenes", v)
WriteRuntime == \E v \in SUBSET Agent : SaveDocument("runtime", v)

DeleteProvider(p) ==
  /\ live.models[p] # Absent /\ p \notin BuiltIn
  /\ \A a \in Agent : live.agents[a].provider # p
  /\ SaveDocument("models", [live.models EXCEPT ![p] = Absent])

\* os.replace of the next file.
Replace ==
  /\ save.step = "replace" /\ save.todo # <<>>
  /\ LET n == Head(save.todo) IN
     /\ file' = [file EXCEPT ![n] = save.new[n]]
     /\ save' = [save EXCEPT !.todo = Tail(@), !.done = Append(@, n)]
  /\ UNCHANGED <<live, up, asked, torn>>

\* Mutation: the files that were replaced stay.
FailKeeping ==
  /\ save.step = "replace" /\ save.todo # <<>>
  /\ save' = Idle
  /\ UNCHANGED <<file, live, up, asked, torn>>

\* A file cannot be written or replaced: those that were are restored.
Fail ==
  /\ save.step = "replace" /\ save.todo # <<>>
  /\ save' = [save EXCEPT !.step = "restore"]
  /\ UNCHANGED <<file, live, up, asked, torn>>

Restore ==
  /\ save.step = "restore"
  /\ \/ /\ save.done = <<>>
        /\ save' = Idle
        /\ UNCHANGED file
     \/ /\ save.done # <<>>
        /\ LET n == Head(save.done) IN file' = [file EXCEPT ![n] = save.originals[n]]
        /\ save' = [save EXCEPT !.done = Tail(@)]
  /\ UNCHANGED <<live, up, asked, torn>>

\* Restoring fails as well.
RestoreFails ==
  /\ save.step = "restore" /\ save.done # <<>>
  /\ save' = Idle
  /\ torn' = TRUE
  /\ UNCHANGED <<file, live, up, asked>>

\* All files are replaced: the live copies follow. (The request may still fail, when
\* ensure_directories does.) A bundle makes whole what was torn.
Finish ==
  /\ save.step = "replace" /\ save.todo = <<>>
  /\ live' = save.new
  /\ save' = Idle
  /\ torn' = (torn /\ save.done # Docs)
  /\ UNCHANGED <<file, up, asked>>

-------------------------------------------------------------------------------
\* discover_models.

\* The provider is asked, without the lock.
Discover(d, p) ==
  /\ Free /\ asked[d] = NotAsked
  /\ live.models[p] # Absent
  /\ asked' = [asked EXCEPT ![d] = [provider |-> p, url |-> live.models[p].url]]
  /\ UNCHANGED <<file, live, up, save, torn>>

\* An id is kept for a name it is known by; other names are their own ids.
IdOf(models, name) ==
  LET known == {i \in DOMAIN models : models[i].name = name}
  IN IF known = {} THEN name
     ELSE models[CHOOSE i \in known : \A j \in known : j <= i].id

Discovered(models, names) ==
  [i \in DOMAIN names |-> [id |-> IdOf(models, names[i]), name |-> names[i]]]

\* Agents whose model is gone get the first one.
Rebound(agents, p, models) ==
  [a \in Agent |->
     IF agents[a].provider = p /\ \A i \in DOMAIN models : models[i].id # agents[a].model
     THEN [agents[a] EXCEPT !.model = models[1].id] ELSE agents[a]]

\* Mutation: the provider may have been changed meanwhile.
StillThere(d) == live.models[asked[d].provider] # Absent

\* The provider is still there, at the URL and with the key that were used.
StillAsked(d) == live.models[asked[d].provider].url = asked[d].url

\* The answer is merged into what is live by now, and saved.
Merge(d, names) ==
  LET p == asked[d].provider
      models == Discovered(live.models[p].models, names)
  IN Begin([live EXCEPT !.models[p].models = models,
                        !.agents = Rebound(live.agents, p, models)],
           Docs, asked[d])

DiscoverAnswers(d, names) ==
  /\ Free /\ asked[d] # NotAsked
  /\ asked' = [asked EXCEPT ![d] = NotAsked]
  /\ \/ StillAsked(d) /\ Merge(d, names)
     \/ ~StillAsked(d) /\ UNCHANGED save
  /\ UNCHANGED <<file, live, up, torn>>

\* No URL answers with a list of models.
DiscoverFails(d) ==
  /\ Free /\ asked[d] # NotAsked
  /\ asked' = [asked EXCEPT ![d] = NotAsked]
  /\ UNCHANGED <<file, live, up, save, torn>>

-------------------------------------------------------------------------------
\* The process dies, and is started again. It does not start with files that do not
\* validate.

Crash ==
  /\ up
  /\ up' = FALSE
  /\ torn' = (torn \/ (save.done # <<>> /\ save.todo # <<>>))
  /\ save' = Idle
  /\ asked' = [d \in Discovery |-> NotAsked]
  /\ UNCHANGED <<file, live>>

Start ==
  /\ ~up /\ Valid(file)
  /\ up' = TRUE
  /\ live' = file
  /\ torn' = FALSE
  /\ UNCHANGED <<file, save, asked>>

Next ==
  \/ WriteModels \/ WriteAgents \/ WriteScenes \/ WriteRuntime
  \/ \E p \in Provider : DeleteProvider(p) \/ \E d \in Discovery : Discover(d, p)
  \/ \E d \in Discovery : DiscoverFails(d) \/ \E l \in Remote : DiscoverAnswers(d, l)
  \/ Replace \/ Fail \/ Restore \/ RestoreFails \/ Finish
  \/ Crash \/ Start

Spec == Init /\ [][Next]_vars

-------------------------------------------------------------------------------
\* A save succeeds as a whole or leaves the files and the live configuration as they
\* were, whichever file cannot be replaced: what is on disk is what is live, and
\* validates ("校验失败不会替换现有配置", src/tga3/README.md:57). Excepted is the
\* mixture left by a bundle that is cut off by a crash, or cannot be restored.
SavedOrUntouched ==
  save.step = "none" /\ ~torn => Valid(file) /\ (up => file = live)

\* Models are saved under the endpoint they were read from, whatever was saved while
\* the provider was asked (app.py:370-407); a discovery changes its own provider,
\* and the agents whose model the provider no longer has, and nothing else.
DiscoveryIsCurrent ==
  [][up /\ live' # live /\ save.for # NotAsked =>
       LET p == save.for.provider
           offered == live'.models[p].models
       IN /\ live'.models = [live.models EXCEPT ![p] =
                              [url |-> save.for.url, models |-> offered]]
          /\ live'.scenes = live.scenes /\ live'.runtime = live.runtime
          /\ \A a \in Agent : live'.agents[a] # live.agents[a] =>
               /\ live.agents[a].provider = p
               /\ \A i \in DOMAIN offered : offered[i].id # live.agents[a].model]_vars
===============================================================================
