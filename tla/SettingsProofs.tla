----------------------------- MODULE SettingsProofs -----------------------------
(* Theorems about Settings: the live configuration always validates, a save is  *)
(* whole or changes nothing, a discovery touches what it asked for.             *)
EXTENDS Settings, WellFoundedInduction, TLAPS

Doc == {"models", "agents", "scenes", "runtime"}

Named(s) == {s[i] : i \in DOMAIN s}

\* Four documents; a provider has an endpoint and models.
WellFormed(c) ==
  /\ c = [n \in Doc |-> c[n]]
  /\ c.models = [p \in Provider |-> c.models[p]]
  /\ \A p \in Provider :
       c.models[p] = [url |-> c.models[p].url, models |-> c.models[p].models]
  /\ c.agents = [a \in Agent |-> c.agents[a]]

AskedOfProviders ==
  /\ asked = [d \in Discovery |-> asked[d]]
  /\ \A d \in Discovery : asked[d] # NotAsked => asked[d].provider \in Provider

\* What a discovery may change: its own provider's models, and the agents whose model
\* is gone.
Touches(old, new, for) ==
  LET offered == new.models[for.provider].models IN
  /\ new.models = [old.models EXCEPT ![for.provider] =
                     [url |-> for.url, models |-> offered]]
  /\ new.scenes = old.scenes /\ new.runtime = old.runtime
  /\ \A a \in Agent : new.agents[a] # old.agents[a] =>
       /\ old.agents[a].provider = for.provider
       /\ \A i \in DOMAIN offered : offered[i].id # old.agents[a].model

\* What is to be saved validates.
Planned ==
  save.step # "none" =>
    /\ up
    /\ save.todo \in Seq(Doc) /\ save.done \in Seq(Doc)
    /\ WellFormed(save.new) /\ Valid(save.new) /\ WellFormed(save.originals)
    /\ save.for # NotAsked => Touches(live, save.new, save.for)

\* Where a save has got to: what it has replaced, what it has to replace, namely every
\* document that differs, and what it has to restore.
Progress ==
  /\ save.step = "none" => save = Idle
  /\ save.step = "replace" =>
       /\ \A n \in Named(save.done) : file[n] = save.new[n]
       /\ \A n \in Doc :
            save.new[n] # live[n] => n \in Named(save.todo) \union Named(save.done)
  /\ save.step = "restore" => save.todo # <<>>
  /\ save.step # "none" /\ ~torn =>
       /\ save.originals = live
       /\ \A n \in Doc \ Named(save.done) : file[n] = live[n]

SettingsInv ==
  /\ DOMAIN save = {"step", "todo", "done", "new", "originals", "for"}
  /\ save.step \in {"none", "replace", "restore"}
  /\ up \in BOOLEAN /\ torn \in BOOLEAN
  /\ WellFormed(file) /\ WellFormed(live) /\ Valid(live)
  /\ AskedOfProviders /\ Planned /\ Progress /\ SavedOrUntouched

-------------------------------------------------------------------------------
LEMMA NamedFacts ==
  ASSUME NEW S, NEW s \in Seq(S)
  PROVE  /\ Named(s) \subseteq S
         /\ s = <<>> => Named(s) = {}
         /\ s # <<>> => /\ Head(s) \in S /\ Tail(s) \in Seq(S)
                        /\ Named(s) = {Head(s)} \union Named(Tail(s))
         /\ \A x \in S : Append(s, x) \in Seq(S)
                         /\ Named(Append(s, x)) = Named(s) \union {x}
<1>1. Named(s) \subseteq S /\ (s = <<>> => Named(s) = {})
  BY DEF Named
<1>2. ASSUME s # <<>>
      PROVE  Head(s) \in S /\ Tail(s) \in Seq(S)
             /\ Named(s) = {Head(s)} \union Named(Tail(s))
  <2>1. Len(s) \in Nat \ {0} /\ Head(s) = s[1] /\ Tail(s) \in Seq(S)
        /\ Len(Tail(s)) = Len(s) - 1
        /\ \A i \in 1..(Len(s) - 1) : Tail(s)[i] = s[i + 1]
    BY <1>2
  <2>2. \A i \in 2..Len(s) : s[i] = Tail(s)[i - 1] /\ i - 1 \in 1..Len(Tail(s))
    BY <2>1
  <2>3. Named(s) \subseteq {Head(s)} \union Named(Tail(s))
    <3> SUFFICES ASSUME NEW i \in 1..Len(s)
                 PROVE  s[i] \in {Head(s)} \union Named(Tail(s))
      BY DEF Named
    <3>1. CASE i = 1  BY <3>1, <2>1
    <3>2. CASE i # 1
      <4>1. i \in 2..Len(s)  BY <3>2
      <4>2. s[i] = Tail(s)[i - 1] /\ i - 1 \in DOMAIN Tail(s)  BY <4>1, <2>1, <2>2
      <4> QED  BY <4>2 DEF Named
    <3> QED  BY <3>1, <3>2
  <2>4. Named(Tail(s)) \subseteq Named(s)
    <3> SUFFICES ASSUME NEW i \in 1..Len(Tail(s)) PROVE Tail(s)[i] \in Named(s)
      BY <2>1 DEF Named
    <3>1. i + 1 \in 1..Len(s) /\ Tail(s)[i] = s[i + 1]
      BY <2>1
    <3> QED  BY <3>1 DEF Named
  <2>5. Head(s) \in Named(s) /\ Head(s) \in S
    BY <2>1 DEF Named
  <2> QED  BY <2>1, <2>3, <2>4, <2>5
<1>3. ASSUME NEW x \in S
      PROVE  Append(s, x) \in Seq(S) /\ Named(Append(s, x)) = Named(s) \union {x}
  <2>1. /\ Append(s, x) \in Seq(S) /\ DOMAIN Append(s, x) = 1..(Len(s) + 1)
        /\ \A i \in 1..Len(s) : Append(s, x)[i] = s[i]
        /\ Append(s, x)[Len(s) + 1] = x /\ Len(s) \in Nat /\ DOMAIN s = 1..Len(s)
    OBVIOUS
  <2>2. 1..(Len(s) + 1) = 1..Len(s) \union {Len(s) + 1}
    BY <2>1
  <2>3. Named(Append(s, x)) = {Append(s, x)[i] : i \in 1..Len(s)} \union {x}
    BY <2>1, <2>2 DEF Named
  <2>4. {Append(s, x)[i] : i \in 1..Len(s)} = Named(s)
    BY <2>1 DEF Named
  <2> QED  BY <2>1, <2>3, <2>4
<1> QED  BY <1>1, <1>2, <1>3

LEMMA SameDocuments ==
  ASSUME NEW c, NEW e, WellFormed(c), WellFormed(e), \A n \in Doc : c[n] = e[n]
  PROVE  c = e
BY Zenon DEF WellFormed

LEMMA DocsNamed == Docs \in Seq(Doc) /\ Named(Docs) = Doc
<1>1. Docs \in Seq(Doc)  BY DEF Docs, Doc
<1>2. DOMAIN Docs = {1, 2, 3, 4}  BY DEF Docs
<1>3. Docs[1] = "models" /\ Docs[2] = "agents" /\ Docs[3] = "scenes" /\ Docs[4] = "runtime"
  BY DEF Docs
<1> QED  BY <1>1, <1>2, <1>3 DEF Named, Doc
-------------------------------------------------------------------------------
Replaces(f, c, e, n) ==
  WellFormed(f) /\ f[n] = e[n] /\ \A m \in Doc : m # n => f[m] = c[m]

\* A file that is replaced by another well-formed one.
LEMMA ReplacedIsWellFormed ==
  ASSUME NEW c, NEW e, WellFormed(c), WellFormed(e), NEW n \in Doc,
         NEW f, f = [c EXCEPT ![n] = e[n]]
  PROVE  Replaces(f, c, e, n)
<1>1. f = [m \in Doc |-> f[m]]
  BY DEF WellFormed
<1>2. \A m \in Doc : f[m] = IF m = n THEN e[m] ELSE c[m]
  BY DEF WellFormed
<1>3. f.models \in {c.models, e.models} /\ f.agents \in {c.agents, e.agents}
  BY <1>2 DEF Doc
<1>4. f.models = [p \in Provider |-> f.models[p]]
      /\ \A p \in Provider :
           f.models[p] = [url |-> f.models[p].url, models |-> f.models[p].models]
  BY <1>3, Zenon DEF WellFormed
<1>5. f.agents = [a \in Agent |-> f.agents[a]]
  BY <1>3, Zenon DEF WellFormed
<1> QED  BY <1>1, <1>2, <1>4, <1>5 DEF WellFormed, Replaces

LEMMA InitSettled == Init => SettingsInv
<1> SUFFICES ASSUME Init PROVE SettingsInv
  OBVIOUS
<1>1. WellFormed(file)
  BY DEF Init, WellFormed, Doc, ModelsDocument, Provided, Absent, AgentsDocument
<1>2. Valid(file) /\ live = file /\ up = TRUE /\ torn = FALSE /\ save = Idle
  BY DEF Init
<1>3. AskedOfProviders
  BY DEF Init, AskedOfProviders
<1> QED
  BY <1>1, <1>2, <1>3 DEF SettingsInv, Planned, Progress, SavedOrUntouched, Idle

\* A save that begins replaces every document that differs from the live ones.
LEMMA BeginPlans ==
  ASSUME SettingsInv, Free, NEW c, WellFormed(c), NEW docs \in Seq(Doc), NEW for,
         Begin(c, docs, for), UNCHANGED <<file, live, up, torn>>, AskedOfProviders',
         \A n \in Doc : c[n] # live[n] => n \in Named(docs),
         for # NotAsked => Touches(live, c, for)
  PROVE  SettingsInv'
<1>1. /\ save'.step = "replace" /\ save'.todo = docs /\ save'.done = <<>>
      /\ save'.new = c /\ save'.originals = file /\ save'.for = for /\ Valid(c)
      /\ DOMAIN save' = {"step", "todo", "done", "new", "originals", "for"}
  BY DEF Begin
<1>2. Named(<<>>) = {} /\ <<>> \in Seq(Doc)
  BY DEF Named
<1>3. Planned'
  BY <1>1, <1>2 DEF Planned, Free, Touches, SettingsInv
<1>4. Progress'
  BY <1>1, <1>2 DEF Progress, Free, SettingsInv, SavedOrUntouched
<1> QED
  BY <1>1, <1>3, <1>4 DEF SettingsInv, SavedOrUntouched

LEMMA SaveDocumentPlans ==
  ASSUME SettingsInv, NEW name \in Doc, NEW value, SaveDocument(name, value),
         WellFormed([live EXCEPT ![name] = value])
  PROVE  SettingsInv'
<1> DEFINE new == [live EXCEPT ![name] = value]
<1>1. \A n \in Doc : new[n] # live[n] => n \in Named(<<name>>)
  BY DEF SettingsInv, WellFormed, Named
<1>2. <<name>> \in Seq(Doc) /\ Begin(new, <<name>>, NotAsked) /\ Free
      /\ UNCHANGED <<file, live, up, torn, asked>>
  BY DEF SaveDocument
<1>3. AskedOfProviders'
  BY <1>2 DEF SettingsInv, AskedOfProviders
<1> QED
  BY <1>1, <1>2, <1>3, BeginPlans

LEMMA WritesPlan ==
  ASSUME SettingsInv,
         \/ WriteModels \/ WriteAgents \/ WriteScenes \/ WriteRuntime
         \/ \E p \in Provider : DeleteProvider(p)
  PROVE  SettingsInv'
<1> USE DEF SettingsInv, WellFormed, Doc
<1>1. ASSUME NEW v \in ModelsDocument, SaveDocument("models", v) PROVE SettingsInv'
  <2>1. WellFormed([live EXCEPT !.models = v])
    BY <1>1 DEF ModelsDocument, Provided, Absent
  <2> QED  BY <1>1, <2>1, SaveDocumentPlans
<1>2. ASSUME NEW v \in AgentsDocument, SaveDocument("agents", v) PROVE SettingsInv'
  <2>1. WellFormed([live EXCEPT !.agents = v])
    BY <1>2 DEF AgentsDocument
  <2> QED  BY <1>2, <2>1, SaveDocumentPlans
<1>3. ASSUME NEW v, SaveDocument("scenes", v) PROVE SettingsInv'
  <2>1. WellFormed([live EXCEPT !.scenes = v])
    BY <1>3
  <2> QED  BY <1>3, <2>1, SaveDocumentPlans
<1>4. ASSUME NEW v, SaveDocument("runtime", v) PROVE SettingsInv'
  <2>1. WellFormed([live EXCEPT !.runtime = v])
    BY <1>4
  <2> QED  BY <1>4, <2>1, SaveDocumentPlans
<1>5. ASSUME NEW p \in Provider, DeleteProvider(p) PROVE SettingsInv'
  <2> DEFINE v == [live.models EXCEPT ![p] = Absent]
  <2>1. WellFormed([live EXCEPT !.models = v])
    BY <1>5 DEF Absent
  <2>2. SaveDocument("models", v)
    BY <1>5 DEF DeleteProvider
  <2> HIDE DEF v
  <2> QED  BY <2>1, <2>2, SaveDocumentPlans
<1> QED
  BY <1>1, <1>2, <1>3, <1>4, <1>5 DEF WriteModels, WriteAgents, WriteScenes, WriteRuntime

LEMMA ModelsReplaced ==
  ASSUME NEW r, r = [url |-> r.url, models |-> r.models], NEW l
  PROVE  [r EXCEPT !.models = l] = [url |-> r.url, models |-> l]
<1>1. [[url |-> r.url, models |-> r.models] EXCEPT !.models = l]
        = [url |-> r.url, models |-> l]
  OBVIOUS
<1> QED  BY <1>1, Zenon

\* The answer of a provider is merged into what is live, and touches nothing else.
LEMMA MergePlans ==
  ASSUME SettingsInv, NEW d \in Discovery, NEW names, DiscoverAnswers(d, names)
  PROVE  SettingsInv'
<1> DEFINE p == asked[d].provider
           models == Discovered(live.models[p].models, names)
           agents == Rebound(live.agents, p, models)
           new == [live EXCEPT !.models[p].models = models, !.agents = agents]
<1>1. AskedOfProviders' /\ Free /\ UNCHANGED <<file, live, up, torn>>
  BY DEF DiscoverAnswers, SettingsInv, AskedOfProviders
<1>2. CASE UNCHANGED save
  BY <1>1, <1>2 DEF SettingsInv, Planned, Progress, SavedOrUntouched, Touches
<1>3. CASE StillAsked(d) /\ Merge(d, names)
  <2>1. Begin(new, Docs, asked[d])
    BY <1>3 DEF Merge
  <2>2. p \in Provider /\ asked[d] # NotAsked
    BY DEF DiscoverAnswers, SettingsInv, AskedOfProviders
  <2>3. /\ new = [n \in Doc |-> new[n]]
        /\ new.models = [live.models EXCEPT ![p] = [live.models[p] EXCEPT !.models = models]]
        /\ new.agents = agents /\ new.scenes = live.scenes /\ new.runtime = live.runtime
    BY DEF SettingsInv, WellFormed, Doc
  <2>4. [live.models[p] EXCEPT !.models = models]
          = [url |-> live.models[p].url, models |-> models]
    <3>1. live.models[p] = [url |-> live.models[p].url, models |-> live.models[p].models]
      BY <2>2, Zenon DEF SettingsInv, WellFormed
    <3> HIDE DEF models
    <3> QED  BY <3>1, ModelsReplaced, Zenon
  <2>5. live.models[p].url = asked[d].url
    BY <1>3 DEF StillAsked
  <2>6. \A q \in Provider :
          new.models[q] = IF q = p THEN [url |-> asked[d].url, models |-> models]
                          ELSE live.models[q]
    <3>1. live.models = [q \in Provider |-> live.models[q]]
      BY Zenon DEF SettingsInv, WellFormed
    <3>2. DOMAIN live.models = Provider
      BY <3>1, Zenon
    <3> HIDE DEF new, models
    <3> QED  BY <2>3, <2>4, <2>5, <3>2
  <2>7. agents = [a \in Agent |-> agents[a]]
    BY DEF Rebound
  <2>8. WellFormed(new)
    <3>1. new.models = [q \in Provider |-> new.models[q]]
      <4>1. live.models = [q \in Provider |-> live.models[q]]
        BY Zenon DEF SettingsInv, WellFormed
      <4> HIDE DEF new, models
      <4> QED  BY <2>3, <4>1
    <3>2. ASSUME NEW q \in Provider
          PROVE  new.models[q] = [url |-> new.models[q].url, models |-> new.models[q].models]
      <4>1. CASE q = p
        <5> HIDE DEF new, models
        <5> QED  BY <4>1, <2>6
      <4>2. CASE q # p
        <5>1. live.models[q] = [url |-> live.models[q].url, models |-> live.models[q].models]
          BY Zenon DEF SettingsInv, WellFormed
        <5>2. new.models[q] = live.models[q]
          <6> HIDE DEF new, models
          <6> QED  BY <4>2, <2>6
        <5> HIDE DEF new, models
        <5> QED  BY <5>1, <5>2, Zenon
      <4> QED  BY <4>1, <4>2
    <3> QED  BY <3>1, <3>2, <2>3, <2>7 DEF WellFormed
  <2>9. Touches(live, new, asked[d])
    <3>1. new.models = [live.models EXCEPT ![p] = [url |-> asked[d].url, models |-> models]]
      BY <2>3, <2>4, <2>5
    <3>2. new.models[p].models = models
      <4> HIDE DEF new, models
      <4> QED  BY <2>2, <2>6
    <3>3. ASSUME NEW a \in Agent, agents[a] # live.agents[a]
          PROVE  /\ live.agents[a].provider = p
                 /\ \A i \in DOMAIN models : models[i].id # live.agents[a].model
      BY <3>3 DEF Rebound
    <3> HIDE DEF new, models, agents
    <3> QED  BY <3>1, <3>2, <3>3, <2>3 DEF Touches
  <2> HIDE DEF new
  <2> QED
    BY <1>1, <2>1, <2>8, <2>9, DocsNamed, BeginPlans
<1> QED
  BY <1>2, <1>3 DEF DiscoverAnswers
-------------------------------------------------------------------------------
\* The next file is replaced.
LEMMA ReplaceProgresses ==
  ASSUME SettingsInv, Replace
  PROVE  SettingsInv'
<1> DEFINE n == Head(save.todo)
<1>1. /\ save.step = "replace" /\ save.todo # <<>>
      /\ file' = [file EXCEPT ![n] = save.new[n]]
      /\ UNCHANGED <<live, up, asked, torn>>
  BY DEF Replace
<1>2. /\ save'.step = save.step /\ save'.new = save.new /\ save'.for = save.for
      /\ save'.originals = save.originals /\ DOMAIN save' = DOMAIN save
      /\ save'.todo = Tail(save.todo) /\ save'.done = Append(save.done, n)
  BY DEF Replace, SettingsInv
<1>3. /\ n \in Doc /\ save'.todo \in Seq(Doc) /\ save'.done \in Seq(Doc)
      /\ Named(save.todo) = {n} \union Named(save'.todo)
      /\ Named(save'.done) = Named(save.done) \union {n}
  BY <1>1, <1>2, NamedFacts DEF SettingsInv, Planned
<1>4. WellFormed(file')
      /\ file'[n] = save.new[n] /\ \A m \in Doc : m # n => file'[m] = file[m]
  <2>1. WellFormed(file) /\ WellFormed(save.new)
    BY <1>1 DEF SettingsInv, Planned
  <2> HIDE DEF n
  <2>2. Replaces(file', file, save.new, n)
    BY <1>1, <1>3, <2>1, ReplacedIsWellFormed
  <2> QED  BY <2>2 DEF Replaces
<1>5. Planned'
  <2>1. /\ up /\ WellFormed(save.new) /\ Valid(save.new) /\ WellFormed(save.originals)
        /\ save.for # NotAsked => Touches(live, save.new, save.for)
    BY <1>1 DEF SettingsInv, Planned
  <2> HIDE DEF n
  <2> QED  BY <1>1, <1>2, <1>3, <2>1 DEF Planned
<1>6. Progress'
  <2>1. Named(save.done) \subseteq Doc
    BY <1>1, NamedFacts DEF SettingsInv, Planned
  <2> HIDE DEF n
  <2> QED  BY <1>1, <1>2, <1>3, <1>4, <2>1 DEF SettingsInv, Progress
<1> QED
  BY <1>1, <1>2, <1>4, <1>5, <1>6 DEF SettingsInv, SavedOrUntouched, AskedOfProviders

\* A failure turns a save into a restore.
LEMMA FailProgresses ==
  ASSUME SettingsInv, Fail
  PROVE  SettingsInv'
<1>1. /\ save.step = "replace" /\ save.todo # <<>>
      /\ UNCHANGED <<file, live, up, asked, torn>>
      /\ save'.step = "restore" /\ save'.new = save.new /\ save'.for = save.for
      /\ save'.originals = save.originals /\ DOMAIN save' = DOMAIN save
      /\ save'.todo = save.todo /\ save'.done = save.done
  BY DEF Fail, SettingsInv
<1>2. Planned' /\ Progress'
  BY <1>1 DEF SettingsInv, Planned, Progress, Touches
<1> QED
  BY <1>1, <1>2 DEF SettingsInv, SavedOrUntouched, AskedOfProviders

LEMMA IdleFields ==
  /\ DOMAIN Idle = {"step", "todo", "done", "new", "originals", "for"}
  /\ Idle.step = "none" /\ Idle.todo = <<>> /\ Idle.done = <<>>
BY DEF Idle

\* The files of a save that failed are restored, one after the other.
LEMMA RestoreProgresses ==
  ASSUME SettingsInv, Restore
  PROVE  SettingsInv'
<1>1. save.step = "restore" /\ UNCHANGED <<live, up, asked, torn>>
  BY DEF Restore
<1>2. CASE save.done = <<>> /\ save' = Idle /\ UNCHANGED file
  <2>1. Named(save.done) = {}
    BY <1>2 DEF Named
  <2>2. ~torn => file = live
    BY <1>1, <2>1, SameDocuments DEF SettingsInv, Progress
  <2> QED
    BY <1>1, <1>2, <2>2, IdleFields
    DEF SettingsInv, Planned, Progress, SavedOrUntouched, AskedOfProviders
<1>3. ASSUME save.done # <<>>, file' = [file EXCEPT ![Head(save.done)] =
                                         save.originals[Head(save.done)]],
             save' = [save EXCEPT !.done = Tail(@)]
      PROVE  SettingsInv'
  <2> DEFINE n == Head(save.done)
  <2>1. /\ save'.step = save.step /\ save'.new = save.new /\ save'.for = save.for
        /\ save'.originals = save.originals /\ DOMAIN save' = DOMAIN save
        /\ save'.todo = save.todo /\ save'.done = Tail(save.done)
    BY <1>3 DEF SettingsInv
  <2>2. /\ n \in Doc /\ save'.done \in Seq(Doc)
        /\ Named(save.done) = {n} \union Named(save'.done)
    BY <1>1, <1>3, <2>1, NamedFacts DEF SettingsInv, Planned
  <2>3. WellFormed(file')
        /\ file'[n] = save.originals[n] /\ \A m \in Doc : m # n => file'[m] = file[m]
    <3>1. WellFormed(file) /\ WellFormed(save.originals)
      BY <1>1 DEF SettingsInv, Planned
    <3>2. file' = [file EXCEPT ![n] = save.originals[n]]
      BY <1>3
    <3> HIDE DEF n
    <3>3. Replaces(file', file, save.originals, n)
      BY <2>2, <3>1, <3>2, ReplacedIsWellFormed
    <3> QED  BY <3>3 DEF Replaces
  <2>4. Planned'
    BY <1>1, <2>1, <2>2 DEF SettingsInv, Planned, Touches
  <2>5. Progress'
    <3> HIDE DEF n
    <3> QED  BY <1>1, <2>1, <2>2, <2>3 DEF SettingsInv, Progress
  <2> QED
    BY <1>1, <2>1, <2>3, <2>4, <2>5 DEF SettingsInv, SavedOrUntouched, AskedOfProviders
<1> QED  BY <1>1, <1>2, <1>3 DEF Restore

LEMMA RestoreFailsTears ==
  ASSUME SettingsInv, RestoreFails
  PROVE  SettingsInv'
BY IdleFields
DEF RestoreFails, SettingsInv, Planned, Progress, SavedOrUntouched, AskedOfProviders

\* Every file is replaced: what is new is on disk, and goes live.
LEMMA FinishSettles ==
  ASSUME SettingsInv, Finish
  PROVE  /\ SettingsInv'
         /\ save.for # NotAsked => Touches(live, live', save.for)
<1>1. /\ save.step = "replace" /\ save.todo = <<>>
      /\ live' = save.new /\ save' = Idle /\ torn' = (torn /\ save.done # Docs)
      /\ UNCHANGED <<file, up, asked>>
  BY DEF Finish
<1>2. /\ WellFormed(live') /\ Valid(live') /\ up
      /\ save.for # NotAsked => Touches(live, live', save.for)
  BY <1>1 DEF SettingsInv, Planned
<1>3. Named(save.todo) = {}
  BY <1>1 DEF Named
<1>4. ASSUME ~torn' PROVE file = live'
  <2>1. CASE torn
    <3>1. Named(save.done) = Doc
      BY <1>1, <1>4, <2>1, DocsNamed
    <3> QED
      BY <1>1, <1>2, <3>1, SameDocuments DEF SettingsInv, Progress
  <2>2. CASE ~torn
    <3>1. \A n \in Doc : file[n] = save.new[n]
      BY <1>1, <1>3, <2>2 DEF SettingsInv, Progress
    <3> QED
      BY <1>1, <1>2, <3>1, SameDocuments DEF SettingsInv
  <2> QED  BY <2>1, <2>2 DEF SettingsInv
<1> QED
  BY <1>1, <1>2, <1>4, IdleFields
  DEF SettingsInv, Planned, Progress, SavedOrUntouched, AskedOfProviders

\* A crash leaves the old files, the new ones, or what is torn.
LEMMA CrashLeaves ==
  ASSUME SettingsInv, Crash
  PROVE  SettingsInv'
<1>1. /\ up' = FALSE /\ torn' = (torn \/ (save.done # <<>> /\ save.todo # <<>>))
      /\ save' = Idle /\ UNCHANGED <<file, live>>
      /\ asked' = [d \in Discovery |-> NotAsked]
  BY DEF Crash
<1>2. ASSUME ~torn' PROVE Valid(file)
  <2>1. CASE save.step = "none"
    BY <1>1, <1>2, <2>1 DEF SettingsInv, SavedOrUntouched
  <2>2. CASE save.step # "none" /\ save.done = <<>>
    <3>1. Named(save.done) = {}
      BY <2>2 DEF Named
    <3>2. file = live
      BY <1>1, <1>2, <2>2, <3>1, SameDocuments DEF SettingsInv, Progress
    <3> QED  BY <3>2 DEF SettingsInv
  <2>3. CASE save.step # "none" /\ save.done # <<>>
    <3>1. save.todo = <<>> /\ save.step = "replace" /\ ~torn
      BY <1>1, <1>2, <2>3 DEF SettingsInv, Progress
    <3>2. Named(save.todo) = {}
      BY <3>1 DEF Named
    <3>3. \A n \in Doc : file[n] = save.new[n]
      BY <3>1, <3>2 DEF SettingsInv, Progress
    <3>4. file = save.new
      BY <2>3, <3>3, SameDocuments DEF SettingsInv, Planned
    <3> QED  BY <2>3, <3>4 DEF SettingsInv, Planned
  <2> QED  BY <2>1, <2>2, <2>3
<1> QED
  BY <1>1, <1>2, IdleFields
  DEF SettingsInv, Planned, Progress, SavedOrUntouched, AskedOfProviders

LEMMA OthersKeep ==
  ASSUME SettingsInv,
         \/ \E d \in Discovery, p \in Provider : Discover(d, p)
         \/ \E d \in Discovery : DiscoverFails(d)
         \/ UNCHANGED vars
  PROVE  SettingsInv'
<1>1. UNCHANGED <<file, live, up, save, torn>>
  BY DEF Discover, DiscoverFails, vars
<1>2. AskedOfProviders'
  BY DEF Discover, DiscoverFails, vars, SettingsInv, AskedOfProviders, NotAsked
<1> QED
  BY <1>1, <1>2 DEF SettingsInv, Planned, Progress, SavedOrUntouched, Touches

LEMMA StartSettles ==
  ASSUME SettingsInv, Start
  PROVE  SettingsInv'
<1>1. /\ ~up /\ Valid(file) /\ up' = TRUE /\ live' = file /\ torn' = FALSE
      /\ UNCHANGED <<file, save, asked>>
  BY DEF Start
<1>2. save.step = "none"
  BY <1>1 DEF SettingsInv, Planned
<1> QED
  BY <1>1, <1>2 DEF SettingsInv, Planned, Progress, SavedOrUntouched, AskedOfProviders

-------------------------------------------------------------------------------
LEMMA StepSettles == SettingsInv /\ [Next]_vars => SettingsInv'
BY WritesPlan, MergePlans, ReplaceProgresses, FailProgresses, RestoreProgresses,
   RestoreFailsTears, FinishSettles, CrashLeaves, StartSettles, OthersKeep
DEF Next

\* The live configuration changes when a save finishes, or the control plane starts.
LEMMA DiscoveryTouches ==
  SettingsInv /\ [Next]_vars =>
    (up /\ live' # live /\ save.for # NotAsked => Touches(live, live', save.for))
<1> SUFFICES ASSUME SettingsInv, Next, up, live' # live, save.for # NotAsked
             PROVE  Touches(live, live', save.for)
  BY DEF vars
<1>1. CASE Finish
  BY <1>1, FinishSettles
<1>2. CASE ~Finish
  BY <1>2
  DEF Next, WriteModels, WriteAgents, WriteScenes, WriteRuntime, DeleteProvider,
      SaveDocument, Discover, DiscoverAnswers, DiscoverFails, Replace, Fail, Restore,
      RestoreFails, Crash, Start
<1> QED  BY <1>1, <1>2

\* The live configuration validates, whatever is saved, discovered, edited or lost
\* ("_validate_values", config.py:438-485): no agent is bound to a model that is gone.
THEOREM LiveValidates == Spec => []Valid(live)
<1>1. SettingsInv => Valid(live)  BY DEF SettingsInv
<1> QED  BY <1>1, InitSettled, StepSettles, PTL DEF Spec

\* A save is whole or changes nothing (config.py:332-430), for any documents, and
\* whichever file cannot be replaced.
THEOREM SavesAreWhole == Spec => []SavedOrUntouched
<1>1. SettingsInv => SavedOrUntouched  BY DEF SettingsInv
<1> QED  BY <1>1, InitSettled, StepSettles, PTL DEF Spec

\* A discovery never saves over what changed while it waited (app.py:370-407), for any
\* number of discoveries and saves.
THEOREM DiscoveriesAreCurrent == Spec => DiscoveryIsCurrent
<1>1. SettingsInv /\ [Next]_vars =>
        [up /\ live' # live /\ save.for # NotAsked => Touches(live, live', save.for)]_vars
  BY DiscoveryTouches
<1>2. Spec => [][up /\ live' # live /\ save.for # NotAsked =>
                   Touches(live, live', save.for)]_vars
  BY <1>1, InitSettled, StepSettles, PTL DEF Spec
<1> QED  BY <1>2 DEF DiscoveryIsCurrent, Touches

-------------------------------------------------------------------------------
\* What the documents hold, in memory, on disk and in a save under way.
Typed(c) ==
  /\ c.models \in [Provider -> [url : Url, models : Seq(ModelConfig)] \union {Absent}]
  /\ c.agents \in AgentsDocument /\ c.scenes \in Prompt
  /\ c.runtime \in SUBSET Agent

TypeInv ==
  /\ Typed(file) /\ Typed(live)
  /\ save.step # "none" => Typed(save.new) /\ Typed(save.originals)
  /\ asked \in [Discovery -> [provider : Provider, url : Url] \union {NotAsked}]

LEMMA InvIsType == SettingsInv /\ TypeInv => TypeOK
<1> SUFFICES ASSUME SettingsInv, TypeInv PROVE TypeOK
  OBVIOUS
<1>1. ASSUME NEW c, Typed(c), NEW p \in Provider PROVE c.models[p].models \in Seq(ModelConfig)
  <2>1. c.models[p] \in [url : Url, models : Seq(ModelConfig)] \/ c.models[p] = Absent
    BY <1>1 DEF Typed
  <2>2. \A r \in [url : Url, models : Seq(ModelConfig)] : r.models \in Seq(ModelConfig)
    OBVIOUS
  <2>3. Absent.models \in Seq(ModelConfig)
    BY DEF Absent
  <2> QED  BY <2>1, <2>2, <2>3
<1> QED
  BY <1>1 DEF SettingsInv, TypeInv, Typed, TypeOK

LEMMA GreatestIndex ==
  ASSUME NEW n \in Nat, NEW T \in SUBSET (1..n), T # {}
  PROVE  \E i \in T : \A j \in T : j <= i
<1> DEFINE below == {n - i : i \in T}
<1>1. below \in SUBSET Nat /\ below # {}
  <2>1. \A i \in T : n - i \in Nat
    <3>1. \A i \in 1..n : n - i \in Nat
      OBVIOUS
    <3> QED  BY <3>1
  <2> QED  BY <2>1
<1>2. PICK x \in below : \A y \in below : <<y, x>> \notin OpToRel(<, Nat)
  BY <1>1, NatLessThanWellFounded, WFMin
<1>3. \A y \in below : ~(y < x)
  BY <1>1, <1>2 DEF OpToRel
<1>4. PICK i \in T : x = n - i
  OBVIOUS
<1>5. ASSUME NEW j \in T PROVE j <= i
  <2>1. n - j \in below
    OBVIOUS
  <2>2. ~(n - j < n - i)
    BY <1>3, <1>4, <2>1
  <2> QED  BY <2>2
<1> QED  BY <1>5

\* A name the provider answers with gets an id that some model has.
LEMMA DiscoveredIsTyped ==
  ASSUME NEW models \in Seq(ModelConfig), NEW names \in Remote
  PROVE  /\ Discovered(models, names) \in Seq(ModelConfig)
         /\ 1 \in DOMAIN Discovered(models, names)
<1>1. names \in Seq(Names) /\ names # <<>>
  BY SettingsAssumption
<1>2. \A i \in DOMAIN names : names[i] \in Ids /\ names[i] \in Names
  <2>1. ASSUME NEW x \in Answered PROVE x \in Ids /\ x \in Names
    BY <2>1 DEF Ids, Names
  <2>2. ASSUME NEW i \in DOMAIN names PROVE names[i] \in Answered
    <3>1. names[i] \in {names[j] : j \in DOMAIN names}
      OBVIOUS
    <3> QED  BY <3>1, Zenon DEF Answered
  <2> QED  BY <2>1, <2>2
<1>3. ASSUME NEW name \in Ids PROVE IdOf(models, name) \in Ids
  <2> DEFINE known == {i \in DOMAIN models : models[i].name = name}
  <2>1. CASE known = {}
    BY <2>1 DEF IdOf
  <2>2. CASE known # {}
    <3>1. known \in SUBSET (1..Len(models)) /\ Len(models) \in Nat
      OBVIOUS
    <3>2. \E i \in known : \A j \in known : j <= i
      <4> HIDE DEF known
      <4> QED  BY <2>2, <3>1, GreatestIndex
    <3>3. (CHOOSE i \in known : \A j \in known : j <= i) \in known
      <4> HIDE DEF known
      <4> QED  BY <3>2
    <3>4. \A i \in known : models[i].id \in Ids
      <4>1. \A i \in known : models[i] \in ModelConfig
        BY <3>1
      <4>2. \A r \in ModelConfig : r.id \in Ids
        BY DEF ModelConfig
      <4> QED  BY <4>1, <4>2
    <3>5. IdOf(models, name) = models[CHOOSE i \in known : \A j \in known : j <= i].id
      BY <2>2 DEF IdOf
    <3> HIDE DEF known
    <3> QED  BY <3>3, <3>4, <3>5
  <2> QED  BY <2>1, <2>2
<1>4. \A i \in DOMAIN names : Discovered(models, names)[i] \in ModelConfig
  BY <1>2, <1>3 DEF Discovered, ModelConfig
<1>5. Len(names) \in Nat /\ DOMAIN names = 1..Len(names) /\ 1 \in DOMAIN names
  BY <1>1
<1>6. Discovered(models, names) = [i \in 1..Len(names) |-> Discovered(models, names)[i]]
  BY <1>5 DEF Discovered
<1> HIDE DEF Discovered
<1>7. Discovered(models, names) \in [1..Len(names) -> ModelConfig]
  BY <1>4, <1>5, <1>6
<1>8. Discovered(models, names) \in Seq(ModelConfig)
  BY <1>5, <1>7
<1> QED  BY <1>5, <1>7, <1>8

LEMMA ModelsDocumentIsTyped ==
  ModelsDocument \subseteq [Provider -> [url : Url, models : Seq(ModelConfig)] \union {Absent}]
BY SettingsAssumption DEF ModelsDocument, Provided

LEMMA InitTyped == Init => TypeInv
<1> SUFFICES ASSUME Init PROVE TypeInv
  OBVIOUS
<1>1. Typed(file)
  BY ModelsDocumentIsTyped, SettingsAssumption DEF Init, Typed
<1> QED  BY <1>1 DEF Init, TypeInv, Idle

\* A save that begins with typed documents keeps every document typed.
LEMMA BeginTyped ==
  ASSUME TypeInv, NEW c, Typed(c), NEW docs, NEW for, Begin(c, docs, for),
         UNCHANGED <<file, live>>,
         asked' \in [Discovery -> [provider : Provider, url : Url] \union {NotAsked}]
  PROVE  TypeInv'
<1>1. save'.new = c /\ save'.originals = file
  BY DEF Begin
<1> QED  BY <1>1 DEF TypeInv, Typed

LEMMA WritesTyped ==
  ASSUME SettingsInv, TypeInv,
         \/ WriteModels \/ WriteAgents \/ WriteScenes \/ WriteRuntime
         \/ \E p \in Provider : DeleteProvider(p)
  PROVE  TypeInv'
<1>1. ASSUME NEW name \in Doc, NEW value, SaveDocument(name, value),
             Typed([live EXCEPT ![name] = value])
      PROVE  TypeInv'
  BY <1>1, BeginTyped DEF SaveDocument, TypeInv
<1>2. DOMAIN live = Doc
  BY Zenon DEF SettingsInv, WellFormed
<1>3. ASSUME NEW v \in ModelsDocument, SaveDocument("models", v) PROVE TypeInv'
  <2>1. Typed([live EXCEPT !.models = v])
    BY <1>2, ModelsDocumentIsTyped DEF TypeInv, Typed, Doc
  <2> QED  BY <1>1, <1>3, <2>1 DEF Doc
<1>4. ASSUME NEW v \in AgentsDocument, SaveDocument("agents", v) PROVE TypeInv'
  <2>1. Typed([live EXCEPT !.agents = v])
    BY <1>2 DEF TypeInv, Typed, Doc
  <2> QED  BY <1>1, <1>4, <2>1 DEF Doc
<1>5. ASSUME NEW v \in Prompt, SaveDocument("scenes", v) PROVE TypeInv'
  <2>1. Typed([live EXCEPT !.scenes = v])
    BY <1>2 DEF TypeInv, Typed, Doc
  <2> QED  BY <1>1, <1>5, <2>1 DEF Doc
<1>6. ASSUME NEW v \in SUBSET Agent, SaveDocument("runtime", v) PROVE TypeInv'
  <2>1. Typed([live EXCEPT !.runtime = v])
    BY <1>2 DEF TypeInv, Typed, Doc
  <2> QED  BY <1>1, <1>6, <2>1 DEF Doc
<1>7. ASSUME NEW p \in Provider, DeleteProvider(p) PROVE TypeInv'
  <2> DEFINE v == [live.models EXCEPT ![p] = Absent]
  <2>1. v \in [Provider -> [url : Url, models : Seq(ModelConfig)] \union {Absent}]
    BY DEF TypeInv, Typed
  <2>2. SaveDocument("models", v)
    BY <1>7 DEF DeleteProvider
  <2> HIDE DEF v
  <2>3. Typed([live EXCEPT !.models = v])
    BY <1>2, <2>1 DEF TypeInv, Typed, Doc
  <2> QED  BY <1>1, <2>2, <2>3 DEF Doc
<1> QED
  BY <1>3, <1>4, <1>5, <1>6, <1>7
  DEF WriteModels, WriteAgents, WriteScenes, WriteRuntime

\* The answer is only merged into a provider that is still there: its endpoint is the one
\* that was asked.
LEMMA MergeTyped ==
  ASSUME SettingsInv, TypeInv, NEW d \in Discovery, NEW names \in Remote,
         DiscoverAnswers(d, names)
  PROVE  TypeInv'
<1> DEFINE p == asked[d].provider
           models == Discovered(live.models[p].models, names)
           agents == Rebound(live.agents, p, models)
           new == [live EXCEPT !.models[p].models = models, !.agents = agents]
<1>1. asked' \in [Discovery -> [provider : Provider, url : Url] \union {NotAsked}]
      /\ UNCHANGED <<file, live>>
  BY DEF DiscoverAnswers, TypeInv
<1>2. CASE UNCHANGED save
  BY <1>1, <1>2 DEF TypeInv, Typed
<1>3. CASE StillAsked(d) /\ Merge(d, names)
  <2>1. Begin(new, Docs, asked[d])
    BY <1>3 DEF Merge
  <2>2. p \in Provider /\ asked[d].url \in Url
    BY DEF DiscoverAnswers, TypeInv
  <2>3. live.models[p] \in [url : Url, models : Seq(ModelConfig)]
    BY <1>3, <2>2, SettingsAssumption DEF StillAsked, TypeInv, Typed, Absent
  <2>4. models \in Seq(ModelConfig) /\ 1 \in DOMAIN models
    BY <2>3, DiscoveredIsTyped
  <2>5. models[1].id \in Ids
    <3> HIDE DEF models
    <3>1. models[1] \in ModelConfig
      BY <2>4
    <3> QED  BY <3>1 DEF ModelConfig
  <2>6. agents \in AgentsDocument
    <3> HIDE DEF models, p
    <3>1. \A a \in Agent : live.agents[a] \in [provider : Provider, model : Ids]
      BY DEF TypeInv, Typed, AgentsDocument
    <3>2. \A a \in Agent : agents[a] \in [provider : Provider, model : Ids]
      BY <2>5, <3>1 DEF Rebound
    <3>3. agents = [a \in Agent |-> agents[a]]
      BY DEF Rebound
    <3> HIDE DEF agents
    <3> QED  BY <3>2, <3>3 DEF AgentsDocument
  <2>7. DOMAIN live = Doc
    BY Zenon DEF SettingsInv, WellFormed
  <2>8. /\ new.models = [live.models EXCEPT ![p] = [live.models[p] EXCEPT !.models = models]]
        /\ new.agents = agents /\ new.scenes = live.scenes /\ new.runtime = live.runtime
    <3> HIDE DEF models, agents, p
    <3> QED  BY <2>7 DEF Doc
  <2>9. [live.models[p] EXCEPT !.models = models] \in [url : Url, models : Seq(ModelConfig)]
    <3> HIDE DEF models, p
    <3> QED  BY <2>3, <2>4
  <2>10. Typed(new)
    <3> HIDE DEF new, models, agents, p
    <3> QED  BY <2>2, <2>6, <2>8, <2>9 DEF TypeInv, Typed
  <2> HIDE DEF new
  <2> QED  BY <1>1, <2>1, <2>10, BeginTyped
<1> QED
  BY <1>2, <1>3 DEF DiscoverAnswers

LEMMA ReplacedIsTyped ==
  ASSUME NEW c, NEW e, Typed(c), Typed(e), DOMAIN c = Doc, NEW n \in Doc
  PROVE  Typed([c EXCEPT ![n] = e[n]])
BY DEF Typed, Doc

LEMMA StepTyped ==
  ASSUME SettingsInv, TypeInv, [Next]_vars
  PROVE  TypeInv'
<1>1. ASSUME NEW d \in Discovery, NEW p \in Provider, Discover(d, p) PROVE TypeInv'
  BY <1>1 DEF Discover, TypeInv, Typed
<1>2. ASSUME NEW d \in Discovery, DiscoverFails(d) PROVE TypeInv'
  BY <1>2 DEF DiscoverFails, TypeInv, Typed
<1>3. DOMAIN file = Doc
  BY Zenon DEF SettingsInv, WellFormed
<1>4. ASSUME Replace PROVE TypeInv'
  <2>1. Head(save.todo) \in Doc /\ Typed(save.new) /\ Typed(save.originals)
        /\ save'.new = save.new /\ save'.originals = save.originals
    BY <1>4, NamedFacts DEF Replace, SettingsInv, Planned, TypeInv
  <2>2. Typed(file')
    BY <1>3, <1>4, <2>1, ReplacedIsTyped DEF Replace, TypeInv
  <2> QED  BY <1>4, <2>1, <2>2 DEF Replace, TypeInv, Typed
<1>5. ASSUME Fail PROVE TypeInv'
  BY <1>5 DEF Fail, SettingsInv, TypeInv, Typed
<1>6. ASSUME Restore PROVE TypeInv'
  <2>1. CASE save' = Idle /\ UNCHANGED file
    BY <1>6, <2>1, IdleFields DEF Restore, TypeInv, Typed
  <2>2. CASE /\ save.done # <<>>
             /\ LET n == Head(save.done) IN file' = [file EXCEPT ![n] = save.originals[n]]
             /\ save' = [save EXCEPT !.done = Tail(@)]
    <3>1. Head(save.done) \in Doc /\ Typed(save.new) /\ Typed(save.originals)
          /\ save'.new = save.new /\ save'.originals = save.originals
      BY <1>6, <2>2, NamedFacts DEF Restore, SettingsInv, Planned, TypeInv
    <3>2. Typed(file')
      BY <1>3, <2>2, <3>1, ReplacedIsTyped DEF TypeInv
    <3> QED  BY <1>6, <3>1, <3>2 DEF Restore, TypeInv, Typed
  <2> QED  BY <1>6, <2>1, <2>2 DEF Restore
<1>7. ASSUME RestoreFails \/ Finish \/ Crash \/ Start PROVE TypeInv'
  <2>1. UNCHANGED file /\ Typed(live') /\ (save' = Idle \/ UNCHANGED save)
        /\ asked' \in [Discovery -> [provider : Provider, url : Url] \union {NotAsked}]
    BY <1>7 DEF RestoreFails, Finish, Crash, Start, TypeInv, Typed
  <2> QED  BY <2>1, IdleFields DEF TypeInv, Typed
<1>8. ASSUME UNCHANGED vars PROVE TypeInv'
  BY <1>8 DEF vars, TypeInv, Typed
<1> QED
  BY <1>1, <1>2, <1>4, <1>5, <1>6, <1>7, <1>8, WritesTyped, MergeTyped DEF Next

\* Every document keeps its type, on disk and in memory, through saves, discoveries,
\* failures and crashes: an agent is always bound to an id a model has, or a name a
\* provider answered with (config.py:24-111, app.py:382-399).
THEOREM TypeCorrect == Spec => []TypeOK
<1>1. Init => SettingsInv /\ TypeInv
  BY InitSettled, InitTyped
<1>2. SettingsInv /\ TypeInv /\ [Next]_vars => SettingsInv' /\ TypeInv'
  BY StepSettles, StepTyped
<1> QED  BY <1>1, <1>2, InvIsType, PTL DEF Spec
===============================================================================
