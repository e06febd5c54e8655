------------------------------- MODULE MCSettings -------------------------------
(* Two providers, two endpoints and two names for TLC. *)
EXTENDS Settings

Model(i, n) == [id |-> i, name |-> n]

\* A model under another name, and two under their own.
Lists == {<<Model("b", "a")>>, <<Model("a", "a"), Model("b", "b")>>}

Answers == {<<"a">>, <<"b", "a">>}
===============================================================================
