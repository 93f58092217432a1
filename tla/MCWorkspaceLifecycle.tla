------------------------ MODULE MCWorkspaceLifecycle ------------------------
(* Instances of WorkspaceLifecycle for TLC. *)
EXTENDS WorkspaceLifecycle

CONSTANTS
  s1, s2, a, b,
  Prompt    \* caches that never lag behind the server, where PromptCaches constrains

NoTemplates  == <<>>
OneTemplate  == [s \in {s1} |-> {a}]
TwoTemplates == [s \in {s1, s2} |-> IF s = s1 THEN {a} ELSE {b}]

\* Nothing else happens while a prompt cache is behind.
PromptCaches ==
  \/ Informers
  \/ Prompt \cap Watched \subseteq fresh /\ ("strat" \in Prompt => cstrat = strat)
=============================================================================
