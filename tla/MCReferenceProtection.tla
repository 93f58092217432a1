----------------------- MODULE MCReferenceProtection -----------------------
(* Instances of ReferenceProtection for TLC. *)
EXTENDS ReferenceProtection, TLC

CONSTANTS w1, w2, s1, s2, t1

Home1 == {<<t1, Home>>}
Shared1 == {<<t1, Shared>>}
Both == Home1 \cup Shared1
OneRef == {None, <<t1, Home>>}
NoTemplate == {None}
NoDefaults == [x \in Templates |-> None]
StrategyDefaults == [x \in Templates |-> s1]
Symmetric == Permutations(Workspaces)

\* Strategies no template or cluster default singles out.
Interchangeable == Permutations(Workspaces) \cup Permutations(Strategies)
=============================================================================
