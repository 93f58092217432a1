---------------------------- MODULE MCAdmission ----------------------------
(* Instances of Admission for TLC. *)
EXTENDS Admission, TLC

CONSTANTS r1, r2, alice, bob, root, t1, i1, i2, theirs

Open ==
  [image |-> i1, allowed |-> {i1, i2}, custom |-> FALSE, own |-> None, access |-> None,
   res |-> NoResources, bounds |-> [min |-> 0, max |-> 0],
   storage |-> [set |-> TRUE, size |-> 0, path |-> None, min |-> 0, max |-> 3],
   secondary |-> TRUE, plain |-> None, overrides |-> 0]

\* Open with tighter resources, and defaults for them, storage and the rest.
Bounded ==
  [Open EXCEPT !.res = [set |-> TRUE, req |-> 1, lim |-> 1],
               !.bounds = [min |-> 1, max |-> 1], !.plain = "plain",
               !.storage.size = 2, !.storage.path = "path", !.overrides = 1]

\* Open but for the least size of storage.
Raised == [Open EXCEPT !.storage.min = 2]

Closed ==
  [Open EXCEPT !.image = i2, !.allowed = {}, !.own = "OwnerOnly", !.secondary = FALSE]

SomeForms == {Open, Bounded, Raised, Closed}
SomeQuantities == {[set |-> TRUE, req |-> 2, lim |-> 2]}
SomeStores == {[set |-> TRUE, size |-> n, path |-> None] : n \in {0, 3}}
SomeGrants == {{}, Users}
SomeDrafts ==
  {[Blank EXCEPT !.tmpl = t1, !.image = i2, !.store = [set |-> TRUE, size |-> 1, path |-> None]]}
OneForm == {Open}
Symmetric == Permutations(Users) \cup Permutations(Requests)
=============================================================================
