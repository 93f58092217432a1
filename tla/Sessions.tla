------------------------------ MODULE Sessions ------------------------------
(***************************************************************************)
(* What the gateway promises: access to a workspace is carried by tokens   *)
(* of bounded life, and a token comes from a positive review, from a       *)
(* bootstrap token, or from a session token whose review failed.  Nothing  *)
(* is said of cookies, requests, keys or caches; whatever holds a token    *)
(* may lose it.                                                            *)
(***************************************************************************)
EXTENDS SessionTokens

VARIABLES
  away,   \* how long each condition has not held
  caps    \* the tokens in circulation and the permits being acted on

svars == <<away, caps>>

Caps == [kind : Kinds, age : Nat, doubt : Nat]

Cap(k, a, d) == [kind |-> k, age |-> a, doubt |-> d]

Init == away \in [Conditions -> 0..MaxAway] /\ caps = {}

\* A condition that holds does so now; one that does not, a tick longer.
Longer(n) == IF n < MaxAway THEN n + 1 ELSE MaxAway

Tick ==
  /\ away' \in [Conditions -> 0..MaxAway]
  /\ \A c \in Conditions : away'[c] \in {0, Longer(away[c])}
  /\ \A x \in caps' : \E y \in caps : x = [y EXCEPT !.age = @ + 1] /\ x.age <= Span(x.kind)

\* A condition begins to hold.
Restore ==
  /\ \E c \in Conditions : away' = [away EXCEPT ![c] = 0]
  /\ caps' = caps

\* A review finds each condition in turn.
Authorise ==
  /\ \A c \in Conditions : away[c] <= Latency
  /\ away' = away
  /\ caps' \subseteq caps \cup {Cap("permit", 0, 0)}

\* What a permit or a token can be turned into.
Yields(x) ==
  IF x.kind = "permit" THEN {Cap("bootstrap", 0, 0), Cap("session", 0, 0)}
  ELSE IF x.kind = "bootstrap" THEN {Cap("session", 0, x.doubt)}
  ELSE {Cap("session", 0, x.doubt + 1)}

Issue ==
  /\ away' = away
  /\ \E x \in caps : caps' \subseteq caps \cup Yields(x)

Next == Tick \/ Restore \/ Authorise \/ Issue

Spec == Init /\ [][Next]_svars
-------------------------------------------------------------------------------
TypeOK == away \in [Conditions -> 0..MaxAway] /\ caps \subseteq Caps

\* No token outlives the conditions it was issued under by more than its lag.
Recent ==
  \A x \in caps : /\ x.age <= Span(x.kind)
                  /\ \A c \in Conditions : away[c] <= x.age + Lag(x.kind, x.doubt)
=============================================================================
