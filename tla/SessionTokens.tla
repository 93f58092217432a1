---------------------------- MODULE SessionTokens ----------------------------
(***************************************************************************)
(* The tokens that carry a user's access to a workspace: a bootstrap token *)
(* in the URL the extension API returns, and the session token in the      *)
(* browser's cookie.  Time is counted in ticks, and a token is dated by    *)
(* its age, the ticks since its "iat"; it is accepted below age Life(kind). *)
(***************************************************************************)
EXTENDS Integers

CONSTANTS
  Expiration,   \* expiration of a session token
  BootLife,     \* how long a bootstrap token is accepted
  Leeway,       \* how long a session token is accepted after it expired
  Window,       \* refreshWindow
  Horizon,      \* refreshHorizon
  Latency,      \* ticks a request may take
  MaxAway       \* longest absence of access that is told apart

ASSUME TokenAssumption ==
  /\ Expiration \in Nat \ {0} /\ BootLife \in Nat \ {0}
  /\ Leeway \in Nat /\ Window \in 1..Expiration /\ Horizon \in Nat /\ Expiration <= Horizon
  /\ Latency \in Nat /\ MaxAway \in Nat

\* What a connection needs: permission on the resource in the namespace, and a
\* workspace that is public or the user's own.
Conditions == {"rbac", "workspace"}

\* A permit is a positive access review that has yet to be acted on.
Kinds == {"permit", "bootstrap", "session"}

Life(k) == IF k = "session" THEN Expiration + Leeway ELSE IF k = "bootstrap" THEN BootLife ELSE 1

\* A request that presented a token in time may use its claims until it is answered.
Span(k) == Life(k) - 1 + Latency

\* ShouldRefreshToken, of a token that is age ticks old.
ShouldRefreshToken(age) ==
  /\ Expiration - age > 0
  /\ Expiration - age <= Window
  /\ age < Horizon

\* How long before the issue of a token a condition may last have held: the review's
\* own duration, the time until the token was issued, the life of the bootstrap token
\* it was exchanged for, and one session for every review that failed.
Lag(k, doubt) ==
  IF k = "permit" THEN Latency
  ELSE IF k = "bootstrap" THEN 2 * Latency
  ELSE 3 * Latency + BootLife - 1 + doubt * Span("session")
=============================================================================
