------------------------------- MODULE Gateway -------------------------------
(***************************************************************************)
(* How a user's browser gets to a workspace.  The extension API answers a  *)
(* connection request with a URL that holds a bootstrap token, and reviews *)
(* access for the authentication middleware; the middleware exchanges the  *)
(* bootstrap token, or an OIDC identity, for a session cookie, and         *)
(* verifies and refreshes the cookie on every request the ingress          *)
(* forwards.  One user and one workspace; requests run concurrently and    *)
(* their responses reach the browser in any order, or never.               *)
(***************************************************************************)
EXTENDS SessionTokens

CONSTANTS
  Requests,      \* requests under way at a time
  User,          \* the user
  Owners,        \* owners of the workspace, over time
  AccessTypes,   \* values of spec.accessType
  MaxChanges,    \* changes to the workspace and to the user's permission
  MaxFaults,     \* calls that fail
  MaxTroubles,   \* changes and faults, in all
  MaxLogins      \* connection requests and OIDC logins

ASSUME BoundAssumption ==
  MaxChanges \in Nat /\ MaxFaults \in Nat /\ MaxTroubles \in Nat /\ MaxLogins \in Nat

VARIABLES
  ws,        \* the workspace, as CheckWorkspaceAccess reads it
  rbac,      \* whether the user may create workspaceconnections in the namespace
  away,      \* history: for how long the workspace, and RBAC, have not let the user in
  cookie,    \* the browser's session cookie
  link,      \* the token of the connection URL the user was given
  req,       \* requests, each with the response on its way to the browser
  spent      \* changes, faults and logins so far

vars == <<ws, rbac, away, cookie, link, req, spent>>

NoToken == [kind |-> "none", age |-> 0, doubt |-> 0]
NoWorkspace == [found |-> FALSE, accessType |-> "", owner |-> User]

\* GenerateToken; doubt counts the failed reviews since the last positive one.
GenerateToken(kind, doubt) == [kind |-> kind, age |-> 0, doubt |-> doubt]

\* A request: its route and next call, how long it takes, the token it presented and
\* validated, the age of its positive review (-1: none), and its response.
NoRequest == [route |-> "none", pc |-> "idle", wait |-> 0, tok |-> NoToken, review |-> -1,
              ok |-> FALSE, set |-> NoToken, clear |-> FALSE]

Existing == [found : {TRUE}, accessType : AccessTypes, owner : Owners]

\* getWorkspaceAccessType, getWorkspaceOwner and the decision of CheckWorkspaceAccess.
Public == ws.accessType \in {"", "Public"}
CheckWorkspaceAccess == ws.found /\ (Public \/ ws.owner = User)

Holds(c) == IF c = "rbac" THEN rbac ELSE CheckWorkspaceAccess

Init ==
  /\ ws \in Existing /\ rbac = TRUE
  /\ away = [c \in Conditions |-> IF Holds(c) THEN 0 ELSE MaxAway]
  /\ cookie = NoToken /\ link = NoToken
  /\ req = [r \in Requests |-> NoRequest]
  /\ spent = [changes |-> 0, faults |-> 0, logins |-> 0]

Room(k, max) == spent[k] < max /\ spent.changes + spent.faults < MaxTroubles
Spend(k) == spent' = [spent EXCEPT ![k] = @ + 1]
-------------------------------------------------------------------------------
(***************************************************************************)
(* The cluster: the workspace is edited, deleted and created again, and    *)
(* the user's permission granted and withdrawn.  Time passes.              *)
(***************************************************************************)
\* A condition that holds after a change has not been away.
Change(c) ==
  /\ Room("changes", MaxChanges) /\ Spend("changes")
  /\ away' = [away EXCEPT ![c] = IF Holds(c)' THEN 0 ELSE @]
  /\ UNCHANGED <<cookie, link, req>>

ChangeWorkspace ==
  /\ \/ ws.found /\ ws' = NoWorkspace
     \/ ~ws.found /\ ws' \in Existing
     \/ ws.found /\ \E t \in AccessTypes \ {ws.accessType} : ws' = [ws EXCEPT !.accessType = t]
  /\ Change("workspace") /\ UNCHANGED rbac

ChangePermission ==
  /\ rbac' = ~rbac
  /\ Change("rbac") /\ UNCHANGED ws

OlderForever(t) == IF t.kind # "none" THEN [t EXCEPT !.age = @ + 1] ELSE NoToken

OlderNever(t) == t

\* An expired token is as good as none.
Older(t) == IF t.kind # "none" /\ t.age < Span(t.kind) THEN [t EXCEPT !.age = @ + 1] ELSE NoToken

Longer(n) == IF n < MaxAway THEN n + 1 ELSE MaxAway

\* A request under way, which the server's timeouts end after Latency ticks.
Running(r) == req[r].pc \notin {"idle", "reply"}

OlderRequest(q) ==
  IF q.pc = "reply" THEN [q EXCEPT !.set = Older(@)]
  ELSE IF q.pc = "idle" THEN q
  ELSE [q EXCEPT !.wait = @ + 1, !.tok = Older(@), !.review = IF @ >= 0 THEN @ + 1 ELSE @]

Tick ==
  /\ \A r \in Requests : Running(r) => req[r].wait < Latency
  /\ away' = [c \in Conditions |-> IF Holds(c) THEN 0 ELSE Longer(away[c])]
  /\ cookie' = Older(cookie) /\ link' = Older(link)
  /\ req' = [r \in Requests |-> OlderRequest(req[r])]
  /\ UNCHANGED <<ws, rbac, spent>>
-------------------------------------------------------------------------------
(***************************************************************************)
(* A request begins.                                                       *)
(***************************************************************************)
Begin(r, route, pc, tok) ==
  /\ req[r].pc = "idle"
  /\ req' = [req EXCEPT ![r] = [NoRequest EXCEPT !.route = route, !.pc = pc, !.tok = tok]]
  /\ UNCHANGED <<ws, rbac, away, cookie, link>>

\* HandleConnectionCreate; the API server forwards the request of a user who may
\* create workspaceconnections.
HandleConnectionCreate(r) ==
  /\ rbac /\ spent.logins < MaxLogins /\ Spend("logins")
  /\ Begin(r, "connect", "access", NoToken)

\* handleAuth: the OIDC token and the headers that must agree with it are verified.
HandleAuth(r) ==
  /\ spent.logins < MaxLogins /\ Spend("logins")
  /\ Begin(r, "auth", "rbac", NoToken)

\* handleBearerAuth and handleVerify: the browser presents a token it holds.
Present(r, route) ==
  /\ \E t \in {cookie, link} \ {NoToken} : Begin(r, route, "validate", t)
  /\ UNCHANGED spent

HandleBearerAuth(r) == Present(r, "bearer")
HandleVerify(r) == Present(r, "verify")
-------------------------------------------------------------------------------
(***************************************************************************)
(* The steps of a request.  A call it makes may fail.                      *)
(***************************************************************************)
Response(r, ok, set, clear) ==
  [NoRequest EXCEPT !.route = req[r].route, !.pc = "reply", !.ok = ok, !.set = set, !.clear = clear]
Refusal(r) == Response(r, FALSE, NoToken, FALSE)

Outcomes == IF Room("faults", MaxFaults) THEN {"ok", "fault"} ELSE {"ok"}
Answer(o) == IF o = "fault" THEN Spend("faults") ELSE UNCHANGED spent

Goto(r, pc) == [req[r] EXCEPT !.pc = pc]
Continue(r, q) ==
  /\ req' = [req EXCEPT ![r] = q]
  /\ UNCHANGED <<ws, rbac, away, cookie, link>>

Accepts(route) == IF route = "bearer" THEN "bootstrap" ELSE "session"

ValidatedAnyType(r, fits) == LET q == req[r] IN
  q.tok.kind # "none" /\ q.tok.age < Life(q.tok.kind) /\ fits

\* ValidateToken, the token's type, and whether its path and domain are the request's.
Validated(r, fits) == LET q == req[r] IN
  /\ q.tok.kind # "none" /\ q.tok.age < Life(q.tok.kind)
  /\ q.tok.kind = Accepts(q.route)
  /\ fits

ValidateToken(r) ==
  /\ req[r].pc = "validate"
  /\ \E o \in Outcomes, fits \in BOOLEAN :
       /\ Answer(o)
       /\ Continue(r, IF o = "fault" \/ ~Validated(r, fits) THEN Refusal(r)
                      ELSE IF req[r].route = "bearer" THEN Goto(r, "mint")
                      ELSE IF ShouldRefreshToken(req[r].tok.age) THEN Goto(r, "rbac")
                      ELSE Response(r, TRUE, NoToken, FALSE))

\* What a review leads to.  handleVerify goes on when the review could not be made, and
\* clears the cookie of a user who is no longer allowed.
Verdict(r, v) ==
  IF v = "allowed" THEN [Goto(r, "mint") EXCEPT !.review = 0]
  ELSE IF req[r].route # "verify" THEN Refusal(r)
  ELSE IF v = "failed" THEN Goto(r, "mint")
  ELSE Response(r, FALSE, NoToken, TRUE)

CheckRBACPermissionUnread(r) ==
  /\ req[r].pc = "rbac"
  /\ \E o \in Outcomes :
       /\ Answer(o)
       /\ Continue(r, IF o = "fault" THEN Verdict(r, "failed") ELSE Goto(r, "access"))

\* CheckWorkspaceConnectionPermission asks for the permission first.
CheckRBACPermission(r) ==
  /\ req[r].pc = "rbac"
  /\ \E o \in Outcomes :
       /\ Answer(o)
       /\ Continue(r, IF o = "fault" THEN Verdict(r, "failed")
                      ELSE IF ~rbac THEN Verdict(r, "denied")
                      ELSE Goto(r, "access"))

\* Then it reads the workspace, as HandleConnectionCreate does.
CheckAccess(r) ==
  /\ req[r].pc = "access"
  /\ \E o \in Outcomes :
       /\ Answer(o)
       /\ Continue(r, Verdict(r, IF o = "fault" THEN "failed"
                                 ELSE IF CheckWorkspaceAccess THEN "allowed" ELSE "denied"))

\* Token and cookie of each route: the URL of generateWebUIBearerTokenURL, which reads
\* the workspace again; a new session; RefreshToken and UpdateSkipRefreshToken.
Minted(r) == LET q == req[r] IN
  IF q.route = "connect" THEN GenerateToken("bootstrap", 0)
  ELSE IF q.review >= 0 THEN GenerateToken("session", 0)
  ELSE IF q.route = "bearer" THEN GenerateToken("session", q.tok.doubt)
  ELSE GenerateToken("session", q.tok.doubt + 1)

\* handleVerify lets a request through although no new token could be generated.
Mint(r) ==
  /\ req[r].pc = "mint"
  /\ \E o \in Outcomes :
       /\ Answer(o)
       /\ Continue(r, IF o = "ok" /\ (req[r].route = "connect" => ws.found)
                      THEN Response(r, TRUE, Minted(r), FALSE)
                      ELSE Response(r, req[r].route = "verify", NoToken, FALSE))
-------------------------------------------------------------------------------
(***************************************************************************)
(* The browser.                                                            *)
(***************************************************************************)
Deliver(r) ==
  /\ req[r].pc = "reply"
  /\ LET q == req[r] IN
       /\ cookie' = IF q.clear THEN NoToken ELSE IF q.set.kind = "session" THEN q.set ELSE cookie
       /\ link' = IF q.set.kind = "bootstrap" THEN q.set ELSE link
  /\ req' = [req EXCEPT ![r] = NoRequest]
  /\ UNCHANGED <<ws, rbac, away, spent>>

Lose(r) ==
  /\ req[r].pc = "reply"
  /\ req' = [req EXCEPT ![r] = NoRequest]
  /\ UNCHANGED <<ws, rbac, away, cookie, link, spent>>
-------------------------------------------------------------------------------
Handler(r) ==
  ValidateToken(r) \/ CheckRBACPermission(r) \/ CheckAccess(r) \/ Mint(r)

Arrival(r) ==
  HandleConnectionCreate(r) \/ HandleAuth(r) \/ HandleBearerAuth(r) \/ HandleVerify(r)

Next ==
  \/ ChangeWorkspace \/ ChangePermission \/ Tick
  \/ \E r \in Requests : Arrival(r) \/ Handler(r) \/ Deliver(r) \/ Lose(r)

Spec == Init /\ [][Next]_vars

\* Time passes, and the timeouts of the server and its clients end every request.
FairSpec == Spec /\ WF_vars(Tick) /\ \A r \in Requests : WF_vars(Handler(r))
-------------------------------------------------------------------------------
(***************************************************************************)
(* Properties.                                                             *)
(***************************************************************************)
Token == {NoToken} \cup {t \in [kind : {"bootstrap", "session"}, age : Nat, doubt : 0..MaxFaults] :
                           t.age <= Span(t.kind)}

Request == [route : {"none", "connect", "auth", "bearer", "verify"},
            pc : {"idle", "validate", "rbac", "access", "mint", "reply"},
            wait : 0..Latency, tok : Token, review : -1..Latency,
            ok : BOOLEAN, set : Token, clear : BOOLEAN]

\* Tokens are of their kinds and ages, and requests answered in time.
TypeOK ==
  /\ ws \in Existing \cup {NoWorkspace} /\ rbac \in BOOLEAN
  /\ away \in [Conditions -> 0..MaxAway]
  /\ cookie \in Token /\ link \in Token
  /\ req \in [Requests -> Request]
  /\ spent \in [changes : 0..MaxChanges, faults : 0..MaxFaults, logins : 0..MaxLogins]

\* handleVerify lets a request through at this step.
Admits(r) == Running(r) /\ req[r].route = "verify" /\ req'[r].pc = "reply" /\ req'[r].ok

\* A request is let through only if the user had the permission, and the workspace let
\* them in, no longer ago than a session's life and what its issue can have taken, and
\* one session's life more for every access review that failed since (handleVerify's
\* refresh, handleBearerAuth's exchange without a review).
AuthorisedRecently ==
  [][\A r \in Requests : Admits(r) =>
       \A c \in Conditions : away[c] <= Span("session") + Lag("session", req[r].tok.doubt)]_vars

\* The tokens and permits of the promised specification: what the browser holds, what
\* requests and responses carry, and the positive reviews requests are acting on.
Permits == {[kind |-> "permit", age |-> req[r].review, doubt |-> 0] :
              r \in {q \in Requests : req[q].review >= 0}}
Held == {cookie, link} \cup {req[r].tok : r \in Requests} \cup {req[r].set : r \in Requests}
Circulating == Permits \cup (Held \ {NoToken})

Promised == INSTANCE Sessions WITH caps <- Circulating

\* Cookies, requests and responses implement the promise: no interleaving of requests,
\* failed calls or responses makes a token except by a review, an exchange or a
\* failed review (all handlers of the middleware and HandleConnectionCreate).
KeepsPromise == Promised!Spec

\* A user who is shut out for good loses their session: handleVerify's refresh asks
\* again, so that no chain of requests keeps the cookie alive.
ShutOutEnds ==
  <>[](~rbac \/ ~CheckWorkspaceAccess) => <>[](cookie.kind = "none")
=============================================================================
