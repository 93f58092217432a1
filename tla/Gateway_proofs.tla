--------------------------- MODULE Gateway_proofs ---------------------------
(* Proofs about Gateway, for every number of requests and every lifetime. *)
EXTENDS Gateway, TLAPS

\* The provers are tried in turn, with more time than by default: contexts are large.
USE SMTT(30), ZenonT(20), Z3T(30)

\* A token whose reviews that failed have been paid for.
Paid(t, f) == t.doubt <= f

\* Where a request stands: what it may carry, how old that is, and what it has seen; a is
\* how long the permission has been away, f how many calls have failed.
InOrder(q, a, f) ==
  /\ q.pc = "idle" => q = NoRequest
  /\ q.pc = "reply" => q.tok = NoToken /\ q.review = -1
  /\ q.pc \notin {"idle", "reply"} => q.set = NoToken
  /\ q.pc = "validate" => q.route \in {"bearer", "verify"}
  /\ q.pc \in {"rbac", "access", "mint"} /\ q.route \in {"bearer", "verify"} =>
       q.tok.kind = Accepts(q.route) /\ q.tok.age < Life(q.tok.kind) + q.wait
  /\ q.pc = "access" => a <= q.wait
  /\ q.review >= 0 => q.pc = "mint" /\ q.review <= q.wait
  /\ q.pc = "mint" => q.review >= 0 \/ q.route \in {"bearer", "verify"}
  /\ q.pc = "mint" /\ q.route = "verify" /\ q.review < 0 => q.tok.doubt < f
  /\ Paid(q.tok, f) /\ Paid(q.set, f)

IInv ==
  /\ TypeOK
  /\ \A c \in Conditions : Holds(c) => away[c] = 0
  /\ Paid(cookie, spent.faults) /\ Paid(link, spent.faults)
  /\ \A r \in Requests : InOrder(req[r], away["rbac"], spent.faults)
-----------------------------------------------------------------------------
\* No token is a token nobody has to answer for.
LEMMA Tokens ==
  NoToken \in Token /\ NoToken.kind = "none" /\ NoToken.doubt = 0
  BY DEF Token, NoToken

\* A token is none, or of a kind and of an age within its span.
LEMMA SomeToken ==
  ASSUME NEW t \in Token
  PROVE  /\ t.kind \in {"none", "bootstrap", "session"} /\ t.age \in Nat
         /\ t.doubt \in 0..MaxFaults
         /\ t.kind = "none" <=> t = NoToken
         /\ t # NoToken => t.age <= Span(t.kind)
  BY BoundAssumption DEF Token, NoToken

\* Failed reviews are counted by natural numbers.
LEMMA Doubts == ASSUME NEW t \in Token PROVE t.doubt \in Nat
  BY SomeToken, BoundAssumption

\* Spans are natural numbers.
LEMMA SpanNat == \A k \in Kinds : Span(k) \in Nat /\ Life(k) \in Nat
  BY TokenAssumption DEF Kinds, Span, Life

\* A tick makes a token older by one, or ends it.
LEMMA Aging ==
  ASSUME NEW t \in Token
  PROVE  /\ Older(t) \in Token /\ Older(t).doubt <= t.doubt
         /\ \/ Older(t) = NoToken
            \/ /\ t # NoToken /\ Older(t) = [t EXCEPT !.age = @ + 1]
               /\ Older(t).kind = t.kind /\ Older(t).doubt = t.doubt /\ Older(t).age = t.age + 1
               /\ Older(t).age <= Span(t.kind)
         /\ t # NoToken /\ t.age < Span(t.kind) => Older(t) # NoToken
<1>1. CASE t.kind # "none" /\ t.age < Span(t.kind)
  <2>1. t \in [kind : {"bootstrap", "session"}, age : Nat, doubt : 0..MaxFaults]
    BY <1>1 DEF Token, NoToken
  <2>2. Span(t.kind) \in Nat
    BY <2>1, SpanNat DEF Kinds
  <2>3. Older(t) = [t EXCEPT !.age = @ + 1]
    BY <1>1 DEF Older
  <2>4. /\ Older(t) \in [kind : {"bootstrap", "session"}, age : Nat, doubt : 0..MaxFaults]
        /\ Older(t).kind = t.kind /\ Older(t).doubt = t.doubt /\ Older(t).age = t.age + 1
    BY <2>1, <2>3
  <2>5. Older(t) # NoToken /\ t # NoToken
    BY <2>1, <2>4 DEF NoToken
  <2> QED BY <1>1, <2>1, <2>2, <2>3, <2>4, <2>5, BoundAssumption DEF Token
<1>2. CASE ~(t.kind # "none" /\ t.age < Span(t.kind))
  <2>1. Older(t) = NoToken
    BY <1>2 DEF Older
  <2>2. Older(t) \in Token /\ Older(t).doubt <= t.doubt
    BY <2>1, Tokens, Doubts
  <2>3. ~(t # NoToken /\ t.age < Span(t.kind))
    BY <1>2, SomeToken
  <2> QED BY <2>1, <2>2, <2>3
<1> QED BY <1>1, <1>2

\* A new token is one.
LEMMA NewToken ==
  ASSUME NEW k \in {"bootstrap", "session"}, NEW d \in 0..MaxFaults
  PROVE  GenerateToken(k, d) \in Token /\ GenerateToken(k, d).doubt = d
  BY SpanNat DEF GenerateToken, Token, Kinds

\* No request is one, and in order.
LEMMA Blank ==
  ASSUME NEW a, NEW f \in Nat
  PROVE  NoRequest \in Request /\ InOrder(NoRequest, a, f)
<1>1. NoRequest \in Request
  BY Tokens, TokenAssumption DEF NoRequest, Request
<1>2. /\ NoRequest.pc = "idle" /\ NoRequest.tok = NoToken /\ NoRequest.set = NoToken
      /\ NoRequest.review = -1
  BY DEF NoRequest
<1> QED BY <1>1, <1>2, Tokens DEF InOrder, Paid

\* Responses are in order.
LEMMA Responses ==
  ASSUME NEW r, req[r] \in Request, NEW ok \in BOOLEAN, NEW set \in Token, NEW clear \in BOOLEAN,
         NEW a, NEW f \in Nat, Paid(set, f)
  PROVE  /\ Response(r, ok, set, clear) \in Request
         /\ InOrder(Response(r, ok, set, clear), a, f)
<1> DEFINE q == Response(r, ok, set, clear)
<1>1. NoRequest \in Request /\ NoRequest.tok = NoToken /\ NoRequest.review = -1
  BY Blank, Zenon DEF NoRequest
<1>2. q \in Request
  BY <1>1, Zenon DEF Response, Request
<1>3. q.pc = "reply" /\ q.tok = NoToken /\ q.set = set /\ q.review = -1
  BY <1>1 DEF Response, Request
<1> HIDE DEF q
<1>4. InOrder(q, a, f)
  BY <1>3, Tokens DEF InOrder, Paid
<1> QED BY <1>2, <1>4 DEF q

\* Where Goto leads a request.
LEMMA Gone ==
  ASSUME NEW r, req[r] \in Request, NEW pc \in {"rbac", "access", "mint"}
  PROVE  LET q == Goto(r, pc) IN
         /\ q \in Request /\ q.pc = pc /\ q.route = req[r].route /\ q.wait = req[r].wait
         /\ q.tok = req[r].tok /\ q.review = req[r].review /\ q.set = req[r].set
         /\ q.ok = req[r].ok /\ q.clear = req[r].clear
  BY DEF Goto, Request
-----------------------------------------------------------------------------
\* A request stays in order while the permission is away no longer, and calls fail.
LEMMA StillInOrder ==
  ASSUME NEW q \in Request, NEW a \in Nat, NEW b \in Nat, NEW f \in Nat, NEW g \in Nat,
         b <= a, f <= g, InOrder(q, a, f)
  PROVE  InOrder(q, b, g)
<1>1. q.tok.doubt \in Nat /\ q.set.doubt \in Nat /\ q.wait \in Nat
  <2>1. q.tok \in Token /\ q.set \in Token /\ q.wait \in Nat
    BY TokenAssumption DEF Request
  <2> QED BY <2>1, Doubts
<1> QED BY <1>1 DEF InOrder, Paid

\* A step of a request that leaves it in order keeps the invariant.
LEMMA Handled ==
  ASSUME IInv, NEW r \in Requests, NEW q \in Request, Continue(r, q),
         spent' \in [changes : 0..MaxChanges, faults : 0..MaxFaults, logins : 0..MaxLogins],
         spent.faults <= spent'.faults, InOrder(q, away["rbac"], spent'.faults)
  PROVE  IInv'
<1> USE BoundAssumption, TokenAssumption
<1>1. /\ req' = [req EXCEPT ![r] = q] /\ UNCHANGED <<ws, rbac, away, cookie, link>>
      /\ req \in [Requests -> Request]
  BY DEF Continue, IInv, TypeOK
<1>2. TypeOK'
  BY <1>1 DEF IInv, TypeOK
<1>3. away["rbac"] \in Nat /\ spent.faults \in Nat /\ spent'.faults \in Nat
  BY DEF IInv, TypeOK, Conditions
<1>4. \A s \in Requests : InOrder(req'[s], away["rbac"]', spent'.faults)
  <2> SUFFICES ASSUME NEW s \in Requests PROVE InOrder(req'[s], away["rbac"], spent'.faults)
    BY <1>1
  <2>1. CASE s = r
    BY <2>1, <1>1
  <2>2. CASE s # r
    BY <2>2, <1>1, <1>3, StillInOrder DEF IInv
  <2> QED BY <2>1, <2>2
<1>5. \A c \in Conditions : Holds(c)' => away'[c] = 0
  BY <1>1, Zenon DEF IInv, Holds, CheckWorkspaceAccess, Public
<1>6. Paid(cookie, spent.faults)' /\ Paid(link, spent.faults)'
  <2>1. cookie.doubt \in Nat /\ link.doubt \in Nat
    BY Doubts DEF IInv, TypeOK
  <2> QED BY <1>1, <1>3, <2>1 DEF IInv, Paid
<1> QED BY <1>2, <1>4, <1>5, <1>6 DEF IInv
-----------------------------------------------------------------------------
\* The initial state is in order.
LEMMA InitIInv == Init => IInv
<1> SUFFICES ASSUME Init PROVE IInv
  OBVIOUS
<1> USE BoundAssumption, TokenAssumption
<1>1. TypeOK
  BY Blank, Tokens DEF Init, TypeOK
<1>2. \A c \in Conditions : Holds(c) => away[c] = 0
  BY DEF Init
<1>3. \A r \in Requests : InOrder(req[r], away["rbac"], spent.faults)
  BY Blank DEF Init
<1>4. Paid(cookie, spent.faults) /\ Paid(link, spent.faults)
  BY Tokens DEF Init, Paid
<1> QED BY <1>1, <1>2, <1>3, <1>4 DEF IInv

\* The workspace and the permission change around requests that stay in order.
LEMMA ChangeIInv == IInv /\ (ChangeWorkspace \/ ChangePermission) => IInv'
<1> SUFFICES ASSUME IInv, ChangeWorkspace \/ ChangePermission PROVE IInv'
  OBVIOUS
<1> USE BoundAssumption, TokenAssumption
<1>1. PICK d \in Conditions : Change(d) /\ \A c \in Conditions \ {d} : Holds(c)' = Holds(c)
  BY Zenon DEF ChangeWorkspace, ChangePermission, Conditions, Holds, CheckWorkspaceAccess, Public
<1>2. /\ away' = [away EXCEPT ![d] = IF Holds(d)' THEN 0 ELSE @]
      /\ UNCHANGED <<cookie, link, req>> /\ spent' = [spent EXCEPT !["changes"] = @ + 1]
      /\ spent.changes < MaxChanges
  BY <1>1 DEF Change, Room, Spend
<1>3. spent' \in [changes : 0..MaxChanges, faults : 0..MaxFaults, logins : 0..MaxLogins]
      /\ spent'.faults = spent.faults /\ spent.faults \in Nat
  BY <1>2 DEF IInv, TypeOK
<1>4. /\ away' \in [Conditions -> 0..MaxAway]
      /\ \A c \in Conditions : away'[c] = away[c] \/ away'[c] = 0
      /\ \A c \in Conditions : Holds(c)' => away'[c] = 0
  BY <1>1, <1>2 DEF IInv, TypeOK
<1>5. ws' \in Existing \cup {NoWorkspace} /\ rbac' \in BOOLEAN
  <2>1. ws \in Existing \cup {NoWorkspace} /\ rbac \in BOOLEAN
    BY DEF IInv, TypeOK
  <2>2. ws.found => ws \in Existing
    <3>1. ~NoWorkspace.found
      BY DEF NoWorkspace
    <3>2. ws = NoWorkspace => ~ws.found
      BY <3>1, Zenon
    <3> QED BY <2>1, <3>2, Zenon
  <2>3. ASSUME NEW t \in AccessTypes, ws.found, ws' = [ws EXCEPT !.accessType = t]
        PROVE  ws' \in Existing
    BY <2>2, <2>3, Zenon DEF Existing
  <2> QED BY <2>1, <2>3, Zenon DEF ChangeWorkspace, ChangePermission
<1>6. TypeOK'
  BY <1>2, <1>3, <1>4, <1>5 DEF IInv, TypeOK
<1>7. ASSUME NEW r \in Requests PROVE InOrder(req'[r], away'["rbac"], spent'.faults)
  <2>1. "rbac" \in Conditions
    BY DEF Conditions
  <2>2. /\ away["rbac"] \in Nat /\ away'["rbac"] \in Nat /\ away'["rbac"] <= away["rbac"]
        /\ req[r] \in Request
    BY <2>1, <1>4 DEF IInv, TypeOK
  <2> QED BY <2>2, <1>2, <1>3, StillInOrder DEF IInv
<1>8. Paid(cookie, spent.faults)' /\ Paid(link, spent.faults)'
  BY <1>2, <1>3 DEF IInv, Paid
<1> QED BY <1>4, <1>6, <1>7, <1>8 DEF IInv

\* A request of some tick, one tick older.
LEMMA TickRequest ==
  ASSUME NEW q \in Request, NEW a \in Nat, NEW b \in Nat, b <= a + 1, NEW f \in Nat,
         InOrder(q, a, f), q.pc \notin {"idle", "reply"} => q.wait < Latency
  PROVE  OlderRequest(q) \in Request /\ InOrder(OlderRequest(q), b, f)
<1> USE TokenAssumption
<1> DEFINE p == OlderRequest(q)
<1>0. /\ q.tok \in Token /\ q.set \in Token /\ q.wait \in Nat /\ q.review \in -1..Latency
      /\ q.tok.doubt \in Nat /\ q.set.doubt \in Nat
  <2>1. q.tok \in Token /\ q.set \in Token /\ q.wait \in Nat /\ q.review \in -1..Latency
    BY DEF Request
  <2> QED BY <2>1, Doubts
<1>1. CASE q.pc = "reply"
  <2>1. p = [q EXCEPT !.set = Older(@)]
    BY <1>1 DEF OlderRequest
  <2>2. /\ p \in Request /\ p.pc = "reply" /\ p.tok = q.tok /\ p.review = q.review
        /\ p.set = Older(q.set)
    BY <1>0, <1>1, <2>1, Aging DEF Request
  <2>3. Paid(Older(q.set), f) /\ Paid(q.tok, f) /\ q.tok = NoToken /\ q.review = -1
    <3>1. Older(q.set).doubt <= q.set.doubt /\ Older(q.set).doubt \in Nat
      BY <1>0, Aging, Doubts
    <3> QED BY <1>0, <1>1, <3>1 DEF InOrder, Paid
  <2> QED BY <2>2, <2>3 DEF InOrder
<1>2. CASE q.pc = "idle"
  <2>1. p = q /\ q = NoRequest
    BY <1>2 DEF OlderRequest, InOrder
  <2> QED BY <2>1, Blank
<1>3. CASE q.pc \notin {"idle", "reply"}
  <2>1. p = [q EXCEPT !.wait = @ + 1, !.tok = Older(@), !.review = IF @ >= 0 THEN @ + 1 ELSE @]
    BY <1>3 DEF OlderRequest
  <2>2. q.wait < Latency /\ q.set = NoToken /\ (q.review >= 0 => q.review <= q.wait)
    BY <1>3 DEF InOrder
  <2>3. (IF q.review >= 0 THEN q.review + 1 ELSE q.review) \in -1..Latency
    BY <1>0, <2>2
  <2>4. /\ p \in Request /\ p.pc = q.pc /\ p.route = q.route /\ p.tok = Older(q.tok)
        /\ p.wait = q.wait + 1 /\ p.set = q.set
        /\ p.review = IF q.review >= 0 THEN q.review + 1 ELSE q.review
    <3> DEFINE v == IF q.review >= 0 THEN q.review + 1 ELSE q.review
               w == q.wait + 1
               t == Older(q.tok)
    <3>1. v \in -1..Latency /\ w \in 0..Latency /\ t \in Token
      BY <1>0, <2>2, <2>3, Aging
    <3>2. p = [q EXCEPT !.wait = w, !.tok = t, !.review = v]
      BY <2>1
    <3> HIDE DEF v, w, t, p
    <3>3. /\ p \in Request /\ p.pc = q.pc /\ p.route = q.route /\ p.tok = t
          /\ p.wait = w /\ p.set = q.set /\ p.review = v
      BY <3>1, <3>2, Zenon DEF Request
    <3> QED BY <3>3 DEF v, w, t
  <2>8. /\ p.review >= 0 <=> q.review >= 0
        /\ p.review >= 0 => p.review <= p.wait
        /\ p.review < 0 <=> q.review < 0
    BY <1>0, <2>2, <2>4
  <2>9. p.pc = "access" => b <= p.wait
    BY <1>0, <2>4 DEF InOrder
  <2> HIDE DEF p
  <2>5. /\ Older(q.tok) \in Token /\ Older(q.tok).doubt <= q.tok.doubt
        /\ Older(q.tok).doubt \in Nat
    BY <1>0, Aging, Doubts
  <2>6. ASSUME q.pc \in {"rbac", "access", "mint"} /\ q.route \in {"bearer", "verify"}
        PROVE  InOrder(p, b, f)
    <3>1. q.tok.kind \in {"bootstrap", "session"} /\ q.tok.age < Life(q.tok.kind) + q.wait
      BY <2>6 DEF InOrder, Accepts
    <3>2. Life(q.tok.kind) \in Nat /\ q.tok.age \in Nat /\ q.tok # NoToken
      BY <1>0, <3>1, SpanNat, SomeToken, Tokens DEF Kinds
    <3>3. q.tok.age < Span(q.tok.kind)
      BY <1>0, <2>2, <3>1, <3>2 DEF Span
    <3>4. /\ Older(q.tok).kind = q.tok.kind /\ Older(q.tok).doubt = q.tok.doubt
          /\ Older(q.tok).age = q.tok.age + 1
      BY <1>0, <3>2, <3>3, Aging
    <3>5. p.tok.age < Life(p.tok.kind) + p.wait
      BY <1>0, <2>4, <3>1, <3>2, <3>4
    <3>6. p.tok.kind = Accepts(p.route) /\ p.tok.doubt = q.tok.doubt
      BY <2>4, <2>6, <3>4 DEF InOrder
    <3> QED BY <1>3, <2>2, <2>4, <2>8, <2>9, <3>5, <3>6 DEF InOrder, Paid
  <2>7. ASSUME ~(q.pc \in {"rbac", "access", "mint"} /\ q.route \in {"bearer", "verify"})
        PROVE  InOrder(p, b, f)
    <3>1. Paid(p.tok, f) /\ Paid(p.set, f)
      BY <1>0, <2>4, <2>5 DEF InOrder, Paid
    <3> QED BY <1>3, <2>2, <2>4, <2>7, <2>8, <2>9, <3>1 DEF InOrder
  <2> QED BY <2>4, <2>6, <2>7 DEF p
<1> QED BY <1>1, <1>2, <1>3

\* A tick makes everything older.
LEMMA TickIInv == IInv /\ Tick => IInv'
<1> SUFFICES ASSUME IInv, Tick PROVE IInv'
  OBVIOUS
<1> USE BoundAssumption, TokenAssumption
<1>1. /\ away' \in [Conditions -> 0..MaxAway]
      /\ \A c \in Conditions : away'[c] <= away[c] + 1
      /\ \A c \in Conditions : Holds(c)' => away'[c] = 0
  <2>1. \A c \in Conditions : Holds(c)' = Holds(c)
    BY Zenon DEF Tick, Holds, CheckWorkspaceAccess, Public
  <2>2. away' = [c \in Conditions |-> IF Holds(c) THEN 0 ELSE Longer(away[c])]
    BY DEF Tick
  <2>3. \A c \in Conditions : away[c] \in 0..MaxAway
    BY DEF IInv, TypeOK
  <2>4. \A c \in Conditions : Longer(away[c]) \in 0..MaxAway /\ Longer(away[c]) <= away[c] + 1
    BY <2>3 DEF Longer
  <2> QED BY <2>1, <2>2, <2>3, <2>4
<1>2. ASSUME NEW r \in Requests
      PROVE  req'[r] \in Request /\ InOrder(req'[r], away'["rbac"], spent.faults)
  <2>1. /\ away["rbac"] \in Nat /\ away'["rbac"] \in Nat /\ away'["rbac"] <= away["rbac"] + 1
        /\ spent.faults \in Nat
    BY <1>1 DEF IInv, TypeOK, Conditions
  <2>2. req[r] \in Request /\ req'[r] = OlderRequest(req[r])
    BY DEF IInv, TypeOK, Tick
  <2>3. req[r].pc \notin {"idle", "reply"} => req[r].wait < Latency
    BY DEF Tick, Running
  <2> QED BY <2>1, <2>2, <2>3, TickRequest DEF IInv
<1>3. /\ cookie' \in Token /\ link' \in Token
      /\ cookie'.doubt <= spent.faults /\ link'.doubt <= spent.faults
  <2>1. /\ Older(cookie) \in Token /\ Older(cookie).doubt <= cookie.doubt
        /\ Older(link) \in Token /\ Older(link).doubt <= link.doubt
    BY Aging DEF IInv, TypeOK
  <2>2. /\ cookie.doubt \in Nat /\ Older(cookie).doubt \in Nat
        /\ link.doubt \in Nat /\ Older(link).doubt \in Nat /\ spent.faults \in Nat
    BY <2>1, Doubts DEF IInv, TypeOK
  <2> QED BY <2>1, <2>2 DEF IInv, Tick, Paid
<1>4. TypeOK'
  <2>1. req' \in [Requests -> Request]
    BY <1>2 DEF Tick
  <2> QED BY <1>1, <1>3, <2>1 DEF IInv, TypeOK, Tick
<1>5. spent' = spent
  BY DEF Tick
<1> QED BY <1>1, <1>2, <1>3, <1>4, <1>5 DEF IInv, Paid
-----------------------------------------------------------------------------
\* Requests begin in order.
LEMMA BeginIInv ==
  ASSUME IInv, NEW r \in Requests, NEW route \in {"connect", "auth", "bearer", "verify"},
         NEW pc \in {"validate", "rbac", "access"}, NEW t \in Token, Begin(r, route, pc, t),
         pc = "validate" <=> route \in {"bearer", "verify"}, pc = "access" => rbac,
         t.doubt <= spent.faults, spent'.faults = spent.faults,
         spent' \in [changes : 0..MaxChanges, faults : 0..MaxFaults, logins : 0..MaxLogins]
  PROVE  IInv'
<1> USE BoundAssumption, TokenAssumption
<1> DEFINE q == [NoRequest EXCEPT !.route = route, !.pc = pc, !.tok = t]
<1>1. /\ NoRequest \in Request /\ NoRequest.wait = 0 /\ NoRequest.review = -1
      /\ NoRequest.set = NoToken
  BY Blank, Zenon DEF NoRequest
<1>2. /\ q \in Request /\ q.wait = 0 /\ q.review = -1 /\ q.set = NoToken /\ q.pc = pc
      /\ q.route = route /\ q.tok = t
  BY <1>1, Zenon DEF Request
<1>3. Continue(r, q)
  BY DEF Begin, Continue
<1> HIDE DEF q
<1>4. away["rbac"] \in Nat /\ spent.faults \in Nat /\ (rbac => away["rbac"] = 0)
  BY DEF IInv, TypeOK, Conditions, Holds
<1>5. InOrder(q, away["rbac"], spent.faults)
  BY <1>2, <1>4, Tokens DEF InOrder, Paid
<1> QED BY <1>2, <1>3, <1>4, <1>5, Handled

\* What calls and logins spend.
LEMMA Spending ==
  ASSUME IInv
  PROVE  /\ \A o \in Outcomes : Answer(o) =>
              /\ spent' \in [changes : 0..MaxChanges, faults : 0..MaxFaults, logins : 0..MaxLogins]
              /\ spent.faults \in Nat /\ spent'.faults \in Nat
              /\ spent.faults <= spent'.faults
              /\ o = "fault" => spent.faults < spent'.faults
         /\ spent.logins < MaxLogins /\ Spend("logins") =>
              /\ spent' \in [changes : 0..MaxChanges, faults : 0..MaxFaults, logins : 0..MaxLogins]
              /\ spent'.faults = spent.faults
  BY BoundAssumption DEF IInv, TypeOK, Outcomes, Answer, Room, Spend

\* The four ways a request begins.
LEMMA ArrivalIInv == ASSUME IInv, NEW r \in Requests, Arrival(r) PROVE IInv'
<1>1. CASE HandleConnectionCreate(r)
  BY <1>1, BeginIInv, Spending, Tokens, BoundAssumption DEF HandleConnectionCreate, IInv, TypeOK
<1>2. CASE HandleAuth(r)
  BY <1>2, BeginIInv, Spending, Tokens, BoundAssumption DEF HandleAuth, IInv, TypeOK
<1>3. ASSUME NEW route \in {"bearer", "verify"}, Present(r, route) PROVE IInv'
  <2>1. PICK t \in {cookie, link} \ {NoToken} : Begin(r, route, "validate", t)
    BY <1>3 DEF Present
  <2>2. t \in Token /\ t.doubt <= spent.faults /\ spent' = spent
    BY <1>3 DEF Present, IInv, TypeOK, Paid
  <2> QED BY <2>1, <2>2, BeginIInv DEF IInv, TypeOK
<1> QED BY <1>1, <1>2, <1>3, Zenon DEF Arrival, HandleBearerAuth, HandleVerify

\* What a verdict leads to is in order, after a review at pc "rbac" or "access".
LEMMA Verdicts ==
  ASSUME NEW r, req[r] \in Request, NEW v \in {"allowed", "denied", "failed"},
         NEW a \in Nat, NEW f \in Nat, NEW g \in Nat, f <= g, v = "failed" => f < g,
         req[r].pc \in {"rbac", "access"}, InOrder(req[r], a, f)
  PROVE  Verdict(r, v) \in Request /\ InOrder(Verdict(r, v), a, g)
<1> USE TokenAssumption
<1>0. /\ req[r].wait \in Nat /\ req[r].review \in -1..Latency
      /\ req[r].tok.doubt \in Nat /\ req[r].set.doubt \in Nat
  <2>1. /\ req[r].tok \in Token /\ req[r].set \in Token /\ req[r].wait \in Nat
        /\ req[r].review \in -1..Latency
    BY DEF Request
  <2> QED BY <2>1, Doubts
<1>1. \A c \in BOOLEAN : /\ Response(r, FALSE, NoToken, c) \in Request
                         /\ InOrder(Response(r, FALSE, NoToken, c), a, g)
  <2>1. Paid(NoToken, g) /\ NoToken \in Token
    BY Tokens DEF Paid
  <2> QED BY <2>1, Responses, Zenon
<1>2. CASE v = "allowed"
  <2> DEFINE p == Goto(r, "mint")
             q == [p EXCEPT !.review = 0]
  <2>1. /\ p \in Request /\ p.pc = "mint" /\ p.route = req[r].route /\ p.wait = req[r].wait
        /\ p.tok = req[r].tok /\ p.set = req[r].set
    BY Gone
  <2> HIDE DEF p
  <2>2. /\ q \in Request /\ q.pc = "mint" /\ q.route = req[r].route /\ q.wait = req[r].wait
        /\ q.tok = req[r].tok /\ q.set = req[r].set /\ q.review = 0
    BY <2>1 DEF Request
  <2> HIDE DEF q
  <2>3. InOrder(q, a, g)
    BY <1>0, <2>2 DEF InOrder, Paid
  <2>4. Verdict(r, v) = q
    BY <1>2 DEF Verdict, q, p
  <2> QED BY <2>2, <2>3, <2>4
<1>3. CASE v = "failed" /\ req[r].route = "verify"
  <2> DEFINE p == Goto(r, "mint")
  <2>1. /\ p \in Request /\ p.pc = "mint" /\ p.route = req[r].route /\ p.wait = req[r].wait
        /\ p.tok = req[r].tok /\ p.set = req[r].set /\ p.review = req[r].review
    BY Gone
  <2>2. Verdict(r, v) = p
    BY <1>3, Zenon DEF Verdict
  <2> HIDE DEF p
  <2>3. InOrder(p, a, g)
    BY <1>0, <1>3, <2>1 DEF InOrder, Paid
  <2> QED BY <2>1, <2>2, <2>3
<1>4. CASE v # "allowed" /\ ~(v = "failed" /\ req[r].route = "verify")
  <2>1. \E c \in BOOLEAN : Verdict(r, v) = Response(r, FALSE, NoToken, c)
    BY <1>4, Zenon DEF Verdict, Refusal
  <2> QED BY <1>1, <2>1, Zenon
<1> QED BY <1>2, <1>3, <1>4

\* A token a request mints is paid for: a refresh without a review by a call that failed.
LEMMA MintedToken ==
  ASSUME IInv, NEW r \in Requests, Mint(r)
  PROVE  Minted(r) \in Token /\ Minted(r).doubt <= spent.faults
<1> USE BoundAssumption
<1>1. /\ req[r].tok \in Token /\ req[r].pc = "mint" /\ InOrder(req[r], away["rbac"], spent.faults)
      /\ spent.faults \in 0..MaxFaults /\ req[r].review \in Int
  BY TokenAssumption DEF IInv, TypeOK, Request, Mint
<1>2. /\ req[r].tok.doubt \in Nat /\ req[r].tok.doubt <= spent.faults
  BY <1>1, Doubts, Zenon DEF InOrder, Paid
<1>3. ~(req[r].review >= 0) /\ req[r].route # "connect" /\ req[r].route # "bearer" =>
        req[r].tok.doubt < spent.faults
  BY <1>1 DEF InOrder
<1>4. \E k \in {"bootstrap", "session"}, d \in 0..spent.faults : Minted(r) = GenerateToken(k, d)
  BY <1>1, <1>2, <1>3 DEF Minted
<1> QED BY <1>1, <1>4, NewToken

\* Every step of a handler leaves its request in order.
LEMMA HandlerIInv == ASSUME IInv, NEW r \in Requests, Handler(r) PROVE IInv'
<1> USE BoundAssumption, TokenAssumption
<1> DEFINE a == away["rbac"]
           f == spent.faults
           g == spent'.faults
<1>0. /\ req[r] \in Request /\ a \in Nat /\ InOrder(req[r], a, f)
      /\ req[r].tok \in Token /\ req[r].tok.doubt \in Nat /\ req[r].wait \in Nat
  <2>1. /\ req[r] \in Request /\ a \in Nat /\ InOrder(req[r], a, f)
        /\ req[r].tok \in Token /\ req[r].wait \in Nat
    BY DEF IInv, TypeOK, Request, Conditions
  <2> QED BY <2>1, Doubts
<1>1. ASSUME NEW o \in Outcomes, Answer(o), NEW q \in Request, Continue(r, q), InOrder(q, a, g)
      PROVE  IInv'
  BY <1>1, Spending, Handled
<1>2. ASSUME NEW o \in Outcomes, Answer(o)
      PROVE  f \in Nat /\ g \in Nat /\ f <= g /\ (o = "fault" => f < g)
  BY <1>2, Spending
<1>3. ASSUME NEW o \in Outcomes, Answer(o), NEW ok \in BOOLEAN, NEW t \in Token,
             NEW c \in BOOLEAN, t.doubt <= g, Continue(r, Response(r, ok, t, c))
      PROVE  IInv'
  <2>1. Paid(t, g) /\ g \in Nat
    BY <1>2, <1>3, Zenon DEF Paid
  <2>2. Response(r, ok, t, c) \in Request /\ InOrder(Response(r, ok, t, c), a, g)
    BY <1>0, <2>1, Responses
  <2> HIDE DEF g, a
  <2> QED BY <1>1, <1>3, <2>2
<1>4. ASSUME NEW o \in Outcomes, Answer(o), NEW ok \in BOOLEAN,
             NEW c \in BOOLEAN, Continue(r, Response(r, ok, NoToken, c))
      PROVE  IInv'
  BY <1>2, <1>3, <1>4, Tokens
<1>5. CASE ValidateToken(r)
  <2>1. PICK o \in Outcomes, fits \in BOOLEAN :
          /\ Answer(o)
          /\ Continue(r, IF o = "fault" \/ ~Validated(r, fits) THEN Refusal(r)
                         ELSE IF req[r].route = "bearer" THEN Goto(r, "mint")
                         ELSE IF ShouldRefreshToken(req[r].tok.age) THEN Goto(r, "rbac")
                         ELSE Response(r, TRUE, NoToken, FALSE))
    BY <1>5, Zenon DEF ValidateToken
  <2>2. \/ Continue(r, Response(r, FALSE, NoToken, FALSE))
        \/ Continue(r, Response(r, TRUE, NoToken, FALSE))
        \/ Validated(r, fits) /\ req[r].route = "bearer" /\ Continue(r, Goto(r, "mint"))
        \/ Validated(r, fits) /\ req[r].route # "bearer" /\ Continue(r, Goto(r, "rbac"))
    BY <2>1, Zenon DEF Refusal
  <2>3. CASE \E ok \in BOOLEAN : Continue(r, Response(r, ok, NoToken, FALSE))
    BY ZenonT(30), <2>1, <2>3, <1>4
  <2>4. ASSUME NEW pc \in {"mint", "rbac"}, Validated(r, fits), Continue(r, Goto(r, pc)),
               req[r].route = "bearer" <=> pc = "mint"
        PROVE  IInv'
    <3> DEFINE q == Goto(r, pc)
    <3>1. /\ q \in Request /\ q.pc = pc /\ q.route = req[r].route /\ q.wait = req[r].wait
          /\ q.tok = req[r].tok /\ q.review = req[r].review /\ q.set = req[r].set
      BY <1>0, Gone
    <3> HIDE DEF q
    <3>2. /\ req[r].pc = "validate" /\ req[r].set = NoToken
          /\ req[r].route \in {"bearer", "verify"} /\ ~(req[r].review >= 0)
          /\ req[r].tok.doubt <= f
      BY <1>0, <1>5, Zenon DEF ValidateToken, InOrder, Paid
    <3>3. /\ req[r].tok.kind = Accepts(req[r].route)
          /\ req[r].tok.age < Life(req[r].tok.kind) + req[r].wait
      <4>1. req[r].tok.kind = Accepts(req[r].route) /\ req[r].tok.age < Life(req[r].tok.kind)
        BY <2>4 DEF Validated
      <4>2. Life(req[r].tok.kind) \in Nat /\ req[r].tok.age \in Nat
        BY <4>1, <1>0, SomeToken, SpanNat, Zenon DEF Accepts, Kinds
      <4> QED BY <1>0, <4>1, <4>2
    <3>4. InOrder(q, a, g)
      <4>1. f \in Nat /\ g \in Nat /\ f <= g
        BY <1>2, <2>1
      <4>2. req[r].tok.doubt <= g /\ NoToken.doubt <= g
        <5> HIDE DEF f, g, a
        <5> QED BY <1>0, <3>2, <4>1, Tokens
      <4> HIDE DEF f, g, a
      <4>3. Paid(q.tok, g) /\ Paid(q.set, g)
        BY <3>1, <3>2, <4>2, Zenon DEF Paid
      <4>4. /\ q.pc = pc /\ q.set = NoToken /\ q.route \in {"bearer", "verify"}
            /\ ~(q.review >= 0) /\ (q.route = "bearer" <=> pc = "mint")
            /\ q.tok.kind = Accepts(q.route) /\ q.tok.age < Life(q.tok.kind) + q.wait
        BY <2>4, <3>1, <3>2, <3>3, Zenon
      <4> QED BY <4>3, <4>4, Zenon DEF InOrder
    <3> QED BY ZenonT(30), <1>1, <2>1, <2>4, <3>1, <3>4 DEF q
  <2> QED BY <2>2, <2>3, <2>4, Zenon
<1>6. ASSUME NEW o \in Outcomes, Answer(o), NEW v \in {"allowed", "denied", "failed"},
             req[r].pc \in {"rbac", "access"}, v = "failed" => o = "fault",
             Continue(r, Verdict(r, v))
      PROVE  IInv'
  <2>1. f \in Nat /\ g \in Nat /\ f <= g /\ (v = "failed" => f < g)
    BY <1>2, <1>6, Zenon
  <2> HIDE DEF f, g, a
  <2>2. Verdict(r, v) \in Request /\ InOrder(Verdict(r, v), a, g)
    BY <1>0, <1>6, <2>1, Verdicts
  <2> QED BY <1>1, <1>6, <2>2, Zenon
<1>7. CASE CheckRBACPermission(r)
  <2>1. PICK o \in Outcomes :
          /\ Answer(o)
          /\ Continue(r, IF o = "fault" THEN Verdict(r, "failed")
                         ELSE IF ~rbac THEN Verdict(r, "denied") ELSE Goto(r, "access"))
    BY <1>7, Zenon DEF CheckRBACPermission
  <2>2. CASE rbac /\ Continue(r, Goto(r, "access"))
    <3> DEFINE q == Goto(r, "access")
    <3>1. /\ q \in Request /\ q.pc = "access" /\ q.route = req[r].route /\ q.wait = req[r].wait
          /\ q.tok = req[r].tok /\ q.review = req[r].review /\ q.set = req[r].set
      BY <1>0, Gone
    <3> HIDE DEF q
    <3>2. a = 0
      BY <2>2 DEF IInv, Conditions, Holds
    <3>3. InOrder(q, a, g)
      <4>1. /\ req[r].pc = "rbac" /\ req[r].set = NoToken /\ ~(req[r].review >= 0)
            /\ req[r].tok.doubt <= f
            /\ req[r].route \in {"bearer", "verify"} =>
                 /\ req[r].tok.kind = Accepts(req[r].route)
                 /\ req[r].tok.age < Life(req[r].tok.kind) + req[r].wait
        BY <1>0, <1>7 DEF CheckRBACPermission, InOrder, Paid
      <4>2. f \in Nat /\ g \in Nat /\ f <= g
        BY <1>2, <2>1, Zenon
      <4>3. req[r].tok.doubt <= g /\ NoToken.doubt <= g
        <5> HIDE DEF f, g, a
        <5> QED BY <1>0, <4>1, <4>2, Tokens
      <4> HIDE DEF f, g, a
      <4>4. Paid(q.tok, g) /\ Paid(q.set, g)
        BY <3>1, <4>1, <4>3, Zenon DEF Paid
      <4>5. a <= q.wait
        <5>1. req[r].wait \in Nat
          BY <1>0
        <5> QED BY <3>1, <3>2, <5>1
      <4>6. /\ q.pc = "access" /\ q.set = NoToken /\ ~(q.review >= 0)
            /\ q.route \in {"bearer", "verify"} =>
                 q.tok.kind = Accepts(q.route) /\ q.tok.age < Life(q.tok.kind) + q.wait
        BY <3>1, <4>1
      <4> QED BY <4>4, <4>5, <4>6, Zenon DEF InOrder
    <3> QED BY <1>1, <2>1, <2>2, <3>1, <3>3, Zenon DEF q
  <2>3. CASE o = "fault" /\ Continue(r, Verdict(r, "failed"))
    BY <1>6, <1>7, <2>1, <2>3, Zenon DEF CheckRBACPermission
  <2>4. CASE Continue(r, Verdict(r, "denied"))
    BY <1>6, <1>7, <2>1, <2>4 DEF CheckRBACPermission
  <2> QED BY <2>1, <2>2, <2>3, <2>4
<1>8. CASE CheckAccess(r)
  <2>1. PICK o \in Outcomes :
          /\ Answer(o)
          /\ Continue(r, Verdict(r, IF o = "fault" THEN "failed"
                                    ELSE IF CheckWorkspaceAccess THEN "allowed" ELSE "denied"))
    BY <1>8 DEF CheckAccess
  <2>2. req[r].pc = "access"
    BY <1>8 DEF CheckAccess
  <2> QED BY <1>6, <2>1, <2>2
<1>9. CASE Mint(r)
  <2>1. PICK o \in Outcomes :
          /\ Answer(o)
          /\ \/ o = "ok" /\ Continue(r, Response(r, TRUE, Minted(r), FALSE))
             \/ Continue(r, Response(r, req[r].route = "verify", NoToken, FALSE))
    BY ZenonT(30), <1>9 DEF Mint
  <2>2. Minted(r) \in Token /\ Minted(r).doubt <= f
    BY <1>0, <1>9, MintedToken
  <2>3. CASE Continue(r, Response(r, TRUE, Minted(r), FALSE))
    <3>1. Minted(r).doubt <= g
      BY <1>2, <2>1, <2>2, Doubts
    <3> QED BY <1>3, <2>1, <2>2, <2>3, <3>1, Zenon
  <2>4. CASE Continue(r, Response(r, req[r].route = "verify", NoToken, FALSE))
    <3>1. (req[r].route = "verify") \in BOOLEAN
      BY Zenon
    <3> QED BY ZenonT(30), <1>4, <2>1, <2>4, <3>1
  <2> QED BY <2>1, <2>3, <2>4, Zenon
<1> QED BY <1>5, <1>7, <1>8, <1>9, Zenon DEF Handler

\* A response is delivered or lost.
LEMMA DeliveryIInv == ASSUME IInv, NEW r \in Requests, Deliver(r) \/ Lose(r) PROVE IInv'
<1> USE BoundAssumption
<1>1. /\ req' = [req EXCEPT ![r] = NoRequest] /\ UNCHANGED <<ws, rbac, away, spent>>
      /\ cookie' \in {NoToken, cookie, req[r].set} /\ link' \in {link, req[r].set}
  BY Zenon DEF Deliver, Lose
<1>2. /\ req[r].set \in Token /\ req[r].set.doubt <= spent.faults /\ spent.faults \in Nat
      /\ req \in [Requests -> Request]
  BY DEF IInv, TypeOK, Request, InOrder, Paid
<1>3. TypeOK'
  BY <1>1, <1>2, Blank, Tokens, Zenon DEF IInv, TypeOK
<1>4. Paid(cookie, spent.faults)' /\ Paid(link, spent.faults)'
  BY <1>1, <1>2, Tokens DEF IInv, Paid
<1>5. \A q \in Requests : InOrder(req'[q], away'["rbac"], spent'.faults)
  BY <1>1, <1>2, Blank DEF IInv
<1>6. \A c \in Conditions : Holds(c)' => away'[c] = 0
  BY <1>1, Zenon DEF IInv, Holds, CheckWorkspaceAccess, Public
<1> QED BY <1>3, <1>4, <1>5, <1>6, Zenon DEF IInv

\* Every step keeps requests in order.
LEMMA StepIInv == IInv /\ [Next]_vars => IInv'
<1>1. ASSUME IInv, UNCHANGED vars PROVE IInv'
  <2>1. TypeOK'
    BY <1>1 DEF vars, IInv, TypeOK
  <2>2. \A c \in Conditions : Holds(c)' => away'[c] = 0
    BY <1>1, Zenon DEF vars, IInv, Holds, CheckWorkspaceAccess, Public
  <2> QED BY <1>1, <2>1, <2>2, Zenon DEF vars, IInv
<1> QED BY <1>1, ChangeIInv, TickIInv, ArrivalIInv, HandlerIInv, DeliveryIInv DEF Next

\* Tokens are of their kinds and ages, and no request outlasts the server's timeouts.
THEOREM Types == Spec => []TypeOK
<1>1. IInv => TypeOK
  BY DEF IInv
<1> QED BY <1>1, InitIInv, StepIInv, PTL DEF Spec
-----------------------------------------------------------------------------
\* What circulates, one by one.
Permit(a) == [kind |-> "permit", age |-> a, doubt |-> 0]

\* A cap in circulation is a permit of a request, or a token somebody holds.
LEMMA InCirculation ==
  ASSUME NEW x
  PROVE  x \in Circulating <=>
           \/ \E r \in Requests : req[r].review >= 0 /\ x = Permit(req[r].review)
           \/ x # NoToken /\ (x = cookie \/ x = link \/ \E r \in Requests : x = req[r].tok \/ x = req[r].set)
  BY DEF Circulating, Permits, Held, Permit

\* The same, after a step.
LEMMA InCirculationNext ==
  ASSUME NEW x
  PROVE  x \in Circulating' <=>
           \/ \E r \in Requests : req'[r].review >= 0 /\ x = Permit(req'[r].review)
           \/ /\ x # NoToken
              /\ x = cookie' \/ x = link' \/ \E r \in Requests : x = req'[r].tok \/ x = req'[r].set
  BY DEF Circulating, Permits, Held, Permit

\* A step that only loses tokens is one the promise allows.
LEMMA Loses ==
  ASSUME away' = away, Circulating' \subseteq Circulating
  PROVE  [Promised!Next]_(Promised!svars)
<1>1. CASE Circulating = {}
  BY <1>1 DEF Promised!svars
<1>2. CASE Circulating # {}
  <2>1. PICK x \in Circulating : TRUE
    BY <1>2
  <2>2. Promised!Issue
    BY <2>1 DEF Promised!Issue
  <2> QED BY <2>2 DEF Promised!Next
<1> QED BY <1>1, <1>2

\* A step of a request adds no more than what the request then carries.
LEMMA Carried ==
  ASSUME IInv, NEW r \in Requests, NEW q, Continue(r, q), NEW x \in Circulating', x \notin Circulating
  PROVE  \/ q.review >= 0 /\ x = Permit(q.review)
         \/ x # NoToken /\ x \in {q.tok, q.set}
<1>1. /\ UNCHANGED <<cookie, link>>
      /\ \A s \in Requests : req'[s] = IF s = r THEN q ELSE req[s]
  BY DEF Continue, IInv, TypeOK
<1> QED BY <1>1, InCirculation, InCirculationNext

\* The promise speaks of the same conditions and spans.
LEMMA SameWords ==
  /\ Promised!Conditions = Conditions
  /\ \A k : Promised!Span(k) = Span(k)
  /\ \A n : Promised!Longer(n) = Longer(n)
  BY DEF Promised!Conditions, Conditions, Promised!Span, Span, Promised!Life, Life,
         Promised!Longer, Longer

\* Init implements the promised initial states.
LEMMA InitRefines == Init => Promised!Init
<1> SUFFICES ASSUME Init PROVE Promised!Init
  OBVIOUS
<1>1. away \in [Conditions -> 0..MaxAway]
  BY TokenAssumption DEF Init
<1>2. \A r \in Requests : req[r].review = -1 /\ req[r].tok = NoToken /\ req[r].set = NoToken
  BY DEF Init, NoRequest
<1>3. \A x : x \notin Circulating
  <2>1. cookie = NoToken /\ link = NoToken
    BY DEF Init
  <2>2. \A r \in Requests : ~(req[r].review >= 0)
    BY <1>2
  <2> QED BY <1>2, <2>1, <2>2, InCirculation
<1>4. Circulating = {}
  BY <1>3
<1> QED BY <1>1, <1>4, SameWords DEF Promised!Init

\* A change of the workspace or of the permission restores a condition, if anything.
LEMMA ChangeRefines ==
  IInv /\ (ChangeWorkspace \/ ChangePermission) => [Promised!Next]_(Promised!svars)
<1> SUFFICES ASSUME IInv, ChangeWorkspace \/ ChangePermission
             PROVE  [Promised!Next]_(Promised!svars)
  OBVIOUS
<1>1. PICK d \in Conditions : Change(d)
  BY DEF ChangeWorkspace, ChangePermission, Conditions
<1>2. Circulating' = Circulating
  BY <1>1 DEF Change, Circulating, Permits, Held
<1>3. CASE Holds(d)'
  <2>1. away' = [away EXCEPT ![d] = 0]
    BY <1>1, <1>3 DEF Change
  <2>2. Promised!Restore
    BY <1>2, <2>1, SameWords, Zenon DEF Promised!Restore
  <2> QED BY <2>2 DEF Promised!Next
<1>4. CASE ~Holds(d)'
  <2>1. away' = away
    BY <1>1, <1>4 DEF Change, IInv, TypeOK
  <2> QED BY <1>2, <2>1, Loses
<1> QED BY <1>3, <1>4

\* The tokens of a request, one tick later.
LEMMA TickFields ==
  ASSUME NEW q \in Request, NEW a, NEW f, InOrder(q, a, f)
  PROVE  LET p == OlderRequest(q) IN
         /\ p.tok = NoToken \/ p.tok = Older(q.tok)
         /\ p.set = NoToken \/ p.set = Older(q.set)
<1> DEFINE p == OlderRequest(q)
<1>1. CASE q.pc = "reply"
  <2>1. p = [q EXCEPT !.set = Older(@)]
    BY <1>1 DEF OlderRequest
  <2>2. p.tok = q.tok /\ p.set = Older(q.set)
    BY <2>1 DEF Request
  <2> QED BY <1>1, <2>2 DEF InOrder
<1>2. CASE q.pc = "idle"
  <2>1. p = q /\ q = NoRequest
    BY <1>2, Zenon DEF OlderRequest, InOrder
  <2> QED BY <2>1 DEF NoRequest
<1>3. CASE q.pc \notin {"idle", "reply"}
  <2>1. p = [q EXCEPT !.wait = @ + 1, !.tok = Older(@), !.review = IF @ >= 0 THEN @ + 1 ELSE @]
    BY <1>3 DEF OlderRequest
  <2>2. p.tok = Older(q.tok) /\ p.set = q.set
    BY <2>1 DEF Request
  <2> QED BY <1>3, <2>2 DEF InOrder
<1> QED BY <1>1, <1>2, <1>3, Zenon

\* A tick makes every token that stays in circulation older.
LEMMA TickRefines == IInv /\ Tick => [Promised!Next]_(Promised!svars)
<1> SUFFICES ASSUME IInv, Tick PROVE Promised!Tick
  BY ZenonT(30) DEF Promised!Next
<1> USE TokenAssumption
<1>1. /\ away' \in [Conditions -> 0..MaxAway]
      /\ \A c \in Conditions : away'[c] \in {0, Promised!Longer(away[c])}
  <2>1. TypeOK'
    BY TickIInv DEF IInv
  <2> QED BY <2>1, SameWords DEF TypeOK, Tick
<1> DEFINE Aged(x) == \E y \in Circulating : x = [y EXCEPT !.age = @ + 1] /\ x.age <= Span(x.kind)
<1>2. ASSUME NEW t \in Token, t # NoToken => t \in Circulating, Older(t) # NoToken
      PROVE  Aged(Older(t))
  <2>1. /\ t # NoToken /\ Older(t) = [t EXCEPT !.age = @ + 1] /\ Older(t).kind = t.kind
        /\ Older(t).age <= Span(t.kind)
    BY <1>2, Aging, Zenon
  <2> QED BY <1>2, <2>1
<1>3. ASSUME NEW r \in Requests
      PROVE  /\ req[r].tok \in Token /\ req[r].set \in Token
             /\ req[r].tok # NoToken => req[r].tok \in Circulating
             /\ req[r].set # NoToken => req[r].set \in Circulating
             /\ InOrder(req[r], away["rbac"], spent.faults)
             /\ req[r] \in Request /\ req'[r] = OlderRequest(req[r])
  BY InCirculation DEF IInv, TypeOK, Request, Tick
<1>4. ASSUME NEW r \in Requests, NEW x, x # NoToken, x = req'[r].tok \/ x = req'[r].set PROVE Aged(x)
  <2>1. CASE x = req'[r].tok
    <3>1. req'[r].tok = NoToken \/ req'[r].tok = Older(req[r].tok)
      BY <1>3, TickFields
    <3> QED BY <1>2, <1>3, <1>4, <2>1, <3>1, Zenon
  <2>2. CASE x = req'[r].set
    <3>1. req'[r].set = NoToken \/ req'[r].set = Older(req[r].set)
      BY <1>3, TickFields
    <3> QED BY <1>2, <1>3, <1>4, <2>2, <3>1, Zenon
  <2> QED BY <1>4, <2>1, <2>2
<1>5. ASSUME NEW r \in Requests, req'[r].review >= 0 PROVE Aged(Permit(req'[r].review))
  <2>1. req[r].review \in -1..Latency
    BY <1>3 DEF Request
  <2>2. req'[r].review = req[r].review \/ (Running(r) /\ req[r].review >= 0 /\ req'[r].review = req[r].review + 1)
    BY ZenonT(30), <1>3 DEF OlderRequest, Request, Running
  <2>3. req[r].review >= 0 => req[r].pc = "mint" /\ req[r].review <= req[r].wait
    BY <1>3 DEF InOrder
  <2>4. req[r].pc = "mint" /\ req[r].review >= 0 => req'[r].review = req[r].review + 1
    BY ZenonT(30), <1>3 DEF OlderRequest, Request
  <2>5. /\ req[r].review >= 0 /\ req'[r].review = req[r].review + 1
        /\ req[r].review < Latency
    <3>1. req[r].review >= 0
      BY <1>5, <2>1, <2>2, ZenonT(30)
    <3>2. Running(r) /\ req[r].wait < Latency /\ req[r].wait \in Nat
      BY <2>3, <3>1, <1>3 DEF Tick, Running, Request
    <3> QED BY <2>1, <2>3, <2>4, <3>1, <3>2
  <2>6. Permit(req[r].review) \in Circulating
    BY <2>5, InCirculation
  <2>7. Permit(req'[r].review) = [Permit(req[r].review) EXCEPT !.age = @ + 1]
    BY <2>5 DEF Permit
  <2>8. Permit(req'[r].review).age <= Span(Permit(req'[r].review).kind)
    BY <2>1, <2>5 DEF Permit, Span, Life
  <2> QED BY <2>6, <2>7, <2>8, Zenon
<1>6. ASSUME NEW x \in {cookie', link'}, x # NoToken PROVE Aged(x)
  <2>1. /\ cookie \in Token /\ link \in Token /\ cookie' = Older(cookie) /\ link' = Older(link)
        /\ cookie # NoToken => cookie \in Circulating
        /\ link # NoToken => link \in Circulating
    BY InCirculation, Zenon DEF IInv, TypeOK, Tick
  <2> QED BY <1>2, <1>6, <2>1
<1> HIDE DEF Aged
<1>7. \A x \in Circulating' : Aged(x)
  BY <1>4, <1>5, <1>6, InCirculationNext
<1> QED BY <1>1, <1>7, SameWords DEF Promised!Tick, Aged

\* A request begins with a token the browser holds, or with none.
LEMMA ArrivalRefines ==
  ASSUME IInv, NEW r \in Requests, Arrival(r) PROVE [Promised!Next]_(Promised!svars)
<1>1. \E route, pc : \E t \in {cookie, link, NoToken} : Begin(r, route, pc, t)
  <2>1. CASE HandleConnectionCreate(r)
    BY <2>1 DEF HandleConnectionCreate
  <2>2. CASE HandleAuth(r)
    BY <2>2 DEF HandleAuth
  <2>3. CASE HandleBearerAuth(r) \/ HandleVerify(r)
    BY <2>3 DEF HandleBearerAuth, HandleVerify, Present
  <2> QED BY <2>1, <2>2, <2>3 DEF Arrival
<1>0. PICK route, pc, t : t \in {cookie, link, NoToken} /\ Begin(r, route, pc, t)
  BY <1>1
<1> DEFINE q == [NoRequest EXCEPT !.route = route, !.pc = pc, !.tok = t]
<1>2. Continue(r, q) /\ away' = away
  BY <1>0 DEF Begin, Continue
<1>3. q.review = -1 /\ q.tok = t /\ q.set = NoToken
  BY DEF NoRequest
<1> HIDE DEF q
<1>4. ~(q.review >= 0)
  BY <1>3
<1>5. Circulating' \subseteq Circulating
  BY <1>0, <1>2, <1>3, <1>4, Carried, InCirculation
<1> QED BY <1>2, <1>5, Loses

\* A response is delivered or lost: the browser keeps what it carried, or nothing new.
LEMMA DeliveryRefines ==
  ASSUME IInv, NEW r \in Requests, Deliver(r) \/ Lose(r) PROVE [Promised!Next]_(Promised!svars)
<1>1. /\ away' = away /\ cookie' \in {NoToken, cookie, req[r].set} /\ link' \in {link, req[r].set}
      /\ \A s \in Requests : req'[s] = IF s = r THEN NoRequest ELSE req[s]
  BY Zenon DEF Deliver, Lose, IInv, TypeOK
<1>2. ~(NoRequest.review >= 0) /\ NoRequest.tok = NoToken /\ NoRequest.set = NoToken
  BY DEF NoRequest
<1>3. Circulating' \subseteq Circulating
  BY <1>1, <1>2, InCirculation, InCirculationNext
<1> QED BY <1>1, <1>3, Loses

\* A step of a handler that makes no token and ends no review.
LEMMA QuietRefines ==
  ASSUME IInv, NEW r \in Requests, NEW q, Continue(r, q), q.tok \in {NoToken, req[r].tok},
         q.set = NoToken, ~(q.review >= 0)
  PROVE  [Promised!Next]_(Promised!svars)
<1>1. Circulating' \subseteq Circulating
  BY Carried, InCirculation, Zenon
<1>2. away' = away
  BY DEF Continue
<1> QED BY <1>1, <1>2, Loses

\* What a response without a token carries.
LEMMA Empty ==
  ASSUME NEW r, NEW ok, NEW set, NEW clear
  PROVE  LET q == Response(r, ok, set, clear) IN
         q.tok = NoToken /\ q.set = set /\ ~(q.review >= 0)
  BY DEF Response, NoRequest

\* A review that ends well is one of the promise: the permission was there when the
\* request asked for it, and the workspace let the user in just now.
LEMMA ReviewRefines ==
  ASSUME IInv, NEW r \in Requests, req[r].pc = "access", CheckWorkspaceAccess,
         Continue(r, Verdict(r, "allowed"))
  PROVE  [Promised!Next]_(Promised!svars)
<1> USE TokenAssumption
<1> DEFINE p == Goto(r, "mint")
           q == [p EXCEPT !.review = 0]
<1>1. req[r] \in Request /\ req[r].wait \in 0..Latency
  BY Zenon DEF IInv, TypeOK, Request
<1>2. p \in Request /\ p.tok = req[r].tok /\ p.set = req[r].set
  BY <1>1, Gone
<1>3. q.tok = req[r].tok /\ q.set = req[r].set /\ q.review = 0
  BY <1>2 DEF Request
<1>4. Continue(r, q) /\ away' = away
  BY DEF Verdict, Continue
<1> HIDE DEF p, q
<1>5. Circulating' \subseteq Circulating \cup {Permit(0)}
  BY <1>3, <1>4, Carried, InCirculation
<1>6. \A c \in Conditions : away[c] <= Latency
  <2>1. away["rbac"] \in Nat /\ away["rbac"] <= req[r].wait
    <3>1. InOrder(req[r], away["rbac"], spent.faults) /\ away["rbac"] \in Nat
      BY DEF IInv, TypeOK, Conditions
    <3> QED BY ZenonT(30), <3>1 DEF InOrder
  <2>2. away["workspace"] = 0
    BY ZenonT(30) DEF IInv, Conditions, Holds
  <2> QED BY <1>1, <2>1, <2>2 DEF Conditions
<1>7. Promised!Cap("permit", 0, 0) = Permit(0)
  BY ZenonT(30) DEF Promised!Cap, Permit
<1>8. Promised!Authorise
  BY <1>4, <1>5, <1>6, <1>7, SameWords DEF Promised!Authorise
<1> QED BY <1>8 DEF Promised!Next

\* A token is minted for a permit, for a bootstrap token, or for a session in doubt.
LEMMA MintRefines ==
  ASSUME IInv, NEW r \in Requests, Mint(r) PROVE [Promised!Next]_(Promised!svars)
<1>1. PICK ok \in BOOLEAN, set \in {Minted(r), NoToken} : Continue(r, Response(r, ok, set, FALSE))
  BY Zenon DEF Mint
<1>2. Circulating' \subseteq Circulating \cup {Minted(r)} /\ away' = away
  <2>1. away' = away
    BY <1>1 DEF Continue
  <2> DEFINE q == Response(r, ok, set, FALSE)
  <2>2. q.tok = NoToken /\ q.set = set /\ ~(q.review >= 0) /\ Continue(r, q)
    <3>1. q.tok = NoToken /\ q.set = set /\ ~(q.review >= 0)
      BY Empty, Zenon
    <3> QED BY <1>1, <3>1, Zenon
  <2> HIDE DEF q
  <2> QED BY <1>1, <2>1, <2>2, Carried
<1>3. \E x \in Circulating : Minted(r) \in Promised!Yields(x)
  <2>1. /\ req[r].tok \in Token /\ InOrder(req[r], away["rbac"], spent.faults) /\ req[r].pc = "mint"
    BY DEF IInv, TypeOK, Request, Mint
  <2>2. CASE req[r].review >= 0
    <3>1. Permit(req[r].review) \in Circulating
      BY <2>2, InCirculation
    <3>2. /\ GenerateToken("bootstrap", 0) \in Promised!Yields(Permit(req[r].review))
          /\ GenerateToken("session", 0) \in Promised!Yields(Permit(req[r].review))
      BY ZenonT(30) DEF Promised!Yields, Permit, Promised!Cap, GenerateToken
    <3>3. Minted(r) \in {GenerateToken("bootstrap", 0), GenerateToken("session", 0)}
      BY <2>2 DEF Minted
    <3> QED BY <3>1, <3>2, <3>3, Zenon
  <2>3. CASE ~(req[r].review >= 0)
    <3>1. req[r].route \in {"bearer", "verify"} /\ req[r].tok.kind = Accepts(req[r].route)
      BY ZenonT(30), <2>1, <2>3 DEF InOrder
    <3>2. req[r].tok # NoToken
      <4>1. req[r].tok.kind # "none"
        BY <3>1 DEF Accepts
      <4> QED BY <4>1, Tokens
    <3>3. req[r].tok \in Circulating
      BY <3>2, InCirculation, Zenon
    <3>4. Minted(r) \in Promised!Yields(req[r].tok)
      BY <2>3, <3>1 DEF Minted, Promised!Yields, Promised!Cap, GenerateToken, Accepts
    <3> QED BY <3>3, <3>4
  <2> QED BY <2>2, <2>3
<1>4. Promised!Issue
  BY <1>2, <1>3 DEF Promised!Issue
<1> QED BY <1>4 DEF Promised!Next

\* Every step of a handler is one of the promise, or a stutter of it.
LEMMA HandlerRefines ==
  ASSUME IInv, NEW r \in Requests, Handler(r) PROVE [Promised!Next]_(Promised!svars)
<1>1. ASSUME NEW ok, NEW c, Continue(r, Response(r, ok, NoToken, c))
      PROVE  [Promised!Next]_(Promised!svars)
  <2> DEFINE q == Response(r, ok, NoToken, c)
  <2>1. q.tok = NoToken /\ q.set = NoToken /\ ~(q.review >= 0)
    BY Empty
  <2>2. Continue(r, q)
    BY <1>1
  <2> HIDE DEF q
  <2> QED BY <2>1, <2>2, QuietRefines, Zenon
<1>2. ASSUME NEW pc \in {"rbac", "access", "mint"}, Continue(r, Goto(r, pc)),
             req[r].pc \in {"validate", "rbac", "access"}
      PROVE  [Promised!Next]_(Promised!svars)
  <2> DEFINE q == Goto(r, pc)
  <2>1. req[r] \in Request /\ req[r].set = NoToken /\ ~(req[r].review >= 0)
    BY <1>2, Zenon DEF IInv, TypeOK, InOrder
  <2>2. q.tok = req[r].tok /\ q.review = req[r].review /\ q.set = req[r].set
    BY <2>1, Gone
  <2>3. Continue(r, q)
    BY <1>2
  <2> HIDE DEF q
  <2> QED BY <2>1, <2>2, <2>3, QuietRefines
<1>3. CASE ValidateToken(r)
  <2>1. \/ \E ok \in BOOLEAN : Continue(r, Response(r, ok, NoToken, FALSE))
        \/ \E pc \in {"mint", "rbac"} : Continue(r, Goto(r, pc))
    BY <1>3, Zenon DEF ValidateToken, Refusal
  <2>2. req[r].pc = "validate"
    BY <1>3 DEF ValidateToken
  <2> QED BY <1>1, <1>2, <2>1, <2>2, Zenon
<1>4. ASSUME NEW v \in {"denied", "failed"}, req[r].pc \in {"rbac", "access"}, Continue(r, Verdict(r, v))
      PROVE  [Promised!Next]_(Promised!svars)
  <2>1. \/ \E c \in BOOLEAN : Continue(r, Response(r, FALSE, NoToken, c))
        \/ Continue(r, Goto(r, "mint"))
    BY <1>4, Zenon DEF Verdict, Refusal
  <2> QED BY <1>1, <1>2, <1>4, <2>1, Zenon
<1>5. CASE CheckRBACPermission(r)
  <2>1. /\ req[r].pc = "rbac"
        /\ \/ \E v \in {"denied", "failed"} : Continue(r, Verdict(r, v))
           \/ Continue(r, Goto(r, "access"))
    BY <1>5, Zenon DEF CheckRBACPermission
  <2> QED BY <1>2, <1>4, <2>1
<1>6. CASE CheckAccess(r)
  <2>1. /\ req[r].pc = "access"
        /\ \/ \E v \in {"denied", "failed"} : Continue(r, Verdict(r, v))
           \/ CheckWorkspaceAccess /\ Continue(r, Verdict(r, "allowed"))
    BY <1>6, Zenon DEF CheckAccess
  <2> QED BY <1>4, <2>1, ReviewRefines
<1> QED BY <1>3, <1>5, <1>6, MintRefines DEF Handler

\* Every step implements a step of the promise, or a stutter of it.
LEMMA StepRefines == IInv /\ [Next]_vars => [Promised!Next]_(Promised!svars)
<1>1. ASSUME UNCHANGED vars PROVE [Promised!Next]_(Promised!svars)
  <2>1. away' = away /\ Circulating' = Circulating
    BY <1>1 DEF vars, Circulating, Permits, Held
  <2> QED BY <2>1, Loses
<1> QED BY <1>1, ChangeRefines, TickRefines, ArrivalRefines, HandlerRefines, DeliveryRefines DEF Next

\* Cookies, requests and responses implement the promise, however requests interleave,
\* calls fail and responses are lost (the middleware's handlers, HandleConnectionCreate).
THEOREM Implements == Spec => KeepsPromise
  BY InitIInv, StepIInv, InitRefines, StepRefines, PTL DEF Spec, KeepsPromise, Promised!Spec
-----------------------------------------------------------------------------
\* Lives, spans and lags are natural numbers, and a failed review adds one span.
LEMMA Spans ==
  /\ \A k \in Promised!Kinds : Promised!Span(k) \in Nat
  /\ \A k \in Promised!Kinds, d \in Nat : Promised!Lag(k, d) \in Nat
  /\ \A d \in Nat :
       Promised!Lag("session", d + 1) = Promised!Lag("session", d) + Promised!Span("session")
  /\ \A d \in Nat : Promised!Lag("session", d) >= 3 * Latency + BootLife - 1
<1>1. \A k \in Promised!Kinds : Promised!Span(k) \in Nat
  BY TokenAssumption DEF Promised!Kinds, Promised!Span, Promised!Life
<1> DEFINE S == Promised!Span("session")
<1>2. S \in Nat
  BY <1>1 DEF Promised!Kinds
<1> HIDE DEF S
<1>3. \A d \in Nat : d * S \in Nat /\ (d + 1) * S = d * S + S
  BY <1>2
<1>4. \A d \in Nat : Promised!Lag("session", d) = 3 * Latency + BootLife - 1 + d * S
  BY DEF Promised!Lag, S
<1>5. \A d \in Nat : /\ Promised!Lag("session", d) \in Nat
                     /\ Promised!Lag("session", d) >= 3 * Latency + BootLife - 1
                     /\ Promised!Lag("session", d + 1) = Promised!Lag("session", d) + S
  <2> SUFFICES ASSUME NEW d \in Nat
               PROVE  /\ Promised!Lag("session", d) \in Nat
                      /\ Promised!Lag("session", d) >= 3 * Latency + BootLife - 1
                      /\ Promised!Lag("session", d + 1) = Promised!Lag("session", d) + S
    OBVIOUS
  <2>1. d + 1 \in Nat
    OBVIOUS
  <2>2. Promised!Lag("session", d + 1) = 3 * Latency + BootLife - 1 + (d + 1) * S
    BY <2>1, <1>4
  <2> QED BY <1>2, <1>3, <1>4, <2>2, TokenAssumption
<1>6. \A d \in Nat : Promised!Lag("permit", d) \in Nat /\ Promised!Lag("bootstrap", d) \in Nat
  BY TokenAssumption DEF Promised!Lag
<1> QED BY <1>1, <1>5, <1>6, Zenon DEF Promised!Kinds, S

\* Every step keeps the tokens recent.
LEMMA RecentStep ==
  ASSUME Promised!TypeOK, Promised!Recent, [Promised!Next]_(Promised!svars)
  PROVE  Promised!TypeOK' /\ Promised!Recent'
<1> USE TokenAssumption
<1>0. \A x \in Circulating :
        /\ x \in Promised!Caps /\ x.kind \in Promised!Kinds /\ x.age \in Nat /\ x.doubt \in Nat
        /\ Promised!Lag(x.kind, x.doubt) \in Nat /\ Promised!Span(x.kind) \in Nat
  BY Spans DEF Promised!TypeOK, Promised!Caps
<1>1. CASE Promised!Tick
  <2>1. \A c \in Promised!Conditions : away'[c] <= away[c] + 1
    BY <1>1 DEF Promised!Tick, Promised!Longer, Promised!TypeOK
  <2>2. ASSUME NEW x \in Circulating'
        PROVE  /\ x \in Promised!Caps /\ x.age <= Promised!Span(x.kind)
               /\ \A c \in Promised!Conditions : away'[c] <= x.age + Promised!Lag(x.kind, x.doubt)
    <3>1. PICK y \in Circulating : x = [y EXCEPT !.age = @ + 1] /\ x.age <= Promised!Span(x.kind)
      BY <1>1 DEF Promised!Tick
    <3>2. x.kind = y.kind /\ x.doubt = y.doubt /\ x.age = y.age + 1 /\ x \in Promised!Caps
      BY <3>1, <1>0 DEF Promised!Caps
    <3>3. \A c \in Promised!Conditions : away'[c] \in Nat /\ away[c] \in Nat
      BY <1>1 DEF Promised!Tick, Promised!TypeOK
    <3> QED BY <3>1, <3>2, <3>3, <2>1, <1>0 DEF Promised!Recent
  <2>3. away' \in [Promised!Conditions -> 0..MaxAway]
    BY <1>1 DEF Promised!Tick
  <2> QED BY <2>2, <2>3 DEF Promised!TypeOK, Promised!Recent
<1>2. CASE Promised!Restore
  <2>1. PICK d \in Promised!Conditions : away' = [away EXCEPT ![d] = 0] /\ Circulating' = Circulating
    BY <1>2, Zenon DEF Promised!Restore
  <2>2. /\ away' \in [Promised!Conditions -> 0..MaxAway]
        /\ \A c \in Promised!Conditions : away'[c] \in {0, away[c]}
    BY <2>1 DEF Promised!TypeOK
  <2> QED BY <2>1, <2>2, <1>0 DEF Promised!TypeOK, Promised!Recent
<1>3. CASE Promised!Authorise
  <2> DEFINE p == Promised!Cap("permit", 0, 0)
  <2>1. p \in Promised!Caps /\ p.kind = "permit" /\ p.age = 0 /\ p.doubt = 0
    BY DEF Promised!Cap, Promised!Caps, Promised!Kinds
  <2>2. Promised!Lag("permit", 0) = Latency /\ Promised!Span("permit") \in Nat
    BY Spans DEF Promised!Lag, Promised!Kinds
  <2>3. \A c \in Promised!Conditions : away[c] \in Nat /\ away[c] <= Latency
    BY <1>3 DEF Promised!Authorise, Promised!TypeOK
  <2> HIDE DEF p
  <2>4. away' = away /\ Circulating' \subseteq Circulating \cup {p}
    BY <1>3 DEF Promised!Authorise, p
  <2> QED BY <2>1, <2>2, <2>3, <2>4 DEF Promised!TypeOK, Promised!Recent
<1>4. CASE Promised!Issue
  <2>1. PICK x \in Circulating : away' = away /\ Circulating' \subseteq Circulating \cup Promised!Yields(x)
    BY <1>4, Zenon DEF Promised!Issue
  <2>2. ASSUME NEW y \in Promised!Yields(x)
        PROVE  /\ y \in Promised!Caps /\ y.age <= Promised!Span(y.kind)
               /\ \A c \in Promised!Conditions : away[c] <= y.age + Promised!Lag(y.kind, y.doubt)
    <3>1. /\ y \in Promised!Caps /\ y.age = 0
          /\ \/ x.kind = "permit" /\ y.kind = "bootstrap" /\ y.doubt = 0
             \/ x.kind = "permit" /\ y.kind = "session" /\ y.doubt = 0
             \/ x.kind = "bootstrap" /\ y.kind = "session" /\ y.doubt = x.doubt
             \/ x.kind = "session" /\ y.kind = "session" /\ y.doubt = x.doubt + 1
      BY <1>0 DEF Promised!Yields, Promised!Cap, Promised!Caps, Promised!Kinds
    <3>2. Promised!Span(y.kind) \in Nat
      BY <3>1, Spans, Zenon DEF Promised!Kinds
    <3>3. ASSUME NEW c \in Promised!Conditions PROVE away[c] <= Promised!Lag(y.kind, y.doubt)
      <4>1. away[c] \in Nat /\ away[c] <= Promised!Span(x.kind) + Promised!Lag(x.kind, x.doubt)
        BY <1>0 DEF Promised!TypeOK, Promised!Recent
      <4>2. CASE x.kind = "permit"
        BY <4>1, <4>2, <3>1, Spans DEF Promised!Lag, Promised!Span, Promised!Life
      <4>3. CASE x.kind = "bootstrap"
        <5>1. away[c] <= 3 * Latency + BootLife - 1
          BY <4>1, <4>3 DEF Promised!Span, Promised!Life, Promised!Lag
        <5>2. y.kind = "session" /\ y.doubt \in Nat
          BY <4>3, <3>1 DEF Promised!Caps
        <5> QED BY <4>1, <5>1, <5>2, Spans DEF Promised!Kinds
      <4>4. CASE x.kind = "session"
        BY <4>1, <4>4, <3>1, <1>0, Spans
      <4> QED BY <4>2, <4>3, <4>4, <1>0 DEF Promised!Kinds
    <3> QED BY <3>1, <3>2, <3>3, Spans DEF Promised!Caps
  <2> QED BY <2>1, <2>2 DEF Promised!TypeOK, Promised!Recent
<1>5. CASE UNCHANGED Promised!svars
  BY <1>5 DEF Promised!svars, Promised!TypeOK, Promised!Recent
<1> QED BY <1>1, <1>2, <1>3, <1>4, <1>5 DEF Promised!Next

\* Whatever keeps the promise with the tokens in circulation has none that outlives the
\* conditions it was issued under by more than its lag, in any order of reviews, exchanges
\* and failed reviews (the middleware's handlers).
THEOREM StaysRecent == Promised!Spec => []Promised!Recent
<1>1. Promised!Init => Promised!TypeOK /\ Promised!Recent
  BY DEF Promised!Init, Promised!TypeOK, Promised!Recent
<1>2. Promised!TypeOK /\ Promised!Recent /\ [Promised!Next]_(Promised!svars) =>
        Promised!TypeOK' /\ Promised!Recent'
  BY RecentStep
<1> QED BY <1>1, <1>2, PTL DEF Promised!Spec
-----------------------------------------------------------------------------
\* The session of a request that handleVerify lets through is in circulation.
LEMMA AdmittedBySession ==
  ASSUME IInv, [Next]_vars, NEW r \in Requests, Admits(r)
  PROVE  req[r].tok.kind = "session" /\ req[r].tok \in Circulating
<1>1. /\ req[r] \in Request /\ InOrder(req[r], away["rbac"], spent.faults)
      /\ req[r].pc \notin {"idle", "reply"} /\ req[r].route = "verify"
      /\ req'[r].pc = "reply" /\ req'[r].ok
  BY DEF IInv, TypeOK, Admits, Running
<1>2. req[r].tok.kind = "session"
  <2>1. CASE req[r].pc \in {"rbac", "access", "mint"}
    BY ZenonT(30), <1>1, <2>1 DEF InOrder, Accepts
  <2>2. CASE req[r].pc = "validate"
    <3>1. ValidateToken(r)
      <4>1. ASSUME NEW s \in Requests \ {r}, NEW q, req' = [req EXCEPT ![s] = q] PROVE FALSE
        BY <1>1, <4>1 DEF IInv, TypeOK
      <4>2. ~(\E s \in Requests : Arrival(s) \/ Deliver(s) \/ Lose(s))
        <5>1. \A s \in Requests : Arrival(s) \/ Deliver(s) \/ Lose(s) =>
                /\ req[s].pc \in {"idle", "reply"}
                /\ \E q : req' = [req EXCEPT ![s] = q]
          BY Zenon DEF Arrival, HandleConnectionCreate, HandleAuth, HandleBearerAuth,
             HandleVerify, Present, Begin, Deliver, Lose
        <5> SUFFICES ASSUME NEW s \in Requests, Arrival(s) \/ Deliver(s) \/ Lose(s) PROVE FALSE
          OBVIOUS
        <5>2. PICK q : req' = [req EXCEPT ![s] = q]
          BY <5>1
        <5>3. s # r
          BY <2>2, <5>1
        <5> QED BY <4>1, <5>2, <5>3, Zenon
      <4>3. ~(\E s \in Requests \ {r} : Handler(s))
        <5>1. \A s \in Requests : Handler(s) => \E q : req' = [req EXCEPT ![s] = q]
          BY Zenon DEF Handler, ValidateToken, CheckRBACPermission, CheckAccess, Mint, Continue
        <5> SUFFICES ASSUME NEW s \in Requests \ {r}, Handler(s) PROVE FALSE
          OBVIOUS
        <5>2. PICK q : req' = [req EXCEPT ![s] = q]
          BY <5>1, Zenon
        <5> QED BY ZenonT(30), <4>1, <5>2
      <4>4. ~Tick
        <5>1. Tick => req'[r] = OlderRequest(req[r])
          BY Zenon DEF Tick
        <5>2. OlderRequest(req[r]).pc = "validate"
          BY <1>1, <2>2 DEF OlderRequest, Request
        <5> QED BY <1>1, <5>1, <5>2
      <4>5. ~(ChangeWorkspace \/ ChangePermission \/ UNCHANGED vars)
        BY <1>1 DEF ChangeWorkspace, ChangePermission, Change, vars
      <4>6. Handler(r)
        BY <4>2, <4>3, <4>4, <4>5 DEF Next
      <4> QED BY <2>2, <4>6 DEF Handler, CheckRBACPermission, CheckAccess, Mint
    <3>2. PICK fits \in BOOLEAN : Validated(r, fits) \/ Continue(r, Refusal(r))
      BY <3>1, Zenon DEF ValidateToken
    <3>3. ~Continue(r, Refusal(r))
      <4>1. ~Refusal(r).ok
        BY Zenon DEF Refusal, Response, NoRequest
      <4>2. Continue(r, Refusal(r)) => req'[r] = Refusal(r)
        BY Zenon DEF Continue, IInv, TypeOK
      <4> QED BY <1>1, <4>1, <4>2, Zenon
    <3> QED BY <1>1, <3>2, <3>3, ZenonT(30) DEF Validated, Accepts
  <2> QED BY <1>1, <2>1, <2>2 DEF Request
<1>3. req[r].tok # NoToken
  BY <1>2 DEF NoToken
<1> QED BY <1>2, <1>3, InCirculation, Zenon

\* handleVerify lets a request through only on recent authority: the permission and the
\* workspace's consent are no older than a session, its issue and its failed reviews.
THEOREM Authority == Spec => AuthorisedRecently
<1> DEFINE A == \A r \in Requests : Admits(r) =>
                  \A c \in Conditions :
                    away[c] <= Span("session") + Lag("session", req[r].tok.doubt)
<1>1. IInv /\ Promised!Recent /\ [Next]_vars => [A]_vars
  <2> SUFFICES ASSUME IInv, Promised!Recent, [Next]_vars, NEW r \in Requests, Admits(r),
                      NEW c \in Conditions
               PROVE  away[c] <= Span("session") + Lag("session", req[r].tok.doubt)
    BY Zenon
  <2>1. req[r].tok.kind = "session" /\ req[r].tok \in Circulating /\ req[r].tok \in Token
    BY AdmittedBySession DEF IInv, TypeOK, Request
  <2>2. /\ req[r].tok.age <= Span("session")
        /\ away[c] <= req[r].tok.age + Lag("session", req[r].tok.doubt)
    BY ZenonT(30), <2>1 DEF Promised!Recent, Promised!Span, Span, Promised!Life, Life, Promised!Lag, Lag,
       Promised!Conditions, Conditions
  <2>3. req[r].tok.age \in Nat /\ away[c] \in Nat /\ Span("session") \in Nat
    <3>1. req[r].tok.age \in Nat
      BY <2>1, SomeToken
    <3>2. away[c] \in Nat
      BY DEF IInv, TypeOK
    <3>3. Span("session") \in Nat
      BY SpanNat DEF Kinds
    <3> QED BY <3>1, <3>2, <3>3, Zenon
  <2>4. Lag("session", req[r].tok.doubt) \in Int
    <3>1. req[r].tok.doubt \in Nat
      BY <2>1, Doubts
    <3>2. req[r].tok.doubt * Span("session") \in Int
      BY <2>3, <3>1
    <3> QED BY <3>2, TokenAssumption DEF Lag
  <2> QED BY <2>2, <2>3, <2>4
<1>2. Spec => []IInv
  BY InitIInv, StepIInv, PTL DEF Spec
<1>3. Spec => []Promised!Recent
  BY Implements, StaysRecent, PTL DEF KeepsPromise
<1> QED BY <1>1, <1>2, <1>3, PTL DEF Spec, AuthorisedRecently
=============================================================================
