------------------------ MODULE RemoteAccess_proofs ------------------------
(* Proofs about RemoteAccess, for every number of pods, handlers and troubles. *)
EXTENDS RemotePods_proofs, FiniteSetTheorems

\* The provers are tried in turn, with more time than by default: contexts are large.
USE SMTT(30), ZenonT(20), Z3T(30)

\* A running agent has the identity registered last, of those with its pod's tag.
Latest ==
  \A p \in Pods : /\ agent[p] <= Len(sess)
                  /\ agent[p] # 0 => \A x \in insts : x.pod = p => x.id <= agent[p]

\* The parts of TypeOK, by who changes them.
PodType ==
  /\ life \in [Pods -> {"none", "up", "term", "gone"}]
  /\ side \in [Pods -> Container] /\ main \in [Pods -> Container]
  /\ seen \in [Pods -> PodObject]
  /\ left \in {"both", "strategy", "nothing"}
InPodType == file \in [Pods -> FileType] /\ agent \in [Pods -> Nat] /\ server \in [Pods -> Nat]
EventType ==
  /\ queue \in Seq(PodObject)
  /\ h \in HandlerType /\ (h.pc # "idle" => h.ev \in PodObject)
SsmType ==
  sess \in Seq(Nat) /\ insts \subseteq [pod: Pods, id: 1..Len(sess)] /\ acts \in [Pods -> Nat]
RequestType ==
  /\ init \in {"new", "ok", "failed"}
  /\ req \in [Handlers -> [pc: {"idle", "check", "start"}, inst: 0..Len(sess)]]
  /\ \A c \in Handlers : req[c].pc \in {"check", "start"} => req[c].inst # 0
HistType == spoiled \subseteq Pods /\ missed \subseteq Pods

\* The parts make up the whole.
LEMMA TypeParts ==
  TypeOK <=> /\ PodType /\ InPodType /\ EventType /\ SsmType /\ RequestType /\ HistType
             /\ budget \in BudgetType
  BY Zenon DEF TypeOK, PodType, InPodType, EventType, SsmType, RequestType, HistType, BudgetType,
         FileType, HandlerType

\* So they do after a step.
LEMMA TypePartsNext ==
  TypeOK' <=> /\ PodType' /\ InPodType' /\ EventType' /\ SsmType' /\ RequestType' /\ HistType'
              /\ budget' \in BudgetType
  BY Zenon DEF TypeOK, PodType, InPodType, EventType, SsmType, RequestType, HistType, BudgetType,
         FileType, HandlerType

\* What troubles and calls cost.
LEMMA Costs ==
  ASSUME budget \in BudgetType
  PROVE  /\ Charge("restarts") \/ Charge("damages") \/ Charge("faults") \/ Charge("crashes")
              => budget' \in BudgetType
         /\ \A o : Spend(o) => budget' \in BudgetType
         /\ budget' = Raised("load", 1) => budget' \in BudgetType
<1>1. /\ Charge("restarts") => budget' \in BudgetType
      /\ Charge("damages") => budget' \in BudgetType
      /\ Charge("faults") => budget' \in BudgetType
      /\ Charge("crashes") => budget' \in BudgetType
  <2>1. /\ Raised("restarts", 1) \in BudgetType /\ Raised("damages", 1) \in BudgetType
        /\ Raised("faults", 1) \in BudgetType /\ Raised("crashes", 1) \in BudgetType
    BY DEF BudgetType, Raised
  <2>2. \A b \in BudgetType : [b EXCEPT !.load = @ + 2] \in BudgetType
    BY DEF BudgetType
  <2> QED BY <2>1, <2>2 DEF Charge
<1>2. ASSUME NEW o, Spend(o) PROVE budget' \in BudgetType
  BY <1>1, <1>2 DEF Spend
<1>3. budget' = Raised("load", 1) => budget' \in BudgetType
  BY DEF BudgetType, Raised
<1> QED BY <1>1, <1>2, <1>3, Zenon

\* The initial state is well-formed.
LEMMA InitType == Init => TypeOK /\ Latest /\ SessionBound
<1> SUFFICES ASSUME Init PROVE TypeOK /\ Latest /\ SessionBound
  OBVIOUS
<1>1. PodType
  BY DEF Init, PodType, Started, Container, PodObject
<1>2. InPodType
  BY DEF Init, InPodType, FileType, NoFile
<1>3. EventType
  BY DEF Init, EventType, HandlerType, Idle
<1>4. SsmType /\ Len(sess) = 0
  BY DEF Init, SsmType
<1>5. RequestType
  BY <1>4 DEF Init, RequestType, NoRequest
<1>6. HistType /\ budget \in BudgetType
  BY DEF Init, HistType, BudgetType
<1>7. Latest
  BY <1>4 DEF Init, Latest
<1>8. SessionBound
  BY <1>4 DEF Init, SessionBound
<1> QED BY <1>1, <1>2, <1>3, <1>4, <1>5, <1>6, <1>7, <1>8, TypeParts, Zenon
-----------------------------------------------------------------------------
Below == {ss \in Nat \X Nat : ss[1] < ss[2]}

\* A set of natural numbers has a least one.
LEMMA Least == ASSUME NEW S \in SUBSET Nat, S # {} PROVE \E x \in S : \A y \in S : x <= y
<1>1. IsWellFoundedOn(Below, Nat)
  BY NatLessThanWellFounded, Zenon DEF OpToRel, Below
<1>2. PICK x \in S : \A y \in S : ~(<<y, x>> \in Below)
  BY <1>1, WFMin, Zenon
<1>3. \A y \in S : ~(y < x)
  BY <1>2, Zenon DEF Below
<1> QED BY <1>3

\* A bounded one has a greatest, which Max is.
LEMMA Greatest ==
  ASSUME NEW n \in Nat, NEW S \in SUBSET (1..n), S # {}
  PROVE  Max(S) \in S /\ \A y \in S : Max(S) >= y
<1> DEFINE D == {n - x : x \in S}
<1>1. D \in SUBSET Nat /\ D # {}
  <2>1. \A x \in S : n - x \in Nat
    OBVIOUS
  <2> QED BY <2>1, Zenon
<1>2. PICK d \in D : \A e \in D : d <= e
  BY <1>1, Least, Zenon
<1>3. PICK m \in S : d = n - m
  BY <1>2
<1>4. \A y \in S : m >= y
  <2> SUFFICES ASSUME NEW y \in S PROVE m >= y
    OBVIOUS
  <2>1. n - y \in D
    OBVIOUS
  <2>2. n - m <= n - y
    BY <1>2, <1>3, <2>1, Zenon
  <2> QED BY <2>2
<1> HIDE DEF D
<1> QED BY <1>4, Zenon DEF Max
-----------------------------------------------------------------------------
\* Kubernetes leaves handlers, SSM and requests alone, and agents only die.
LEMMA KubernetesType ==
  TypeOK /\ Kubernetes => TypeOK' /\ \A p \in Pods : agent'[p] \in {0, agent[p]}
<1> SUFFICES ASSUME TypeOK, Kubernetes
             PROVE  TypeOK' /\ \A p \in Pods : agent'[p] \in {0, agent[p]}
  OBVIOUS
<1>0. /\ PodType /\ InPodType /\ EventType /\ SsmType /\ RequestType /\ HistType
      /\ budget \in BudgetType
  BY TypeParts
<1>1. UNCHANGED <<h, ssm, init, req, hist>>
  BY Zenon DEF Kubernetes, Release, PodRunning, SidecarDown, MainDown, Containers, SidecarUp, MainUp,
         Report, Damage, Terminate, PodGone
<1>2. SsmType' /\ RequestType' /\ HistType'
  BY <1>0, <1>1 DEF ssm, hist, SsmType, RequestType, HistType
<1>3. \A objs \in Seq(PodObject) : Notify(objs) => queue' \in Seq(PodObject)
  BY <1>0 DEF EventType, Notify
<1>4. \A x, y \in PodObject : <<x>> \in Seq(PodObject) /\ <<x, y>> \in Seq(PodObject)
  OBVIOUS
<1>5. ASSUME NEW p \in Pods PROVE Object(p) \in PodObject /\ seen[p] \in PodObject
  BY <1>0 DEF Object, PodObject, PodType
<1>6. ASSUME UNCHANGED queue \/ \E x, y \in PodObject : Notify(<<x>>) \/ Notify(<<x, y>>),
             PodType', InPodType', budget' \in BudgetType,
             \A p \in Pods : agent'[p] \in {0, agent[p]}
      PROVE  TypeOK' /\ \A p \in Pods : agent'[p] \in {0, agent[p]}
  <2>1. EventType'
    <3>1. queue' \in Seq(PodObject)
      <4>1. CASE UNCHANGED queue
        BY <1>0, <4>1, Zenon DEF EventType
      <4>2. CASE \E x, y \in PodObject : Notify(<<x>>) \/ Notify(<<x, y>>)
        BY <1>3, <1>4, <4>2, Zenon
      <4> QED BY <1>6, <4>1, <4>2, Zenon
    <3> QED BY <1>0, <1>1, <3>1, Zenon DEF EventType
  <2> QED BY <1>2, <1>6, <2>1, TypePartsNext, Zenon
<1>7. UNCHANGED inPod => InPodType' /\ \A p \in Pods : agent'[p] \in {0, agent[p]}
  BY <1>0, Zenon DEF inPod, InPodType
<1>8. CASE Release
  BY <1>0, <1>6, <1>7, <1>8, Zenon DEF Release, PodType, podVars
<1>9. ASSUME NEW p \in Pods, PodRunning(p) PROVE TypeOK' /\ \A q \in Pods : agent'[q] \in {0, agent[q]}
  <2>1. PodType'
    BY <1>0, <1>9, Zenon DEF PodRunning, PodType
  <2> QED BY <1>0, <1>5, <1>6, <1>7, <1>9, <2>1, Zenon DEF PodRunning
<1>10. ASSUME NEW p \in Pods, SidecarDown(p) PROVE TypeOK' /\ \A q \in Pods : agent'[q] \in {0, agent[q]}
  <2>1. side' \in [Pods -> Container]
    BY ZenonT(30), <1>0, <1>10 DEF SidecarDown, PodType, Container
  <2>2. InPodType' /\ \A q \in Pods : agent'[q] \in {0, agent[q]}
    BY <1>0, <1>10 DEF SidecarDown, InPodType
  <2>3. PodType'
    BY <1>0, <1>10, <2>1, Zenon DEF SidecarDown, PodType
  <2> QED BY <1>0, <1>6, <1>10, <2>2, <2>3, Costs, Zenon DEF SidecarDown
<1>11. ASSUME NEW p \in Pods, MainDown(p) PROVE TypeOK' /\ \A q \in Pods : agent'[q] \in {0, agent[q]}
  <2>1. main' \in [Pods -> Container]
    BY <1>0, <1>11, Zenon DEF MainDown, PodType, Container
  <2>2. InPodType' /\ \A q \in Pods : agent'[q] \in {0, agent[q]}
    BY <1>0, <1>11, Zenon DEF MainDown, InPodType
  <2>3. PodType'
    BY <1>0, <1>11, <2>1, Zenon DEF MainDown, PodType
  <2> QED BY <1>0, <1>6, <1>11, <2>2, <2>3, Costs, Zenon DEF MainDown
<1>12. ASSUME NEW p \in Pods, Containers(p) PROVE TypeOK' /\ \A q \in Pods : agent'[q] \in {0, agent[q]}
  <2>1. side' \in [Pods -> Container] /\ main' \in [Pods -> Container]
    <3>1. side[p].n + 1 \in Nat /\ main[p].n + 1 \in Nat
      BY <1>0 DEF PodType, Container
    <3>2. /\ [n |-> side[p].n + 1, up |-> TRUE] \in Container
          /\ [n |-> main[p].n + 1, up |-> TRUE] \in Container
      BY <3>1, Zenon DEF Container
    <3> QED BY <1>0, <1>12, <3>2, Zenon DEF Containers, SidecarUp, MainUp, PodType
  <2>2. PodType'
    BY <1>0, <1>12, <2>1, Zenon DEF Containers, SidecarUp, MainUp, PodType
  <2> QED BY <1>0, <1>6, <1>7, <1>12, <2>2, Zenon DEF Containers, SidecarUp, MainUp
<1>13. ASSUME NEW p \in Pods, Report(p) PROVE TypeOK' /\ \A q \in Pods : agent'[q] \in {0, agent[q]}
  <2>1. PodType'
    BY <1>0, <1>5, <1>13, Zenon DEF Report, PodType
  <2> QED BY <1>0, <1>5, <1>6, <1>7, <1>13, <2>1, Zenon DEF Report
<1>14. ASSUME NEW p \in Pods, Damage(p) PROVE TypeOK' /\ \A q \in Pods : agent'[q] \in {0, agent[q]}
  <2>1. Damaged \in FileType
    BY Zenon DEF Damaged, NoFile, FileType
  <2>2. InPodType' /\ \A q \in Pods : agent'[q] \in {0, agent[q]}
    BY <1>0, <1>14, <2>1, Zenon DEF Damage, InPodType
  <2>3. PodType'
    BY <1>0, <1>14, Zenon DEF Damage, PodType, podVars
  <2> QED BY <1>0, <1>6, <1>14, <2>2, <2>3, Costs, Zenon DEF Damage
<1>15. ASSUME NEW p \in Pods, Terminate(p) PROVE TypeOK' /\ \A q \in Pods : agent'[q] \in {0, agent[q]}
  <2>1. seen' \in [Pods -> PodObject]
    BY <1>0, <1>15, Zenon DEF Terminate, PodType, PodObject
  <2>2. PodType'
    BY <1>0, <1>15, <2>1, Zenon DEF Terminate, PodType
  <2>3. seen'[p] \in PodObject
    BY <2>1, Zenon
  <2> QED BY <1>0, <1>5, <1>6, <1>7, <1>15, <2>2, <2>3, Zenon DEF Terminate
<1>16. ASSUME NEW p \in Pods, PodGone(p) PROVE TypeOK' /\ \A q \in Pods : agent'[q] \in {0, agent[q]}
  <2>1. InPodType' /\ \A q \in Pods : agent'[q] \in {0, agent[q]}
    BY <1>0, <1>16, Zenon DEF PodGone, InPodType
  <2>2. PodType'
    BY <1>0, <1>16 DEF PodGone, PodType
  <2> QED BY <1>0, <1>5, <1>6, <1>16, <2>1, <2>2, Zenon DEF PodGone
<1> QED
  BY <1>8, <1>9, <1>10, <1>11, <1>12, <1>13, <1>14, <1>15, <1>16, Zenon DEF Kubernetes
-----------------------------------------------------------------------------
\* A function on 1..n is a sequence of length n.
LEMMA FunctionSeq ==
  ASSUME NEW S, NEW n \in Nat, NEW f \in [1..n -> S] PROVE f \in Seq(S) /\ Len(f) = n
  OBVIOUS

\* Where the handler may go next.
LEMMA HandlerMoves ==
  ASSUME h \in HandlerType, h.ev \in PodObject
  PROVE  /\ Idle \in HandlerType /\ Idle.pc = "idle"
         /\ \A pc \in {"instances", "activations", "activate", "register", "marker", "server", "final"} :
              [h EXCEPT !.pc = pc] \in HandlerType /\ [h EXCEPT !.pc = pc].ev = h.ev
         /\ [h EXCEPT !.pc = "final", !.err = TRUE] \in HandlerType
         /\ [h EXCEPT !.pc = "final", !.err = TRUE].ev = h.ev
<1>1. Idle \in HandlerType /\ Idle.pc = "idle"
  BY DEF Idle, HandlerType
<1>2. \A pc \in {"instances", "activations", "activate", "register", "marker", "server", "final"} :
        [h EXCEPT !.pc = pc] \in HandlerType /\ [h EXCEPT !.pc = pc].ev = h.ev
  BY DEF HandlerType
<1>3. /\ [h EXCEPT !.pc = "final", !.err = TRUE] \in HandlerType
      /\ [h EXCEPT !.pc = "final", !.err = TRUE].ev = h.ev
  BY Zenon DEF HandlerType
<1> QED BY <1>1, <1>2, <1>3, Zenon

\* The handler's calls, for an object.
LEMMA Dispatched ==
  ASSUME NEW ev \in PodObject
  PROVE  /\ Dispatch(ev) \in HandlerType
         /\ Dispatch(ev).pc # "idle" => Dispatch(ev).ev = ev
<1>1. Idle \in HandlerType /\ Idle.pc = "idle"
  BY DEF Idle, HandlerType
<1>2. \A pc \in {"instances", "read"} : Call(pc, ev) \in HandlerType /\ Call(pc, ev).ev = ev
  BY <1>1, Zenon DEF Call, HandlerType
<1> QED BY <1>1, <1>2, Zenon DEF Dispatch

\* What the state file makes of a set-up.
LEMMA Decided ==
  ASSUME h \in HandlerType, h.ev \in PodObject, NEW f \in FileType
  PROVE  Decide(f) \in HandlerType /\ (Decide(f).pc # "idle" => Decide(f).ev = h.ev)
<1> DEFINE To(s, m, c) == [h EXCEPT !.pc = "mark", !.s = s, !.m = m, !.clean = c]
<1>1. \A s, m, c \in BOOLEAN : To(s, m, c) \in HandlerType /\ To(s, m, c).ev = h.ev
  BY ZenonT(30) DEF HandlerType
<1>2. [h EXCEPT !.pc = "mark", !.s = TRUE, !.m = TRUE] \in HandlerType
      /\ [h EXCEPT !.pc = "mark", !.s = TRUE, !.m = TRUE].ev = h.ev
  BY Zenon DEF HandlerType
<1>3. Idle \in HandlerType /\ Idle.pc = "idle"
  BY HandlerMoves
<1>4. \/ Decide(f) = Idle
      \/ Decide(f) = [h EXCEPT !.pc = "mark", !.s = TRUE, !.m = TRUE]
      \/ \E s, m, c \in BOOLEAN : Decide(f) = To(s, m, c)
  <2>1. CASE f = NoFile
    BY <2>1, Zenon DEF Decide
  <2>2. CASE f # NoFile /\ f = Damaged
    <3>1. Decide(f) = To(TRUE, TRUE, TRUE)
      BY <2>2, Zenon DEF Decide
    <3> QED BY <3>1, Zenon
  <2>3. CASE f # NoFile /\ f # Damaged
    <3> DEFINE s == h.ev.side.n > f.s
               m == h.ev.main.n > f.m
    <3>1. Decide(f) = IF f.busy \/ (~s /\ ~m) THEN Idle ELSE To(s, m, s)
      BY <2>3 DEF Decide
    <3>2. s \in BOOLEAN /\ m \in BOOLEAN
      <4>1. h.ev.side.n \in Nat /\ h.ev.main.n \in Nat /\ f.s \in Nat /\ f.m \in Nat
        BY DEF PodObject, Container, FileType
      <4> QED BY <4>1
    <3> QED BY <3>1, <3>2, Zenon
  <2> QED BY <2>1, <2>2, <2>3, Zenon
<1> HIDE DEF To
<1> QED BY <1>1, <1>2, <1>3, <1>4, Zenon

\* CleanupInstances only removes instances and ends their sessions.
LEMMA Cleaned ==
  ASSUME TypeOK, CleanupInstances
  PROVE  /\ insts' \subseteq insts /\ sess' \in Seq(Nat) /\ Len(sess') = Len(sess)
         /\ \A i \in 1..Len(sess) : sess'[i] \in {0, sess[i]}
<1>1. sess \in Seq(Nat) /\ Len(sess) \in Nat /\ DOMAIN sess = 1..Len(sess)
      /\ \A i \in 1..Len(sess) : sess[i] \in Nat
  BY DEF TypeOK
<1>2. PICK removed : /\ insts' = insts \ removed
                     /\ sess' = [i \in DOMAIN sess |->
                                   IF \E x \in removed : x.id = i THEN 0 ELSE sess[i]]
  BY Zenon DEF CleanupInstances
<1>3. sess' \in [1..Len(sess) -> Nat] /\ \A i \in 1..Len(sess) : sess'[i] \in {0, sess[i]}
  BY <1>1, <1>2
<1> QED BY <1>1, <1>2, <1>3, FunctionSeq, Zenon

\* A registration gives the pod's agent an identity nothing has had.
LEMMA Registered ==
  ASSUME TypeOK, RegisterAgent
  PROVE  /\ h.ev.pod \in Pods
         /\ \/ UNCHANGED <<insts, sess, agent>>
            \/ /\ insts' = insts \cup {[pod |-> h.ev.pod, id |-> Len(sess) + 1]}
               /\ sess' = Append(sess, 0) /\ sess' \in Seq(Nat) /\ Len(sess') = Len(sess) + 1
               /\ \A i \in 1..Len(sess) : sess'[i] = sess[i]
               /\ sess'[Len(sess) + 1] = 0
               /\ agent' = [agent EXCEPT ![h.ev.pod] = Len(sess) + 1]
<1>1. h.ev.pod \in Pods
  BY DEF RegisterAgent, TypeOK, PodObject
<1>2. \/ UNCHANGED <<insts, sess, agent>>
      \/ /\ insts' = insts \cup {[pod |-> h.ev.pod, id |-> Len(sess) + 1]}
         /\ sess' = Append(sess, 0)
         /\ agent' = [agent EXCEPT ![h.ev.pod] = Len(sess) + 1]
  BY Zenon DEF RegisterAgent
<1>3. sess \in Seq(Nat)
  BY DEF TypeOK
<1>4. LET t == Append(sess, 0) IN
      /\ t \in Seq(Nat) /\ Len(t) = Len(sess) + 1
      /\ \A i \in 1..Len(sess) : t[i] = sess[i]
      /\ t[Len(sess) + 1] = 0
  BY <1>3
<1> QED BY <1>1, <1>2, <1>4, Zenon

\* Steps of the handler that leave SSM and the agents alone.
LEMMA Elsewhere ==
  PodEventHandler => CleanupInstances \/ RegisterAgent \/ UNCHANGED <<insts, sess, agent>>
<1> SUFFICES ASSUME PodEventHandler, ~CleanupInstances, ~RegisterAgent
             PROVE  UNCHANGED <<insts, sess, agent>>
  OBVIOUS
<1>1. CASE HandleWorkspacePodEvents \/ ReadRegistrationState \/ MarkInProgress
  BY <1>1, Zenon DEF HandleWorkspacePodEvents, ReadRegistrationState, MarkInProgress, ssm, inPod
<1>2. CASE CleanupActivations \/ CreateSSMActivation \/ CreateMarkerFile
  BY <1>2 DEF CleanupActivations, CreateSSMActivation, CreateMarkerFile, ssm, inPod
<1>3. CASE StartRemoteAccessServer \/ WriteFinalState
  BY <1>3, Zenon DEF StartRemoteAccessServer, WriteFinalState, ssm, inPod
<1> QED BY <1>1, <1>2, <1>3, Zenon DEF PodEventHandler

\* SSM stays well-formed, and identities only grow.
LEMMA HandlerSsm ==
  ASSUME TypeOK, PodEventHandler
  PROVE  /\ sess' \in Seq(Nat) /\ insts' \subseteq [pod: Pods, id: 1..Len(sess')]
         /\ Len(sess) \in Nat /\ Len(sess') \in Nat /\ Len(sess) <= Len(sess')
         /\ agent' \in [Pods -> Nat]
<1>1. /\ sess \in Seq(Nat) /\ Len(sess) \in Nat /\ insts \subseteq [pod: Pods, id: 1..Len(sess)]
      /\ agent \in [Pods -> Nat]
  BY DEF TypeOK
<1>2. CASE CleanupInstances
  <2>1. /\ insts' \subseteq insts /\ sess' \in Seq(Nat) /\ Len(sess') = Len(sess)
        /\ agent' = agent
    BY <1>2, Cleaned, Zenon DEF CleanupInstances, inPod
  <2> QED BY <1>1, <2>1
<1>3. CASE RegisterAgent
  <2>1. CASE UNCHANGED <<insts, sess, agent>>
    BY <1>1, <2>1
  <2>2. CASE ~UNCHANGED <<insts, sess, agent>>
    <3>1. /\ insts' = insts \cup {[pod |-> h.ev.pod, id |-> Len(sess) + 1]} /\ h.ev.pod \in Pods
          /\ sess' \in Seq(Nat) /\ Len(sess') = Len(sess) + 1
          /\ agent' = [agent EXCEPT ![h.ev.pod] = Len(sess) + 1]
      BY <1>3, <2>2, Registered, Zenon
    <3> QED BY <1>1, <3>1
  <2> QED BY <2>1, <2>2, Zenon
<1>4. CASE UNCHANGED <<insts, sess, agent>>
  BY <1>1, <1>4
<1> QED BY <1>2, <1>3, <1>4, Elsewhere, Zenon

\* Writing the state file keeps files well-formed.
LEMMA Written ==
  ASSUME TypeOK, h.ev \in PodObject, NEW o, NEW busy \in BOOLEAN, WriteState(h.ev.pod, o, busy)
  PROVE  file' \in [Pods -> FileType] /\ budget' \in BudgetType
<1>1. h.ev.side.n \in Nat /\ h.ev.main.n \in Nat /\ h.ev.pod \in Pods
  BY DEF PodObject, Container
<1>2. State(busy) \in FileType
  BY <1>1, Zenon DEF State, FileType
<1>3. file \in [Pods -> FileType] /\ budget \in BudgetType
  BY DEF TypeOK, FileType, BudgetType
<1> QED BY <1>1, <1>2, <1>3, Costs, Zenon DEF WriteState, Exec

\* Going on or giving up keeps the handler well-formed.
LEMMA Proceeded ==
  ASSUME TypeOK, h.ev \in PodObject, NEW ok, NEW pc \in {"register", "marker", "server", "final"},
         Proceed(ok, pc)
  PROVE  h' \in HandlerType /\ h'.ev \in PodObject /\ HistType'
<1>1. h \in HandlerType /\ h.ev.pod \in Pods
  BY DEF TypeOK, HandlerType, PodObject
<1>2. h' = [h EXCEPT !.pc = pc] \/ h' = [h EXCEPT !.pc = "final", !.err = TRUE]
  BY Zenon DEF Proceed
<1>3. HistType'
  BY <1>1, Zenon DEF Proceed, HistType, TypeOK
<1> QED BY <1>1, <1>2, <1>3, HandlerMoves, Zenon

\* The handler keeps everything well-formed.
LEMMA HandlerKeeps == ASSUME TypeOK, PodEventHandler PROVE TypeOK'
<1> DEFINE Parts == /\ InPodType' /\ EventType' /\ SsmType' /\ HistType' /\ budget' \in BudgetType
<1>0. /\ PodType /\ InPodType /\ EventType /\ SsmType /\ RequestType /\ HistType
      /\ budget \in BudgetType
  BY TypeParts
<1>1. UNCHANGED <<podVars, init, req>>
  BY Zenon DEF PodEventHandler, HandleWorkspacePodEvents, ReadRegistrationState, MarkInProgress,
         CleanupInstances, CleanupActivations, CreateSSMActivation, RegisterAgent,
         CreateMarkerFile, StartRemoteAccessServer, WriteFinalState
<1>2. PodType' /\ RequestType'
  <2>1. PodType'
    BY <1>0, <1>1, Zenon DEF podVars, PodType
  <2>2. Len(sess) \in Nat /\ Len(sess') \in Nat /\ Len(sess) <= Len(sess')
    BY HandlerSsm
  <2>3. req \in [Handlers -> [pc: {"idle", "check", "start"}, inst: 0..Len(sess')]]
    <3>1. 0..Len(sess) \subseteq 0..Len(sess')
      BY <2>2
    <3> QED BY <1>0, <3>1 DEF RequestType
  <2> QED BY <1>0, <1>1, <2>1, <2>3, Zenon DEF RequestType
<1>3. /\ sess' \in Seq(Nat) /\ insts' \subseteq [pod: Pods, id: 1..Len(sess')]
      /\ agent' \in [Pods -> Nat]
  BY HandlerSsm
<1>4. /\ UNCHANGED acts => SsmType'
      /\ UNCHANGED <<file, server>> => InPodType'
      /\ UNCHANGED hist => HistType'
      /\ UNCHANGED budget => budget' \in BudgetType
  BY <1>0, <1>3 DEF SsmType, InPodType, HistType, hist
<1>5. UNCHANGED queue /\ h' \in HandlerType /\ (h'.pc # "idle" => h'.ev \in PodObject) => EventType'
  BY <1>0 DEF EventType
<1>6. h.pc # "idle" => h \in HandlerType /\ h.ev \in PodObject /\ h.ev.pod \in Pods
  BY <1>0 DEF EventType, PodObject
<1>7. \A o : Spend(o) => budget' \in BudgetType
  BY <1>0, Costs, Zenon
<1>8. CASE HandleWorkspacePodEvents
  <2>1. Head(queue) \in PodObject /\ Tail(queue) \in Seq(PodObject)
    BY <1>0, <1>8 DEF HandleWorkspacePodEvents, EventType
  <2>2. EventType'
    BY <1>8, <2>1, Dispatched, Zenon DEF HandleWorkspacePodEvents, EventType
  <2>3. Parts
    BY <1>4, <1>8, <2>2, Zenon DEF HandleWorkspacePodEvents, inPod, ssm
  <2> QED BY <1>2, <2>3, TypePartsNext, Zenon
<1>9. CASE ReadRegistrationState
  <2>1. h.pc # "idle"
    BY <1>9, Zenon DEF ReadRegistrationState
  <2>2. PICK o \in Replies : /\ Exec(h.ev.pod, side, o)
                             /\ h' = Decide(IF Succeeds(h.ev.pod, side, o) THEN file[h.ev.pod] ELSE NoFile)
    BY <1>9, Zenon DEF ReadRegistrationState
  <2>3. (IF Succeeds(h.ev.pod, side, o) THEN file[h.ev.pod] ELSE NoFile) \in FileType
    BY <1>0, <1>6, <2>1, Zenon DEF InPodType, FileType, NoFile
  <2>4. h' \in HandlerType /\ (h'.pc # "idle" => h'.ev \in PodObject)
    BY <1>6, <2>1, <2>2, <2>3, Decided, Zenon
  <2>5. Parts
    BY <1>4, <1>5, <1>7, <1>9, <2>2, <2>4, Zenon DEF ReadRegistrationState, Exec, inPod, ssm
  <2> QED BY <1>2, <2>5, TypePartsNext, Zenon
<1>10. CASE MarkInProgress
  <2>1. h.pc # "idle"
    BY <1>10 DEF MarkInProgress
  <2>2. PICK o \in Replies : WriteState(h.ev.pod, o, TRUE)
    BY <1>10, Zenon DEF MarkInProgress
  <2>3. file' \in [Pods -> FileType] /\ budget' \in BudgetType
    BY <1>6, <2>1, <2>2, Written, Zenon
  <2>4. \E pc \in {"server", "instances", "activate"} : h' = [h EXCEPT !.pc = pc]
    BY <1>10, Zenon DEF MarkInProgress
  <2>5. h' \in HandlerType /\ (h'.pc # "idle" => h'.ev \in PodObject)
    BY <1>6, <2>1, <2>4, HandlerMoves, Zenon
  <2>6. InPodType'
    BY <1>0, <1>10, <2>3, Zenon DEF MarkInProgress, InPodType
  <2>7. Parts
    BY <1>4, <1>5, <1>10, <2>3, <2>5, <2>6, Zenon DEF MarkInProgress, ssm
  <2> QED BY <1>2, <2>7, TypePartsNext
<1>11. CASE CleanupInstances
  <2>1. h.pc # "idle"
    BY <1>11 DEF CleanupInstances
  <2>2. h' = [h EXCEPT !.pc = "activations"]
    BY <1>11 DEF CleanupInstances
  <2>3. h' \in HandlerType /\ (h'.pc # "idle" => h'.ev \in PodObject)
    BY <1>6, <2>1, <2>2, HandlerMoves, Zenon
  <2>4. Parts
    BY <1>4, <1>5, <1>7, <1>11, <2>3, Zenon DEF CleanupInstances, inPod
  <2> QED BY <1>2, <2>4, TypePartsNext
<1>12. CASE CleanupActivations
  <2>1. h.pc # "idle"
    BY <1>12 DEF CleanupActivations
  <2>2. h' = Idle \/ h' = [h EXCEPT !.pc = "activate"]
    BY <1>12, Zenon DEF CleanupActivations
  <2>3. h' \in HandlerType /\ (h'.pc # "idle" => h'.ev \in PodObject)
    BY <1>6, <2>1, <2>2, HandlerMoves, Zenon
  <2>4. acts' \in [Pods -> Nat]
    <3>1. PICK n \in {0, 1, acts[h.ev.pod]} : acts' = [acts EXCEPT ![h.ev.pod] = n]
      BY <1>12, Zenon DEF CleanupActivations
    <3> QED BY <1>0, <1>6, <2>1, <3>1 DEF SsmType
  <2>5. SsmType'
    BY <1>3, <2>4, Zenon DEF SsmType
  <2>6. Parts
    BY <1>4, <1>5, <1>7, <1>12, <2>3, <2>5, Zenon DEF CleanupActivations, inPod
  <2> QED BY <1>2, <2>6, TypePartsNext
<1>13. CASE CreateSSMActivation
  <2>1. h.pc # "idle"
    BY <1>13, Zenon DEF CreateSSMActivation
  <2>2. PICK o \in Replies : /\ Spend(o) /\ Proceed(o = "ok", "register")
                             /\ acts' = IF o = "refused" THEN acts ELSE [acts EXCEPT ![h.ev.pod] = @ + 1]
    BY <1>13 DEF CreateSSMActivation
  <2>3. h' \in HandlerType /\ h'.ev \in PodObject /\ HistType'
    BY <1>6, <2>1, <2>2, Proceeded, Zenon
  <2>4. SsmType'
    BY <1>0, <1>3, <1>6, <2>1, <2>2 DEF SsmType
  <2>5. Parts
    BY <1>4, <1>5, <1>7, <1>13, <2>2, <2>3, <2>4, Zenon DEF CreateSSMActivation, inPod
  <2> QED BY <1>2, <2>5, TypePartsNext
<1>14. CASE RegisterAgent
  <2>1. h.pc # "idle"
    BY <1>14, Zenon DEF RegisterAgent
  <2>2. PICK o \in Replies : Exec(h.ev.pod, side, o) /\ Proceed(Succeeds(h.ev.pod, side, o), "marker")
    BY <1>14 DEF RegisterAgent
  <2>3. h' \in HandlerType /\ h'.ev \in PodObject /\ HistType'
    BY <1>6, <2>1, <2>2, Proceeded, Zenon
  <2>4. Parts
    BY <1>4, <1>5, <1>7, <1>14, <2>2, <2>3, Zenon DEF RegisterAgent, Exec
  <2> QED BY <1>2, <2>4, TypePartsNext
<1>15. CASE CreateMarkerFile
  <2>1. h.pc # "idle"
    BY <1>15 DEF CreateMarkerFile
  <2>2. PICK o \in Replies, pc \in {"server", "final"} :
          Exec(h.ev.pod, side, o) /\ Proceed(Succeeds(h.ev.pod, side, o), pc)
    BY <1>15, Zenon DEF CreateMarkerFile
  <2>3. h' \in HandlerType /\ h'.ev \in PodObject /\ HistType'
    BY <1>6, <2>1, <2>2, Proceeded, Zenon
  <2>4. Parts
    BY <1>4, <1>5, <1>7, <1>15, <2>2, <2>3, Zenon DEF CreateMarkerFile, Exec, inPod, ssm
  <2> QED BY <1>2, <2>4, TypePartsNext, Zenon
<1>16. CASE StartRemoteAccessServer
  <2>1. h.pc # "idle"
    BY <1>16 DEF StartRemoteAccessServer
  <2>2. PICK ok : Proceed(ok, "final")
    BY <1>16, Zenon DEF StartRemoteAccessServer
  <2>3. h' \in HandlerType /\ h'.ev \in PodObject /\ HistType'
    BY <1>6, <2>1, <2>2, Proceeded, Zenon
  <2>4. budget' \in BudgetType
    BY <1>0, <1>7, <1>16, Zenon DEF StartRemoteAccessServer, Exec
  <2>5. server' \in [Pods -> Nat]
    <3>1. server' = server \/ server' = [server EXCEPT ![h.ev.pod] = @ + 1]
      BY <1>16, Zenon DEF StartRemoteAccessServer
    <3> QED BY <1>0, <1>6, <2>1, <3>1 DEF InPodType
  <2>6. InPodType'
    BY <1>0, <1>16, <2>5, Zenon DEF StartRemoteAccessServer, InPodType
  <2>7. Parts
    BY <1>4, <1>5, <1>16, <2>3, <2>4, <2>6, Zenon DEF StartRemoteAccessServer, ssm
  <2> QED BY <1>2, <2>7, TypePartsNext
<1>17. CASE WriteFinalState
  <2>1. h.pc # "idle"
    BY <1>17, Zenon DEF WriteFinalState
  <2>2. PICK o \in Replies : WriteState(h.ev.pod, o, FALSE)
    BY <1>17, Zenon DEF WriteFinalState, Final
  <2>3. file' \in [Pods -> FileType] /\ budget' \in BudgetType
    BY <1>6, <2>1, <2>2, Written, Zenon
  <2>4. h' \in HandlerType /\ (h'.pc # "idle" => h'.ev \in PodObject)
    BY <1>6, <1>17, <2>1, HandlerMoves, Zenon DEF WriteFinalState
  <2>5. InPodType'
    BY <1>0, <1>17, <2>3, Zenon DEF WriteFinalState, InPodType
  <2>6. HistType'
    BY <1>0, <1>6, <1>17, <2>1, Zenon DEF WriteFinalState, HistType
  <2>7. Parts
    BY <1>4, <1>5, <1>17, <2>3, <2>4, <2>5, <2>6, Zenon DEF WriteFinalState, ssm
  <2> QED BY <1>2, <2>7, TypePartsNext
<1> QED
  BY <1>8, <1>9, <1>10, <1>11, <1>12, <1>13, <1>14, <1>15, <1>16, <1>17, Zenon DEF PodEventHandler

\* So does the extension API.
LEMMA ExtensionKeeps == ASSUME TypeOK, ExtensionAPI PROVE TypeOK' /\ Len(sess') = Len(sess)
<1>0. /\ PodType /\ InPodType /\ EventType /\ SsmType /\ RequestType /\ HistType
      /\ budget \in BudgetType
  BY TypeParts
<1>1. UNCHANGED <<podVars, inPod, queue, h, insts, acts, hist>>
  BY Zenon DEF ExtensionAPI, EnsureResourcesInitialized, GenerateVSCodeURL, CheckNumActiveSessions,
         StartSession, EndSession, ssm
<1>2. PodType' /\ InPodType' /\ EventType' /\ HistType'
  BY <1>0, <1>1, Zenon DEF podVars, inPod, hist, PodType, InPodType, EventType, HistType
<1>3. /\ sess \in Seq(Nat) /\ Len(sess) \in Nat /\ DOMAIN sess = 1..Len(sess)
      /\ insts \subseteq [pod: Pods, id: 1..Len(sess)] /\ acts \in [Pods -> Nat]
  BY <1>0 DEF SsmType
<1>4. ASSUME sess' \in Seq(Nat), Len(sess') = Len(sess), RequestType', budget' \in BudgetType
      PROVE  TypeOK'
  <2>1. SsmType'
    BY <1>1, <1>3, <1>4, Zenon DEF SsmType
  <2> QED BY <1>2, <1>4, <2>1, TypePartsNext, Zenon
<1>5. CASE EnsureResourcesInitialized
  <2>1. UNCHANGED <<sess, req>> /\ budget' \in BudgetType
    BY <1>0, <1>5, Costs, Zenon DEF EnsureResourcesInitialized, ssm
  <2>2. RequestType'
    BY <1>0, <1>5, <2>1, Zenon DEF RequestType, EnsureResourcesInitialized
  <2> QED BY <1>3, <1>4, <2>1, <2>2, Zenon
<1>6. ASSUME NEW c \in Handlers, GenerateVSCodeURL(c) PROVE TypeOK' /\ Len(sess') = Len(sess)
  <2>1. UNCHANGED <<sess, init>> /\ budget' \in BudgetType
    BY <1>0, <1>6, Costs, Zenon DEF GenerateVSCodeURL, ssm
  <2>2. PICK p \in Pods : /\ InstancesOf(p) # {}
                          /\ req' = [req EXCEPT ![c] = [pc |-> "check", inst |-> FindInstanceByPodUID(p)]]
    BY <1>6, Zenon DEF GenerateVSCodeURL
  <2>3. FindInstanceByPodUID(p) \in 1..Len(sess)
    <3> DEFINE S == {i.id : i \in InstancesOf(p)}
    <3>1. S \in SUBSET (1..Len(sess)) /\ S # {}
      BY <1>3, <2>2, Zenon DEF InstancesOf
    <3> HIDE DEF S
    <3>2. Max(S) \in 1..Len(sess)
      BY <1>3, <3>1, Greatest, Zenon
    <3> QED BY <3>2, Zenon DEF FindInstanceByPodUID, S
  <2>4. RequestType'
    BY <1>0, <1>3, <2>1, <2>2, <2>3 DEF RequestType
  <2> QED BY <1>3, <1>4, <2>1, <2>4, Zenon
<1>7. ASSUME NEW c \in Handlers, CheckNumActiveSessions(c) PROVE TypeOK' /\ Len(sess') = Len(sess)
  <2>1. UNCHANGED <<sess, init, budget>>
    BY <1>7 DEF CheckNumActiveSessions, ssm
  <2>2. req[c] \in [pc: {"idle", "check", "start"}, inst: 0..Len(sess)] /\ req[c].inst # 0
    BY <1>0, <1>7, Zenon DEF RequestType, CheckNumActiveSessions
  <2>3. PICK r \in [pc: {"idle", "check", "start"}, inst: 0..Len(sess)] :
          /\ req' = [req EXCEPT ![c] = r]
          /\ r.pc # "idle" => r.inst # 0
    <3>1. CASE req' = [req EXCEPT ![c].pc = "start"]
      <4> DEFINE r == [req[c] EXCEPT !.pc = "start"]
      <4>1. r \in [pc: {"idle", "check", "start"}, inst: 0..Len(sess)] /\ r.inst # 0
        BY <2>2
      <4>2. req' = [req EXCEPT ![c] = r]
        BY <3>1, Zenon
      <4> HIDE DEF r
      <4> QED BY <4>1, <4>2, Zenon
    <3>2. CASE Answer(c)
      <4>1. NoRequest \in [pc: {"idle", "check", "start"}, inst: 0..Len(sess)] /\ NoRequest.pc = "idle"
        BY <1>3 DEF NoRequest
      <4> QED BY <3>2, <4>1, Zenon DEF Answer
    <3> QED BY <1>7, <3>1, <3>2, Zenon DEF CheckNumActiveSessions
  <2>4. RequestType'
    BY <1>0, <2>1, <2>3, Zenon DEF RequestType
  <2> QED BY <1>0, <1>3, <1>4, <2>1, <2>4, Zenon
<1>8. ASSUME NEW c \in Handlers, StartSession(c) PROVE TypeOK' /\ Len(sess') = Len(sess)
  <2>1. UNCHANGED <<init, budget>> /\ Answer(c)
    BY <1>8 DEF StartSession
  <2>2. sess' \in Seq(Nat) /\ Len(sess') = Len(sess)
    <3>1. sess' = sess \/ sess' = [sess EXCEPT ![req[c].inst] = @ + 1]
      BY <1>8, Zenon DEF StartSession
    <3>2. sess \in [1..Len(sess) -> Nat]
      BY <1>3
    <3>3. sess' \in [1..Len(sess) -> Nat]
      BY <3>1, <3>2
    <3> QED BY <1>3, <3>3, FunctionSeq, Zenon
  <2>3. RequestType'
    BY <1>0, <1>3, <2>1, <2>2 DEF RequestType, Answer, NoRequest
  <2> QED BY <1>0, <1>4, <2>1, <2>2, <2>3, Zenon
<1>9. ASSUME NEW i \in DOMAIN sess, EndSession(i) PROVE TypeOK' /\ Len(sess') = Len(sess)
  <2>1. UNCHANGED <<init, req, budget>>
    BY <1>9 DEF EndSession
  <2>2. sess' \in Seq(Nat) /\ Len(sess') = Len(sess)
    <3>1. sess \in [1..Len(sess) -> Nat] /\ i \in 1..Len(sess)
      BY <1>3
    <3>2. sess' \in [1..Len(sess) -> Nat]
      BY <1>9, <3>1 DEF EndSession
    <3> QED BY <1>3, <3>2, FunctionSeq, Zenon
  <2>3. RequestType'
    BY <1>0, <2>1, <2>2, Zenon DEF RequestType
  <2> QED BY <1>0, <1>4, <2>1, <2>2, <2>3, Zenon
<1> QED BY <1>3, <1>5, <1>6, <1>7, <1>8, <1>9, Zenon DEF ExtensionAPI, EnsureResourcesInitialized, ssm

\* And a crash.
LEMMA CrashKeeps == ASSUME TypeOK, Crash PROVE TypeOK'
<1> DEFINE there == {p \in Pods : life[p] \in {"up", "term"}}
<1>0. /\ PodType /\ InPodType /\ EventType /\ SsmType /\ RequestType /\ HistType
      /\ budget \in BudgetType
  BY TypeParts
<1>1. PodType' /\ InPodType' /\ SsmType' /\ HistType' /\ budget' \in BudgetType
  BY <1>0, Costs, Zenon DEF Crash, podVars, inPod, ssm, PodType, InPodType, SsmType, HistType
<1>2. RequestType'
  <2>1. Len(sess) \in Nat
    BY <1>0 DEF SsmType
  <2>2. sess' = sess
    BY Zenon DEF Crash, ssm
  <2> QED BY <2>1, <2>2 DEF Crash, RequestType, NoRequest
<1>3. EventType'
  <2>1. Cardinality(there) \in Nat
    BY RemoteAssumption, FS_Subset, FS_CardinalityType, Zenon
  <2>2. queue' \in [1..Cardinality(there) -> {seen[p] : p \in there}]
    BY DEF Crash
  <2>3. {seen[p] : p \in there} \subseteq PodObject
    BY <1>0, Zenon DEF PodType
  <2> HIDE DEF there
  <2>4. queue' \in [1..Cardinality(there) -> PodObject]
    BY <2>2, <2>3, Zenon
  <2>5. queue' \in Seq(PodObject)
    BY <2>1, <2>4, FunctionSeq, Zenon
  <2>6. h' = Idle /\ Idle \in HandlerType /\ Idle.pc = "idle"
    BY Zenon DEF Crash, Idle, HandlerType
  <2> QED BY <2>5, <2>6, Zenon DEF EventType
<1> QED BY <1>1, <1>2, <1>3, TypePartsNext, Zenon
-----------------------------------------------------------------------------
\* A step keeps the variables well-formed.
LEMMA TypeStep == TypeOK /\ [Next]_vars => TypeOK'
<1> SUFFICES ASSUME TypeOK, [Next]_vars PROVE TypeOK'
  OBVIOUS
<1>1. CASE UNCHANGED vars
  <2>1. /\ PodType /\ InPodType /\ EventType /\ SsmType /\ RequestType /\ HistType
        /\ budget \in BudgetType
    BY TypeParts, Zenon
  <2>2. PodType' /\ InPodType' /\ EventType'
    BY <1>1, <2>1, Zenon DEF vars, podVars, inPod, PodType, InPodType, EventType
  <2>3. SsmType' /\ RequestType' /\ HistType' /\ budget' \in BudgetType
    BY <1>1, <2>1, Zenon DEF vars, ssm, hist, SsmType, RequestType, HistType
  <2> QED BY <2>2, <2>3, TypePartsNext, Zenon
<1> QED BY <1>1, HandlerKeeps, KubernetesType, ExtensionKeeps, CrashKeeps, Zenon DEF Next

\* A running agent stays the one registered last: a registration takes the largest
\* identity yet, everything else only removes instances or stops agents.
LEMMA LatestStep == TypeOK /\ Latest /\ [Next]_vars => Latest'
<1> SUFFICES ASSUME TypeOK, Latest, [Next]_vars PROVE Latest'
  BY Zenon
<1>0. /\ sess \in Seq(Nat) /\ Len(sess) \in Nat /\ insts \subseteq [pod: Pods, id: 1..Len(sess)]
      /\ agent \in [Pods -> Nat]
  BY DEF TypeOK
<1>1. ASSUME Len(sess') = Len(sess), insts' \subseteq insts,
             \A p \in Pods : agent'[p] \in {0, agent[p]}
      PROVE  Latest'
  <2> SUFFICES ASSUME NEW p \in Pods
               PROVE  /\ agent'[p] <= Len(sess')
                      /\ agent'[p] # 0 => \A x \in insts' : x.pod = p => x.id <= agent'[p]
    BY Zenon DEF Latest
  <2>1. agent'[p] = 0 \/ agent'[p] = agent[p]
    BY <1>1
  <2> QED BY <1>0, <1>1, <2>1 DEF Latest
<1>2. UNCHANGED <<insts, sess, agent>> => Latest'
  BY <1>1, Zenon
<1>3. CASE CleanupInstances
  BY <1>1, <1>3, Cleaned, Zenon DEF CleanupInstances, inPod
<1>4. CASE RegisterAgent
  <2>1. CASE UNCHANGED <<insts, sess, agent>>
    BY <1>2, <2>1, Zenon
  <2>2. CASE ~UNCHANGED <<insts, sess, agent>>
    <3>1. /\ insts' = insts \cup {[pod |-> h.ev.pod, id |-> Len(sess) + 1]} /\ h.ev.pod \in Pods
          /\ Len(sess') = Len(sess) + 1
          /\ agent' = [agent EXCEPT ![h.ev.pod] = Len(sess) + 1]
      BY <1>4, <2>2, Registered, Zenon
    <3> SUFFICES ASSUME NEW p \in Pods
                 PROVE  /\ agent'[p] <= Len(sess')
                        /\ agent'[p] # 0 => \A x \in insts' : x.pod = p => x.id <= agent'[p]
      BY DEF Latest
    <3>2. CASE p = h.ev.pod
      BY <1>0, <3>1, <3>2
    <3>3. CASE p # h.ev.pod
      <4>1. agent'[p] = agent[p] /\ agent[p] \in Nat /\ agent[p] <= Len(sess)
        BY <1>0, <3>1, <3>3, Zenon DEF Latest
      <4>2. \A x \in insts' : x.pod = p => x \in insts
        BY <3>1, <3>3
      <4> QED BY <1>0, <3>1, <4>1, <4>2 DEF Latest
    <3> QED BY <3>2, <3>3, Zenon
  <2> QED BY <2>1, <2>2, Zenon
<1>5. CASE Kubernetes
  <2>1. UNCHANGED ssm
    BY <1>5, Zenon DEF Kubernetes, Release, PodRunning, SidecarDown, MainDown, Containers, SidecarUp,
                MainUp, Report, Damage, Terminate, PodGone
  <2> QED BY <1>1, <1>5, <2>1, KubernetesType, Zenon DEF ssm
<1>6. CASE ExtensionAPI
  <2>1. UNCHANGED <<insts, agent>>
    BY <1>6, Zenon DEF ExtensionAPI, EnsureResourcesInitialized, GenerateVSCodeURL,
                CheckNumActiveSessions, StartSession, EndSession, ssm, inPod
  <2> QED BY <1>1, <1>6, <2>1, ExtensionKeeps, Zenon
<1>7. CASE Crash \/ UNCHANGED vars
  BY <1>2, <1>7, Zenon DEF Crash, vars, inPod, ssm
<1> QED BY <1>2, <1>3, <1>4, <1>5, <1>6, <1>7, Elsewhere, Zenon DEF Next

\* Requests between check and start are never more than there are handlers.
LEMMA CheckedFew ==
  ASSUME NEW i
  PROVE  /\ IsFiniteSet(Checked(i)) /\ Cardinality(Checked(i)) \in Nat
         /\ Cardinality(Checked(i)) <= Cardinality(Handlers) /\ Cardinality(Handlers) \in Nat
<1>1. Checked(i) \subseteq Handlers
  BY DEF Checked
<1> QED BY <1>1, RemoteAssumption, FS_Subset, FS_CardinalityType, Zenon

\* Nor are they after a step.
LEMMA CheckedFewNext ==
  ASSUME NEW i
  PROVE  /\ IsFiniteSet(Checked(i)') /\ Cardinality(Checked(i)') \in Nat
         /\ Cardinality(Checked(i)') <= Cardinality(Handlers) /\ Cardinality(Handlers) \in Nat
<1>1. Checked(i)' \subseteq Handlers
  BY Zenon DEF Checked
<1> QED BY <1>1, RemoteAssumption, FS_Subset, FS_CardinalityType, Zenon

\* The limit on an instance's sessions and checked requests, for one instance.
Within(i) == sess[i] + Cardinality(Checked(i)) < MaxSessions + Cardinality(Handlers)

\* Sessions and checked requests stay within their limit: a check adds a request when
\* there is room, a start trades a request for a session.
LEMMA SessionStep == TypeOK /\ SessionBound /\ [Next]_vars => SessionBound'
<1> SUFFICES ASSUME TypeOK, SessionBound, [Next]_vars PROVE SessionBound'
  OBVIOUS
<1>0. /\ sess \in Seq(Nat) /\ Len(sess) \in Nat /\ DOMAIN sess = 1..Len(sess)
      /\ \A i \in 1..Len(sess) : sess[i] \in Nat
      /\ MaxSessions \in Nat \ {0}
  BY RemoteAssumption DEF TypeOK
<1>1. sess' \in Seq(Nat) /\ DOMAIN sess' = 1..Len(sess') /\ Len(sess') \in Nat
      /\ \A i \in 1..Len(sess') : sess'[i] \in Nat
  <2>1. sess' \in Seq(Nat)
    BY TypeStep, Zenon DEF TypeOK
  <2> QED BY <2>1
<1>2. ASSUME NEW i \in 1..Len(sess), i \in 1..Len(sess'), sess'[i] <= sess[i],
             Checked(i)' \subseteq Checked(i)
      PROVE  Within(i)'
  <2>1. Cardinality(Checked(i)') <= Cardinality(Checked(i))
    BY <1>2, CheckedFew, FS_Subset, Zenon
  <2>2. sess[i] + Cardinality(Checked(i)) < MaxSessions + Cardinality(Handlers)
    BY <1>0, Zenon DEF SessionBound
  <2>3. /\ sess[i] \in Nat /\ sess'[i] \in Nat /\ Cardinality(Handlers) \in Nat
        /\ Cardinality(Checked(i)) \in Nat /\ Cardinality(Checked(i)') \in Nat
    BY <1>0, <1>1, <1>2, CheckedFew, CheckedFewNext, Zenon
  <2>4. sess'[i] + Cardinality(Checked(i)') < MaxSessions + Cardinality(Handlers)
    BY <1>0, <1>2, <2>1, <2>2, <2>3
  <2> QED BY <2>4, Zenon DEF Within
<1>3. ASSUME Len(sess') = Len(sess), \A i \in 1..Len(sess) : sess'[i] <= sess[i],
             \A i : Checked(i)' \subseteq Checked(i)
      PROVE  SessionBound'
  <2>1. \A i \in 1..Len(sess') : Within(i)'
    BY <1>2, <1>3, Zenon
  <2> QED BY <1>1, <2>1, Zenon DEF SessionBound, Within
<1>4. UNCHANGED <<sess, req>> => SessionBound'
  BY Zenon DEF SessionBound, Checked
<1>5. CASE CleanupInstances
  <2>1. Len(sess') = Len(sess) /\ \A i \in 1..Len(sess) : sess'[i] \in {0, sess[i]}
    BY <1>5, Cleaned, Zenon
  <2>2. \A i : Checked(i)' \subseteq Checked(i)
    BY <1>5, Zenon DEF CleanupInstances, Checked
  <2>3. \A i \in 1..Len(sess) : sess'[i] <= sess[i]
    <3> SUFFICES ASSUME NEW i \in 1..Len(sess) PROVE sess'[i] <= sess[i]
      OBVIOUS
    <3>1. sess[i] \in Nat /\ (sess'[i] = 0 \/ sess'[i] = sess[i])
      BY <1>0, <2>1, Zenon
    <3> QED BY <3>1
  <2> QED BY <1>3, <2>1, <2>2, <2>3, Zenon
<1>6. CASE RegisterAgent
  <2>1. UNCHANGED req
    BY <1>6, Zenon DEF RegisterAgent
  <2>2. CASE UNCHANGED <<insts, sess, agent>>
    BY <1>4, <2>1, <2>2, Zenon
  <2>3. CASE ~UNCHANGED <<insts, sess, agent>>
    <3>1. /\ Len(sess') = Len(sess) + 1 /\ \A i \in 1..Len(sess) : sess'[i] = sess[i]
          /\ sess'[Len(sess) + 1] = 0
      BY <1>6, <2>3, Registered, Zenon
    <3>2. ASSUME NEW i \in 1..Len(sess') PROVE Within(i)'
      <4>1. CASE i \in 1..Len(sess)
        <5>1. Checked(i)' \subseteq Checked(i)
          BY <2>1, Zenon DEF Checked
        <5>2. sess'[i] <= sess[i]
          BY <1>0, <3>1, <4>1
        <5> QED BY <1>2, <4>1, <5>1, <5>2, Zenon
      <4>2. CASE i = Len(sess) + 1
        <5>1. sess'[i] + Cardinality(Checked(i)') < MaxSessions + Cardinality(Handlers)
          BY <1>0, <3>1, <4>2, CheckedFewNext
        <5> QED BY <5>1, Zenon DEF Within
      <4> QED BY <1>0, <3>1, <4>1, <4>2
    <3> QED BY <1>1, <3>2, Zenon DEF SessionBound, Within
  <2> QED BY <2>2, <2>3
<1>7. CASE PodEventHandler /\ UNCHANGED <<insts, sess, agent>>
  <2>1. UNCHANGED req
    BY <1>7, Zenon DEF PodEventHandler, HandleWorkspacePodEvents, ReadRegistrationState, MarkInProgress,
                CleanupInstances, CleanupActivations, CreateSSMActivation, RegisterAgent,
                CreateMarkerFile, StartRemoteAccessServer, WriteFinalState
  <2> QED BY <1>4, <1>7, <2>1, Zenon
<1>8. CASE Kubernetes \/ EnsureResourcesInitialized \/ UNCHANGED vars
  <2>1. UNCHANGED <<sess, req>>
    BY <1>8, Zenon DEF Kubernetes, Release, PodRunning, SidecarDown, MainDown, Containers, SidecarUp,
                MainUp, Report, Damage, Terminate, PodGone, EnsureResourcesInitialized, vars, ssm
  <2> QED BY <1>4, <2>1, Zenon
<1>9. ASSUME NEW c \in Handlers, GenerateVSCodeURL(c) PROVE SessionBound'
  <2>1. PICK n : req' = [req EXCEPT ![c] = [pc |-> "check", inst |-> n]]
    BY <1>9, Zenon DEF GenerateVSCodeURL
  <2>2. \A i : Checked(i)' \subseteq Checked(i)
    BY <2>1, Zenon DEF Checked, TypeOK
  <2>3. sess' = sess
    BY <1>9 DEF GenerateVSCodeURL, ssm
  <2> QED BY <1>0, <1>3, <2>2, <2>3
<1>10. ASSUME NEW c \in Handlers, CheckNumActiveSessions(c) PROVE SessionBound'
  <2>1. sess' = sess
    BY <1>10, Zenon DEF CheckNumActiveSessions, ssm
  <2>2. CASE Answer(c)
    <3>1. \A i : Checked(i)' \subseteq Checked(i)
      BY <2>2, Zenon DEF Answer, NoRequest, Checked, TypeOK
    <3> QED BY <1>0, <1>3, <2>1, <3>1
  <2>3. CASE Room(req[c].inst) /\ req' = [req EXCEPT ![c].pc = "start"]
    <3>1. ASSUME NEW i \in 1..Len(sess'), i = req[c].inst PROVE Within(i)'
      <4>1. sess'[i] < MaxSessions
        BY <2>1, <2>3, <3>1, Zenon DEF Room
      <4>2. sess'[i] + Cardinality(Checked(i)') < MaxSessions + Cardinality(Handlers)
        BY <1>0, <1>1, <3>1, <4>1, CheckedFewNext
      <4> QED BY <4>2 DEF Within
    <3>2. ASSUME NEW i \in 1..Len(sess'), i # req[c].inst PROVE Within(i)'
      <4>1. Checked(i)' \subseteq Checked(i)
        BY <2>3, <3>2 DEF Checked, TypeOK
      <4> QED BY <1>0, <1>2, <2>1, <3>2, <4>1
    <3> QED BY <1>1, <3>1, <3>2, Zenon DEF SessionBound, Within
  <2> QED BY <1>10, <2>2, <2>3, Zenon DEF CheckNumActiveSessions
<1>11. ASSUME NEW c \in Handlers, StartSession(c) PROVE SessionBound'
  <2>0. PICK i \in 1..Len(sess) : i = req[c].inst
    BY <1>0, <1>11 DEF TypeOK, StartSession
  <2>1. /\ req[c].pc = "start" /\ Answer(c)
        /\ sess' = sess \/ sess' = [sess EXCEPT ![i] = @ + 1]
    BY <1>11, <2>0, Zenon DEF StartSession
  <2>2. c \in Checked(i)
    BY <2>0, <2>1, Zenon DEF Checked
  <2>3. \A j : Checked(j)' \subseteq Checked(j)
    BY <2>1, Zenon DEF Answer, NoRequest, Checked, TypeOK
  <2>4. Len(sess') = Len(sess)
    BY <1>11, ExtensionKeeps, Zenon DEF ExtensionAPI
  <2>5. CASE sess' = sess
    BY <1>0, <1>3, <2>3, <2>5
  <2>6. CASE sess' = [sess EXCEPT ![i] = @ + 1]
    <3>1. c \notin Checked(i)'
      BY <2>1, Zenon DEF Answer, NoRequest, Checked, TypeOK
    <3>2. Cardinality(Checked(i)') + 1 <= Cardinality(Checked(i))
      <4>1. Checked(i)' \subseteq Checked(i) \ {c}
        BY <2>3, <3>1, Zenon
      <4>2. /\ IsFiniteSet(Checked(i) \ {c})
            /\ Cardinality(Checked(i) \ {c}) = Cardinality(Checked(i)) - 1
        BY <2>2, CheckedFew, FS_RemoveElement, Zenon
      <4>3. Cardinality(Checked(i)') <= Cardinality(Checked(i) \ {c})
        BY <4>1, <4>2, FS_Subset, Zenon
      <4> QED BY <4>2, <4>3, CheckedFew, CheckedFewNext
    <3>3. Within(i)'
      <4>1. sess'[i] = sess[i] + 1 /\ sess[i] \in Nat
        BY <1>0, <2>2, <2>6, Zenon
      <4>2. sess[i] + Cardinality(Checked(i)) < MaxSessions + Cardinality(Handlers)
        BY Zenon, <1>0, <2>2 DEF SessionBound
      <4>3. sess'[i] + Cardinality(Checked(i)') < MaxSessions + Cardinality(Handlers)
        <5>1. /\ Cardinality(Handlers) \in Nat
              /\ Cardinality(Checked(i)) \in Nat /\ Cardinality(Checked(i)') \in Nat
          BY CheckedFew, CheckedFewNext, Zenon
        <5> QED BY <1>0, <3>2, <4>1, <4>2, <5>1
      <4> QED BY <4>3, Zenon DEF Within
    <3>4. ASSUME NEW j \in 1..Len(sess'), j # i PROVE Within(j)'
      <4>1. sess'[j] <= sess[j]
        BY <1>0, <2>4, <2>6, <3>4
      <4> QED BY <1>2, <2>3, <2>4, <3>4, <4>1, Zenon
    <3> QED BY <1>1, <3>3, <3>4, Zenon DEF SessionBound, Within
  <2> QED BY <2>1, <2>5, <2>6, Zenon
<1>12. ASSUME NEW i \in DOMAIN sess, EndSession(i) PROVE SessionBound'
  <2>1. Len(sess') = Len(sess)
    BY <1>12, ExtensionKeeps, Zenon DEF ExtensionAPI
  <2>2. \A j \in 1..Len(sess) : sess'[j] <= sess[j]
    BY <1>0, <1>12 DEF EndSession
  <2>3. \A j : Checked(j)' \subseteq Checked(j)
    BY <1>12, Zenon DEF EndSession, Checked
  <2> QED BY <1>3, <2>1, <2>2, <2>3, Zenon
<1>13. CASE Crash
  <2>1. sess' = sess
    BY <1>13 DEF Crash, ssm
  <2>2. \A j : Checked(j)' \subseteq Checked(j)
    BY Zenon, <1>13 DEF Crash, Checked, NoRequest
  <2> QED BY <1>0, <1>3, <2>1, <2>2
<1>14. CASE ExtensionAPI
  BY <1>8, <1>9, <1>10, <1>11, <1>12, <1>14, Zenon DEF ExtensionAPI
<1> QED BY <1>5, <1>6, <1>7, <1>8, <1>13, <1>14, Elsewhere, Zenon DEF Next
-----------------------------------------------------------------------------
\* The instance found for a pod is the live agent's, if that is registered.
LEMMA LatestFound == TypeOK /\ Latest => FoundIsLive
<1> SUFFICES ASSUME TypeOK, Latest, NEW p \in Pods, [pod |-> p, id |-> agent[p]] \in insts
             PROVE  FindInstanceByPodUID(p) = agent[p]
  BY Zenon DEF FoundIsLive
<1> DEFINE S == {i.id : i \in InstancesOf(p)}
<1>1. /\ Len(sess) \in Nat /\ insts \subseteq [pod: Pods, id: 1..Len(sess)]
      /\ agent[p] \in Nat
  BY DEF TypeOK
<1>2. S \in SUBSET (1..Len(sess)) /\ agent[p] \in S /\ agent[p] # 0
  BY <1>1 DEF InstancesOf
<1>3. \A y \in S : y <= agent[p]
  <2> SUFFICES ASSUME NEW i \in InstancesOf(p) PROVE i.id <= agent[p]
    BY Zenon
  <2>1. i \in insts /\ i.pod = p
    BY DEF InstancesOf
  <2> QED BY <1>2, <2>1, Zenon DEF Latest
<1> HIDE DEF S
<1>4. Max(S) \in S /\ \A y \in S : Max(S) >= y
  BY <1>1, <1>2, Greatest, Zenon
<1>5. Max(S) = agent[p]
  <2>1. Max(S) <= agent[p] /\ Max(S) >= agent[p] /\ Max(S) \in 1..Len(sess)
    BY <1>2, <1>3, <1>4, ZenonT(30)
  <2>2. \A x \in 1..Len(sess), y \in Nat : x <= y /\ x >= y => x = y
    BY <1>1
  <2> QED BY <1>1, <2>1, <2>2, Zenon
<1> QED BY <1>5, Zenon DEF FindInstanceByPodUID, S

\* TypeOK holds in every reachable state, so a request never reaches check or start
\* without an instance of SSM's that was registered.
THEOREM Types == Spec => []TypeOK
<1>1. Init => TypeOK
  BY InitType
<1> QED BY <1>1, TypeStep, PTL DEF Spec

\* checkNumActiveSessions and StartSession: the sessions of an instance never exceed
\* the limit by more than the requests that are served at a time.
THEOREM SessionsBounded == Spec => []SessionBound
<1>1. Init => TypeOK /\ SessionBound
  BY InitType
<1> QED BY <1>1, TypeStep, SessionStep, PTL DEF Spec

\* FindInstanceByPodUID: the most recent registration is the live agent's, after any
\* number of restarts, failed clean-ups and repeated set-ups.
THEOREM FoundLive == Spec => []FoundIsLive
<1>1. Init => TypeOK /\ Latest
  BY InitType
<1> QED BY <1>1, TypeStep, LatestStep, LatestFound, PTL DEF Spec
-----------------------------------------------------------------------------
\* After a crash the informer lists every pod there is, once.
LEMMA Relisted ==
  ASSUME TypeOK, Events, Crash
  PROVE  Listed
<1> DEFINE there == {p \in Pods : life[p] \in {"up", "term"}}
           objects == {seen[p] : p \in there}
           ids == 1..Cardinality(there)
<1>1. \A p \in Pods : seen[p].pod = p
  BY Zenon DEF Events, Reported
<1>2. queue' \in [ids -> objects] /\ \A i, j \in ids : queue'[i] = queue'[j] => i = j
  <2>1. queue' \in {f \in [ids -> objects] : \A i, j \in DOMAIN f : f[i] = f[j] => i = j}
    BY Zenon DEF Crash
  <2> HIDE DEF ids, objects
  <2> QED
    BY <2>1
<1>3. IsFiniteSet(there) /\ Cardinality(there) \in Nat
  BY RemoteAssumption, FS_Subset, FS_CardinalityType, Zenon
<1>4. IsFiniteSet(ids) /\ Cardinality(ids) = Cardinality(there)
  BY <1>3, FS_Interval
<1> HIDE DEF ids
<1>5. IsFiniteSet(objects) /\ Cardinality(objects) = Cardinality(there)
  <2> DEFINE g == [p \in there |-> seen[p]]
  <2>1. g \in Bijection(there, objects)
    <3>1. g \in [there -> objects]
      BY Zenon
    <3>2. \A p, q \in there : g[p] = g[q] => p = q
      BY <1>1, Zenon
    <3>3. \A x \in objects : \E p \in there : g[p] = x
      OBVIOUS
    <3> HIDE DEF g, there, objects
    <3> QED
      BY <3>1, <3>2, <3>3, Zenon DEF Bijection, Injection, Surjection, IsInjective
  <2> HIDE DEF g
  <2> QED
    BY <1>3, <2>1, FS_Bijection, Zenon DEF ExistsBijection
<1>6. \A x \in objects : \E i \in ids : queue'[i] = x
  <2> HIDE DEF objects
  <2>1. queue' \in Injection(ids, objects)
    BY <1>2, Zenon DEF Injection, IsInjective
  <2>2. queue' \in Surjection(ids, objects)
    BY <1>4, <1>5, <2>1, FS_Injection, Zenon
  <2> QED
    BY <2>2, Zenon DEF Surjection
<1>7. DOMAIN queue' = ids
  BY <1>2, Zenon
<1>8. ASSUME NEW q \in Pods, NEW i \in Mine(q)'
      PROVE  q \in there /\ queue'[i] = seen[q] /\ i \in ids
  <2>1. i \in ids /\ queue'[i].pod = q
    BY <1>7, <1>8, Zenon DEF Mine
  <2>2. PICK p \in there : queue'[i] = seen[p]
    BY <1>2, <2>1
  <2> QED
    BY <1>1, <2>1, <2>2, Zenon
<1>9. ASSUME NEW q \in there PROVE Mine(q)' # {}
  <2>1. PICK i \in ids : queue'[i] = seen[q]
    BY <1>6, Zenon
  <2> QED
    BY <1>1, <1>7, <2>1, Zenon DEF Mine
<1>10. ASSUME NEW q \in Pods, NEW i \in Mine(q)', NEW j \in Mine(q)' PROVE j = i
  BY <1>2, <1>8
<1> QED
  BY <1>8, <1>9, <1>10, Zenon DEF Listed

\* The events, clean-ups and set-ups of the pods, after any step.
LEMMA PodsStep ==
  TypeOK /\ Events /\ [Next]_vars => Events' /\ (Tidied => Tidied') /\ (Serving => Serving')
<1> SUFFICES ASSUME TypeOK, Events, [Next]_vars
             PROVE  Events' /\ (Tidied => Tidied') /\ (Serving => Serving')
  OBVIOUS
<1>1. TypeOK' /\ (Crash => Listed)
  BY TypeStep, Relisted, Zenon
<1>2. Events'
  BY <1>1, EventsStep, Zenon
<1>3. ASSUME Tidied PROVE Tidied'
  BY <1>1, <1>2, <1>3, TidiedStep, Zenon
<1>4. ASSUME Serving PROVE Serving'
  BY <1>1, <1>2, <1>4, ServingStep, Zenon
<1> QED
  BY <1>2, <1>3, <1>4, Zenon

\* CleanupSSMManagedNodes: whatever restarts, damaged state files, crashes and orders of
\* events there were, one failing call at most leaves nothing in SSM of a pod that is
\* gone, unless its deletion event or the strategy was lost.
THEOREM PodsCleanedUp == Spec => [](budget.faults <= 1 => CleanedUp)
<1>1. Init => TypeOK /\ Events /\ Tidied
  BY InitType, InitEvents
<1> QED BY <1>1, TypeStep, PodsStep, TidiedCleans, PTL DEF Spec

\* SetupContainers: for any number of pods, restarts, failing calls and crashes, a pod
\* at rest whose set-ups were not disturbed has its live agent registered and its
\* server started.
THEOREM PodsSetUp == Spec => []SetUp
<1>1. Init => TypeOK /\ Events /\ Serving
  BY InitType, InitEvents
<1> QED BY <1>1, TypeStep, PodsStep, ServingSetsUp, PTL DEF Spec
=============================================================================
