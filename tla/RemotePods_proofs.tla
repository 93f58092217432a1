------------------------- MODULE RemotePods_proofs -------------------------
(* Lemmas about the pods of RemoteAccess: what becomes of their events, set-ups   *)
(* and clean-ups in a step.  RemoteAccess_proofs draws the conclusions.           *)
EXTENDS RemoteAccess, TLAPS

\* The provers are tried in turn, with more time than by default: contexts are large.
USE SMTT(30), ZenonT(20), Z3T(30)

FileType == [kind: {"none", "damaged", "state"}, s: Nat, m: Nat, busy: BOOLEAN]
HandlerType ==
  [pc: {"idle", "read", "mark", "instances", "activations", "activate", "register",
        "marker", "server", "final"},
   ev: PodObject \cup {NoObject}, s: BOOLEAN, m: BOOLEAN, clean: BOOLEAN, err: BOOLEAN]
BudgetType == [restarts: Nat, damages: Nat, faults: Nat, crashes: Nat, load: Nat]

(***************************************************************************)
(* The events of a pod.  They come in the order in which the pod object    *)
(* changed, and the last one pending is the pod object of now.             *)
(***************************************************************************)
\* Container states c and d of a pod, d not before c.
Since(c, d) == c.n <= d.n /\ (d.up /\ ~c.up => c.n < d.n)

Before(a, b) == Since(a.side, b.side) /\ Since(a.main, b.main) /\ (a.del => b.del)

Handled(p) == h.pc # "idle" /\ h.ev.pod = p

Mine(p) == {i \in DOMAIN queue : queue[i].pod = p}

Reported(p) ==
  /\ seen[p].pod = p /\ (seen[p].del <=> life[p] \in {"term", "gone"})
  /\ Since(seen[p].side, side[p]) /\ Since(seen[p].main, main[p])
  /\ life[p] = "none" => Mine(p) = {} /\ ~Handled(p) /\ file[p] = NoFile
  /\ life[p] = "up" => left = "both"

InLine(p) ==
  /\ \A i \in Mine(p) :
       /\ Before(queue[i], seen[p])
       /\ \A j \in Mine(p) : i < j => Before(queue[i], queue[j])
       /\ queue[i] = seen[p] \/ \E j \in Mine(p) : i < j
  /\ Handled(p) => /\ Before(h.ev, seen[p])
                   /\ \A i \in Mine(p) : Before(h.ev, queue[i])
                   /\ h.ev = seen[p] \/ Mine(p) # {}
                   /\ h.ev.del => h.pc \in {"instances", "activations"}

Events == \A p \in Pods : Reported(p) /\ InLine(p)

-----------------------------------------------------------------------------
\* The order of events is one.
LEMMA Orders ==
  /\ \A c \in Container : Since(c, c)
  /\ \A c, d, e \in Container : Since(c, d) /\ Since(d, e) => Since(c, e)
  /\ \A x \in PodObject : Before(x, x)
  /\ \A x, y, z \in PodObject : Before(x, y) /\ Before(y, z) => Before(x, z)
<1>1. \A c \in Container : Since(c, c)
  BY DEF Since, Container
<1>2. \A c, d, e \in Container : Since(c, d) /\ Since(d, e) => Since(c, e)
  BY DEF Since, Container
<1>3. \A x \in PodObject : x.side \in Container /\ x.main \in Container /\ x.del \in BOOLEAN
  BY DEF PodObject
<1>4. \A x \in PodObject : Before(x, x)
  BY <1>1, <1>3, Zenon DEF Before
<1>5. ASSUME NEW x \in PodObject, NEW y \in PodObject, NEW z \in PodObject, Before(x, y), Before(y, z)
      PROVE  Before(x, z)
  <2>1. Since(x.side, z.side)
    BY <1>2, <1>3, <1>5, Zenon DEF Before
  <2>2. Since(x.main, z.main)
    BY <1>2, <1>3, <1>5, Zenon DEF Before
  <2> QED
    BY <1>5, <2>1, <2>2, Zenon DEF Before
<1> QED
  BY <1>1, <1>2, <1>4, <1>5

\* What the types say of the events.
LEMMA EventTypes ==
  ASSUME TypeOK
  PROVE  /\ Len(queue) \in Nat /\ DOMAIN queue = 1..Len(queue)
         /\ \A i \in 1..Len(queue) : queue[i] \in PodObject
         /\ \A p \in Pods : /\ seen[p] \in PodObject /\ side[p] \in Container /\ main[p] \in Container
                            /\ Mine(p) \subseteq 1..Len(queue)
                            /\ Handled(p) => h.ev \in PodObject
         /\ h.pc # "idle" => h.ev \in PodObject /\ h.ev.pod \in Pods /\ Handled(h.ev.pod)
<1>1. queue \in Seq(PodObject)
  BY DEF TypeOK
<1>2. /\ Len(queue) \in Nat /\ DOMAIN queue = 1..Len(queue)
      /\ \A i \in 1..Len(queue) : queue[i] \in PodObject
  BY <1>1
<1>3. \A p \in Pods : seen[p] \in PodObject /\ side[p] \in Container /\ main[p] \in Container
  BY DEF TypeOK
<1>4. h.pc # "idle" => h.ev \in PodObject /\ h.ev.pod \in Pods
  BY DEF TypeOK, PodObject
<1> QED
  BY <1>2, <1>3, <1>4, Zenon DEF Mine, Handled

\* A change of pod p's object is handed to the map function.
LEMMA Pushed ==
  ASSUME TypeOK, NEW p \in Pods, NEW objs \in Seq(PodObject), queue' = queue \o objs,
         \A k \in 1..Len(objs) : objs[k].pod = p
  PROVE  /\ \A q \in Pods : /\ Mine(q) \subseteq Mine(q)'
                            /\ \A i \in Mine(q) : queue'[i] = queue[i]
                            /\ q # p => Mine(q)' = Mine(q)
         /\ \A i \in Mine(p)' : \/ i \in Mine(p)
                                \/ \E k \in 1..Len(objs) : i = Len(queue) + k /\ queue'[i] = objs[k]
         /\ \A k \in 1..Len(objs) : /\ Len(queue) + k \in Mine(p)'
                                    /\ queue'[Len(queue) + k] = objs[k]
                                    /\ \A i \in Mine(p) : i < Len(queue) + k
<1>1. queue \in Seq(PodObject) /\ Len(queue) \in Nat /\ Len(objs) \in Nat /\ DOMAIN queue = 1..Len(queue)
  BY DEF TypeOK
<1>2. /\ queue' \in Seq(PodObject) /\ Len(queue') = Len(queue) + Len(objs)
      /\ \A i \in 1..Len(queue) + Len(objs) :
           queue'[i] = IF i <= Len(queue) THEN queue[i] ELSE objs[i - Len(queue)]
  BY <1>1
<1>3. DOMAIN queue' = 1..(Len(queue) + Len(objs))
  BY <1>2
<1>4. \A i \in 1..Len(queue) : i \in 1..(Len(queue) + Len(objs)) /\ queue'[i] = queue[i]
  BY <1>1, <1>2
<1>5. \A k \in 1..Len(objs) : /\ Len(queue) + k \in 1..(Len(queue) + Len(objs))
                              /\ queue'[Len(queue) + k] = objs[k]
                              /\ \A i \in 1..Len(queue) : i < Len(queue) + k
  BY <1>1, <1>2
<1>6. \A i \in 1..(Len(queue) + Len(objs)) :
        i \in 1..Len(queue) \/ \E k \in 1..Len(objs) : i = Len(queue) + k
  <2> SUFFICES ASSUME NEW i \in 1..(Len(queue) + Len(objs)), i \notin 1..Len(queue)
               PROVE  \E k \in 1..Len(objs) : i = Len(queue) + k
    OBVIOUS
  <2>1. i - Len(queue) \in 1..Len(objs) /\ i = Len(queue) + (i - Len(queue))
    BY <1>1
  <2> QED
    BY <2>1, Zenon
<1>11. \A i \in DOMAIN queue' : \/ i \in DOMAIN queue /\ queue'[i] = queue[i]
                               \/ \E k \in 1..Len(objs) : i = Len(queue) + k /\ queue'[i] = objs[k]
  <2> SUFFICES ASSUME NEW i \in 1..(Len(queue) + Len(objs))
               PROVE  \/ i \in 1..Len(queue) /\ queue'[i] = queue[i]
                      \/ \E k \in 1..Len(objs) : i = Len(queue) + k /\ queue'[i] = objs[k]
    BY <1>1, <1>3, Zenon
  <2>1. CASE i \in 1..Len(queue)
    BY <1>4, <2>1, Zenon
  <2>2. ASSUME NEW k \in 1..Len(objs), i = Len(queue) + k PROVE queue'[i] = objs[k]
    BY <1>5, <2>2, Zenon
  <2> QED
    BY <1>6, <2>1, <2>2, Zenon
<1>7. ASSUME NEW q \in Pods
      PROVE  Mine(q) \subseteq Mine(q)' /\ \A i \in Mine(q) : queue'[i] = queue[i]
  BY <1>1, <1>3, <1>4, Zenon DEF Mine
<1>8. ASSUME NEW q \in Pods, q # p PROVE Mine(q)' = Mine(q)
  <2>1. \A i \in Mine(q)' : i \in Mine(q)
    BY <1>8, <1>11, Zenon DEF Mine
  <2> QED
    BY <1>7, <2>1, Zenon
<1>9. \A i \in Mine(p)' : \/ i \in Mine(p)
                          \/ \E k \in 1..Len(objs) : i = Len(queue) + k /\ queue'[i] = objs[k]
  BY <1>11, Zenon DEF Mine
<1>10. \A k \in 1..Len(objs) : /\ Len(queue) + k \in Mine(p)'
                               /\ queue'[Len(queue) + k] = objs[k]
                               /\ \A i \in Mine(p) : i < Len(queue) + k
  BY <1>1, <1>3, <1>5, Zenon DEF Mine
<1> QED
  BY <1>7, <1>8, <1>9, <1>10, Zenon

\* An object is taken from the queue.
LEMMA Popped ==
  ASSUME TypeOK, queue # <<>>, queue' = Tail(queue)
  PROVE  /\ Head(queue) \in PodObject /\ Head(queue) = queue[1] /\ 1 \in Mine(Head(queue).pod)
         /\ \A q \in Pods : /\ \A i \in Mine(q)' : /\ i + 1 \in Mine(q) /\ queue'[i] = queue[i + 1]
                                                  /\ i \in Nat /\ 1 < i + 1
                            /\ \A i \in Mine(q) : i # 1 => /\ i - 1 \in Mine(q)' /\ i - 1 \in Nat
                                                           /\ queue'[i - 1] = queue[i]
                            /\ \A i \in Mine(q) : i = 1 => q = Head(queue).pod
<1>1. queue \in Seq(PodObject) /\ Len(queue) \in Nat /\ DOMAIN queue = 1..Len(queue) /\ Len(queue) # 0
  BY DEF TypeOK
<1>2. /\ Head(queue) \in PodObject /\ queue' \in Seq(PodObject) /\ Len(queue') = Len(queue) - 1
      /\ \A i \in 1..Len(queue') : queue'[i] = queue[i + 1]
      /\ Head(queue) = queue[1]
  BY <1>1
<1>3. DOMAIN queue' = 1..(Len(queue) - 1)
  BY <1>2
<1>4. \A i \in 1..(Len(queue) - 1) :
        i + 1 \in 1..Len(queue) /\ queue'[i] = queue[i + 1] /\ i \in Nat /\ 1 < i + 1
  BY <1>1, <1>2
<1>5. \A i \in 1..Len(queue) : i # 1 => /\ i - 1 \in 1..(Len(queue) - 1) /\ i - 1 \in Nat
                                        /\ queue'[i - 1] = queue[i]
  BY <1>1, <1>2
<1>6. 1 \in Mine(Head(queue).pod)
  BY <1>1, <1>2 DEF Mine
<1> QED
  BY <1>1, <1>2, <1>3, <1>4, <1>5, <1>6, Zenon DEF Mine

(***************************************************************************)
(* The map function, step by step.                                         *)
(***************************************************************************)
Onward(pc) ==
  h'.pc = pc /\ h'.ev = h.ev /\ h'.s = h.s /\ h'.m = h.m /\ UNCHANGED spoiled
Fails == h'.pc = "final" /\ h'.ev = h.ev /\ spoiled' = spoiled \cup {h.ev.pod}

LEMMA HandlerSteps ==
  ASSUME TypeOK
  PROVE  /\ Idle.pc = "idle"
         /\ ReadRegistrationState =>
              /\ h.pc = "read" /\ UNCHANGED spoiled
              /\ h' = Idle \/ (h'.pc = "mark" /\ h'.ev = h.ev)
         /\ MarkInProgress =>
              /\ h.pc = "mark"
              /\ Onward(IF ~h.s THEN "server" ELSE IF h.clean THEN "instances" ELSE "activate")
         /\ CleanupInstances => h.pc = "instances" /\ Onward("activations")
         /\ CleanupActivations =>
              h.pc = "activations" /\ IF h.ev.del THEN h' = Idle /\ UNCHANGED spoiled ELSE Onward("activate")
         /\ CreateSSMActivation => h.pc = "activate" /\ (Onward("register") \/ Fails)
         /\ RegisterAgent => h.pc = "register" /\ (Onward("marker") \/ Fails)
         /\ CreateMarkerFile => h.pc = "marker" /\ (Onward(IF h.m THEN "server" ELSE "final") \/ Fails)
         /\ StartRemoteAccessServer => h.pc = "server" /\ (Onward("final") \/ Fails)
         /\ WriteFinalState => h.pc = "final" /\ h' = Idle /\ spoiled' \in {spoiled, spoiled \cup {h.ev.pod}}
<1>0. h \in HandlerType
  BY DEF TypeOK, HandlerType
<1>1. \A pc : LET g == [h EXCEPT !.pc = pc] IN g.pc = pc /\ g.ev = h.ev /\ g.s = h.s /\ g.m = h.m
  BY <1>0 DEF HandlerType
<1>2. LET g == [h EXCEPT !.pc = "final", !.err = TRUE] IN g.pc = "final" /\ g.ev = h.ev
  BY <1>0 DEF HandlerType
<1>3. ASSUME NEW pc, UNCHANGED spoiled, h' = [h EXCEPT !.pc = pc] PROVE Onward(pc)
  BY <1>1, <1>3, Zenon DEF Onward
<1>4. ASSUME NEW ok, NEW pc, Proceed(ok, pc) PROVE Onward(pc) \/ Fails
  BY <1>2, <1>3, <1>4, Zenon DEF Proceed, Fails
<1>5. Idle.pc = "idle"
  BY DEF Idle
<1>6. ASSUME ReadRegistrationState
      PROVE  h.pc = "read" /\ UNCHANGED spoiled /\ (h' = Idle \/ (h'.pc = "mark" /\ h'.ev = h.ev))
  <2>1. PICK f : h' = Decide(f)
    BY <1>6, Zenon DEF ReadRegistrationState
  <2> DEFINE First(s, m) == [h EXCEPT !.pc = "mark", !.s = s, !.m = m]
             Again(s, m, c) == [h EXCEPT !.pc = "mark", !.s = s, !.m = m, !.clean = c]
  <2>2. Decide(f) = Idle \/ \E s, m, c : Decide(f) = First(s, m) \/ Decide(f) = Again(s, m, c)
    BY Zenon DEF Decide
  <2>3. \A s, m, c : /\ First(s, m).pc = "mark" /\ First(s, m).ev = h.ev
                     /\ Again(s, m, c).pc = "mark" /\ Again(s, m, c).ev = h.ev
    BY <1>0 DEF HandlerType
  <2> HIDE DEF First, Again
  <2>4. h' = Idle \/ (h'.pc = "mark" /\ h'.ev = h.ev)
    BY <2>1, <2>2, <2>3
  <2> QED
    BY <1>6, <2>4, Zenon DEF ReadRegistrationState, hist
<1>7. MarkInProgress =>
        /\ h.pc = "mark"
        /\ Onward(IF ~h.s THEN "server" ELSE IF h.clean THEN "instances" ELSE "activate")
  BY <1>3, Zenon DEF MarkInProgress, hist
<1>8. CleanupInstances => h.pc = "instances" /\ Onward("activations")
  BY <1>3, Zenon DEF CleanupInstances, hist
<1>9. CleanupActivations =>
        h.pc = "activations" /\ IF h.ev.del THEN h' = Idle /\ UNCHANGED spoiled ELSE Onward("activate")
  BY <1>3, Zenon DEF CleanupActivations, hist
<1>10. CreateSSMActivation => h.pc = "activate" /\ (Onward("register") \/ Fails)
  BY <1>4, Zenon DEF CreateSSMActivation
<1>11. RegisterAgent => h.pc = "register" /\ (Onward("marker") \/ Fails)
  BY <1>4, Zenon DEF RegisterAgent
<1>12. CreateMarkerFile => h.pc = "marker" /\ (Onward(IF h.m THEN "server" ELSE "final") \/ Fails)
  BY <1>4, Zenon DEF CreateMarkerFile
<1>13. StartRemoteAccessServer => h.pc = "server" /\ (Onward("final") \/ Fails)
  BY <1>4, Zenon DEF StartRemoteAccessServer
<1>14. WriteFinalState => h.pc = "final" /\ h' = Idle /\ spoiled' \in {spoiled, spoiled \cup {h.ev.pod}}
  BY Zenon DEF WriteFinalState
<1> QED
  BY <1>5, <1>6, <1>7, <1>8, <1>9, <1>10, <1>11, <1>12, <1>13, <1>14, Zenon

\* A step of the map function is about the pod of its object.
LEMMA HandlerFrame ==
  ASSUME TypeOK, PodEventHandler, ~HandleWorkspacePodEvents
  PROVE  /\ UNCHANGED <<podVars, queue, missed>> /\ h.pc # "idle"
         /\ h' = Idle \/ (h'.pc # "idle" /\ h'.ev = h.ev)
         /\ h.ev.del /\ h.pc \in {"instances", "activations"} => h' = Idle \/ h'.pc = "activations"
         /\ h.ev.del /\ h.pc = "instances" => CleanupInstances
         /\ h.ev.del /\ h.pc = "activations" => CleanupActivations
         /\ \A q \in Pods : life[q] = "none" \/ q # h.ev.pod => file'[q] = file[q]
         /\ \A q \in Pods \ {h.ev.pod} :
              /\ agent'[q] = agent[q] /\ server'[q] = server[q] /\ acts'[q] = acts[q]
              /\ InstancesOf(q)' = InstancesOf(q) /\ (q \in spoiled' <=> q \in spoiled)
<1> DEFINE p == h.ev.pod
<1>0. /\ file \in [Pods -> FileType] /\ agent \in [Pods -> Nat] /\ server \in [Pods -> Nat]
      /\ acts \in [Pods -> Nat]
  BY DEF TypeOK, FileType
<1>1. \/ ReadRegistrationState \/ MarkInProgress \/ CleanupInstances \/ CleanupActivations
      \/ CreateSSMActivation \/ RegisterAgent \/ CreateMarkerFile
      \/ StartRemoteAccessServer \/ WriteFinalState
  BY Zenon DEF PodEventHandler
<1>2. UNCHANGED <<podVars, queue, missed>>
  <2>1. \A ok, pc : Proceed(ok, pc) => UNCHANGED missed
    BY Zenon DEF Proceed
  <2> QED
    BY <1>1, <2>1, Zenon DEF ReadRegistrationState, MarkInProgress, CleanupInstances, CleanupActivations,
         CreateSSMActivation, RegisterAgent, CreateMarkerFile, StartRemoteAccessServer, WriteFinalState, hist
<1>3. /\ h.pc # "idle" /\ (h' = Idle \/ (h'.pc # "idle" /\ h'.ev = h.ev))
      /\ h.ev.del /\ h.pc \in {"instances", "activations"} => h' = Idle \/ h'.pc = "activations"
      /\ h.ev.del /\ h.pc = "instances" => CleanupInstances
      /\ h.ev.del /\ h.pc = "activations" => CleanupActivations
  BY <1>1, HandlerSteps DEF Onward, Fails
<1>4. ASSUME NEW q \in Pods, q # p PROVE q \in spoiled' <=> q \in spoiled
  BY <1>1, <1>4, HandlerSteps DEF Onward, Fails
<1>5. /\ UNCHANGED file \/ \E f : file' = [file EXCEPT ![p] = f] /\ life[p] # "none"
      /\ UNCHANGED agent \/ \E a : agent' = [agent EXCEPT ![p] = a]
      /\ UNCHANGED server \/ \E n : server' = [server EXCEPT ![p] = n]
      /\ UNCHANGED acts \/ \E n : acts' = [acts EXCEPT ![p] = n]
  <2>1. \A o, b : WriteState(p, o, b) => UNCHANGED file \/ \E f : file' = [file EXCEPT ![p] = f] /\ life[p] # "none"
    BY Zenon DEF WriteState, Effect, Runs
  <2>2. CASE ReadRegistrationState \/ CreateMarkerFile \/ CleanupInstances
    BY <2>2, Zenon DEF ReadRegistrationState, CreateMarkerFile, CleanupInstances, inPod, ssm
  <2>3. CASE MarkInProgress
    BY <2>1, <2>3, Zenon DEF MarkInProgress, ssm
  <2>4. CASE CleanupActivations
    BY <2>4, Zenon DEF CleanupActivations, inPod
  <2>5. CASE CreateSSMActivation
    BY <2>5, Zenon DEF CreateSSMActivation, inPod
  <2>6. CASE RegisterAgent
    BY <2>6, Zenon DEF RegisterAgent
  <2>7. CASE StartRemoteAccessServer
    BY <2>7, Zenon DEF StartRemoteAccessServer, ssm
  <2>8. CASE WriteFinalState
    BY <2>1, <2>8, Zenon DEF WriteFinalState, Final, ssm
  <2> QED
    BY <1>1, <2>2, <2>3, <2>4, <2>5, <2>6, <2>7, <2>8, Zenon
<1>6. ASSUME NEW q \in Pods, q # p PROVE InstancesOf(q)' = InstancesOf(q)
  <2>1. CASE RegisterAgent
    <3>1. UNCHANGED insts \/ \E id : insts' = insts \cup {[pod |-> p, id |-> id]}
      BY <2>1, Zenon DEF RegisterAgent
    <3> QED
      BY <1>6, <3>1 DEF InstancesOf
  <2>2. CASE CleanupInstances
    <3>1. \E kept : insts' = insts \ (InstancesOf(p) \ kept)
      BY <2>2, Zenon DEF CleanupInstances
    <3> QED
      BY <1>6, <3>1 DEF InstancesOf
  <2>3. CASE ~RegisterAgent /\ ~CleanupInstances
    BY <1>1, <2>3, Zenon DEF ReadRegistrationState, MarkInProgress, CleanupActivations,
       CreateSSMActivation, CreateMarkerFile, StartRemoteAccessServer, WriteFinalState, ssm, InstancesOf
  <2> QED
    BY <2>1, <2>2, <2>3
<1>7. ASSUME NEW q \in Pods, q # p
      PROVE  /\ file'[q] = file[q] /\ agent'[q] = agent[q] /\ server'[q] = server[q]
             /\ acts'[q] = acts[q]
  BY <1>0, <1>5, <1>7
<1>8. ASSUME NEW q \in Pods, life[q] = "none" PROVE file'[q] = file[q]
  BY <1>0, <1>5, <1>8
<1> QED
  BY <1>2, <1>3, <1>4, <1>6, <1>7, <1>8, Zenon

\* A change handed to the map function comes last.
LEMMA PushedInLine ==
  ASSUME TypeOK, TypeOK', Events, NEW p \in Pods, NEW objs \in Seq(PodObject), Len(objs) \in {1, 2},
         queue' = queue \o objs, UNCHANGED h,
         \A k \in 1..Len(objs) : objs[k].pod = p /\ Before(seen[p], objs[k]) /\ Before(objs[k], seen'[p]),
         Before(objs[1], objs[Len(objs)]), objs[Len(objs)] = seen'[p],
         \A q \in Pods \ {p} : seen'[q] = seen[q]
  PROVE  \A q \in Pods : InLine(q)'
<1>0. /\ \A k \in 1..Len(objs) : objs[k] \in PodObject
      /\ 1 \in 1..Len(objs) /\ Len(objs) \in 1..Len(objs) /\ Len(queue) \in Nat
  BY EventTypes
<1>1. seen[p] \in PodObject /\ seen'[p] \in PodObject /\ \A i \in Mine(p) : queue[i] \in PodObject
  BY <1>0, EventTypes, Zenon DEF TypeOK
<1>2. /\ \A q \in Pods : /\ Mine(q) \subseteq Mine(q)'
                         /\ \A i \in Mine(q) : queue'[i] = queue[i]
                         /\ q # p => Mine(q)' = Mine(q)
      /\ \A i \in Mine(p)' : \/ i \in Mine(p)
                             \/ \E k \in 1..Len(objs) : i = Len(queue) + k /\ queue'[i] = objs[k]
      /\ \A k \in 1..Len(objs) : /\ Len(queue) + k \in Mine(p)'
                                 /\ queue'[Len(queue) + k] = objs[k]
                                 /\ \A i \in Mine(p) : i < Len(queue) + k
  BY Pushed, Zenon
<1>3. ASSUME NEW q \in Pods \ {p} PROVE InLine(q)'
  <2>1. InLine(q)
    BY DEF Events
  <2>2. Mine(q)' = Mine(q) /\ seen'[q] = seen[q] /\ Handled(q)' = Handled(q)
    BY <1>2 DEF Handled
  <2>3. \A i \in Mine(q) : queue'[i] = queue[i]
    BY <1>2, Zenon
  <2> QED
    BY <2>1, <2>2, <2>3, Zenon DEF InLine
<1>4. InLine(p)
  BY DEF Events
<1>5. \A x \in PodObject : Before(x, seen[p]) =>
        Before(x, seen'[p]) /\ \A k \in 1..Len(objs) : Before(x, objs[k])
  BY <1>0, <1>1, Orders, Zenon
<1>6. ASSUME NEW i \in Mine(p)' PROVE Before(queue'[i], seen'[p])
  <2>1. CASE i \in Mine(p)
    BY <1>1, <1>2, <1>4, <1>5, <2>1, Zenon DEF InLine
  <2>2. ASSUME NEW k \in 1..Len(objs), i = Len(queue) + k, queue'[i] = objs[k] PROVE Before(queue'[i], seen'[p])
    BY <2>2, Zenon
  <2> QED
    BY <1>2, <2>1, <2>2, Zenon
<1>7. ASSUME NEW i \in Mine(p)', NEW j \in Mine(p)', i < j PROVE Before(queue'[i], queue'[j])
  <2>1. CASE i \in Mine(p) /\ j \in Mine(p)
    BY <1>2, <1>4, <1>7, <2>1, Zenon DEF InLine
  <2>2. ASSUME i \in Mine(p), NEW k \in 1..Len(objs), queue'[j] = objs[k] PROVE Before(queue'[i], queue'[j])
    BY <1>1, <1>2, <1>4, <1>5, <2>2, Zenon DEF InLine
  <2>3. ASSUME NEW k \in 1..Len(objs), i = Len(queue) + k, queue'[i] = objs[k]
        PROVE  Before(queue'[i], queue'[j])
    <3>1. j \notin Mine(p)
      BY <1>0, <1>7, <2>3, EventTypes
    <3>2. PICK l \in 1..Len(objs) : j = Len(queue) + l /\ queue'[j] = objs[l]
      BY <1>2, <3>1, Zenon
    <3>3. k = 1 /\ l = Len(objs)
      BY <1>0, <1>7, <2>3, <3>2
    <3> QED
      BY <2>3, <3>2, <3>3, Zenon
  <2> QED
    BY <1>2, <2>1, <2>2, <2>3, Zenon
<1>8. /\ Len(queue) + Len(objs) \in Mine(p)' /\ queue'[Len(queue) + Len(objs)] = seen'[p]
      /\ \A i \in Mine(p) : i < Len(queue) + Len(objs)
  BY <1>0, <1>2, Zenon
<1>9. ASSUME NEW i \in Mine(p)' PROVE queue'[i] = seen'[p] \/ \E j \in Mine(p)' : i < j
  <2>1. CASE i \in Mine(p)
    BY <1>8, <2>1, Zenon
  <2>2. ASSUME NEW k \in 1..Len(objs), i = Len(queue) + k, queue'[i] = objs[k], k # Len(objs)
        PROVE  i < Len(queue) + Len(objs)
    BY <1>0, <2>2
  <2> QED
    BY <1>2, <1>8, <2>1, <2>2, Zenon
<1>10. Handled(p)' =>
         /\ Before(h'.ev, seen'[p])
         /\ \A i \in Mine(p)' : Before(h'.ev, queue'[i])
         /\ Mine(p)' # {}
         /\ h'.ev.del => h'.pc \in {"instances", "activations"}
  <2> SUFFICES ASSUME Handled(p)
               PROVE  /\ Before(h.ev, seen'[p])
                      /\ \A i \in Mine(p)' : Before(h.ev, queue'[i])
                      /\ Mine(p)' # {}
                      /\ h.ev.del => h.pc \in {"instances", "activations"}
    BY Zenon DEF Handled
  <2>1. /\ h.ev \in PodObject /\ Before(h.ev, seen[p])
        /\ \A i \in Mine(p) : Before(h.ev, queue[i])
        /\ h.ev.del => h.pc \in {"instances", "activations"}
    BY <1>4, EventTypes, Zenon DEF InLine
  <2>2. ASSUME NEW i \in Mine(p)' PROVE Before(h.ev, queue'[i])
    <3>1. CASE i \in Mine(p)
      BY <1>2, <2>1, <3>1, Zenon
    <3>2. ASSUME NEW k \in 1..Len(objs), queue'[i] = objs[k] PROVE Before(h.ev, queue'[i])
      BY <1>5, <2>1, <3>2, Zenon
    <3> QED
      BY <1>2, <3>1, <3>2, Zenon
  <2> QED
    BY <1>5, <1>8, <2>1, <2>2, Zenon
<1>11. InLine(p)'
  BY <1>6, <1>7, <1>9, <1>10, Zenon DEF InLine
<1> QED
  BY <1>3, <1>11

\* The next object is taken up.
LEMMA PoppedInLine ==
  ASSUME TypeOK, Events, HandleWorkspacePodEvents
  PROVE  /\ \A q \in Pods : InLine(q)'
         /\ Head(queue).pod \in Pods /\ h' = Dispatch(Head(queue))
         /\ h'.pc # "idle" => h'.ev = Head(queue) /\ h'.pc = IF Head(queue).del THEN "instances" ELSE "read"
<1> DEFINE e == Head(queue)
<1>1. h = Idle /\ queue # <<>> /\ queue' = Tail(queue) /\ h' = Dispatch(e) /\ seen' = seen
  BY Zenon DEF HandleWorkspacePodEvents, podVars
<1>2. /\ e \in PodObject /\ e = queue[1] /\ 1 \in Mine(e.pod)
      /\ \A q \in Pods : /\ \A i \in Mine(q)' : /\ i + 1 \in Mine(q) /\ queue'[i] = queue[i + 1]
                                                /\ i \in Nat /\ 1 < i + 1
                         /\ \A i \in Mine(q) : i # 1 => /\ i - 1 \in Mine(q)' /\ i - 1 \in Nat
                                                        /\ queue'[i - 1] = queue[i]
                         /\ \A i \in Mine(q) : i = 1 => q = e.pod
  BY <1>1, Popped, Zenon
<1>3. e.pod \in Pods
  BY <1>2, Zenon DEF PodObject
<1>4. h'.pc # "idle" => h'.ev = e /\ h'.pc = IF e.del THEN "instances" ELSE "read"
  <2>1. Idle.pc = "idle"
    BY DEF Idle
  <2>2. \A pc \in {"instances", "read"} : Call(pc, e).ev = e /\ Call(pc, e).pc = pc
    BY DEF Call, Idle
  <2> HIDE DEF e
  <2> QED
    BY <1>1, <2>1, <2>2 DEF Dispatch
<1> HIDE DEF e
<1>5. ASSUME NEW q \in Pods PROVE InLine(q)'
  <2>0. InLine(q)
    BY DEF Events
  <2>1. \A i \in Mine(q)' : /\ Before(queue'[i], seen'[q])
                            /\ \A j \in Mine(q)' : i < j => Before(queue'[i], queue'[j])
    <3> SUFFICES ASSUME NEW i \in Mine(q)'
                 PROVE  /\ Before(queue'[i], seen'[q])
                        /\ \A j \in Mine(q)' : i < j => Before(queue'[i], queue'[j])
      OBVIOUS
    <3>1. Before(queue'[i], seen'[q])
      BY <1>1, <1>2, <2>0, ZenonT(30) DEF InLine
    <3>2. ASSUME NEW j \in Mine(q)', i < j PROVE Before(queue'[i], queue'[j])
      <4>1. i + 1 \in Mine(q) /\ j + 1 \in Mine(q) /\ i \in Nat /\ j \in Nat
        BY <1>2, Zenon
      <4>2. i + 1 < j + 1
        BY <3>2, <4>1
      <4>3. Before(queue[i + 1], queue[j + 1])
        BY <2>0, <4>1, <4>2, Zenon DEF InLine
      <4> QED
        BY <1>2, <4>3, Zenon
    <3> QED
      BY <3>1, <3>2
  <2>2. ASSUME NEW i \in Mine(q)' PROVE queue'[i] = seen'[q] \/ \E j \in Mine(q)' : i < j
    <3>1. i + 1 \in Mine(q) /\ i \in Nat /\ queue'[i] = queue[i + 1] /\ Mine(q) \subseteq 1..Len(queue)
      BY <1>2, EventTypes, Zenon
    <3>2. CASE queue[i + 1] = seen[q]
      BY <1>1, <3>1, <3>2, Zenon
    <3>3. ASSUME NEW j \in Mine(q), i + 1 < j PROVE \E k \in Mine(q)' : i < k
      <4>1. j \in Nat /\ j # 1 /\ i < j - 1
        BY <3>1, <3>3, EventTypes
      <4>2. j - 1 \in Mine(q)'
        BY <1>2, <4>1, Zenon
      <4> QED
        BY <4>1, <4>2, Zenon
    <3> QED
      BY <2>0, <3>1, <3>2, <3>3, Zenon DEF InLine
  <2>3. ASSUME Handled(q)'
        PROVE  /\ Before(h'.ev, seen'[q]) /\ \A i \in Mine(q)' : Before(h'.ev, queue'[i])
               /\ h'.ev = seen'[q] \/ Mine(q)' # {}
               /\ h'.ev.del => h'.pc \in {"instances", "activations"}
    <3>1. h'.ev = queue[1] /\ 1 \in Mine(q) /\ (h'.ev.del => h'.pc = "instances")
      BY <1>2, <1>4, <2>3 DEF Handled
    <3>2. Before(queue[1], seen[q]) /\ (queue[1] = seen[q] \/ \E j \in Mine(q) : 1 < j)
      BY <2>0, <3>1, Zenon DEF InLine
    <3>3. ASSUME NEW i \in Mine(q)' PROVE Before(queue[1], queue'[i])
      <4>1. i + 1 \in Mine(q) /\ 1 < i + 1 /\ queue'[i] = queue[i + 1]
        BY <1>2, Zenon
      <4>2. Before(queue[1], queue[i + 1])
        BY <2>0, <3>1, <4>1, Zenon DEF InLine
      <4> QED
        BY <4>1, <4>2, Zenon
    <3>4. ASSUME NEW j \in Mine(q), 1 < j PROVE Mine(q)' # {}
      <4>1. j # 1
        BY <3>4
      <4> QED
        BY <1>2, <4>1, Zenon
    <3> QED
      BY <1>1, <3>1, <3>2, <3>3, <3>4, Zenon
  <2> QED
    BY <2>1, <2>2, <2>3, Zenon DEF InLine
<1> QED
  BY <1>1, <1>3, <1>4, <1>5, Zenon DEF e

\* After a crash the informer lists every pod there is, once.  That this is so takes the
\* theorems about finite sets: it is Relisted of RemoteAccess_proofs.
Listed ==
  /\ \A q \in Pods : life[q] \in {"up", "term"} <=> Mine(q)' # {}
  /\ \A q \in Pods : \A i \in Mine(q)' :
       queue'[i] = seen[q] /\ \A j \in Mine(q)' : j = i

\* The events of all pods stay in line.
LEMMA EventsStep ==
  ASSUME TypeOK, TypeOK', Events, [Next]_vars, Crash => Listed
  PROVE  Events'
<1>0. TypeOK'
  OBVIOUS
<1>1. \A p \in Pods : Reported(p) /\ InLine(p)
  BY DEF Events
<1>2. ASSUME UNCHANGED <<queue, h, seen>> PROVE \A p \in Pods : InLine(p)' /\ Mine(p)' = Mine(p) /\ Handled(p)' = Handled(p)
  <2>1. ASSUME NEW p \in Pods PROVE Mine(p)' = Mine(p) /\ Handled(p)' = Handled(p)
    BY <1>2 DEF Mine, Handled
  <2> QED
    BY <1>1, <1>2, <2>1, Zenon DEF InLine
<1>3. ASSUME UNCHANGED <<queue, h, seen, life, left, file, side, main>> PROVE Events'
  <2>1. ASSUME NEW p \in Pods PROVE Reported(p)'
    BY <1>1, <1>2, <1>3, Zenon DEF Reported
  <2> QED
    BY <1>2, <1>3, <2>1 DEF Events
<1>Alive. \A p \in Pods : life[p] # "none" => (seen[p].del <=> life[p] \in {"term", "gone"})
  BY <1>1, Zenon DEF Reported
<1>4. ASSUME NEW p \in Pods, SidecarDown(p) \/ SidecarUp(p) \/ MainDown(p) \/ MainUp(p)
      PROVE  Events'
  <2>1. /\ UNCHANGED <<queue, h, seen, life, left, file>>
        /\ \A q \in Pods \ {p} : side'[q] = side[q] /\ main'[q] = main[q]
    BY <1>4, ZenonT(30) DEF SidecarDown, SidecarUp, MainDown, MainUp, inPod, TypeOK
  <2>2. /\ Since(side[p], side'[p]) /\ Since(main[p], main'[p])
        /\ side'[p] \in Container /\ main'[p] \in Container
    <3>0. side \in [Pods -> Container] /\ main \in [Pods -> Container] /\ side[p] \in Container /\ main[p] \in Container
      BY Zenon DEF TypeOK
    <3>1. CASE SidecarDown(p)
      <4>1. side'[p] = [side[p] EXCEPT !.up = FALSE] /\ main' = main
        BY <3>0, <3>1 DEF SidecarDown
      <4>2. side'[p].n = side[p].n /\ side'[p].up = FALSE
        BY <3>0, <4>1, Zenon DEF Container
      <4>3. Since(side[p], side'[p])
        BY <3>0, <4>2 DEF Since, Container
      <4> QED
        BY <1>0, <3>0, <4>1, <4>3, Orders, Zenon DEF TypeOK
    <3>2. CASE MainDown(p)
      <4>1. main'[p] = [main[p] EXCEPT !.up = FALSE] /\ side' = side
        BY <3>0, <3>2 DEF MainDown
      <4>2. main'[p].n = main[p].n /\ main'[p].up = FALSE
        BY <3>0, <4>1, Zenon DEF Container
      <4>3. Since(main[p], main'[p])
        BY <3>0, <4>2 DEF Since, Container
      <4> QED
        BY <1>0, <3>0, <4>1, <4>3, Orders, Zenon DEF TypeOK
    <3>3. CASE SidecarUp(p)
      <4>1. side'[p].n = side[p].n + 1 /\ main' = main
        BY <3>0, <3>3 DEF SidecarUp
      <4>2. Since(side[p], side'[p])
        BY <3>0, <4>1 DEF Since, Container
      <4> QED
        BY <1>0, <3>0, <4>1, <4>2, Orders, Zenon DEF TypeOK
    <3>4. CASE MainUp(p)
      <4>1. main'[p].n = main[p].n + 1 /\ side' = side
        BY <3>0, <3>4 DEF MainUp
      <4>2. Since(main[p], main'[p])
        BY <3>0, <4>1 DEF Since, Container
      <4> QED
        BY <1>0, <3>0, <4>1, <4>2, Orders, Zenon DEF TypeOK
    <3> QED
      BY <1>4, <3>1, <3>2, <3>3, <3>4, Zenon
  <2>3. Since(seen[p].side, side'[p]) /\ Since(seen[p].main, main'[p])
    <3>1. /\ seen[p].side \in Container /\ seen[p].main \in Container
          /\ side[p] \in Container /\ main[p] \in Container
      BY Zenon DEF TypeOK, PodObject
    <3>2. Since(seen[p].side, side[p]) /\ Since(seen[p].main, main[p])
      BY <1>1, Zenon DEF Reported
    <3>3. \A c, d, e \in Container : Since(c, d) /\ Since(d, e) => Since(c, e)
      BY Orders
    <3> QED
      BY <2>2, <3>1, <3>2, <3>3
  <2>4. ASSUME NEW q \in Pods PROVE Reported(q)'
    <3>1. Since(seen[q].side, side'[q]) /\ Since(seen[q].main, main'[q])
      BY <1>1, <2>1, <2>3, ZenonT(30) DEF Reported
    <3> QED
      BY <1>1, <1>2, <2>1, <3>1, ZenonT(30) DEF Reported
  <2> QED
    BY <1>2, <2>1, <2>4 DEF Events
<1>5. ASSUME NEW p \in Pods, Damage(p) PROVE Events'
  <2>1. /\ UNCHANGED <<queue, h, seen, life, left, side, main>> /\ life[p] = "up"
        /\ \A q \in Pods \ {p} : file'[q] = file[q]
    BY <1>5 DEF Damage, podVars, TypeOK
  <2>2. ASSUME NEW q \in Pods PROVE Reported(q)'
    <3>1. life[q] = "none" => file'[q] = file[q]
      BY <2>1
    <3> QED
      BY <1>1, <1>2, <2>1, <3>1, Zenon DEF Reported
  <2> QED
    BY <1>2, <2>1, <2>2 DEF Events
<1>6. CASE Release
  <2>1. /\ UNCHANGED <<queue, h, seen, life, side, main, file>>
        /\ \A p \in Pods : life[p] # "up"
    BY <1>6, Zenon DEF Release, inPod
  <2>2. ASSUME NEW q \in Pods PROVE Reported(q)'
    BY <1>1, <1>2, <2>1, Zenon DEF Reported
  <2> QED
    BY <1>2, <2>1, <2>2 DEF Events
<1>7. CASE ExtensionAPI
  BY <1>3, <1>7, Zenon DEF ExtensionAPI, EnsureResourcesInitialized, GenerateVSCodeURL, CheckNumActiveSessions,
     StartSession, EndSession, podVars, inPod
<1>8. CASE UNCHANGED vars
  BY <1>3, <1>8, Zenon DEF vars, podVars, inPod
<1>9. CASE HandleWorkspacePodEvents
  <2>0. /\ \A q \in Pods : InLine(q)'
        /\ Head(queue).pod \in Pods /\ h' = Dispatch(Head(queue))
        /\ h'.pc # "idle" => h'.ev = Head(queue) /\ h'.pc = IF Head(queue).del THEN "instances" ELSE "read"
    BY <1>9, PoppedInLine
  <2>1. UNCHANGED <<life, side, main, seen, left, file>> /\ queue # <<>> /\ queue' = Tail(queue)
    BY <1>9, Zenon DEF HandleWorkspacePodEvents, podVars, inPod
  <2>2. ASSUME NEW q \in Pods PROVE Reported(q)'
    <3>1. Mine(q) = {} => Mine(q)' = {} /\ ~Handled(q)'
      <4>1. Mine(q) = {} => Mine(q)' = {}
        BY <2>1, Popped, Zenon
      <4>2. 1 \in Mine(Head(queue).pod)
        BY <2>1, Popped, Zenon
      <4> QED
        BY <2>0, <4>1, <4>2, Zenon DEF Handled
    <3> QED
      BY <1>1, <2>1, <3>1, Zenon DEF Reported
  <2> QED
    BY <2>0, <2>2 DEF Events
<1>10. CASE PodEventHandler /\ ~HandleWorkspacePodEvents
  <2>1. /\ UNCHANGED <<queue, life, side, main, seen, left>> /\ h.pc # "idle"
        /\ h' = Idle \/ (h'.pc # "idle" /\ h'.ev = h.ev)
        /\ h.ev.del /\ h.pc \in {"instances", "activations"} => h' = Idle \/ h'.pc = "activations"
        /\ \A q \in Pods : life[q] = "none" => file'[q] = file[q]
    BY <1>10, HandlerFrame, Zenon DEF podVars
  <2>2. Idle.pc = "idle"
    BY DEF Idle
  <2>3. ASSUME NEW q \in Pods
        PROVE  Mine(q)' = Mine(q) /\ (Handled(q)' => Handled(q) /\ h'.ev = h.ev /\ h' # Idle)
    BY <2>1, <2>2 DEF Mine, Handled
  <2>4. ASSUME NEW q \in Pods PROVE Reported(q)'
    BY <1>1, <2>1, <2>3, Zenon DEF Reported
  <2>5. ASSUME NEW q \in Pods PROVE InLine(q)'
    <3>1. \A i \in Mine(q)' :
            /\ Before(queue'[i], seen'[q])
            /\ \A j \in Mine(q)' : i < j => Before(queue'[i], queue'[j])
            /\ queue'[i] = seen'[q] \/ \E j \in Mine(q)' : i < j
      BY <1>1, <2>1, <2>3, Zenon DEF InLine
    <3>2. ASSUME Handled(q)'
          PROVE  /\ Before(h'.ev, seen'[q])
                 /\ \A i \in Mine(q)' : Before(h'.ev, queue'[i])
                 /\ h'.ev = seen'[q] \/ Mine(q)' # {}
                 /\ h'.ev.del => h'.pc \in {"instances", "activations"}
      <4>1. /\ Before(h.ev, seen[q])
            /\ \A i \in Mine(q) : Before(h.ev, queue[i])
            /\ h.ev = seen[q] \/ Mine(q) # {}
            /\ h.ev.del => h.pc \in {"instances", "activations"}
        BY <1>1, <2>3, <3>2, Zenon DEF InLine
      <4>2. h'.ev = h.ev /\ h' # Idle
        BY <2>3, <3>2, Zenon
      <4> QED
        BY <2>1, <2>3, <4>1, <4>2, Zenon
    <3> QED
      BY <3>1, <3>2, Zenon DEF InLine
  <2> QED
    BY <2>4, <2>5 DEF Events
<1>11. CASE Crash
  <2>1. UNCHANGED <<life, side, main, seen, left, file>> /\ h' = Idle
    BY <1>11, Zenon DEF Crash, podVars, inPod
  <2>2. ~(h'.pc # "idle")
    BY <2>1 DEF Idle
  <2>3. ASSUME NEW q \in Pods PROVE InLine(q)'
    <3>1. \A i \in Mine(q)' : queue'[i] = seen'[q] /\ \A j \in Mine(q)' : j = i
      BY <1>11, <2>1, Zenon DEF Listed
    <3>3. seen'[q] \in PodObject
      BY <1>0 DEF TypeOK
    <3>4. \A i \in Mine(q)' :
            /\ Before(queue'[i], seen'[q])
            /\ \A j \in Mine(q)' : i < j => Before(queue'[i], queue'[j])
            /\ queue'[i] = seen'[q]
      BY <3>1, <3>3, Orders, Zenon
    <3> QED
      BY <2>2, <3>4, Zenon DEF InLine, Handled
  <2>4. ASSUME NEW q \in Pods PROVE Reported(q)'
    <3>1. life[q] = "none" => Mine(q)' = {} /\ ~Handled(q)'
      BY <1>11, <2>2 DEF Handled, Listed
    <3> QED
      BY <1>1, <2>1, <3>1, Zenon DEF Reported
  <2> QED
    BY <2>3, <2>4 DEF Events
<1>Push. ASSUME NEW p \in Pods, NEW objs \in Seq(PodObject), Len(objs) \in {1, 2},
                Notify(objs), UNCHANGED <<side, main, h, file>>,
                \A k \in 1..Len(objs) : objs[k].pod = p /\ Before(seen[p], objs[k]) /\ Before(objs[k], seen'[p]),
                Before(objs[1], objs[Len(objs)]), objs[Len(objs)] = seen'[p],
                \A q \in Pods \ {p} : seen'[q] = seen[q] /\ life'[q] = life[q],
                Since(seen'[p].side, side[p]), Since(seen'[p].main, main[p]), seen'[p].pod = p,
                seen'[p].del <=> life'[p] \in {"term", "gone"}, life'[p] # "none",
                UNCHANGED left, left = "both" \/ life'[p] # "up"
         PROVE  Events'
  <2>1. \A q \in Pods : InLine(q)'
    BY <1>0, <1>Push, PushedInLine, Zenon DEF Notify
  <2>2. ASSUME NEW q \in Pods PROVE Reported(q)'
    <3>1. CASE q = p
      BY <1>Push, <3>1, Zenon DEF Reported
    <3>2. CASE q # p
      <4>1. Mine(q)' = Mine(q)
        BY <1>Push, <3>2, Pushed, ZenonT(30) DEF Notify
      <4>2. Handled(q)' = Handled(q)
        BY <1>Push, Zenon DEF Handled
      <4>3. seen'[q] = seen[q] /\ life'[q] = life[q]
        BY <1>Push, <3>2
      <4> QED
        BY <1>1, <1>Push, <4>1, <4>2, <4>3, ZenonT(30) DEF Reported
    <3> QED
      BY <3>1, <3>2
  <2> QED
    BY <2>1, <2>2 DEF Events
<1>One. ASSUME NEW x \in PodObject
        PROVE  <<x>> \in Seq(PodObject) /\ Len(<<x>>) = 1 /\ 1..Len(<<x>>) = {1} /\ <<x>>[1] = x
  OBVIOUS
<1>Two. ASSUME NEW x \in PodObject, NEW y \in PodObject
        PROVE  /\ <<x, y>> \in Seq(PodObject) /\ Len(<<x, y>>) = 2 /\ 1..Len(<<x, y>>) = {1, 2}
               /\ <<x, y>>[1] = x /\ <<x, y>>[2] = y
  OBVIOUS
<1>Pod. ASSUME NEW p \in Pods
        PROVE  /\ seen[p] \in PodObject /\ Before(seen[p], seen[p]) /\ seen[p].pod = p
               /\ Since(seen[p].side, side[p]) /\ Since(seen[p].main, main[p])
               /\ seen[p].del <=> life[p] \in {"term", "gone"}
  <2>1. seen[p] \in PodObject
    BY DEF TypeOK
  <2> QED
    BY <1>1, <2>1, Orders, Zenon DEF Reported
<1>Single. ASSUME NEW p \in Pods, Notify(<<seen[p]>>), UNCHANGED <<side, main, seen, h, file, left>>,
                  \A q \in Pods \ {p} : life'[q] = life[q],
                  seen[p].del <=> life'[p] \in {"term", "gone"}, life'[p] # "none",
                  left = "both" \/ life'[p] # "up"
           PROVE  Events'
  <2> DEFINE objs == <<seen[p]>>
  <2>1. objs \in Seq(PodObject) /\ Len(objs) = 1 /\ 1..Len(objs) = {1} /\ objs[1] = seen[p]
    BY <1>One, <1>Pod, Zenon
  <2> HIDE DEF objs
  <2>2. \A k \in 1..Len(objs) : objs[k].pod = p /\ Before(seen[p], objs[k]) /\ Before(objs[k], seen'[p])
    BY <1>Pod, <1>Single, <2>1
  <2>3. Before(objs[1], objs[Len(objs)]) /\ objs[Len(objs)] = seen'[p]
    BY <1>Pod, <1>Single, <2>1
  <2>4. Notify(objs)
    BY <1>Single DEF objs
  <2> QED
    BY <1>Pod, <1>Push, <1>Single, <2>1, <2>2, <2>3, <2>4, Zenon
<1>Double. ASSUME NEW p \in Pods, NEW y \in PodObject, Notify(<<seen[p], y>>), y = seen'[p],
                  Before(seen[p], y), y.pod = p, UNCHANGED <<side, main, h, file, left>>,
                  \A q \in Pods \ {p} : seen'[q] = seen[q] /\ life'[q] = life[q],
                  Since(y.side, side[p]), Since(y.main, main[p]),
                  y.del <=> life'[p] \in {"term", "gone"}, life'[p] # "none",
                  left = "both" \/ life'[p] # "up"
           PROVE  Events'
  <2> DEFINE objs == <<seen[p], y>>
  <2>1. /\ objs \in Seq(PodObject) /\ Len(objs) = 2 /\ 1..Len(objs) = {1, 2}
        /\ objs[1] = seen[p] /\ objs[2] = y
    BY <1>Two, <1>Pod
  <2> HIDE DEF objs
  <2>0. Before(y, y)
    BY Orders, Zenon
  <2>2. \A k \in 1..Len(objs) : objs[k].pod = p /\ Before(seen[p], objs[k]) /\ Before(objs[k], seen'[p])
    BY <1>Pod, <1>Double, <2>0, <2>1
  <2>3. Before(objs[1], objs[Len(objs)]) /\ objs[Len(objs)] = seen'[p]
    BY <1>Double, <2>1, Zenon
  <2>4. Notify(objs)
    BY <1>Double, Zenon DEF objs
  <2>5. /\ Since(seen'[p].side, side[p]) /\ Since(seen'[p].main, main[p]) /\ seen'[p].pod = p
        /\ seen'[p].del <=> life'[p] \in {"term", "gone"}
    BY <1>Double, Zenon
  <2> QED
    BY <1>Push, <1>Double, <2>1, <2>2, <2>3, <2>4, <2>5, Zenon
<1>12. ASSUME NEW p \in Pods, PodRunning(p) PROVE Events'
  <2>1. /\ life[p] = "none" /\ left = "both" /\ Notify(<<seen[p]>>)
        /\ UNCHANGED <<side, main, seen, left, h, file>>
    BY <1>12, Zenon DEF PodRunning, inPod
  <2>2. life'[p] = "up" /\ \A q \in Pods \ {p} : life'[q] = life[q]
    BY <1>12 DEF PodRunning, TypeOK
  <2> QED
    BY <1>Pod, <1>Single, <2>1, <2>2, Zenon
<1>13. ASSUME NEW p \in Pods, PodGone(p) PROVE Events'
  <2>1. /\ life[p] = "term" /\ Notify(<<seen[p]>>)
        /\ UNCHANGED <<side, main, seen, left, h, file>>
    BY <1>13, Zenon DEF PodGone
  <2>2. life'[p] = "gone" /\ \A q \in Pods \ {p} : life'[q] = life[q]
    BY <1>13 DEF PodGone, TypeOK
  <2> QED
    BY <1>Pod, <1>Single, <2>1, <2>2, Zenon
<1>14. ASSUME NEW p \in Pods, Report(p) PROVE Events'
  <2> DEFINE y == Object(p)
  <2>1. /\ life[p] = "up" /\ Notify(<<seen[p], y>>)
        /\ UNCHANGED <<life, side, main, left, h, file>>
    BY <1>14, Zenon DEF Report, inPod
  <2>2. seen'[p] = y /\ \A q \in Pods \ {p} : seen'[q] = seen[q]
    BY <1>14, ZenonT(30) DEF Report, TypeOK
  <2>3. y \in PodObject /\ y.pod = p /\ y.del = FALSE /\ y.side = side[p] /\ y.main = main[p]
    BY DEF Object, PodObject, TypeOK
  <2>4. Since(side[p], side[p]) /\ Since(main[p], main[p])
    BY Orders DEF TypeOK
  <2>5. left = "both"
    BY <1>1, <2>1, Zenon DEF Reported
  <2> HIDE DEF y
  <2>6. Before(seen[p], y) /\ (y.del <=> life'[p] \in {"term", "gone"})
    BY <1>Pod, <2>1, <2>3, Zenon DEF Before
  <2> QED
    BY <1>Double, <2>1, <2>2, <2>3, <2>4, <2>5, <2>6, Zenon
<1>15. ASSUME NEW p \in Pods, Terminate(p) PROVE Events'
  <2> DEFINE y == [seen[p] EXCEPT !.del = TRUE]
  <2>1. /\ life[p] = "up" /\ Notify(<<seen[p], seen'[p]>>)
        /\ UNCHANGED <<side, main, left, h, file>>
    BY <1>15, Zenon DEF Terminate, inPod
  <2>2. /\ seen'[p] = y /\ life'[p] = "term"
        /\ \A q \in Pods \ {p} : seen'[q] = seen[q] /\ life'[q] = life[q]
    BY <1>15 DEF Terminate, TypeOK
  <2>3. y \in PodObject /\ y.pod = p /\ y.del = TRUE /\ y.side = seen[p].side /\ y.main = seen[p].main
    <3>1. ASSUME NEW x \in PodObject
          PROVE  LET z == [x EXCEPT !.del = TRUE]
                 IN  z.pod = x.pod /\ z.del = TRUE /\ z.side = x.side /\ z.main = x.main
      BY DEF PodObject
    <3>2. seen'[p] \in PodObject
      BY <1>0 DEF TypeOK
    <3>3. y \in PodObject
      BY <2>2, <3>2, Zenon
    <3> QED
      BY <1>Pod, <3>1, <3>3, Zenon
  <2> HIDE DEF y
  <2>4. Before(seen[p], y)
    BY <1>Pod, <2>3, Zenon DEF Before
  <2> QED
    BY <1>Pod, <1>Double, <2>1, <2>2, <2>3, <2>4, Zenon
<1> QED
  BY <1>4, <1>5, <1>6, <1>7, <1>8, <1>9, <1>10, <1>11, <1>12, <1>13, <1>14, <1>15, Zenon
     DEF Next, Kubernetes, Containers

(***************************************************************************)
(* Clean-ups: what is still to come for a pod that is on its way out.      *)
(***************************************************************************)
Clean(p) == InstancesOf(p) = {} /\ acts[p] = 0

\* The handler is about to make a clean-up without fault complete.
Cleaning(p) ==
  /\ Handled(p) /\ h.ev.del
  /\ h.pc = "activations" => InstancesOf(p) = {}

Coming(p) == \E i \in Mine(p) : queue[i].del

OnlyCleanUps(p) == (\A i \in Mine(p) : queue[i].del) /\ (Handled(p) => h.ev.del)

\* With a fault to come, two clean-ups are to come, or one was complete.
Twice(p) ==
  \/ \E i, j \in Mine(p) : i < j /\ queue[i].del /\ queue[j].del
  \/ Cleaning(p) /\ Coming(p)

Tidy(p) ==
  \/ Clean(p) /\ OnlyCleanUps(p)
  \/ life[p] = "term" /\ (budget.faults = 1 \/ Coming(p) \/ Cleaning(p))
  \/ life[p] = "gone" /\ budget.faults = 1 /\ (Coming(p) \/ Cleaning(p))
  \/ life[p] = "gone" /\ Twice(p)

Tidied ==
  \A p \in Pods :
    life[p] \in {"term", "gone"} /\ p \notin missed /\ left # "nothing" /\ budget.faults <= 1 => Tidy(p)

(***************************************************************************)
(* Set-ups: what holds for the container of a given restart count.         *)
(***************************************************************************)
Enrolled(p) == [pod |-> p, id |-> agent[p]] \in insts
SideDone(p, n) == side[p].up /\ side[p].n = n => Enrolled(p)
MainDone(p, n) == main[p].up /\ main[p].n = n => server[p] > 0

Busy(p) == Handled(p) /\ h.pc # "read"

\* Restart counts that no event about p to come falls short of.
Reached(p, s, m) ==
  /\ s <= seen[p].side.n /\ m <= seen[p].main.n
  /\ \A i \in Mine(p) : s <= queue[i].side.n /\ m <= queue[i].main.n
  /\ Handled(p) => s <= h.ev.side.n /\ m <= h.ev.main.n

\* The state file is not ahead of any event, and tells the truth but during a set-up.
Truthful(p) ==
  /\ file[p] \in {NoFile, Damaged} \/ file[p].kind = "state"
  /\ file[p].kind = "state" =>
       /\ Reached(p, file[p].s, file[p].m)
       /\ ~Busy(p) => ~file[p].busy /\ SideDone(p, file[p].s) /\ MainDone(p, file[p].m)

\* What a set-up has done, or found done.
Advanced(p) ==
  Busy(p) =>
    /\ h.pc \in {"instances", "activations", "activate", "register", "marker"} => h.s
    /\ h.pc \in {"marker", "server", "final"} \/ ~h.s => SideDone(p, h.ev.side.n)
    /\ h.pc = "final" \/ ~h.m => MainDone(p, h.ev.main.n)

\* With every event handled, the containers last reported are set up.
Served(p) ==
  ~Pending(p) /\ seen[p].side.up =>
    SideDone(p, seen[p].side.n) /\ MainDone(p, seen[p].main.n)

Serving ==
  \A p \in Pods : life[p] = "up" /\ p \notin spoiled => Truthful(p) /\ Advanced(p) /\ Served(p)
-----------------------------------------------------------------------------
\* A step spends one fault at most.
LEMMA FaultsStep ==
  ASSUME TypeOK, [Next]_vars
  PROVE  budget.faults \in Nat /\ budget'.faults \in {budget.faults, budget.faults + 1}
<1>0. budget \in BudgetType
  BY DEF TypeOK, BudgetType
<1>1. budget.faults \in Nat
  BY <1>0 DEF BudgetType
<1>2. /\ Charge("restarts") \/ Charge("damages") \/ Charge("crashes") => budget'.faults = budget.faults
      /\ Charge("faults") => budget'.faults = budget.faults + 1
      /\ budget' = Raised("load", 1) => budget'.faults = budget.faults
  BY <1>0, Zenon DEF BudgetType, Charge, Raised
<1>3. \A o : Spend(o) => budget'.faults \in {budget.faults, budget.faults + 1}
  BY <1>2, Zenon DEF Spend
<1>4. \A p, c, o : Exec(p, c, o) => budget'.faults \in {budget.faults, budget.faults + 1}
  BY <1>3, Zenon DEF Exec
<1>5. CASE PodEventHandler
  <2>1. CASE HandleWorkspacePodEvents \/ CleanupInstances \/ CleanupActivations \/ CreateSSMActivation
    BY <1>1, <1>3, <2>1, Zenon
       DEF HandleWorkspacePodEvents, CleanupInstances, CleanupActivations, CreateSSMActivation
  <2>2. CASE ReadRegistrationState \/ RegisterAgent \/ CreateMarkerFile \/ StartRemoteAccessServer
    BY <1>1, <1>4, <2>2, Zenon
       DEF ReadRegistrationState, RegisterAgent, CreateMarkerFile, StartRemoteAccessServer
  <2>3. CASE MarkInProgress \/ WriteFinalState
    BY <1>1, <1>4, <2>3, Zenon DEF MarkInProgress, WriteFinalState, Final, WriteState
  <2> QED
    BY <1>5, <2>1, <2>2, <2>3, Zenon DEF PodEventHandler
<1>6. CASE Kubernetes
  BY <1>1, <1>2, <1>6, Zenon DEF Kubernetes, Release, PodRunning, SidecarDown, MainDown, Containers, SidecarUp, MainUp,
     Report, Damage, Terminate, PodGone
<1>7. CASE ExtensionAPI
  BY <1>1, <1>2, <1>7, Zenon DEF ExtensionAPI, EnsureResourcesInitialized, GenerateVSCodeURL, CheckNumActiveSessions,
     StartSession, EndSession
<1>8. CASE Crash \/ UNCHANGED vars
  BY <1>1, <1>2, <1>8, Zenon DEF Crash, vars
<1> QED
  BY <1>1, <1>5, <1>6, <1>7, <1>8 DEF Next

\* What is to come for a pod on its way out, after any step.
LEMMA TidiedStep ==
  ASSUME TypeOK, TypeOK', Events, Events', Tidied, [Next]_vars, Crash => Listed
  PROVE  Tidied'
<1> SUFFICES ASSUME NEW p \in Pods,
                    life'[p] \in {"term", "gone"}, p \notin missed', left' # "nothing", budget'.faults <= 1
             PROVE  Tidy(p)'
  BY Zenon DEF Tidied
<1>0. TypeOK' /\ Reported(p) /\ InLine(p)
  BY DEF Events
<1>1. /\ budget.faults \in Nat /\ budget'.faults \in {budget.faults, budget.faults + 1}
      /\ budget.faults <= 1 /\ (budget.faults = 1 => budget'.faults = 1)
      /\ (budget'.faults # budget.faults => budget'.faults = 1)
  BY FaultsStep
<1>2. ASSUME life[p] \in {"term", "gone"}, missed \subseteq missed', left # "nothing" PROVE Tidy(p)
  BY <1>1, <1>2, Zenon DEF Tidied
\* Nothing to come is lost, and a clean-up under way is ended by a fault only.
<1>Keep. ASSUME Tidy(p), life'[p] = life[p], Mine(p)' = Mine(p), \A i \in Mine(p) : queue'[i] = queue[i],
                Clean(p) /\ OnlyCleanUps(p) => Clean(p)' /\ OnlyCleanUps(p)',
                Cleaning(p) => Cleaning(p)' \/ budget'.faults # budget.faults
         PROVE  Tidy(p)'
  <2>1. Coming(p) => Coming(p)'
    BY <1>Keep, Zenon DEF Coming
  <2>2. ASSUME NEW i \in Mine(p), NEW j \in Mine(p), i < j, queue[i].del, queue[j].del PROVE Twice(p)'
    BY <1>Keep, <2>2, Zenon DEF Twice
  <2>3. Twice(p) => Twice(p)' \/ (budget'.faults = 1 /\ Coming(p)')
    BY <1>1, <1>Keep, <2>1, <2>2, Zenon DEF Twice
  <2>4. CASE Clean(p) /\ OnlyCleanUps(p)
    BY <1>Keep, <2>4, Zenon DEF Tidy
  <2>5. CASE life[p] = "term" /\ (budget.faults = 1 \/ Coming(p) \/ Cleaning(p))
    BY <1>1, <1>Keep, <2>1, <2>5, Zenon DEF Tidy
  <2>6. CASE life[p] = "gone" /\ budget.faults = 1 /\ (Coming(p) \/ Cleaning(p))
    BY <1>1, <1>Keep, <2>1, <2>6, Zenon DEF Tidy
  <2>7. CASE life[p] = "gone" /\ Twice(p)
    BY <1>Keep, <2>3, <2>7, Zenon DEF Tidy
  <2> QED
    BY <1>Keep, <2>4, <2>5, <2>6, <2>7, Zenon DEF Tidy
<1>Same. ASSUME UNCHANGED <<queue, h, insts, acts, missed>>, life'[p] = life[p], left # "nothing" PROVE Tidy(p)'
  <2>1. /\ Mine(p)' = Mine(p) /\ \A i \in Mine(p) : queue'[i] = queue[i]
        /\ Handled(p)' = Handled(p) /\ InstancesOf(p)' = InstancesOf(p)
    BY <1>Same DEF Mine, Handled, InstancesOf
  <2>2. Tidy(p)
    BY <1>2, <1>Same
  <2>3. Clean(p) /\ OnlyCleanUps(p) => Clean(p)' /\ OnlyCleanUps(p)'
    BY <1>Same, <2>1, Zenon DEF Clean, OnlyCleanUps
  <2>4. Cleaning(p) => Cleaning(p)'
    BY <1>Same, <2>1, Zenon DEF Cleaning
  <2> QED
    BY <1>Same, <1>Keep, <2>1, <2>2, <2>3, <2>4, Zenon
<1>3. CASE ExtensionAPI \/ UNCHANGED vars
  <2>1. UNCHANGED <<queue, h, insts, acts, missed, life, left>>
    BY <1>3, Zenon DEF ExtensionAPI, EnsureResourcesInitialized, GenerateVSCodeURL, CheckNumActiveSessions,
       StartSession, EndSession, podVars, ssm, hist, vars
  <2> QED
    BY <1>Same, <2>1, Zenon
<1>4. CASE Release \/ \E q \in Pods : SidecarDown(q) \/ MainDown(q) \/ Containers(q) \/ Damage(q)
  <2>1. UNCHANGED <<queue, h, insts, acts, missed, life>>
    BY <1>4, Zenon DEF Release, SidecarDown, MainDown, Containers, SidecarUp, MainUp, Damage, podVars, ssm, hist
  <2>2. left # "nothing"
    BY <1>4, Zenon DEF Release, SidecarDown, MainDown, Containers, SidecarUp, MainUp, Damage, podVars
  <2> QED
    BY <1>Same, <2>1, <2>2, Zenon
\* A change of a pod's object.
<1>Push. ASSUME NEW q \in Pods, NEW objs \in Seq(PodObject), Notify(objs), \A k \in 1..Len(objs) : objs[k].pod = q,
                UNCHANGED <<h, insts, acts, missed, left>>, \A r \in Pods \ {q} : life'[r] = life[r],
                q # p
         PROVE  Tidy(p)'
  <2>1. Mine(p)' = Mine(p) /\ \A i \in Mine(p) : queue'[i] = queue[i]
    BY <1>Push, Pushed, Zenon DEF Notify
  <2>2. Tidy(p) /\ life'[p] = life[p]
    BY <1>2, <1>Push
  <2>3. Handled(p)' = Handled(p) /\ InstancesOf(p)' = InstancesOf(p)
    BY <1>Push DEF Handled, InstancesOf
  <2>4. Clean(p) /\ OnlyCleanUps(p) => Clean(p)' /\ OnlyCleanUps(p)'
    BY <1>Push, <2>1, <2>3, Zenon DEF Clean, OnlyCleanUps
  <2>5. Cleaning(p) => Cleaning(p)'
    BY <1>Push, <2>3, Zenon DEF Cleaning
  <2> QED
    BY <1>Keep, <2>1, <2>2, <2>4, <2>5
<1>Objects. ASSUME NEW q \in Pods
            PROVE  seen[q] \in PodObject /\ seen[q].pod = q /\ (seen[q].del <=> life[q] \in {"term", "gone"})
  <2>1. seen[q] \in PodObject
    BY DEF TypeOK
  <2>2. seen[q].pod = q /\ (seen[q].del <=> life[q] \in {"term", "gone"})
    BY Zenon DEF Events, Reported
  <2> QED
    BY <2>1, <2>2, Zenon
<1>One. ASSUME NEW q \in Pods
        PROVE  LET objs == <<seen[q]>>
               IN  /\ objs \in Seq(PodObject) /\ Len(objs) = 1 /\ 1..Len(objs) = {1} /\ objs[1] = seen[q]
                   /\ \A k \in 1..Len(objs) : objs[k].pod = q
  <2>1. seen[q] \in PodObject /\ seen[q].pod = q
    BY <1>Objects, Zenon
  <2> QED
    BY <2>1
<1>Two. ASSUME NEW q \in Pods, NEW y \in PodObject, y.pod = q
        PROVE  LET objs == <<seen[q], y>>
               IN  /\ objs \in Seq(PodObject) /\ Len(objs) = 2 /\ 2 \in 1..Len(objs) /\ objs[2] = y
                   /\ \A k \in 1..Len(objs) : objs[k].pod = q
  <2>1. seen[q] \in PodObject /\ seen[q].pod = q
    BY <1>Objects, Zenon
  <2> QED
    BY <1>Two, <2>1
<1>5. ASSUME NEW q \in Pods, PodRunning(q) PROVE Tidy(p)'
  <2>1. /\ Notify(<<seen[q]>>) /\ UNCHANGED <<h, insts, acts, missed, left>>
        /\ life' = [life EXCEPT ![q] = "up"]
    BY <1>5, Zenon DEF PodRunning, ssm, hist
  <2>2. q # p /\ \A r \in Pods \ {q} : life'[r] = life[r]
    BY <2>1, ZenonT(30) DEF TypeOK
  <2> QED
    BY <1>Push, <1>One, <2>1, <2>2, Zenon
<1>6. ASSUME NEW q \in Pods, Report(q) PROVE Tidy(p)'
  <2>1. /\ Notify(<<seen[q], Object(q)>>) /\ UNCHANGED <<h, insts, acts, missed, left, life>>
        /\ life[q] = "up"
    BY <1>6, Zenon DEF Report, ssm, hist
  <2>2. q # p /\ \A r \in Pods \ {q} : life'[r] = life[r]
    BY <2>1, Zenon
  <2>3. Object(q) \in PodObject /\ Object(q).pod = q
    BY DEF TypeOK, Object, PodObject
  <2> DEFINE objs == <<seen[q], Object(q)>>
  <2>4. objs \in Seq(PodObject) /\ (\A k \in 1..Len(objs) : objs[k].pod = q) /\ Notify(objs)
    BY <1>Two, <2>1, <2>3, ZenonT(30)
  <2> HIDE DEF objs
  <2> QED
    BY <1>Push, <2>1, <2>2, <2>4
<1>7. ASSUME NEW q \in Pods, Terminate(q) PROVE Tidy(p)'
  <2>1. /\ Notify(<<seen[q], seen'[q]>>) /\ UNCHANGED <<h, insts, acts, missed, left>>
        /\ life' = [life EXCEPT ![q] = "term"]
    BY <1>7, Zenon DEF Terminate, ssm, hist
  <2>2. seen'[q] \in PodObject /\ life'[q] = "term" /\ \A r \in Pods \ {q} : life'[r] = life[r]
    BY <1>0, <2>1 DEF TypeOK
  <2>3. seen'[q].pod = q /\ seen'[q].del
    <3>1. Reported(q)'
      BY Zenon DEF Events
    <3> QED
      BY <2>2, <3>1, Zenon DEF Reported
  <2>4. CASE q # p
    <3> DEFINE objs == <<seen[q], seen'[q]>>
    <3>1. objs \in Seq(PodObject) /\ (\A k \in 1..Len(objs) : objs[k].pod = q) /\ Notify(objs)
      BY <1>Two, <2>1, <2>2, <2>3, Zenon
    <3> HIDE DEF objs
    <3> QED
      BY <1>Push, <2>1, <2>2, <2>4, <3>1
  <2>5. CASE q = p
    <3> DEFINE objs == <<seen[q], seen'[q]>>
    <3>1. /\ objs \in Seq(PodObject) /\ Len(objs) = 2 /\ 2 \in 1..Len(objs) /\ objs[2] = seen'[q]
          /\ \A k \in 1..Len(objs) : objs[k].pod = q
      BY <1>Two, <2>2, <2>3, Zenon
    <3>2. queue' = queue \o objs
      BY <2>1 DEF Notify
    <3> HIDE DEF objs
    <3>3. \A k \in 1..Len(objs) : Len(queue) + k \in Mine(q)' /\ queue'[Len(queue) + k] = objs[k]
      BY <3>1, <3>2, Pushed, ZenonT(30)
    <3>5. Len(queue) + 2 \in Mine(p)' /\ queue'[Len(queue) + 2].del
      BY <2>3, <2>5, <3>1, <3>3, Zenon
    <3>4. Coming(p)'
      BY <3>5, Zenon DEF Coming
    <3> QED
      BY <2>2, <2>5, <3>4, Zenon DEF Tidy
  <2> QED
    BY <2>4, <2>5
<1>8. ASSUME NEW q \in Pods, PodGone(q) PROVE Tidy(p)'
  <2>1. /\ Notify(<<seen[q]>>) /\ UNCHANGED <<h, insts, acts, missed, left>>
        /\ life' = [life EXCEPT ![q] = "gone"] /\ life[q] = "term"
    BY <1>8, Zenon DEF PodGone, ssm, hist
  <2>2. life'[q] = "gone" /\ \A r \in Pods \ {q} : life'[r] = life[r]
    BY <2>1 DEF TypeOK
  <2>3. CASE q # p
    BY <1>Push, <1>One, <2>1, <2>2, <2>3, Zenon
  <2>4. CASE q = p
    <3> DEFINE objs == <<seen[q]>>
               last == Len(queue) + 1
    <3>1. /\ objs \in Seq(PodObject) /\ Len(objs) = 1 /\ 1..Len(objs) = {1} /\ objs[1] = seen[q]
          /\ \A k \in 1..Len(objs) : objs[k].pod = q
      BY <1>One, Zenon
    <3>2. queue' = queue \o objs /\ seen[q].del
      BY <1>Objects, <2>1, ZenonT(30) DEF Notify
    <3> HIDE DEF objs
    <3>3. /\ Mine(p) \subseteq Mine(p)' /\ \A i \in Mine(p) : queue'[i] = queue[i]
          /\ \A i \in Mine(p)' : i \in Mine(p) \/ (i = last /\ queue'[i] = seen[p])
          /\ last \in Mine(p)' /\ queue'[last] = seen[p] /\ \A i \in Mine(p) : i < last
      <4>1. /\ \A r \in Pods : /\ Mine(r) \subseteq Mine(r)'
                               /\ \A i \in Mine(r) : queue'[i] = queue[i]
                               /\ r # q => Mine(r)' = Mine(r)
            /\ \A i \in Mine(q)' : \/ i \in Mine(q)
                                   \/ \E k \in 1..Len(objs) : i = Len(queue) + k /\ queue'[i] = objs[k]
            /\ \A k \in 1..Len(objs) : /\ Len(queue) + k \in Mine(q)'
                                       /\ queue'[Len(queue) + k] = objs[k]
                                       /\ \A i \in Mine(q) : i < Len(queue) + k
        BY <3>1, <3>2, Pushed, Zenon
      <4> QED
        BY <2>4, <3>1, <4>1
    <3>4. Coming(p)'
      BY <2>4, <3>2, <3>3, Zenon DEF Coming
    <3>5. Handled(p)' = Handled(p) /\ InstancesOf(p)' = InstancesOf(p) /\ (Cleaning(p) => Cleaning(p)')
      BY <2>1, Zenon DEF Handled, InstancesOf, Cleaning
    <3>6. Tidy(p)
      BY <1>2, <2>1, <2>4
    <3>7. CASE Clean(p) /\ OnlyCleanUps(p)
      <4>1. Clean(p)' /\ OnlyCleanUps(p)'
        BY <2>1, <2>4, <3>2, <3>3, <3>5, <3>7, Zenon DEF Clean, OnlyCleanUps
      <4> QED
        BY <4>1, Zenon DEF Tidy
    <3>8. CASE budget.faults = 1
      BY <1>1, <2>2, <2>4, <3>4, <3>8, Zenon DEF Tidy
    <3>9. ASSUME NEW i \in Mine(p), queue[i].del PROVE Twice(p)'
      BY <2>4, <3>2, <3>3, <3>9, Zenon DEF Twice
    <3>10. Coming(p) \/ Cleaning(p) => Twice(p)'
      BY <3>4, <3>5, <3>9, Zenon DEF Twice, Coming
    <3> QED
      BY <2>1, <2>2, <2>4, <3>6, <3>7, <3>8, <3>10, Zenon DEF Tidy
  <2> QED
    BY <2>3, <2>4
<1>9. CASE HandleWorkspacePodEvents
  <2> DEFINE e == Head(queue)
  <2>1. /\ UNCHANGED <<life, left, insts, acts, missed>> /\ h = Idle
        /\ queue # <<>> /\ queue' = Tail(queue)
    BY <1>9, Zenon DEF HandleWorkspacePodEvents, podVars, ssm, hist
  <2>2. /\ e.pod \in Pods /\ h' = Dispatch(e)
        /\ h'.pc # "idle" => h'.ev = e /\ h'.pc = IF e.del THEN "instances" ELSE "read"
    BY <1>9, PoppedInLine
  <2>3. /\ e \in PodObject /\ e = queue[1]
        /\ \A i \in Mine(p)' : i + 1 \in Mine(p) /\ queue'[i] = queue[i + 1]
        /\ \A i \in Mine(p) : i # 1 => /\ i - 1 \in Mine(p)' /\ i - 1 \in Nat
                                       /\ queue'[i - 1] = queue[i]
        /\ \A i \in Mine(p) : i = 1 => p = e.pod
        /\ 1 \in Mine(e.pod)
    BY <2>1, Popped, Zenon
  <2>4. ~Handled(p) /\ Tidy(p) /\ ~Cleaning(p)
    <3>1. Idle.pc = "idle"
      BY DEF Idle
    <3> QED
      BY <1>2, <2>1, <3>1 DEF Handled, Cleaning
  <2>5. e.del /\ p = e.pod => Cleaning(p)'
    <3>1. Call("instances", e).pc = "instances" /\ Call("instances", e).ev = e
      BY DEF Call, Idle
    <3>2. e.del => h' = Call("instances", e)
      BY <2>1, <2>2, Zenon DEF Dispatch
    <3> HIDE DEF e
    <3> QED
      BY <3>1, <3>2 DEF Cleaning, Handled
  <2> HIDE DEF e
  <2>6. Coming(p) => Coming(p)' \/ Cleaning(p)'
    <3>1. ASSUME NEW i \in Mine(p), queue[i].del PROVE Coming(p)' \/ Cleaning(p)'
      <4>1. CASE i = 1
        BY <2>3, <2>5, <3>1, <4>1, Zenon
      <4>2. CASE i # 1
        BY <2>3, <3>1, <4>2, Zenon DEF Coming
      <4> QED
        BY <4>1, <4>2
    <3> QED
      BY <3>1, Zenon DEF Coming
  <2>7. ASSUME NEW i \in Mine(p), NEW j \in Mine(p), i < j, queue[i].del, queue[j].del PROVE Twice(p)'
    <3>1. i \in Nat /\ j \in Nat /\ i >= 1 /\ j # 1
      BY <2>7, EventTypes
    <3>2. j - 1 \in Mine(p)' /\ queue'[j - 1].del
      BY <2>3, <2>7, <3>1, Zenon
    <3>3. CASE i = 1
      BY <2>3, <2>5, <2>7, <3>2, <3>3, Zenon DEF Twice, Coming
    <3>4. CASE i # 1
      <4>1. i - 1 \in Mine(p)' /\ queue'[i - 1].del
        BY <2>3, <2>7, <3>4, Zenon
      <4>2. i - 1 < j - 1
        BY <2>7, <3>1
      <4> QED
        BY <3>2, <4>1, <4>2, Zenon DEF Twice
    <3> QED
      BY <3>3, <3>4, Zenon
  <2>8. CASE Clean(p) /\ OnlyCleanUps(p)
    <3>1. Clean(p)'
      BY <2>1, <2>8 DEF Clean, InstancesOf
    <3>2. \A i \in Mine(p)' : queue'[i].del
      BY <2>3, <2>8, Zenon DEF OnlyCleanUps
    <3>3. Handled(p)' => h'.ev.del
      BY <2>2, <2>3, <2>8, Zenon DEF Handled, OnlyCleanUps
    <3> QED
      BY <3>1, <3>2, <3>3, Zenon DEF Tidy, OnlyCleanUps
  <2>9. CASE life[p] = "term" /\ (budget.faults = 1 \/ Coming(p))
    BY <1>1, <2>1, <2>6, <2>9, Zenon DEF Tidy
  <2>10. CASE life[p] = "gone" /\ budget.faults = 1 /\ Coming(p)
    BY <1>1, <2>1, <2>6, <2>10, Zenon DEF Tidy
  <2>11. CASE life[p] = "gone" /\ \E i, j \in Mine(p) : i < j /\ queue[i].del /\ queue[j].del
    BY <2>1, <2>7, <2>11, ZenonT(30) DEF Tidy
  <2> QED
    BY <2>4, <2>8, <2>9, <2>10, <2>11, Zenon DEF Tidy, Twice
<1>10. CASE PodEventHandler /\ ~HandleWorkspacePodEvents
  <2>1. /\ UNCHANGED <<life, left, queue, missed>> /\ h.pc # "idle"
        /\ h' = Idle \/ (h'.pc # "idle" /\ h'.ev = h.ev)
        /\ h.ev.del /\ h.pc = "instances" => CleanupInstances
        /\ h.ev.del /\ h.pc = "activations" => CleanupActivations
        /\ p # h.ev.pod => acts'[p] = acts[p] /\ InstancesOf(p)' = InstancesOf(p)
    BY <1>10, HandlerFrame, Zenon DEF podVars
  <2>2. /\ Tidy(p) /\ life'[p] = life[p] /\ Mine(p)' = Mine(p)
        /\ \A i \in Mine(p) : queue'[i] = queue[i]
    BY <1>2, <2>1 DEF Mine
  <2>3. Idle.pc = "idle"
    BY DEF Idle
  <2>4. Handled(p)' => Handled(p) /\ h'.ev = h.ev
    BY <2>1, <2>3, Zenon DEF Handled
  <2>5. CASE p # h.ev.pod
    <3>1. ~Handled(p) /\ ~Handled(p)' /\ ~Cleaning(p)
      BY <2>4, <2>5 DEF Handled, Cleaning
    <3>2. Clean(p) /\ OnlyCleanUps(p) => Clean(p)' /\ OnlyCleanUps(p)'
      BY <2>1, <2>2, <2>5, <3>1, Zenon DEF Clean, OnlyCleanUps
    <3> QED
      BY <1>Keep, <2>2, <3>1, <3>2, Zenon
  <2>6. CASE p = h.ev.pod /\ ~h.ev.del
    <3>1. ~OnlyCleanUps(p) /\ ~Cleaning(p)
      BY <2>1, <2>6, ZenonT(30) DEF Handled, OnlyCleanUps, Cleaning
    <3> QED
      BY <1>Keep, <2>2, <3>1, Zenon
  <2>7. CASE p = h.ev.pod /\ h.ev.del /\ h.pc = "instances"
    <3>1. PICK o \in Replies : /\ Spend(o)
                              /\ \E kept \in IF o = "ok" THEN {{}} ELSE Kept(InstancesOf(p)) :
                                   insts' = insts \ (InstancesOf(p) \ kept)
      BY <2>1, <2>7, Zenon DEF CleanupInstances
    <3>2. UNCHANGED acts /\ h'.pc = "activations" /\ h'.ev = h.ev
      <4>1. UNCHANGED acts
        BY <2>1, <2>7, Zenon DEF CleanupInstances
      <4> QED
        BY <2>1, <2>7, <4>1, HandlerSteps, Zenon DEF Onward
    <3>3. InstancesOf(p)' \subseteq InstancesOf(p) /\ (o = "ok" => InstancesOf(p)' = {})
      BY <3>1 DEF InstancesOf
    <3>4. o # "ok" => budget'.faults # budget.faults
      <4>1. Charge("faults") => budget'.faults = budget.faults + 1
        BY ZenonT(30) DEF Charge, Raised, TypeOK
      <4> QED
        BY <1>1, <3>1, <4>1 DEF Spend
    <3>5. Cleaning(p)' \/ budget'.faults # budget.faults
      BY <2>7, <3>2, <3>3, <3>4, Zenon DEF Cleaning, Handled
    <3>6. Clean(p) /\ OnlyCleanUps(p) => Clean(p)' /\ OnlyCleanUps(p)'
      BY <2>2, <2>7, <3>2, <3>3 DEF Clean, OnlyCleanUps
    <3> QED
      BY ZenonT(30), <1>Keep, <2>2, <3>5, <3>6
  <2>8. CASE p = h.ev.pod /\ h.ev.del /\ h.pc = "activations"
    <3>1. PICK o \in Replies : /\ Spend(o)
                              /\ \E n \in IF o = "ok" THEN {0} ELSE {0, 1, acts[p]} :
                                   n <= acts[p] /\ acts' = [acts EXCEPT ![p] = n]
      BY <2>1, <2>8, Zenon DEF CleanupActivations
    <3>2. UNCHANGED insts /\ h' = Idle
      BY <2>1, <2>8, Zenon DEF CleanupActivations
    <3>3. InstancesOf(p)' = InstancesOf(p) /\ ~Handled(p)'
      BY <2>3, <3>2 DEF InstancesOf, Handled
    <3>4. \A i \in Mine(p) : queue[i].del
      BY <1>0, <2>1, <2>8, Zenon DEF InLine, Handled, Before
    <3>5. OnlyCleanUps(p)'
      BY <2>2, <3>3, <3>4, ZenonT(30) DEF OnlyCleanUps
    <3>6. acts[p] \in Nat /\ acts'[p] \in Nat /\ acts'[p] <= acts[p] /\ (o = "ok" => acts'[p] = 0)
      BY <1>0, <3>1 DEF TypeOK
    <3>7. CASE Clean(p)
      <4>1. Clean(p)'
        BY <3>1, <3>3, <3>6, <3>7 DEF Clean
      <4> QED
        BY <3>5, <4>1, Zenon DEF Tidy
    <3>8. CASE o = "ok" /\ Cleaning(p)
      <4>1. Clean(p)'
        BY <2>8, <3>1, <3>3, <3>6, <3>8, Zenon DEF Clean, Cleaning
      <4> QED
        BY <3>5, <4>1, Zenon DEF Tidy
    <3>9. o # "ok" => budget'.faults # budget.faults
      <4>1. Charge("faults") => budget'.faults = budget.faults + 1
        BY Zenon DEF Charge, Raised, TypeOK
      <4> QED
        BY <1>1, <3>1, <4>1 DEF Spend
    <3> QED
      BY <1>Keep, <2>2, <3>7, <3>8, <3>9, Zenon
  <2> QED
    BY <1>0, <2>1, <2>5, <2>6, <2>7, <2>8 DEF InLine, Handled
<1>11. CASE Crash
  <2>1. /\ UNCHANGED <<life, left, insts, acts, seen>> /\ h' = Idle
        /\ missed' = missed \cup {q \in Pods : life[q] = "gone" /\ Pending(q)}
    BY <1>11, Zenon DEF Crash, podVars, ssm
  <2>2. /\ life[p] = "term" => Mine(p)' # {}
        /\ life[p] = "gone" => Mine(p)' = {}
        /\ \A i \in Mine(p)' : queue'[i] = seen[p]
    BY <1>11, Zenon DEF Listed
  <2>3. ~Handled(p)'
    BY <2>1 DEF Handled, Idle
  <2>4. CASE life[p] = "term"
    <3>1. Coming(p)'
      <4>1. seen[p].del
        BY <1>Objects, <2>4
      <4> QED
        BY <2>2, <2>4, <4>1, Zenon DEF Coming
    <3> QED
      BY <2>1, <2>4, <3>1, Zenon DEF Tidy
  <2>5. CASE life[p] = "gone"
    <3>1. ~Pending(p) /\ Tidy(p)
      BY <1>2, <2>1, <2>5
    <3>2. ~Handled(p) /\ Mine(p) = {}
      BY <3>1, Zenon DEF Pending, Handled, Mine
    <3>3. Clean(p)
      BY <2>5, <3>1, <3>2, Zenon DEF Tidy, Twice, Coming, Cleaning
    <3>4. Clean(p)' /\ OnlyCleanUps(p)'
      BY <2>1, <2>2, <2>3, <2>5, <3>3, Zenon DEF Clean, OnlyCleanUps, InstancesOf
    <3> QED
      BY <3>4, Zenon DEF Tidy
  <2> QED
    BY <2>1, <2>4, <2>5
<1> QED
  BY <1>3, <1>4, <1>5, <1>6, <1>7, <1>8, <1>9, <1>10, <1>11, Zenon DEF Next, Kubernetes
-----------------------------------------------------------------------------
\* Counts that do not fall.
LEMMA Through == \A a, b, c \in Nat : a <= b /\ b <= c => a <= c
OBVIOUS

\* Restart counts only grow from the event being handled to the container.
LEMMA Counts ==
  ASSUME TypeOK, Events, NEW p \in Pods
  PROVE  /\ side[p].n \in Nat /\ main[p].n \in Nat /\ seen[p].side.n \in Nat /\ seen[p].main.n \in Nat
         /\ seen[p].side.n <= side[p].n /\ seen[p].main.n <= main[p].n
         /\ \A i \in Mine(p) : queue[i].side.n \in Nat /\ queue[i].main.n \in Nat
         /\ Handled(p) =>
              /\ h.ev.side.n \in Nat /\ h.ev.main.n \in Nat
              /\ h.ev.side.n <= seen[p].side.n /\ h.ev.main.n <= seen[p].main.n
              /\ \A i \in Mine(p) : h.ev.side.n <= queue[i].side.n /\ h.ev.main.n <= queue[i].main.n
              /\ ~h.ev.main.up /\ main[p].up => main[p].n # h.ev.main.n
              /\ life[p] = "up" => ~h.ev.del
<1>1. Reported(p) /\ InLine(p)
  BY DEF Events
<1>2. \A x \in PodObject : /\ x.side \in Container /\ x.main \in Container
                           /\ x.side.n \in Nat /\ x.main.n \in Nat
  BY ZenonT(30) DEF PodObject, Container
<1>3. /\ seen[p] \in PodObject /\ side[p] \in Container /\ main[p] \in Container
      /\ \A i \in Mine(p) : queue[i] \in PodObject
      /\ Handled(p) => h.ev \in PodObject
  BY EventTypes
<1>4. side[p].n \in Nat /\ main[p].n \in Nat
  BY <1>3 DEF Container
<1>5. seen[p].side.n <= side[p].n /\ seen[p].main.n <= main[p].n
  BY <1>1, Zenon DEF Reported, Since
<1>6. ASSUME Handled(p)
      PROVE  /\ h.ev.side.n <= seen[p].side.n /\ h.ev.main.n <= seen[p].main.n
             /\ \A i \in Mine(p) : h.ev.side.n <= queue[i].side.n /\ h.ev.main.n <= queue[i].main.n
             /\ ~h.ev.main.up /\ main[p].up => main[p].n # h.ev.main.n
             /\ life[p] = "up" => ~h.ev.del
  <2>1. Before(h.ev, seen[p]) /\ \A i \in Mine(p) : Before(h.ev, queue[i])
    BY <1>1, <1>6, Zenon DEF InLine
  <2>2. Since(h.ev.main, main[p])
    <3>1. Since(h.ev.main, seen[p].main) /\ Since(seen[p].main, main[p])
      BY <1>1, <2>1, Zenon DEF Before, Reported
    <3>2. h.ev.main \in Container /\ seen[p].main \in Container
      BY <1>2, <1>3, <1>6
    <3>3. \A c, d, e \in Container : Since(c, d) /\ Since(d, e) => Since(c, e)
      BY Orders
    <3> QED
      BY <1>3, <3>1, <3>2, <3>3
  <2>3. ~h.ev.main.up /\ main[p].up => main[p].n # h.ev.main.n
    <3>1. h.ev.main.n \in Nat
      BY <1>2, <1>3, <1>6, Zenon
    <3> QED
      BY <1>4, <2>2, <3>1 DEF Since
  <2>4. life[p] = "up" => ~h.ev.del
    BY <1>1, <2>1 DEF Before, Reported
  <2> QED
    BY <2>1, <2>3, <2>4, Zenon DEF Before, Since
<1> QED
  BY <1>2, <1>3, <1>4, <1>5, <1>6

\* A step of a set-up: what it has done is so, and the state file does not say more.
LEMMA SetUpStep ==
  ASSUME TypeOK, Events, NEW p \in Pods, Truthful(p), Advanced(p), Handled(p), life[p] = "up",
         PodEventHandler, ~HandleWorkspacePodEvents, p \notin spoiled'
  PROVE  Truthful(p)' /\ Advanced(p)' /\ Served(p)'
<1>0. h \in HandlerType /\ h.ev.pod = p /\ h.pc # "idle" /\ h.s \in BOOLEAN /\ h.m \in BOOLEAN
  BY ZenonT(30) DEF TypeOK, HandlerType, Handled
<1>1. /\ h.ev.side.n \in Nat /\ h.ev.main.n \in Nat
      /\ h.ev.side.n <= seen[p].side.n /\ h.ev.main.n <= seen[p].main.n
      /\ \A i \in Mine(p) : h.ev.side.n <= queue[i].side.n /\ h.ev.main.n <= queue[i].main.n
      /\ ~h.ev.main.up /\ main[p].up => main[p].n # h.ev.main.n
      /\ ~h.ev.del
  BY Counts
<1>2. UNCHANGED <<life, side, main, seen, left, queue>> /\ (h' = Idle \/ (h'.pc # "idle" /\ h'.ev = h.ev))
  BY HandlerFrame, Zenon DEF podVars
<1>3. h.ev = seen[p] \/ Mine(p) # {}
  BY Zenon DEF Events, InLine
<1>4. PICK s, m : s = h.ev.side.n /\ m = h.ev.main.n
  BY Zenon
<1>5. /\ Mine(p)' = Mine(p) /\ (Handled(p)' => h'.ev = h.ev)
      /\ Pending(p)' <=> Handled(p)' \/ Mine(p) # {}
  <2>1. Mine(p)' = Mine(p) /\ (Handled(p)' => h'.ev = h.ev)
    BY <1>2 DEF Mine, Handled, Idle
  <2>2. Pending(p)' <=> Handled(p)' \/ Mine(p)' # {}
    BY Zenon DEF Pending, Handled, Mine
  <2> QED
    BY <2>1, <2>2, Zenon
<1>6. Reached(p, s, m)' /\ \A a, b : Reached(p, a, b) => Reached(p, a, b)'
  <2>1. /\ seen'[p] = seen[p] /\ Mine(p)' = Mine(p) /\ (Handled(p)' => h'.ev = h.ev)
        /\ \A i \in Mine(p) : queue'[i] = queue[i]
    BY <1>2, <1>5, Zenon
  <2>2. \A a, b : Reached(p, a, b) => Reached(p, a, b)'
    BY <2>1, ZenonT(30) DEF Reached
  <2>3. Reached(p, s, m)
    BY <1>1, <1>4 DEF Reached
  <2> QED
    BY <2>2, <2>3
<1>7. \A n : /\ agent'[p] = agent[p] /\ insts' = insts => (SideDone(p, n)' <=> SideDone(p, n))
             /\ server'[p] = server[p] => (MainDone(p, n)' <=> MainDone(p, n))
  BY <1>2, Zenon DEF SideDone, MainDone, Enrolled
<1>8. \A b : State(b).kind = "state" /\ State(b).s = s /\ State(b).m = m /\ State(b).busy = b
  BY <1>4, Zenon DEF State
<1>9. file \in [Pods -> FileType]
  BY DEF TypeOK, FileType
\* The set-up goes on.
<1>Go. ASSUME NEW pc, Onward(pc), pc \notin {"idle", "read"}, file'[p] \in {file[p], State(TRUE)},
              pc \in {"instances", "activations", "activate", "register", "marker"} => h.s,
              pc \in {"marker", "server", "final"} \/ ~h.s => SideDone(p, s)',
              pc = "final" \/ ~h.m => MainDone(p, m)'
       PROVE  Truthful(p)' /\ Advanced(p)' /\ Served(p)'
  <2>1. Handled(p)' /\ Busy(p)' /\ Pending(p)'
    BY <1>0, <1>5, <1>Go DEF Onward, Handled, Busy
  <2>2. Served(p)'
    BY <2>1, Zenon DEF Served
  <2>3. h'.pc = pc /\ h'.s = h.s /\ h'.m = h.m /\ h'.ev.side.n = s /\ h'.ev.main.n = m
    BY <1>4, <1>Go DEF Onward
  <2>4. Advanced(p)'
    BY <1>Go, <2>3, Zenon DEF Advanced
  <2>5. ASSUME file'[p] = file[p] PROVE Truthful(p)'
    <3>1. PICK a, b : a = file[p].s /\ b = file[p].m
      OBVIOUS
    <3>2. file[p].kind = "state" => Reached(p, a, b)'
      BY <1>6, <3>1, Zenon DEF Truthful
    <3>3. /\ file'[p] \in {NoFile, Damaged} \/ file'[p].kind = "state"
          /\ file'[p].kind = file[p].kind /\ a = file'[p].s /\ b = file'[p].m
      BY <2>5, <3>1, Zenon DEF Truthful
    <3> QED
      BY <2>1, <3>2, <3>3, Zenon DEF Truthful
  <2>6. ASSUME file'[p] = State(TRUE) PROVE Truthful(p)'
    <3>1. file'[p].kind = "state" /\ s = file'[p].s /\ m = file'[p].m
      BY <1>8, <2>6, Zenon
    <3> QED
      BY <1>6, <2>1, <3>1, Zenon DEF Truthful
  <2> QED
    BY <1>Go, <2>2, <2>4, <2>5, <2>6, Zenon
<1>Done. h.pc \in {"marker", "server", "final"} \/ ~h.s => (h.pc # "read" => SideDone(p, s))
  BY <1>4, Zenon DEF Advanced, Busy
<1>Began. ~h.m \/ h.pc = "final" => (h.pc # "read" => MainDone(p, m))
  BY <1>4, Zenon DEF Advanced, Busy
<1>Side. h.pc \in {"instances", "activations", "activate", "register", "marker"} => h.s
  BY Zenon DEF Advanced, Busy
<1>NotFails. ~Fails
  BY <1>0 DEF Fails
<1>10. CASE MarkInProgress
  <2>1. h.pc = "mark" /\ Onward(IF ~h.s THEN "server" ELSE IF h.clean THEN "instances" ELSE "activate")
    BY <1>10, HandlerSteps, Zenon
  <2>2. UNCHANGED <<agent, server, insts>>
    BY <1>10, Zenon DEF MarkInProgress, ssm
  <2>3. file'[p] \in {file[p], State(TRUE)}
    <3>1. file' = [file EXCEPT ![p] = State(TRUE)] \/ file' = file
      BY <1>0, <1>10, Zenon DEF MarkInProgress, WriteState
    <3> QED
      BY <1>9, <3>1, Zenon
  <2>4. \A n : SideDone(p, n)' <=> SideDone(p, n)
    BY <1>7, <2>2, Zenon
  <2>5. \A n : MainDone(p, n)' <=> MainDone(p, n)
    BY <1>7, <2>2, Zenon
  <2>6. ~h.m => MainDone(p, m)'
    BY <1>Began, <2>1, <2>5
  <2>7. CASE ~h.s
    <3>1. SideDone(p, s)' /\ Onward("server")
      BY <1>Done, <2>1, <2>4, <2>7
    <3> QED
      BY <1>Go, <2>3, <2>6, <3>1, Zenon
  <2>8. CASE h.s /\ h.clean
    <3>1. Onward("instances")
      BY <2>1, <2>8
    <3> QED
      BY <1>Go, <2>3, <2>6, <2>8, <3>1, Zenon
  <2>9. CASE h.s /\ ~h.clean
    <3>1. Onward("activate")
      BY <2>1, <2>9
    <3> QED
      BY <1>Go, <2>3, <2>6, <2>9, <3>1, Zenon
  <2> QED
    BY <2>7, <2>8, <2>9
<1>11. CASE CleanupInstances \/ CleanupActivations \/ CreateSSMActivation
  <2>1. UNCHANGED <<server, file>>
    BY <1>11, Zenon DEF CleanupInstances, CleanupActivations, CreateSSMActivation, inPod
  <2>2. PICK pc \in {"activations", "activate", "register"} : Onward(pc)
    BY <1>1, <1>11, <1>NotFails, HandlerSteps, ZenonT(30)
  <2>3. h.s /\ h.pc # "read"
    BY <1>11, <1>Side, HandlerSteps
  <2>4. ~h.m => MainDone(p, m)'
    BY ZenonT(30), <1>7, <1>Began, <2>1, <2>3
  <2> QED
    BY Zenon, <1>Go, <2>1, <2>2, <2>3, <2>4
<1>12. CASE RegisterAgent
  <2>1. UNCHANGED <<server, file>>
    BY <1>12, Zenon DEF RegisterAgent
  <2>2. Onward("marker") /\ h.pc = "register"
    BY <1>12, <1>NotFails, HandlerSteps, Zenon
  <2>3. h.s
    BY <1>Side, <2>2
  <2>4. ~h.m => MainDone(p, m)'
    BY Zenon, <1>7, <1>Began, <2>1, <2>2
  <2>5. PICK o \in Replies :
          /\ IF Effect(p, side, o)
             THEN /\ insts' = insts \cup {[pod |-> p, id |-> Len(sess) + 1]}
                  /\ agent' = [agent EXCEPT ![p] = Len(sess) + 1]
             ELSE TRUE
          /\ Proceed(Succeeds(p, side, o), "marker")
    BY <1>0, <1>12, Zenon DEF RegisterAgent
  <2>6. Effect(p, side, o)
    BY <1>0, <2>5, Zenon DEF Proceed, Succeeds, Effect
  <2>7. agent \in [Pods -> Nat]
    BY DEF TypeOK
  <2>8. Enrolled(p)'
    BY <2>5, <2>6, <2>7 DEF Enrolled
  <2>9. SideDone(p, s)'
    BY <2>8, Zenon DEF SideDone
  <2> QED
    BY <1>Go, <2>1, <2>2, <2>3, <2>4, <2>9, Zenon
<1>13. CASE CreateMarkerFile
  <2>1. UNCHANGED <<server, file, agent, insts>>
    BY <1>13, Zenon DEF CreateMarkerFile, inPod, ssm
  <2>2. Onward(IF h.m THEN "server" ELSE "final") /\ h.pc = "marker"
    BY <1>13, <1>NotFails, HandlerSteps, ZenonT(30)
  <2>3. SideDone(p, s)'
    BY <1>7, <1>Done, <2>1, <2>2, Zenon
  <2>4. ~h.m => MainDone(p, m)'
    BY <1>7, <1>Began, <2>1, <2>2
  <2>5. CASE h.m
    <3>1. Onward("server")
      BY <2>2, <2>5
    <3> QED
      BY <1>Go, <2>1, <2>3, <2>5, <3>1, Zenon
  <2>6. CASE ~h.m
    <3>1. Onward("final")
      BY <2>2, <2>6
    <3> QED
      BY ZenonT(30), <1>Go, <2>1, <2>3, <2>4, <2>6, <3>1
  <2> QED
    BY <2>5, <2>6
<1>14. CASE StartRemoteAccessServer
  <2>1. UNCHANGED <<file, agent, insts>>
    BY <1>14, Zenon DEF StartRemoteAccessServer, ssm
  <2>2. Onward("final") /\ h.pc = "server"
    BY <1>14, <1>NotFails, HandlerSteps, Zenon
  <2>3. SideDone(p, s)'
    BY <1>7, <1>Done, <2>1, <2>2, Zenon
  <2>4. MainDone(p, m)'
    <3>1. CASE ~h.ev.main.up
      BY <1>1, <1>2, <1>4, <3>1 DEF MainDone
    <3>2. CASE h.ev.main.up
      <4>1. PICK o \in Replies :
              /\ server' = IF Effect(p, main, o) THEN [server EXCEPT ![p] = @ + 1] ELSE server
              /\ Proceed(Succeeds(p, main, o), "final")
        BY <1>0, <1>14, <3>2, Zenon DEF StartRemoteAccessServer
      <4>2. Effect(p, main, o)
        BY <1>0, <4>1, Zenon DEF Proceed, Succeeds, Effect
      <4>3. server \in [Pods -> Nat]
        BY DEF TypeOK
      <4>4. server'[p] > 0
        BY <4>1, <4>2, <4>3
      <4> QED
        BY <4>4, Zenon DEF MainDone
    <3> QED
      BY <3>1, <3>2, Zenon
  <2> QED
    BY <1>Go, <2>1, <2>2, <2>3, <2>4, Zenon
<1>15. CASE ReadRegistrationState
  <2>1. h.pc = "read" /\ UNCHANGED <<file, agent, server, insts>>
    BY <1>15, Zenon DEF ReadRegistrationState, inPod, ssm
  <2>2. PICK f \in {file[p], NoFile} : h' = Decide(f)
    BY <1>0, <1>15, Zenon DEF ReadRegistrationState
  <2>3. PICK a, b, c : a = file[p].s /\ b = file[p].m /\ c = file[p].busy
    BY Zenon
  <2>4. ~Busy(p)
    BY <2>1 DEF Busy
  <2>5. /\ file[p] \in {NoFile, Damaged} \/ file[p].kind = "state"
        /\ file[p].kind = "state" => /\ Reached(p, a, b) /\ Reached(p, a, b)'
                                     /\ ~c /\ SideDone(p, a) /\ MainDone(p, b)
    BY <1>6, <2>3, <2>4, Zenon DEF Truthful
  <2>6. \A n : (SideDone(p, n)' <=> SideDone(p, n)) /\ (MainDone(p, n)' <=> MainDone(p, n))
    BY <1>7, <2>1
  <2>7. Truthful(p)'
    <3>1. file'[p] = file[p] /\ a = file'[p].s /\ b = file'[p].m /\ c = file'[p].busy
      BY <2>1, <2>3
    <3>2. /\ file'[p] \in {NoFile, Damaged} \/ file'[p].kind = "state"
          /\ file'[p].kind = "state" => Reached(p, a, b)' /\ ~c /\ SideDone(p, a)' /\ MainDone(p, b)'
      BY <2>5, <2>6, <3>1, Zenon
    <3> QED
      BY <3>1, <3>2, Zenon DEF Truthful
  \* A sidecar or workspace container that is not set up again is set up already.
  <2>8. \/ h' = Idle /\ SideDone(p, s)' /\ MainDone(p, m)'
        \/ /\ h'.pc = "mark" /\ h'.ev = h.ev
           /\ ~h'.s => SideDone(p, s)'
           /\ ~h'.m => MainDone(p, m)'
    <3>1. CASE f = NoFile \/ f = Damaged
      <4>1. h'.pc = "mark" /\ h'.ev = h.ev /\ h'.s = TRUE /\ h'.m = TRUE
        BY <1>0, <2>2, <3>1 DEF Decide, HandlerType
      <4> QED
        BY <4>1
    <3>2. CASE f # NoFile /\ f # Damaged
      <4>1. f = file[p] /\ file[p].kind = "state"
        BY Zenon, <2>2, <2>5, <3>2
      <4>2. a \in Nat /\ b \in Nat /\ a <= s /\ b <= m
        <5>1. a \in Nat /\ b \in Nat
          BY <1>9, <2>3 DEF FileType
        <5>2. a <= s /\ b <= m
          BY <1>4, <2>5, <4>1, ZenonT(30) DEF Reached
        <5> QED
          BY <5>1, <5>2
      <4>3. s \in Nat /\ m \in Nat
        BY <1>1, <1>4
      <4>4. h' = IF ~(s > a) /\ ~(m > b) THEN Idle
                 ELSE [h EXCEPT !.pc = "mark", !.s = s > a, !.m = m > b, !.clean = s > a]
        BY <1>4, <2>2, <2>3, <2>5, <3>2, <4>1 DEF Decide
      <4>5. ~(s > a) => SideDone(p, s)'
        <5>1. ~(s > a) => s = a
          BY <4>2, <4>3
        <5> QED
          BY <2>5, <2>6, <4>1, <5>1, Zenon
      <4>6. ~(m > b) => MainDone(p, m)'
        <5>1. ~(m > b) => m = b
          BY <4>2, <4>3
        <5> QED
          BY <2>5, <2>6, <4>1, <5>1, Zenon
      <4>7. \/ ~(s > a) /\ ~(m > b) /\ h' = Idle
            \/ h'.pc = "mark" /\ h'.ev = h.ev /\ h'.s = (s > a) /\ h'.m = (m > b)
        BY <1>0, <4>4 DEF HandlerType
      <4> QED
        BY <4>5, <4>6, <4>7, Zenon
    <3> QED
      BY <3>1, <3>2, ZenonT(30)
  <2>9. CASE h' = Idle /\ SideDone(p, s)' /\ MainDone(p, m)'
    <3>1. ~Handled(p)' /\ ~Busy(p)'
      BY <2>9, Zenon DEF Handled, Busy, Idle
    <3>2. ~Pending(p)' => s = seen'[p].side.n /\ m = seen'[p].main.n
      BY <1>2, <1>3, <1>4, <1>5, Zenon
    <3> QED
      BY <2>7, <2>9, <3>1, <3>2, Zenon DEF Advanced, Served
  <2>10. CASE /\ h'.pc = "mark" /\ h'.ev = h.ev
              /\ ~h'.s => SideDone(p, s)'
              /\ ~h'.m => MainDone(p, m)'
    <3>1. Pending(p)' /\ s = h'.ev.side.n /\ m = h'.ev.main.n
      BY ZenonT(30), <1>0, <1>4, <1>5, <2>10 DEF Handled
    <3>2. h'.pc \notin {"instances", "activations", "activate", "register", "marker", "server", "final"}
      BY <2>10
    <3>3. Advanced(p)'
      BY <2>10, <3>1, <3>2, Zenon DEF Advanced
    <3> QED
      BY <2>7, <3>1, <3>3, Zenon DEF Served
  <2> QED
    BY <2>8, <2>9, <2>10, Zenon
<1>16. CASE WriteFinalState
  <2>1. h.pc = "final" /\ h' = Idle /\ UNCHANGED <<agent, server, insts>>
    BY <1>16, Zenon DEF WriteFinalState, ssm
  <2>2. file' = [file EXCEPT ![p] = State(FALSE)]
    <3>1. PICK o : Final(p, o) /\ spoiled' = IF Effect(p, side, o) THEN spoiled ELSE spoiled \cup {p}
      BY <1>0, <1>16, Zenon DEF WriteFinalState
    <3>2. Effect(p, side, o)
      BY <3>1
    <3> QED
      BY <3>1, <3>2 DEF Final, WriteState
  <2>3. file'[p].kind = "state" /\ s = file'[p].s /\ m = file'[p].m /\ file'[p].busy = FALSE
    BY <1>8, <1>9, <2>2, Zenon
  <2>4. SideDone(p, s)' /\ MainDone(p, m)'
    BY <1>7, <1>Done, <1>Began, <2>1, Zenon
  <2>5. Truthful(p)'
    BY <1>6, <2>3, <2>4, Zenon DEF Truthful
  <2>6. ~Handled(p)' /\ ~Busy(p)'
    BY <2>1, Zenon DEF Handled, Busy, Idle
  <2>7. ~Pending(p)' => s = seen'[p].side.n /\ m = seen'[p].main.n
    BY <1>2, <1>3, <1>4, <1>5
  <2> QED
    BY <2>4, <2>5, <2>6, <2>7, Zenon DEF Advanced, Served
<1> QED
  BY <1>10, <1>11, <1>12, <1>13, <1>14, <1>15, <1>16, Zenon DEF PodEventHandler

\* An event is pending while it is queued or handled.
LEMMA PendingIs ==
  ASSUME NEW p \in Pods
  PROVE  /\ Pending(p) <=> Handled(p) \/ Mine(p) # {}
         /\ Pending(p)' <=> Handled(p)' \/ Mine(p)' # {}
BY Zenon DEF Pending, Handled, Mine

\* Nothing happens to p but to its containers.
LEMMA ServingKept ==
  ASSUME TypeOK, Events, NEW p \in Pods, Truthful(p), Advanced(p), Served(p),
         file'[p] = file[p], seen'[p] = seen[p],
         Mine(p)' = Mine(p), \A i \in Mine(p) : queue'[i] = queue[i],
         Handled(p)' <=> Handled(p), Handled(p) => h' = h,
         \A n \in Nat : n <= side[p].n /\ SideDone(p, n) => SideDone(p, n)',
         \A n \in Nat : n <= main[p].n /\ MainDone(p, n) => MainDone(p, n)'
  PROVE  Truthful(p)' /\ Advanced(p)' /\ Served(p)'
<1>1. Busy(p)' <=> Busy(p)
  BY Zenon DEF Busy
<1>2. \A s, m : Reached(p, s, m) => Reached(p, s, m)'
  BY Zenon DEF Reached
<1>3. /\ side[p].n \in Nat /\ main[p].n \in Nat /\ seen[p].side.n \in Nat /\ seen[p].main.n \in Nat
      /\ seen[p].side.n <= side[p].n /\ seen[p].main.n <= main[p].n
      /\ Handled(p) => /\ h.ev.side.n \in Nat /\ h.ev.main.n \in Nat
                       /\ h.ev.side.n <= seen[p].side.n /\ h.ev.main.n <= seen[p].main.n
  BY Counts, Zenon
<1>4. Handled(p) => h.ev.side.n <= side[p].n /\ h.ev.main.n <= main[p].n
  BY <1>3, Through, Zenon
<1>5. ASSUME file[p].kind = "state"
      PROVE  /\ file[p].s \in Nat /\ file[p].m \in Nat
             /\ file[p].s <= side[p].n /\ file[p].m <= main[p].n
  <2>1. file[p].s \in Nat /\ file[p].m \in Nat
    BY Zenon DEF TypeOK
  <2>2. file[p].s <= seen[p].side.n /\ file[p].m <= seen[p].main.n
    BY <1>5, Zenon DEF Truthful, Reached
  <2> QED
    BY <1>3, <2>1, <2>2, Through, Zenon
<1>6. Truthful(p)'
  <2>1. PICK s, m, b : s = file[p].s /\ m = file[p].m /\ b = file[p].busy
    BY Zenon
  <2>2. file[p].kind = "state" =>
          /\ Reached(p, s, m)'
          /\ ~Busy(p)' => ~b /\ SideDone(p, s)' /\ MainDone(p, m)'
    BY <1>1, <1>2, <1>5, <2>1, Zenon DEF Truthful
  <2>3. s = file'[p].s /\ m = file'[p].m /\ b = file'[p].busy /\ file'[p].kind = file[p].kind
    BY <2>1, Zenon
  <2>4. file'[p] \in {NoFile, Damaged} \/ file'[p].kind = "state"
    BY Zenon DEF Truthful
  <2> QED
    BY <2>2, <2>3, <2>4, Zenon DEF Truthful
<1>7. Advanced(p)'
  <2>1. PICK s, m : Handled(p) => s = h.ev.side.n /\ m = h.ev.main.n
    BY Zenon
  <2>2. Busy(p) =>
          /\ h.pc \in {"instances", "activations", "activate", "register", "marker"} => h.s
          /\ h.pc \in {"marker", "server", "final"} \/ ~h.s => SideDone(p, s)
          /\ h.pc = "final" \/ ~h.m => MainDone(p, m)
    BY <2>1, Zenon DEF Advanced, Busy
  <2>3. Busy(p) =>
          /\ h.pc \in {"instances", "activations", "activate", "register", "marker"} => h.s
          /\ h.pc \in {"marker", "server", "final"} \/ ~h.s => SideDone(p, s)'
          /\ h.pc = "final" \/ ~h.m => MainDone(p, m)'
    BY <1>3, <1>4, <2>1, <2>2, Zenon DEF Busy
  <2>4. Busy(p)' => Busy(p) /\ h' = h /\ s = h'.ev.side.n /\ m = h'.ev.main.n
    BY Zenon, <1>1, <2>1 DEF Busy
  <2> QED
    BY <2>3, <2>4, Zenon DEF Advanced
<1>8. Served(p)'
  <2>1. PICK s, m : s = seen[p].side.n /\ m = seen[p].main.n
    BY Zenon
  <2>2. ~Pending(p) /\ seen[p].side.up => SideDone(p, s)' /\ MainDone(p, m)'
    BY <1>3, <2>1, Zenon DEF Served
  <2>3. Pending(p)' <=> Pending(p)
    BY PendingIs, Zenon
  <2>4. s = seen'[p].side.n /\ m = seen'[p].main.n /\ seen'[p] = seen[p]
    BY <2>1, Zenon
  <2> QED
    BY <2>2, <2>3, <2>4, Zenon DEF Served
<1> QED
  BY <1>6, <1>7, <1>8, Zenon

\* A container dies or comes up again, with a restart count not seen before: what was
\* done for the counts so far stays done.
LEMMA Restarted ==
  ASSUME TypeOK, NEW p \in Pods, NEW q \in Pods, SidecarDown(q) \/ MainDown(q) \/ Containers(q)
  PROVE  /\ UNCHANGED <<queue, h, insts, life, seen, file, spoiled>>
         /\ \A n \in Nat : n <= side[p].n /\ SideDone(p, n) => SideDone(p, n)'
         /\ \A n \in Nat : n <= main[p].n /\ MainDone(p, n) => MainDone(p, n)'
<1>Types. /\ side \in [Pods -> Container] /\ main \in [Pods -> Container]
          /\ side[p] \in Container /\ main[p] \in Container /\ side[p].n \in Nat /\ main[p].n \in Nat
          /\ agent \in [Pods -> Nat] /\ server \in [Pods -> Nat]
  BY Zenon DEF TypeOK, Container
<1>1. UNCHANGED <<queue, h, insts, life, seen, file, spoiled>>
  BY Zenon DEF SidecarDown, MainDown, Containers, SidecarUp, MainUp, inPod, ssm, hist
<1>3. \/ side'[p] = side[p] /\ agent'[p] = agent[p]
      \/ side'[p].up = FALSE
      \/ side'[p].n = side[p].n + 1
  <2>1. CASE SidecarDown(q)
    <3>1. q # p => side'[p] = side[p] /\ agent'[p] = agent[p]
      BY <1>Types, <2>1 DEF SidecarDown
    <3>2. q = p => side'[p] = [side[p] EXCEPT !.up = FALSE]
      BY <1>Types, <2>1 DEF SidecarDown
    <3>3. \A c \in Container : [c EXCEPT !.up = FALSE].up = FALSE
      BY Zenon DEF Container
    <3> QED
      BY <1>Types, <3>1, <3>2, <3>3, Zenon
  <2>2. CASE SidecarUp(q)
    BY <1>Types, <2>2 DEF SidecarUp, inPod
  <2>3. CASE MainDown(q) \/ MainUp(q)
    BY <2>3 DEF MainDown, MainUp, inPod
  <2> QED
    BY <2>1, <2>2, <2>3, Zenon DEF Containers
<1>4. \/ main'[p] = main[p] /\ server'[p] = server[p]
      \/ main'[p].up = FALSE
      \/ main'[p].n = main[p].n + 1
  <2>1. CASE MainDown(q)
    <3>1. q # p => main'[p] = main[p] /\ server'[p] = server[p]
      BY <1>Types, <2>1 DEF MainDown
    <3>2. q = p => main'[p] = [main[p] EXCEPT !.up = FALSE]
      BY <1>Types, <2>1, Zenon DEF MainDown
    <3>3. \A c \in Container : [c EXCEPT !.up = FALSE].up = FALSE
      BY DEF Container
    <3> QED
      BY <1>Types, <3>1, <3>2, <3>3, Zenon
  <2>2. CASE MainUp(q)
    BY <1>Types, <2>2 DEF MainUp, inPod
  <2>3. CASE SidecarDown(q) \/ SidecarUp(q)
    BY <2>3, Zenon DEF SidecarDown, SidecarUp, inPod
  <2> QED
    BY <2>1, <2>2, <2>3, Zenon DEF Containers
<1>5. \A n \in Nat : n <= side[p].n /\ SideDone(p, n) => SideDone(p, n)'
  <2>1. agent'[p] = agent[p] => (Enrolled(p)' <=> Enrolled(p))
    BY <1>1, Zenon DEF Enrolled
  <2> QED
    BY <1>Types, <1>3, <2>1 DEF SideDone
<1>6. \A n \in Nat : n <= main[p].n /\ MainDone(p, n) => MainDone(p, n)'
  BY <1>Types, <1>4 DEF MainDone
<1> QED
  BY <1>1, <1>5, <1>6, Zenon

\* An event about p itself: there is one to handle.
LEMMA Told ==
  ASSUME TypeOK, NEW p \in Pods, NEW objs \in Seq(PodObject), Notify(objs),
         \A k \in 1..Len(objs) : objs[k].pod = p, Len(objs) \in Nat \ {0}
  PROVE  /\ Pending(p)' /\ \A i \in Mine(p) : queue'[i] = queue[i]
         /\ \A i \in Mine(p)' : i \in Mine(p) \/ \E k \in 1..Len(objs) : queue'[i] = objs[k]
<1>1. 1 \in 1..Len(objs)
  OBVIOUS
<1>2. /\ \A r \in Pods : /\ Mine(r) \subseteq Mine(r)'
                         /\ \A i \in Mine(r) : queue'[i] = queue[i]
                         /\ r # p => Mine(r)' = Mine(r)
      /\ \A i \in Mine(p)' : \/ i \in Mine(p)
                             \/ \E k \in 1..Len(objs) : i = Len(queue) + k /\ queue'[i] = objs[k]
      /\ \A k \in 1..Len(objs) : /\ Len(queue) + k \in Mine(p)'
                                 /\ queue'[Len(queue) + k] = objs[k]
                                 /\ \A i \in Mine(p) : i < Len(queue) + k
  BY Pushed, Zenon DEF Notify
<1>3. Mine(p)' # {}
  BY <1>1, <1>2, Zenon
<1> QED
  BY PendingIs, <1>2, <1>3, Zenon

\* The objects of one and of two events about q.
LEMMA EventObjects ==
  ASSUME TypeOK, Events, NEW q \in Pods
  PROVE  /\ seen[q] \in PodObject /\ seen[q].pod = q
         /\ LET objs == <<seen[q]>>
            IN  /\ objs \in Seq(PodObject) /\ Len(objs) \in Nat \ {0}
                /\ \A k \in 1..Len(objs) : objs[k].pod = q
         /\ \A y \in PodObject : y.pod = q =>
              LET objs == <<seen[q], y>>
              IN  /\ objs \in Seq(PodObject) /\ Len(objs) \in Nat \ {0}
                  /\ \A k \in 1..Len(objs) : objs[k].pod = q /\ objs[k] \in {seen[q], y}
<1>1. seen[q] \in PodObject /\ seen[q].pod = q
  <2>1. seen[q] \in PodObject
    BY EventTypes
  <2>2. seen[q].pod = q
    BY Zenon DEF Events, Reported
  <2> QED
    BY <2>1, <2>2, Zenon
<1>2. ASSUME NEW y \in PodObject, y.pod = q
      PROVE  LET objs == <<seen[q], y>>
             IN  /\ objs \in Seq(PodObject) /\ Len(objs) \in Nat \ {0}
                 /\ \A k \in 1..Len(objs) : objs[k].pod = q /\ objs[k] \in {seen[q], y}
  BY <1>1, <1>2
<1>3. LET objs == <<seen[q]>>
      IN  /\ objs \in Seq(PodObject) /\ Len(objs) \in Nat \ {0}
          /\ \A k \in 1..Len(objs) : objs[k].pod = q
  BY <1>1
<1> QED
  BY <1>1, <1>2, <1>3, Zenon

\* The informer sees what became of p's containers.
LEMMA ServingReported ==
  ASSUME TypeOK, Events, NEW p \in Pods, Truthful(p), Advanced(p), Report(p)
  PROVE  Truthful(p)' /\ Advanced(p)' /\ Served(p)'
<1>1. /\ Notify(<<seen[p], Object(p)>>) /\ UNCHANGED <<h, insts, life, side, main, file, agent, server, spoiled>>
      /\ seen' = [seen EXCEPT ![p] = Object(p)]
  BY Zenon DEF Report, inPod, ssm, hist
<1>2. Object(p) \in PodObject /\ Object(p).pod = p /\ Object(p).side = side[p] /\ Object(p).main = main[p]
  BY DEF TypeOK, Object, PodObject
<1> DEFINE objs == <<seen[p], Object(p)>>
<1>3. /\ objs \in Seq(PodObject) /\ Len(objs) \in Nat \ {0} /\ Notify(objs)
      /\ \A k \in 1..Len(objs) : objs[k].pod = p /\ objs[k] \in {seen[p], Object(p)}
  BY <1>1, <1>2, EventObjects, Zenon
<1> HIDE DEF objs
<1>Types. seen \in [Pods -> PodObject] /\ file[p] \in FileType /\ side[p].n \in Nat /\ main[p].n \in Nat
  BY Zenon DEF TypeOK, FileType, Container
<1>4. Handled(p)' <=> Handled(p)
  BY <1>1 DEF Handled
<1>5. /\ Pending(p)' /\ \A i \in Mine(p) : queue'[i] = queue[i]
      /\ \A i \in Mine(p)' : i \in Mine(p) \/ \E k \in 1..Len(objs) : queue'[i] = objs[k]
  BY <1>3, Told, Zenon
<1>6. \A i \in Mine(p)' : (i \in Mine(p) /\ queue'[i] = queue[i]) \/ queue'[i] = seen[p] \/ queue'[i] = Object(p)
  BY <1>3, <1>5
<1>7. Served(p)'
  BY <1>5, Zenon DEF Served
<1>8. Advanced(p)'
  BY <1>1, <1>4, Zenon DEF Advanced, Busy, Handled, SideDone, MainDone, Enrolled
<1>9. seen'[p] = Object(p) /\ Object(p).side.n = side[p].n /\ Object(p).main.n = main[p].n
  BY Zenon, <1>Types, <1>1, <1>2
<1>10. PICK a, b : a = file[p].s /\ b = file[p].m
  BY Zenon
<1>11. a \in Nat /\ b \in Nat
  BY <1>Types, <1>10 DEF FileType
<1>12. ASSUME Reached(p, a, b) PROVE Reached(p, a, b)'
  <2>1. /\ a <= seen[p].side.n /\ b <= seen[p].main.n
        /\ \A i \in Mine(p) : a <= queue[i].side.n /\ b <= queue[i].main.n
        /\ Handled(p) => a <= h.ev.side.n /\ b <= h.ev.main.n
    BY <1>12, Zenon DEF Reached
  <2>2. /\ seen[p].side.n \in Nat /\ seen[p].main.n \in Nat
        /\ seen[p].side.n <= side[p].n /\ seen[p].main.n <= main[p].n
    BY Counts, Zenon
  <2>3. a <= Object(p).side.n /\ b <= Object(p).main.n
    <3>1. a <= side[p].n /\ b <= main[p].n
      BY <1>Types, <1>11, <2>1, <2>2, Through, Zenon
    <3> QED
      BY <1>9, <3>1, Zenon
  <2>4. \A i \in Mine(p)' : a <= queue'[i].side.n /\ b <= queue'[i].main.n
    BY <1>6, <2>1, <2>3, Zenon
  <2> QED
    BY <1>1, <1>4, <1>9, <2>1, <2>3, <2>4, Zenon DEF Reached
<1>13. Busy(p)' <=> Busy(p)
  BY <1>1, <1>4 DEF Busy
<1>14. /\ file[p] \in {NoFile, Damaged} \/ file[p].kind = "state"
       /\ file[p].kind = "state" =>
            /\ Reached(p, a, b)'
            /\ ~Busy(p)' => ~file[p].busy /\ SideDone(p, a) /\ MainDone(p, b)
  BY <1>4, <1>10, <1>12, <1>13, Zenon DEF Truthful
<1>15. (SideDone(p, a) <=> SideDone(p, a)') /\ (MainDone(p, b) <=> MainDone(p, b)')
  BY <1>1, Zenon DEF SideDone, MainDone, Enrolled
<1>16. file'[p] = file[p] /\ a = file'[p].s /\ b = file'[p].m
  BY <1>1, <1>10
<1>17. Truthful(p)'
  BY <1>14, <1>15, <1>16, Zenon DEF Truthful
<1> QED
  BY <1>7, <1>8, <1>17

\* An event is taken from the queue: the last one about p is not passed over.
LEMMA ServingHandled ==
  ASSUME TypeOK, Events, NEW p \in Pods, life[p] = "up", Truthful(p), Advanced(p), Served(p),
         HandleWorkspacePodEvents
  PROVE  Truthful(p)' /\ Advanced(p)' /\ Served(p)'
<1>0. Reported(p) /\ InLine(p)
  BY DEF Events
<1>1. /\ UNCHANGED <<life, side, main, seen, left, file, agent, server, insts, spoiled>>
      /\ h = Idle /\ queue # <<>> /\ queue' = Tail(queue)
  BY Zenon DEF HandleWorkspacePodEvents, podVars, inPod, ssm, hist
<1>2. /\ h' = Dispatch(Head(queue))
      /\ h'.pc # "idle" => h'.ev = Head(queue) /\ h'.pc = IF Head(queue).del THEN "instances" ELSE "read"
  BY PoppedInLine
<1>3. Head(queue) = queue[1] /\ 1 \in Mine(Head(queue).pod) /\ Head(queue).pod \in Pods
  BY <1>1, Popped, PoppedInLine, Zenon
<1>4. /\ \A i \in Mine(p)' : i + 1 \in Mine(p) /\ queue'[i] = queue[i + 1]
      /\ \A i \in Mine(p) : i # 1 => i - 1 \in Mine(p)'
      /\ \A i \in Mine(p) : i = 1 => p = Head(queue).pod
  BY <1>1, Popped, Zenon
<1>5. /\ life[p] = "up" /\ Truthful(p) /\ Advanced(p) /\ Served(p) /\ left = "both" /\ ~seen[p].del
      /\ \A i \in Mine(p) : ~queue[i].del
  <2>2. left = "both" /\ ~seen[p].del
    BY <1>0, Zenon DEF Reported
  <2>3. \A i \in Mine(p) : Before(queue[i], seen[p])
    BY <1>0, Zenon DEF InLine
  <2> QED
    BY <2>2, <2>3, Zenon DEF Before
<1>6. ~Handled(p) /\ ~Busy(p)
  BY <1>1 DEF Handled, Busy, Idle
<1>7. Handled(p)' => h'.pc = "read" /\ h'.ev = queue[1] /\ 1 \in Mine(p)
  BY <1>2, <1>3, <1>5, Zenon DEF Handled
<1>8. ~Busy(p)'
  BY <1>7, Zenon DEF Busy
<1>9. PICK a, b : a = file[p].s /\ b = file[p].m
  OBVIOUS
<1>10. Reached(p, a, b) => Reached(p, a, b)'
  <2> SUFFICES ASSUME Reached(p, a, b) PROVE Reached(p, a, b)'
    OBVIOUS
  <2>1. a <= seen'[p].side.n /\ b <= seen'[p].main.n
    BY <1>1, Zenon DEF Reached
  <2>2. \A i \in Mine(p) : a <= queue[i].side.n /\ b <= queue[i].main.n
    BY Zenon DEF Reached
  <2>3. \A i \in Mine(p)' : a <= queue'[i].side.n /\ b <= queue'[i].main.n
    BY <1>4, <2>2, Zenon
  <2>4. Handled(p)' => a <= h'.ev.side.n /\ b <= h'.ev.main.n
    BY <1>7, <2>2, Zenon
  <2> QED
    BY <2>1, <2>3, <2>4, Zenon DEF Reached
<1>11. Truthful(p)'
  <2>1. /\ file[p] \in {NoFile, Damaged} \/ file[p].kind = "state"
        /\ file[p].kind = "state" =>
             /\ Reached(p, a, b)' /\ ~file[p].busy /\ SideDone(p, a) /\ MainDone(p, b)
    BY <1>5, <1>6, <1>9, <1>10, Zenon DEF Truthful
  <2>2. (SideDone(p, a) <=> SideDone(p, a)') /\ (MainDone(p, b) <=> MainDone(p, b)')
    BY <1>1, Zenon DEF SideDone, MainDone, Enrolled
  <2>3. file'[p] = file[p] /\ a = file'[p].s /\ b = file'[p].m
    BY <1>1, <1>9, Zenon
  <2> QED
    BY <2>1, <2>2, <2>3, Zenon DEF Truthful
\* The last event about p is not passed over unless it shows the sidecar down.
<1>12. ASSUME ~Pending(p)', seen[p].side.up PROVE ~Pending(p)
  <2> SUFFICES ASSUME NEW i \in Mine(p) PROVE FALSE
    BY PendingIs, <1>6, Zenon
  <2>1. Mine(p)' = {} /\ ~Handled(p)'
    BY PendingIs, <1>12, Zenon
  <2>2. \A j \in Mine(p) : j = 1
    BY <1>4, <2>1, Zenon
  <2>3. 1 \in Mine(p) /\ p = Head(queue).pod
    BY <1>4, <2>2, Zenon
  <2>4. ~(1 < 1)
    OBVIOUS
  <2>5. queue[1] = seen[p]
    BY <1>0, <2>2, <2>3, <2>4, Zenon DEF InLine
  <2>6. h' = Call("read", seen[p])
    BY <1>2, <1>3, <1>5, <1>12, <2>5, Zenon DEF Dispatch
  <2>7. h'.pc = "read" /\ h'.ev = seen[p]
    BY <2>6 DEF Call, Idle
  <2>8. seen[p].pod = p
    BY EventObjects, Zenon
  <2> QED
    BY <2>1, <2>7, <2>8, Zenon DEF Handled
<1>13. Served(p)'
  BY <1>1, <1>5, <1>12, Zenon DEF Served, SideDone, MainDone, Enrolled
<1> QED
  BY <1>8, <1>11, <1>13, Zenon DEF Advanced

\* A crash of the operator: the pods are listed again.
LEMMA ServingCrash ==
  ASSUME TypeOK, Events, NEW p \in Pods, life[p] = "up", Truthful(p), Crash, Listed, p \notin spoiled'
  PROVE  Truthful(p)' /\ Advanced(p)' /\ Served(p)'
<1>1. UNCHANGED <<life, side, main, seen, file, agent, server, insts>> /\ h' = Idle
  BY Zenon DEF Crash, podVars, inPod, ssm
<1>2. spoiled \subseteq spoiled' /\ ~Handled(p)
  BY Zenon DEF Crash, Handled
<1>4. Mine(p)' # {} /\ \A i \in Mine(p)' : queue'[i] = seen[p]
  BY Zenon DEF Listed
<1>5. ~Handled(p)' /\ ~Busy(p) /\ ~Busy(p)' /\ Pending(p)'
  BY PendingIs, <1>1, <1>2, <1>4, Zenon DEF Handled, Busy, Idle
<1>6. PICK a, b : a = file[p].s /\ b = file[p].m
  OBVIOUS
<1>7. Reached(p, a, b) => Reached(p, a, b)'
  <2>1. seen'[p] = seen[p] /\ \A i \in Mine(p)' : queue'[i] = seen[p]
    BY <1>1, <1>4
  <2> QED
    BY <1>5, <2>1, Zenon DEF Reached
<1>8. Truthful(p)'
  <2>1. /\ file[p] \in {NoFile, Damaged} \/ file[p].kind = "state"
        /\ file[p].kind = "state" =>
             /\ Reached(p, a, b)' /\ ~file[p].busy /\ SideDone(p, a) /\ MainDone(p, b)
    BY <1>5, <1>6, <1>7, Zenon DEF Truthful
  <2>2. (SideDone(p, a) <=> SideDone(p, a)') /\ (MainDone(p, b) <=> MainDone(p, b)')
    BY <1>1, Zenon DEF SideDone, MainDone, Enrolled
  <2>3. file'[p] = file[p] /\ a = file'[p].s /\ b = file'[p].m
    BY <1>1, <1>6
  <2> QED
    BY <2>1, <2>2, <2>3, Zenon DEF Truthful
<1> QED
  BY <1>5, <1>8, Zenon DEF Advanced, Served

\* The state file, the set-up under way and what is set up, after any step.
LEMMA ServingStep ==
  ASSUME TypeOK, TypeOK', Events, Events', Serving, [Next]_vars, Crash => Listed
  PROVE  Serving'
<1> SUFFICES ASSUME NEW p \in Pods, life'[p] = "up", p \notin spoiled'
             PROVE  Truthful(p)' /\ Advanced(p)' /\ Served(p)'
  BY Zenon DEF Serving
<1>0. TypeOK' /\ Events' /\ Reported(p) /\ InLine(p)
  BY DEF Events
<1>1. ASSUME life[p] = "up", spoiled \subseteq spoiled' PROVE Truthful(p) /\ Advanced(p) /\ Served(p)
  BY <1>1, Zenon DEF Serving
<1>Keep. ASSUME life[p] = "up", spoiled \subseteq spoiled', file'[p] = file[p], seen'[p] = seen[p],
                UNCHANGED queue, Handled(p)' <=> Handled(p), Handled(p) => h' = h,
                \A n \in Nat : n <= side[p].n /\ SideDone(p, n) => SideDone(p, n)',
                \A n \in Nat : n <= main[p].n /\ MainDone(p, n) => MainDone(p, n)'
         PROVE  Truthful(p)' /\ Advanced(p)' /\ Served(p)'
  <2>1. Mine(p)' = Mine(p) /\ \A i \in Mine(p) : queue'[i] = queue[i]
    BY <1>Keep, Zenon DEF Mine
  <2> QED
    BY <1>1, <1>Keep, <2>1, ServingKept, Zenon
<1>Types. /\ side \in [Pods -> Container] /\ main \in [Pods -> Container]
          /\ side[p] \in Container /\ main[p] \in Container /\ side[p].n \in Nat /\ main[p].n \in Nat
          /\ file \in [Pods -> FileType] /\ agent \in [Pods -> Nat] /\ server \in [Pods -> Nat]
          /\ life \in [Pods -> {"none", "up", "term", "gone"}] /\ seen \in [Pods -> PodObject]
  BY Zenon DEF TypeOK, FileType, Container
<1>4. CASE ExtensionAPI \/ UNCHANGED vars
  <2>1. UNCHANGED <<queue, h, insts, life, side, main, seen, file, agent, server, spoiled>>
    BY <1>4, Zenon DEF ExtensionAPI, EnsureResourcesInitialized, GenerateVSCodeURL, CheckNumActiveSessions,
       StartSession, EndSession, podVars, inPod, ssm, hist, vars
  <2>2. Handled(p)' <=> Handled(p)
    BY <2>1 DEF Handled
  <2>3. \A n : (SideDone(p, n) => SideDone(p, n)') /\ (MainDone(p, n) => MainDone(p, n)')
    BY <2>1, Zenon DEF SideDone, MainDone, Enrolled
  <2> QED
    BY <1>Keep, <2>1, <2>2, <2>3, Zenon
<1>5. CASE Release
  BY <1>5, Zenon DEF Release
\* A container of a pod dies or comes up again, with a restart count not seen before.
<1>6. ASSUME NEW q \in Pods, SidecarDown(q) \/ MainDown(q) \/ Containers(q) PROVE Truthful(p)' /\ Advanced(p)' /\ Served(p)'
  <2>1. /\ UNCHANGED <<queue, h, insts, life, seen, file, spoiled>>
        /\ \A n \in Nat : n <= side[p].n /\ SideDone(p, n) => SideDone(p, n)'
        /\ \A n \in Nat : n <= main[p].n /\ MainDone(p, n) => MainDone(p, n)'
    BY <1>6, Restarted, Zenon
  <2>2. Handled(p)' <=> Handled(p)
    BY <2>1 DEF Handled
  <2> QED
    BY <1>Keep, <2>1, <2>2, Zenon
<1>7. ASSUME NEW q \in Pods, Damage(q) PROVE Truthful(p)' /\ Advanced(p)' /\ Served(p)'
  <2>1. UNCHANGED <<queue, h, insts, life, side, main, seen, agent, server, spoiled>> /\ file' = [file EXCEPT ![q] = Damaged]
    BY <1>7, Zenon DEF Damage, podVars, ssm, hist
  <2>2. Handled(p)' <=> Handled(p)
    BY <2>1 DEF Handled
  <2>3. \A n : (SideDone(p, n) => SideDone(p, n)') /\ (MainDone(p, n) => MainDone(p, n)')
    BY <2>1, Zenon DEF SideDone, MainDone, Enrolled
  <2>4. CASE q # p
    <3>1. file'[p] = file[p]
      BY <1>Types, <2>1, <2>4
    <3> QED
      BY <1>Keep, <2>1, <2>2, <2>3, <3>1, Zenon
  <2>5. CASE q = p
    <3>1. file'[p] = Damaged /\ Damaged.kind # "state"
      BY <1>Types, <2>1, <2>5 DEF Damaged
    <3>2. Truthful(p)'
      BY <3>1 DEF Truthful
    <3>3. Advanced(p) /\ Served(p)
      BY <1>1, <2>1
    <3>4. Advanced(p)'
      BY <2>1, <3>3, ZenonT(30) DEF Advanced, Busy, Handled, SideDone, MainDone, Enrolled
    <3>5. Pending(p)' <=> Pending(p)
      BY Zenon, <2>1, <2>2, PendingIs DEF Mine
    <3>6. Served(p)'
      BY <2>1, <3>3, <3>5, Zenon DEF Served, SideDone, MainDone, Enrolled
    <3> QED
      BY <3>2, <3>4, <3>6
  <2> QED
    BY <2>4, <2>5, Zenon
\* A change of another pod's object.
<1>Push. ASSUME NEW q \in Pods, NEW objs \in Seq(PodObject), Notify(objs), \A k \in 1..Len(objs) : objs[k].pod = q,
                UNCHANGED <<h, insts, side, main, file, spoiled>>, q # p,
                life'[p] = life[p], seen'[p] = seen[p], agent'[p] = agent[p], server'[p] = server[p]
         PROVE  Truthful(p)' /\ Advanced(p)' /\ Served(p)'
  <2>1. Mine(p)' = Mine(p) /\ \A i \in Mine(p) : queue'[i] = queue[i]
    BY <1>Push, Pushed, ZenonT(30) DEF Notify
  <2>2. Handled(p)' <=> Handled(p)
    BY <1>Push DEF Handled
  <2>3. \A n : (SideDone(p, n) => SideDone(p, n)') /\ (MainDone(p, n) => MainDone(p, n)')
    BY <1>Push, Zenon DEF SideDone, MainDone, Enrolled
  <2> QED
    BY <1>1, <1>Push, <2>1, <2>2, <2>3, ServingKept, Zenon
<1>8. ASSUME NEW q \in Pods, PodRunning(q) PROVE Truthful(p)' /\ Advanced(p)' /\ Served(p)'
  <2>1. /\ Notify(<<seen[q]>>) /\ UNCHANGED <<h, insts, side, main, seen, file, agent, server, spoiled>>
        /\ life' = [life EXCEPT ![q] = "up"] /\ life[q] = "none"
    BY <1>8, Zenon DEF PodRunning, inPod, ssm, hist
  <2> DEFINE objs == <<seen[q]>>
  <2>2. /\ objs \in Seq(PodObject) /\ Len(objs) \in Nat \ {0} /\ Notify(objs)
        /\ \A k \in 1..Len(objs) : objs[k].pod = q
    BY EventObjects, <2>1, Zenon
  <2> HIDE DEF objs
  <2>3. CASE q # p
    <3>1. life'[p] = life[p]
      BY <1>Types, <2>1, <2>3
    <3> QED
      BY <1>Push, <2>1, <2>2, <2>3, <3>1, Zenon
  <2>4. CASE q = p
    <3>1. Pending(p)'
      BY Zenon, Told, <2>2, <2>4
    <3>2. file'[p] = NoFile /\ ~Handled(p)'
      BY <1>0, <2>1, <2>4, Zenon DEF Reported, Handled
    <3>3. NoFile.kind # "state"
      BY DEF NoFile
    <3> QED
      BY <3>1, <3>2, <3>3, ZenonT(30) DEF Truthful, Advanced, Busy, Served
  <2> QED
    BY <2>3, <2>4
<1>9. ASSUME NEW q \in Pods, Report(q) PROVE Truthful(p)' /\ Advanced(p)' /\ Served(p)'
  <2>1. /\ Notify(<<seen[q], Object(q)>>) /\ UNCHANGED <<h, insts, life, side, main, file, agent, server, spoiled>>
        /\ seen' = [seen EXCEPT ![q] = Object(q)]
    BY <1>9, Zenon DEF Report, inPod, ssm, hist
  <2>2. Object(q) \in PodObject /\ Object(q).pod = q /\ Object(q).side = side[q] /\ Object(q).main = main[q]
    BY Zenon DEF TypeOK, Object, PodObject
  <2> DEFINE objs == <<seen[q], Object(q)>>
  <2>3. /\ objs \in Seq(PodObject) /\ Len(objs) \in Nat \ {0} /\ Notify(objs)
        /\ \A k \in 1..Len(objs) : objs[k].pod = q /\ objs[k] \in {seen[q], Object(q)}
    BY EventObjects, <2>1, <2>2, ZenonT(30)
  <2> HIDE DEF objs
  <2>4. CASE q # p
    <3>1. seen'[p] = seen[p]
      BY <1>Types, <2>1, <2>4, Zenon
    <3> QED
      BY <1>Push, <2>1, <2>3, <2>4, <3>1, Zenon
  <2>5. CASE q = p
    BY <1>1, <1>9, <2>1, <2>5, ServingReported
  <2> QED
    BY <2>4, <2>5
<1>10. ASSUME NEW q \in Pods, Terminate(q) PROVE Truthful(p)' /\ Advanced(p)' /\ Served(p)'
  <2>1. /\ Notify(<<seen[q], seen'[q]>>) /\ UNCHANGED <<h, insts, side, main, file, agent, server, spoiled>>
        /\ life' = [life EXCEPT ![q] = "term"] /\ seen' = [seen EXCEPT ![q].del = TRUE]
    BY <1>10, Zenon DEF Terminate, inPod, ssm, hist
  <2>2. q # p /\ life'[p] = life[p] /\ seen'[p] = seen[p]
    BY <1>Types, <2>1, Zenon
  <2>3. seen'[q] \in PodObject /\ seen'[q].pod = q
    <3>1. seen'[q] \in PodObject
      BY <1>0, Zenon DEF TypeOK
    <3>2. seen'[q].pod = q
      BY <1>0, Zenon DEF Events, Reported
    <3> QED
      BY <3>1, <3>2
  <2> DEFINE objs == <<seen[q], seen'[q]>>
  <2>4. /\ objs \in Seq(PodObject) /\ Len(objs) \in Nat \ {0} /\ Notify(objs)
        /\ \A k \in 1..Len(objs) : objs[k].pod = q /\ objs[k] \in {seen[q], seen'[q]}
    BY EventObjects, <2>1, <2>3, Zenon
  <2> HIDE DEF objs
  <2> QED
    BY <1>Push, <2>1, <2>2, <2>4
<1>11. ASSUME NEW q \in Pods, PodGone(q) PROVE Truthful(p)' /\ Advanced(p)' /\ Served(p)'
  <2>1. /\ Notify(<<seen[q]>>) /\ UNCHANGED <<h, insts, side, main, seen, file, spoiled>>
        /\ life' = [life EXCEPT ![q] = "gone"]
        /\ agent' = [agent EXCEPT ![q] = 0] /\ server' = [server EXCEPT ![q] = 0]
    BY <1>11, Zenon DEF PodGone, ssm, hist
  <2>2. q # p /\ life'[p] = life[p] /\ agent'[p] = agent[p] /\ server'[p] = server[p]
    BY <1>Types, <2>1
  <2> DEFINE objs == <<seen[q]>>
  <2>3. objs \in Seq(PodObject) /\ Notify(objs) /\ \A k \in 1..Len(objs) : objs[k].pod = q
    BY EventObjects, <2>1, Zenon
  <2> HIDE DEF objs
  <2> QED
    BY <1>Push, <2>1, <2>2, <2>3, Zenon
<1>12. CASE HandleWorkspacePodEvents
  <2>1. UNCHANGED <<life, spoiled>>
    BY <1>12, Zenon DEF HandleWorkspacePodEvents, podVars, hist
  <2> QED
    BY <1>1, <1>12, <2>1, ServingHandled
<1>13. CASE PodEventHandler /\ ~HandleWorkspacePodEvents
  <2>1. /\ UNCHANGED <<podVars, queue>> /\ h.pc # "idle" /\ h.ev.pod \in Pods
        /\ h' = Idle \/ (h'.pc # "idle" /\ h'.ev = h.ev)
        /\ \A q \in Pods : life[q] = "none" \/ q # h.ev.pod => file'[q] = file[q]
        /\ \A q \in Pods \ {h.ev.pod} :
             /\ agent'[q] = agent[q] /\ server'[q] = server[q] /\ acts'[q] = acts[q]
             /\ InstancesOf(q)' = InstancesOf(q) /\ (q \in spoiled' <=> q \in spoiled)
    BY <1>13, HandlerFrame, EventTypes, Zenon
  <2>2. UNCHANGED <<life, side, main, seen>>
    BY <2>1, Zenon DEF podVars
  <2>3. spoiled \subseteq spoiled'
    <3>1. spoiled' = spoiled \/ spoiled' = spoiled \cup {h.ev.pod}
      BY <1>13, HandlerSteps, Zenon DEF PodEventHandler, Onward, Fails
    <3> QED
      BY <3>1
  <2>4. CASE h.ev.pod # p
    <3>1. /\ file'[p] = file[p] /\ agent'[p] = agent[p] /\ server'[p] = server[p]
          /\ InstancesOf(p)' = InstancesOf(p) /\ p \notin spoiled
      BY <2>1, <2>4, ZenonT(30)
    <3>2. ~Handled(p) /\ ~Handled(p)'
      BY <2>1, <2>4 DEF Handled, Idle
    <3>3. Enrolled(p)' <=> Enrolled(p)
      <4>1. Enrolled(p) <=> [pod |-> p, id |-> agent[p]] \in InstancesOf(p)
        BY Zenon DEF Enrolled, InstancesOf
      <4>2. Enrolled(p)' <=> [pod |-> p, id |-> agent'[p]] \in InstancesOf(p)'
        BY Zenon DEF Enrolled, InstancesOf
      <4> QED
        BY <3>1, <4>1, <4>2, Zenon
    <3>4. \A n : (SideDone(p, n) => SideDone(p, n)') /\ (MainDone(p, n) => MainDone(p, n)')
      BY <2>2, <3>1, <3>3, Zenon DEF SideDone, MainDone
    <3> QED
      BY <1>Keep, <2>1, <2>2, <2>3, <3>1, <3>2, <3>4, Zenon
  <2>5. CASE h.ev.pod = p
    <3>1. Handled(p) /\ life[p] = "up"
      BY <2>1, <2>2, <2>5, Zenon DEF Handled
    <3> QED
      BY <1>1, <1>13, <2>3, <3>1, SetUpStep, Zenon
  <2> QED
    BY <2>4, <2>5
<1>14. CASE Crash
  <2>1. UNCHANGED life /\ spoiled \subseteq spoiled'
    BY <1>14, Zenon DEF Crash, podVars
  <2> QED
    BY <1>1, <1>14, <2>1, ServingCrash
<1> QED
  BY <1>4, <1>5, <1>6, <1>7, <1>8, <1>9, <1>10, <1>11, <1>12, <1>13, <1>14, Zenon DEF Next, Kubernetes
-----------------------------------------------------------------------------
\* Before any pod there is nothing to be said.
LEMMA InitEvents ==
  ASSUME Init, TypeOK
  PROVE  Events /\ Tidied /\ Serving
<1>2. \A p \in Pods : life[p] = "none"
  BY DEF Init
<1>3. Tidied /\ Serving
  BY <1>2 DEF Tidied, Serving
<1>4. ASSUME NEW p \in Pods PROVE Reported(p) /\ InLine(p)
  <2>1. Mine(p) = {} /\ ~Handled(p)
    <3>1. queue = <<>> /\ h.pc = "idle"
      BY Zenon DEF Init, Idle
    <3>2. DOMAIN queue = {}
      BY <3>1
    <3> QED
      BY <3>1, <3>2, Zenon DEF Mine, Handled
  <2>2. /\ seen[p].pod = p /\ seen[p].del = FALSE /\ seen[p].side = side[p] /\ seen[p].main = main[p]
        /\ file[p] = NoFile /\ side[p] \in Container /\ main[p] \in Container
    BY DEF Init, TypeOK
  <2>3. Since(seen[p].side, side[p]) /\ Since(seen[p].main, main[p])
    BY <2>2, Orders, Zenon
  <2>4. Reported(p)
    BY <1>2, <2>1, <2>2, <2>3 DEF Reported
  <2>5. InLine(p)
    BY <2>1, Zenon DEF InLine
  <2> QED
    BY <2>4, <2>5
<1> QED
  BY <1>3, <1>4, Zenon DEF Events

\* With nothing to come, the pod is clean.
LEMMA TidiedCleans == TypeOK /\ Events /\ Tidied => (budget.faults <= 1 => CleanedUp)
<1> SUFFICES ASSUME Tidied, budget.faults <= 1, NEW p \in Pods,
                    life[p] = "gone", ~Pending(p), p \notin missed, left # "nothing"
             PROVE  Clean(p)
  BY Zenon DEF CleanedUp, Clean
<1>1. Tidy(p)
  BY Zenon DEF Tidied
<1>2. Mine(p) = {} /\ ~Handled(p)
  BY Zenon DEF Pending, Mine, Handled
<1>3. ~Coming(p) /\ ~Cleaning(p) /\ ~Twice(p)
  BY <1>2, Zenon DEF Coming, Cleaning, Twice
<1> QED
  BY <1>1, <1>3 DEF Tidy

\* With nothing to come, the pod is set up.
LEMMA ServingSetsUp == TypeOK /\ Events /\ Serving => SetUp
<1> SUFFICES ASSUME Serving, NEW p \in Pods, Rest(p), p \notin spoiled PROVE Usable(p)
  BY Zenon DEF SetUp
<1>1. /\ life[p] = "up" /\ side[p].up /\ main[p].up /\ ~Pending(p)
      /\ seen[p].side = side[p] /\ seen[p].main = main[p]
  BY DEF Rest, Object
<1>2. Served(p)
  BY <1>1, Zenon DEF Serving
<1>3. Enrolled(p) /\ server[p] > 0
  BY Zenon, <1>1, <1>2 DEF Served, SideDone, MainDone
<1> QED
  BY <1>3 DEF Enrolled, Usable
=============================================================================
