-------------------- MODULE ReferenceProtection_proofs --------------------
(***************************************************************************)
(* Proofs about ReferenceProtection, for every choice of its constants.    *)
(***************************************************************************)
EXTENDS ReferenceProtection, TLAPS

\* The provers are tried in turn, with more time than by default: contexts are large.
USE SMTT(30), ZenonT(20), Z3T(30)

\* A reconcile that writes the status has a generation to acknowledge.
Reconciling ==
  {c \in [pc: {"idle", "update", "recheck", "status"}, want: BOOLEAN, gen: Nat] :
     c.pc = "status" => c.gen # 0}

\* What the controllers' writes rest on: a holder of the resourceVersion has seen
\* the object as it is.
HeldTypes ==
  /\ tgt \in [Targets -> Target] /\ ctgt \in [Targets -> Target]
  /\ tHolds \in [Targets -> SUBSET ({"cache", "ctl"} \cup Workspaces)]
  /\ ctl \in [Targets -> Reconciling]

CacheAgrees(x) == "cache" \in tHolds[x] => ctgt[x] = tgt[x]

ReconcileAgrees(x) ==
  "ctl" \in tHolds[x] /\ ctl[x].gen # 0 => ctl[x].gen = tgt[x].gen /\ ~tgt[x].del

HeldInv ==
  /\ HeldTypes
  /\ \A x \in Targets :
       /\ CacheAgrees(x) /\ ReconcileAgrees(x)
       /\ tgt[x].obs <= tgt[x].gen

\* How one object may change under a step: not at all, or to u with all holders
\* but those in keep left behind.
Rewritten(x, u, keep) ==
  /\ tgt'[x] = u
  /\ tHolds'[x] \subseteq tHolds[x]
  /\ tgt'[x] = tgt[x] \/ tHolds'[x] \subseteq keep

\* The objects stay functions of the right type under an update of one of them.
LEMMA PutEffect ==
  ASSUME HeldInv, NEW x, NEW t, NEW keep, Put(x, t, keep),
         x \in Targets => Settle(t) \in Target
  PROVE  /\ tgt' \in [Targets -> Target]
         /\ tHolds' \in [Targets -> SUBSET ({"cache", "ctl"} \cup Workspaces)]
         /\ \A y \in Targets : Rewritten(y, IF y = x THEN Settle(t) ELSE tgt[y], keep)
<1>1. HeldTypes
  BY DEF HeldInv
<1>2. tgt' = [y \in Targets |-> IF y = x THEN Settle(t) ELSE tgt[y]]
  BY <1>1, Zenon DEF HeldTypes, Put
<1>3. tHolds' = tHolds \/ tHolds' = [y \in Targets |-> IF y = x THEN tHolds[y] \cap keep ELSE tHolds[y]]
  BY <1>1, Zenon DEF HeldTypes, Put
<1>4. tHolds' = tHolds /\ x \in Targets => tgt'[x] = tgt[x] \/ tHolds[x] \subseteq keep
  <2>1. CASE tgt'[x] = tgt[x]
    BY <2>1
  <2>2. CASE tgt'[x] # tgt[x] /\ x \in Targets
    <3>1. tHolds' = [tHolds EXCEPT ![x] = @ \cap keep]
      BY <2>2 DEF Put
    <3>2. tHolds'[x] = tHolds[x] \cap keep
      BY <3>1, <2>2, <1>1 DEF HeldTypes
    <3> QED
      BY <3>2
  <2> QED
    BY <2>1, <2>2
<1>5. tgt' \in [Targets -> Target]
  BY <1>1, <1>2 DEF HeldTypes
<1>6. tHolds' \in [Targets -> SUBSET ({"cache", "ctl"} \cup Workspaces)]
  BY <1>1, <1>3 DEF HeldTypes
<1>7. ASSUME NEW y \in Targets
      PROVE  Rewritten(y, IF y = x THEN Settle(t) ELSE tgt[y], keep)
  <2>1. tgt'[y] = IF y = x THEN Settle(t) ELSE tgt[y]
    BY <1>2
  <2>2. CASE y # x
    BY <2>1, <2>2, <1>3, <1>1 DEF Rewritten, HeldTypes
  <2>3. CASE y = x
    <3>1. tHolds' = tHolds \/ tHolds'[y] = tHolds[y] \cap keep
      BY <1>3, <2>3
    <3> QED
      BY <2>1, <2>3, <3>1, <1>4 DEF Rewritten
  <2> QED
    BY <2>2, <2>3
<1> QED
  BY <1>5, <1>6, <1>7

LEMMA SettleType ==
  ASSUME NEW t \in Target
  PROVE  /\ Settle(t) \in Target
         /\ t.obs <= t.gen => Settle(t).obs <= Settle(t).gen
         /\ Settle(t).here => Settle(t) = t
<1>1. NoTarget \in Target /\ NoTarget.obs = 0 /\ NoTarget.gen = 1 /\ ~NoTarget.here
  BY Zenon DEF NoTarget, NewTarget, Target
<1>2. CASE t.del /\ ~t.fin
  BY <1>1, <1>2 DEF Settle
<1>3. CASE ~(t.del /\ ~t.fin)
  BY <1>3 DEF Settle
<1> QED
  BY <1>2, <1>3

\* A write by someone else than the controller, which leaves it and the cache
\* behind.
LEMMA ForeignWrite ==
  ASSUME HeldInv, NEW x, NEW t, NEW keep \in SUBSET Workspaces, Put(x, t, keep),
         x \in Targets => /\ t \in Target /\ t.obs <= t.gen
                          /\ tgt[x].here => t.obs >= tgt[x].obs,
         UNCHANGED <<ctgt, ctl>>
  PROVE  HeldInv' /\ ObservedKept
<1>1. HeldTypes
  BY DEF HeldInv
<1>2. x \in Targets => Settle(t) \in Target
  BY SettleType
<1>3. /\ tgt' \in [Targets -> Target]
      /\ tHolds' \in [Targets -> SUBSET ({"cache", "ctl"} \cup Workspaces)]
      /\ \A y \in Targets : Rewritten(y, IF y = x THEN Settle(t) ELSE tgt[y], keep)
  BY <1>2, PutEffect
<1>4. HeldTypes'
  BY <1>1, <1>3 DEF HeldTypes
<1>5. "cache" \notin keep /\ "ctl" \notin keep
  BY ProtectionAssumption
<1>6. ASSUME NEW y \in Targets
      PROVE  /\ CacheAgrees(y)' /\ ReconcileAgrees(y)' /\ tgt'[y].obs <= tgt'[y].gen
             /\ tgt'[y].here /\ tgt[y].here => tgt[y].obs <= tgt'[y].obs
  <2>1. Rewritten(y, IF y = x THEN Settle(t) ELSE tgt[y], keep)
    BY <1>3
  <2>2. CacheAgrees(y) /\ ReconcileAgrees(y) /\ tgt[y].obs <= tgt[y].gen
    BY DEF HeldInv
  <2>3. CacheAgrees(y)' /\ ReconcileAgrees(y)'
    BY <2>1, <2>2, <1>5 DEF CacheAgrees, ReconcileAgrees, Rewritten
  <2>4. tgt[y] \in Target
    BY <1>1 DEF HeldTypes
  <2>5. CASE y = x
    <3>1. tgt'[y] = Settle(t) /\ t \in Target /\ t.obs <= t.gen
      BY <2>1, <2>5 DEF Rewritten
    <3>2. /\ Settle(t).obs <= Settle(t).gen
          /\ Settle(t).here => Settle(t) = t
      BY <3>1, SettleType
    <3>3. tgt[y].here => tgt[y].obs <= t.obs
      BY <2>4, <2>5, <3>1 DEF Target
    <3> QED
      BY <2>3, <3>1, <3>2, <3>3
  <2>6. CASE y # x
    <3>1. tgt'[y] = tgt[y]
      BY <2>1, <2>6 DEF Rewritten
    <3> QED
      BY <2>2, <2>3, <2>4, <3>1 DEF Target
  <2> QED
    BY <2>5, <2>6
<1> QED
  BY <1>4, <1>6 DEF HeldInv, ObservedKept

\* A write by the controller from a copy that is still current.
LEMMA ControllerWrite ==
  ASSUME HeldInv, NEW x \in Targets, NEW t \in Target, Put(x, t, {"ctl"}),
         t.obs <= t.gen, t.obs >= tgt[x].obs, t.gen = tgt[x].gen, t.del = tgt[x].del,
         UNCHANGED ctgt, NEW c \in Reconciling, Goto(x, c),
         c.gen # 0 => c.gen = t.gen /\ ~t.del
  PROVE  HeldInv' /\ ObservedKept
<1>1. HeldTypes
  BY DEF HeldInv
<1>2. Settle(t) \in Target
  BY SettleType
<1>3. /\ tgt' \in [Targets -> Target]
      /\ tHolds' \in [Targets -> SUBSET ({"cache", "ctl"} \cup Workspaces)]
      /\ \A y \in Targets : Rewritten(y, IF y = x THEN Settle(t) ELSE tgt[y], {"ctl"})
  BY <1>2, PutEffect
<1>4. /\ ctl' \in [Targets -> Reconciling]
      /\ \A y \in Targets : ctl'[y] = IF y = x THEN c ELSE ctl[y]
  BY <1>1 DEF HeldTypes, Goto
<1>5. HeldTypes'
  BY <1>1, <1>3, <1>4 DEF HeldTypes
<1>6. ~t.del => Settle(t) = t
  BY DEF Settle
<1>7. ASSUME NEW y \in Targets
      PROVE  /\ CacheAgrees(y)' /\ ReconcileAgrees(y)' /\ tgt'[y].obs <= tgt'[y].gen
             /\ tgt'[y].here /\ tgt[y].here => tgt[y].obs <= tgt'[y].obs
  <2>1. Rewritten(y, IF y = x THEN Settle(t) ELSE tgt[y], {"ctl"})
    BY <1>3
  <2>2. CacheAgrees(y) /\ ReconcileAgrees(y) /\ tgt[y].obs <= tgt[y].gen
    BY DEF HeldInv
  <2>3. CacheAgrees(y)'
    BY <2>1, <2>2 DEF CacheAgrees, Rewritten
  <2>4. tgt[y] \in Target
    BY <1>1 DEF HeldTypes
  <2>5. CASE y = x
    <3>1. ReconcileAgrees(y)'
      BY <2>1, <2>5, <1>4, <1>6 DEF Rewritten, ReconcileAgrees
    <3> QED
      BY <2>1, <2>3, <2>5, <3>1, SettleType DEF Rewritten
  <2>6. CASE y # x
    <3>1. ReconcileAgrees(y)'
      BY <2>1, <2>2, <2>6, <1>4 DEF Rewritten, ReconcileAgrees
    <3> QED
      BY <2>1, <2>2, <2>3, <2>4, <2>6, <3>1 DEF Rewritten, Target
  <2> QED
    BY <2>5, <2>6
<1> QED
  BY <1>5, <1>7 DEF HeldInv, ObservedKept

\* A step that writes no object, and gives its holders nothing they have not seen.
LEMMA ReadOnly ==
  ASSUME HeldInv, UNCHANGED tgt, HeldTypes',
         \A x \in Targets : CacheAgrees(x)' /\ ReconcileAgrees(x)'
  PROVE  HeldInv' /\ ObservedKept
<1>1. \A x \in Targets : tgt[x] \in Target /\ tgt[x].obs <= tgt[x].gen
  BY DEF HeldInv, HeldTypes
<1> QED
  BY <1>1 DEF HeldInv, ObservedKept, Target

LEMMA Untouched ==
  ASSUME HeldInv, UNCHANGED <<tgt, ctgt, tHolds, ctl>>
  PROVE  HeldInv' /\ ObservedKept
<1>1. HeldTypes' /\ \A x \in Targets : CacheAgrees(x)' /\ ReconcileAgrees(x)'
  BY DEF HeldInv, HeldTypes, CacheAgrees, ReconcileAgrees
<1> QED
  BY <1>1, ReadOnly

\* The running reconcile goes on, ends, or is tried again, without a write.
LEMMA Moved ==
  ASSUME HeldInv, UNCHANGED <<tgt, ctgt, tHolds>>, NEW x \in Targets,
         NEW c \in Reconciling, Goto(x, c), c.gen = 0 \/ c.gen = ctl[x].gen
  PROVE  HeldInv' /\ ObservedKept
<1>1. HeldTypes /\ \A y \in Targets : CacheAgrees(y) /\ ReconcileAgrees(y)
  BY DEF HeldInv
<1>2. /\ ctl' \in [Targets -> Reconciling]
      /\ \A y \in Targets : ctl'[y] = IF y = x THEN c ELSE ctl[y]
  BY <1>1 DEF HeldTypes, Goto
<1>3. HeldTypes'
  BY <1>1, <1>2 DEF HeldTypes
<1>4. \A y \in Targets : CacheAgrees(y)' /\ ReconcileAgrees(y)'
  BY <1>1, <1>2 DEF CacheAgrees, ReconcileAgrees
<1> QED
  BY <1>3, <1>4, ReadOnly

\* A copy taken from the cache is current exactly if the cache is.
LEMMA CopiedEffect ==
  ASSUME HeldInv, NEW x, NEW h \in {"ctl"} \cup Workspaces, Copied(x, h)
  PROVE  /\ tHolds' \in [Targets -> SUBSET ({"cache", "ctl"} \cup Workspaces)]
         /\ \A y \in Targets :
              /\ "cache" \in tHolds'[y] => "cache" \in tHolds[y]
              /\ y = x /\ h \in tHolds'[y] => "cache" \in tHolds[y]
              /\ "ctl" \in tHolds'[y] => "ctl" \in tHolds[y] \/ (y = x /\ h = "ctl")
<1>1. tHolds \in [Targets -> SUBSET ({"cache", "ctl"} \cup Workspaces)]
  BY DEF HeldInv, HeldTypes
<1>2. h # "cache"
  BY ProtectionAssumption
<1>3. tHolds' = [y \in Targets |-> IF y = x
                   THEN IF "cache" \in tHolds[y] THEN tHolds[y] \cup {h} ELSE tHolds[y] \ {h}
                   ELSE tHolds[y]]
  BY <1>1, Zenon DEF Copied
<1> QED
  BY <1>1, <1>2, <1>3

LEMMA ForeignCopy ==
  ASSUME HeldInv, NEW x, NEW w \in Workspaces, Copied(x, w), UNCHANGED <<tgt, ctgt, ctl>>
  PROVE  HeldInv' /\ ObservedKept
<1>1. HeldTypes /\ \A y \in Targets : CacheAgrees(y) /\ ReconcileAgrees(y)
  BY DEF HeldInv
<1>2. w # "ctl"
  BY ProtectionAssumption
<1>3. /\ tHolds' \in [Targets -> SUBSET ({"cache", "ctl"} \cup Workspaces)]
      /\ \A y \in Targets : /\ "cache" \in tHolds'[y] => "cache" \in tHolds[y]
                            /\ "ctl" \in tHolds'[y] => "ctl" \in tHolds[y]
  <2>1. w \in {"ctl"} \cup Workspaces
    OBVIOUS
  <2> QED
    BY <1>2, <2>1, CopiedEffect
<1>4. HeldTypes'
  BY <1>1, <1>3 DEF HeldTypes
<1>5. \A y \in Targets : CacheAgrees(y)' /\ ReconcileAgrees(y)'
  BY <1>1, <1>3 DEF CacheAgrees, ReconcileAgrees
<1> QED
  BY <1>4, <1>5, ReadOnly

\* A reconcile begins: what it will acknowledge is what its copy shows.
LEMMA ControllerCopy ==
  ASSUME HeldInv, NEW x \in Targets, NEW c \in Reconciling, Goto(x, c), Copied(x, "ctl"),
         UNCHANGED <<tgt, ctgt>>, c.gen # 0 => c.gen = ctgt[x].gen /\ ~ctgt[x].del
  PROVE  HeldInv' /\ ObservedKept
<1>1. HeldTypes /\ \A y \in Targets : CacheAgrees(y) /\ ReconcileAgrees(y)
  BY DEF HeldInv
<1>2. /\ ctl' \in [Targets -> Reconciling]
      /\ \A y \in Targets : ctl'[y] = IF y = x THEN c ELSE ctl[y]
  BY <1>1 DEF HeldTypes, Goto
<1>3. HeldTypes'
  BY <1>1, <1>2, CopiedEffect DEF HeldTypes
<1>4. \A y \in Targets : CacheAgrees(y)'
  BY <1>1, CopiedEffect DEF CacheAgrees
<1>5. ASSUME NEW y \in Targets PROVE ReconcileAgrees(y)'
  <2>1. CASE y = x
    <3>1. "ctl" \in tHolds'[y] => "cache" \in tHolds[y]
      BY <2>1, CopiedEffect
    <3> QED
      BY <1>1, <1>2, <2>1, <3>1 DEF CacheAgrees, ReconcileAgrees
  <2>2. CASE y # x
    BY <1>1, <1>2, <2>2, CopiedEffect DEF ReconcileAgrees
  <2> QED
    BY <2>1, <2>2
<1> QED
  BY <1>3, <1>4, <1>5, ReadOnly

LEMMA ControllersKeep ==
  ASSUME HeldInv, NEW x \in Targets, Controllers(x)
  PROVE  HeldInv' /\ ObservedKept
<1>1. HeldTypes /\ ReconcileAgrees(x) /\ tgt[x].obs <= tgt[x].gen
  BY DEF HeldInv
<1>2. tgt[x] \in Target /\ ctgt[x] \in Target /\ ctl[x] \in Reconciling
  BY <1>1 DEF HeldTypes
<1>3. Idle \in Reconciling /\ Idle.gen = 0
  BY DEF Idle, Reconciling
<1>4. Done(x) \/ Retry(x) => Goto(x, Idle)
  BY DEF Done, Retry
<1>5. CASE ReconcileTemplate(x)
  <2> DEFINE users == HasActiveWorkspacesWithTemplate(x)
             gen == IF ~ctgt[x].del /\ ctgt[x].obs < ctgt[x].gen THEN ctgt[x].gen ELSE 0
             c(p) == [pc |-> p, want |-> users, gen |-> gen]
  <2>1. users \in BOOLEAN
    BY DEF HasActiveWorkspacesWithTemplate
  <2>2. gen \in Nat /\ (gen # 0 => gen = ctgt[x].gen /\ ~ctgt[x].del)
    BY <1>2 DEF Target
  <2>3. /\ c("update") \in Reconciling /\ c("update").gen = gen
        /\ gen # 0 => c("status") \in Reconciling /\ c("status").gen = gen
    BY <2>1, <2>2, Zenon DEF Reconciling
  <2>4. /\ UNCHANGED <<tgt, ctgt>>
        /\ \/ Goto(x, Idle) /\ UNCHANGED tHolds
           \/ Goto(x, c("update")) /\ Copied(x, "ctl")
           \/ gen # 0 /\ Goto(x, c("status")) /\ Copied(x, "ctl")
    BY <1>5 DEF ReconcileTemplate, objects
  <2> HIDE DEF c, gen
  <2>5. CASE Goto(x, Idle) /\ UNCHANGED tHolds
    BY <1>3, <2>4, <2>5, Moved
  <2>6. CASE Goto(x, c("update")) /\ Copied(x, "ctl")
    BY <2>2, <2>3, <2>4, <2>6, ControllerCopy
  <2>7. CASE gen # 0 /\ Goto(x, c("status")) /\ Copied(x, "ctl")
    BY <2>2, <2>3, <2>4, <2>7, ControllerCopy
  <2> QED
    BY <2>4, <2>5, <2>6, <2>7
<1>6. CASE ReconcileAccessStrategy(x)
  <2> DEFINE c == [pc |-> "update", want |-> HasActiveWorkspacesWithAccessStrategy(x), gen |-> 0]
  <2>1. c \in Reconciling /\ c.gen = 0
    BY DEF Reconciling, HasActiveWorkspacesWithAccessStrategy
  <2>2. /\ UNCHANGED <<tgt, ctgt>>
        /\ \/ UNCHANGED <<ctl, tHolds>>
           \/ Goto(x, c) /\ Copied(x, "ctl")
    BY <1>6, Zenon DEF ReconcileAccessStrategy, objects
  <2> HIDE DEF c
  <2> QED
    BY <2>1, <2>2, Untouched, ControllerCopy
<1>7. CASE Recheck(x)
  BY <1>3, <1>4, <1>7, Moved DEF Recheck, objects, caches
<1>8. CASE UpdateFinalizer(x)
  <2> DEFINE t == [tgt[x] EXCEPT !.fin = ctl[x].want]
             go == [ctl[x] EXCEPT !.pc = "status"]
             again == [ctl[x] EXCEPT !.pc = "recheck"]
  <2>1. /\ t \in Target /\ t.obs = tgt[x].obs /\ t.gen = tgt[x].gen /\ t.del = tgt[x].del
        /\ tgt[x].obs \in Nat
    BY <1>2 DEF Target, Reconciling
  <2>2. /\ again \in Reconciling /\ again.gen = ctl[x].gen
        /\ ctl[x].gen # 0 => go \in Reconciling /\ go.gen = ctl[x].gen
    BY <1>2 DEF Reconciling
  <2>3. PICK o \in Replies :
          /\ Update(x, "ctl", t, o)
          /\ IF o = "ok" /\ Accepts(x, "ctl")
             THEN IF ctl[x].gen # 0 THEN Goto(x, go) /\ UNCHANGED queued ELSE Done(x)
             ELSE IF o = "ok" /\ x \in Strategies /\ tgt[x].here
             THEN Goto(x, again) /\ UNCHANGED queued
             ELSE Retry(x)
    BY <1>8, Zenon DEF UpdateFinalizer
  <2>4. UNCHANGED ctgt
    BY <1>8 DEF UpdateFinalizer
  <2>5. Accepts(x, "ctl") /\ ctl[x].gen # 0 => ctl[x].gen = t.gen /\ ~t.del
    BY <1>1, <2>1 DEF Accepts, ReconcileAgrees
  <2>6. o = "ok" /\ Accepts(x, "ctl") => Goto(x, Idle) \/ (ctl[x].gen # 0 /\ Goto(x, go))
    BY <1>4, <2>3
  <2>7. ~(o = "ok" /\ Accepts(x, "ctl")) => Goto(x, Idle) \/ (o = "ok" /\ Goto(x, again))
    BY <1>4, <2>3
  <2> HIDE DEF t, go, again
  <2>8. CASE o # "refused" /\ Accepts(x, "ctl")
    <3>1. Put(x, t, {"ctl"}) /\ t.obs <= t.gen /\ t.obs >= tgt[x].obs
      BY <1>1, <2>1, <2>3, <2>8 DEF Update
    <3>2. CASE Goto(x, Idle)
      BY <1>3, <2>1, <2>4, <3>1, <3>2, ControllerWrite, Zenon
    <3>3. CASE ctl[x].gen # 0 /\ Goto(x, go)
      BY <2>1, <2>2, <2>4, <2>5, <2>8, <3>1, <3>3, ControllerWrite
    <3> QED
      BY <2>6, <2>7, <2>8, <3>2, <3>3, Zenon
  <2>9. CASE ~(o # "refused" /\ Accepts(x, "ctl"))
    <3>1. UNCHANGED <<tgt, tHolds>>
      BY <2>3, <2>9 DEF Update
    <3>2. Goto(x, Idle) \/ Goto(x, again)
      BY <2>7, <2>9
    <3> QED
      BY <1>3, <2>2, <2>4, <3>1, <3>2, Moved
  <2> QED
    BY <2>8, <2>9
<1>9. CASE UpdateStatusObservedGeneration(x)
  <2> DEFINE t == [tgt[x] EXCEPT !.obs = ctl[x].gen]
  <2>1. /\ t \in Target /\ t.obs = ctl[x].gen /\ t.gen = tgt[x].gen /\ t.del = tgt[x].del
        /\ tgt[x].obs \in Nat /\ tgt[x].gen \in Nat /\ ctl[x].gen # 0
    BY <1>2, <1>9 DEF Target, Reconciling, UpdateStatusObservedGeneration
  <2>2. /\ \/ Put(x, t, {"ctl"}) /\ Accepts(x, "ctl")
           \/ UNCHANGED <<tgt, tHolds>>
        /\ Goto(x, Idle) /\ UNCHANGED ctgt
    BY <1>4, <1>9, Zenon DEF UpdateStatusObservedGeneration, Update
  <2> HIDE DEF t
  <2>3. CASE Put(x, t, {"ctl"}) /\ Accepts(x, "ctl")
    <3>1. t.obs <= t.gen /\ t.obs >= tgt[x].obs
      BY <1>1, <2>1, <2>3 DEF Accepts, ReconcileAgrees
    <3> QED
      BY <1>3, <2>1, <2>2, <2>3, <3>1, ControllerWrite, Zenon
  <2>4. CASE UNCHANGED <<tgt, tHolds>>
    BY <1>3, <2>2, <2>4, Moved
  <2> QED
    BY <2>2, <2>3, <2>4
<1> QED
  BY <1>5, <1>6, <1>7, <1>8, <1>9 DEF Controllers

\* The webhook only adds a finalizer, from the copy of the object it holds.
LEMMA FinalizerAdded ==
  ASSUME HeldInv, NEW w \in Workspaces, NEW x, NEW o,
         Update(x, w, [tgt[x] EXCEPT !.fin = TRUE], o), UNCHANGED <<ctgt, ctl>>
  PROVE  HeldInv' /\ ObservedKept
<1> DEFINE t == [tgt[x] EXCEPT !.fin = TRUE]
<1>1. x \in Targets => tgt[x] \in Target /\ tgt[x].obs <= tgt[x].gen
  BY DEF HeldInv, HeldTypes
<1>2. x \in Targets => /\ t \in Target /\ t.obs <= t.gen
                       /\ tgt[x].here => t.obs >= tgt[x].obs
  <2> SUFFICES ASSUME x \in Targets
               PROVE  t \in Target /\ t.obs <= t.gen /\ t.obs >= tgt[x].obs
    OBVIOUS
  <2>1. t \in Target /\ t.obs = tgt[x].obs /\ t.gen = tgt[x].gen /\ tgt[x].obs \in Nat
    BY <1>1, Zenon DEF Target
  <2> QED
    BY <1>1, <2>1
<1>3. Put(x, t, {w}) \/ UNCHANGED <<tgt, tHolds>>
  BY DEF Update
<1> HIDE DEF t
<1>4. CASE Put(x, t, {w})
  <2>1. {w} \in SUBSET Workspaces
    OBVIOUS
  <2> QED
    BY <1>2, <1>4, <2>1, ForeignWrite
<1>5. CASE UNCHANGED <<tgt, tHolds>>
  BY <1>5, Untouched
<1> QED
  BY <1>3, <1>4, <1>5

LEMMA AdmissionKeeps ==
  ASSUME HeldInv, NEW w \in Workspaces, Admission(w)
  PROVE  HeldInv' /\ ObservedKept
<1>1. CASE Default(w)
  <2>1. UNCHANGED <<tgt, ctgt, ctl>> /\ (UNCHANGED tHolds \/ \E k : Copied(k, w))
    BY <1>1 DEF Default, objects
  <2> QED
    BY <2>1, Untouched, ForeignCopy
<1>2. CASE AddTemplateFinalizer(w)
  BY <1>2, FinalizerAdded, Zenon DEF AddTemplateFinalizer
<1>3. CASE GetAccessStrategy(w)
  <2>1. UNCHANGED <<tgt, ctgt, ctl>> /\ (UNCHANGED tHolds \/ \E k : Copied(k, w))
    BY <1>3 DEF GetAccessStrategy, objects
  <2> QED
    BY <2>1, Untouched, ForeignCopy
<1>4. CASE AddAccessStrategyFinalizer(w)
  BY <1>4, FinalizerAdded DEF AddAccessStrategyFinalizer
<1>5. CASE RecheckAccessStrategy(w) \/ Store(w)
  BY <1>5, Untouched DEF RecheckAccessStrategy, Store, objects, caches
<1> QED
  BY <1>1, <1>2, <1>3, <1>4, <1>5 DEF Admission

LEMMA SyncKeeps ==
  ASSUME HeldInv, NEW x \in Targets, SyncTarget(x)
  PROVE  HeldInv' /\ ObservedKept
<1>1. HeldTypes /\ \A y \in Targets : CacheAgrees(y) /\ ReconcileAgrees(y)
  BY Zenon DEF HeldInv
<1>2. /\ ctgt' = [ctgt EXCEPT ![x] = tgt[x]] /\ tHolds' = [tHolds EXCEPT ![x] = @ \cup {"cache"}]
      /\ UNCHANGED <<tgt, ctl>>
  BY DEF SyncTarget, objects
<1>3. /\ HeldTypes'
      /\ \A y \in Targets : /\ ctgt'[y] = IF y = x THEN tgt[y] ELSE ctgt[y]
                            /\ tHolds'[y] = IF y = x THEN tHolds[y] \cup {"cache"} ELSE tHolds[y]
  BY <1>1, <1>2, Zenon DEF HeldTypes
<1>4. \A y \in Targets : CacheAgrees(y)' /\ ReconcileAgrees(y)'
  BY <1>1, <1>2, <1>3 DEF CacheAgrees, ReconcileAgrees
<1> QED
  BY <1>2, <1>3, <1>4, ReadOnly

LEMMA AdministerKeeps ==
  ASSUME HeldInv, NEW x \in Targets, DeleteTarget(x) \/ EditTemplate(x) \/ CreateTarget(x)
  PROVE  HeldInv' /\ ObservedKept
<1>1. tgt[x] \in Target /\ tgt[x].obs <= tgt[x].gen
  BY DEF HeldInv, HeldTypes
<1>2. ASSUME NEW t \in Target, Administer(x, t), t.obs <= t.gen, tgt[x].here => t.obs >= tgt[x].obs
      PROVE  HeldInv' /\ ObservedKept
  <2>1. Put(x, t, {}) /\ UNCHANGED <<ctgt, ctl>>
    BY <1>2 DEF Administer
  <2>2. {} \in SUBSET Workspaces
    OBVIOUS
  <2> QED
    BY <1>2, <2>1, <2>2, ForeignWrite
<1>3. CASE DeleteTarget(x)
  <2> DEFINE t == [tgt[x] EXCEPT !.del = TRUE]
  <2>1. t \in Target /\ t.obs = tgt[x].obs /\ t.gen = tgt[x].gen /\ tgt[x].obs \in Nat
    BY <1>1, Zenon DEF Target
  <2>2. Administer(x, t)
    BY <1>3, Zenon DEF DeleteTarget
  <2> HIDE DEF t
  <2> QED
    BY <1>1, <1>2, <2>1, <2>2
<1>4. CASE EditTemplate(x)
  <2> DEFINE t == [tgt[x] EXCEPT !.gen = @ + 1]
  <2>1. /\ t \in Target /\ t.obs = tgt[x].obs /\ t.gen = tgt[x].gen + 1
        /\ tgt[x].obs \in Nat /\ tgt[x].gen \in Nat
    BY <1>1 DEF Target
  <2>2. Administer(x, t)
    BY <1>4, Zenon DEF EditTemplate
  <2> HIDE DEF t
  <2> QED
    BY <1>1, <1>2, <2>1, <2>2
<1>5. CASE CreateTarget(x)
  <2>1. NewTarget \in Target /\ NewTarget.obs <= NewTarget.gen
    BY DEF NewTarget, Target
  <2> QED
    BY <1>2, <1>5, <2>1 DEF CreateTarget
<1> QED
  BY <1>3, <1>4, <1>5

LEMMA RestartKeeps ==
  ASSUME HeldInv, Restart
  PROVE  HeldInv' /\ ObservedKept
<1>1. /\ UNCHANGED tgt /\ ctgt' = tgt /\ tHolds' = [x \in Targets |-> {"cache"}]
      /\ ctl' = [x \in Targets |-> Idle]
  BY DEF Restart, objects
<1>2. Idle \in Reconciling /\ Idle.gen = 0 /\ HeldTypes
  BY DEF Idle, Reconciling, HeldInv
<1>3. HeldTypes' /\ \A x \in Targets : CacheAgrees(x)' /\ ReconcileAgrees(x)'
  BY <1>1, <1>2 DEF HeldTypes, CacheAgrees, ReconcileAgrees
<1> QED
  BY <1>1, <1>3, ReadOnly

LEMMA HeldStep == HeldInv /\ [Next]_vars => HeldInv' /\ ObservedKept
<1> SUFFICES ASSUME HeldInv, [Next]_vars
             PROVE  HeldInv' /\ ObservedKept
  OBVIOUS
<1>1. ASSUME NEW w \in Workspaces,
             \/ Label(w) \/ RemoveFinalizer(w) \/ SyncWorkspace(w) \/ Refuse(w)
             \/ CreateWorkspace(w) \/ EditWorkspace(w) \/ DeleteWorkspace(w)
      PROVE  HeldInv' /\ ObservedKept
  <2>1. UNCHANGED <<tgt, ctgt, tHolds, ctl>>
    BY <1>1, Zenon DEF Label, RemoveFinalizer, SyncWorkspace, Refuse, CreateWorkspace,
                EditWorkspace, DeleteWorkspace, Request, objects, caches
  <2> QED
    BY <2>1, Untouched
<1>2. CASE UNCHANGED vars
  BY <1>2, Untouched DEF vars, objects, caches
<1>3. CASE Operator
  BY <1>1, <1>3, ControllersKeep, SyncKeeps, AdmissionKeeps DEF Operator
<1>4. CASE Users
  BY <1>1, <1>4, AdministerKeeps DEF Users
<1> QED
  BY <1>2, <1>3, <1>4, RestartKeeps DEF Next

LEMMA HeldInit == Init => HeldInv
<1> SUFFICES ASSUME Init PROVE HeldInv
  OBVIOUS
<1>1. NewTarget \in Target /\ NewTarget.obs <= NewTarget.gen
  BY DEF NewTarget, Target
<1>2. Idle \in Reconciling /\ Idle.gen = 0
  BY DEF Idle, Reconciling
<1> QED
  BY <1>1, <1>2 DEF Init, HeldInv, HeldTypes, CacheAgrees, ReconcileAgrees

\* A template's status.observedGeneration never runs ahead of its generation and
\* never goes back while the template lives, for any number of workspaces,
\* templates, edits, lost replies and restarts: the status is written from a
\* cached copy, and only a copy that is still current is accepted.
THEOREM ObservedGenerationCorrect == Spec => ObservedGeneration
<1>1. Init => HeldInv
  BY HeldInit
<1>2. HeldInv /\ [Next]_vars => HeldInv'
  BY HeldStep
<1>3. HeldInv /\ [Next]_vars => [ObservedKept]_vars
  BY HeldStep
<1> QED
  BY <1>1, <1>2, <1>3, PTL DEF Spec, ObservedGeneration
-------------------------------------------------------------------------------
(***************************************************************************)
(* Types, and no event lost between labels, caches and finalizers.         *)
(***************************************************************************)
Pcs == {"none", "default", "template", "lookup", "strategy", "recheck", "store"}

WorkTypes ==
  /\ wsp \in [Workspaces -> Workspace] /\ cwsp \in [Workspaces -> Workspace]
  /\ wHolds \in [Workspaces -> SUBSET {"cache", "req"}]
  /\ queued \subseteq Targets
  /\ req \in [Workspaces -> [pc: Pcs, op: BOOLEAN, new: Workspace]]
  /\ edits \in Nat /\ crashes \in Nat /\ faults \in Nat

WorkspaceAgrees(w) == "cache" \in wHolds[w] => cwsp[w] = wsp[w]

WorkInv == WorkTypes /\ \A w \in Workspaces : WorkspaceAgrees(w)

\* What the reconcile of x finds under the labels.
Labels(x) ==
  IF x \in Templates THEN HasActiveWorkspacesWithTemplate(x)
  ELSE HasActiveWorkspacesWithAccessStrategy(x)

\* An object the controller is not concerned with any more is as the cached
\* workspaces want it.
AtRest(x) ==
  ctgt[x].here => /\ ctgt[x].fin = Labels(x)
                  /\ x \in Templates /\ ~ctgt[x].del => ctgt[x].obs = ctgt[x].gen
Attended(x) ==
  x \in queued \/ ctl[x].pc # "idle" \/ "cache" \notin tHolds[x] \/ AtRest(x)

\* A running reconcile knows the current labels unless it will be followed by
\* another, and what it writes under a current resourceVersion is a change.
Underway(x) ==
  ctl[x].pc # "idle" =>
    /\ x \in queued \/ ctl[x].want = Labels(x)
    /\ ctl[x].pc = "recheck" => x \in Strategies
    /\ "ctl" \in tHolds[x] => /\ ctl[x].pc = "update" => tgt[x].fin # ctl[x].want
                              /\ ctl[x].gen # 0 => tgt[x].obs # ctl[x].gen

Watched(x) == Attended(x) /\ Underway(x) /\ (tgt[x].del => tgt[x].fin)

WatchInv ==
  /\ HeldInv /\ WorkInv
  /\ \A x \in Targets : Watched(x)

LEMMA Specs ==
  /\ NoWorkspace \in Workspace
  /\ NoRequest \in [pc: Pcs, op: BOOLEAN, new: Workspace] /\ NoRequest.pc = "none"
<1>1. NoWorkspace \in Workspace
  BY DEF NoWorkspace, Workspace
<1> QED
  BY <1>1 DEF NoRequest, Pcs

\* A reference is resolved to a template there is in the cache.
LEMMA Resolved ==
  ASSUME NEW k, ResolveTemplate(k) # None
  PROVE  ResolveTemplate(k) \in Templates
BY DEF ResolveTemplate

\* Defaulting has one name to go on with, or none.
LEMMA OneName ==
  ASSUME NEW n \in Workspace
  PROVE  /\ TemplateNames(n) \subseteq Keys \cup {None}
         /\ \A k, l \in TemplateNames(n) : k = l
<1>1. n.tref \in Keys \cup {None} /\ DefaultTemplates \subseteq ClusterDefaults
  BY DEF Workspace, DefaultTemplates
<1>2. \A x \in DefaultTemplates : Local(x) \in Keys
  BY <1>1 DEF Keys
<1> QED
  BY <1>1, <1>2 DEF TemplateNames

LEMMA DefaultedType ==
  ASSUME NEW n \in Workspace, NEW k \in Keys \cup {None}, k = None \/ ResolveTemplate(k) # None
  PROVE  Defaulted(n, k) \in Workspace
<1>1. CASE k = None
  BY <1>1 DEF Defaulted
<1>2. CASE k # None
  <2> DEFINE s == IF n.sref = None THEN DefaultStrategy[ResolveTemplate(k)] ELSE n.sref
  <2>1. s \in Strategies \cup {None}
    BY <1>2, Resolved, ProtectionAssumption DEF Workspace
  <2>2. Defaulted(n, k) = [n EXCEPT !.tref = k, !.tlab = k, !.sref = s]
    BY <1>2 DEF Defaulted, Workspace
  <2> HIDE DEF s
  <2> QED
    BY <2>1, <2>2, Zenon DEF Workspace
<1> QED
  BY <1>1, <1>2

\* The budgets and what happens to the requests.
LEMMA Budgets ==
  ASSUME WorkTypes
  PROVE  /\ \A o : Spend(o) => faults' \in Nat
         /\ Edit => edits' \in Nat
BY DEF WorkTypes, Spend, Edit

LEMMA RequestSteps ==
  ASSUME WorkTypes, NEW w \in Workspaces
  PROVE  /\ \A p \in Pcs : Step(w, p) => req' \in [Workspaces -> [pc: Pcs, op: BOOLEAN, new: Workspace]]
         /\ Reject(w) => req' \in [Workspaces -> [pc: Pcs, op: BOOLEAN, new: Workspace]]
         /\ \A p \in Pcs, n \in Workspace :
              req' = [req EXCEPT ![w].pc = p, ![w].new = n]
                => req' \in [Workspaces -> [pc: Pcs, op: BOOLEAN, new: Workspace]]
<1> DEFINE R == [pc: Pcs, op: BOOLEAN, new: Workspace]
<1>1. req \in [Workspaces -> R] /\ req[w] \in R
  BY DEF WorkTypes
<1>2. Reject(w) => req' \in [Workspaces -> R]
  BY <1>1, Specs DEF Reject
<1>3. ASSUME NEW p \in Pcs, Step(w, p) PROVE req' \in [Workspaces -> R]
  <2>1. [req[w] EXCEPT !.pc = p] \in R
    BY <1>1
  <2>2. req' = [req EXCEPT ![w] = [req[w] EXCEPT !.pc = p]]
    BY <1>3 DEF Step
  <2> QED
    BY <1>1, <2>1, <2>2
<1>4. ASSUME NEW p \in Pcs, NEW n \in Workspace, req' = [req EXCEPT ![w].pc = p, ![w].new = n]
      PROVE  req' \in [Workspaces -> R]
  <2>1. [req[w] EXCEPT !.pc = p, !.new = n] \in R
    BY <1>1, Zenon
  <2>2. req' = [req EXCEPT ![w] = [req[w] EXCEPT !.pc = p, !.new = n]]
    BY <1>1, <1>4, Zenon
  <2> QED
    BY <1>1, <2>1, <2>2
<1> QED
  BY <1>2, <1>3, <1>4

\* A workspace is written: the cache is behind, or nothing changed.
LEMMA Written ==
  ASSUME WorkInv, NEW w \in Workspaces, NEW n \in Workspace, PutWorkspace(w, n), UNCHANGED cwsp
  PROVE  /\ wsp' \in [Workspaces -> Workspace]
         /\ wHolds' \in [Workspaces -> SUBSET {"cache", "req"}]
         /\ \A v \in Workspaces : WorkspaceAgrees(v)'
<1>1. /\ wsp \in [Workspaces -> Workspace] /\ wHolds \in [Workspaces -> SUBSET {"cache", "req"}]
      /\ \A v \in Workspaces : WorkspaceAgrees(v)
  BY DEF WorkInv, WorkTypes
<1>2. wsp' = [wsp EXCEPT ![w] = n]
  BY DEF PutWorkspace
<1>3. CASE n = wsp[w]
  <2>1. wsp' = wsp /\ wHolds' = wHolds
    BY <1>1, <1>2, <1>3 DEF PutWorkspace
  <2> QED
    BY <1>1, <2>1 DEF WorkspaceAgrees
<1>4. CASE n # wsp[w]
  <2>1. wHolds' = [wHolds EXCEPT ![w] = {}]
    BY <1>4, Zenon DEF PutWorkspace
  <2> QED
    BY <1>1, <1>2, <2>1 DEF WorkspaceAgrees
<1> QED
  BY <1>3, <1>4

LEMMA RequestWork ==
  ASSUME WorkInv, NEW w \in Workspaces, NEW n \in Workspace, NEW op \in BOOLEAN,
         NEW fresh \in BOOLEAN, Request(w, n, op, fresh), edits' \in Nat
  PROVE  WorkInv'
<1>1. WorkTypes /\ \A v \in Workspaces : WorkspaceAgrees(v)
  BY DEF WorkInv
<1>2. /\ req' = [req EXCEPT ![w] = [pc |-> "default", op |-> op, new |-> n]]
      /\ wHolds' = [wHolds EXCEPT ![w] = IF fresh THEN @ \cup {"req"} ELSE @ \ {"req"}]
      /\ UNCHANGED <<wsp, cwsp, queued, crashes, faults>>
  BY DEF Request, objects
<1>3. wHolds' \in [Workspaces -> SUBSET {"cache", "req"}]
  BY <1>1, <1>2, Zenon DEF WorkTypes
<1>4. req' \in [Workspaces -> [pc: Pcs, op: BOOLEAN, new: Workspace]]
  BY <1>1, <1>2 DEF WorkTypes, Pcs
<1>5. \A v \in Workspaces : "cache" \in wHolds'[v] => "cache" \in wHolds[v]
  BY ZenonT(30), <1>1, <1>2 DEF WorkTypes
<1> QED
  BY <1>1, <1>2, <1>3, <1>4, <1>5 DEF WorkInv, WorkTypes, WorkspaceAgrees

LEMMA AdmissionWork ==
  ASSUME WorkInv, NEW w \in Workspaces, Admission(w) \/ Refuse(w)
  PROVE  WorkInv'
<1> DEFINE Reqs == [Workspaces -> [pc: Pcs, op: BOOLEAN, new: Workspace]]
<1>1. /\ WorkTypes /\ \A v \in Workspaces : WorkspaceAgrees(v)
      /\ req[w].new \in Workspace
  BY DEF WorkInv, WorkTypes
<1>2. ASSUME req' \in Reqs, faults' \in Nat, UNCHANGED <<wsp, cwsp, wHolds, queued, edits, crashes>>
      PROVE  WorkInv'
  BY <1>1, <1>2 DEF WorkInv, WorkTypes, WorkspaceAgrees
<1>3. faults \in Nat /\ \A o : Spend(o) => faults' \in Nat
  BY <1>1, Budgets DEF WorkTypes
<1>4. \A p \in Pcs : Step(w, p) => req' \in Reqs
  BY <1>1, RequestSteps
<1>5. Reject(w) => req' \in Reqs
  BY <1>1, RequestSteps
<1>6. {"template", "lookup", "strategy", "recheck", "store"} \subseteq Pcs
  BY DEF Pcs
<1>7. CASE Default(w)
  <2>1. UNCHANGED <<wsp, cwsp, wHolds, queued, edits, crashes, faults>>
    BY <1>7 DEF Default, objects, budgets
  <2>2. CASE Reject(w)
    BY <1>2, <1>3, <1>5, <2>1, <2>2
  <2>3. CASE ~Reject(w)
    <3>1. PICK k \in TemplateNames(req[w].new) : k = None \/ ResolveTemplate(k) # None
      BY <1>7, <2>3 DEF Default
    <3>2. PICK p \in {"template", "lookup"}, l \in TemplateNames(req[w].new) :
            req' = [req EXCEPT ![w].pc = p, ![w].new = Defaulted(req[w].new, l)]
      BY <1>7, <2>3 DEF Default
    <3>3. k = l /\ k \in Keys \cup {None}
      BY <1>1, OneName
    <3>4. Defaulted(req[w].new, l) \in Workspace
      BY <1>1, <3>1, <3>3, DefaultedType
    <3>5. req' \in Reqs
      BY <1>1, <1>6, <3>2, <3>4, RequestSteps, Zenon
    <3> QED
      BY <1>2, <1>3, <2>1, <3>5
  <2> QED
    BY <2>2, <2>3
<1>8. CASE AddTemplateFinalizer(w)
  <2>1. /\ (Step(w, "lookup") \/ Reject(w)) /\ \E o : Spend(o)
        /\ UNCHANGED <<wsp, cwsp, wHolds, queued, edits, crashes>>
    BY <1>8, Zenon DEF AddTemplateFinalizer, Update
  <2> QED
    BY <1>2, <1>3, <1>4, <1>5, <1>6, <2>1, Zenon
<1>9. CASE GetAccessStrategy(w)
  <2>1. /\ Step(w, "store") \/ Step(w, "strategy") \/ Reject(w)
        /\ UNCHANGED <<wsp, cwsp, wHolds, queued, edits, crashes, faults>>
    BY <1>9, Zenon DEF GetAccessStrategy, objects, budgets
  <2> QED
    BY <1>2, <1>3, <1>4, <1>5, <1>6, <2>1, Zenon
<1>10. CASE AddAccessStrategyFinalizer(w)
  <2>1. /\ Step(w, "store") \/ Step(w, "recheck") \/ Reject(w)
        /\ \E o : Spend(o)
        /\ UNCHANGED <<wsp, cwsp, wHolds, queued, edits, crashes>>
    BY <1>10 DEF AddAccessStrategyFinalizer, Update
  <2> QED
    BY <1>2, <1>3, <1>4, <1>5, <1>6, <2>1
<1>11. CASE RecheckAccessStrategy(w) \/ Refuse(w)
  <2>1. /\ Step(w, "store") \/ Reject(w)
        /\ UNCHANGED <<wsp, cwsp, wHolds, queued, edits, crashes, faults>>
    BY <1>11 DEF RecheckAccessStrategy, Refuse, objects, caches, budgets
  <2> QED
    BY <1>2, <1>3, <1>4, <1>5, <1>6, <2>1, Zenon
<1>12. CASE Store(w)
  <2>1. /\ PutWorkspace(w, req[w].new) \/ UNCHANGED <<wsp, wHolds>>
        /\ Reject(w) /\ UNCHANGED <<cwsp, queued, edits, crashes, faults>>
    BY <1>12, Zenon DEF Store, budgets
  <2>2. CASE PutWorkspace(w, req[w].new)
    BY <1>1, <1>5, <2>1, <2>2, Written DEF WorkInv, WorkTypes
  <2>3. CASE UNCHANGED <<wsp, wHolds>>
    BY <1>2, <1>3, <1>5, <2>1, <2>3
  <2> QED
    BY <2>1, <2>2, <2>3, Zenon
<1> QED
  BY <1>7, <1>8, <1>9, <1>10, <1>11, <1>12 DEF Admission

\* A step of the controllers, informers and administrators of the targets.
LEMMA TargetWork ==
  ASSUME WorkInv, UNCHANGED <<wsp, cwsp, wHolds, req>>, queued' \subseteq Targets,
         edits' \in Nat, crashes' \in Nat, faults' \in Nat
  PROVE  WorkInv'
BY DEF WorkInv, WorkTypes, WorkspaceAgrees

LEMMA WorkInit == Init => WorkInv
<1> SUFFICES ASSUME Init PROVE WorkInv
  OBVIOUS
<1> QED
  BY Specs DEF Init, WorkInv, WorkTypes, WorkspaceAgrees

LEMMA WorkStep == WorkInv /\ [Next]_vars => WorkInv'
<1> SUFFICES ASSUME WorkInv, [Next]_vars PROVE WorkInv'
  OBVIOUS
<1>1. WorkTypes /\ \A v \in Workspaces : WorkspaceAgrees(v)
  BY DEF WorkInv
<1>2. /\ queued \subseteq Targets /\ edits \in Nat /\ crashes \in Nat /\ faults \in Nat
      /\ \A o : Spend(o) => faults' \in Nat
      /\ Edit => edits' \in Nat
  BY <1>1, Budgets DEF WorkTypes
<1>3. CASE UNCHANGED vars
  BY <1>2, <1>3, TargetWork DEF vars, objects, caches, budgets
<1>4. ASSUME NEW x \in Targets, Controllers(x) PROVE WorkInv'
  <2>1. UNCHANGED <<wsp, cwsp, wHolds, req, edits, crashes>>
    BY <1>4 DEF Controllers, ReconcileTemplate, ReconcileAccessStrategy, UpdateFinalizer, Recheck,
                UpdateStatusObservedGeneration, objects, caches, budgets
  <2>2. UNCHANGED faults \/ \E o : Spend(o)
    BY <1>4 DEF Controllers, ReconcileTemplate, ReconcileAccessStrategy, UpdateFinalizer, Recheck,
                UpdateStatusObservedGeneration, Update, budgets
  <2>3. queued' \in {queued, queued \ {x}, queued \cup {x}}
    BY <1>4 DEF Controllers, ReconcileTemplate, ReconcileAccessStrategy, UpdateFinalizer, Recheck,
                UpdateStatusObservedGeneration, Begin, Done, Retry
  <2> QED
    BY <1>2, <2>1, <2>2, <2>3, TargetWork
<1>5. ASSUME NEW x \in Targets, SyncTarget(x) PROVE WorkInv'
  BY <1>2, <1>5, TargetWork DEF SyncTarget, objects, budgets
<1>6. ASSUME NEW x \in Targets, DeleteTarget(x) \/ EditTemplate(x) \/ CreateTarget(x) PROVE WorkInv'
  <2>1. Edit /\ UNCHANGED <<wsp, cwsp, wHolds, queued, req, crashes, faults>>
    BY <1>6 DEF DeleteTarget, EditTemplate, CreateTarget, Administer
  <2> QED
    BY <1>2, <2>1, TargetWork
<1>7. ASSUME NEW w \in Workspaces, Label(w) PROVE WorkInv'
  <2>1. cwsp[w] \in Workspace
    BY <1>1 DEF WorkTypes
  <2>2. Labelled(cwsp[w]) \in Workspace
    BY <2>1, Zenon DEF Labelled, Workspace
  <2> DEFINE fresh == "cache" \in wHolds[w]
  <2>3. Request(w, Labelled(cwsp[w]), TRUE, fresh) /\ edits' \in Nat
    BY <1>2, <1>7, Zenon DEF Label
  <2>4. fresh \in BOOLEAN
    OBVIOUS
  <2> HIDE DEF fresh
  <2> QED
    BY <2>2, <2>3, <2>4, RequestWork, Zenon
<1>8. ASSUME NEW w \in Workspaces, CreateWorkspace(w) \/ EditWorkspace(w) PROVE WorkInv'
  <2>1. PICK k \in TemplateRefs, s \in StrategyRefs, n \in {NoWorkspace, wsp[w]}, b \in BOOLEAN :
          Request(w, [n EXCEPT !.here = b, !.tref = k, !.sref = s], FALSE, TRUE)
    <3>1. wsp[w] \in Workspace
      BY <1>1 DEF WorkTypes
    <3>2. CASE CreateWorkspace(w)
      BY <3>2, Zenon DEF CreateWorkspace
    <3>3. CASE EditWorkspace(w)
      <4>1. wsp[w].here = TRUE
        BY <1>8, <3>1, <3>3, Zenon DEF EditWorkspace, Active, Workspace
      <4>2. \A k, s : [wsp[w] EXCEPT !.tref = k, !.sref = s]
                        = [wsp[w] EXCEPT !.here = TRUE, !.tref = k, !.sref = s]
        BY <3>1, <4>1, Zenon DEF Workspace
      <4> QED
        BY <3>3, <4>2, Zenon DEF EditWorkspace
    <3> QED
      BY <1>8, <3>2, <3>3, Zenon
  <2>2. n \in Workspace /\ k \in Keys \cup {None} /\ s \in Strategies \cup {None}
    BY <1>1, Specs, ProtectionAssumption DEF WorkTypes, Keys
  <2>3. [n EXCEPT !.here = b, !.tref = k, !.sref = s] \in Workspace
    BY <2>2, Zenon DEF Workspace
  <2>4. Edit
    BY <1>8, Zenon DEF CreateWorkspace, EditWorkspace
  <2> QED
    BY <1>2, <2>1, <2>3, <2>4, RequestWork, Zenon
<1>9. ASSUME NEW w \in Workspaces, RemoveFinalizer(w) \/ DeleteWorkspace(w) PROVE WorkInv'
  <2>1. PICK n \in {NoWorkspace, [wsp[w] EXCEPT !.del = TRUE]} : PutWorkspace(w, n)
    BY <1>9 DEF RemoveFinalizer, DeleteWorkspace
  <2>2. n \in Workspace
    <3>1. wsp[w] \in Workspace
      BY <1>1 DEF WorkTypes
    <3> QED
      BY <2>1, <3>1, Specs, ZenonT(30) DEF Workspace
  <2>3. UNCHANGED <<cwsp, queued, req, crashes, faults>> /\ edits' \in Nat
    BY <1>2, <1>9 DEF RemoveFinalizer, DeleteWorkspace, budgets
  <2> QED
    BY <1>1, <2>1, <2>2, <2>3, Written DEF WorkInv, WorkTypes
<1>10. ASSUME NEW w \in Workspaces, SyncWorkspace(w) PROVE WorkInv'
  <2>1. /\ cwsp' = [cwsp EXCEPT ![w] = wsp[w]] /\ wHolds' = [wHolds EXCEPT ![w] = @ \cup {"cache"}]
        /\ UNCHANGED <<wsp, req, edits, crashes, faults>> /\ queued' \subseteq Targets
    BY <1>2, <1>10 DEF SyncWorkspace, FindTargets, objects, budgets
  <2> QED
    BY <1>1, <2>1, Zenon DEF WorkInv, WorkTypes, WorkspaceAgrees
<1>11. CASE Restart
  <2>1. /\ cwsp' = wsp /\ wHolds' = [w \in Workspaces |-> {"cache"}]
        /\ queued' \subseteq Targets /\ req' = [w \in Workspaces |-> NoRequest]
        /\ crashes' = crashes + 1 /\ UNCHANGED <<wsp, edits, faults>>
    BY <1>11 DEF Restart, objects
  <2> QED
    BY <1>1, <2>1, Specs DEF WorkInv, WorkTypes, WorkspaceAgrees
<1> QED
  BY <1>3, <1>4, <1>5, <1>6, <1>7, <1>8, <1>9, <1>10, <1>11, AdmissionWork DEF Next, Operator, Users

\* Every variable has its type: whatever the webhook defaults into a workspace is a
\* reference it may carry, and no request is left in an undefined place.
THEOREM Types == Spec => []TypeOK
<1>1. HeldInv /\ WorkInv => TypeOK
  <2>1. Reconciling \subseteq [pc: {"idle", "update", "recheck", "status"}, want: BOOLEAN, gen: Nat]
    BY ZenonT(30) DEF Reconciling
  <2> QED
    BY <2>1 DEF HeldInv, WorkInv, HeldTypes, WorkTypes, Pcs, TypeOK
<1>2. HeldInv /\ [Next]_vars => HeldInv'
  BY HeldStep
<1> QED
  BY <1>1, <1>2, HeldInit, WorkInit, WorkStep, PTL DEF Spec

\* An object stays watched when its reconcile does not move.
LEMMA Undisturbed ==
  ASSUME NEW x \in Targets, Watched(x), ctl'[x] = ctl[x],
         x \in queued => x \in queued',
         x \in queued' \/ (Labels(x)' <=> Labels(x)),
         x \in queued' \/ "cache" \notin tHolds'[x] \/ ("cache" \in tHolds[x] /\ ctgt'[x] = ctgt[x]),
         "ctl" \notin tHolds'[x] \/ ("ctl" \in tHolds[x] /\ tgt'[x] = tgt[x]),
         tgt'[x].del => tgt'[x].fin
  PROVE  Watched(x)'
<1>1. Labels(x) \in BOOLEAN /\ Labels(x)' \in BOOLEAN
  BY Zenon DEF Labels, HasActiveWorkspacesWithTemplate, HasActiveWorkspacesWithAccessStrategy
<1>2. x \in queued' \/ Labels(x)' = Labels(x)
  BY <1>1, Zenon
<1>3. Attended(x)'
  <2>1. AtRest(x) /\ Labels(x)' = Labels(x) /\ ctgt'[x] = ctgt[x] => AtRest(x)'
    BY ZenonT(30) DEF AtRest
  <2> QED
    BY <1>2, <2>1, Zenon DEF Watched, Attended
<1>4. Underway(x)'
  BY <1>2 DEF Watched, Underway
<1> QED
  BY <1>3, <1>4 DEF Watched

LEMMA SameLabels ==
  ASSUME UNCHANGED cwsp, NEW x
  PROVE  Labels(x)' <=> Labels(x)
BY DEF Labels, HasActiveWorkspacesWithTemplate, HasActiveWorkspacesWithAccessStrategy

\* The workspace event queues every target for which the labels found changed.
LEMMA LabelEvent ==
  ASSUME WorkInv, NEW w \in Workspaces, SyncWorkspace(w), NEW x \in Targets, x \notin queued'
  PROVE  Labels(x)' <=> Labels(x)
<1>1. cwsp \in [Workspaces -> Workspace] /\ wsp \in [Workspaces -> Workspace]
  BY DEF WorkInv, WorkTypes
<1>2. /\ cwsp' = [cwsp EXCEPT ![w] = wsp[w]]
      /\ x \notin FindTargets(cwsp[w]) /\ x \notin FindTargets(wsp[w])
  BY DEF SyncWorkspace
<1>3. \A n \in {cwsp[w], wsp[w]} : Active(n) => n.tlab # x /\ n.slab # x
  BY <1>2 DEF FindTargets, Active
<1>4. \A v \in Workspaces : cwsp'[v] = IF v = w THEN wsp[w] ELSE cwsp[v]
  BY <1>1, <1>2
<1>5. HasActiveWorkspacesWithTemplate(x)' <=> HasActiveWorkspacesWithTemplate(x)
  BY <1>3, <1>4 DEF HasActiveWorkspacesWithTemplate, Active
<1>6. HasActiveWorkspacesWithAccessStrategy(x)' <=> HasActiveWorkspacesWithAccessStrategy(x)
  BY <1>3, <1>4 DEF HasActiveWorkspacesWithAccessStrategy, Active
<1> QED
  BY <1>5, <1>6 DEF Labels

\* What the API server keeps of an object marked for deletion has a finalizer.
LEMMA SettleFin ==
  ASSUME NEW t, Settle(t).del
  PROVE  Settle(t).fin
BY DEF Settle, NoTarget, NewTarget

\* A write of x by another than the controller.
LEMMA ForeignWatched ==
  ASSUME WatchInv, NEW x, NEW t, NEW keep \in SUBSET Workspaces, Put(x, t, keep),
         x \in Targets => Settle(t) \in Target,
         UNCHANGED <<ctgt, cwsp, ctl, queued>>
  PROVE  \A y \in Targets : Watched(y)'
<1>1. HeldInv
  BY Zenon DEF WatchInv
<1>2. \A y \in Targets : Rewritten(y, IF y = x THEN Settle(t) ELSE tgt[y], keep)
  BY <1>1, PutEffect
<1>3. "cache" \notin keep /\ "ctl" \notin keep
  BY ProtectionAssumption, ZenonT(30)
<1>4. ASSUME NEW y \in Targets PROVE Watched(y)'
  <2>1. Watched(y) /\ (Labels(y)' <=> Labels(y))
    BY SameLabels, Zenon DEF WatchInv
  <2>2. /\ "cache" \notin tHolds'[y] \/ "cache" \in tHolds[y]
        /\ "ctl" \notin tHolds'[y] \/ ("ctl" \in tHolds[y] /\ tgt'[y] = tgt[y])
    BY <1>2, <1>3, ZenonT(30) DEF Rewritten
  <2>3. tgt'[y].del => tgt'[y].fin
    BY <1>2, <2>1, SettleFin DEF Rewritten, Watched
  <2> QED
    BY <2>1, <2>2, <2>3, Undisturbed
<1> QED
  BY <1>4

\* A step that writes no target and moves no reconcile.
LEMMA ReadWatched ==
  ASSUME WatchInv, UNCHANGED <<tgt, ctgt, cwsp, ctl, queued>>,
         UNCHANGED tHolds \/ \E k, w : w \in Workspaces /\ Copied(k, w)
  PROVE  \A y \in Targets : Watched(y)'
<1>1. HeldInv
  BY ZenonT(30) DEF WatchInv
<1>2. \A y \in Targets : /\ "cache" \in tHolds'[y] => "cache" \in tHolds[y]
                         /\ "ctl" \in tHolds'[y] => "ctl" \in tHolds[y]
  <2>1. CASE UNCHANGED tHolds
    BY <2>1
  <2>2. ASSUME NEW k, NEW w \in Workspaces, Copied(k, w)
        PROVE  \A y \in Targets : /\ "cache" \in tHolds'[y] => "cache" \in tHolds[y]
                                  /\ "ctl" \in tHolds'[y] => "ctl" \in tHolds[y]
    <3>1. w # "ctl" /\ w \in {"ctl"} \cup Workspaces
      BY ProtectionAssumption, ZenonT(30)
    <3> QED
      BY <1>1, <2>2, <3>1, CopiedEffect
  <2> QED
    BY <2>1, <2>2
<1>3. ASSUME NEW y \in Targets PROVE Watched(y)'
  <2>1. Watched(y) /\ (Labels(y)' <=> Labels(y)) /\ (tgt'[y].del => tgt'[y].fin)
    BY SameLabels, Zenon DEF WatchInv, Watched
  <2> QED
    BY <1>2, <2>1, Undisturbed
<1> QED
  BY <1>3

\* The reconcile of x disturbs no other object.
LEMMA Elsewhere ==
  ASSUME WatchInv, NEW x \in Targets, Controllers(x), NEW y \in Targets, y # x
  PROVE  Watched(y)'
<1>1. HeldTypes /\ Watched(y)
  BY DEF WatchInv, HeldInv
<1>2. UNCHANGED <<ctgt, cwsp>>
  BY DEF Controllers, ReconcileTemplate, ReconcileAccessStrategy, UpdateFinalizer, Recheck,
         UpdateStatusObservedGeneration, objects, caches
<1>3. queued' \in {queued, queued \ {x}, queued \cup {x}}
  BY DEF Controllers, ReconcileTemplate, ReconcileAccessStrategy, UpdateFinalizer, Recheck,
         UpdateStatusObservedGeneration, Begin, Done, Retry
<1>4. UNCHANGED ctl \/ \E c : Goto(x, c)
  BY DEF Controllers, ReconcileTemplate, ReconcileAccessStrategy, UpdateFinalizer, Recheck,
         UpdateStatusObservedGeneration, Done, Retry
<1>5. \/ UNCHANGED <<tgt, tHolds>>
      \/ UNCHANGED tgt /\ Copied(x, "ctl")
      \/ \E t : Put(x, t, {"ctl"})
  BY DEF Controllers, ReconcileTemplate, ReconcileAccessStrategy, UpdateFinalizer, Recheck,
         UpdateStatusObservedGeneration, Update, objects, caches
<1>6. ctl'[y] = ctl[y]
  BY <1>1, <1>4 DEF HeldTypes, Goto
<1>7. tgt'[y] = tgt[y] /\ tHolds'[y] = tHolds[y]
  BY <1>1, <1>5 DEF HeldTypes, Copied, Put
<1>8. Labels(y)' <=> Labels(y)
  BY <1>2, SameLabels
<1>9. tgt'[y].del => tgt'[y].fin
  BY <1>1, <1>7, Zenon DEF Watched
<1> QED
  BY <1>1, <1>2, <1>3, <1>6, <1>7, <1>8, <1>9, Undisturbed, Zenon

\* A reconcile decides: to stop because all is well in the cached copy, or to write.
LEMMA DecisionWatched ==
  ASSUME WatchInv, NEW x \in Targets, NEW c, Goto(x, c), UNCHANGED <<tgt, ctgt, cwsp>>,
         \/ c.pc = "idle" /\ UNCHANGED tHolds /\ ("cache" \in tHolds[x] => AtRest(x))
         \/ /\ c.pc \in {"update", "status"} /\ Copied(x, "ctl") /\ c.want = Labels(x)
            /\ c.pc = "update" => ctgt[x].fin # c.want
            /\ c.gen # 0 => ctgt[x].obs # c.gen
  PROVE  Watched(x)'
<1>1. HeldTypes /\ HeldInv /\ Watched(x) /\ CacheAgrees(x)
  BY Zenon DEF WatchInv, HeldInv
<1>2. ctl'[x] = c
  BY <1>1 DEF HeldTypes, Goto
<1>3. (Labels(x)' <=> Labels(x)) /\ Labels(x) \in BOOLEAN /\ Labels(x)' \in BOOLEAN
  BY ZenonT(30), SameLabels DEF Labels, HasActiveWorkspacesWithTemplate, HasActiveWorkspacesWithAccessStrategy
<1>4. Labels(x)' = Labels(x)
  BY ZenonT(30), <1>3
<1>5. tgt'[x].del => tgt'[x].fin
  BY <1>1 DEF Watched
<1>6. CASE c.pc = "idle" /\ UNCHANGED tHolds /\ ("cache" \in tHolds[x] => AtRest(x))
  BY <1>2, <1>4, <1>5, <1>6, Zenon DEF Watched, Attended, Underway, AtRest
<1>7. CASE /\ c.pc \in {"update", "status"} /\ Copied(x, "ctl") /\ c.want = Labels(x)
           /\ c.pc = "update" => ctgt[x].fin # c.want
           /\ c.gen # 0 => ctgt[x].obs # c.gen
  <2>1. "ctl" \in tHolds'[x] => ctgt[x] = tgt[x]
    BY ZenonT(30), <1>1, <1>7, CopiedEffect DEF CacheAgrees
  <2>2. c.pc # "idle" /\ c.pc # "recheck"
    BY <1>7, ZenonT(30)
  <2>3. Underway(x)'
    BY <1>2, <1>4, <1>7, <2>1, <2>2 DEF Underway
  <2> QED
    BY <1>2, <1>5, <2>2, <2>3, ZenonT(30) DEF Watched, Attended
<1> QED
  BY <1>6, <1>7, Zenon

\* A reconcile's write that was accepted leaves the cache behind.
LEMMA WriteWatched ==
  ASSUME WatchInv, NEW x \in Targets, NEW t \in Target, Put(x, t, {"ctl"}), tgt[x].here,
         t # tgt[x], NEW c, Goto(x, c), UNCHANGED cwsp,
         queued \subseteq queued', ctl[x].pc # "idle",
         \/ c.pc = "idle"
         \/ /\ c.pc = "status" /\ c.want = ctl[x].want
            /\ c.gen # 0 => t.obs # c.gen /\ ~t.del
  PROVE  Watched(x)'
<1>1. HeldTypes /\ HeldInv /\ Watched(x)
  BY DEF WatchInv, HeldInv
<1>2. ctl'[x] = c
  BY <1>1, ZenonT(30) DEF HeldTypes, Goto
<1>3. (Labels(x)' <=> Labels(x)) /\ Labels(x) \in BOOLEAN /\ Labels(x)' \in BOOLEAN
  BY SameLabels DEF Labels, HasActiveWorkspacesWithTemplate, HasActiveWorkspacesWithAccessStrategy
<1>4. Labels(x)' = Labels(x)
  BY ZenonT(30), <1>3
<1>5. Settle(t) \in Target
  BY SettleType, ZenonT(30)
<1>6. Rewritten(x, Settle(t), {"ctl"})
  BY <1>1, <1>5, PutEffect
<1>7. Settle(t) # tgt[x] /\ (~t.del => Settle(t) = t)
  BY Zenon DEF Settle, NoTarget, NewTarget
<1>8. tgt'[x] = Settle(t) /\ "cache" \notin tHolds'[x]
  BY <1>6, <1>7, Zenon DEF Rewritten
<1>9. tgt'[x].del => tgt'[x].fin
  BY <1>8, SettleFin, Zenon
<1>10. Underway(x)'
  <2>1. CASE c.pc = "idle"
    BY <1>2, <2>1, Zenon DEF Underway
  <2>2. CASE c.pc = "status" /\ c.want = ctl[x].want /\ (c.gen # 0 => t.obs # c.gen /\ ~t.del)
    <3>1. x \in queued' \/ c.want = Labels(x)'
      BY <1>1, <1>4, <2>2 DEF Watched, Underway
    <3>2. c.gen # 0 => tgt'[x].obs # c.gen
      BY ZenonT(30), <1>7, <1>8, <2>2
    <3> QED
      BY <1>2, <2>2, <3>1, <3>2, ZenonT(30) DEF Underway
  <2> QED
    BY <2>1, <2>2, Zenon
<1> QED
  BY ZenonT(30), <1>8, <1>9, <1>10 DEF Watched, Attended

\* A reconcile that goes back to the queue, whatever it wrote.
LEMMA RetryWatched ==
  ASSUME WatchInv, NEW x \in Targets, Retry(x), tgt'[x].del => tgt'[x].fin
  PROVE  Watched(x)'
<1>1. HeldTypes
  BY DEF WatchInv, HeldInv
<1>2. ctl'[x] = Idle /\ x \in queued'
  BY <1>1 DEF HeldTypes, Retry, Goto
<1>3. ctl'[x].pc = "idle"
  BY <1>2 DEF Idle
<1> QED
  BY <1>2, <1>3, Zenon DEF Watched, Attended, Underway

LEMMA ControllersWatched ==
  ASSUME WatchInv, NEW x \in Targets, Controllers(x)
  PROVE  Watched(x)'
<1>1. HeldTypes /\ WorkInv /\ Watched(x) /\ CacheAgrees(x) /\ ReconcileAgrees(x)
  BY DEF WatchInv, HeldInv
<1>2. tgt[x] \in Target /\ ctgt[x] \in Target /\ ctl[x] \in Reconciling /\ tgt[x].obs <= tgt[x].gen
  BY <1>1, Zenon DEF HeldTypes, WatchInv, HeldInv
<1>3. Labels(x) \in BOOLEAN /\ Idle.pc = "idle"
  BY Zenon DEF Labels, HasActiveWorkspacesWithTemplate, HasActiveWorkspacesWithAccessStrategy, Idle
<1>4. CASE ReconcileTemplate(x)
  <2> DEFINE gen == IF ~ctgt[x].del /\ ctgt[x].obs < ctgt[x].gen THEN ctgt[x].gen ELSE 0
             c(p) == [pc |-> p, want |-> Labels(x), gen |-> gen]
  <2>1. x \in Templates /\ Labels(x) = HasActiveWorkspacesWithTemplate(x)
    BY ZenonT(30), <1>4 DEF ReconcileTemplate, Labels
  <2>2. /\ gen # 0 => ctgt[x].obs # gen
        /\ gen = 0 /\ "cache" \in tHolds[x] /\ ~ctgt[x].del => ctgt[x].obs = ctgt[x].gen
    <3>1. ctgt[x].obs \in Nat /\ ctgt[x].gen \in Nat
      BY <1>2 DEF Target
    <3>2. "cache" \in tHolds[x] => ctgt[x].obs <= ctgt[x].gen
      BY <1>1, <1>2, Zenon DEF CacheAgrees
    <3> QED
      BY <3>1, <3>2
  <2>3. UNCHANGED <<tgt, ctgt, cwsp>>
    BY <1>4, Zenon DEF ReconcileTemplate, objects
  <2>4. \/ /\ Goto(x, Idle) /\ UNCHANGED tHolds
           /\ \/ ~ctgt[x].here \/ DeletionBlocked(ctgt[x], Labels(x))
              \/ ctgt[x].fin = Labels(x) /\ gen = 0
        \/ Goto(x, c("update")) /\ Copied(x, "ctl") /\ ctgt[x].fin # Labels(x)
        \/ Goto(x, c("status")) /\ Copied(x, "ctl")
    BY <1>4, <2>1, Zenon DEF ReconcileTemplate
  <2>5. \A p \in {"update", "status"} : c(p).pc = p /\ c(p).want = Labels(x) /\ c(p).gen = gen
    BY ZenonT(30)
  <2> HIDE DEF c, gen
  <2>6. CASE /\ Goto(x, Idle) /\ UNCHANGED tHolds
             /\ \/ ~ctgt[x].here \/ DeletionBlocked(ctgt[x], Labels(x))
                \/ ctgt[x].fin = Labels(x) /\ gen = 0
    <3>1. ASSUME "cache" \in tHolds[x], ctgt[x].here, DeletionBlocked(ctgt[x], Labels(x))
          PROVE  ctgt[x].fin = Labels(x) /\ ctgt[x].del
      <4>1. ctgt[x].del /\ ctgt[x].fin /\ Labels(x)
        BY <1>1, <3>1, Zenon DEF CacheAgrees, Watched, DeletionBlocked
      <4> QED
        BY <1>2, <1>3, <4>1, Zenon DEF Target
    <3>2. "cache" \in tHolds[x] => AtRest(x)
      BY <2>2, <2>6, <3>1 DEF AtRest
    <3> QED
      BY <1>3, <2>3, <2>6, <3>2, DecisionWatched, Zenon
  <2>7. CASE Goto(x, c("update")) /\ Copied(x, "ctl") /\ ctgt[x].fin # Labels(x)
    BY ZenonT(30), <2>2, <2>3, <2>5, <2>7, DecisionWatched
  <2>8. CASE Goto(x, c("status")) /\ Copied(x, "ctl")
    BY ZenonT(30), <2>2, <2>3, <2>5, <2>8, DecisionWatched
  <2> QED
    BY <2>4, <2>6, <2>7, <2>8
<1>5. CASE ReconcileAccessStrategy(x)
  <2> DEFINE c == [pc |-> "update", want |-> Labels(x), gen |-> 0]
  <2>1. x \notin Templates /\ Labels(x) = HasActiveWorkspacesWithAccessStrategy(x)
    BY <1>5, ProtectionAssumption DEF ReconcileAccessStrategy, Labels
  <2>2. UNCHANGED <<tgt, ctgt, cwsp>> /\ ctl[x].pc = "idle"
    BY <1>5, ZenonT(30) DEF ReconcileAccessStrategy, objects, Begin
  <2>3. \/ UNCHANGED <<ctl, tHolds>> /\ (ctgt[x].here => ctgt[x].fin = Labels(x))
        \/ Goto(x, c) /\ Copied(x, "ctl") /\ ctgt[x].fin # Labels(x)
    BY <1>5, <2>1 DEF ReconcileAccessStrategy
  <2>4. c.pc = "update" /\ c.want = Labels(x) /\ c.gen = 0
    BY Zenon
  <2> HIDE DEF c
  <2>5. CASE UNCHANGED <<ctl, tHolds>> /\ (ctgt[x].here => ctgt[x].fin = Labels(x))
    <3>1. Goto(x, ctl[x])
      BY <1>1, <2>5 DEF HeldTypes, Goto
    <3>2. AtRest(x)
      BY <2>1, <2>5, ZenonT(30) DEF AtRest
    <3> QED
      BY <2>2, <2>5, <3>1, <3>2, DecisionWatched
  <2>6. CASE Goto(x, c) /\ Copied(x, "ctl") /\ ctgt[x].fin # Labels(x)
    BY <2>2, <2>4, <2>6, DecisionWatched
  <2> QED
    BY <2>3, <2>5, <2>6, Zenon
<1>6. CASE Recheck(x)
  <2>1. UNCHANGED <<tgt, ctgt, cwsp, tHolds>> /\ ctl[x].pc = "recheck"
    BY <1>6, Zenon DEF Recheck, objects, caches
  <2>2. tgt'[x].del => tgt'[x].fin
    BY <1>1, <2>1 DEF Watched
  <2>3. CASE Retry(x)
    BY <2>2, <2>3, RetryWatched
  <2>4. CASE ~Retry(x)
    <3>1. Goto(x, Idle) /\ UNCHANGED queued /\ ctgt[x].fin = ctl[x].want
      BY <1>6, <2>4, Zenon DEF Recheck, Done
    <3>2. x \notin Templates /\ (x \in queued \/ ctl[x].want = Labels(x))
      BY <1>1, <2>1, ProtectionAssumption, Zenon DEF Watched, Underway
    <3>3. CASE x \in queued
      <4>1. ctl'[x] = Idle
        BY <1>1, <3>1, Zenon DEF HeldTypes, Goto
      <4> QED
        BY <1>3, <2>2, <3>1, <3>3, <4>1, Zenon DEF Watched, Attended, Underway
    <3>4. CASE ctl[x].want = Labels(x)
      <4>1. AtRest(x)
        BY <3>1, <3>2, <3>4 DEF AtRest
      <4> QED
        BY <1>3, <2>1, <3>1, <4>1, DecisionWatched, Zenon
    <3> QED
      BY <3>2, <3>3, <3>4, Zenon
  <2> QED
    BY <2>3, <2>4, Zenon
<1>7. CASE UpdateFinalizer(x)
  <2> DEFINE t == [tgt[x] EXCEPT !.fin = ctl[x].want]
             go == [ctl[x] EXCEPT !.pc = "status"]
             again == [ctl[x] EXCEPT !.pc = "recheck"]
  <2>1. t \in Target /\ t.obs = tgt[x].obs /\ t.fin = ctl[x].want /\ t.del = tgt[x].del
    BY <1>2 DEF Target, Reconciling
  <2>2. /\ go.pc = "status" /\ go.want = ctl[x].want /\ go.gen = ctl[x].gen
        /\ again.pc = "recheck" /\ again.want = ctl[x].want /\ again.gen = ctl[x].gen
    BY <1>2 DEF Reconciling
  <2>3. PICK o \in Replies :
          /\ Update(x, "ctl", t, o)
          /\ IF o = "ok" /\ Accepts(x, "ctl")
             THEN IF ctl[x].gen # 0 THEN Goto(x, go) /\ UNCHANGED queued ELSE Done(x)
             ELSE IF o = "ok" /\ x \in Strategies /\ tgt[x].here
             THEN Goto(x, again) /\ UNCHANGED queued
             ELSE Retry(x)
    BY <1>7, Zenon DEF UpdateFinalizer
  <2>4. UNCHANGED <<ctgt, cwsp>> /\ ctl[x].pc = "update"
    BY <1>7, Zenon DEF UpdateFinalizer
  <2> HIDE DEF t, go, again
  <2>5. tgt'[x].del => tgt'[x].fin
    BY <1>1, <2>3, SettleFin DEF HeldTypes, Watched, Update, Put
  <2>6. CASE o = "ok" /\ Accepts(x, "ctl")
    <3>1. Put(x, t, {"ctl"}) /\ tgt[x].here /\ "ctl" \in tHolds[x]
      BY <2>3, <2>6 DEF Update, Accepts
    <3>2. t # tgt[x] /\ (ctl[x].gen # 0 => tgt[x].obs # ctl[x].gen)
      BY <1>1, <2>1, <2>4, <3>1, Zenon DEF Watched, Underway
    <3>3. CASE ctl[x].gen # 0
      <4>1. Goto(x, go) /\ queued \subseteq queued'
        BY <2>3, <2>6, <3>3
      <4>2. ~t.del
        BY ZenonT(30), <1>1, <2>1, <3>1, <3>3 DEF ReconcileAgrees
      <4> QED
        BY <2>1, <2>2, <2>4, <3>1, <3>2, <4>1, <4>2, WriteWatched, ZenonT(30)
    <3>4. CASE ctl[x].gen = 0
      <4>1. Goto(x, Idle) /\ queued \subseteq queued'
        BY <2>3, <2>6, <3>4, Zenon DEF Done
      <4> QED
        BY <1>3, <2>1, <2>4, <3>1, <3>2, <4>1, WriteWatched, Zenon
    <3> QED
      BY ZenonT(30), <3>3, <3>4
  <2>7. CASE o = "ok" /\ ~Accepts(x, "ctl") /\ x \in Strategies /\ tgt[x].here
    <3>1. Goto(x, again) /\ UNCHANGED <<tgt, tHolds, queued>>
      BY <2>3, <2>7 DEF Update
    <3>2. ctl'[x] = again
      BY <1>1, <3>1, Zenon DEF HeldTypes, Goto
    <3>3. "ctl" \notin tHolds'[x]
      BY <2>7, <3>1, ZenonT(30) DEF Accepts
    <3>4. (Labels(x)' <=> Labels(x)) /\ Labels(x)' \in BOOLEAN
      BY <2>4, SameLabels DEF Labels, HasActiveWorkspacesWithTemplate,
                              HasActiveWorkspacesWithAccessStrategy
    <3>5. Labels(x)' = Labels(x)
      BY <1>3, <3>4
    <3>6. x \in queued \/ ctl[x].want = Labels(x)
      BY <1>1, <2>4, ZenonT(30) DEF Watched, Underway
    <3>7. Underway(x)'
      BY <2>2, <2>7, <3>1, <3>2, <3>3, <3>5, <3>6 DEF Underway
    <3> QED
      BY <2>2, <2>5, <3>2, <3>7, Zenon DEF Watched, Attended
  <2>8. CASE ~(o = "ok" /\ Accepts(x, "ctl")) /\ ~(o = "ok" /\ x \in Strategies /\ tgt[x].here)
    BY <2>3, <2>5, <2>8, RetryWatched, Zenon
  <2> QED
    BY <2>6, <2>7, <2>8
<1>8. CASE UpdateStatusObservedGeneration(x)
  <2> DEFINE t == [tgt[x] EXCEPT !.obs = ctl[x].gen]
  <2>1. t \in Target /\ t.obs = ctl[x].gen
    BY <1>2 DEF Target, Reconciling
  <2>2. PICK o \in Replies :
          /\ Update(x, "ctl", t, o)
          /\ IF o = "ok" /\ Accepts(x, "ctl") THEN Done(x) ELSE Retry(x)
    BY <1>8, Zenon DEF UpdateStatusObservedGeneration
  <2>3. UNCHANGED cwsp /\ ctl[x].pc = "status" /\ ctl[x].gen # 0
    BY <1>2, <1>8, Zenon DEF UpdateStatusObservedGeneration, Reconciling
  <2> HIDE DEF t
  <2>4. tgt'[x].del => tgt'[x].fin
    BY <1>1, <2>2, SettleFin, ZenonT(30) DEF HeldTypes, Watched, Update, Put
  <2>5. CASE o = "ok" /\ Accepts(x, "ctl")
    <3>1. Put(x, t, {"ctl"}) /\ tgt[x].here /\ "ctl" \in tHolds[x]
      BY <2>2, <2>5, Zenon DEF Update, Accepts
    <3>2. t # tgt[x]
      BY <1>1, <2>1, <2>3, <3>1 DEF Watched, Underway
    <3>3. Goto(x, Idle) /\ queued \subseteq queued'
      BY <2>2, <2>5 DEF Done
    <3> QED
      BY <1>3, <2>1, <2>3, <3>1, <3>2, <3>3, WriteWatched, Zenon
  <2>6. CASE ~(o = "ok" /\ Accepts(x, "ctl"))
    BY <2>2, <2>4, <2>6, RetryWatched
  <2> QED
    BY <2>5, <2>6
<1> QED
  BY <1>4, <1>5, <1>6, <1>7, <1>8, ZenonT(30) DEF Controllers

\* A write by the webhook or an administrator.
LEMMA UpdatedWatched ==
  ASSUME WatchInv, NEW x, NEW t, x \in Targets => t \in Target,
         UNCHANGED <<ctgt, cwsp, ctl, queued>>,
         \/ Put(x, t, {})
         \/ \E w \in Workspaces, o \in Replies : Update(x, w, t, o)
  PROVE  \A y \in Targets : Watched(y)'
<1>1. x \in Targets => Settle(t) \in Target
  BY SettleType
<1>2. CASE UNCHANGED <<tgt, tHolds>>
  BY <1>2, ReadWatched
<1>3. ASSUME NEW keep \in SUBSET Workspaces, Put(x, t, keep) PROVE \A y \in Targets : Watched(y)'
  BY <1>1, <1>3, ForeignWatched
<1>4. CASE Put(x, t, {})
  <2>1. {} \in SUBSET Workspaces
    OBVIOUS
  <2> QED
    BY <1>3, <1>4, <2>1
<1>5. ASSUME NEW w \in Workspaces, NEW o \in Replies, Update(x, w, t, o)
      PROVE  \A y \in Targets : Watched(y)'
  <2>1. Put(x, t, {w}) \/ UNCHANGED <<tgt, tHolds>>
    BY <1>5 DEF Update
  <2>2. {w} \in SUBSET Workspaces
    BY Zenon
  <2> QED
    BY <1>2, <1>3, <2>1, <2>2
<1> QED
  BY <1>4, <1>5

LEMMA WatchStep == WatchInv /\ [Next]_vars => WatchInv'
<1> SUFFICES ASSUME WatchInv, [Next]_vars PROVE \A y \in Targets : Watched(y)'
  BY HeldStep, WorkStep DEF WatchInv
<1>1. HeldInv /\ WorkInv /\ HeldTypes
  BY DEF WatchInv, HeldInv
<1>2. ASSUME NEW x \in Targets PROVE tgt[x] \in Target
  BY <1>1 DEF HeldTypes
<1>3. ASSUME NEW w \in Workspaces,
             \/ Label(w) \/ RemoveFinalizer(w) \/ Refuse(w)
             \/ CreateWorkspace(w) \/ EditWorkspace(w) \/ DeleteWorkspace(w)
      PROVE  \A y \in Targets : Watched(y)'
  <2>1. UNCHANGED <<tgt, ctgt, cwsp, tHolds, ctl, queued>>
    BY <1>3, Zenon DEF Label, RemoveFinalizer, Refuse, CreateWorkspace, EditWorkspace, DeleteWorkspace,
                Request, objects, caches
  <2> QED
    BY <2>1, ReadWatched
<1>4. CASE UNCHANGED vars
  BY <1>4, ReadWatched DEF vars, objects, caches
<1>5. ASSUME NEW x \in Targets, Controllers(x) PROVE \A y \in Targets : Watched(y)'
  BY <1>5, ControllersWatched, Elsewhere
<1>6. ASSUME NEW x \in Targets, SyncTarget(x), NEW y \in Targets PROVE Watched(y)'
  <2>1. /\ ctgt' = [ctgt EXCEPT ![x] = tgt[x]] /\ tHolds' = [tHolds EXCEPT ![x] = @ \cup {"cache"}]
        /\ queued' = queued \cup {x} /\ UNCHANGED <<tgt, cwsp, ctl>>
    BY ZenonT(30), <1>6 DEF SyncTarget, objects
  <2>2. /\ y = x \/ (ctgt'[y] = ctgt[y] /\ tHolds'[y] = tHolds[y])
        /\ "ctl" \in tHolds'[y] => "ctl" \in tHolds[y]
    BY <1>1, <2>1, Zenon DEF HeldTypes
  <2>3. Watched(y) /\ (Labels(y)' <=> Labels(y)) /\ (tgt'[y].del => tgt'[y].fin)
    BY <2>1, SameLabels, ZenonT(30) DEF WatchInv, Watched
  <2> QED
    BY ZenonT(30), <2>1, <2>2, <2>3, Undisturbed
<1>7. ASSUME NEW w \in Workspaces, SyncWorkspace(w), NEW y \in Targets PROVE Watched(y)'
  <2>1. UNCHANGED <<tgt, ctgt, tHolds, ctl>> /\ queued \subseteq queued'
    BY <1>7, Zenon DEF SyncWorkspace, objects
  <2>2. y \in queued' \/ (Labels(y)' <=> Labels(y))
    BY <1>1, <1>7, LabelEvent
  <2>3. Watched(y) /\ (tgt'[y].del => tgt'[y].fin)
    BY <2>1 DEF WatchInv, Watched
  <2> QED
    BY <2>1, <2>2, <2>3, Undisturbed
<1>8. ASSUME NEW w \in Workspaces, Admission(w) PROVE \A y \in Targets : Watched(y)'
  <2>1. UNCHANGED <<ctgt, cwsp, ctl, queued>>
    BY <1>8, Zenon DEF Admission, Default, AddTemplateFinalizer, GetAccessStrategy,
                AddAccessStrategyFinalizer, RecheckAccessStrategy, Store, caches
  <2>2. CASE \/ AddTemplateFinalizer(w) \/ AddAccessStrategyFinalizer(w)
    <3>1. PICK x, o : o \in Replies /\ Update(x, w, [tgt[x] EXCEPT !.fin = TRUE], o)
      BY <2>2, Zenon DEF AddTemplateFinalizer, AddAccessStrategyFinalizer
    <3> DEFINE t == [tgt[x] EXCEPT !.fin = TRUE]
    <3>2. x \in Targets => t \in Target
      BY <1>2, Zenon DEF Target
    <3> HIDE DEF t
    <3> QED
      BY <2>1, <3>1, <3>2, UpdatedWatched, Zenon DEF t
  <2>3. CASE Default(w) \/ GetAccessStrategy(w) \/ RecheckAccessStrategy(w) \/ Store(w)
    <3>1. UNCHANGED tgt /\ (UNCHANGED tHolds \/ \E k : Copied(k, w))
      BY <2>3 DEF Default, GetAccessStrategy, RecheckAccessStrategy, Store, objects, caches
    <3> QED
      BY <2>1, <3>1, ReadWatched, Zenon
  <2> QED
    BY <1>8, <2>2, <2>3 DEF Admission
<1>9. ASSUME NEW x \in Targets, DeleteTarget(x) \/ EditTemplate(x) \/ CreateTarget(x)
      PROVE  \A y \in Targets : Watched(y)'
  <2>1. PICK t \in {[tgt[x] EXCEPT !.del = TRUE], [tgt[x] EXCEPT !.gen = @ + 1], NewTarget} :
          Administer(x, t)
    BY <1>9 DEF DeleteTarget, EditTemplate, CreateTarget
  <2>2. t \in Target
    <3>1. tgt[x] \in Target
      BY <1>2
    <3>2. [tgt[x] EXCEPT !.del = TRUE] \in Target /\ NewTarget \in Target
      BY <3>1, Zenon DEF Target, NewTarget
    <3>3. [tgt[x] EXCEPT !.gen = @ + 1] \in Target
      BY <3>1 DEF Target
    <3> QED
      BY <2>1, <3>2, <3>3, Zenon
  <2>3. Put(x, t, {}) /\ UNCHANGED <<ctgt, cwsp, ctl, queued>>
    BY <2>1, Zenon DEF Administer
  <2> QED
    BY <2>2, <2>3, UpdatedWatched
<1>10. ASSUME Restart, NEW y \in Targets PROVE Watched(y)'
  <2>1. /\ UNCHANGED tgt /\ ctgt' = tgt /\ queued' = {x \in Targets : tgt[x].here}
        /\ ctl' = [x \in Targets |-> Idle]
    BY <1>10, Zenon DEF Restart, objects
  <2>2. ctl'[y] = Idle /\ Idle.pc = "idle" /\ (tgt'[y].del => tgt'[y].fin)
    BY <2>1, Zenon DEF Idle, WatchInv, Watched
  <2>3. y \in queued' \/ AtRest(y)'
    BY <2>1 DEF AtRest
  <2> QED
    BY <2>2, <2>3 DEF Watched, Attended, Underway
<1> QED
  BY <1>3, <1>4, <1>5, <1>6, <1>7, <1>8, <1>9, <1>10 DEF Next, Operator, Users

LEMMA WatchInit == Init => WatchInv
<1> SUFFICES ASSUME Init, NEW x \in Targets PROVE Watched(x)
  BY HeldInit, WorkInit DEF WatchInv
<1>1. x \in queued /\ ctl[x] = Idle /\ tgt[x] = NewTarget
  BY Zenon DEF Init
<1>2. Idle.pc = "idle" /\ ~NewTarget.del
  BY DEF Idle, NewTarget
<1>3. ctl[x].pc = "idle" /\ ~tgt[x].del
  BY <1>1, <1>2, Zenon
<1> QED
  BY <1>1, <1>3, Zenon DEF Watched, Attended, Underway

\* At rest a template or strategy has its finalizer exactly while a workspace
\* references it, and a template's generation is acknowledged, for any number of
\* workspaces, targets, edits, lost replies and restarts.  The controllers read the
\* labels in one cache and the object in another, both late: no event that should make
\* them look again is lost (WorkspaceTemplateReconciler, WorkspaceAccessStrategyReconciler
\* and their watches on workspaces).
THEOREM SettledAtRest == Spec => []Settled
<1>1. WatchInv => Settled
  <2> SUFFICES ASSUME WatchInv, Quiet, NEW x \in Targets, tgt[x].here
               PROVE  /\ tgt[x].fin <=> UsersOf(x) # {}
                      /\ x \in Templates /\ ~tgt[x].del => tgt[x].obs = tgt[x].gen
    BY Zenon DEF Settled
  <2>1. ctgt[x] = tgt[x] /\ AtRest(x)
    BY Zenon DEF Quiet, WatchInv, HeldInv, CacheAgrees, Watched, Attended
  <2>2. \A w \in Workspaces : /\ cwsp[w] = wsp[w] /\ wsp[w] \in Workspace
                              /\ Active(wsp[w]) => wsp[w] = Labelled(wsp[w])
    BY DEF Quiet, WatchInv, WorkInv, WorkTypes, WorkspaceAgrees
  <2>3. ASSUME NEW w \in Workspaces, Active(wsp[w])
        PROVE  wsp[w].tlab = wsp[w].tref /\ wsp[w].slab = wsp[w].sref
    <3>1. wsp[w] \in Workspace
      BY <2>2
    <3>2. /\ Labelled(wsp[w]).tlab = wsp[w].tref
          /\ Labelled(wsp[w]).slab = wsp[w].sref
      BY <3>1, Zenon DEF Labelled, Workspace
    <3> QED
      BY <2>2, <2>3, <3>2
  <2>4. CASE x \in Templates
    <3>1. \A w \in Workspaces : wsp[w].sref # x
      <4>1. x \notin Strategies /\ x # None
        BY <2>4, ProtectionAssumption, Zenon DEF Keys
      <4>2. \A w \in Workspaces : wsp[w].sref \in Strategies \cup {None}
        BY <2>2, Zenon DEF Workspace
      <4> QED
        BY <4>1, <4>2, Zenon
    <3>2. Labels(x) <=> UsersOf(x) # {}
      BY <2>2, <2>3, <2>4, <3>1, Zenon DEF Labels, UsersOf, HasActiveWorkspacesWithTemplate
    <3> QED
      BY <2>1, <3>2 DEF AtRest
  <2>5. CASE x \notin Templates
    <3>1. x \in Strategies
      BY <2>5 DEF Targets
    <3>2. \A w \in Workspaces : wsp[w].tref # x
      <4>1. x \notin Keys /\ x # None
        BY <3>1, ProtectionAssumption, Zenon
      <4>2. \A w \in Workspaces : wsp[w].tref \in Keys \cup {None}
        BY <2>2, Zenon DEF Workspace
      <4> QED
        BY <4>1, <4>2, Zenon
    <3>3. Labels(x) <=> UsersOf(x) # {}
      BY <2>2, <2>3, <2>5, <3>2 DEF Labels, UsersOf, HasActiveWorkspacesWithAccessStrategy
    <3> QED
      BY <2>1, <2>5, <3>3 DEF AtRest
  <2> QED
    BY <2>4, <2>5, Zenon
<1> QED
  BY <1>1, WatchInit, WatchStep, PTL DEF Spec
=============================================================================
