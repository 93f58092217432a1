---------------------- MODULE WorkspaceChildren_proofs ----------------------
(***************************************************************************)
(* What becomes of a workspace's children, for every choice of the         *)
(* constants of WorkspaceLifecycle.                                        *)
(***************************************************************************)
EXTENDS WorkspaceLifecycle_proofs

\* The provers are tried in turn, with more time than by default: contexts are large.
USE SMTT(30), ZenonT(20), Z3T(30)

(***************************************************************************)
(* Access resources.  Asks: a copy of the workspace wants t.  A cached     *)
(* copy may still track what the server's does not, but never something it *)
(* wants, so a reconcile never updates in place what is not tracked.       *)
(***************************************************************************)
TemplatesOf(r) == IF r = None THEN {} ELSE strat[r].tpl

Asks(w, t) ==
  w.exists /\ ~w.deleting /\ w.desired = "Running" /\ t \in TemplatesOf(w.ref)

Bound(w) == (w.acc # {} => w.fin) /\ (~w.exists => w.acc = {})

BeforePrune == {"strategy", "pvc", "dep", "svc", "ensure"}

Matched == \A s \in Strategies : cstrat[s].tpl = strat[s].tpl

Tracked ==
  /\ UnownedTracked /\ Matched
  /\ Bound(ws) /\ Bound(cws) /\ Bound(rws)
  /\ \A t \in cws.acc \ ws.acc : ~Asks(cws, t)

\* The worker: what it holds current, what it will ensure, has pruned and dropped.
Current ==
  rFresh => /\ pc # "idle"
            /\ cws.exists = ws.exists /\ cws.deleting = ws.deleting
            /\ cws.desired = ws.desired /\ cws.ref = ws.ref

Equipped ==
  /\ pc \notin {"idle", "meta"} => rws.fin
  /\ pc \in {"idle", "meta", "strategy"} => want.tpl = {}
  /\ mode = "run" /\ pc \in RunSteps \ {"strategy"} => want.tpl = TemplatesOf(rws.ref)
  /\ pc = "ensure" => mode = "run" /\ todo \subseteq want.tpl
  /\ pc = "finalizer" => mode = "delete" /\ rws.acc = {}

Tracks ==
  mode = "run" /\ pc \in BeforePrune =>
    \A t \in rws.acc \cap TemplatesOf(rws.ref) : (pc = "ensure" => t \in todo) => t \in ws.acc

Pruned == pc = "prune" => \A t \in rws.acc \ Kept : t \in todo \/ ~routes[t].here

Dropped == rFresh => \A t \in ws.acc \ rws.acc : ~routes[t].here /\ ~Asks(ws, t)

Working == Current /\ Equipped /\ Tracks /\ Pruned /\ Dropped

TrackInv == Tracked /\ Working

\* No strategy edit changes which access resources the strategy has.
TemplatesKept == \A s \in Strategies : strat'[s].tpl = strat[s].tpl

Steady == TemplatesKept /\ Matched'

LEMMA Copies ==
  ASSUME TypeOK
  PROVE  /\ ws \in Workspace /\ cws \in Workspace /\ rws \in Workspace /\ mode \in Modes
         /\ ws.acc \in SUBSET Routes /\ cws.acc \in SUBSET Routes /\ rws.acc \in SUBSET Routes
         /\ ws.ref \in Refs /\ cws.ref \in Refs /\ rws.ref \in Refs
BY DEF TypeOK, ServerTypes, CacheTypes, WorkerTypes, Workspace

LEMMA NoWorkspaceBound == Bound(NoWorkspace) /\ NoWorkspace.acc = {} /\ ~NoWorkspace.exists
BY DEF Bound, NoWorkspace, NewWorkspace

LEMMA TrackInit == Init => TrackInv
<1> SUFFICES ASSUME Init PROVE TrackInv
  OBVIOUS
<1>1. PICK d \in FirstDesired, r \in FirstRefs : ws = NewWorkspace(d, r)
  BY DEF Init
<1>2. Bound(ws)
  BY <1>1 DEF NewWorkspace, Bound
<1>3. Tracked
  BY <1>2, NoWorkspaceBound DEF Init, Tracked, UnownedTracked, Matched, NoRoute
<1>4. Working
  BY Zenon DEF Init, Working, Current, Equipped, Tracks, Pruned, Dropped, BeforePrune, RunSteps, NoWant
<1> QED
  BY <1>3, <1>4 DEF TrackInv

LEMMA TrackStep == LifeInv /\ TrackInv /\ TemplatesKept /\ [Next]_vars => TrackInv'
<1>SameTemplates.
      ASSUME TypeOK, TemplatesKept, NEW r \in Refs
      PROVE  TemplatesOf(r)' = TemplatesOf(r)
  BY <1>SameTemplates DEF TemplatesKept, TemplatesOf, Refs
\* A reconcile has returned.
<1>IdleWorker.
      ASSUME pc' = "idle", rFresh' = FALSE, want' = NoWant, rws' = NoWorkspace
      PROVE  Working' /\ Bound(rws)'
  <2> USE <1>IdleWorker
  <2>1. want'.tpl = {}
    BY DEF NoWant
  <2>2. Bound(rws)'
    BY NoWorkspaceBound DEF Bound
  <2> QED
    BY <2>1, <2>2 DEF Working, Current, Equipped, Tracks, Pruned, Dropped, BeforePrune, RunSteps
\* What the server and the cache need.
<1>TrackedStep.
      ASSUME TypeOK, Tracked, Steady, UNCHANGED cws, Bound(ws'), Bound(rws'),
             \A t \in Routes : routes'[t].here /\ ~routes'[t].owned => t \in ws'.acc,
             \A t \in cws.acc \ ws'.acc : ~Asks(cws, t)
      PROVE  Tracked'
  <2> USE <1>TrackedStep
  <2>1. Bound(ws)' /\ Bound(cws)' /\ Bound(rws)' /\ UnownedTracked' /\ Matched'
    BY DEF Tracked, Bound, UnownedTracked, Steady
  <2>2. ASSUME NEW t \in (cws.acc \ ws.acc)' PROVE ~Asks(cws, t)'
    <3>1. cws \in Workspace /\ TemplatesKept
      BY Copies DEF Steady
    <3>2. ~Asks(cws, t)
      BY <2>2
    <3>3. TemplatesOf(cws.ref)' = TemplatesOf(cws.ref)
      BY <3>1, Copies, <1>SameTemplates
    <3> QED
      BY <3>2, <3>3 DEF Asks
  <2> QED
    BY <2>1, <2>2 DEF Tracked
\* Nobody touches the workspace, its copies or the worker; routes may go.
<1>QuietTrack.
      ASSUME LifeInv, TrackInv, Steady, UNCHANGED <<ws, cws, pc, local>>,
             \A t \in Routes : routes'[t] = routes[t] \/ ~routes'[t].here
      PROVE  TrackInv'
  <2> USE <1>QuietTrack
  <2>0. TypeOK /\ Tracked /\ TemplatesKept /\ UNCHANGED <<mode, rws, rFresh, want, todo>>
    BY DEF LifeInv, TrackInv, Steady, local
  <2>1. Tracked'
    BY <2>0, <1>TrackedStep DEF Tracked, UnownedTracked, Bound
  <2>2. /\ TemplatesOf(rws.ref)' = TemplatesOf(rws.ref) /\ TemplatesOf(ws.ref)' = TemplatesOf(ws.ref)
        /\ ws.acc \subseteq Routes /\ rws.acc \subseteq Routes
    <3>1. rws.ref \in Refs /\ ws.ref \in Refs
      BY <2>0, Copies
    <3>2. TemplatesOf(rws.ref)' = TemplatesOf(rws.ref) /\ TemplatesOf(ws.ref)' = TemplatesOf(ws.ref)
      BY <2>0, <3>1, <1>SameTemplates
    <3> QED
      BY <2>0, <3>2, Copies
  <2>3. Current' /\ Equipped' /\ Tracks'
    BY <2>0, <2>2 DEF TrackInv, Working, Current, Equipped, Tracks
  <2>4. Pruned'
    BY <2>0, <2>2 DEF TrackInv, Working, Pruned, Kept
  <2>5. Dropped'
    BY <2>0, <2>2 DEF TrackInv, Working, Dropped, Asks
  <2> QED
    BY <2>1, <2>3, <2>4, <2>5 DEF TrackInv, Working
<1>ReturnTrack.
      ASSUME LifeInv, TrackInv, Steady, NEW q, Return(q), UNCHANGED <<ws, cws>>,
             \A t \in Routes : routes'[t].here /\ ~routes'[t].owned => t \in ws.acc
      PROVE  TrackInv'
  <2> USE <1>ReturnTrack
  <2>1. Working' /\ Bound(rws')
    <3>1. Working' /\ Bound(rws)'
      BY <1>IdleWorker, Zenon DEF Return
    <3> QED
      BY <3>1 DEF Bound
  <2>2. Tracked'
    BY <2>1, <1>TrackedStep DEF LifeInv, TrackInv, Tracked, Bound
  <2> QED
    BY <2>1, <2>2 DEF TrackInv
\* A write by the worker drops from the tracked list only what is gone and unwanted.
<1>WriteTracked.
      ASSUME LifeInv, TrackInv, Steady, NEW new, NEW o, Write(new, o), UNCHANGED <<cws, routes>>,
             new.acc = rws.acc, Bound(new), Bound(rws')
      PROVE  Tracked'
  <2> USE <1>WriteTracked
  <2>0. TypeOK /\ Tracked
    BY DEF LifeInv, TrackInv
  <2>1. CASE rFresh /\ o # "refused"
    <3>1. ws' = new
      BY <2>1 DEF Write
    <3>2. \A t \in Routes : routes'[t].here /\ ~routes'[t].owned => t \in ws'.acc
      BY <2>0, <2>1, <3>1 DEF TrackInv, Tracked, UnownedTracked, Working, Dropped
    <3>3. \A t \in ws.acc \ ws'.acc : ~Asks(cws, t)
      BY <2>1, <3>1 DEF TrackInv, Working, Dropped, Current, Asks
    <3>4. \A t \in cws.acc \ ws'.acc : ~Asks(cws, t)
      BY <2>0, <3>3 DEF Tracked
    <3>5. Bound(ws')
      BY <3>1, Zenon
    <3> QED
      BY <2>0, <3>2, <3>4, <3>5, <1>TrackedStep
  <2>2. CASE ~(rFresh /\ o # "refused")
    <3>1. ws' = ws
      BY <2>2 DEF Write
    <3> QED
      BY <2>0, <3>1, <1>TrackedStep DEF Tracked, UnownedTracked, Bound
  <2> QED
    BY <2>1, <2>2
<1>WriteReturnTrack.
      ASSUME LifeInv, TrackInv, Steady, NEW new, NEW o, NEW q, Write(new, o), Return(q),
             UNCHANGED <<cws, routes>>, new.acc = rws.acc, Bound(new)
      PROVE  TrackInv'
  <2> USE <1>WriteReturnTrack
  <2>1. Working' /\ Bound(rws')
    <3>1. Working' /\ Bound(rws)'
      BY <1>IdleWorker, Zenon DEF Return
    <3> QED
      BY <3>1 DEF Bound
  <2> QED
    BY <2>1, <1>WriteTracked DEF TrackInv
\* A version of the worker's copy with other conditions, finalizer, label or desire.
<1>Versions.
      ASSUME NEW w \in Workspace, Bound(w), w.exists,
             NEW new, \/ new \in {StartingStatus(w), RunningStatus(w), StoppingStatus(w),
                                  StoppedStatus(w), ErrorStatus(w), [w EXCEPT !.del = TRUE]}
                      \/ new = [w EXCEPT !.fin = TRUE, !.label = w.ref]
                      \/ new = [w EXCEPT !.desired = "Stopped"]
      PROVE  new.acc = w.acc /\ Bound(new)
  <2> DEFINE Keeps(x) == x.acc = w.acc /\ x.fin = w.fin /\ x.exists = w.exists
  <2>0. w \in Workspace /\ Bound(w) /\ w.exists
    BY <1>Versions
  <2>1. \A v, p, s : Keeps(Conditions(w, v, p, s))
    BY <2>0, Zenon DEF Workspace, Conditions
  <2>2. Keeps([w EXCEPT !.del = TRUE]) /\ Keeps(ErrorStatus(w)) /\ Keeps([w EXCEPT !.desired = "Stopped"])
    BY <2>0, Zenon DEF Workspace, ErrorStatus
  <2>3. LET x == [w EXCEPT !.fin = TRUE, !.label = w.ref]
        IN x.acc = w.acc /\ x.fin /\ x.exists = w.exists
    BY <2>0, Zenon DEF Workspace
  <2> HIDE DEF Keeps
  <2>4. CASE Keeps(new)
    BY <2>0, <2>4, Zenon DEF Keeps, Bound
  <2>5. CASE new = [w EXCEPT !.fin = TRUE, !.label = w.ref]
    BY <2>0, <2>3, <2>5, Zenon DEF Bound
  <2>6. /\ Keeps(StartingStatus(w)) /\ Keeps(RunningStatus(w)) /\ Keeps(StoppingStatus(w))
        /\ Keeps(StoppedStatus(w))
    BY <2>1, Zenon DEF StartingStatus, RunningStatus, StoppingStatus, StoppedStatus
  <2> QED
    BY <1>Versions, <2>2, <2>4, <2>5, <2>6, Zenon
<1>WritesTrack.
      ASSUME LifeInv, TrackInv, Steady,
             UpdateMeta \/ UpdateStartingStatus \/ UpdateStoppingStatus \/ UpdateErrorStatus
               \/ UpdateStoppedStatus \/ StopWorkspaceDueToIdle \/ RemoveFinalizer
      PROVE  TrackInv'
  <2> USE <1>WritesTrack
  <2>1. rws \in Workspace /\ Bound(rws) /\ (pc # "idle" => rws.exists)
    BY Copies DEF LifeInv, Pursues, TrackInv, Tracked
  <2> USE DEF StatusFrame
  <2>2. CASE UpdateMeta
    <3> DEFINE new == [rws EXCEPT !.fin = TRUE, !.label = rws.ref]
    <3>1. PICK o : Write(new, o) /\ Return(TRUE) /\ UNCHANGED <<cws, routes>> /\ pc # "idle"
      BY <2>2, Zenon DEF UpdateMeta
    <3>2. new.acc = rws.acc /\ Bound(new)
      BY <2>1, <3>1, <1>Versions, Zenon
    <3> HIDE DEF new
    <3> QED
      BY <3>1, <3>2, <1>WriteReturnTrack, Zenon
  <2>3. CASE StopWorkspaceDueToIdle
    <3> DEFINE new == [rws EXCEPT !.desired = "Stopped"]
    <3>1. PICK o : Write(new, o) /\ Return(TRUE) /\ UNCHANGED <<cws, routes>> /\ pc # "idle"
      BY <2>3, Zenon DEF StopWorkspaceDueToIdle
    <3>2. new.acc = rws.acc /\ Bound(new)
      BY <2>1, <3>1, <1>Versions, Zenon
    <3> HIDE DEF new
    <3> QED
      BY <3>1, <3>2, <1>WriteReturnTrack, Zenon
  <2>4. CASE UpdateStartingStatus \/ UpdateStoppingStatus \/ UpdateErrorStatus \/ UpdateStoppedStatus
    <3>1. PICK new \in {StartingStatus(rws), StoppingStatus(rws), StoppedStatus(rws), ErrorStatus(rws)} :
            \E o, q : Write(new, o) /\ Return(q) /\ UNCHANGED <<cws, routes>> /\ pc # "idle"
      BY <2>4, Zenon DEF UpdateStartingStatus, UpdateStoppingStatus, UpdateErrorStatus, UpdateStoppedStatus
    <3>2. PICK o, q : Write(new, o) /\ Return(q) /\ UNCHANGED <<cws, routes>> /\ pc # "idle"
      BY <3>1
    <3>3. new.acc = rws.acc /\ Bound(new)
      BY <2>1, <3>1, <3>2, <1>Versions, Zenon
    <3> QED
      BY <3>2, <3>3, <1>WriteReturnTrack
  <2>5. CASE RemoveFinalizer
    <3>1. PICK o, q : Write(NoWorkspace, o) /\ Return(q) /\ UNCHANGED <<cws, routes>>
      BY <2>5 DEF RemoveFinalizer
    <3>2. rws.acc = {}
      BY <2>5 DEF RemoveFinalizer, TrackInv, Working, Equipped
    <3> QED
      BY <3>1, <3>2, NoWorkspaceBound, <1>WriteReturnTrack
  <2> QED
    BY <2>2, <2>3, <2>4, <2>5
\* A status write after which the reconcile goes on.
<1>WriteAdvanceTrack.
      ASSUME LifeInv, TrackInv, Steady, NEW new \in {RunningStatus(rws), [rws EXCEPT !.del = TRUE]},
             NEW o, Write(new, o), Wrote(o), UNCHANGED <<cws, routes, mode, rFresh, want>>,
             rws' = new, pc \notin {"idle", "meta", "strategy"},
             \/ pc' = "idleCheck" /\ mode = "run" /\ pc \in RunSteps
             \/ pc' = "prune" /\ mode = "delete" /\ todo' = rws.acc
      PROVE  TrackInv'
  <2> USE <1>WriteAdvanceTrack
  <2>1. rws \in Workspace /\ Bound(rws) /\ rws.exists /\ TypeOK /\ TemplatesKept
    BY Copies DEF LifeInv, Pursues, TrackInv, Tracked, Steady
  <2>2. new.acc = rws.acc /\ Bound(new)
    BY <2>1, <1>Versions, Zenon
  <2>3. /\ new.exists = rws.exists /\ new.deleting = rws.deleting /\ new.fin = rws.fin
        /\ new.desired = rws.desired /\ new.ref = rws.ref
    BY <2>1, ZenonT(30) DEF Workspace, RunningStatus, Conditions
  <2>4. rFresh /\ ws' = new
    BY DEF Write, Wrote
  <2>5. /\ rws.exists = ws.exists /\ rws.deleting = ws.deleting /\ rws.desired = ws.desired
        /\ rws.ref = ws.ref
    BY <2>4, FreshCopy
  <2>6. Tracked'
    BY <2>2, <1>WriteTracked
  <2>7. Current'
    BY <2>3, <2>4, <2>5 DEF TrackInv, Working, Current
  <2>8. Equipped'
    <3>1. TemplatesOf(rws.ref)' = TemplatesOf(rws.ref)
      <4>1. rws.ref \in Refs
        BY <2>1, Copies
      <4>2. TemplatesOf(rws.ref)' = IF new.ref = None THEN {} ELSE strat'[new.ref].tpl
        BY DEF TemplatesOf
      <4>3. TemplatesOf(rws.ref) = IF rws.ref = None THEN {} ELSE strat[rws.ref].tpl
        BY DEF TemplatesOf
      <4> QED
        BY <2>1, <2>3, <4>1, <4>2, <4>3 DEF TemplatesKept, Refs
    <3> QED
      BY <2>3, <3>1 DEF TrackInv, Working, Equipped, RunSteps
  <2>9. Tracks' /\ Dropped'
    BY <2>4 DEF Tracks, Dropped, BeforePrune
  <2>10. Pruned'
    BY <2>2 DEF Pruned, Kept
  <2> QED
    BY <2>6, <2>7, <2>8, <2>9, <2>10 DEF TrackInv, Working
<1>LongWritesTrack.
      ASSUME LifeInv, TrackInv, Steady, UpdateRunningStatus \/ UpdateDeletingStatus
      PROVE  TrackInv'
  <2> USE <1>LongWritesTrack
  <2>1. /\ rws \in Workspace /\ Bound(rws) /\ (pc # "idle" => rws.exists) /\ mode \in Modes
    BY Copies DEF LifeInv, Pursues, TrackInv, Tracked
  <2> USE DEF StatusFrame
  <2>2. CASE UpdateRunningStatus
    <3> DEFINE new == RunningStatus(rws)
    <3>1. /\ pc = "running" /\ UNCHANGED <<cws, routes>>
          /\ \E o : /\ Write(new, o)
                    /\ \/ /\ Wrote(o) /\ rws' = new /\ pc' = "idleCheck"
                          /\ UNCHANGED <<mode, rFresh, want>>
                       \/ \E q : Return(q)
      BY <2>2 DEF UpdateRunningStatus, Goto
    <3>2. mode = "run" /\ pc \in RunSteps
      BY <2>1, <3>1 DEF LifeInv, Pursues, Modes, RunSteps, StopSteps, DeleteSteps
    <3>3. new.acc = rws.acc /\ Bound(new)
      BY <2>1, <3>1, <1>Versions, Zenon
    <3>4. new \in {RunningStatus(rws), [rws EXCEPT !.del = TRUE]}
      OBVIOUS
    <3> HIDE DEF new
    <3> QED
      BY <3>1, <3>2, <3>3, <3>4, <1>WriteReturnTrack, <1>WriteAdvanceTrack, Zenon
  <2>3. CASE UpdateDeletingStatus
    <3> DEFINE new == [rws EXCEPT !.del = TRUE]
    <3>1. /\ pc = "deleting" /\ UNCHANGED <<cws, routes>>
          /\ \E o : /\ Write(new, o)
                    /\ \/ /\ Wrote(o) /\ rws' = new /\ todo' = rws.acc /\ pc' = "prune"
                          /\ UNCHANGED <<mode, rFresh, want>>
                       \/ \E q : Return(q)
      BY <2>3, Zenon DEF UpdateDeletingStatus, Goto
    <3>2. mode = "delete"
      BY <2>1, <3>1 DEF LifeInv, Pursues, Modes, RunSteps, StopSteps
    <3>3. new.acc = rws.acc /\ Bound(new)
      BY <2>1, <3>1, <1>Versions, Zenon
    <3>4. new \in {RunningStatus(rws), [rws EXCEPT !.del = TRUE]}
      OBVIOUS
    <3> HIDE DEF new
    <3> QED
      BY <3>1, <3>2, <3>3, <3>4, <1>WriteReturnTrack, <1>WriteAdvanceTrack, Zenon
  <2> QED
    BY <2>2, <2>3, Zenon
\* A reconcile begins with the cached copy.
<1>BeginTrack.
      ASSUME LifeInv, TrackInv, Steady,
             ReconcileDeletion \/ ReconcileMeta \/ ReconcileStopped \/ ReconcileRunning
      PROVE  TrackInv'
  <2> USE <1>BeginTrack
  <2> DEFINE First == IF cws.ref = None THEN "pvc" ELSE "strategy"
  <2>1. PICK p, m, t :
          /\ Begin(p, m, t) /\ cws.exists
          /\ \/ p = "deleting" /\ m = "delete" /\ cws.fin
             \/ p = "meta" /\ m = "run"
             \/ p = "prune" /\ m = "stop" /\ cws.fin /\ t = cws.acc
             \/ /\ p = First /\ m = "run" /\ ~cws.deleting /\ cws.fin
                /\ cws.desired = "Running"
    BY Zenon DEF ReconcileDeletion, ReconcileMeta, ReconcileStopped, ReconcileRunning, NeedsMeta
  <2>2. /\ UNCHANGED <<ws, cws, fresh, routes, strat, want>> /\ pc = "idle" /\ want.tpl = {}
        /\ rws' = cws /\ pc' = p /\ mode' = m /\ todo' = t
        /\ rFresh' = IF "ws" \in fresh THEN TRUE ELSE FALSE
    BY <2>1 DEF Begin, server, caches, TrackInv, Working, Equipped
  <2>3. TypeOK /\ Tracked /\ ("ws" \in fresh => cws = ws)
    BY ZenonT(30) DEF LifeInv, TrackInv, Agree
  <2>4. Tracked'
    BY <2>2, <2>3, <1>TrackedStep DEF Tracked, Bound, UnownedTracked
  <2>5. Current'
    BY <2>1, <2>2, <2>3 DEF Current
  <2>6. Equipped'
    BY <2>1, <2>2 DEF Equipped, RunSteps, TemplatesOf
  <2>7. Tracks'
    <3>1. CASE p = First /\ m = "run"
      <4>1. \A t1 \in cws.acc \cap TemplatesOf(cws.ref) : t1 \in ws.acc
        BY <2>1, <2>3, <3>1, Zenon DEF Tracked, Asks
      <4> QED
        BY <2>2, <4>1 DEF Tracks, TemplatesOf
    <3>2. CASE ~(p = First /\ m = "run")
      BY <2>1, <2>2, <3>2 DEF Tracks, BeforePrune
    <3> QED
      BY <3>1, <3>2
  <2>8. Pruned'
    BY <2>1, <2>2 DEF Pruned
  <2>9. Dropped'
    BY <2>2, <2>3, Zenon DEF Dropped
  <2> QED
    BY <2>4, <2>5, <2>6, <2>7, <2>8, <2>9, Zenon DEF TrackInv, Working
\* A step of a reconcile that writes neither the workspace nor an access resource.
<1>MoveTrack.
      ASSUME LifeInv, TrackInv, Steady, UNCHANGED <<ws, cws, routes, mode, rws, rFresh>>,
             pc \notin {"idle", "meta"}, pc' \notin {"idle", "meta", "strategy"},
             pc' = "finalizer" => mode = "delete" /\ rws.acc = {},
             mode = "run" /\ pc' \in RunSteps => want'.tpl = TemplatesOf(rws.ref),
             pc' = "ensure" => mode = "run" /\ todo' \subseteq want'.tpl,
             mode = "run" /\ pc' \in BeforePrune => pc \in BeforePrune \ {"ensure"},
             pc' = "prune" => \A t \in rws.acc \ Kept' : t \in todo' \/ ~routes[t].here
      PROVE  TrackInv'
  <2> USE <1>MoveTrack
  <2>0. /\ TypeOK /\ Tracked /\ TemplatesKept /\ Current /\ Equipped /\ Tracks /\ Dropped
        /\ ws.ref \in Refs /\ rws.ref \in Refs
    BY Copies, ZenonT(30) DEF LifeInv, TrackInv, Working, Steady
  <2>1. Tracked'
    BY <2>0, <1>TrackedStep DEF Tracked, UnownedTracked, Bound
  <2>2. TemplatesOf(rws.ref)' = TemplatesOf(rws.ref) /\ TemplatesOf(ws.ref)' = TemplatesOf(ws.ref)
    BY <2>0, <1>SameTemplates, Zenon
  <2>3. Current'
    BY <2>0, Zenon DEF Current
  <2>4. Equipped'
    BY <2>0, <2>2, Zenon DEF Equipped
  <2>5. Tracks'
    BY <2>0, <2>2, Zenon DEF Tracks
  <2>6. Pruned'
    BY Zenon DEF Pruned
  <2>7. Dropped'
    BY <2>0, <2>2 DEF Dropped, Asks
  <2> QED
    BY <2>1, <2>3, <2>4, <2>5, <2>6, <2>7, Zenon DEF TrackInv, Working
<1>EnsureChildrenTrack.
      ASSUME LifeInv, TrackInv, Steady, EnsurePVCExists \/ EnsureDeploymentExists \/ EnsureServiceExists
      PROVE  TrackInv'
  <2> USE <1>EnsureChildrenTrack
  <2>1. /\ UNCHANGED <<ws, cws, routes, mode, rws, rFresh, want>> /\ mode = "run"
        /\ pc \in {"pvc", "dep", "svc"}
        /\ \/ pc' \in {"dep", "svc", "starting", "error"}
           \/ pc' = "ensure" /\ todo' = want.tpl
           \/ pc' = "prune" /\ todo' = rws.acc
    BY Zenon DEF EnsurePVCExists, EnsureDeploymentExists, EnsureServiceExists, Proceed, Goto, local,
           UseDeployment, UseService
  <2>2. want.tpl = TemplatesOf(rws.ref)
    BY <2>1 DEF TrackInv, Working, Equipped, RunSteps
  <2> QED
    BY <2>1, <2>2, <1>MoveTrack DEF BeforePrune
<1>DeleteChildrenTrack.
      ASSUME LifeInv, TrackInv, Steady, EnsureDeploymentDeleted \/ EnsureServiceDeleted \/ EnsurePVCDeleted
      PROVE  TrackInv'
  <2> USE <1>DeleteChildrenTrack
  <2> mode \in Modes /\ rDep \in BOOLEAN
    BY DEF LifeInv, TypeOK, WorkerTypes
  <2>1. UNCHANGED <<ws, cws, routes>> /\ mode # "run" /\ pc \in {"dep", "svc", "pvc"}
    BY Zenon DEF EnsureDeploymentDeleted, EnsureServiceDeleted, EnsurePVCDeleted
  <2>2. ASSUME NEW gone \in BOOLEAN
        PROVE  StopVerdict(rDep, gone) \in {"stopped", "error", "stopping", "unexpected"}
    BY DEF StopVerdict
  <2>3. \/ \E q \in BOOLEAN : Return(q)
        \/ /\ UNCHANGED <<mode, rws, rFresh>>
           /\ pc' \in {"svc", "stopped", "error", "stopping", "unexpected", "pvc", "check"}
    BY <2>1, <2>2, Zenon DEF EnsureDeploymentDeleted, EnsureServiceDeleted, EnsurePVCDeleted,
       FoundDeployment, FoundService, DeleteFailed, Proceed, Goto, local
  <2>4. CASE \E q \in BOOLEAN : Return(q)
    BY <2>1, <2>4, <1>ReturnTrack, Zenon DEF TrackInv, Tracked, UnownedTracked
  <2>5. CASE /\ UNCHANGED <<mode, rws, rFresh>>
             /\ pc' \in {"svc", "stopped", "error", "stopping", "unexpected", "pvc", "check"}
    BY <2>1, <2>5, <1>MoveTrack
  <2> QED
    BY <2>3, <2>4, <2>5
<1>LocalStepTrack.
      ASSUME LifeInv, TrackInv, Steady,
             GetAccessStrategy \/ EnsureAccessResourcesExist \/ CheckWorkspaceIdle \/ AreAllResourcesDeleted
      PROVE  TrackInv'
  <2> USE <1>LocalStepTrack
  <2>1. /\ UNCHANGED <<ws, cws, routes, strat>> /\ mode \in Modes
        /\ \A t \in Routes : routes'[t].here /\ ~routes'[t].owned => t \in ws.acc
    BY Zenon DEF GetAccessStrategy, EnsureAccessResourcesExist, CheckWorkspaceIdle, AreAllResourcesDeleted,
           server, caches, LifeInv, TypeOK, WorkerTypes, TrackInv, Tracked, UnownedTracked
  <2>2. CASE \E q : Return(q)
    BY <2>1, <2>2, <1>ReturnTrack, Zenon
  <2>3. CASE GetAccessStrategy /\ ~\E q : Return(q)
    <3>1. /\ pc = "strategy" /\ want'.tpl = cstrat[rws.ref].tpl /\ pc' = "pvc"
          /\ UNCHANGED <<mode, rws, rFresh, todo>>
      <4>1. ~Return(TRUE)
        BY <2>3, Zenon
      <4>2. /\ pc = "strategy" /\ pc' = "pvc" /\ UNCHANGED <<mode, rws, rFresh, todo>>
            /\ want' = [from |-> rws.ref, ver |-> cstrat[rws.ref].ver, tpl |-> cstrat[rws.ref].tpl]
        BY <2>3, <4>1, Zenon DEF GetAccessStrategy, Goto
      <4> QED
        BY <4>2
    <3>2. rws.ref # None /\ rws.ref \in Refs
      BY <3>1, Copies, Zenon DEF LifeInv, Pursues
    <3>3. want'.tpl = TemplatesOf(rws.ref)
      BY <3>1, <3>2, Zenon DEF TemplatesOf, TrackInv, Tracked, Matched, Refs
    <3> QED
      BY <2>1, <3>1, <3>3, <1>MoveTrack, Zenon DEF BeforePrune
  <2>4. CASE EnsureAccessResourcesExist
    <3>1. /\ pc = "ensure" /\ pc' = "prune" /\ todo' = rws.acc \ Kept
          /\ UNCHANGED <<mode, rws, rFresh, want>>
      BY <2>4, Zenon DEF EnsureAccessResourcesExist
    <3>2. Kept' = Kept /\ mode = "run" /\ want.tpl = TemplatesOf(rws.ref)
      BY <3>1, Zenon DEF Kept, TrackInv, Working, Equipped, RunSteps
    <3> QED
      BY <2>1, <3>1, <3>2, <1>MoveTrack DEF BeforePrune
  <2>5. CASE CheckWorkspaceIdle /\ ~\E q : Return(q)
    <3>1. pc = "idleCheck" /\ pc' = "idleStop" /\ UNCHANGED <<mode, rws, rFresh, want, todo>>
      BY <2>5, Zenon DEF CheckWorkspaceIdle, Proceed, Goto, local
    <3>2. mode = "run" => want.tpl = TemplatesOf(rws.ref)
      BY <3>1, Zenon DEF TrackInv, Working, Equipped, RunSteps
    <3> QED
      BY <2>1, <3>1, <3>2, <1>MoveTrack, Zenon DEF BeforePrune
  <2>6. CASE AreAllResourcesDeleted /\ ~\E q : Return(q)
    <3>1. /\ pc = "check" /\ pc' = "finalizer" /\ rws.acc = {}
          /\ UNCHANGED <<mode, rws, rFresh, want, todo>>
      BY <2>6, Zenon DEF AreAllResourcesDeleted, Proceed, Goto, local
    <3>2. mode = "delete"
      BY <2>1, <3>1 DEF LifeInv, Pursues, Modes, StopSteps, RunSteps
    <3> QED
      BY <2>1, <3>1, <3>2, <1>MoveTrack DEF BeforePrune
  <2> QED
    BY <2>2, <2>3, <2>4, <2>5, <2>6
\* An access resource is created with an owner, updated in place only while it is
\* tracked, and leaves the list only when it is gone.
<1>AccessTrack.
      ASSUME LifeInv, TrackInv, Steady, NEW t \in Routes, EnsureAccessResource(t)
      PROVE  TrackInv'
  <2> USE <1>AccessTrack
  <2>0. /\ TypeOK /\ Tracked /\ TemplatesKept /\ Current /\ Equipped /\ Tracks /\ Dropped
        /\ rws \in Workspace /\ rws.acc \in SUBSET Routes /\ ws.acc \in SUBSET Routes
        /\ ws.ref \in Refs /\ rws.ref \in Refs /\ routes \in [Routes -> Route]
    BY Copies, Zenon DEF LifeInv, TrackInv, Working, Steady, TypeOK, ServerTypes
  <2>1. /\ pc = "ensure" /\ mode = "run" /\ t \in todo /\ UNCHANGED <<ws, cws>>
        /\ todo \subseteq want.tpl /\ want.tpl = TemplatesOf(rws.ref) /\ rws.fin
        /\ rws.exists /\ ~rws.deleting /\ rws.desired = "Running"
    BY <2>0 DEF EnsureAccessResource, Equipped, RunSteps, caches, LifeInv, Pursues
  <2> DEFINE inPlace == t \in rws.acc /\ routes[t].here
  <2>2. PICK o \in Replies :
          /\ routes' = IF o = "refused" \/ (inPlace /\ UpToDate(t)) THEN routes
                       ELSE [routes EXCEPT ![t] = Wanted(~inPlace)]
          /\ IF o = "ok"
             THEN /\ todo' = todo \ {t} /\ rws' = [rws EXCEPT !.acc = @ \cup {t}]
                  /\ UNCHANGED <<pc, queued, mode, rFresh, want, rDep, rSvc, rErr>>
             ELSE Return(TRUE)
    BY Zenon DEF EnsureAccessResource
  <2>3. inPlace => t \in ws.acc
    BY <2>0, <2>1 DEF Tracks, BeforePrune
  <2>4. \A u \in Routes : u # t => routes'[u] = routes[u]
    BY <2>0, <2>2
  <2>5. routes'[t] = routes[t] \/ routes'[t].owned = ~inPlace
    <3>1. Wanted(~inPlace).owned = ~inPlace
      BY DEF Wanted
    <3> HIDE DEF inPlace
    <3> QED
      BY <2>0, <2>2, <3>1, Zenon
  <2>6. \A u \in Routes : routes'[u].here /\ ~routes'[u].owned => u \in ws.acc
    <3>1. inPlace \in BOOLEAN
      BY <2>0 DEF Route
    <3> HIDE DEF inPlace
    <3> QED
      BY <2>0, <2>3, <2>4, <2>5, <3>1, Zenon DEF Tracked, UnownedTracked
  <2>7. CASE Return(TRUE)
    BY <2>1, <2>6, <2>7, <1>ReturnTrack, Zenon
  <2>8. CASE ~Return(TRUE)
    <3>1. /\ todo' = todo \ {t} /\ rws' = [rws EXCEPT !.acc = rws.acc \cup {t}]
          /\ UNCHANGED <<pc, mode, rFresh, want>>
      BY <2>2, <2>8, Zenon
    <3>2. /\ rws'.acc = rws.acc \cup {t} /\ rws'.fin = rws.fin /\ rws'.exists = rws.exists
          /\ rws'.ref = rws.ref
      BY <2>0, <3>1, Zenon DEF Workspace
    <3>3. Bound(rws')
      BY <2>1, <3>2 DEF Bound
    <3>4. Tracked'
      BY <2>0, <2>1, <2>6, <3>3, <1>TrackedStep, Zenon DEF Tracked, Bound
    <3>5. \A r \in Refs : TemplatesOf(r)' = TemplatesOf(r)
      BY <2>0, <1>SameTemplates, Zenon
    <3>6. TemplatesOf(rws.ref)' = TemplatesOf(rws.ref)
      <4>1. TemplatesOf(rws.ref)' = IF rws'.ref = None THEN {} ELSE strat'[rws'.ref].tpl
        BY DEF TemplatesOf
      <4>2. TemplatesOf(rws.ref) = IF rws.ref = None THEN {} ELSE strat[rws.ref].tpl
        BY DEF TemplatesOf
      <4> QED
        BY <2>0, <3>2, <4>1, <4>2 DEF TemplatesKept, Refs
    <3>7. Current'
      BY <2>0, <2>1, <3>1 DEF Current
    <3>8. Equipped'
      BY <2>0, <2>1, <3>1, <3>2, <3>6 DEF Equipped
    <3>9. Tracks'
      BY <2>0, <2>1, <3>1, <3>2, <3>6 DEF Tracks
    <3>10. Pruned'
      BY <2>1, <3>1, ZenonT(30) DEF Pruned
    <3>11. Dropped'
      <4> SUFFICES ASSUME rFresh, NEW u \in ws.acc \ rws'.acc
                   PROVE  ~routes'[u].here /\ ~Asks(ws, u)'
        BY <2>1, <3>1, Zenon DEF Dropped
      <4>1. u # t /\ u \in Routes /\ ~routes[u].here /\ ~Asks(ws, u)
        BY <2>0, <3>2, Zenon DEF Dropped
      <4>2. TemplatesOf(ws.ref)' = TemplatesOf(ws.ref)
        BY <2>0, <2>1, <1>SameTemplates, Zenon
      <4>3. ~Asks(ws, u)'
        BY <2>1, <4>1, <4>2, Zenon DEF Asks
      <4> QED
        BY <2>4, <4>1, <4>3
    <3> QED
      BY <3>4, <3>7, <3>8, <3>9, <3>10, <3>11 DEF TrackInv, Working
  <2> QED
    BY <2>7, <2>8, Zenon
<1>DeleteAccessTrack.
      ASSUME LifeInv, TrackInv, Steady, NEW t \in Routes, EnsureAccessResourceDeleted(t)
      PROVE  TrackInv'
  <2> USE <1>DeleteAccessTrack
  <2>0. /\ TypeOK /\ Tracked /\ TemplatesKept /\ Current /\ Equipped /\ Tracks /\ Pruned /\ Dropped
        /\ rws.acc \in SUBSET Routes /\ ws.acc \in SUBSET Routes
        /\ ws.ref \in Refs /\ rws.ref \in Refs /\ routes \in [Routes -> Route]
    BY Copies, Zenon DEF LifeInv, TrackInv, Working, Steady, TypeOK, ServerTypes
  <2>1. pc = "prune" /\ UNCHANGED <<ws, cws>>
    BY DEF EnsureAccessResourceDeleted, caches
  <2>2. PICK o \in Replies :
          /\ routes' = IF o = "refused" THEN routes ELSE [routes EXCEPT ![t] = NoRoute]
          /\ IF o = "ok"
             THEN /\ todo' = todo \ {t}
                  /\ UNCHANGED <<pc, queued, mode, rws, rFresh, want, rDep, rSvc, rErr>>
             ELSE IF mode = "run" THEN Return(TRUE)
             ELSE /\ pc' = "dep" /\ todo' = {} /\ rErr' = TRUE
                  /\ UNCHANGED <<queued, mode, rws, rFresh, want, rDep, rSvc>>
    BY Zenon DEF EnsureAccessResourceDeleted
  <2>3. ~NoRoute.here
    BY Zenon DEF NoRoute
  <2>4. \A u \in Routes : (u # t /\ routes'[u] = routes[u]) \/ (u = t /\ (routes'[u] = routes[u] \/ ~routes'[u].here))
    BY <2>0, <2>2, <2>3, Zenon
  <2>5. o = "ok" => ~routes'[t].here
    BY <2>0, <2>2, <2>3, ZenonT(30)
  <2>6. \A u \in Routes : routes'[u].here /\ ~routes'[u].owned => u \in ws.acc
    BY <2>0, <2>4 DEF Tracked, UnownedTracked
  <2>7. CASE Return(TRUE)
    BY <2>1, <2>6, <2>7, <1>ReturnTrack, Zenon
  <2>8. CASE ~Return(TRUE)
    <3>1. /\ UNCHANGED <<mode, rws, rFresh, want>>
          /\ \/ pc' = pc /\ todo' = todo \ {t} /\ o = "ok"
             \/ pc' = "dep" /\ mode # "run"
      BY <2>2, <2>8, ZenonT(30)
    <3>2. Tracked'
      BY ZenonT(30), <2>0, <2>1, <2>6, <3>1, <1>TrackedStep DEF Tracked, Bound
    <3>3. TemplatesOf(rws.ref)' = TemplatesOf(rws.ref) /\ TemplatesOf(ws.ref)' = TemplatesOf(ws.ref)
      BY <2>0, <2>1, <3>1, <1>SameTemplates, Zenon
    <3>4. Current' /\ Equipped'
      BY <2>0, <2>1, <3>1, <3>3, Zenon DEF Current, Equipped
    <3>5. Tracks'
      BY <2>1, <3>1, Zenon DEF Tracks, BeforePrune
    <3>6. Pruned'
      BY <2>0, <2>1, <2>4, <2>5, <3>1, ZenonT(30) DEF Pruned, Kept
    <3>7. Dropped'
      BY <2>0, <2>1, <2>4, <3>1, <3>3 DEF Dropped, Asks
    <3> QED
      BY <3>2, <3>4, <3>5, <3>6, <3>7 DEF TrackInv, Working
  <2> QED
    BY <2>7, <2>8, Zenon
\* Everything to prune is gone: the list is cut to what is kept.
<1>PruneDoneTrack.
      ASSUME LifeInv, TrackInv, Steady, EnsureAccessResourcesDeleted
      PROVE  TrackInv'
  <2> USE <1>PruneDoneTrack
  <2>0. /\ TypeOK /\ Tracked /\ TemplatesKept /\ Current /\ Equipped /\ Pruned /\ Dropped
        /\ rws \in Workspace /\ rws.acc \in SUBSET Routes /\ ws.acc \in SUBSET Routes
        /\ ws.ref \in Refs /\ rws.ref \in Refs /\ mode \in Modes
    BY Copies DEF LifeInv, TrackInv, Working, Steady
  <2>1. /\ pc = "prune" /\ todo = {} /\ rws' = [rws EXCEPT !.acc = rws.acc \cap Kept]
        /\ pc' = IF mode = "run" THEN "running" ELSE "dep"
        /\ UNCHANGED <<ws, cws, routes, strat, mode, rFresh, want, todo>>
    BY DEF EnsureAccessResourcesDeleted, Goto, server, caches
  <2>2. /\ rws'.acc = rws.acc \cap Kept /\ rws'.fin = rws.fin /\ rws'.exists = rws.exists
        /\ rws'.ref = rws.ref
    BY <2>0, <2>1, Zenon DEF Workspace
  <2>3. Bound(rws')
    BY <2>0, <2>2, Zenon DEF Tracked, Bound
  <2>4. Tracked'
    BY <2>0, <2>1, <2>3, <1>TrackedStep DEF Tracked, Bound, UnownedTracked
  <2>5. TemplatesOf(ws.ref)' = TemplatesOf(ws.ref) /\ TemplatesOf(rws.ref)' = TemplatesOf(rws.ref)
    BY <2>1, <2>2 DEF TemplatesOf
  <2>6. Current'
    BY <2>0, <2>1 DEF Current
  <2>7. Equipped'
    BY <2>0, <2>1, <2>2, <2>5 DEF Equipped, RunSteps
  <2>8. Tracks' /\ Pruned'
    BY <2>1 DEF Tracks, Pruned, BeforePrune
  <2>9. ASSUME rFresh, NEW t \in ws.acc \ rws'.acc PROVE ~routes[t].here /\ ~Asks(ws, t)
    <3>1. CASE t \notin rws.acc
      BY <2>0, <2>9, <3>1, ZenonT(30) DEF Dropped
    <3>2. CASE t \in rws.acc
      <4>1. t \notin Kept /\ ~routes[t].here
        BY <2>0, <2>1, <2>2, <2>9, <3>2, Zenon DEF Pruned
      <4>2. rws.deleting = ws.deleting /\ rws.desired = ws.desired /\ rws.ref = ws.ref
        BY <2>9, FreshCopy, Zenon
      <4>3. CASE mode = "run"
        <5>1. t \notin TemplatesOf(ws.ref)
          BY <2>0, <2>1, <4>1, <4>2, <4>3, Zenon DEF Kept, Equipped, RunSteps
        <5> QED
          BY <4>1, <5>1 DEF Asks
      <4>4. CASE mode = "stop"
        BY <4>1, <4>2, <4>4, Zenon DEF LifeInv, Pursues, Asks
      <4>5. CASE mode = "delete"
        BY <4>1, <4>2, <4>5 DEF LifeInv, Pursues, Asks
      <4> QED
        BY <2>0, <4>3, <4>4, <4>5 DEF Modes
    <3> QED
      BY <3>1, <3>2, Zenon
  <2>10. Dropped'
    BY <2>1, <2>5, <2>9 DEF Dropped, Asks
  <2> QED
    BY <2>4, <2>6, <2>7, <2>8, <2>10, Zenon DEF TrackInv, Working
\* The cached workspace catches up, at any moment or in a restart.
<1>SyncTrack.
      ASSUME LifeInv, TrackInv, Steady, cws' = ws, UNCHANGED <<ws, routes>>,
             \/ UNCHANGED <<pc, local>>
             \/ pc' = "idle" /\ rFresh' = FALSE /\ want' = NoWant /\ rws' = NoWorkspace
      PROVE  TrackInv'
  <2> USE <1>SyncTrack
  <2>0. TypeOK /\ Tracked /\ TemplatesKept /\ Matched'
    BY DEF LifeInv, TrackInv, Steady
  <2>1. Working' /\ Bound(rws)'
    <3>1. CASE UNCHANGED <<pc, local>>
      <4>1. UNCHANGED <<mode, rws, rFresh, want, todo>>
        BY <3>1, Zenon DEF local
      <4>2. TemplatesOf(rws.ref)' = TemplatesOf(rws.ref) /\ TemplatesOf(ws.ref)' = TemplatesOf(ws.ref)
        <5>1. rws.ref \in Refs /\ ws.ref \in Refs
          BY <2>0, Copies, Zenon
        <5> QED
          BY <2>0, <4>1, <5>1, <1>SameTemplates, Zenon
      <4>3. Current' /\ Equipped' /\ Tracks'
        BY <3>1, <4>1, <4>2, Zenon DEF TrackInv, Working, Current, Equipped, Tracks
      <4>4. Pruned' /\ Dropped'
        BY <3>1, <4>1, <4>2 DEF TrackInv, Working, Pruned, Dropped, Kept, Asks
      <4> QED
        BY <2>0, <4>1, <4>3, <4>4, Zenon DEF Working, Tracked, Bound
    <3>2. CASE pc' = "idle" /\ rFresh' = FALSE /\ want' = NoWant /\ rws' = NoWorkspace
      BY <3>2, <1>IdleWorker, ZenonT(30)
    <3> QED
      BY <3>1, <3>2, Zenon
  <2>2. Tracked'
    BY <2>0, <2>1 DEF Tracked, UnownedTracked, Bound
  <2> QED
    BY <2>1, <2>2 DEF TrackInv
\* A user's edit leaves the tracked list alone and makes the worker's copy stale;
\* a workspace that goes at once tracked nothing.
<1>EditTrack.
      ASSUME LifeInv, TrackInv, Steady, EditSpec \/ DeleteWorkspace
      PROVE  TrackInv'
  <2> USE <1>EditTrack
  <2>0. TypeOK /\ Tracked /\ TemplatesKept /\ ws \in Workspace /\ rws.ref \in Refs
    BY Copies, Zenon DEF LifeInv, TrackInv, Steady
  <2>1. PICK new : EditWorkspace(new) /\ new.acc = ws.acc /\ Bound(new)
    <3>1. CASE EditSpec
      <4>1. PICK new : EditWorkspace(new) /\ new.acc = ws.acc /\ new.fin = ws.fin /\ new.exists = ws.exists
        <5> DEFINE same(w) == w.acc = ws.acc /\ w.fin = ws.fin /\ w.exists = ws.exists
        <5>1. /\ \A d \in Desired : same([ws EXCEPT !.desired = d])
              /\ \A r \in Refs : same([ws EXCEPT !.ref = r])
              /\ \A v \in Revs : same([ws EXCEPT !.rev = v])
          BY <2>0 DEF Workspace
        <5>2. \E new : EditWorkspace(new) /\ same(new)
          <6> HIDE DEF same
          <6> QED
            BY <3>1, <5>1, ZenonT(30) DEF EditSpec
        <5> QED
          BY <5>2
      <4>2. Bound(new)
        BY <2>0, <4>1 DEF Tracked, Bound
      <4> QED
        BY <4>1, <4>2
    <3>2. CASE DeleteWorkspace /\ ws.fin
      <4>1. EditWorkspace([ws EXCEPT !.deleting = TRUE])
        BY <3>2 DEF DeleteWorkspace
      <4>2. /\ [ws EXCEPT !.deleting = TRUE].acc = ws.acc /\ [ws EXCEPT !.deleting = TRUE].fin = ws.fin
            /\ [ws EXCEPT !.deleting = TRUE].exists = ws.exists
        BY <2>0 DEF Workspace
      <4>3. Bound([ws EXCEPT !.deleting = TRUE])
        BY <2>0, <4>2 DEF Tracked, Bound
      <4> QED
        BY <4>1, <4>2, <4>3, Zenon
    <3>3. CASE DeleteWorkspace /\ ~ws.fin
      <4>1. EditWorkspace(NoWorkspace) /\ ws.acc = {}
        BY <2>0, <3>3, Zenon DEF DeleteWorkspace, Tracked, Bound
      <4> QED
        BY <4>1, NoWorkspaceBound
    <3> QED
      BY <3>1, <3>2, <3>3, Zenon
  <2>2. /\ ws' = new /\ rFresh' = FALSE
        /\ UNCHANGED <<routes, cws, pc, mode, rws, want, todo>>
    BY <2>1, Zenon DEF EditWorkspace
  <2>3. ws'.acc = ws.acc /\ Bound(ws') /\ Bound(rws')
    BY <2>0, <2>1, <2>2 DEF Tracked
  <2>4. Tracked'
    BY <2>0, <2>2, <2>3, <1>TrackedStep, Zenon DEF Tracked, UnownedTracked
  <2>5. TemplatesOf(rws.ref)' = TemplatesOf(rws.ref)
    BY <2>0, <2>2, <1>SameTemplates
  <2>6. Working'
    BY <2>2, <2>3, <2>5, Zenon DEF TrackInv, Working, Current, Equipped, Tracks, Pruned, Dropped, Kept
  <2> QED
    BY <2>4, <2>6 DEF TrackInv
<1>EnvironmentTrack.
      ASSUME LifeInv, TrackInv, Steady,
             \/ ReconcileNothing \/ Informers \/ Kubernetes \/ Users \/ Restart \/ UNCHANGED vars
      PROVE  TrackInv'
  <2> USE <1>EnvironmentTrack
  <2>0. routes \in [Routes -> Route] /\ ~NoRoute.here
    BY Zenon DEF LifeInv, TypeOK, ServerTypes, NoRoute
  <2> USE DEF server, caches
  <2>1. CASE ReconcileNothing
    BY <2>1, <1>QuietTrack DEF ReconcileNothing
  <2>2. CASE SyncWorkspace
    BY <2>2, <1>SyncTrack, Zenon DEF SyncWorkspace, Worker
  <2>3. CASE SyncDeployment \/ SyncService \/ SyncPVC
    BY <2>3, <1>QuietTrack DEF SyncDeployment, SyncService, SyncPVC, Worker
  <2>4. CASE \E s \in Strategies : AccessStrategyEventHandler(s)
    BY <2>4, <1>QuietTrack, Zenon DEF AccessStrategyEventHandler, Worker
  <2>5. CASE DeploymentReady \/ DeploymentGone \/ ServiceGone \/ PVCGone
    BY <2>5, <1>QuietTrack, Zenon DEF DeploymentReady, DeploymentGone, ServiceGone, PVCGone, Worker
  <2>6. CASE \E t \in Routes : RouteCollected(t)
    BY <2>0, <2>6, <1>QuietTrack, Zenon DEF RouteCollected, Worker
  <2>7. CASE \E s \in Strategies : EditStrategy(s)
    BY <2>7, <1>QuietTrack DEF EditStrategy, Worker
  <2>8. CASE Stray
    BY <2>0, <2>8, <1>QuietTrack DEF Stray, Worker
  <2>9. CASE Restart
    BY <2>9, <1>SyncTrack, Zenon DEF Restart
  <2>10. CASE UNCHANGED vars
    BY <2>10, <1>QuietTrack, Zenon DEF vars
  <2> QED
    BY <2>1, <2>2, <2>3, <2>4, <2>5, <2>6, <2>7, <2>8, <2>9, <2>10, <1>EditTrack, Zenon
       DEF Informers, Kubernetes, Users
\* With the templates kept, a strategy's cached templates never lag.
<1>MatchedStep.
      ASSUME TypeOK, Matched, TemplatesKept, [Next]_vars
      PROVE  Matched'
  <2> USE <1>MatchedStep
  <2>1. CASE UNCHANGED cstrat
    BY <2>1 DEF Matched, TemplatesKept
  <2>2. CASE \E s \in Strategies : AccessStrategyEventHandler(s)
    BY <2>2, Zenon DEF AccessStrategyEventHandler, Matched, TemplatesKept, TypeOK, CacheTypes, server
  <2>3. CASE cstrat' = strat /\ UNCHANGED strat
    BY <2>3 DEF Matched
  <2>4. Informers \/ Restart \/ UNCHANGED cstrat
    <3> USE DEF caches, StatusFrame
    <3>1. CASE ReconcileNothing \/ ReconcileDeletion \/ ReconcileMeta \/ ReconcileStopped
               \/ ReconcileRunning \/ UpdateMeta \/ GetAccessStrategy
      BY <3>1, Zenon DEF ReconcileNothing, ReconcileDeletion, ReconcileMeta, ReconcileStopped,
                  ReconcileRunning, Begin, UpdateMeta, GetAccessStrategy
    <3>2. CASE \/ EnsurePVCExists \/ EnsureDeploymentExists \/ EnsureServiceExists
               \/ EnsureDeploymentDeleted \/ EnsureServiceDeleted \/ EnsurePVCDeleted
      BY <3>2, Zenon DEF EnsurePVCExists, EnsureDeploymentExists, EnsureServiceExists,
                  EnsureDeploymentDeleted, EnsureServiceDeleted, EnsurePVCDeleted
    <3>3. CASE \/ \E t \in Routes : EnsureAccessResource(t) \/ EnsureAccessResourceDeleted(t)
               \/ EnsureAccessResourcesExist \/ EnsureAccessResourcesDeleted
      BY <3>3, Zenon DEF EnsureAccessResource, EnsureAccessResourceDeleted, EnsureAccessResourcesExist,
                  EnsureAccessResourcesDeleted
    <3>4. CASE \/ UpdateStartingStatus \/ UpdateStoppingStatus \/ UpdateErrorStatus
               \/ UpdateStoppedStatus \/ UpdateRunningStatus
               \/ CheckWorkspaceIdle \/ StopWorkspaceDueToIdle
               \/ UpdateDeletingStatus \/ AreAllResourcesDeleted \/ RemoveFinalizer
      BY <3>4, Zenon DEF UpdateStartingStatus, UpdateStoppingStatus, UpdateErrorStatus, UpdateStoppedStatus,
                  UpdateRunningStatus, CheckWorkspaceIdle, StopWorkspaceDueToIdle,
                  UpdateDeletingStatus, AreAllResourcesDeleted, RemoveFinalizer
    <3>5. CASE Kubernetes
      BY <3>5 DEF Kubernetes, DeploymentReady, DeploymentGone, ServiceGone, PVCGone, RouteCollected
    <3>6. CASE Users
      BY <3>6, Zenon DEF Users, EditSpec, DeleteWorkspace, EditWorkspace, EditStrategy, Stray
    <3>7. CASE UNCHANGED vars
      BY <3>7 DEF vars
    <3> QED
      BY <3>1, <3>2, <3>3, <3>4, <3>5, <3>6, <3>7, Zenon DEF Next, Reconcile
  <2> QED
    BY <2>1, <2>2, <2>3, <2>4, Zenon DEF Informers, Restart, SyncWorkspace, SyncDeployment, SyncService,
                                  SyncPVC, server
<1> SUFFICES ASSUME LifeInv, TrackInv, TemplatesKept, [Next]_vars PROVE TrackInv'
  BY Zenon
<1>1. Steady
  BY <1>MatchedStep DEF LifeInv, TrackInv, Tracked, Steady
<1> QED
  BY <1>1, <1>BeginTrack, <1>WritesTrack, <1>LongWritesTrack, <1>LocalStepTrack, <1>EnsureChildrenTrack,
     <1>DeleteChildrenTrack, <1>AccessTrack, <1>DeleteAccessTrack, <1>PruneDoneTrack, <1>EnvironmentTrack
     DEF Next, Reconcile

LEMMA TrackCorrect == Spec /\ [][TemplatesKept]_vars => []TrackInv
<1>1. LifeInv /\ TrackInv /\ [Next]_vars /\ [TemplatesKept]_vars => TrackInv'
  <2>1. UNCHANGED vars => TemplatesKept
    BY DEF vars, server, TemplatesKept
  <2> QED
    BY <2>1, TrackStep
<1> QED
  BY <1>1, TrackInit, LifeCorrect, PTL DEF Spec

\* ensureAccessResourceExists never strands what it strips of its owner: while no
\* strategy changes which access resources it has, every access resource without
\* an owner reference is one the workspace's status tracks, whatever edits of
\* either object, conflicts, lost answers, restarts and stale caches intervene.
THEOREM UnownedTrackedCorrect == Spec /\ [][TemplatesKept]_vars => []UnownedTracked
<1>1. TrackInv => UnownedTracked
  BY DEF TrackInv, Tracked
<1> QED
  BY <1>1, TrackCorrect, PTL

\* ReconcileDeletion leaks nothing: while no strategy changes which access
\* resources it has, what is left of them once the workspace is gone carries the
\* owner reference the garbage collector goes by.
THEOREM NoLeakCorrect == Spec /\ [][TemplatesKept]_vars => []NoLeak
<1>1. TrackInv => NoLeak
  BY ZenonT(30) DEF TrackInv, Tracked, UnownedTracked, Bound, NoLeak
<1> QED
  BY <1>1, TrackCorrect, PTL
-----------------------------------------------------------------------------
(***************************************************************************)
(* No event is lost.  Calm: nothing is queued, no cache lags where the     *)
(* workspace's handlers listen and no deletion is under way.  While it is  *)
(* calm nothing the worker read has changed, so what each of its steps     *)
(* established still holds at the later ones (Established), and what a     *)
(* reconcile leaves when it returns without a requeue is what was asked.   *)
(***************************************************************************)
Lags ==
  /\ ws.exists /\ ~ws.deleting /\ ws.ref # None /\ ws.label = ws.ref
  /\ cstrat[ws.ref] # strat[ws.ref]

Calm ==
  /\ ~queued /\ fresh = Watched /\ ~Lags
  /\ ~dep.term /\ svc # "deleting" /\ pvc # "deleting"

Reflects ==
  /\ "dep" \in fresh => cdep = dep
  /\ "svc" \in fresh => csvc = svc
  /\ "pvc" \in fresh => cpvc = pvc

Mirrors ==
  /\ Reflects
  /\ \A s \in Strategies : cstrat[s].ver <= strat[s].ver
  /\ ws.exists /\ ws.deleting => ws.fin

Up(t) ==
  \/ routes[t].here /\ routes[t].from = ws.ref /\ routes[t].ver = Version
  \/ "route" \in Strays /\ ~routes[t].here

Resolved == want = [from |-> ws.ref, ver |-> Version, tpl |-> Templated]

HasStorage == UsesStorage => pvc = "live"

HasDeployment ==
  /\ dep.here
  /\ ws.av => dep.rev = ws.rev /\ dep.from = ws.ref /\ dep.ver = Version

RunEstablished ==
  /\ pc \in RunSteps \ {"strategy"} => Resolved
  /\ pc \in {"dep", "svc", "ensure", "prune", "running", "idleCheck"} => HasStorage
  /\ pc \in {"svc", "ensure", "prune", "running", "idleCheck"} => HasDeployment /\ rDep = dep.ready
  /\ pc \in {"ensure", "prune", "running", "idleCheck"} => svc = "live" /\ rDep
  /\ pc = "ensure" => \A t \in want.tpl \ todo : Up(t) /\ t \in rws.acc
  /\ pc = "prune" => \A t \in want.tpl : Up(t) /\ t \in rws.acc /\ t \notin todo
  /\ pc \in {"running", "idleCheck"} => rws.acc = want.tpl /\ \A t \in want.tpl : Up(t)
  /\ pc = "idleCheck" => ws.av /\ ~ws.dg /\ ws.acc = want.tpl

StopEstablished ==
  /\ pc = "prune" => ~rErr
  /\ pc \in {"dep", "svc"} => rErr \/ rws.acc = {}
  /\ pc = "svc" /\ rDep => ~dep.here
  /\ pc = "stopped" => ~dep.here /\ svc = "absent" /\ rws.acc = {}

Established ==
  /\ rFresh
  /\ mode # "delete" /\ pc # "meta" => rws.label = rws.ref
  /\ mode = "run" => RunEstablished
  /\ mode = "stop" => StopEstablished

Rest ==
  /\ ~ws.deleting /\ ~ws.dg /\ ws.label = ws.ref
  /\ IF ws.desired = "Stopped" THEN StoppedAsAsked ELSE RunningAsAsked

Cleared == pc = "idle" => want = NoWant /\ ~rErr

Settles ==
  /\ pc # "idle" => Established
  /\ pc = "idle" /\ ws.exists => Rest

SettleInv == Mirrors /\ Cleared /\ (Calm => Settles)

Starts == ReconcileNothing \/ ReconcileDeletion \/ ReconcileMeta \/ ReconcileStopped \/ ReconcileRunning

Writers ==
  \/ UpdateMeta \/ UpdateStartingStatus \/ UpdateStoppingStatus \/ UpdateErrorStatus
  \/ UpdateStoppedStatus \/ UpdateRunningStatus \/ StopWorkspaceDueToIdle
  \/ UpdateDeletingStatus \/ RemoveFinalizer

Children ==
  \/ EnsurePVCExists \/ EnsureDeploymentExists \/ EnsureServiceExists
  \/ EnsureDeploymentDeleted \/ EnsureServiceDeleted \/ EnsurePVCDeleted

Access ==
  \/ \E t \in Routes : EnsureAccessResource(t) \/ EnsureAccessResourceDeleted(t)
  \/ EnsureAccessResourcesExist \/ EnsureAccessResourcesDeleted
  \/ GetAccessStrategy \/ CheckWorkspaceIdle \/ AreAllResourcesDeleted

LEMMA ReconcileParts == Reconcile => Starts \/ Writers \/ Children \/ Access
BY Zenon DEF Reconcile, Starts, Writers, Children, Access

\* A step of a reconcile returns or goes on; what each part of it leaves alone.
Onward == UNCHANGED queued /\ pc' # "idle"

LEMMA WritersFrame ==
  ASSUME Writers
  PROVE  /\ UNCHANGED <<dep, svc, pvc, routes, strat, cws, cdep, csvc, cpvc, cstrat>>
         /\ Changed("ws", ws', ws)
         /\ (\E q : Return(q)) \/ Onward
<1> USE DEF StatusFrame, Write
<1>1. CASE UpdateMeta \/ UpdateStartingStatus \/ UpdateStoppingStatus \/ UpdateErrorStatus
  BY <1>1, Zenon DEF UpdateMeta, UpdateStartingStatus, UpdateStoppingStatus, UpdateErrorStatus
<1>2. CASE UpdateStoppedStatus \/ StopWorkspaceDueToIdle \/ RemoveFinalizer
  BY <1>2, Zenon DEF UpdateStoppedStatus, StopWorkspaceDueToIdle, RemoveFinalizer
<1>3. CASE UpdateRunningStatus \/ UpdateDeletingStatus
  <2>1. (\E q : Return(q)) \/ Goto("idleCheck") \/ Goto("prune")
    BY <1>3, Zenon DEF UpdateRunningStatus, UpdateDeletingStatus
  <2>2. (\E q : Return(q)) \/ Onward
    BY <2>1 DEF Goto, Onward
  <2> QED
    BY <1>3, <2>2, Zenon DEF UpdateRunningStatus, UpdateDeletingStatus
<1> QED
  BY <1>1, <1>2, <1>3 DEF Writers

LEMMA AccessFrame ==
  ASSUME Access
  PROVE  /\ UNCHANGED <<ws, dep, svc, pvc, strat, caches>>
         /\ (\E q : Return(q)) \/ Onward
<1> USE DEF server
<1>1. CASE \E t \in Routes : EnsureAccessResource(t)
  <2>1. pc = "ensure" /\ (Return(TRUE) \/ UNCHANGED <<pc, queued>>)
    BY <1>1, Zenon DEF EnsureAccessResource
  <2> QED
    BY <1>1, <2>1, Zenon DEF EnsureAccessResource, Onward
<1>2. CASE \E t \in Routes : EnsureAccessResourceDeleted(t)
  <2>1. pc = "prune" /\ (Return(TRUE) \/ (UNCHANGED queued /\ (pc' = pc \/ pc' = "dep")))
    BY <1>2, Zenon DEF EnsureAccessResourceDeleted
  <2> QED
    BY <1>2, <2>1, Zenon DEF EnsureAccessResourceDeleted, Onward
<1>3. CASE EnsureAccessResourcesExist \/ EnsureAccessResourcesDeleted
  BY <1>3 DEF EnsureAccessResourcesExist, EnsureAccessResourcesDeleted, Goto, Onward
<1>4. CASE GetAccessStrategy \/ CheckWorkspaceIdle \/ AreAllResourcesDeleted
  <2>1. (\E q : Return(q)) \/ Goto("pvc") \/ Goto("idleStop") \/ Goto("finalizer")
    BY <1>4, Zenon DEF GetAccessStrategy, CheckWorkspaceIdle, AreAllResourcesDeleted, Proceed
  <2>2. (\E q : Return(q)) \/ Onward
    BY <2>1 DEF Goto, Onward
  <2>3. UNCHANGED <<ws, dep, svc, pvc, strat, caches>>
    BY <1>4, Zenon DEF GetAccessStrategy, CheckWorkspaceIdle, AreAllResourcesDeleted
  <2> QED
    BY <2>2, <2>3
<1> QED
  BY <1>1, <1>2, <1>3, <1>4 DEF Access

LEMMA ChildrenStep ==
  ASSUME Children
  PROVE  /\ UNCHANGED <<ws, routes, strat, cws, cdep, csvc, cpvc, cstrat>>
         /\ \/ Changed("dep", dep', dep) /\ UNCHANGED <<svc, pvc>>
            \/ Changed("svc", svc', svc) /\ UNCHANGED <<dep, pvc>>
            \/ Changed("pvc", pvc', pvc) /\ UNCHANGED <<dep, svc>>
         /\ Return(TRUE) \/ Onward
<1> USE DEF Goto, Proceed, Onward
<1>1. CASE EnsurePVCExists
  BY <1>1, Zenon DEF EnsurePVCExists
<1>2. CASE EnsureDeploymentExists
  BY <1>2, Zenon DEF EnsureDeploymentExists, UseDeployment
<1>3. CASE EnsureServiceExists
  BY <1>3, Zenon DEF EnsureServiceExists, UseService
<1>4. CASE EnsureDeploymentDeleted
  BY <1>4, Zenon DEF EnsureDeploymentDeleted, FoundDeployment, DeleteFailed
<1>5. CASE EnsureServiceDeleted
  BY <1>5, Zenon DEF EnsureServiceDeleted, FoundService, DeleteFailed, StopVerdict
<1>6. CASE EnsurePVCDeleted
  BY <1>6, Zenon DEF EnsurePVCDeleted
<1> QED
  BY <1>1, <1>2, <1>3, <1>4, <1>5, <1>6, Zenon DEF Children

\* The environment, likewise.
LEMMA EnvironmentFrame ==
  ASSUME Kubernetes \/ Users
  PROVE  /\ UNCHANGED <<cws, cdep, csvc, cpvc, cstrat, pc, want, rErr>> /\ (queued => queued')
         /\ \/ Changed("ws", ws', ws) /\ UNCHANGED <<dep, svc, pvc, strat, queued>>
            \/ Changed("dep", dep', dep) /\ UNCHANGED <<ws, svc, pvc, strat, queued>>
            \/ Changed("svc", svc', svc) /\ UNCHANGED <<ws, dep, pvc, strat, queued>>
            \/ Changed("pvc", pvc', pvc) /\ UNCHANGED <<ws, dep, svc, strat, queued>>
            \/ UNCHANGED <<ws, dep, svc, pvc, fresh, strat>>
            \/ (\E s \in Strategies : EditStrategy(s)) /\ UNCHANGED <<ws, dep, svc, pvc, fresh, queued>>
<1> USE DEF caches, Worker, local
<1>1. CASE DeploymentReady \/ DeploymentGone \/ ServiceGone \/ PVCGone
  BY <1>1 DEF DeploymentReady, DeploymentGone, ServiceGone, PVCGone
<1>2. CASE \E t \in Routes : RouteCollected(t)
  BY <1>2, Zenon DEF RouteCollected
<1>3. CASE EditSpec \/ DeleteWorkspace
  <2>1. PICK new : EditWorkspace(new)
    BY <1>3, Zenon DEF EditSpec, DeleteWorkspace
  <2> QED
    BY <2>1 DEF EditWorkspace
<1>4. CASE \E s \in Strategies : EditStrategy(s)
  <2>1. UNCHANGED <<ws, dep, svc, pvc, caches, queued, pc, local>>
    BY <1>4, Zenon DEF EditStrategy
  <2> QED
    BY <1>4, <2>1, Zenon
<1>5. CASE Stray
  <2>1. /\ UNCHANGED <<cws, cdep, csvc, cpvc, cstrat, strat, pc, local>>
        /\ \/ Changed("dep", dep', dep) /\ UNCHANGED <<ws, svc, pvc, queued>>
           \/ Changed("svc", svc', svc) /\ UNCHANGED <<ws, dep, pvc, queued>>
           \/ UNCHANGED <<ws, dep, svc, pvc, fresh>>
    BY <1>5 DEF Stray
  <2>2. queued => queued'
    BY <1>5, Zenon DEF Stray
  <2> QED
    BY <2>1, <2>2
<1> QED
  BY <1>1, <1>2, <1>3, <1>4, <1>5, Zenon DEF Kubernetes, Users

LEMMA InformersFrame ==
  ASSUME Informers
  PROVE  /\ UNCHANGED <<server, pc, local>>
         /\ \/ /\ queued' = TRUE /\ UNCHANGED cstrat
               /\ \/ UNCHANGED <<cdep, csvc, cpvc>> /\ fresh' = fresh \cup {"ws"}
                  \/ cdep' = dep /\ UNCHANGED <<cws, csvc, cpvc>> /\ fresh' = fresh \cup {"dep"}
                  \/ csvc' = svc /\ UNCHANGED <<cws, cdep, cpvc>> /\ fresh' = fresh \cup {"svc"}
                  \/ cpvc' = pvc /\ UNCHANGED <<cws, cdep, csvc>> /\ fresh' = fresh \cup {"pvc"}
            \/ /\ UNCHANGED <<cws, cdep, csvc, cpvc, fresh>>
               /\ \E s \in Strategies : AccessStrategyEventHandler(s)
<1>1. CASE SyncWorkspace
  BY <1>1, Zenon DEF SyncWorkspace, Worker
<1>2. CASE SyncDeployment
  BY <1>2, Zenon DEF SyncDeployment, Worker
<1>3. CASE SyncService
  BY <1>3, Zenon DEF SyncService, Worker
<1>4. CASE SyncPVC
  BY <1>4 DEF SyncPVC, Worker
<1>5. CASE \E s \in Strategies : AccessStrategyEventHandler(s)
  BY <1>5, Zenon DEF AccessStrategyEventHandler, Worker
<1> QED
  BY <1>1, <1>2, <1>3, <1>4, <1>5, Zenon DEF Informers

LEMMA StartsFrame ==
  ASSUME Starts
  PROVE  /\ UNCHANGED <<server, caches, want, rErr>> /\ pc = "idle"
         /\ \/ ReconcileNothing /\ UNCHANGED <<pc, local>>
            \/ (\E p, m, t : Begin(p, m, t) /\ p # "idle")
<1>1. CASE ReconcileNothing
  BY <1>1, Zenon DEF ReconcileNothing, local
<1>2. CASE ~ReconcileNothing
  <2>1. PICK p, m, t : Begin(p, m, t) /\ p # "idle"
    <3>1. "deleting" # "idle" /\ "meta" # "idle" /\ "prune" # "idle"
          /\ (IF cws.ref = None THEN "pvc" ELSE "strategy") # "idle"
      OBVIOUS
    <3> QED
      BY <1>2, <3>1, Zenon DEF Starts, ReconcileDeletion, ReconcileMeta, ReconcileStopped, ReconcileRunning
  <2> QED
    BY <2>1 DEF Begin
<1> QED
  BY <1>1, <1>2, Zenon

\* A deletion under way has its finalizer.
LEMMA DeletingHeld ==
  ASSUME LifeInv, Mirrors, [Next]_vars, ws'.exists, ws'.deleting
  PROVE  ws'.fin
<1>0. ws \in Workspace /\ rws \in Workspace
  BY Copies, Zenon DEF LifeInv
<1>1. CASE UNCHANGED ws
  BY <1>1, Zenon DEF Mirrors
<1>2. CASE Writers
  <2>1. ws' = ws \/ (rFresh /\ pc # "idle" /\ rws.deleting = ws.deleting /\ rws.fin = ws.fin /\ rws.exists = ws.exists)
    <3>1. pc # "idle"
      BY <1>2, Zenon DEF Writers, UpdateMeta, UpdateStartingStatus, UpdateStoppingStatus, UpdateErrorStatus,
                  UpdateStoppedStatus, UpdateRunningStatus, StopWorkspaceDueToIdle,
                  UpdateDeletingStatus, RemoveFinalizer
    <3> QED
      BY <1>2, <3>1, WriterEffect, FreshCopy DEF Writers
  <2>2. PICK new : /\ ws' = ws \/ ws' = new
                   /\ new.exists /\ new.deleting => rws.exists /\ rws.deleting /\ (new.fin \/ new.fin = rws.fin)
    <3> DEFINE keeps(new) == new.exists /\ new.deleting => rws.exists /\ rws.deleting /\ (new.fin \/ new.fin = rws.fin)
    <3>1. /\ keeps([rws EXCEPT !.fin = TRUE, !.label = rws.ref]) /\ keeps(StartingStatus(rws))
          /\ keeps(StoppingStatus(rws)) /\ keeps(ErrorStatus(rws)) /\ keeps(StoppedStatus(rws))
          /\ keeps(RunningStatus(rws)) /\ keeps([rws EXCEPT !.desired = "Stopped"])
          /\ keeps([rws EXCEPT !.del = TRUE]) /\ keeps(NoWorkspace)
      BY <1>0 DEF Workspace, StartingStatus, StoppingStatus, ErrorStatus, StoppedStatus, RunningStatus,
                  Conditions, NoWorkspace, NewWorkspace
    <3> HIDE DEF keeps
    <3>2. \E new : (ws' = ws \/ ws' = new) /\ keeps(new)
      BY <1>2, <3>1, Zenon DEF Writers, UpdateMeta, UpdateStartingStatus, UpdateStoppingStatus, UpdateErrorStatus,
                  UpdateStoppedStatus, UpdateRunningStatus, StopWorkspaceDueToIdle,
                  UpdateDeletingStatus, RemoveFinalizer, Write
    <3> QED
      BY <3>2 DEF keeps
  <2> QED
    BY <2>1, <2>2 DEF Mirrors
<1>3. CASE EditSpec \/ DeleteWorkspace
  <2>1. PICK new : ws' = new /\ (new.exists /\ new.deleting => new.fin)
    <3> DEFINE held(new) == new.exists /\ new.deleting => new.fin
    <3>1. /\ \A d \in Desired : held([ws EXCEPT !.desired = d])
          /\ \A r \in Refs : held([ws EXCEPT !.ref = r])
          /\ \A v \in Revs : held([ws EXCEPT !.rev = v])
      BY <1>0 DEF Workspace, Mirrors
    <3>2. held(NoWorkspace) /\ (ws.fin => held([ws EXCEPT !.deleting = TRUE]))
      BY <1>0 DEF Workspace, NoWorkspace, NewWorkspace
    <3> HIDE DEF held
    <3>3. \E new : ws' = new /\ held(new)
      BY <1>3, <3>1, <3>2, Zenon DEF EditSpec, DeleteWorkspace, EditWorkspace
    <3> QED
      BY <3>3 DEF held
  <2> QED
    BY <2>1
<1> QED
  BY <1>1, <1>2, <1>3, WorkspaceFrame, Zenon DEF Writers

LEMMA ReflectsStep ==
  ASSUME Reflects, UNCHANGED <<cdep, csvc, cpvc>>,
         \/ Changed("ws", ws', ws) /\ UNCHANGED <<dep, svc, pvc>>
         \/ Changed("dep", dep', dep) /\ UNCHANGED <<svc, pvc>>
         \/ Changed("svc", svc', svc) /\ UNCHANGED <<dep, pvc>>
         \/ Changed("pvc", pvc', pvc) /\ UNCHANGED <<dep, svc>>
         \/ UNCHANGED <<dep, svc, pvc, fresh>>
  PROVE  Reflects'
BY Zenon DEF Reflects, Changed

LEMMA MirrorsStep ==
  ASSUME LifeInv, Mirrors, [Next]_vars
  PROVE  Mirrors'
<1>0. Reflects /\ \A s \in Strategies : cstrat[s].ver <= strat[s].ver
  BY DEF Mirrors
<1>1. strat \in [Strategies -> Strategy] /\ cstrat \in [Strategies -> Strategy]
  BY Zenon DEF LifeInv, TypeOK, ServerTypes, CacheTypes
<1> DEFINE Behind == \A s \in Strategies : cstrat[s].ver <= strat[s].ver
<1> SUFFICES Reflects' /\ Behind'
  BY DeletingHeld DEF Mirrors
<1>2. CASE Starts
  BY <1>0, <1>2, StartsFrame, ReflectsStep, Zenon DEF server, caches
<1>3. CASE Writers
  BY <1>0, <1>3, WritersFrame, ReflectsStep, ZenonT(30)
<1>4. CASE Children
  BY <1>0, <1>4, ChildrenStep, ReflectsStep, Zenon
<1>5. CASE Access
  BY <1>0, <1>5, AccessFrame, ReflectsStep DEF caches
<1>6. CASE Informers
  <2>1. CASE UNCHANGED cstrat
    BY <1>0, <1>6, <2>1, InformersFrame, ZenonT(30) DEF Reflects, server
  <2>2. CASE \E s \in Strategies : AccessStrategyEventHandler(s)
    BY <1>0, <1>1, <2>2 DEF AccessStrategyEventHandler, Reflects, server, Strategy
  <2> QED
    BY <1>6, <2>1, <2>2, InformersFrame, Zenon
<1>7. CASE Kubernetes \/ Users
  <2>1. Reflects'
    BY <1>0, <1>7, EnvironmentFrame, ReflectsStep, Zenon
  <2>2. CASE UNCHANGED strat
    BY <1>0, <1>7, <2>1, <2>2, EnvironmentFrame, Zenon
  <2>3. CASE \E s \in Strategies : EditStrategy(s)
    <3>1. PICK s, T : /\ s \in Strategies
                      /\ strat' = [strat EXCEPT ![s] = [ver |-> strat[s].ver + 1, tpl |-> T]]
      BY <2>3, Zenon DEF EditStrategy
    <3>2. strat'[s].ver = strat[s].ver + 1 /\ \A u \in Strategies \ {s} : strat'[u] = strat[u]
      BY <1>1, <3>1
    <3>3. \A u \in Strategies : cstrat[u].ver \in Nat /\ strat[u].ver \in Nat
      BY <1>1 DEF Strategy
    <3>4. UNCHANGED cstrat
      BY <1>7, EnvironmentFrame, Zenon
    <3>5. ASSUME NEW u \in Strategies PROVE cstrat'[u].ver <= strat'[u].ver
      <4>1. cstrat'[u].ver <= strat[u].ver /\ cstrat[u].ver \in Nat /\ strat[u].ver \in Nat
        BY ZenonT(30), <1>0, <3>3, <3>4
      <4>2. CASE u = s
        BY <3>2, <3>4, <4>1, <4>2
      <4>3. CASE u # s
        BY <3>2, <4>1, <4>3, Zenon
      <4> QED
        BY <4>2, <4>3
    <3> QED
      BY <2>1, <3>5
  <2> QED
    BY <1>7, <2>1, <2>2, <2>3, EnvironmentFrame, Zenon
<1>8. CASE Restart
  BY <1>1, <1>8 DEF Restart, Reflects, server, Strategy
<1>9. CASE UNCHANGED vars
  BY <1>0, <1>9 DEF vars, server, caches, Reflects
<1> QED
  BY <1>2, <1>3, <1>4, <1>5, <1>6, <1>7, <1>8, <1>9, ReconcileParts, Zenon DEF Next

LEMMA ClearedStep ==
  ASSUME Cleared, [Next]_vars
  PROVE  Cleared'
<1>1. CASE Starts
  BY <1>1, StartsFrame DEF Cleared, Begin, local
<1>2. CASE (\E q : Return(q)) \/ Onward
  BY <1>2 DEF Cleared, Return, Onward
<1>3. CASE Informers \/ Kubernetes \/ Users
  BY <1>3, InformersFrame, EnvironmentFrame, Zenon DEF Cleared, local
<1>4. CASE Restart
  BY <1>4, Zenon DEF Restart, Cleared
<1>5. CASE UNCHANGED vars
  BY <1>5 DEF vars, Cleared, local
<1> QED
  BY <1>1, <1>2, <1>3, <1>4, <1>5, ReconcileParts, WritersFrame, AccessFrame, ChildrenStep, Zenon DEF Next

LEMMA NoChange ==
  ASSUME NEW c \in Watched, NEW new, NEW old, Changed(c, new, old), fresh' = Watched
  PROVE  new = old /\ fresh = Watched
BY Zenon DEF Changed

Asked == ws.exists /\ ~ws.deleting /\ ws.label = ws.ref

\* Calm after a step that starts no reconcile, it was calm before and nothing the
\* workspace depends on has moved.
LEMMA Noticed ==
  ASSUME LifeInv, Mirrors, [Next]_vars, ~Starts, Calm'
  PROVE  /\ Calm /\ UNCHANGED <<ws, dep, svc, pvc, cws, cdep, csvc, cpvc, fresh>>
         /\ Asked => Version' = Version /\ Templated' = Templated
<1>0. "ws" \in Watched /\ "dep" \in Watched /\ "svc" \in Watched /\ "pvc" \in Watched
  BY DEF Watched
<1>1. ~queued' /\ fresh' = Watched /\ ~Lags'
  BY Zenon DEF Calm
<1>2. ~queued /\ fresh = Watched /\ UNCHANGED <<ws, dep, svc, pvc, cws, cdep, csvc, cpvc>>
  <2>0. (\E q : Return(q)) \/ Onward => ~queued
    BY <1>1, Zenon DEF Return, Onward
  <2>1. CASE Writers
    BY <1>0, <1>1, <2>0, <2>1, WritersFrame, NoChange
  <2>2. CASE Children
    BY <1>0, <1>1, <2>0, <2>2, ChildrenStep, NoChange, Zenon
  <2>3. CASE Access
    BY <1>1, <2>0, <2>3, AccessFrame, Zenon DEF caches
  <2>4. CASE Informers
    <3>1. PICK s \in Strategies : AccessStrategyEventHandler(s)
      BY <1>1, <2>4, InformersFrame, Zenon
    <3>2. ~queued
      BY <1>1, <3>1, ZenonT(30) DEF AccessStrategyEventHandler
    <3> QED
      BY <1>1, <3>1, <3>2 DEF AccessStrategyEventHandler, server
  <2>5. CASE Kubernetes \/ Users
    BY <1>0, <1>1, <2>5, EnvironmentFrame, NoChange, Zenon
  <2>6. CASE Restart
    BY <1>1, <2>6, Zenon DEF Restart
  <2>7. CASE UNCHANGED vars
    BY <1>1, <2>7 DEF vars, server, caches
  <2> QED
    BY <2>1, <2>2, <2>3, <2>4, <2>5, <2>6, <2>7, ReconcileParts DEF Next
<1>3. ASSUME Asked, ws.ref # None
      PROVE  UNCHANGED <<strat[ws.ref], cstrat[ws.ref]>>
  <2>0. /\ ws.ref \in Strategies /\ strat \in [Strategies -> Strategy] /\ cstrat \in [Strategies -> Strategy]
        /\ cws = ws
    BY <1>0, <1>2, <1>3, Copies, Zenon DEF LifeInv, TypeOK, ServerTypes, CacheTypes, Refs, Agree
  <2>1. CASE UNCHANGED <<strat, cstrat>>
    BY <1>2, <2>1, Zenon
  <2>2. ASSUME NEW s \in Strategies, AccessStrategyEventHandler(s) PROVE UNCHANGED <<strat[ws.ref], cstrat[ws.ref]>>
    <3>1. cstrat' = [cstrat EXCEPT ![s] = strat[s]] /\ UNCHANGED strat
      BY <2>2 DEF AccessStrategyEventHandler, server
    <3>2. ~(cws.exists /\ ~cws.deleting /\ cws.label = s /\ cws.ref = s)
      BY <1>1, <2>2, ZenonT(30) DEF AccessStrategyEventHandler
    <3>3. ws.ref # s
      BY ZenonT(30), <1>3, <2>0, <3>2 DEF Asked
    <3> QED
      BY <1>2, <2>0, <3>1, <3>3, Zenon
  <2>3. ASSUME NEW s \in Strategies, EditStrategy(s), UNCHANGED cstrat PROVE UNCHANGED <<strat[ws.ref], cstrat[ws.ref]>>
    <3>1. PICK T : strat' = [strat EXCEPT ![s] = [ver |-> strat[s].ver + 1, tpl |-> T]]
      BY <2>3, Zenon DEF EditStrategy
    <3>2. strat'[s].ver = strat[s].ver + 1
      BY <2>0, <3>1, Zenon
    <3>3. cstrat[s].ver \in Nat /\ strat[s].ver \in Nat /\ cstrat[s].ver <= strat[s].ver
      BY <2>0, Zenon DEF Strategy, Mirrors
    <3>4. cstrat'[s] # strat'[s]
      BY <2>3, <3>2, <3>3
    <3>5. ws.ref # s
      BY ZenonT(30), <1>1, <1>2, <1>3, <3>4 DEF Lags, Asked
    <3> QED
      BY <1>2, <2>0, <2>3, <3>1, <3>5
  <2>4. CASE Reconcile
    BY <2>1, <2>4, ReconcileParts, WritersFrame, ChildrenStep, AccessFrame, Zenon DEF caches
  <2>5. CASE Informers
    BY <1>1, <2>2, <2>5, InformersFrame, Zenon
  <2>6. CASE Kubernetes \/ Users
    BY <1>1, <2>1, <2>3, <2>6, EnvironmentFrame, Zenon
  <2>7. CASE Restart
    BY <1>1, <2>7, Zenon DEF Restart
  <2>8. CASE UNCHANGED vars
    BY <2>1, <2>8, Zenon DEF vars, server, caches
  <2> QED
    BY <2>4, <2>5, <2>6, <2>7, <2>8, Zenon DEF Next
<1>4. Asked => Version' = Version /\ Templated' = Templated
  BY <1>2, <1>3, Zenon DEF Version, Templated
<1>5. ~Lags
  BY <1>1, <1>2, <1>3, Zenon DEF Lags, Asked
<1> QED
  BY <1>1, <1>2, <1>4, <1>5 DEF Calm

\* Only a stray deletion of an access resource goes unnoticed.
LEMMA RoutesKept ==
  ASSUME LifeInv, ~queued', ReconcileNothing \/ Informers \/ Kubernetes \/ Users \/ UNCHANGED vars
  PROVE  \A t \in Routes : routes'[t] = routes[t] \/ ("route" \in Strays /\ ~routes'[t].here)
<1>0. routes \in [Routes -> Route] /\ ~NoRoute.here
  BY Zenon DEF LifeInv, TypeOK, ServerTypes, NoRoute
<1> USE DEF server
<1>1. CASE ReconcileNothing \/ UNCHANGED vars
  BY <1>1, Zenon DEF ReconcileNothing, vars
<1>2. CASE Informers
  BY <1>2, InformersFrame
<1>3. CASE DeploymentReady \/ DeploymentGone \/ ServiceGone \/ PVCGone
  BY <1>3 DEF DeploymentReady, DeploymentGone, ServiceGone, PVCGone
<1>4. CASE \E t \in Routes : RouteCollected(t)
  BY <1>4, Zenon DEF RouteCollected
<1>5. CASE EditSpec \/ DeleteWorkspace
  <2>1. PICK new : EditWorkspace(new)
    BY <1>5, Zenon DEF EditSpec, DeleteWorkspace
  <2> QED
    BY <2>1 DEF EditWorkspace
<1>6. CASE \E s \in Strategies : EditStrategy(s)
  BY <1>6 DEF EditStrategy
<1>7. CASE Stray
  <2>1. \/ UNCHANGED routes
        \/ "route" \in Strays /\ \E t \in Routes : routes' = [routes EXCEPT ![t] = NoRoute]
    BY <1>7 DEF Stray
  <2> QED
    BY <1>0, <2>1
<1> QED
  BY <1>1, <1>2, <1>3, <1>4, <1>5, <1>6, <1>7, ZenonT(30) DEF Kubernetes, Users

LEMMA FreshFields ==
  ASSUME LifeInv, rFresh PROVE rws.label = ws.label /\ rws.dg = ws.dg
BY DEF LifeInv, Agree, TypeOK, ServerTypes, Workspace

LEMMA EstablishedAsked ==
  ASSUME LifeInv, Established, mode # "delete", pc \notin {"idle", "meta"}
  PROVE  Asked
<1>1. mode \in Modes /\ rws.label = rws.ref
  BY Zenon DEF LifeInv, TypeOK, WorkerTypes, Established
<1>2. rws.exists /\ ~rws.deleting
  BY <1>1 DEF LifeInv, Pursues, Modes
<1> QED
  BY <1>1, <1>2, FreshCopy, FreshFields, Zenon DEF Established, Asked

LEMMA WantedRoutes == ASSUME TypeOK PROVE want.tpl \subseteq Routes /\ Templated \subseteq Routes
<1>1. ws.ref \in Refs /\ strat \in [Strategies -> Strategy] /\ want \in Want
  BY ZenonT(30), Copies DEF TypeOK, ServerTypes, WorkerTypes
<1> QED
  BY <1>1 DEF Want, Templated, Strategy, Refs

\* Steps that leave the worker alone.
LEMMA QuietSettles ==
  ASSUME LifeInv, Settles, UNCHANGED <<ws, dep, svc, pvc, pc, local>>,
         Asked => Version' = Version /\ Templated' = Templated,
         \A t \in Routes : routes'[t] = routes[t] \/ ("route" \in Strays /\ ~routes'[t].here)
  PROVE  Settles'
<1>0. UNCHANGED <<mode, rws, rFresh, want, todo, rDep, rSvc, rErr>>
  BY Zenon DEF local
<1>1. ASSUME Asked, NEW t \in Routes, Up(t) PROVE Up(t)'
  BY <1>1, Zenon DEF Up
<1>2. want.tpl \subseteq Routes /\ Templated \subseteq Routes
  BY WantedRoutes, Zenon DEF LifeInv
<1>3. ASSUME pc # "idle" PROVE Established'
  <2>1. Established
    BY <1>3, Zenon DEF Settles
  <2>2. CASE mode = "run" /\ pc # "meta"
    <3>1. Asked
      BY <1>3, <2>1, <2>2, EstablishedAsked
    <3>2. RunEstablished'
      <4>1. Resolved => Resolved'
        BY <1>0, <3>1, ZenonT(30) DEF Resolved
      <4>2. (HasStorage => HasStorage') /\ (HasDeployment => HasDeployment')
        BY <3>1 DEF HasStorage, HasDeployment
      <4>3. \A t \in want.tpl : Up(t) => Up(t)'
        BY ZenonT(30), <1>1, <1>2, <3>1
      <4> QED
        BY <1>0, <2>1, <2>2, <4>1, <4>2, <4>3, Zenon DEF Established, RunEstablished
    <3> QED
      BY <1>0, <2>1, <2>2, <3>2, Zenon DEF Established
  <2>3. CASE mode # "run"
    BY <1>0, <2>1, <2>3 DEF Established, StopEstablished
  <2>4. CASE pc = "meta"
    BY <1>0, <2>1, <2>4, Zenon DEF Established, RunEstablished, StopEstablished, RunSteps
  <2> QED
    BY <2>2, <2>3, <2>4, Zenon
<1>4. ASSUME pc = "idle", ws.exists PROVE Rest'
  <2>1. Rest /\ Asked
    BY <1>4, ZenonT(30) DEF Settles, Rest, Asked
  <2>2. CASE ws.desired = "Stopped"
    BY ZenonT(30), <2>1, <2>2 DEF Rest, StoppedAsAsked
  <2>3. CASE ws.desired # "Stopped"
    <3>1. RunningAsAsked /\ \A t \in Templated : Up(t)
      BY <2>1, <2>3, Zenon DEF Rest, RunningAsAsked, Up
    <3>2. \A t \in Templated' : Up(t)'
      BY <1>1, <1>2, <2>1, <3>1
    <3>3. RunningAsAsked'
      BY <2>1, <3>1, <3>2, Zenon DEF RunningAsAsked, Up
    <3> QED
      BY <2>1, <2>3, <3>3 DEF Rest
  <2> QED
    BY <2>2, <2>3
<1> QED
  BY <1>3, <1>4, Zenon DEF Settles

\* The worker's steps: nothing it works from has moved, so each step adds to what
\* the earlier ones established.
Unmoved ==
  /\ Calm /\ ~queued' /\ UNCHANGED <<ws, dep, svc, pvc>> /\ Established
  /\ cws = ws /\ cdep = dep /\ csvc = svc /\ cpvc = pvc

LEMMA NoRequeue == ASSUME ~queued' PROVE ~Return(TRUE)
BY Zenon DEF Return

LEMMA FixedVersion ==
  ASSUME UNCHANGED <<ws, strat>> PROVE Version' = Version /\ Templated' = Templated
BY DEF Version, Templated

\* A step whose only news is where it goes on, or that is done establishing.
LEMMA LaterSettles ==
  ASSUME LifeInv, Unmoved, UNCHANGED <<mode, rws, rFresh>>, pc # "meta",
         mode = "run" => pc' \in {"starting", "error", "idleStop"} /\ Resolved',
         mode = "stop" => pc' \in {"stopping", "error", "unexpected"}
  PROVE  Established'
BY Zenon DEF Unmoved, Established, RunEstablished, StopEstablished

LEMMA EnsureStorageSettles ==
  ASSUME LifeInv, Unmoved, EnsurePVCExists
  PROVE  pc' # "idle" /\ Established'
<1>1. /\ pc = "pvc" /\ mode = "run" /\ UNCHANGED local /\ UNCHANGED strat
      /\ pc' = "error" \/ (pc' = "dep" /\ (UsesStorage => cpvc # "absent"))
  BY DEF EnsurePVCExists, Proceed, Goto, Created, Unmoved
<1>2. UNCHANGED <<mode, rws, rFresh, want, todo>>
  BY <1>1, Zenon DEF local
<1>3. Resolved'
  <2>1. Resolved
    BY <1>1 DEF Unmoved, Established, RunEstablished, RunSteps
  <2> QED
    BY <1>1, <1>2, <2>1, FixedVersion, Zenon DEF Unmoved, Resolved
<1>4. CASE pc' = "error"
  BY <1>1, <1>2, <1>3, <1>4, LaterSettles
<1>5. CASE pc' = "dep"
  <2>1. HasStorage'
    BY <1>1, <1>5, Zenon DEF Unmoved, Calm, HasStorage, LifeInv, TypeOK, ServerTypes, Child
  <2> QED
    BY <1>1, <1>2, <1>3, <1>5, <2>1, Zenon DEF Unmoved, Established, RunEstablished
<1> QED
  BY <1>1, <1>4, <1>5, Zenon

LEMMA EnsureDeploymentSettles ==
  ASSUME LifeInv, Unmoved, EnsureDeploymentExists
  PROVE  pc' # "idle" /\ Established'
<1>0. dep \in Deployment /\ "dep" \in fresh /\ rFresh /\ rws.av = ws.av /\ rws.rev = ws.rev
  BY FreshCopy, Zenon DEF LifeInv, TypeOK, ServerTypes, Unmoved, Calm, Watched, Established
<1>1. pc = "dep" /\ mode = "run" /\ UNCHANGED strat
  BY DEF EnsureDeploymentExists
<1>2. Built(NoDeployment).here
  BY DEF Built, NoDeployment
<1>3. \/ pc' = "error" /\ UNCHANGED <<mode, rws, rFresh, want>>
      \/ /\ pc' = "svc" /\ rDep' = dep.ready /\ dep.here /\ (rws.av => dep = Built(dep))
         /\ UNCHANGED <<mode, rws, rFresh, want, todo>>
  <2> HIDE DEF Built
  <2> QED
    BY <1>0, <1>2, Zenon DEF EnsureDeploymentExists, UseDeployment, Proceed, Goto, local, Unmoved
<1>4. Resolved /\ HasStorage
  BY <1>1, Zenon DEF Unmoved, Established, RunEstablished, RunSteps
<1>5. Resolved' /\ HasStorage'
  BY <1>1, <1>3, <1>4, FixedVersion, Zenon DEF Unmoved, Resolved, HasStorage
<1>6. CASE pc' = "error"
  BY <1>1, <1>3, <1>5, <1>6, LaterSettles
<1>7. CASE pc' = "svc"
  <2>1. dep = Built(dep) => dep.rev = ws.rev /\ dep.from = ws.ref /\ dep.ver = Version
    <3>1. Built(dep).rev = rws.rev /\ Built(dep).from = want.from /\ Built(dep).ver = want.ver
      BY <1>0, Zenon DEF Built, Deployment
    <3>2. want.from = ws.ref /\ want.ver = Version
      BY <1>4, Zenon DEF Resolved
    <3> QED
      BY <1>0, <3>1, <3>2
  <2>2. HasDeployment
    BY <1>0, <1>3, <1>7, <2>1, Zenon DEF HasDeployment
  <2>3. HasDeployment'
    BY <1>1, <2>2, FixedVersion, Zenon DEF HasDeployment, Unmoved
  <2> QED
    BY <1>1, <1>3, <1>5, <1>7, <2>3, Zenon DEF Unmoved, Established, RunEstablished
<1> QED
  BY <1>3, <1>6, <1>7

LEMMA EnsureServiceSettles ==
  ASSUME LifeInv, Unmoved, EnsureServiceExists
  PROVE  pc' # "idle" /\ Established'
<1>1. pc = "svc" /\ mode = "run" /\ UNCHANGED <<strat, routes>>
  BY Zenon DEF EnsureServiceExists
<1>2. \/ pc' = "error" /\ UNCHANGED <<mode, rws, rFresh, want>>
      \/ UseService /\ svc # "absent"
  BY DEF EnsureServiceExists, Created, Proceed, Goto, local, Unmoved
<1>3. Resolved /\ HasStorage /\ HasDeployment /\ rDep = dep.ready
  BY <1>1, Zenon DEF Unmoved, Established, RunEstablished, RunSteps
<1>4. UNCHANGED <<mode, rws, rFresh, want>>
  BY <1>2 DEF UseService
<1>5. Resolved' /\ HasStorage' /\ HasDeployment'
  BY <1>1, <1>3, <1>4, FixedVersion, Zenon DEF Unmoved, Resolved, HasStorage, HasDeployment
<1>6. CASE pc' = "error"
  BY <1>1, <1>4, <1>5, <1>6, LaterSettles, Zenon
<1>7. CASE UseService /\ svc # "absent"
  <2>0. svc = "live" /\ rDep \in BOOLEAN
    BY <1>7 DEF Unmoved, Calm, LifeInv, TypeOK, ServerTypes, WorkerTypes, Child
  <2>1. CASE ~rDep
    <3>1. pc' = "starting"
      BY <1>7, <2>1 DEF UseService
    <3> QED
      BY <1>1, <1>4, <1>5, <3>1, LaterSettles
  <2>2. CASE rDep /\ rws.ref # None
    <3>1. pc' = "ensure" /\ todo' = want.tpl /\ rDep' = rDep
      BY <1>7, <2>2 DEF UseService
    <3> QED
      BY <1>1, <1>3, <1>4, <1>5, <2>0, <2>2, <3>1, Zenon DEF Unmoved, Established, RunEstablished
  <2>3. CASE rDep /\ rws.ref = None
    <3>1. pc' = "prune" /\ rDep' = rDep
      BY <1>7, <2>3 DEF UseService
    <3>2. want.tpl = {}
      BY <1>3, <2>3, FreshCopy, Zenon DEF Resolved, Templated, Unmoved, Established
    <3> QED
      BY <1>1, <1>3, <1>4, <1>5, <2>0, <2>3, <3>1, <3>2, ZenonT(30) DEF Unmoved, Established, RunEstablished
  <2> QED
    BY <2>0, <2>1, <2>2, <2>3, Zenon
<1> QED
  BY <1>2, <1>6, <1>7, <1>5, Zenon DEF UseService

LEMMA DeleteChildrenSettles ==
  ASSUME LifeInv, Unmoved,
         EnsureDeploymentDeleted \/ EnsureServiceDeleted \/ EnsurePVCDeleted
  PROVE  pc' # "idle" /\ Established'
<1>0. mode \in Modes /\ mode # "run" /\ ~Return(TRUE) /\ dep \in Deployment /\ svc \in Child
  BY NoRequeue, ZenonT(30) DEF LifeInv, TypeOK, ServerTypes, WorkerTypes, Unmoved, EnsureDeploymentDeleted,
                   EnsureServiceDeleted, EnsurePVCDeleted
<1>1. CASE EnsureDeploymentDeleted
  <2>1. /\ pc = "dep" /\ UNCHANGED <<mode, rws, rFresh, rErr>>
        /\ \/ pc' = "svc" /\ (rDep' => ~dep.here)
           \/ pc' = "error" /\ mode = "stop"
    BY <1>0, <1>1, Zenon DEF EnsureDeploymentDeleted, FoundDeployment, DeleteFailed, Proceed, Goto, local, Unmoved, Calm
  <2> QED
    BY ZenonT(30), <1>0, <2>1 DEF Unmoved, Established, StopEstablished
<1>2. CASE EnsureServiceDeleted
  <2>1. /\ pc = "svc" /\ UNCHANGED <<mode, rws, rFresh>>
        /\ \/ pc' = "error" /\ mode = "stop"
           \/ mode = "delete" /\ pc' = "pvc"
           \/ mode = "stop" /\ pc' = StopVerdict(rDep, FALSE)
           \/ mode = "stop" /\ pc' = StopVerdict(rDep, TRUE) /\ csvc # "live"
    BY <1>0, <1>2, Zenon DEF EnsureServiceDeleted, FoundService, DeleteFailed, Proceed, Goto, local, Modes
  <2>2. rDep \in BOOLEAN /\ rErr \in BOOLEAN
    BY DEF LifeInv, TypeOK, WorkerTypes
  <2>3. StopVerdict(rDep, FALSE) \in {"stopping", "unexpected"}
    BY <2>2, Zenon DEF StopVerdict
  <2>4. \/ StopVerdict(rDep, TRUE) \in {"error", "stopping"}
        \/ StopVerdict(rDep, TRUE) = "stopped" /\ rDep /\ ~rErr
    BY <2>2, Zenon DEF StopVerdict
  <2>5. csvc # "live" => svc = "absent"
    BY <1>0 DEF Unmoved, Calm, Child
  <2> QED
    BY <1>0, <2>1, <2>2, <2>3, <2>4, <2>5, Zenon DEF Unmoved, Established, StopEstablished
<1>3. CASE EnsurePVCDeleted
  <2>1. mode = "delete"
    BY <1>0, <1>3 DEF EnsurePVCDeleted, Modes, LifeInv, Pursues, StopSteps
  <2>2. pc' = "check" /\ UNCHANGED local
    BY <1>0, <1>3, Zenon DEF EnsurePVCDeleted, Proceed, Goto
  <2> QED
    BY <2>1, <2>2, ZenonT(30) DEF Unmoved, Established, local
<1> QED
  BY <1>1, <1>2, <1>3

LEMMA AccessResourceSettles ==
  ASSUME LifeInv, Unmoved, NEW t \in Routes, EnsureAccessResource(t)
  PROVE  pc' # "idle" /\ Established'
<1>0. /\ pc = "ensure" /\ mode = "run" /\ rws \in Workspace /\ routes \in [Routes -> Route]
      /\ want.tpl \subseteq Routes /\ UNCHANGED strat
  BY Copies, WantedRoutes DEF EnsureAccessResource, LifeInv, TypeOK, ServerTypes, Pursues, Modes,
                              StopSteps, DeleteSteps
<1> DEFINE inPlace == t \in rws.acc /\ routes[t].here
<1>1. PICK o \in Replies :
        /\ routes' = IF o = "refused" \/ (inPlace /\ UpToDate(t)) THEN routes
                     ELSE [routes EXCEPT ![t] = Wanted(~inPlace)]
        /\ o = "ok" /\ todo' = todo \ {t} /\ rws' = [rws EXCEPT !.acc = rws.acc \cup {t}]
        /\ UNCHANGED <<pc, mode, rFresh, want, rDep>>
  BY NoRequeue, Zenon DEF EnsureAccessResource, Unmoved
<1>2. rws'.acc = rws.acc \cup {t} /\ rws'.label = rws.label /\ rws'.ref = rws.ref
  BY <1>0, <1>1 DEF Workspace
<1>3. Resolved /\ HasStorage /\ HasDeployment /\ rDep = dep.ready /\ svc = "live" /\ rDep
      /\ \A u \in want.tpl \ todo : Up(u) /\ u \in rws.acc
  BY <1>0, Zenon DEF Unmoved, Established, RunEstablished, RunSteps
<1>4. Version' = Version
  BY <1>0, FixedVersion, Zenon DEF Unmoved
<1>5. Resolved' /\ HasStorage' /\ HasDeployment'
  BY <1>0, <1>1, <1>3, FixedVersion DEF Unmoved, Resolved, HasStorage, HasDeployment
<1>6. routes'[t].here /\ routes'[t].from = ws.ref /\ routes'[t].ver = Version
  <2>1. want.from = ws.ref /\ want.ver = Version
    BY <1>3 DEF Resolved
  <2>2. Wanted(~inPlace).here /\ Wanted(~inPlace).from = want.from /\ Wanted(~inPlace).ver = want.ver
    BY Zenon DEF Wanted
  <2>3. CASE inPlace /\ UpToDate(t)
    BY <1>1, <2>1, <2>3 DEF UpToDate
  <2>4. CASE ~(inPlace /\ UpToDate(t))
    <3>1. routes' = [routes EXCEPT ![t] = Wanted(~inPlace)]
      BY <1>1, <2>4, Zenon
    <3>2. routes'[t] = Wanted(~inPlace)
      BY <1>0, <3>1
    <3> HIDE DEF inPlace
    <3> QED
      BY <2>1, <2>2, <3>2, Zenon
  <2> QED
    BY <2>3, <2>4, ZenonT(30)
<1>7. \A u \in Routes \ {t} : routes'[u] = routes[u]
  BY <1>0, <1>1, Zenon
<1>8. \A u \in want.tpl \ todo' : Up(u)' /\ u \in rws'.acc
  <2> TAKE u \in want.tpl \ todo'
  <2>1. CASE u = t
    BY <1>2, <1>4, <1>6, <2>1, Zenon DEF Up, Unmoved
  <2>2. CASE u # t
    BY <1>0, <1>1, <1>2, <1>3, <1>4, <1>7, <2>2 DEF Up, Unmoved
  <2> QED
    BY <2>1, <2>2, Zenon
<1>9. RunEstablished'
  BY <1>0, <1>1, <1>3, <1>5, <1>8, Zenon DEF RunEstablished, Unmoved
<1> QED
  BY <1>0, <1>1, <1>2, <1>9, Zenon DEF Unmoved, Established

LEMMA PruneSettles ==
  ASSUME LifeInv, Unmoved, NEW t \in Routes, EnsureAccessResourceDeleted(t)
  PROVE  pc' # "idle" /\ Established'
<1>0. /\ pc = "prune" /\ t \in todo /\ mode \in Modes /\ routes \in [Routes -> Route]
      /\ want.tpl \subseteq Routes /\ UNCHANGED strat
  BY WantedRoutes, Zenon DEF EnsureAccessResourceDeleted, LifeInv, TypeOK, ServerTypes, WorkerTypes
<1>1. /\ UNCHANGED <<mode, rws, rFresh, want, rDep>>
      /\ routes' = routes \/ routes' = [routes EXCEPT ![t] = NoRoute]
      /\ \/ pc' = "prune" /\ todo' = todo \ {t} /\ UNCHANGED rErr
         \/ pc' = "dep" /\ mode # "run" /\ rErr' = TRUE
  BY NoRequeue, Zenon DEF EnsureAccessResourceDeleted, Unmoved
<1>2. CASE mode = "run"
  <2>1. /\ Resolved /\ HasStorage /\ HasDeployment /\ rDep = dep.ready /\ svc = "live" /\ rDep
        /\ \A u \in want.tpl : Up(u) /\ u \in rws.acc /\ u \notin todo
    BY <1>0, <1>2, Zenon DEF Unmoved, Established, RunEstablished, RunSteps
  <2>2. Resolved' /\ HasStorage' /\ HasDeployment' /\ Version' = Version
    BY <1>0, <1>1, <2>1, FixedVersion, Zenon DEF Unmoved, Resolved, HasStorage, HasDeployment
  <2>3. \A u \in want.tpl : routes'[u] = routes[u]
    BY <1>0, <1>1, <2>1, ZenonT(30)
  <2>4. \A u \in want.tpl : Up(u)'
    BY <2>1, <2>2, <2>3 DEF Up, Unmoved
  <2>5. RunEstablished'
    BY <1>0, <1>1, <1>2, <2>1, <2>2, <2>4, Zenon DEF RunEstablished, Unmoved
  <2> QED
    BY <1>0, <1>1, <1>2, <2>5, Zenon DEF Unmoved, Established
<1>3. CASE mode # "run"
  <2>1. /\ rFresh /\ (mode # "delete" => rws.label = rws.ref) /\ (mode = "stop" => ~rErr)
    BY ZenonT(30), <1>0, <1>3 DEF Unmoved, Established, StopEstablished
  <2>2. rFresh' /\ (mode' # "delete" => rws'.label = rws'.ref) /\ mode' # "run"
    BY <1>1, <1>3, <2>1, ZenonT(30)
  <2>3. CASE pc' = "prune" /\ rErr' = rErr
    BY <1>1, <2>1, <2>2, <2>3, ZenonT(30) DEF Established, StopEstablished
  <2>4. CASE pc' = "dep" /\ rErr'
    BY <2>2, <2>4 DEF Established, StopEstablished
  <2> QED
    BY <1>1, <2>3, <2>4, ZenonT(30)
<1> QED
  BY <1>2, <1>3

LEMMA TrackingSettles ==
  ASSUME LifeInv, Unmoved, EnsureAccessResourcesExist \/ EnsureAccessResourcesDeleted
  PROVE  pc' # "idle" /\ Established'
<1>0. rws \in Workspace /\ mode \in Modes /\ UNCHANGED <<mode, rFresh, want, rDep, strat, routes>>
  BY Copies, Zenon DEF LifeInv, EnsureAccessResourcesExist, EnsureAccessResourcesDeleted, server
<1>1. Version' = Version /\ \A t : Up(t)' <=> Up(t)
  BY <1>0, FixedVersion, Zenon DEF Unmoved, Up
<1>2. CASE EnsureAccessResourcesExist
  <2>1. /\ pc = "ensure" /\ todo = {} /\ pc' = "prune" /\ todo' = rws.acc \ Kept /\ UNCHANGED rws
        /\ mode = "run" /\ Kept = want.tpl
    BY <1>0, <1>2, Zenon DEF EnsureAccessResourcesExist, LifeInv, Pursues, Modes, StopSteps, DeleteSteps, Kept
  <2>2. /\ Resolved /\ HasStorage /\ HasDeployment /\ rDep = dep.ready /\ svc = "live" /\ rDep
        /\ \A u \in want.tpl : Up(u) /\ u \in rws.acc
    BY <2>1, Zenon DEF Unmoved, Established, RunEstablished, RunSteps
  <2>3. Resolved' /\ HasStorage' /\ HasDeployment'
    BY <1>0, <2>2, FixedVersion, Zenon DEF Unmoved, Resolved, HasStorage, HasDeployment
  <2>4. RunEstablished'
    BY <1>0, <1>1, <2>1, <2>2, <2>3, Zenon DEF RunEstablished, Unmoved
  <2> QED
    BY <1>0, <2>1, <2>4 DEF Unmoved, Established
<1>3. CASE EnsureAccessResourcesDeleted
  <2>1. /\ pc = "prune" /\ pc' = IF mode = "run" THEN "running" ELSE "dep"
        /\ rws' = [rws EXCEPT !.acc = rws.acc \cap Kept]
    BY <1>3 DEF EnsureAccessResourcesDeleted, Goto
  <2>2. rws'.acc = rws.acc \cap Kept /\ rws'.label = rws.label /\ rws'.ref = rws.ref
    BY <1>0, <2>1 DEF Workspace
  <2>3. CASE mode = "run"
    <3>1. /\ Resolved /\ HasStorage /\ HasDeployment /\ rDep = dep.ready /\ svc = "live" /\ rDep
          /\ \A u \in want.tpl : Up(u) /\ u \in rws.acc
      BY <2>1, <2>3, Zenon DEF Unmoved, Established, RunEstablished, RunSteps
    <3>2. Resolved' /\ HasStorage' /\ HasDeployment'
      BY <1>0, <3>1, FixedVersion, Zenon DEF Unmoved, Resolved, HasStorage, HasDeployment
    <3>3. rws'.acc = want'.tpl
      BY <1>0, <2>2, <2>3, <3>1 DEF Kept
    <3>4. RunEstablished'
      BY <1>0, <1>1, <2>1, <2>3, <3>1, <3>2, <3>3, Zenon DEF RunEstablished, Unmoved
    <3> QED
      BY <1>0, <2>1, <2>2, <2>3, <3>4 DEF Unmoved, Established
  <2>4. CASE mode # "run"
    BY <1>0, <2>1, <2>2, <2>4 DEF Unmoved, Established, StopEstablished, Kept
  <2> QED
    BY <2>3, <2>4
<1> QED
  BY <1>2, <1>3

LEMMA StrategySettles ==
  ASSUME LifeInv, Unmoved, GetAccessStrategy
  PROVE  pc' # "idle" /\ Established'
<1>1. /\ pc = "strategy" /\ UNCHANGED <<mode, rws, rFresh, strat>> /\ pc' = "pvc" /\ ~Return(TRUE)
      /\ want' = [from |-> rws.ref, ver |-> cstrat[rws.ref].ver, tpl |-> cstrat[rws.ref].tpl]
  BY NoRequeue, Zenon DEF GetAccessStrategy, Goto, Unmoved, server
<1>2. rws.ref # None /\ mode = "run" /\ rws.ref = ws.ref
  BY <1>1, FreshCopy, ZenonT(30) DEF LifeInv, TypeOK, WorkerTypes, Modes, Pursues, StopSteps, DeleteSteps,
                         Unmoved, Established
<1>3. Asked
  BY ZenonT(30), <1>1, <1>2, EstablishedAsked DEF Unmoved
<1>4. cstrat[ws.ref] = strat[ws.ref]
  BY <1>2, <1>3, Zenon DEF Unmoved, Calm, Lags, Asked
<1>5. Resolved'
  <2>1. Version = strat[ws.ref].ver /\ Templated = strat[ws.ref].tpl
    BY <1>2, Zenon DEF Version, Templated
  <2> QED
    BY <1>1, <1>2, <1>4, <2>1, FixedVersion, Zenon DEF Unmoved, Resolved
<1> QED
  BY <1>1, <1>2, <1>5, Zenon DEF Unmoved, Established, RunEstablished

\* What a running reconcile has established is what the spec asks for.
LEMMA RunningRest ==
  ASSUME LifeInv, Unmoved, UNCHANGED <<routes, strat>>, pc \in {"running", "idleCheck"},
         ws.av, ~ws.dg, ws.acc = want.tpl
  PROVE  Rest'
<1>1. mode = "run"
  BY DEF LifeInv, TypeOK, WorkerTypes, Modes, Pursues, StopSteps, DeleteSteps
<1>2. /\ Resolved /\ HasStorage /\ HasDeployment /\ rDep = dep.ready /\ svc = "live" /\ rDep
      /\ \A u \in want.tpl : Up(u)
  BY ZenonT(30), <1>1 DEF Unmoved, Established, RunEstablished, RunSteps
<1>3. want.tpl = Templated
  BY <1>2 DEF Resolved
<1>4. Asked /\ ws.desired = "Running"
  BY <1>1, EstablishedAsked, FreshCopy, Zenon DEF Unmoved, Established, LifeInv, Pursues, RunSteps
<1>5. RunningAsAsked
  BY <1>2, <1>3, ZenonT(30) DEF RunningAsAsked, HasStorage, HasDeployment, Up
<1>6. RunningAsAsked'
  BY ZenonT(30), <1>5, FixedVersion DEF RunningAsAsked, Unmoved
<1> QED
  BY <1>4, <1>6, Zenon DEF Rest, Asked, Unmoved

LEMMA CheckSettles ==
  ASSUME LifeInv, Unmoved, CheckWorkspaceIdle \/ AreAllResourcesDeleted
  PROVE  Settles'
<1>0. ~Return(TRUE) /\ mode \in Modes
  BY NoRequeue, Zenon DEF LifeInv, TypeOK, WorkerTypes, Unmoved
<1>1. CASE CheckWorkspaceIdle
  <2>1. /\ pc = "idleCheck" /\ UNCHANGED <<routes, strat>>
        /\ (pc' = "idleStop" /\ UNCHANGED local) \/ pc' = "idle"
    BY <1>1, Zenon DEF CheckWorkspaceIdle, Proceed, Goto, Return, server
  <2>2. mode = "run"
    BY <1>0, <2>1, Zenon DEF LifeInv, Modes, Pursues, StopSteps, DeleteSteps
  <2>3. ws.av /\ ~ws.dg /\ ws.acc = want.tpl /\ Resolved
    BY <2>1, <2>2, Zenon DEF Unmoved, Established, RunEstablished, RunSteps
  <2>4. CASE pc' = "idle"
    BY <2>1, <2>3, <2>4, RunningRest, Zenon DEF Settles
  <2>5. CASE pc' = "idleStop" /\ UNCHANGED local
    <3>1. UNCHANGED <<mode, rws, rFresh, want>>
      BY <2>5, Zenon DEF local
    <3>2. Resolved'
      BY <2>1, <2>3, <3>1, FixedVersion, Zenon DEF Resolved, Unmoved
    <3> QED
      BY <2>1, <2>2, <2>5, <3>1, <3>2, LaterSettles, Zenon DEF Settles
  <2> QED
    BY <2>1, <2>4, <2>5, Zenon
<1>2. CASE AreAllResourcesDeleted
  <2>1. pc = "check" /\ pc' = "finalizer" /\ UNCHANGED local
    BY <1>0, <1>2, Zenon DEF AreAllResourcesDeleted, Proceed, Goto
  <2>2. mode = "delete"
    BY <1>0, <2>1 DEF LifeInv, Modes, Pursues, RunSteps, StopSteps
  <2> QED
    BY <2>1, <2>2 DEF Settles, Established, Unmoved, local
<1> QED
  BY <1>1, <1>2

\* A status write that changes nothing and is not requeued closes the reconcile.
LEMMA WritersSettle ==
  ASSUME LifeInv, Unmoved, Writers
  PROVE  Settles'
<1>0. ~Return(TRUE) /\ mode \in Modes /\ rws \in Workspace /\ ws \in Workspace
      /\ UNCHANGED <<routes, strat>>
  BY NoRequeue, Copies, WritersFrame, Zenon DEF LifeInv, Unmoved
<1>1. CASE UpdateMeta \/ UpdateStartingStatus \/ UpdateStoppingStatus \/ UpdateErrorStatus
           \/ StopWorkspaceDueToIdle
  BY <1>0, <1>1, ZenonT(30) DEF UpdateMeta, UpdateStartingStatus, UpdateStoppingStatus, UpdateErrorStatus,
                    StopWorkspaceDueToIdle
<1>2. CASE UpdateStoppedStatus
  <2>1. PICK o : Write(StoppedStatus(rws), o) /\ Return(~Wrote(o)) /\ pc = "stopped"
    BY <1>2, Zenon DEF UpdateStoppedStatus
  <2>2. Wrote(o)
    BY <2>1, Zenon DEF Return, Unmoved
  <2>3. ws = StoppedStatus(rws) /\ pc' = "idle"
    BY <2>1, <2>2 DEF Write, Wrote, Return, Unmoved
  <2>4. ws.sp /\ ~ws.dg /\ ws.acc = rws.acc
    BY <1>0, <2>3, Zenon DEF StoppedStatus, Conditions, Workspace
  <2>5. mode = "stop"
    BY <1>0, <2>1 DEF LifeInv, Modes, Pursues, RunSteps, DeleteSteps
  <2>6. Asked /\ ws.desired = "Stopped"
    BY <2>1, <2>5, EstablishedAsked, FreshCopy, Zenon DEF Unmoved, Established, LifeInv, Pursues
  <2>7. ~dep.here /\ svc = "absent" /\ rws.acc = {}
    BY <2>1, <2>5, Zenon DEF Unmoved, Established, StopEstablished
  <2> QED
    BY ZenonT(30), <2>3, <2>4, <2>6, <2>7 DEF Settles, Rest, StoppedAsAsked, Asked, Unmoved
<1>3. CASE UpdateRunningStatus
  <2>1. PICK o : /\ Write(RunningStatus(rws), o) /\ pc = "running"
                 /\ IF Wrote(o) /\ IdleShutdown
                    THEN /\ rws' = RunningStatus(rws) /\ Goto("idleCheck")
                         /\ UNCHANGED <<mode, rFresh, want, todo, rDep, rSvc, rErr>>
                    ELSE Return(~Wrote(o))
    BY <1>3, Zenon DEF UpdateRunningStatus
  <2>2. Wrote(o)
    BY <2>1, Zenon DEF Return, Unmoved
  <2>3. ws = RunningStatus(rws)
    BY <2>1, <2>2, Zenon DEF Write, Wrote, Unmoved
  <2>4. mode = "run"
    BY <1>0, <2>1 DEF LifeInv, Modes, Pursues, StopSteps, DeleteSteps
  <2>5. /\ Resolved /\ HasStorage /\ HasDeployment /\ rDep = dep.ready /\ svc = "live" /\ rDep
        /\ rws.acc = want.tpl /\ \A u \in want.tpl : Up(u)
    BY <2>1, <2>4, Zenon DEF Unmoved, Established, RunEstablished, RunSteps
  <2>6. ws.av /\ ~ws.dg /\ ws.acc = want.tpl
    BY <1>0, <2>3, <2>5 DEF RunningStatus, Conditions, Workspace
  <2>7. CASE ~IdleShutdown
    <3>1. pc' = "idle"
      BY <2>1, <2>7, Zenon DEF Return
    <3> QED
      BY <1>0, <2>1, <2>6, <3>1, RunningRest, Zenon DEF Settles
  <2>8. CASE IdleShutdown
    <3>1. /\ pc' = "idleCheck" /\ UNCHANGED <<mode, rFresh, want, rDep>> /\ rws' = ws
      BY <2>1, <2>2, <2>3, <2>8 DEF Goto
    <3>2. Resolved' /\ HasStorage' /\ HasDeployment' /\ \A u \in want.tpl : Up(u)'
      BY <1>0, <2>5, <3>1, FixedVersion, Zenon DEF Unmoved, Resolved, HasStorage, HasDeployment, Up
    <3>3. RunEstablished'
      BY <2>4, <2>5, <2>6, <3>1, <3>2, ZenonT(30) DEF RunEstablished, Unmoved
    <3>4. Asked
      BY <2>1, <2>4, EstablishedAsked, Zenon DEF Unmoved
    <3> QED
      BY <2>4, <3>1, <3>3, <3>4, Zenon DEF Settles, Established, Unmoved, Asked
  <2> QED
    BY <2>7, <2>8
<1>4. CASE UpdateDeletingStatus
  <2>1. pc = "deleting" /\ pc' = "prune" /\ UNCHANGED <<mode, rFresh>>
    BY <1>0, <1>4, Zenon DEF UpdateDeletingStatus, Goto
  <2>2. mode = "delete"
    BY <1>0, <2>1, Zenon DEF LifeInv, Modes, Pursues, RunSteps, StopSteps
  <2> QED
    BY <2>1, <2>2 DEF Settles, Established, Unmoved
<1>5. CASE RemoveFinalizer
  <2>1. PICK o : Write(NoWorkspace, o) /\ Return(~Wrote(o))
    BY <1>5, Zenon DEF RemoveFinalizer
  <2>2. Wrote(o)
    BY <2>1, Zenon DEF Return, Unmoved
  <2>3. ws' = NoWorkspace /\ pc' = "idle"
    BY <2>1, <2>2 DEF Write, Wrote, Return
  <2> QED
    BY <2>3, NoWorkspaceBound DEF Settles
<1> QED
  BY <1>1, <1>2, <1>3, <1>4, <1>5 DEF Writers

\* A reconcile that starts calm works from the server's own objects.
LEMMA StartsSettle ==
  ASSUME LifeInv, Mirrors, Cleared, Starts, Calm'
  PROVE  Settles'
<1>0. /\ UNCHANGED <<server, caches, want, rErr>> /\ pc = "idle" /\ "ws" \in fresh /\ cws = ws
      /\ want = NoWant /\ ~rErr
  BY StartsFrame DEF Calm, caches, Watched, LifeInv, Agree, Cleared
<1>1. CASE ReconcileNothing
  <2>1. ~ws.exists /\ ws' = ws /\ pc' = pc
    BY <1>0, <1>1 DEF ReconcileNothing, Mirrors, server
  <2> QED
    BY <1>0, <2>1, ZenonT(30) DEF Settles
<1>2. CASE ReconcileDeletion
  BY <1>0, <1>2 DEF ReconcileDeletion, Begin, Settles, Established
<1>3. CASE ReconcileMeta
  BY <1>0, <1>3, ZenonT(30) DEF ReconcileMeta, Begin, Settles, Established, RunEstablished, RunSteps
<1>4. CASE ReconcileStopped
  <2>1. pc' = "prune" /\ mode' = "stop" /\ rws' = ws /\ rFresh' /\ ws.label = ws.ref /\ ~rErr'
    <3>1. ~NeedsMeta(cws) /\ Begin("prune", "stop", cws.acc)
      BY <1>4, Zenon DEF ReconcileStopped
    <3>2. pc' = "prune" /\ mode' = "stop" /\ rws' = cws /\ ("ws" \in fresh => rFresh')
      BY <3>1, Zenon DEF Begin
    <3>3. ws.label = ws.ref
      BY <1>0, <3>1, Zenon DEF NeedsMeta
    <3> QED
      BY <1>0, <3>2, <3>3, Zenon
  <2> QED
    BY <2>1 DEF Settles, Established, StopEstablished
<1>5. CASE ReconcileRunning
  <2>1. /\ mode' = "run" /\ rws' = ws /\ rFresh' /\ ws.label = ws.ref /\ UNCHANGED <<ws, strat, want>>
        /\ pc' = IF ws.ref = None THEN "pvc" ELSE "strategy"
    BY <1>0, <1>5, Zenon DEF ReconcileRunning, NeedsMeta, Begin, server
  <2>2. CASE ws.ref # None
    BY <2>1, <2>2, Zenon DEF Settles, Established, RunEstablished
  <2>3. CASE ws.ref = None
    <3>1. Version' = 0 /\ Templated' = {} /\ ws'.ref = None
      BY <2>1, <2>3, Zenon DEF Version, Templated
    <3>2. Resolved'
      BY <1>0, <2>1, <3>1, Zenon DEF Resolved, NoWant
    <3> QED
      BY <2>1, <2>3, <3>2, Zenon DEF Settles, Established, RunEstablished
  <2> QED
    BY <2>2, <2>3, Zenon
<1> QED
  BY <1>1, <1>2, <1>3, <1>4, <1>5 DEF Starts

LEMMA SettleStep ==
  ASSUME LifeInv, SettleInv, [Next]_vars
  PROVE  SettleInv'
<1>1. Mirrors' /\ Cleared'
  BY MirrorsStep, ClearedStep DEF SettleInv
<1>2. ASSUME Calm' PROVE Settles'
  <2>0. Mirrors /\ Cleared
    BY DEF SettleInv
  <2>1. CASE Starts
    BY <1>2, <2>0, <2>1, StartsSettle, Zenon
  <2>2. CASE ~Starts
    <3>1. /\ Calm /\ UNCHANGED <<ws, dep, svc, pvc>> /\ ~queued'
          /\ Asked => Version' = Version /\ Templated' = Templated
      BY <1>2, <2>0, <2>2, Noticed, Zenon DEF Calm
    <3>2. Settles
      BY <3>1 DEF SettleInv
    <3>3. cws = ws /\ cdep = dep /\ csvc = svc /\ cpvc = pvc
      BY <2>0, <3>1, Zenon DEF Calm, Watched, LifeInv, Agree, Mirrors, Reflects
    <3>4. pc # "idle" => Unmoved
      BY <3>1, <3>2, <3>3, Zenon DEF Settles, Unmoved
    <3>5. CASE Writers \/ Children \/ Access
      <4>1. pc # "idle"
        BY <3>5, Zenon DEF Writers, Children, Access, UpdateMeta, UpdateStartingStatus, UpdateStoppingStatus,
             UpdateErrorStatus, UpdateStoppedStatus, UpdateRunningStatus, StopWorkspaceDueToIdle,
             UpdateDeletingStatus, RemoveFinalizer, EnsurePVCExists, EnsureDeploymentExists,
             EnsureServiceExists, EnsureDeploymentDeleted, EnsureServiceDeleted, EnsurePVCDeleted,
             EnsureAccessResource, EnsureAccessResourceDeleted, EnsureAccessResourcesExist,
             EnsureAccessResourcesDeleted, GetAccessStrategy, CheckWorkspaceIdle, AreAllResourcesDeleted
      <4>2. pc' # "idle" /\ Established' => Settles'
        BY ZenonT(30) DEF Settles
      <4> QED
        BY Zenon, <3>4, <3>5, <4>1, <4>2, WritersSettle, EnsureStorageSettles, EnsureDeploymentSettles,
           EnsureServiceSettles, DeleteChildrenSettles, AccessResourceSettles, PruneSettles,
           TrackingSettles, StrategySettles, CheckSettles DEF Children, Access
    <3>6. CASE Informers \/ UNCHANGED vars
      <4>1. UNCHANGED <<pc, local>>
        BY <3>6, InformersFrame, Zenon DEF vars
      <4> QED
        BY <3>1, <3>2, <3>6, <4>1, QuietSettles, RoutesKept
    <3>7. CASE Kubernetes \/ Users
      <4>1. UNCHANGED <<pc, local>>
        <5>1. CASE EditSpec \/ DeleteWorkspace
          <6>1. PICK new : EditWorkspace(new)
            BY <5>1, Zenon DEF EditSpec, DeleteWorkspace
          <6> QED
            BY <3>1, <6>1 DEF EditWorkspace
        <5>2. CASE Kubernetes
          BY <5>2 DEF Kubernetes, DeploymentReady, DeploymentGone, ServiceGone, PVCGone, RouteCollected, Worker
        <5>3. CASE (\E s \in Strategies : EditStrategy(s)) \/ Stray
          BY <5>3, Zenon DEF EditStrategy, Stray, Worker
        <5> QED
          BY <3>7, <5>1, <5>2, <5>3, Zenon DEF Users
      <4> QED
        BY <3>1, <3>2, <3>7, <4>1, QuietSettles, RoutesKept, Zenon
    <3>8. CASE Restart
      BY <3>1, <3>8, Zenon DEF Restart
    <3> QED
      BY <2>2, <3>5, <3>6, <3>7, <3>8, ReconcileParts, Zenon DEF Next
  <2> QED
    BY <2>1, <2>2
<1> QED
  BY <1>1, <1>2 DEF SettleInv

LEMMA SettleInit == Init => SettleInv
<1> SUFFICES ASSUME Init PROVE SettleInv
  OBVIOUS
<1>1. ~Calm
  <2>1. fresh = {"dep", "svc", "pvc"}
    BY Zenon DEF Init
  <2> QED
    BY <2>1 DEF Calm, Watched
<1>2. Mirrors
  <2>1. PICK d \in FirstDesired, r \in FirstRefs : ws = NewWorkspace(d, r)
    BY DEF Init
  <2>2. ~ws.deleting
    BY <2>1, Zenon DEF NewWorkspace
  <2>3. \A s \in Strategies : cstrat[s].ver = 0 /\ strat[s].ver = 0
    BY DEF Init
  <2>4. Reflects
    BY Zenon DEF Init, Reflects
  <2> QED
    BY <2>2, <2>3, <2>4 DEF Mirrors
<1> QED
  BY <1>1, <1>2 DEF Init, Cleared, SettleInv

\* No event is lost: whenever nothing is queued, every cache has caught up and no
\* deletion is under way, the children, the access resources and the status are
\* what the latest spec and strategy ask for.  (Reconcile, the watches of
\* SetupWithManager and every requeue, under any faults, edits and restarts.)
THEOREM SettledCorrect == Spec => []Settled
<1>1. SettleInv => Settled
  <2> SUFFICES ASSUME SettleInv, Quiescent, ws.exists PROVE Rest
    BY Zenon DEF Settled, Rest
  <2>1. Calm
    BY DEF Quiescent, Calm, Lags
  <2> QED
    BY <2>1, Zenon DEF SettleInv, Settles, Quiescent
<1> QED
  BY <1>1, SettleInit, SettleStep, LifeCorrect, PTL DEF Spec
=============================================================================
