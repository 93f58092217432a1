--------------------- MODULE WorkspaceLifecycle_proofs ---------------------
(***************************************************************************)
(* Proofs about WorkspaceLifecycle, for every choice of its constants.     *)
(***************************************************************************)
EXTENDS WorkspaceLifecycle, TLAPS

\* The provers are tried in turn, with more time than by default: contexts are large.
USE SMTT(30), ZenonT(20), Z3T(30)

(***************************************************************************)
(* The objects and the operators that build them are well typed.           *)
(***************************************************************************)
LEMMA ObjectTypes ==
  /\ NoWorkspace \in Workspace /\ NoDeployment \in Deployment /\ NoRoute \in Route
  /\ NoWant \in Want
  /\ \A d \in Desired, r \in Refs : NewWorkspace(d, r) \in Workspace
BY ConstantsAssumption, Zenon
   DEF NoWorkspace, NewWorkspace, Workspace, NoDeployment, Deployment, NoRoute, Route,
       NoWant, Want, Refs, Desired

LEMMA StatusTypes ==
  ASSUME NEW w \in Workspace
  PROVE  /\ StartingStatus(w) \in Workspace /\ RunningStatus(w) \in Workspace
         /\ StoppingStatus(w) \in Workspace /\ StoppedStatus(w) \in Workspace
         /\ ErrorStatus(w) \in Workspace /\ [w EXCEPT !.del = TRUE] \in Workspace
BY Zenon DEF Workspace, StartingStatus, RunningStatus, StoppingStatus, StoppedStatus,
       ErrorStatus, Conditions

LEMMA EditTypes ==
  ASSUME NEW w \in Workspace
  PROVE  /\ [w EXCEPT !.fin = TRUE, !.label = w.ref] \in Workspace
         /\ [w EXCEPT !.deleting = TRUE] \in Workspace
         /\ \A d \in Desired : [w EXCEPT !.desired = d] \in Workspace
         /\ \A r \in Refs : [w EXCEPT !.ref = r] \in Workspace
         /\ \A v \in Revs : [w EXCEPT !.rev = v] \in Workspace
         /\ \A A \in SUBSET Routes : [w EXCEPT !.acc = A] \in Workspace
         /\ w.acc \in SUBSET Routes /\ w.ref \in Refs
BY Zenon DEF Workspace

LEMMA TypeInit == Init => TypeOK
<1> SUFFICES ASSUME Init PROVE TypeOK
  OBVIOUS
<1>1. ServerTypes
  BY ConstantsAssumption, ObjectTypes
     DEF Init, ServerTypes, Refs, Desired, Child, Strategy
<1>2. CacheTypes
  BY <1>1, ObjectTypes DEF Init, ServerTypes, CacheTypes, Watched
<1>3. WorkerTypes
  BY ObjectTypes, Zenon DEF Init, WorkerTypes, Steps, Modes
<1> QED
  BY <1>1, <1>2, <1>3 DEF Init, TypeOK, BudgetTypes

LEMMA TypeStep ==
  TypeOK /\ (pc = "strategy" => rws.ref # None) /\ [Next]_vars => TypeOK'
(***************************************************************************)
(* The building blocks of the actions preserve the types.                  *)
(***************************************************************************)
<1>SpendType.
      ASSUME BudgetTypes, NEW o, Spend(o) PROVE faults' \in Nat
  BY <1>SpendType DEF BudgetTypes, Spend
<1>ReturnType.
      ASSUME WorkerTypes, NEW q \in BOOLEAN, Return(q) PROVE WorkerTypes'
  BY <1>ReturnType, ObjectTypes, Zenon DEF WorkerTypes, Return, Steps, Modes
<1>ProceedType.
      ASSUME WorkerTypes, NEW p \in Steps, Proceed(p) PROVE WorkerTypes'
  BY <1>ProceedType DEF WorkerTypes, Proceed, Goto, local
<1>ChangedType.
      ASSUME CacheTypes, NEW c, NEW new, NEW old, Changed(c, new, old)
      PROVE  fresh' \in SUBSET Watched
  BY <1>ChangedType DEF CacheTypes, Changed
<1>WriteType.
      ASSUME TypeOK, NEW new \in Workspace, NEW o, Write(new, o)
      PROVE  ws' \in Workspace /\ fresh' \in SUBSET Watched
  BY <1>WriteType, <1>ChangedType DEF TypeOK, ServerTypes, Write
<1>StatusStepType.
      ASSUME TypeOK, NEW new \in Workspace, NEW o, Spend(o), Write(new, o),
             WorkerTypes', StatusFrame
      PROVE  TypeOK'
  BY <1>StatusStepType, <1>WriteType, <1>SpendType
     DEF TypeOK, ServerTypes, CacheTypes, BudgetTypes, StatusFrame
<1>StatusReturnType.
      ASSUME TypeOK, NEW new \in Workspace, NEW o, NEW q \in BOOLEAN,
             Spend(o), Write(new, o), Return(q), StatusFrame
      PROVE  TypeOK'
  BY <1>StatusReturnType, <1>StatusStepType, <1>ReturnType DEF TypeOK
<1>FrameTypes.
      /\ ServerTypes /\ UNCHANGED server => ServerTypes'
      /\ CacheTypes /\ UNCHANGED caches => CacheTypes'
      /\ WorkerTypes /\ Worker /\ queued' \in BOOLEAN => WorkerTypes'
      /\ BudgetTypes /\ UNCHANGED <<edits, crashes, faults>> => BudgetTypes'
  BY DEF ServerTypes, CacheTypes, WorkerTypes, BudgetTypes, server, caches, local, Worker
<1>BeginType.
      ASSUME TypeOK, NEW p \in Steps, NEW m \in Modes, NEW t \in SUBSET Routes, Begin(p, m, t)
      PROVE  TypeOK'
  <2> USE <1>BeginType
  <2>1. rFresh' \in BOOLEAN
    BY DEF Begin
  <2>2. WorkerTypes'
    BY <2>1, Zenon DEF TypeOK, WorkerTypes, CacheTypes, Begin
  <2>3. UNCHANGED server /\ UNCHANGED caches /\ UNCHANGED <<edits, crashes, faults>>
    BY DEF Begin
  <2> QED
    BY <2>2, <2>3, <1>FrameTypes DEF TypeOK
(***************************************************************************)
(* Each action preserves the types.                                        *)
(***************************************************************************)
<1>ReconcileStartTypes.
      ASSUME TypeOK,
             ReconcileNothing \/ ReconcileDeletion \/ ReconcileMeta \/ ReconcileStopped
               \/ ReconcileRunning
      PROVE  TypeOK'
  <2> USE <1>ReconcileStartTypes
  <2>1. CASE ReconcileNothing
    <3>1. Worker /\ queued' \in BOOLEAN /\ UNCHANGED server /\ UNCHANGED caches
          /\ UNCHANGED <<edits, crashes, faults>>
      BY <2>1, Zenon DEF ReconcileNothing, Worker
    <3> QED
      BY <3>1, <1>FrameTypes DEF TypeOK
  <2>2. CASE ReconcileDeletion
    BY <2>2, <1>BeginType DEF ReconcileDeletion, Steps, Modes
  <2>3. CASE ReconcileMeta
    BY <2>3, <1>BeginType DEF ReconcileMeta, Steps, Modes
  <2>4. CASE ReconcileStopped
    <3>1. cws.acc \in SUBSET Routes
      BY EditTypes, Zenon DEF TypeOK, CacheTypes
    <3> QED
      BY <2>4, <3>1, <1>BeginType DEF ReconcileStopped, Steps, Modes
  <2>5. CASE ReconcileRunning
    BY <2>5, <1>BeginType DEF ReconcileRunning, Steps, Modes
  <2> QED
    BY <2>1, <2>2, <2>3, <2>4, <2>5
<1>StatusTypesStep.
      ASSUME TypeOK,
             UpdateMeta \/ UpdateStartingStatus \/ UpdateStoppingStatus \/ UpdateErrorStatus
               \/ UpdateStoppedStatus \/ StopWorkspaceDueToIdle \/ RemoveFinalizer
      PROVE  TypeOK'
  <2> USE <1>StatusTypesStep
  <2> rws \in Workspace
    BY DEF TypeOK, WorkerTypes
  <2>1. CASE UpdateMeta
    <3> PICK o \in Replies : Spend(o) /\ Write([rws EXCEPT !.fin = TRUE, !.label = rws.ref], o)
      BY <2>1 DEF UpdateMeta
    <3> Return(TRUE) /\ StatusFrame
      BY <2>1, Zenon DEF UpdateMeta, StatusFrame
    <3> QED
      BY EditTypes, <1>StatusReturnType, Zenon
  <2>2. CASE UpdateStartingStatus
    BY <2>2, StatusTypes, <1>StatusReturnType, Zenon DEF UpdateStartingStatus
  <2>3. CASE UpdateStoppingStatus
    BY <2>3, StatusTypes, <1>StatusReturnType, Zenon DEF UpdateStoppingStatus
  <2>4. CASE UpdateErrorStatus
    BY <2>4, StatusTypes, <1>StatusReturnType, Zenon DEF UpdateErrorStatus
  <2>5. CASE UpdateStoppedStatus
    <3> PICK o \in Replies :
          Spend(o) /\ Write(StoppedStatus(rws), o) /\ Return(~Wrote(o))
      BY <2>5 DEF UpdateStoppedStatus
    <3>1. (~Wrote(o)) \in BOOLEAN
      BY Zenon
    <3> QED
      BY <2>5, <3>1, StatusTypes, <1>StatusReturnType, Zenon DEF UpdateStoppedStatus
  <2>6. CASE StopWorkspaceDueToIdle
    <3> PICK o \in Replies : Spend(o) /\ Write([rws EXCEPT !.desired = "Stopped"], o)
      BY <2>6 DEF StopWorkspaceDueToIdle
    <3>1. [rws EXCEPT !.desired = "Stopped"] \in Workspace
      BY EditTypes, Zenon DEF Desired
    <3> QED
      BY <2>6, <3>1, <1>StatusReturnType, Zenon DEF StopWorkspaceDueToIdle
  <2>7. CASE RemoveFinalizer
    <3> PICK o \in Replies : Spend(o) /\ Write(NoWorkspace, o) /\ Return(~Wrote(o))
      BY <2>7 DEF RemoveFinalizer
    <3>1. (~Wrote(o)) \in BOOLEAN
      BY Zenon
    <3> QED
      BY <2>7, <3>1, ObjectTypes, <1>StatusReturnType, Zenon DEF RemoveFinalizer
  <2> QED
    BY <2>1, <2>2, <2>3, <2>4, <2>5, <2>6, <2>7
<1>LongStatusTypes.
      ASSUME TypeOK, UpdateRunningStatus \/ UpdateDeletingStatus PROVE TypeOK'
  <2> USE <1>LongStatusTypes
  <2> rws \in Workspace
    BY DEF TypeOK, WorkerTypes
  <2>1. CASE UpdateRunningStatus
    <3> PICK o \in Replies :
          /\ Spend(o) /\ Write(RunningStatus(rws), o)
          /\ IF Wrote(o) /\ IdleShutdown
             THEN /\ rws' = RunningStatus(rws) /\ Goto("idleCheck")
                  /\ UNCHANGED <<mode, rFresh, want, todo, rDep, rSvc, rErr>>
             ELSE Return(~Wrote(o))
      BY <2>1 DEF UpdateRunningStatus
    <3>1. (~Wrote(o)) \in BOOLEAN
      BY Zenon
    <3>2. RunningStatus(rws) \in Workspace
      BY StatusTypes, Zenon
    <3>3. WorkerTypes'
      <4>1. CASE Wrote(o) /\ IdleShutdown
        BY <3>2, <4>1 DEF TypeOK, WorkerTypes, Goto, Steps
      <4>2. CASE ~(Wrote(o) /\ IdleShutdown)
        BY <3>1, <4>2, <1>ReturnType, Zenon DEF TypeOK
      <4> QED
        BY <4>1, <4>2
    <3> QED
      BY <2>1, <3>2, <3>3, <1>StatusStepType DEF UpdateRunningStatus
  <2>2. CASE UpdateDeletingStatus
    <3> DEFINE new == [rws EXCEPT !.del = TRUE]
    <3> PICK o \in Replies :
          /\ Spend(o) /\ Write(new, o)
          /\ IF Wrote(o)
             THEN /\ rws' = new /\ todo' = rws.acc /\ Goto("prune")
                  /\ UNCHANGED <<mode, rFresh, want, rDep, rSvc, rErr>>
             ELSE Return(TRUE)
      BY <2>2, Zenon DEF UpdateDeletingStatus
    <3>1. new \in Workspace /\ rws.acc \in SUBSET Routes
      BY StatusTypes, EditTypes, Zenon
    <3> HIDE DEF new
    <3>2. WorkerTypes'
      <4>1. CASE Wrote(o)
        BY <3>1, <4>1 DEF TypeOK, WorkerTypes, Goto, Steps
      <4>2. CASE ~Wrote(o)
        BY <4>2, <1>ReturnType, Zenon DEF TypeOK
      <4> QED
        BY <4>1, <4>2
    <3> QED
      BY <2>2, <3>1, <3>2, <1>StatusStepType DEF UpdateDeletingStatus
  <2> QED
    BY <2>1, <2>2
<1>ChildStepType.
      ASSUME TypeOK, WorkerTypes', faults' \in Nat,
             dep' \in Deployment, svc' \in Child, pvc' \in Child,
             routes' \in [Routes -> Route], fresh' \in SUBSET Watched,
             UNCHANGED <<ws, strat, cws, cdep, csvc, cpvc, cstrat, edits, crashes>>
      PROVE  TypeOK'
  BY <1>ChildStepType DEF TypeOK, ServerTypes, CacheTypes, BudgetTypes
<1>CreatedType.
      ASSUME NEW c \in Child, NEW o PROVE Created(c, o) \in Child
  BY <1>CreatedType DEF Child, Created
<1>BuiltType.
      ASSUME WorkerTypes, NEW d \in Deployment PROVE Built(d) \in Deployment
  BY <1>BuiltType, Zenon DEF WorkerTypes, Workspace, Want, Deployment, Built
<1>UseDeploymentType.
      ASSUME WorkerTypes, NEW r \in BOOLEAN, UseDeployment(r) PROVE WorkerTypes'
  BY <1>UseDeploymentType DEF WorkerTypes, UseDeployment, Goto, Steps
<1>UseServiceType.
      ASSUME WorkerTypes, UseService PROVE WorkerTypes'
  <2> USE <1>UseServiceType
  <2>1. want.tpl \in SUBSET Routes /\ rws.acc \in SUBSET Routes
    BY EditTypes, Zenon DEF WorkerTypes, Want
  <2> QED
    BY <2>1 DEF WorkerTypes, UseService, Steps
<1>EnsureChildrenTypes.
      ASSUME TypeOK, EnsurePVCExists \/ EnsureDeploymentExists \/ EnsureServiceExists
      PROVE  TypeOK'
  <2> USE <1>EnsureChildrenTypes
  <2> USE DEF TypeOK
  <2>1. CASE EnsurePVCExists
    <3>1. WorkerTypes'
      BY <2>1, <1>ProceedType DEF EnsurePVCExists, Steps
    <3>2. pvc' \in Child
      BY <2>1, <1>CreatedType DEF EnsurePVCExists, ServerTypes
    <3>3. faults' \in Nat
      BY <2>1, <1>SpendType DEF EnsurePVCExists, BudgetTypes
    <3>4. fresh' \in SUBSET Watched
      BY <2>1, <1>ChangedType, Zenon DEF EnsurePVCExists
    <3> QED
      BY <2>1, <3>1, <3>2, <3>3, <3>4, <1>ChildStepType DEF EnsurePVCExists, ServerTypes
  <2>2. CASE EnsureDeploymentExists
    <3>0. cdep.ready \in BOOLEAN
      BY DEF CacheTypes, Deployment
    <3>1. WorkerTypes'
      BY <2>2, <3>0, <1>ProceedType, <1>UseDeploymentType, Zenon DEF EnsureDeploymentExists, Steps
    <3>2. dep' \in Deployment
      BY <2>2, <1>BuiltType, ObjectTypes, Zenon DEF EnsureDeploymentExists, ServerTypes
    <3>3. faults' \in Nat
      BY <2>2, <1>SpendType, Zenon DEF EnsureDeploymentExists, BudgetTypes
    <3>4. fresh' \in SUBSET Watched
      BY <2>2, <1>ChangedType, Zenon DEF EnsureDeploymentExists
    <3> QED
      BY <2>2, <3>1, <3>2, <3>3, <3>4, <1>ChildStepType DEF EnsureDeploymentExists, ServerTypes
  <2>3. CASE EnsureServiceExists
    <3>1. WorkerTypes'
      BY <2>3, <1>ProceedType, <1>UseServiceType DEF EnsureServiceExists, Steps
    <3>2. svc' \in Child
      BY <2>3, <1>CreatedType DEF EnsureServiceExists, ServerTypes
    <3>3. faults' \in Nat
      BY <2>3, <1>SpendType DEF EnsureServiceExists, BudgetTypes
    <3>4. fresh' \in SUBSET Watched
      BY <2>3, <1>ChangedType DEF EnsureServiceExists
    <3> QED
      BY <2>3, <3>1, <3>2, <3>3, <3>4, <1>ChildStepType, Zenon DEF EnsureServiceExists, ServerTypes
  <2> QED
    BY <2>1, <2>2, <2>3, Zenon
<1>DeleteFailedType.
      ASSUME WorkerTypes, DeleteFailed PROVE WorkerTypes'
  BY <1>DeleteFailedType, <1>ProceedType, <1>ReturnType, Zenon DEF DeleteFailed, Steps
<1>FoundDeploymentType.
      ASSUME WorkerTypes, NEW gone \in BOOLEAN, FoundDeployment(gone) PROVE WorkerTypes'
  BY <1>FoundDeploymentType DEF WorkerTypes, FoundDeployment, Goto, Steps
<1>FoundServiceType.
      ASSUME WorkerTypes, NEW gone \in BOOLEAN, FoundService(gone) PROVE WorkerTypes'
  <2> USE <1>FoundServiceType
  <2>1. StopVerdict(rDep, gone) \in Steps
    BY DEF WorkerTypes, StopVerdict, Steps
  <2>2. pc' \in Steps
    BY <2>1 DEF FoundService, Goto, Steps
  <2> QED
    BY <2>2 DEF WorkerTypes, FoundService, Goto
<1>DeleteChildrenTypes.
      ASSUME TypeOK, EnsureDeploymentDeleted \/ EnsureServiceDeleted \/ EnsurePVCDeleted
      PROVE  TypeOK'
  <2> USE <1>DeleteChildrenTypes
  <2> USE DEF TypeOK
  <2>1. CASE EnsureDeploymentDeleted
    <3>1. WorkerTypes'
      BY <2>1, <1>FoundDeploymentType, <1>DeleteFailedType, Zenon DEF EnsureDeploymentDeleted
    <3>2. dep' \in Deployment
      BY <2>1, Zenon DEF EnsureDeploymentDeleted, ServerTypes, Deployment
    <3>3. faults' \in Nat
      BY <2>1, <1>SpendType, Zenon DEF EnsureDeploymentDeleted, BudgetTypes
    <3>4. fresh' \in SUBSET Watched
      BY <2>1, <1>ChangedType, Zenon DEF EnsureDeploymentDeleted
    <3> QED
      BY <2>1, <3>1, <3>2, <3>3, <3>4, <1>ChildStepType DEF EnsureDeploymentDeleted, ServerTypes
  <2>2. CASE EnsureServiceDeleted
    <3>1. WorkerTypes'
      BY <2>2, <1>FoundServiceType, <1>DeleteFailedType, Zenon DEF EnsureServiceDeleted
    <3>2. svc' \in Child
      BY <2>2, Zenon DEF EnsureServiceDeleted, ServerTypes, Child
    <3>3. faults' \in Nat
      BY <2>2, <1>SpendType, Zenon DEF EnsureServiceDeleted, BudgetTypes
    <3>4. fresh' \in SUBSET Watched
      BY <2>2, <1>ChangedType, Zenon DEF EnsureServiceDeleted
    <3> QED
      BY <2>2, <3>1, <3>2, <3>3, <3>4, <1>ChildStepType DEF EnsureServiceDeleted, ServerTypes
  <2>3. CASE EnsurePVCDeleted
    <3>1. WorkerTypes'
      BY <2>3, <1>ProceedType, <1>ReturnType, Zenon DEF EnsurePVCDeleted, Steps
    <3>2. pvc' \in Child
      BY <2>3, Zenon DEF EnsurePVCDeleted, ServerTypes, Child
    <3>3. faults' \in Nat
      BY <2>3, <1>SpendType, Zenon DEF EnsurePVCDeleted, BudgetTypes
    <3>4. fresh' \in SUBSET Watched
      BY <2>3, <1>ChangedType DEF EnsurePVCDeleted
    <3> QED
      BY <2>3, <3>1, <3>2, <3>3, <3>4, <1>ChildStepType DEF EnsurePVCDeleted, ServerTypes
  <2> QED
    BY <2>1, <2>2, <2>3
<1>RouteTypes.
      ASSUME TypeOK, NEW t \in Routes, NEW r \in Route
      PROVE  [routes EXCEPT ![t] = r] \in [Routes -> Route]
  BY <1>RouteTypes DEF TypeOK, ServerTypes
<1>WantedType.
      ASSUME WorkerTypes, NEW q \in BOOLEAN PROVE Wanted(q) \in Route
  BY <1>WantedType DEF WorkerTypes, Want, Route, Wanted
<1>AccessTypes.
      ASSUME TypeOK, NEW t \in Routes, EnsureAccessResource(t) \/ EnsureAccessResourceDeleted(t)
      PROVE  TypeOK'
  <2> USE <1>AccessTypes
  <2> rws \in Workspace /\ todo \in SUBSET Routes
    BY Zenon DEF TypeOK, WorkerTypes
  <2>1. CASE EnsureAccessResource(t)
    <3> DEFINE inPlace == t \in rws.acc /\ routes[t].here
    <3> PICK o \in Replies :
          /\ Spend(o)
          /\ routes' = IF o = "refused" \/ (inPlace /\ UpToDate(t)) THEN routes
                       ELSE [routes EXCEPT ![t] = Wanted(~inPlace)]
          /\ IF o = "ok"
             THEN /\ todo' = todo \ {t} /\ rws' = [rws EXCEPT !.acc = @ \cup {t}]
                  /\ UNCHANGED <<pc, queued, mode, rFresh, want, rDep, rSvc, rErr>>
             ELSE Return(TRUE)
      BY <2>1, Zenon DEF EnsureAccessResource
    <3>1. (~inPlace) \in BOOLEAN
      BY Zenon
    <3> HIDE DEF inPlace
    <3>2. routes' \in [Routes -> Route]
      BY <3>1, <1>WantedType, <1>RouteTypes, Zenon DEF TypeOK, ServerTypes
    <3>3. WorkerTypes'
      <4>1. CASE o = "ok"
        <5>1. rws' = [rws EXCEPT !.acc = rws.acc \cup {t}]
          BY <4>1
        <5>2. rws.acc \cup {t} \in SUBSET Routes
          BY EditTypes, Zenon
        <5>3. rws' \in Workspace
          BY <5>1, <5>2, EditTypes, Zenon
        <5>4. todo' \in SUBSET Routes
          BY <4>1
        <5> QED
          BY <4>1, <5>3, <5>4 DEF TypeOK, WorkerTypes
      <4>2. CASE o # "ok"
        BY <4>2, <1>ReturnType, Zenon DEF TypeOK
      <4> QED
        BY <4>1, <4>2
    <3>4. faults' \in Nat
      BY <1>SpendType, ZenonT(30) DEF TypeOK
    <3> QED
      BY <2>1, <3>2, <3>3, <3>4, <1>ChildStepType
         DEF EnsureAccessResource, caches, TypeOK, ServerTypes, CacheTypes
  <2>2. CASE EnsureAccessResourceDeleted(t)
    <3> PICK o \in Replies :
          /\ Spend(o)
          /\ routes' = IF o = "refused" THEN routes ELSE [routes EXCEPT ![t] = NoRoute]
          /\ IF o = "ok"
             THEN /\ todo' = todo \ {t}
                  /\ UNCHANGED <<pc, queued, mode, rws, rFresh, want, rDep, rSvc, rErr>>
             ELSE IF mode = "run" THEN Return(TRUE)
             ELSE /\ pc' = "dep" /\ todo' = {} /\ rErr' = TRUE
                  /\ UNCHANGED <<queued, mode, rws, rFresh, want, rDep, rSvc>>
      BY <2>2, Zenon DEF EnsureAccessResourceDeleted
    <3>1. routes' \in [Routes -> Route]
      BY ObjectTypes, <1>RouteTypes DEF TypeOK, ServerTypes
    <3>2. WorkerTypes'
      <4>1. CASE o = "ok"
        BY <4>1 DEF TypeOK, WorkerTypes
      <4>2. CASE o # "ok" /\ mode = "run"
        BY <4>2, <1>ReturnType, Zenon DEF TypeOK
      <4>3. CASE o # "ok" /\ mode # "run"
        BY <4>3 DEF TypeOK, WorkerTypes, Steps
      <4> QED
        BY <4>1, <4>2, <4>3
    <3>3. faults' \in Nat
      BY <1>SpendType DEF TypeOK
    <3> QED
      BY <2>2, <3>1, <3>2, <3>3, <1>ChildStepType
         DEF EnsureAccessResourceDeleted, caches, TypeOK, ServerTypes, CacheTypes
  <2> QED
    BY <2>1, <2>2
<1>LocalStepTypes.
      ASSUME TypeOK, pc = "strategy" => rws.ref # None,
             GetAccessStrategy \/ EnsureAccessResourcesExist \/ EnsureAccessResourcesDeleted
               \/ CheckWorkspaceIdle \/ AreAllResourcesDeleted
      PROVE  TypeOK'
  <2> USE <1>LocalStepTypes
  <2> rws \in Workspace /\ todo \in SUBSET Routes /\ WorkerTypes
    BY ZenonT(30) DEF TypeOK, WorkerTypes
  <2>1. CASE GetAccessStrategy
    <3> PICK o \in Replies :
          /\ Spend(o)
          /\ IF o = "ok"
             THEN /\ want' = [from |-> rws.ref, ver |-> cstrat[rws.ref].ver,
                              tpl |-> cstrat[rws.ref].tpl]
                  /\ Goto("pvc")
                  /\ UNCHANGED <<mode, rws, rFresh, todo, rDep, rSvc, rErr>>
             ELSE Return(TRUE)
      BY <2>1, Zenon DEF GetAccessStrategy
    <3>1. WorkerTypes'
      <4>1. CASE o = "ok"
        <5>1. rws.ref \in Strategies
          BY <2>1, EditTypes, Zenon DEF GetAccessStrategy, Refs
        <5>2. cstrat[rws.ref] \in Strategy /\ rws.ref \in Refs
          BY <5>1, ZenonT(30) DEF TypeOK, CacheTypes, Refs
        <5>3. want' \in Want
          BY <4>1, <5>2 DEF Strategy, Want
        <5> QED
          BY <4>1, <5>3 DEF WorkerTypes, Goto, Steps
      <4>2. CASE o # "ok"
        BY <4>2, <1>ReturnType, ZenonT(30)
      <4> QED
        BY <4>1, <4>2, Zenon
    <3>2. faults' \in Nat
      BY <1>SpendType DEF TypeOK
    <3> QED
      BY <2>1, <3>1, <3>2, <1>FrameTypes DEF GetAccessStrategy, TypeOK, BudgetTypes
  <2>2. CASE EnsureAccessResourcesExist
    <3>1. rws.acc \ Kept \in SUBSET Routes
      BY EditTypes, Zenon
    <3>2. WorkerTypes'
      BY <2>2, <3>1 DEF EnsureAccessResourcesExist, WorkerTypes, Steps
    <3> QED
      BY ZenonT(30), <2>2, <3>2, <1>FrameTypes DEF EnsureAccessResourcesExist, TypeOK
  <2>3. CASE EnsureAccessResourcesDeleted
    <3>1. rws' = [rws EXCEPT !.acc = rws.acc \cap Kept]
      BY <2>3 DEF EnsureAccessResourcesDeleted
    <3>2. rws' \in Workspace
      BY <3>1, EditTypes, Zenon
    <3>3. WorkerTypes'
      BY <2>3, <3>2 DEF EnsureAccessResourcesDeleted, WorkerTypes, Goto, Steps
    <3> QED
      BY <2>3, <3>3, <1>FrameTypes DEF EnsureAccessResourcesDeleted, TypeOK
  <2>4. CASE CheckWorkspaceIdle
    <3>1. WorkerTypes'
      BY <2>4, <1>ProceedType, <1>ReturnType, Zenon DEF CheckWorkspaceIdle, Steps
    <3> QED
      BY <2>4, <3>1, <1>FrameTypes DEF CheckWorkspaceIdle, TypeOK
  <2>5. CASE AreAllResourcesDeleted
    <3>1. WorkerTypes'
      BY <2>5, <1>ProceedType, <1>ReturnType, Zenon DEF AreAllResourcesDeleted, Steps
    <3> QED
      BY <2>5, <3>1, <1>FrameTypes DEF AreAllResourcesDeleted, TypeOK
  <2> QED
    BY <2>1, <2>2, <2>3, <2>4, <2>5
<1>EnvironmentStepType.
      ASSUME TypeOK, Worker, queued' \in BOOLEAN,
             ServerTypes', CacheTypes', BudgetTypes'
      PROVE  TypeOK'
  BY <1>EnvironmentStepType, <1>FrameTypes DEF TypeOK
<1>InformersTypes.
      ASSUME TypeOK, Informers PROVE TypeOK'
  <2> USE <1>InformersTypes
  <2>1. Worker /\ UNCHANGED server /\ Budgets
    BY DEF Informers, SyncWorkspace, SyncDeployment, SyncService, SyncPVC,
           AccessStrategyEventHandler
  <2>2. queued' \in BOOLEAN
    BY Zenon DEF Informers, SyncWorkspace, SyncDeployment, SyncService, SyncPVC,
           AccessStrategyEventHandler, TypeOK, WorkerTypes
  <2>3. CacheTypes'
    <3>1. CASE SyncWorkspace \/ SyncDeployment \/ SyncService \/ SyncPVC
      BY <3>1, Zenon DEF SyncWorkspace, SyncDeployment, SyncService, SyncPVC, TypeOK,
                  ServerTypes, CacheTypes, Watched
    <3>2. ASSUME NEW s \in Strategies, AccessStrategyEventHandler(s) PROVE CacheTypes'
      BY <3>2 DEF AccessStrategyEventHandler, TypeOK, ServerTypes, CacheTypes
    <3> QED
      BY <3>1, <3>2 DEF Informers
  <2> QED
    BY <2>1, <2>2, <2>3, <1>EnvironmentStepType, <1>FrameTypes, Zenon DEF TypeOK, Budgets
<1>ReadyType.
      ASSUME NEW d \in Deployment
      PROVE  /\ \A q \in BOOLEAN : [d EXCEPT !.ready = q] \in Deployment
             /\ [d EXCEPT !.term = TRUE] \in Deployment
  BY <1>ReadyType, Zenon DEF Deployment
\* A step of the environment on the children: what is left to show.
<1>ChildrenMoveType.
      ASSUME TypeOK, Worker, queued' \in BOOLEAN, BudgetTypes',
             dep' \in Deployment, svc' \in Child, pvc' \in Child,
             routes' \in [Routes -> Route], fresh' \in SUBSET Watched,
             UNCHANGED <<ws, strat, cws, cdep, csvc, cpvc, cstrat>>
      PROVE  TypeOK'
  BY <1>ChildrenMoveType, <1>EnvironmentStepType DEF TypeOK, ServerTypes, CacheTypes
<1>KubernetesTypes.
      ASSUME TypeOK, Kubernetes PROVE TypeOK'
  <2> USE <1>KubernetesTypes
  <2> dep \in Deployment /\ svc \in Child /\ pvc \in Child /\ routes \in [Routes -> Route]
      /\ CacheTypes /\ fresh \in SUBSET Watched /\ queued \in BOOLEAN
    BY DEF TypeOK, ServerTypes, CacheTypes, WorkerTypes
  <2> "absent" \in Child
    BY DEF Child
  <2>0. Budgets => BudgetTypes'
    BY <1>FrameTypes DEF Budgets, TypeOK
  <2>1. CASE DeploymentReady
    BY <2>0, <2>1, <1>ReadyType, <1>ChangedType, <1>ChildrenMoveType, Zenon DEF DeploymentReady
  <2>2. CASE DeploymentGone
    BY <2>0, <2>2, ObjectTypes, <1>ChangedType, <1>ChildrenMoveType, Zenon DEF DeploymentGone
  <2>3. CASE ServiceGone
    BY <2>0, <2>3, <1>ChangedType, <1>ChildrenMoveType DEF ServiceGone
  <2>4. CASE PVCGone
    BY <2>0, <2>4, <1>ChangedType, <1>ChildrenMoveType, Zenon DEF PVCGone
  <2>5. ASSUME NEW t \in Routes, RouteCollected(t) PROVE TypeOK'
    <3>1. routes' \in [Routes -> Route]
      BY <2>5, ObjectTypes, <1>RouteTypes DEF RouteCollected
    <3> QED
      BY <2>0, <2>5, <3>1, <1>ChildrenMoveType DEF RouteCollected, caches
  <2> QED
    BY <2>1, <2>2, <2>3, <2>4, <2>5, Zenon DEF Kubernetes
<1>EditBudget.
      ASSUME BudgetTypes, Edit PROVE BudgetTypes'
  BY <1>EditBudget DEF BudgetTypes, Edit
<1>EditWorkspaceType.
      ASSUME TypeOK, NEW new \in Workspace, EditWorkspace(new) PROVE TypeOK'
  <2> USE <1>EditWorkspaceType
  <2>1. WorkerTypes'
    BY Zenon DEF EditWorkspace, TypeOK, WorkerTypes
  <2>2. BudgetTypes'
    BY <1>EditBudget DEF EditWorkspace, TypeOK
  <2>3. fresh' \in SUBSET Watched
    BY <1>ChangedType DEF EditWorkspace, TypeOK
  <2> QED
    BY <2>1, <2>2, <2>3 DEF EditWorkspace, TypeOK, ServerTypes, CacheTypes
<1>UsersTypes.
      ASSUME TypeOK, Users PROVE TypeOK'
  <2> USE <1>UsersTypes
  <2> dep \in Deployment /\ svc \in Child /\ pvc \in Child /\ routes \in [Routes -> Route]
      /\ CacheTypes /\ fresh \in SUBSET Watched /\ queued \in BOOLEAN /\ ws \in Workspace
    BY DEF TypeOK, ServerTypes, CacheTypes, WorkerTypes
  <2>0. Edit => BudgetTypes'
    BY <1>EditBudget DEF TypeOK
  <2>1. CASE EditSpec
    BY <2>1, EditTypes, <1>EditWorkspaceType, Zenon DEF EditSpec
  <2>2. CASE DeleteWorkspace
    BY <2>2, EditTypes, ObjectTypes, <1>EditWorkspaceType, Zenon DEF DeleteWorkspace
  <2>3. ASSUME NEW s \in Strategies, EditStrategy(s) PROVE TypeOK'
    <3> PICK T \in TemplateSets \cup {strat[s].tpl} :
          strat' = [strat EXCEPT ![s] = [ver |-> strat[s].ver + 1, tpl |-> T]]
      BY <2>3, Zenon DEF EditStrategy
    <3>1. strat' \in [Strategies -> Strategy]
      BY ConstantsAssumption DEF TypeOK, ServerTypes, Strategy
    <3>2. ServerTypes'
      BY <2>3, <3>1 DEF EditStrategy, TypeOK, ServerTypes
    <3> QED
      BY <2>0, <2>3, <3>2, <1>EnvironmentStepType, <1>FrameTypes DEF EditStrategy
  <2>4. CASE Stray
    <3>1. CASE UNCHANGED <<ws, svc, pvc, routes, strat, cws, cdep, csvc, cpvc, cstrat, queued>>
               /\ Worker /\ Edit /\ Changed("dep", dep', dep)
               /\ (dep' = [dep EXCEPT !.ready = FALSE] \/ dep' = [dep EXCEPT !.term = TRUE])
      BY <2>0, <3>1, <1>ReadyType, <1>ChangedType, <1>ChildrenMoveType, Zenon
    <3>2. CASE UNCHANGED <<ws, dep, pvc, routes, strat, cws, cdep, csvc, cpvc, cstrat, queued>>
               /\ Worker /\ Edit /\ Changed("svc", svc', svc) /\ svc' = "deleting"
      <4>1. svc' \in Child
        BY <3>2 DEF Child
      <4> QED
        BY <2>0, <3>2, <4>1, <1>ChangedType, <1>ChildrenMoveType
    <3>3. ASSUME UNCHANGED <<ws, dep, svc, pvc, strat, caches>>, Worker, Edit,
                 NEW t \in Routes, routes' = [routes EXCEPT ![t] = NoRoute],
                 queued' = (queued \/ routes[t].owned)
          PROVE  TypeOK'
      <4>1. routes' \in [Routes -> Route]
        BY <3>3, ObjectTypes, <1>RouteTypes, Zenon
      <4> QED
        BY <2>0, <3>3, <4>1, <1>ChildrenMoveType DEF caches
    <3> QED
      BY <2>4, <3>1, <3>2, <3>3 DEF Stray
  <2> QED
    BY <2>1, <2>2, <2>3, <2>4, Zenon DEF Users
<1>RestartTypes.
      ASSUME TypeOK, Restart PROVE TypeOK'
  <2> USE <1>RestartTypes
  <2>1. WorkerTypes'
    BY ObjectTypes, Zenon DEF Restart, WorkerTypes, Steps, Modes
  <2>2. CacheTypes'
    BY DEF Restart, TypeOK, ServerTypes, CacheTypes
  <2>3. BudgetTypes'
    BY DEF Restart, TypeOK, BudgetTypes
  <2> QED
    BY <2>1, <2>2, <2>3, <1>FrameTypes DEF Restart, TypeOK
<1>StutterTypes.
      ASSUME TypeOK, UNCHANGED vars PROVE TypeOK'
  BY <1>StutterTypes DEF vars, server, caches, local, TypeOK, ServerTypes, CacheTypes, WorkerTypes, BudgetTypes
<1> SUFFICES ASSUME TypeOK, pc = "strategy" => rws.ref # None, [Next]_vars PROVE TypeOK'
  OBVIOUS
<1>1. CASE Reconcile
  BY <1>1, <1>ReconcileStartTypes, <1>StatusTypesStep, <1>LongStatusTypes, <1>EnsureChildrenTypes,
     <1>DeleteChildrenTypes, <1>AccessTypes, <1>LocalStepTypes DEF Reconcile
<1> QED
  BY <1>1, <1>InformersTypes, <1>KubernetesTypes, <1>UsersTypes, <1>RestartTypes, <1>StutterTypes DEF Next
-----------------------------------------------------------------------------
(***************************************************************************)
(* The inductive invariant.  Agree: what resourceVersions promise, a fresh *)
(* copy is the server's object (the worker's one up to the access          *)
(* resources it changed since).  Pursues: the steps of each mode, and what *)
(* the copy a reconcile began with still says at each of them.  Outlives:  *)
(* the finalizer keeps the workspace alive while a reconcile or a cache    *)
(* takes it for running, and a deletion once seen is not undone.           *)
(***************************************************************************)
Dying(w) == w.deleting \/ ~w.exists

Exclusive(w) == ~(w.av /\ w.pr) /\ ~(w.av /\ w.sp) /\ ~(w.pr /\ w.sp)

RunSteps == {"pvc", "dep", "svc", "strategy", "ensure", "prune", "starting", "running",
             "error", "idleCheck", "idleStop"}
StopSteps == {"prune", "dep", "svc", "stopping", "stopped", "error", "unexpected"}
DeleteSteps == {"deleting", "prune", "dep", "svc", "pvc", "check", "finalizer"}

Agree ==
  /\ "ws" \in fresh => cws = ws
  /\ rFresh => rws = [ws EXCEPT !.acc = rws.acc]

Pursues ==
  /\ mode = "run" => pc \in {"idle", "meta"} \cup RunSteps
  /\ mode = "stop" => pc \in StopSteps /\ ~rws.deleting /\ rws.desired = "Stopped"
  /\ mode = "delete" => pc \in DeleteSteps /\ rws.deleting
  /\ mode = "run" /\ pc \in RunSteps => ~rws.deleting /\ rws.desired = "Running"
  /\ pc # "idle" => rws.exists
  /\ pc = "strategy" => rws.ref # None
  /\ pc \in {"idleCheck", "idleStop"} => rws.av
  /\ Exclusive(rws)

Outlives ==
  /\ cws.deleting => Dying(ws)
  /\ cws.exists /\ cws.fin /\ ~cws.deleting => ws.exists /\ ws.fin
  /\ mode = "run" /\ pc \in RunSteps => ws.exists /\ ws.fin
  /\ mode = "delete" => Dying(ws) /\ Dying(cws)
  /\ Exclusive(ws) /\ Exclusive(cws)

LifeInv == TypeOK /\ Agree /\ Pursues /\ Outlives

LEMMA LifeInit == Init => LifeInv
<1> SUFFICES ASSUME Init PROVE Agree /\ Pursues /\ Outlives
  BY TypeInit DEF LifeInv
<1> USE DEF NoWorkspace, NewWorkspace, Exclusive, Dying, RunSteps
<1>1. Agree
  BY DEF Init, Agree
<1>2. Pursues
  BY DEF Init, Pursues
<1>3. Outlives
  BY DEF Init, Outlives
<1> QED
  BY <1>1, <1>2, <1>3

(***************************************************************************)
(* Facts about copies of the workspace.                                    *)
(***************************************************************************)
LEMMA FreshCopy ==
  ASSUME LifeInv, rFresh
  PROVE  /\ rws.exists = ws.exists /\ rws.deleting = ws.deleting /\ rws.fin = ws.fin
         /\ rws.desired = ws.desired /\ rws.ref = ws.ref /\ rws.rev = ws.rev
         /\ rws.av = ws.av /\ rws.pr = ws.pr /\ rws.sp = ws.sp
BY DEF LifeInv, Agree, TypeOK, ServerTypes, Workspace

\* new is a version of w: the identity, the deletion and the spec are w's, the
\* finalizer is at least there if it was.
SameLife(new, w) ==
  /\ new.exists = w.exists /\ new.deleting = w.deleting /\ (w.fin => new.fin)

LEMMA StatusLife ==
  ASSUME NEW w \in Workspace, Exclusive(w),
         NEW new \in {StartingStatus(w), RunningStatus(w), StoppingStatus(w),
                      StoppedStatus(w), ErrorStatus(w), [w EXCEPT !.del = TRUE]}
  PROVE  /\ SameLife(new, w) /\ Exclusive(new)
         /\ new.desired = w.desired /\ new.ref = w.ref /\ new.rev = w.rev
BY ZenonT(30) DEF Workspace, StartingStatus, RunningStatus, StoppingStatus, StoppedStatus,
       ErrorStatus, Conditions, SameLife, Exclusive

LEMMA IdleCopy == Exclusive(NoWorkspace) /\ Dying(NoWorkspace) /\ ~NoWorkspace.exists
BY DEF Exclusive, Dying, NoWorkspace, NewWorkspace

LEMMA LifeStep == LifeInv /\ [Next]_vars => LifeInv'
<1>CopyWithAcc.
      ASSUME NEW w \in Workspace, NEW v \in Workspace, NEW A \in SUBSET Routes
      PROVE  /\ w = [w EXCEPT !.acc = w.acc]
             /\ v = [w EXCEPT !.acc = v.acc] =>
                  [v EXCEPT !.acc = A] = [w EXCEPT !.acc = [v EXCEPT !.acc = A].acc]
             /\ LET u == [w EXCEPT !.acc = A]
                IN  /\ u.exists = w.exists /\ u.deleting = w.deleting /\ u.ref = w.ref
                    /\ u.desired = w.desired /\ u.av = w.av /\ u.fin = w.fin
                    /\ Exclusive(w) => Exclusive(u)
  BY <1>CopyWithAcc DEF Workspace, Exclusive
<1>SpecLife.
      ASSUME NEW w \in Workspace, Exclusive(w),
             NEW new, \/ new = [w EXCEPT !.fin = TRUE, !.label = w.ref]
                      \/ \E d \in Desired : new = [w EXCEPT !.desired = d]
                      \/ \E r \in Refs : new = [w EXCEPT !.ref = r]
                      \/ \E v \in Revs : new = [w EXCEPT !.rev = v]
      PROVE  SameLife(new, w) /\ Exclusive(new)
  BY <1>SpecLife, Zenon DEF Workspace, SameLife, Exclusive
(***************************************************************************)
(* The kinds of step, by what they do to the workspace and its copies.     *)
(***************************************************************************)
<1>QuietStep.
      ASSUME LifeInv, UNCHANGED <<ws, cws, pc, local>>, "ws" \in fresh' => "ws" \in fresh
      PROVE  Agree' /\ Pursues' /\ Outlives'
  BY <1>QuietStep DEF LifeInv, Agree, Pursues, Outlives, local, Dying, Exclusive
<1>AdvanceStep.
      ASSUME LifeInv, UNCHANGED <<ws, cws, mode, rFresh>>, "ws" \in fresh' => "ws" \in fresh,
             NEW A \in SUBSET Routes, rws' = rws \/ rws' = [rws EXCEPT !.acc = A],
             pc # "idle", pc' \notin {"idle", "strategy"},
             mode = "run" => pc \in RunSteps /\ pc' \in RunSteps,
             mode = "stop" => pc' \in StopSteps, mode = "delete" => pc' \in DeleteSteps,
             pc' \in {"idleCheck", "idleStop"} => rws.av
      PROVE  Agree' /\ Pursues' /\ Outlives'
  <2> USE <1>AdvanceStep
  <2> rws \in Workspace /\ ws \in Workspace
    BY DEF LifeInv, TypeOK, ServerTypes, WorkerTypes
  <2>1. /\ rws'.exists = rws.exists /\ rws'.deleting = rws.deleting /\ rws'.ref = rws.ref
        /\ rws'.desired = rws.desired /\ rws'.av = rws.av
        /\ Exclusive(rws) => Exclusive(rws')
    <3>1. CASE rws' = rws
      BY <3>1 DEF Exclusive
    <3>2. CASE rws' = [rws EXCEPT !.acc = A]
      BY <3>2 DEF Workspace, Exclusive
    <3> QED
      BY <3>1, <3>2
  <2>2. Agree'
    BY <1>CopyWithAcc DEF LifeInv, Agree
  <2>3. Pursues'
    BY <2>1 DEF LifeInv, Pursues, Exclusive
  <2>4. Outlives'
    BY Zenon DEF LifeInv, Outlives, Dying, Exclusive
  <2> QED
    BY <2>2, <2>3, <2>4
<1>ReturnPursues.
      ASSUME NEW q, Return(q) PROVE Pursues'
  BY <1>ReturnPursues, IdleCopy DEF Return, Pursues, RunSteps, StopSteps, DeleteSteps, Exclusive
<1>ReturnStep.
      ASSUME LifeInv, NEW q, Return(q), UNCHANGED <<ws, cws>>, "ws" \in fresh' => "ws" \in fresh
      PROVE  Agree' /\ Pursues' /\ Outlives'
  <2> USE <1>ReturnStep
  <2>1. Agree'
    BY ZenonT(30) DEF LifeInv, Agree, Return
  <2>2. Outlives'
    BY DEF LifeInv, Outlives, Return, RunSteps, Dying, Exclusive
  <2> QED
    BY <2>1, <2>2, <1>ReturnPursues
\* A write by a reconcile: refused unless its copy is fresh, and then a later
\* version of the same object.
<1>WriteOutlives.
      ASSUME LifeInv, NEW new, NEW o, Write(new, o), pc # "idle", UNCHANGED cws,
             SameLife(new, rws), Exclusive(new)
      PROVE  /\ Dying(ws) => Dying(ws')
             /\ ws.exists /\ ws.fin => ws'.exists /\ ws'.fin
             /\ Exclusive(ws')
             /\ "ws" \in fresh' => cws' = ws'
  BY <1>WriteOutlives, FreshCopy DEF Write, Changed, SameLife, Dying, Exclusive, LifeInv, Outlives, Agree
<1>WriteReturnStep.
      ASSUME LifeInv, NEW new, NEW o, NEW q, Write(new, o), Return(q), pc # "idle",
             UNCHANGED cws, SameLife(new, rws), Exclusive(new)
      PROVE  Agree' /\ Pursues' /\ Outlives'
  <2> USE <1>WriteReturnStep
  <2>1. Agree'
    BY <1>WriteOutlives DEF Agree, Return
  <2>2. Outlives'
    BY ZenonT(30), <1>WriteOutlives DEF LifeInv, Outlives, Return, RunSteps, Dying, Exclusive
  <2> QED
    BY <2>1, <2>2, <1>ReturnPursues
\* A status write after which the reconcile goes on with what it wrote.
<1>WriteAdvanceStep.
      ASSUME LifeInv, NEW new \in Workspace, NEW o, Write(new, o), Wrote(o), pc # "idle",
             UNCHANGED <<cws, mode>>, rws' = new, SameLife(new, rws), Exclusive(new),
             new.desired = rws.desired, pc' \notin {"idle", "strategy"},
             mode = "run" => pc \in RunSteps /\ pc' \in RunSteps,
             mode = "stop" => pc' \in StopSteps, mode = "delete" => pc' \in DeleteSteps,
             pc' \in {"idleCheck", "idleStop"} => new.av
      PROVE  Agree' /\ Pursues' /\ Outlives'
  <2> USE <1>WriteAdvanceStep
  <2>1. Agree'
    <3>1. ws' = new
      BY DEF Write, Wrote
    <3>2. new = [new EXCEPT !.acc = new.acc]
      BY <1>CopyWithAcc, ZenonT(30)
    <3> QED
      BY <3>1, <3>2, <1>WriteOutlives, ZenonT(30) DEF Agree
  <2>2. Pursues'
    BY Zenon DEF LifeInv, Pursues, SameLife, Exclusive
  <2>3. Outlives'
    BY ZenonT(30), <1>WriteOutlives DEF LifeInv, Outlives, Dying, Exclusive
  <2> QED
    BY <2>1, <2>2, <2>3
(***************************************************************************)
(* Each action is one of these kinds, or is handled on its own.            *)
(***************************************************************************)
<1>BeginLife.
      ASSUME LifeInv,
             ReconcileNothing \/ ReconcileDeletion \/ ReconcileMeta \/ ReconcileStopped
               \/ ReconcileRunning
      PROVE  Agree' /\ Pursues' /\ Outlives'
  <2> USE <1>BeginLife
  <2>1. CASE ReconcileNothing
    BY <2>1, <1>QuietStep DEF ReconcileNothing, caches, server
  <2> DEFINE First == IF cws.ref = None THEN "pvc" ELSE "strategy"
  <2>2. ASSUME NEW p, NEW m, NEW t, Begin(p, m, t), cws.exists,
               \/ p = "deleting" /\ m = "delete" /\ cws.deleting
               \/ p = "meta" /\ m = "run"
               \/ p = "prune" /\ m = "stop" /\ ~cws.deleting /\ cws.desired = "Stopped"
               \/ /\ p = First /\ m = "run" /\ ~cws.deleting /\ cws.fin
                  /\ cws.desired = "Running"
        PROVE  Agree' /\ Pursues' /\ Outlives'
    <3> cws \in Workspace /\ ws \in Workspace
      BY Zenon DEF LifeInv, TypeOK, ServerTypes, CacheTypes
    <3>0. UNCHANGED <<ws, cws, fresh>> /\ rws' = cws /\ pc' = p /\ mode' = m
      BY <2>2 DEF Begin, server, caches
    <3>1. Agree'
      <4>1. cws = [cws EXCEPT !.acc = cws.acc]
        BY <1>CopyWithAcc, ZenonT(30)
      <4> QED
        BY <2>2, <3>0, <4>1 DEF LifeInv, Agree, Begin
    <3>2. Pursues'
      BY ZenonT(30), <2>2, <3>0 DEF LifeInv, Outlives, Pursues, Exclusive, RunSteps, StopSteps, DeleteSteps
    <3>3. Outlives'
      BY <2>2, <3>0 DEF LifeInv, Outlives, Dying, Exclusive, RunSteps
    <3> QED
      BY <3>1, <3>2, <3>3, Zenon
  <2>3. CASE ReconcileDeletion
    BY <2>2, <2>3, Zenon DEF ReconcileDeletion
  <2>4. CASE ReconcileMeta
    BY <2>2, <2>4, Zenon DEF ReconcileMeta
  <2>5. CASE ReconcileStopped
    BY <2>2, <2>5, Zenon DEF ReconcileStopped
  <2>6. CASE ReconcileRunning
    BY <2>2, <2>6 DEF ReconcileRunning, NeedsMeta
  <2> QED
    BY <2>1, <2>3, <2>4, <2>5, <2>6, Zenon
<1>WriteLife.
      ASSUME LifeInv,
             UpdateMeta \/ UpdateStartingStatus \/ UpdateStoppingStatus \/ UpdateErrorStatus
               \/ UpdateStoppedStatus \/ StopWorkspaceDueToIdle
      PROVE  Agree' /\ Pursues' /\ Outlives'
  <2> USE <1>WriteLife
  <2> rws \in Workspace /\ Exclusive(rws)
    BY DEF LifeInv, TypeOK, WorkerTypes, Pursues
  <2>1. CASE UpdateMeta
    BY <2>1, <1>SpecLife, <1>WriteReturnStep, Zenon DEF UpdateMeta
  <2>2. CASE UpdateStartingStatus
    BY <2>2, StatusLife, <1>WriteReturnStep, Zenon DEF UpdateStartingStatus, StatusFrame
  <2>3. CASE UpdateStoppingStatus
    BY <2>3, StatusLife, <1>WriteReturnStep, Zenon DEF UpdateStoppingStatus, StatusFrame
  <2>4. CASE UpdateErrorStatus
    BY <2>4, StatusLife, <1>WriteReturnStep, Zenon DEF UpdateErrorStatus, StatusFrame
  <2>5. CASE UpdateStoppedStatus
    BY <2>5, StatusLife, <1>WriteReturnStep, Zenon DEF UpdateStoppedStatus, StatusFrame
  <2>6. CASE StopWorkspaceDueToIdle
    <3>1. SameLife([rws EXCEPT !.desired = "Stopped"], rws)
          /\ Exclusive([rws EXCEPT !.desired = "Stopped"])
      BY <1>SpecLife, Zenon DEF Desired
    <3> QED
      BY <2>6, <3>1, <1>WriteReturnStep, Zenon DEF StopWorkspaceDueToIdle, StatusFrame
  <2> QED
    BY <2>1, <2>2, <2>3, <2>4, <2>5, <2>6, Zenon
<1>LongWriteLife.
      ASSUME LifeInv, UpdateRunningStatus \/ UpdateDeletingStatus \/ RemoveFinalizer
      PROVE  Agree' /\ Pursues' /\ Outlives'
  <2> USE <1>LongWriteLife
  <2> rws \in Workspace /\ Exclusive(rws) /\ mode \in Modes
    BY DEF LifeInv, TypeOK, WorkerTypes, Pursues
  <2> USE DEF StatusFrame
  <2>1. CASE UpdateRunningStatus
    <3> PICK o \in Replies :
          /\ Spend(o) /\ Write(RunningStatus(rws), o)
          /\ IF Wrote(o) /\ IdleShutdown
             THEN /\ rws' = RunningStatus(rws) /\ Goto("idleCheck")
                  /\ UNCHANGED <<mode, rFresh, want, todo, rDep, rSvc, rErr>>
             ELSE Return(~Wrote(o))
      BY <2>1 DEF UpdateRunningStatus
    <3>1. SameLife(RunningStatus(rws), rws) /\ Exclusive(RunningStatus(rws))
          /\ RunningStatus(rws).desired = rws.desired
      BY StatusLife, Zenon
    <3>2. RunningStatus(rws) \in Workspace
      BY StatusTypes, Zenon
    <3>3. RunningStatus(rws).av
      BY Zenon DEF RunningStatus, Conditions, Workspace
    <3>4. mode = "run" /\ pc \in RunSteps
      BY <2>1, Zenon DEF UpdateRunningStatus, LifeInv, Pursues, Modes, RunSteps, StopSteps, DeleteSteps
    <3>5. CASE Wrote(o) /\ IdleShutdown
      <4>1. "idleCheck" \in RunSteps
        BY Zenon DEF RunSteps
      <4> QED
        BY <2>1, <3>1, <3>2, <3>3, <3>4, <3>5, <4>1, <1>WriteAdvanceStep, Zenon
           DEF UpdateRunningStatus, Goto
    <3>6. CASE ~(Wrote(o) /\ IdleShutdown)
      BY <2>1, <3>1, <3>6, <1>WriteReturnStep, Zenon DEF UpdateRunningStatus
    <3> QED
      BY <3>5, <3>6, Zenon
  <2>2. CASE UpdateDeletingStatus
    <3> DEFINE new == [rws EXCEPT !.del = TRUE]
    <3> PICK o \in Replies :
          /\ Spend(o) /\ Write(new, o)
          /\ IF Wrote(o)
             THEN /\ rws' = new /\ todo' = rws.acc /\ Goto("prune")
                  /\ UNCHANGED <<mode, rFresh, want, rDep, rSvc, rErr>>
             ELSE Return(TRUE)
      BY <2>2, Zenon DEF UpdateDeletingStatus
    <3>1. SameLife(new, rws) /\ Exclusive(new) /\ new.desired = rws.desired
      BY StatusLife
    <3>2. new \in Workspace
      BY StatusTypes
    <3> HIDE DEF new
    <3>3. mode = "delete"
      BY <2>2 DEF UpdateDeletingStatus, LifeInv, Pursues, Modes, RunSteps, StopSteps
    <3>4. CASE Wrote(o)
      <4>1. "prune" \in DeleteSteps
        BY DEF DeleteSteps
      <4> QED
        BY <2>2, <3>1, <3>2, <3>3, <3>4, <4>1, <1>WriteAdvanceStep, Zenon
           DEF UpdateDeletingStatus, Goto
    <3>5. CASE ~Wrote(o)
      BY <2>2, <3>1, <3>5, <1>WriteReturnStep, Zenon DEF UpdateDeletingStatus
    <3> QED
      BY <3>4, <3>5
  <2>3. CASE RemoveFinalizer
    <3> PICK o \in Replies : Spend(o) /\ Write(NoWorkspace, o) /\ Return(~Wrote(o))
      BY <2>3, Zenon DEF RemoveFinalizer
    <3>1. mode = "delete"
      BY <2>3 DEF RemoveFinalizer, LifeInv, Pursues, Modes, RunSteps, StopSteps
    <3>2. Dying(ws) /\ Dying(cws)
      BY <3>1, Zenon DEF LifeInv, Outlives
    <3>3. Dying(ws') /\ Exclusive(ws')
      BY <3>2, IdleCopy, Zenon DEF Write, LifeInv, Outlives
    <3>4. UNCHANGED cws
      BY <2>3 DEF RemoveFinalizer
    <3>5. "ws" \in fresh' => cws' = ws'
      BY <3>4 DEF Write, Changed, LifeInv, Agree
    <3>6. Agree'
      BY <3>5 DEF Agree, Return
    <3>7. Outlives'
      BY ZenonT(30), <3>2, <3>3, <3>4 DEF LifeInv, Outlives, Return, RunSteps, Dying, Exclusive
    <3> QED
      BY <3>6, <3>7, <1>ReturnPursues, Zenon
  <2> QED
    BY <2>1, <2>2, <2>3
\* A step of a reconcile that leaves the workspace and its copies alone.
<1>ProceedStep.
      ASSUME LifeInv, NEW p, Goto(p), UNCHANGED <<ws, cws, mode, rws, rFresh>>,
             "ws" \in fresh' => "ws" \in fresh,
             pc # "idle", p \notin {"idle", "strategy"},
             mode = "run" => pc \in RunSteps /\ p \in RunSteps,
             mode = "stop" => p \in StopSteps, mode = "delete" => p \in DeleteSteps,
             p \in {"idleCheck", "idleStop"} => rws.av
      PROVE  Agree' /\ Pursues' /\ Outlives'
  <2> USE <1>ProceedStep
  <2>1. {} \in SUBSET Routes /\ pc' = p
    BY DEF Goto
  <2> QED
    BY <2>1, <1>AdvanceStep
<1>ChangedOther.
      ASSUME NEW c \in {"dep", "svc", "pvc"}, NEW new, NEW old, Changed(c, new, old)
      PROVE  "ws" \in fresh' => "ws" \in fresh
  BY <1>ChangedOther DEF Changed
<1>EnsureChildrenLife.
      ASSUME LifeInv, EnsurePVCExists \/ EnsureDeploymentExists \/ EnsureServiceExists
      PROVE  Agree' /\ Pursues' /\ Outlives'
  <2> USE <1>EnsureChildrenLife
  <2>0. /\ UNCHANGED <<ws, cws, mode, rws, rFresh>> /\ mode = "run"
        /\ pc \in {"pvc", "dep", "svc"}
        /\ pc' \in {"dep", "svc", "starting", "ensure", "prune", "error"}
    BY Zenon DEF EnsurePVCExists, EnsureDeploymentExists, EnsureServiceExists, Proceed, Goto, local,
           UseDeployment, UseService
  <2>1. "ws" \in fresh' => "ws" \in fresh
    BY <1>ChangedOther, Zenon DEF EnsurePVCExists, EnsureDeploymentExists, EnsureServiceExists
  <2>2. {} \in SUBSET Routes
    OBVIOUS
  <2> QED
    BY <2>0, <2>1, <2>2, <1>AdvanceStep DEF RunSteps
<1>DeleteChildrenLife.
      ASSUME LifeInv, EnsureDeploymentDeleted \/ EnsureServiceDeleted \/ EnsurePVCDeleted
      PROVE  Agree' /\ Pursues' /\ Outlives'
  <2> USE <1>DeleteChildrenLife
  <2> mode \in Modes /\ rDep \in BOOLEAN
    BY DEF LifeInv, TypeOK, WorkerTypes
  <2>0. /\ UNCHANGED <<ws, cws>> /\ mode # "run" /\ pc \in {"dep", "svc", "pvc"}
        /\ mode = "stop" => pc # "pvc"
    BY Zenon DEF EnsureDeploymentDeleted, EnsureServiceDeleted, EnsurePVCDeleted, LifeInv, Pursues,
           StopSteps
  <2>1. "ws" \in fresh' => "ws" \in fresh
    BY <1>ChangedOther, Zenon DEF EnsureDeploymentDeleted, EnsureServiceDeleted, EnsurePVCDeleted
  <2>2. ASSUME NEW gone \in BOOLEAN
        PROVE  StopVerdict(rDep, gone) \in {"stopped", "error", "stopping", "unexpected"}
    BY DEF StopVerdict
  <2>3. \/ \E q \in BOOLEAN : Return(q)
        \/ /\ UNCHANGED <<mode, rws, rFresh>>
           /\ mode = "stop" => pc' \in {"svc", "stopped", "error", "stopping", "unexpected"}
           /\ mode = "delete" => pc' \in {"svc", "pvc", "check"}
    BY <2>0, <2>2, Zenon DEF EnsureDeploymentDeleted, EnsureServiceDeleted, EnsurePVCDeleted,
       FoundDeployment, FoundService, DeleteFailed, Proceed, Goto, local
  <2>4. {} \in SUBSET Routes
    OBVIOUS
  <2> QED
    BY <2>0, <2>1, <2>3, <2>4, <1>ReturnStep, <1>AdvanceStep DEF StopSteps, DeleteSteps, Modes
<1>AccessLife.
      ASSUME LifeInv, NEW t \in Routes, EnsureAccessResource(t) \/ EnsureAccessResourceDeleted(t)
      PROVE  Agree' /\ Pursues' /\ Outlives'
  <2> USE <1>AccessLife
  <2> rws \in Workspace /\ mode \in Modes
    BY DEF LifeInv, TypeOK, WorkerTypes
  <2>1. UNCHANGED <<ws, cws, fresh>> /\ pc \in {"ensure", "prune"}
    BY Zenon DEF EnsureAccessResource, EnsureAccessResourceDeleted, caches
  <2>2. rws.acc \cup {t} \in SUBSET Routes
    BY EditTypes, Zenon
  <2>3. \/ Return(TRUE)
        \/ /\ UNCHANGED <<mode, rFresh>>
           /\ rws' = rws \/ rws' = [rws EXCEPT !.acc = rws.acc \cup {t}]
           /\ pc' = pc \/ (pc' = "dep" /\ mode # "run")
    BY Zenon DEF EnsureAccessResource, EnsureAccessResourceDeleted
  <2>4. mode = "run" => pc \in RunSteps
    BY <2>1 DEF RunSteps
  <2>5. /\ mode = "stop" => pc \in StopSteps
        /\ mode = "delete" => pc \in DeleteSteps
    BY DEF LifeInv, Pursues
  <2> QED
    BY <2>1, <2>2, <2>3, <2>4, <2>5, <1>ReturnStep, <1>AdvanceStep, Zenon DEF StopSteps, DeleteSteps, Modes
<1>LocalStepLife.
      ASSUME LifeInv,
             GetAccessStrategy \/ EnsureAccessResourcesExist \/ EnsureAccessResourcesDeleted
               \/ CheckWorkspaceIdle \/ AreAllResourcesDeleted
      PROVE  Agree' /\ Pursues' /\ Outlives'
  <2> USE <1>LocalStepLife
  <2> rws \in Workspace /\ mode \in Modes
    BY DEF LifeInv, TypeOK, WorkerTypes
  <2>0. UNCHANGED <<ws, cws, fresh>> /\ pc # "idle"
    BY Zenon DEF GetAccessStrategy, EnsureAccessResourcesExist, EnsureAccessResourcesDeleted,
           CheckWorkspaceIdle, AreAllResourcesDeleted, server, caches
  <2>1. CASE GetAccessStrategy
    <3>1. mode = "run"
      BY ZenonT(30), <2>1 DEF GetAccessStrategy, LifeInv, Pursues, Modes, StopSteps, DeleteSteps
    <3>2. Return(TRUE) \/ (Goto("pvc") /\ UNCHANGED <<mode, rws, rFresh>>)
      BY <2>1, ZenonT(30) DEF GetAccessStrategy
    <3>3. pc \in RunSteps /\ "pvc" \in RunSteps
      BY ZenonT(30), <2>1 DEF GetAccessStrategy, RunSteps
    <3> QED
      BY <2>0, <3>1, <3>2, <3>3, <1>ReturnStep, <1>ProceedStep, ZenonT(30)
  <2>2. CASE EnsureAccessResourcesExist
    <3>1. mode = "run"
      BY <2>2, Zenon DEF EnsureAccessResourcesExist, LifeInv, Pursues, Modes, StopSteps, DeleteSteps
    <3>2. pc \in RunSteps /\ "prune" \in RunSteps
      BY <2>2, Zenon DEF EnsureAccessResourcesExist, RunSteps
    <3>3. Goto("prune") /\ UNCHANGED <<mode, rws, rFresh>>
      BY <2>2 DEF EnsureAccessResourcesExist, Goto
    <3>4. "prune" \notin {"idle", "strategy", "idleCheck", "idleStop"}
      OBVIOUS
    <3> QED
      BY <2>0, <3>1, <3>2, <3>3, <3>4, <1>ProceedStep
  <2>3. CASE EnsureAccessResourcesDeleted
    <3>1. rws.acc \cap Kept \in SUBSET Routes
      BY EditTypes, Zenon
    <3>2. rws' = [rws EXCEPT !.acc = rws.acc \cap Kept]
      BY <2>3 DEF EnsureAccessResourcesDeleted
    <3>3. pc = "prune" /\ UNCHANGED <<mode, rFresh>>
          /\ pc' = IF mode = "run" THEN "running" ELSE "dep"
      BY <2>3, Zenon DEF EnsureAccessResourcesDeleted, Goto
    <3> QED
      BY <2>0, <3>1, <3>2, <3>3, <1>AdvanceStep DEF RunSteps, StopSteps, DeleteSteps
  <2>4. CASE CheckWorkspaceIdle
    <3>1. mode = "run" /\ rws.av /\ pc = "idleCheck"
      BY <2>4 DEF CheckWorkspaceIdle, LifeInv, Pursues, Modes, StopSteps, DeleteSteps
    <3>2. \/ \E q \in BOOLEAN : Return(q)
          \/ Goto("idleStop") /\ UNCHANGED <<mode, rws, rFresh>>
      BY <2>4, Zenon DEF CheckWorkspaceIdle, Proceed, local
    <3>3. {"idleCheck", "idleStop"} \subseteq RunSteps
      BY DEF RunSteps
    <3> QED
      BY <2>0, <3>1, <3>2, <3>3, <1>ReturnStep, <1>ProceedStep, ZenonT(30)
  <2>5. CASE AreAllResourcesDeleted
    <3>1. mode = "delete"
      BY <2>5 DEF AreAllResourcesDeleted, LifeInv, Pursues, Modes, StopSteps, RunSteps
    <3>2. Return(TRUE) \/ (Goto("finalizer") /\ UNCHANGED <<mode, rws, rFresh>>)
      BY <2>5, Zenon DEF AreAllResourcesDeleted, Proceed, local
    <3>3. "finalizer" \in DeleteSteps
      BY DEF DeleteSteps
    <3> QED
      BY <2>0, <3>1, <3>2, <3>3, <1>ReturnStep, <1>ProceedStep, ZenonT(30)
  <2> QED
    BY <2>1, <2>2, <2>3, <2>4, <2>5
<1>EditWorkspaceLife.
      ASSUME LifeInv, NEW new, EditWorkspace(new), Exclusive(new),
             Dying(ws) => Dying(new), ws.exists /\ ws.fin => new.exists /\ new.fin
      PROVE  Agree' /\ Pursues' /\ Outlives'
  <2> USE <1>EditWorkspaceLife
  <2>1. Agree'
    BY ZenonT(30) DEF EditWorkspace, Changed, LifeInv, Agree
  <2>2. Pursues'
    BY DEF EditWorkspace, LifeInv, Pursues, Exclusive
  <2>3. Outlives'
    BY Zenon DEF EditWorkspace, LifeInv, Outlives, Dying, Exclusive
  <2> QED
    BY <2>1, <2>2, <2>3
<1>UsersLife.
      ASSUME LifeInv, Users PROVE Agree' /\ Pursues' /\ Outlives'
  <2> USE <1>UsersLife
  <2> ws \in Workspace /\ Exclusive(ws)
    BY DEF LifeInv, TypeOK, ServerTypes, Outlives
  <2>1. CASE EditSpec
    <3> PICK new : EditWorkspace(new) /\ SameLife(new, ws) /\ Exclusive(new)
      BY <2>1, <1>SpecLife, Zenon DEF EditSpec
    <3> QED
      BY <1>EditWorkspaceLife DEF SameLife, Dying
  <2>2. CASE DeleteWorkspace
    <3>1. CASE ws.fin
      <4>1. LET new == [ws EXCEPT !.deleting = TRUE]
            IN  EditWorkspace(new) /\ Dying(new) /\ new.fin /\ new.exists = ws.exists
                /\ Exclusive(new)
        BY <2>2, <3>1 DEF DeleteWorkspace, Workspace, Dying, Exclusive
      <4> QED
        BY <4>1, <1>EditWorkspaceLife, Zenon
    <3>2. CASE ~ws.fin
      BY <2>2, <3>2, IdleCopy, <1>EditWorkspaceLife DEF DeleteWorkspace
    <3> QED
      BY <3>1, <3>2
  <2>3. CASE (\E s \in Strategies : EditStrategy(s)) \/ Stray
    <3>1. UNCHANGED <<ws, cws, pc, local>>
      BY <2>3 DEF EditStrategy, Stray, Worker, caches
    <3>2. "ws" \in fresh' => "ws" \in fresh
      BY <2>3, <1>ChangedOther DEF EditStrategy, Stray, caches
    <3> QED
      BY <3>1, <3>2, <1>QuietStep
  <2> QED
    BY <2>1, <2>2, <2>3, Zenon DEF Users
<1>EnvironmentLife.
      ASSUME LifeInv, Informers \/ Kubernetes PROVE Agree' /\ Pursues' /\ Outlives'
  <2> USE <1>EnvironmentLife
  <2>1. CASE SyncWorkspace
    <3>1. Agree'
      BY <2>1, Zenon DEF SyncWorkspace, Worker, local, server, LifeInv, Agree
    <3>2. Pursues'
      BY <2>1 DEF SyncWorkspace, Worker, local, LifeInv, Pursues, Exclusive
    <3>3. Outlives'
      BY ZenonT(30), <2>1 DEF SyncWorkspace, Worker, local, server, LifeInv, Outlives, Dying, Exclusive
    <3> QED
      BY <3>1, <3>2, <3>3
  <2>2. CASE SyncDeployment \/ SyncService \/ SyncPVC
             \/ \E s \in Strategies : AccessStrategyEventHandler(s)
    <3>1. UNCHANGED <<ws, cws, pc, local>> /\ ("ws" \in fresh' => "ws" \in fresh)
      BY ZenonT(30), <2>2 DEF SyncDeployment, SyncService, SyncPVC, AccessStrategyEventHandler, server, Worker
    <3> QED
      BY <3>1, <1>QuietStep
  <2>3. CASE Kubernetes
    <3>1. UNCHANGED <<ws, cws, pc, local>>
      BY <2>3, Zenon DEF Kubernetes, DeploymentReady, DeploymentGone, ServiceGone, PVCGone,
                  RouteCollected, Worker, caches
    <3>2. "ws" \in fresh' => "ws" \in fresh
      BY <2>3, <1>ChangedOther DEF Kubernetes, DeploymentReady, DeploymentGone, ServiceGone,
                  PVCGone, RouteCollected, caches
    <3> QED
      BY <3>1, <3>2, <1>QuietStep, Zenon
  <2> QED
    BY <2>1, <2>2, <2>3 DEF Informers
<1>RestartLife.
      ASSUME LifeInv, Restart PROVE Agree' /\ Pursues' /\ Outlives'
  <2> USE <1>RestartLife
  <2>1. UNCHANGED ws /\ cws' = ws /\ mode' = "run" /\ pc' = "idle" /\ rws' = NoWorkspace
        /\ rFresh' = FALSE
    BY DEF Restart, server
  <2>2. Agree'
    BY <2>1 DEF Agree
  <2>3. Pursues'
    BY <2>1, IdleCopy DEF Pursues, RunSteps
  <2>4. Outlives'
    BY ZenonT(30), <2>1 DEF LifeInv, Outlives, Dying, Exclusive, RunSteps
  <2> QED
    BY <2>2, <2>3, <2>4, Zenon
<1> SUFFICES ASSUME LifeInv, [Next]_vars PROVE LifeInv'
  OBVIOUS
<1>1. TypeOK'
  BY TypeStep, Zenon DEF LifeInv, Pursues
<1>2. CASE Reconcile
  BY ZenonT(30), <1>1, <1>2, <1>BeginLife, <1>WriteLife, <1>LongWriteLife, <1>EnsureChildrenLife, <1>DeleteChildrenLife,
     <1>AccessLife, <1>LocalStepLife DEF Reconcile, LifeInv
<1>3. CASE UNCHANGED vars
  BY <1>1, <1>3, <1>QuietStep DEF vars, server, caches, LifeInv
<1> QED
  BY <1>1, <1>2, <1>3, <1>EnvironmentLife, <1>UsersLife, <1>RestartLife DEF Next, LifeInv

LEMMA LifeCorrect == Spec => []LifeInv
BY LifeInit, LifeStep, PTL DEF Spec

\* Every variable of the model keeps its type: the objects on the server, their
\* cached copies, the worker's local state.
THEOREM TypeCorrect == Spec => []TypeOK
<1>1. LifeInv => TypeOK
  BY Zenon DEF LifeInv
<1> QED
  BY <1>1, LifeCorrect, PTL

\* StatusManager: of Available, Progressing and Stopped at most one is true,
\* however status writes, errors and conflicts follow each other.
THEOREM OneConditionCorrect == Spec => []OneCondition
<1>1. LifeInv => OneCondition
  BY DEF LifeInv, Outlives, Exclusive, OneCondition
<1> QED
  BY <1>1, LifeCorrect, PTL
-----------------------------------------------------------------------------
(***************************************************************************)
(* Action properties that follow from the invariant.                       *)
(***************************************************************************)
LEMMA ChildrenFrame ==
  ASSUME \/ ReconcileNothing \/ ReconcileDeletion \/ ReconcileMeta \/ ReconcileStopped
         \/ ReconcileRunning \/ UpdateMeta \/ GetAccessStrategy
         \/ EnsureAccessResourcesExist \/ EnsureAccessResourcesDeleted
         \/ UpdateStartingStatus \/ UpdateStoppingStatus \/ UpdateErrorStatus
         \/ UpdateStoppedStatus \/ UpdateRunningStatus \/ CheckWorkspaceIdle
         \/ StopWorkspaceDueToIdle \/ UpdateDeletingStatus \/ AreAllResourcesDeleted
         \/ RemoveFinalizer \/ Informers \/ EditSpec \/ DeleteWorkspace
         \/ (\E s \in Strategies : EditStrategy(s)) \/ Restart \/ UNCHANGED vars
  PROVE  UNCHANGED <<dep, svc, pvc, routes>>
<1> USE DEF server
<1>1. CASE ReconcileNothing \/ ReconcileDeletion \/ ReconcileMeta \/ ReconcileStopped
           \/ ReconcileRunning
  BY <1>1, Zenon DEF ReconcileNothing, ReconcileDeletion, ReconcileMeta, ReconcileStopped,
              ReconcileRunning, Begin
<1>2. CASE UpdateMeta \/ UpdateStartingStatus \/ UpdateStoppingStatus \/ UpdateErrorStatus
           \/ UpdateStoppedStatus \/ UpdateRunningStatus \/ StopWorkspaceDueToIdle
           \/ UpdateDeletingStatus \/ RemoveFinalizer
  BY <1>2, Zenon DEF UpdateMeta, UpdateStartingStatus, UpdateStoppingStatus, UpdateErrorStatus,
              UpdateStoppedStatus, UpdateRunningStatus, StopWorkspaceDueToIdle,
              UpdateDeletingStatus, RemoveFinalizer, StatusFrame
<1>3. CASE GetAccessStrategy \/ EnsureAccessResourcesExist \/ EnsureAccessResourcesDeleted
           \/ CheckWorkspaceIdle \/ AreAllResourcesDeleted
  BY <1>3, Zenon DEF GetAccessStrategy, EnsureAccessResourcesExist, EnsureAccessResourcesDeleted,
              CheckWorkspaceIdle, AreAllResourcesDeleted
<1>4. CASE Informers
  BY <1>4, Zenon DEF Informers, SyncWorkspace, SyncDeployment, SyncService, SyncPVC,
              AccessStrategyEventHandler
<1>5. CASE EditSpec \/ DeleteWorkspace \/ \E s \in Strategies : EditStrategy(s)
  BY <1>5, ZenonT(30) DEF EditSpec, DeleteWorkspace, EditStrategy, EditWorkspace
<1>6. CASE Restart \/ UNCHANGED vars
  BY <1>6 DEF Restart, vars
<1> QED
  BY <1>1, <1>2, <1>3, <1>4, <1>5, <1>6

\* Where the worker creates children the workspace is alive.
LEMMA CreatorAlive ==
  ASSUME LifeInv,
         \/ EnsurePVCExists \/ EnsureDeploymentExists \/ EnsureServiceExists
         \/ \E t \in Routes : EnsureAccessResource(t)
  PROVE  ws.exists
<1>1. mode = "run" /\ pc \in {"pvc", "dep", "svc", "ensure"}
  BY ZenonT(30) DEF EnsurePVCExists, EnsureDeploymentExists, EnsureServiceExists, EnsureAccessResource,
         LifeInv, TypeOK, WorkerTypes, Modes, Pursues, StopSteps, DeleteSteps
<1> QED
  BY <1>1 DEF LifeInv, Outlives, RunSteps

\* No child is created for a workspace that is gone: the finalizer is in place
\* before the first child is created, and no reconcile that creates children
\* overlaps the one that removes it.
THEOREM NoResurrectionCorrect == Spec => NoResurrection
<1> USE DEF CreatesNothing
<1>1. LifeInv /\ [Next]_vars => [~ws.exists => CreatesNothing]_vars
  <2> SUFFICES ASSUME LifeInv, [Next]_vars, ~ws.exists PROVE CreatesNothing
    BY Zenon
  <2> dep \in Deployment /\ routes \in [Routes -> Route]
    BY DEF LifeInv, TypeOK, ServerTypes
  <2>1. UNCHANGED <<dep, svc, pvc, routes>> => CreatesNothing
    OBVIOUS
  <2>2. CASE EnsureDeploymentDeleted \/ EnsureServiceDeleted \/ EnsurePVCDeleted
    BY <2>2, Zenon DEF EnsureDeploymentDeleted, EnsureServiceDeleted, EnsurePVCDeleted, Deployment
  <2>3. ASSUME NEW t \in Routes, routes' = routes \/ routes' = [routes EXCEPT ![t] = NoRoute]
        PROVE  \A u \in Routes : routes'[u].here => routes[u].here
    BY <2>3 DEF NoRoute
  <2>4. CASE \E t \in Routes : EnsureAccessResourceDeleted(t)
    BY <2>3, <2>4, Zenon DEF EnsureAccessResourceDeleted
  <2>5. CASE Kubernetes
    BY <2>3, <2>5 DEF Kubernetes, DeploymentReady, DeploymentGone, ServiceGone, PVCGone,
                      RouteCollected, NoDeployment, Deployment
  <2>6. CASE Stray
    BY <2>3, <2>6 DEF Stray, Deployment
  <2> QED
    BY ZenonT(30), <2>1, <2>2, <2>4, <2>5, <2>6, ChildrenFrame, CreatorAlive DEF Next, Reconcile, Users
<1> QED
  BY <1>1, LifeCorrect, PTL DEF Spec, NoResurrection

\* EnsurePVCDeleted is reached by deletions only: no stop, however it is
\* interleaved with edits, restarts and stale caches, removes the claim.
THEOREM StorageSurvivesStopCorrect == Spec => StorageSurvivesStop
<1>1. LifeInv /\ [Next]_vars
        => [pvc = "live" /\ pvc' # "live" => ws.deleting \/ ~ws.exists]_vars
  <2> SUFFICES ASSUME LifeInv, [Next]_vars, pvc = "live", pvc' # "live" PROVE Dying(ws)
    BY DEF Dying
  <2>1. CASE EnsurePVCDeleted
    <3>1. mode = "delete"
      BY <2>1, Zenon DEF EnsurePVCDeleted, LifeInv, TypeOK, WorkerTypes, Modes, Pursues, StopSteps
    <3> QED
      BY <3>1, Zenon DEF LifeInv, Outlives
  <2>2. CASE EnsurePVCExists
    BY <2>2 DEF EnsurePVCExists, Created
  <2>3. CASE Kubernetes
    BY <2>3 DEF Kubernetes, DeploymentReady, DeploymentGone, ServiceGone, PVCGone,
                RouteCollected, Dying
  <2>4. CASE EnsureDeploymentExists \/ EnsureServiceExists \/ EnsureDeploymentDeleted
             \/ EnsureServiceDeleted \/ Stray
             \/ \E t \in Routes : EnsureAccessResource(t) \/ EnsureAccessResourceDeleted(t)
    BY <2>4, Zenon DEF EnsureDeploymentExists, EnsureServiceExists, EnsureDeploymentDeleted,
                EnsureServiceDeleted, Stray, EnsureAccessResource, EnsureAccessResourceDeleted
  <2> QED
    BY <2>1, <2>2, <2>3, <2>4, ChildrenFrame DEF Next, Reconcile, Users
<1> QED
  BY <1>1, LifeCorrect, PTL DEF Spec, StorageSurvivesStop

LEMMA WorkspaceFrame ==
  ASSUME [Next]_vars
  PROVE  \/ UNCHANGED ws
         \/ UpdateMeta \/ UpdateStartingStatus \/ UpdateStoppingStatus \/ UpdateErrorStatus
         \/ UpdateStoppedStatus \/ UpdateRunningStatus \/ StopWorkspaceDueToIdle
         \/ UpdateDeletingStatus \/ RemoveFinalizer \/ EditSpec \/ DeleteWorkspace
<1> USE DEF server
<1>1. CASE ReconcileNothing \/ ReconcileDeletion \/ ReconcileMeta \/ ReconcileStopped
           \/ ReconcileRunning
  BY <1>1, Zenon DEF ReconcileNothing, ReconcileDeletion, ReconcileMeta, ReconcileStopped,
              ReconcileRunning, Begin
<1>2. CASE GetAccessStrategy \/ EnsureAccessResourcesExist \/ EnsureAccessResourcesDeleted
           \/ CheckWorkspaceIdle \/ AreAllResourcesDeleted
           \/ \E t \in Routes : EnsureAccessResource(t) \/ EnsureAccessResourceDeleted(t)
  BY <1>2, Zenon DEF GetAccessStrategy, EnsureAccessResourcesExist, EnsureAccessResourcesDeleted,
              CheckWorkspaceIdle, AreAllResourcesDeleted, EnsureAccessResource,
              EnsureAccessResourceDeleted
<1>3. CASE EnsurePVCExists \/ EnsureDeploymentExists \/ EnsureServiceExists
           \/ EnsureDeploymentDeleted \/ EnsureServiceDeleted \/ EnsurePVCDeleted
  BY <1>3, ZenonT(30) DEF EnsurePVCExists, EnsureDeploymentExists, EnsureServiceExists,
              EnsureDeploymentDeleted, EnsureServiceDeleted, EnsurePVCDeleted
<1>4. CASE Informers
  BY ZenonT(30), <1>4 DEF Informers, SyncWorkspace, SyncDeployment, SyncService, SyncPVC,
              AccessStrategyEventHandler
<1>5. CASE Kubernetes
  BY <1>5, Zenon DEF Kubernetes, DeploymentReady, DeploymentGone, ServiceGone, PVCGone,
              RouteCollected
<1>6. CASE Stray \/ Restart \/ UNCHANGED vars \/ \E s \in Strategies : EditStrategy(s)
  BY <1>6 DEF Stray, Restart, vars, EditStrategy
<1> QED
  BY <1>1, <1>2, <1>3, <1>4, <1>5, <1>6 DEF Next, Reconcile, Users

LEMMA WriteEffect ==
  ASSUME NEW new, NEW o, Write(new, o) PROVE ws' = ws \/ (rFresh /\ ws' = new)
BY DEF Write

\* What the nine writers of the worker leave on the server.
LEMMA WriterEffect ==
  ASSUME \/ UpdateMeta \/ UpdateStartingStatus \/ UpdateStoppingStatus \/ UpdateErrorStatus
         \/ UpdateStoppedStatus \/ UpdateRunningStatus \/ StopWorkspaceDueToIdle
         \/ UpdateDeletingStatus \/ RemoveFinalizer
  PROVE  \/ ws' = ws
         \/ /\ rFresh
            /\ \/ ws' = [rws EXCEPT !.fin = TRUE, !.label = rws.ref]
               \/ ws' = StartingStatus(rws)
               \/ ws' = StoppingStatus(rws)
               \/ ws' = ErrorStatus(rws)
               \/ pc = "stopped" /\ ws' = StoppedStatus(rws)
               \/ pc = "running" /\ ws' = RunningStatus(rws)
               \/ pc = "idleStop" /\ ws' = [rws EXCEPT !.desired = "Stopped"]
               \/ ws' = [rws EXCEPT !.del = TRUE]
               \/ ws' = NoWorkspace
BY WriteEffect, Zenon
   DEF UpdateMeta, UpdateStartingStatus, UpdateStoppingStatus, UpdateErrorStatus,
       UpdateStoppedStatus, UpdateRunningStatus, StopWorkspaceDueToIdle,
       UpdateDeletingStatus, RemoveFinalizer

\* Users never touch the conditions.
LEMMA EditEffect ==
  ASSUME LifeInv, EditSpec \/ DeleteWorkspace
  PROVE  /\ edits' # edits
         /\ \/ ws'.av = ws.av /\ ws'.sp = ws.sp
            \/ ws' = NoWorkspace
<1> ws \in Workspace /\ edits \in Nat
  BY DEF LifeInv, TypeOK, ServerTypes, BudgetTypes
<1>1. \A w : EditWorkspace(w) => edits' = edits + 1 /\ ws' = w
  BY DEF EditWorkspace, Edit
<1>2. edits + 1 # edits
  OBVIOUS
<1>3. CASE EditSpec
  <2>1. PICK w : /\ EditWorkspace(w)
                 /\ \/ \E d \in Desired : w = [ws EXCEPT !.desired = d]
                    \/ \E r \in Refs : w = [ws EXCEPT !.ref = r]
                    \/ \E v \in Revs : w = [ws EXCEPT !.rev = v]
    BY <1>3, Zenon DEF EditSpec
  <2>2. w.av = ws.av /\ w.sp = ws.sp
    BY <2>1 DEF Workspace
  <2> QED
    BY <1>1, <1>2, <2>1, <2>2
<1>4. CASE DeleteWorkspace
  BY <1>1, <1>2, <1>4 DEF DeleteWorkspace, Workspace
<1> QED
  BY <1>3, <1>4

LEMMA StatusFields ==
  ASSUME NEW w \in Workspace
  PROVE  /\ ~StartingStatus(w).av /\ ~StartingStatus(w).sp
         /\ ~StoppingStatus(w).av /\ ~StoppingStatus(w).sp
         /\ ~StoppedStatus(w).av /\ ~RunningStatus(w).sp
         /\ ErrorStatus(w).av = w.av /\ ErrorStatus(w).sp = w.sp
         /\ ~NoWorkspace.av /\ ~NoWorkspace.sp
BY DEF Workspace, StartingStatus, StoppingStatus, StoppedStatus, RunningStatus, ErrorStatus,
       Conditions, NoWorkspace, NewWorkspace

\* Available and Stopped are only ever reported against the spec the server
\* holds at that moment, whatever edits raced with the reconcile.
THEOREM StatusMatchesSpecCorrect == Spec => StatusMatchesSpec
<1>1. LifeInv /\ [Next]_vars => [StatusFollowsSpec]_vars
  <2> SUFFICES ASSUME LifeInv, [Next]_vars PROVE StatusFollowsSpec
    OBVIOUS
  <2> rws \in Workspace /\ ws \in Workspace
    BY DEF LifeInv, TypeOK, ServerTypes, WorkerTypes
  <2>1. CASE UNCHANGED ws
    BY <2>1 DEF StatusFollowsSpec
  <2>2. CASE EditSpec \/ DeleteWorkspace
    BY ZenonT(30), <2>2, EditEffect, StatusFields DEF StatusFollowsSpec
  <2>3. CASE rFresh /\ pc = "stopped" /\ ws' = StoppedStatus(rws)
    <3>1. mode = "stop"
      BY <2>3 DEF LifeInv, TypeOK, WorkerTypes, Modes, Pursues, RunSteps, DeleteSteps
    <3> QED
      BY <2>3, <3>1, FreshCopy, StatusFields, Zenon DEF StatusFollowsSpec, LifeInv, Pursues
  <2>4. CASE rFresh /\ pc = "running" /\ ws' = RunningStatus(rws)
    <3>1. mode = "run" /\ pc \in RunSteps
      BY <2>4 DEF LifeInv, TypeOK, WorkerTypes, Modes, Pursues, StopSteps, DeleteSteps, RunSteps
    <3> QED
      BY <2>4, <3>1, FreshCopy, StatusFields, Zenon DEF StatusFollowsSpec, LifeInv, Pursues
  <2>5. ASSUME rFresh,
               \/ ws' = [rws EXCEPT !.fin = TRUE, !.label = rws.ref]
               \/ ws' = StartingStatus(rws) \/ ws' = StoppingStatus(rws)
               \/ ws' = ErrorStatus(rws) \/ ws' = [rws EXCEPT !.desired = "Stopped"]
               \/ ws' = [rws EXCEPT !.del = TRUE] \/ ws' = NoWorkspace
        PROVE  StatusFollowsSpec
    <3>1. (ws'.av => rws.av) /\ (ws'.sp => rws.sp)
      <4>1. CASE ws' = [rws EXCEPT !.fin = TRUE, !.label = rws.ref]
                 \/ ws' = [rws EXCEPT !.desired = "Stopped"] \/ ws' = [rws EXCEPT !.del = TRUE]
        BY <4>1, Zenon DEF Workspace
      <4>2. CASE ws' = StartingStatus(rws) \/ ws' = StoppingStatus(rws)
                 \/ ws' = ErrorStatus(rws) \/ ws' = NoWorkspace
        <5>1. /\ ~StartingStatus(rws).av /\ ~StartingStatus(rws).sp
              /\ ~StoppingStatus(rws).av /\ ~StoppingStatus(rws).sp
              /\ ErrorStatus(rws).av = rws.av /\ ErrorStatus(rws).sp = rws.sp
              /\ ~NoWorkspace.av /\ ~NoWorkspace.sp
          BY ZenonT(30), StatusFields
        <5>2. CASE ws' = StartingStatus(rws) \/ ws' = StoppingStatus(rws) \/ ws' = NoWorkspace
          BY <5>1, <5>2, Zenon
        <5>3. CASE ws' = ErrorStatus(rws)
          BY <5>1, <5>3
        <5> QED
          BY <4>2, <5>2, <5>3
      <4> QED
        BY <2>5, <4>1, <4>2
    <3> QED
      BY <2>5, <3>1, FreshCopy DEF StatusFollowsSpec
  <2> QED
    BY <2>1, <2>2, <2>3, <2>4, <2>5, WorkspaceFrame, WriterEffect
<1> QED
  BY <1>1, LifeCorrect, PTL DEF Spec, StatusMatchesSpec

\* The worker never overwrites a user's spec: its only spec write, the idle
\* stop, is refused once anybody has edited the workspace it was decided on.
THEOREM SpecOnlyFromUsersCorrect == Spec => SpecOnlyFromUsers
<1>1. LifeInv /\ [Next]_vars => [SpecKept]_vars
  <2> SUFFICES ASSUME LifeInv, [Next]_vars PROVE SpecKept
    OBVIOUS
  <2> rws \in Workspace /\ ws \in Workspace /\ Exclusive(rws)
    BY DEF LifeInv, TypeOK, ServerTypes, WorkerTypes, Pursues
  <2>1. CASE UNCHANGED ws
    BY <2>1, Zenon DEF SpecKept
  <2>2. CASE EditSpec \/ DeleteWorkspace
    BY <2>2, EditEffect DEF SpecKept
  <2>3. ASSUME rFresh,
               ws' \in {StartingStatus(rws), RunningStatus(rws), StoppingStatus(rws),
                        StoppedStatus(rws), ErrorStatus(rws), [rws EXCEPT !.del = TRUE]}
        PROVE  SpecKept
    BY <2>3, FreshCopy, StatusLife, Zenon DEF SpecKept
  <2>4. CASE rFresh /\ ws' = [rws EXCEPT !.fin = TRUE, !.label = rws.ref]
    <3>1. ws'.rev = rws.rev /\ ws'.ref = rws.ref /\ ws'.desired = rws.desired
      BY <2>4 DEF Workspace
    <3> QED
      BY <2>4, <3>1, FreshCopy DEF SpecKept
  <2>5. CASE rFresh /\ pc = "idleStop" /\ ws' = [rws EXCEPT !.desired = "Stopped"]
    <3>1. ws'.rev = rws.rev /\ ws'.ref = rws.ref /\ rws.av
      BY <2>5 DEF Workspace, LifeInv, Pursues
    <3> QED
      BY <2>5, <3>1, FreshCopy, Zenon DEF SpecKept
  <2>6. CASE ws' = NoWorkspace
    BY <2>6, IdleCopy DEF SpecKept
  <2> QED
    BY <2>1, <2>2, <2>3, <2>4, <2>5, <2>6, WorkspaceFrame, WriterEffect, Zenon
<1> QED
  BY <1>1, LifeCorrect, PTL DEF Spec, SpecOnlyFromUsers
============================================================================
