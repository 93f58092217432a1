------------------------- MODULE WorkspaceLifecycle -------------------------
(***************************************************************************)
(* One Workspace key under the operator: the single reconcile worker, the  *)
(* API server it writes to, the informer caches it reads from, and what    *)
(* users and Kubernetes do meanwhile.  A step of the worker is one API     *)
(* call together with the cached reads and local work around it, so any    *)
(* other actor may move between two calls of one reconcile.                *)
(***************************************************************************)
EXTENDS Naturals, FiniteSets

CONSTANTS
  Strategies,     \* WorkspaceAccessStrategy objects
  None,           \* "no access strategy referenced"
  Routes,         \* names of access resources a strategy may template
  Templates,      \* [Strategies -> SUBSET Routes], the initial templates
  TemplateSets,   \* the template sets a strategy edit may leave behind
  Revs,           \* pod-spec revisions of the workspace
  FirstRev,
  FirstDesired,   \* what spec.desiredStatus a workspace may be created with
  FirstRefs,      \* and which spec.accessStrategy
  UsesStorage,    \* spec.storage is set
  IdleShutdown,   \* spec.idleShutdown.enabled
  Strays,         \* what may fail or be deleted by others: "pod", "dep", "svc", "route"
  MaxEdits,       \* user edits (spec, strategy, delete, stray deletes)
  MaxCrashes,     \* operator restarts
  MaxFaults       \* API calls that fail or whose answer is lost

ASSUME ConstantsAssumption ==
  /\ None \notin Strategies
  /\ Templates \in [Strategies -> SUBSET Routes]
  /\ TemplateSets \subseteq SUBSET Routes
  /\ FirstRev \in Revs
  /\ FirstDesired \subseteq {"Running", "Stopped"} /\ FirstRefs \subseteq Strategies \cup {None}
  /\ UsesStorage \in BOOLEAN /\ IdleShutdown \in BOOLEAN
  /\ MaxEdits \in Nat /\ MaxCrashes \in Nat /\ MaxFaults \in Nat

VARIABLES
  \* the API server
  ws, dep, svc, pvc, routes, strat,
  \* the informer caches; fresh: those holding the server's resourceVersion
  cws, cdep, csvc, cpvc, cstrat, fresh,
  \* the workqueue and the worker; rFresh: rws has the server's resourceVersion
  queued, pc, mode, rws, rFresh, want, todo, rDep, rSvc, rErr,
  \* budgets spent
  edits, crashes, faults

server == <<ws, dep, svc, pvc, routes, strat>>
caches == <<cws, cdep, csvc, cpvc, cstrat, fresh>>
local  == <<mode, rws, rFresh, want, todo, rDep, rSvc, rErr>>
vars   == <<server, caches, queued, pc, local, edits, crashes, faults>>

Refs == Strategies \cup {None}
Desired == {"Running", "Stopped"}

(***************************************************************************)
(* The objects.  av, pr, dg, sp and del are the conditions Available,      *)
(* Progressing, Degraded, Stopped and Deleting; acc is                     *)
(* status.accessResources, the access resources the workspace tracks.      *)
(***************************************************************************)
Workspace ==
  [exists: BOOLEAN, deleting: BOOLEAN, fin: BOOLEAN, label: Refs,
   desired: Desired, ref: Refs, rev: Revs,
   av: BOOLEAN, pr: BOOLEAN, dg: BOOLEAN, sp: BOOLEAN, del: BOOLEAN,
   acc: SUBSET Routes]

NewWorkspace(d, r) ==
  [exists |-> TRUE, deleting |-> FALSE, fin |-> FALSE, label |-> None,
   desired |-> d, ref |-> r, rev |-> FirstRev,
   av |-> FALSE, pr |-> FALSE, dg |-> FALSE, sp |-> FALSE, del |-> FALSE,
   acc |-> {}]

NoWorkspace == [NewWorkspace("Stopped", None) EXCEPT !.exists = FALSE]

\* A Deployment is built from a revision of the workspace and one version of
\* its strategy, an access resource from one version of one strategy.
Deployment ==
  [here: BOOLEAN, ready: BOOLEAN, term: BOOLEAN, rev: Revs, from: Refs, ver: Nat]

NoDeployment ==
  [here |-> FALSE, ready |-> FALSE, term |-> FALSE,
   rev |-> FirstRev, from |-> None, ver |-> 0]

Route == [here: BOOLEAN, owned: BOOLEAN, from: Refs, ver: Nat]
NoRoute == [here |-> FALSE, owned |-> FALSE, from |-> None, ver |-> 0]

Watched == {"ws", "dep", "svc", "pvc"}

Child == {"absent", "live", "deleting"}

Strategy == [ver: Nat, tpl: SUBSET Routes]

\* The strategy a running reconcile works from.
Want == [from: Refs, ver: Nat, tpl: SUBSET Routes]
NoWant == [from |-> None, ver |-> 0, tpl |-> {}]

Init ==
  /\ \E d \in FirstDesired, r \in FirstRefs : ws = NewWorkspace(d, r)
  /\ dep = NoDeployment /\ svc = "absent" /\ pvc = "absent"
  /\ routes = [t \in Routes |-> NoRoute]
  /\ strat = [s \in Strategies |-> [ver |-> 0, tpl |-> Templates[s]]]
  /\ cws = NoWorkspace /\ fresh = {"dep", "svc", "pvc"}
  /\ cdep = dep /\ csvc = svc /\ cpvc = pvc /\ cstrat = strat
  /\ queued = FALSE /\ pc = "idle" /\ mode = "run"
  /\ rws = NoWorkspace /\ rFresh = FALSE /\ want = NoWant /\ todo = {}
  /\ rDep = FALSE /\ rSvc = FALSE /\ rErr = FALSE
  /\ edits = 0 /\ crashes = 0 /\ faults = 0
-------------------------------------------------------------------------------
(***************************************************************************)
(* API calls.  A call is answered, refused before it takes effect, or      *)
(* takes effect with its answer lost.  An update is refused as a conflict  *)
(* unless it carries the server's resourceVersion; one that changes        *)
(* nothing makes no new version.                                           *)
(***************************************************************************)
Replies == {"ok"} \cup (IF faults < MaxFaults THEN {"refused", "lost"} ELSE {})

Spend(o) == faults' = IF o = "ok" THEN faults ELSE faults + 1

Changed(c, new, old) == fresh' = IF new = old THEN fresh ELSE fresh \ {c}

\* Mutant: updates without a resourceVersion, last writer wins.
WriteUnversioned(new, o) ==
  /\ ws' = IF ws.exists /\ o # "refused" THEN new ELSE ws
  /\ Changed("ws", ws', ws)

Write(new, o) ==
  /\ ws' = IF rFresh /\ o # "refused" THEN new ELSE ws
  /\ Changed("ws", ws', ws)

Wrote(o) == rFresh /\ o = "ok"

\* Reconcile returns; requeue: with an error or a RequeueAfter.
Return(requeue) ==
  /\ pc' = "idle" /\ queued' = (queued \/ requeue)
  /\ mode' = "run" /\ rws' = NoWorkspace /\ rFresh' = FALSE
  /\ want' = NoWant /\ todo' = {}
  /\ rDep' = FALSE /\ rSvc' = FALSE /\ rErr' = FALSE

Goto(p) == pc' = p /\ UNCHANGED queued
-------------------------------------------------------------------------------
(***************************************************************************)
(* WorkspaceReconciler.Reconcile: read the cached workspace and branch.    *)
(***************************************************************************)
Begin(p, m, t) ==
  /\ pc = "idle" /\ queued
  /\ pc' = p /\ queued' = FALSE
  /\ mode' = m /\ rws' = cws /\ todo' = t
  /\ rFresh' = IF "ws" \in fresh THEN TRUE ELSE FALSE
  /\ UNCHANGED <<server, caches, want, rDep, rSvc, rErr, edits, crashes, faults>>

\* Mutant: work starts before the finalizer is in place.
NeedsMetaNoFinalizer(w) == w.label # w.ref

NeedsMeta(w) == ~w.fin \/ w.label # w.ref

ReconcileNothing ==
  /\ pc = "idle" /\ queued
  /\ ~cws.exists \/ (cws.deleting /\ ~cws.fin)
  /\ queued' = FALSE
  /\ UNCHANGED <<server, caches, pc, local, edits, crashes, faults>>

ReconcileDeletion ==
  cws.exists /\ cws.deleting /\ cws.fin /\ Begin("deleting", "delete", {})

ReconcileMeta ==
  cws.exists /\ ~cws.deleting /\ NeedsMeta(cws) /\ Begin("meta", "run", {})

ReconcileStopped ==
  /\ cws.exists /\ ~cws.deleting /\ ~NeedsMeta(cws) /\ cws.desired = "Stopped"
  /\ Begin("prune", "stop", cws.acc)

ReconcileRunning ==
  /\ cws.exists /\ ~cws.deleting /\ ~NeedsMeta(cws) /\ cws.desired = "Running"
  /\ Begin(IF cws.ref = None THEN "pvc" ELSE "strategy", "run", {})

\* One update carries the finalizer and the labels; both outcomes requeue.
UpdateMeta ==
  /\ pc = "meta"
  /\ \E o \in Replies :
       Spend(o) /\ Write([rws EXCEPT !.fin = TRUE, !.label = rws.ref], o)
  /\ Return(TRUE)
  /\ UNCHANGED <<dep, svc, pvc, routes, strat, cws, cdep, csvc, cpvc, cstrat,
                 edits, crashes>>

\* The strategy is read from the cache; a failed read ends the reconcile
\* without a status.
GetAccessStrategy ==
  /\ pc = "strategy"
  /\ \E o \in Replies :
       /\ Spend(o)
       /\ IF o = "ok"
          THEN /\ want' = [from |-> rws.ref, ver |-> cstrat[rws.ref].ver,
                           tpl |-> cstrat[rws.ref].tpl]
               /\ Goto("pvc")
               /\ UNCHANGED <<mode, rws, rFresh, todo, rDep, rSvc, rErr>>
          ELSE Return(TRUE)
  /\ UNCHANGED <<server, caches, edits, crashes>>
-------------------------------------------------------------------------------
(***************************************************************************)
(* The children while the workspace should run: create what the cache does *)
(* not show, update it only when the workspace is already Available.  A    *)
(* cached object that is stale makes Create fail (already exists) and      *)
(* Update fail (conflict or not found).                                    *)
(***************************************************************************)
Proceed(p) == Goto(p) /\ UNCHANGED local

Created(c, o) == IF c = "absent" /\ o # "refused" THEN "live" ELSE c

EnsurePVCExists ==
  /\ pc = "pvc" /\ mode = "run"
  /\ \/ /\ ~UsesStorage \/ cpvc # "absent"
        /\ Proceed("dep") /\ UNCHANGED <<pvc, faults>>
     \/ /\ UsesStorage /\ cpvc = "absent"
        /\ \E o \in Replies :
             /\ Spend(o) /\ pvc' = Created(pvc, o)
             /\ Proceed(IF pvc = "absent" /\ o = "ok" THEN "dep" ELSE "error")
     \/ /\ UsesStorage /\ cpvc # "absent" /\ rws.av
        /\ \E o \in Replies :
             /\ Spend(o) /\ UNCHANGED pvc
             /\ Proceed(IF "pvc" \in fresh /\ o = "ok" THEN "dep" ELSE "error")
  /\ Changed("pvc", pvc', pvc)
  /\ UNCHANGED <<ws, dep, svc, routes, strat, cws, cdep, csvc, cpvc, cstrat,
                 edits, crashes>>

\* The Deployment a reconcile builds on top of the one it found.
Built(d) ==
  [d EXCEPT !.here = TRUE, !.rev = rws.rev, !.from = want.from, !.ver = want.ver]

UseDeployment(ready) ==
  /\ rDep' = ready
  /\ Goto("svc") /\ UNCHANGED <<mode, rws, rFresh, want, todo, rSvc, rErr>>

EnsureDeploymentExists ==
  /\ pc = "dep" /\ mode = "run"
  /\ \/ /\ ~cdep.here                                     \* createDeployment
        /\ \E o \in Replies :
             /\ Spend(o)
             /\ dep' = IF ~dep.here /\ o # "refused" THEN Built(NoDeployment) ELSE dep
             /\ IF ~dep.here /\ o = "ok" THEN UseDeployment(FALSE)
                ELSE Proceed("error")
     \/ /\ cdep.here /\ (rws.av => cdep = Built(cdep))      \* left as it is
        /\ UseDeployment(cdep.ready)
        /\ UNCHANGED <<dep, faults>>
     \/ /\ cdep.here /\ rws.av                             \* updateDeployment
        /\ \E o \in Replies :
             /\ Spend(o)
             /\ dep' = IF "dep" \in fresh /\ o # "refused" THEN Built(dep) ELSE dep
             /\ IF "dep" \in fresh /\ o = "ok" THEN UseDeployment(cdep.ready)
                ELSE Proceed("error")
  /\ Changed("dep", dep', dep)
  /\ UNCHANGED <<ws, svc, pvc, routes, strat, cws, cdep, csvc, cpvc, cstrat,
                 edits, crashes>>

\* A Service of type ClusterIP is available as soon as it exists, so the
\* Deployment decides whether the workspace is running or still starting.
UseService ==
  /\ pc' = IF ~rDep THEN "starting" ELSE IF rws.ref # None THEN "ensure" ELSE "prune"
  /\ todo' = IF ~rDep THEN {} ELSE IF rws.ref # None THEN want.tpl ELSE rws.acc
  /\ UNCHANGED <<queued, mode, rws, rFresh, want, rDep, rSvc, rErr>>

EnsureServiceExists ==
  /\ pc = "svc" /\ mode = "run"
  /\ \/ /\ csvc = "absent"                                 \* createService
        /\ \E o \in Replies :
             /\ Spend(o) /\ svc' = Created(svc, o)
             /\ IF svc = "absent" /\ o = "ok" THEN UseService ELSE Proceed("error")
     \/ /\ csvc # "absent"
        /\ UseService /\ UNCHANGED <<svc, faults>>
     \/ /\ csvc # "absent" /\ rws.av                       \* updateService
        /\ \E o \in Replies :
             /\ Spend(o) /\ UNCHANGED svc
             /\ IF "svc" \in fresh /\ o = "ok" THEN UseService ELSE Proceed("error")
  /\ Changed("svc", svc', svc)
  /\ UNCHANGED <<ws, dep, pvc, routes, strat, cws, cdep, csvc, cpvc, cstrat,
                 edits, crashes>>
-------------------------------------------------------------------------------
(***************************************************************************)
(* Access resources.  They are read live.  One that status tracks is       *)
(* updated in place, without the owner reference (ensureAccessResource-    *)
(* Exists, case 1); one that status does not track is created, or adopted  *)
(* with an owner reference when it is already there (case 2).              *)
(***************************************************************************)
Wanted(owner) == [here |-> TRUE, owned |-> owner, from |-> want.from, ver |-> want.ver]


UpToDate(t) == routes[t].from = want.from /\ routes[t].ver = want.ver

EnsureAccessResource(t) ==
  /\ pc = "ensure" /\ t \in todo
  /\ LET inPlace == t \in rws.acc /\ routes[t].here
     IN  \E o \in Replies :
           /\ Spend(o)
           /\ routes' =
                IF o = "refused" \/ (inPlace /\ UpToDate(t)) THEN routes
                ELSE [routes EXCEPT ![t] = Wanted(~inPlace)]
           /\ IF o = "ok"
              THEN /\ todo' = todo \ {t} /\ rws' = [rws EXCEPT !.acc = @ \cup {t}]
                   /\ UNCHANGED <<pc, queued, mode, rFresh, want, rDep, rSvc, rErr>>
              ELSE Return(TRUE)
  /\ UNCHANGED <<ws, dep, svc, pvc, strat, caches, edits, crashes>>

\* What the tracked list keeps: the templates of the strategy, or nothing.
Kept == IF mode = "run" THEN want.tpl ELSE {}

EnsureAccessResourcesExist ==
  /\ pc = "ensure" /\ todo = {}
  /\ pc' = "prune" /\ todo' = rws.acc \ Kept
  /\ UNCHANGED <<server, caches, queued, mode, rws, rFresh, want, rDep, rSvc, rErr,
                 edits, crashes, faults>>

\* Mutant: a failed delete is forgotten by the tracked list.
EnsureAccessResourceDeletedForget(t) ==
  /\ pc = "prune" /\ t \in todo
  /\ \E o \in Replies :
       /\ Spend(o)
       /\ routes' = IF o = "refused" THEN routes ELSE [routes EXCEPT ![t] = NoRoute]
       /\ IF o = "ok"
          THEN /\ todo' = todo \ {t}
               /\ UNCHANGED <<pc, queued, mode, rws, rFresh, want, rDep, rSvc, rErr>>
          ELSE IF mode = "run" THEN Return(TRUE)
          ELSE /\ pc' = "dep" /\ todo' = {} /\ rErr' = TRUE
               /\ rws' = [rws EXCEPT !.acc = {}]
               /\ UNCHANGED <<queued, mode, rFresh, want, rDep, rSvc>>
  /\ UNCHANGED <<ws, dep, svc, pvc, strat, caches, edits, crashes>>

\* A failure ends a running reconcile; a stop or a deletion goes on and the
\* tracked list stays whole.
EnsureAccessResourceDeleted(t) ==
  /\ pc = "prune" /\ t \in todo
  /\ \E o \in Replies :
       /\ Spend(o)
       /\ routes' = IF o = "refused" THEN routes ELSE [routes EXCEPT ![t] = NoRoute]
       /\ IF o = "ok"
          THEN /\ todo' = todo \ {t}
               /\ UNCHANGED <<pc, queued, mode, rws, rFresh, want, rDep, rSvc, rErr>>
          ELSE IF mode = "run" THEN Return(TRUE)
          ELSE /\ pc' = "dep" /\ todo' = {} /\ rErr' = TRUE
               /\ UNCHANGED <<queued, mode, rws, rFresh, want, rDep, rSvc>>
  /\ UNCHANGED <<ws, dep, svc, pvc, strat, caches, edits, crashes>>

EnsureAccessResourcesDeleted ==
  /\ pc = "prune" /\ todo = {}
  /\ rws' = [rws EXCEPT !.acc = @ \cap Kept]
  /\ Goto(IF mode = "run" THEN "running" ELSE "dep")
  /\ UNCHANGED <<server, caches, mode, rFresh, want, todo, rDep, rSvc, rErr,
                 edits, crashes, faults>>
-------------------------------------------------------------------------------
(***************************************************************************)
(* The children of a workspace that stops or is deleted.  What counts as   *)
(* gone is the object read before the delete call, so an object deleted by *)
(* this very reconcile still counts as there.                              *)
(***************************************************************************)
\* Mutant: a stop goes on to delete the claim as well.
StopVerdictStorage(depGone, svcGone) ==
  CASE depGone /\ svcGone /\ ~rErr -> "pvc"
    [] depGone /\ svcGone /\ rErr  -> "error"
    [] depGone # svcGone           -> "stopping"
    [] ~depGone /\ ~svcGone        -> "unexpected"

\* Mutant: a verdict that no branch handles.
StopVerdictWaiting(depGone, svcGone) ==
  IF depGone /\ svcGone THEN IF rErr THEN "error" ELSE "stopped" ELSE "waiting"

\* reconcileDesiredStoppedStatus after both delete calls.
StopVerdict(depGone, svcGone) ==
  CASE depGone /\ svcGone /\ ~rErr -> "stopped"
    [] depGone /\ svcGone /\ rErr  -> "error"
    [] depGone # svcGone           -> "stopping"
    [] ~depGone /\ ~svcGone        -> "unexpected"

FoundDeployment(gone) ==
  /\ rDep' = gone /\ Goto("svc")
  /\ UNCHANGED <<mode, rws, rFresh, want, todo, rSvc, rErr>>

FoundService(gone) ==
  /\ rSvc' = gone /\ Goto(IF mode = "stop" THEN StopVerdict(rDep, gone) ELSE "pvc")
  /\ UNCHANGED <<mode, rws, rFresh, want, todo, rDep, rErr>>

\* Mutant: a failed delete is reported but not retried.
DeleteFailedSilently == IF mode = "stop" THEN Proceed("error") ELSE Return(FALSE)

DeleteFailed == IF mode = "stop" THEN Proceed("error") ELSE Return(TRUE)

EnsureDeploymentDeleted ==
  /\ pc = "dep" /\ mode # "run"
  /\ \/ /\ ~cdep.here \/ cdep.term
        /\ FoundDeployment(TRUE) /\ UNCHANGED <<dep, faults>>
     \/ /\ cdep.here /\ ~cdep.term
        /\ \E o \in Replies :
             /\ Spend(o)
             /\ IF dep.here /\ o # "refused"
                THEN dep' = [dep EXCEPT !.term = TRUE] ELSE UNCHANGED dep
             /\ IF dep.here /\ o = "ok" THEN FoundDeployment(FALSE)
                ELSE DeleteFailed
  /\ Changed("dep", dep', dep)
  /\ UNCHANGED <<ws, svc, pvc, routes, strat, cws, cdep, csvc, cpvc, cstrat,
                 edits, crashes>>

EnsureServiceDeleted ==
  /\ pc = "svc" /\ mode # "run"
  /\ \/ /\ csvc # "live"
        /\ FoundService(TRUE) /\ UNCHANGED <<svc, faults>>
     \/ /\ csvc = "live"
        /\ \E o \in Replies :
             /\ Spend(o)
             /\ IF svc # "absent" /\ o # "refused"
                THEN svc' = "deleting" ELSE UNCHANGED svc
             /\ IF svc # "absent" /\ o = "ok"
                THEN FoundService(FALSE)
                ELSE DeleteFailed
  /\ Changed("svc", svc', svc)
  /\ UNCHANGED <<ws, dep, pvc, routes, strat, cws, cdep, csvc, cpvc, cstrat,
                 edits, crashes>>

\* Only a deletion comes here.
EnsurePVCDeleted ==
  /\ pc = "pvc" /\ mode # "run"
  /\ \/ cpvc # "live" /\ Proceed("check") /\ UNCHANGED <<pvc, faults>>
     \/ /\ cpvc = "live"
        /\ \E o \in Replies :
             /\ Spend(o)
             /\ IF pvc # "absent" /\ o # "refused"
                THEN pvc' = "deleting" ELSE UNCHANGED pvc
             /\ IF pvc # "absent" /\ o = "ok" THEN Proceed("check") ELSE Return(TRUE)
  /\ Changed("pvc", pvc', pvc)
  /\ UNCHANGED <<ws, dep, svc, routes, strat, cws, cdep, csvc, cpvc, cstrat,
                 edits, crashes>>
-------------------------------------------------------------------------------
(***************************************************************************)
(* StatusManager: the conditions each status sets.                         *)
(***************************************************************************)
Conditions(w, av, pr, sp) ==
  [w EXCEPT !.av = av, !.pr = pr, !.dg = FALSE, !.sp = sp]

\* Mutant: starting leaves Stopped as it was.
StartingStatusKeepsStopped(w) == [w EXCEPT !.av = FALSE, !.pr = TRUE, !.dg = FALSE]

StartingStatus(w) == Conditions(w, FALSE, TRUE, FALSE)
RunningStatus(w)  == Conditions(w, TRUE, FALSE, FALSE)
StoppingStatus(w) == Conditions(w, FALSE, TRUE, FALSE)
StoppedStatus(w)  == Conditions(w, FALSE, FALSE, TRUE)
ErrorStatus(w)    == [w EXCEPT !.dg = TRUE]

StatusFrame == UNCHANGED <<dep, svc, pvc, routes, strat, cws, cdep, csvc, cpvc, cstrat,
                           edits, crashes>>

\* Both requeue whatever the write's outcome.
UpdateStartingStatus ==
  /\ pc = "starting"
  /\ \E o \in Replies : Spend(o) /\ Write(StartingStatus(rws), o)
  /\ Return(TRUE) /\ StatusFrame

UpdateStoppingStatus ==
  /\ pc = "stopping"
  /\ \E o \in Replies : Spend(o) /\ Write(StoppingStatus(rws), o)
  /\ Return(TRUE) /\ StatusFrame

UpdateErrorStatus ==
  /\ pc \in {"error", "unexpected"}
  /\ \E o \in Replies : Spend(o) /\ Write(ErrorStatus(rws), o)
  /\ Return(TRUE) /\ StatusFrame

UpdateStoppedStatus ==
  /\ pc = "stopped"
  /\ \E o \in Replies :
       Spend(o) /\ Write(StoppedStatus(rws), o) /\ Return(~Wrote(o))
  /\ StatusFrame

UpdateRunningStatus ==
  /\ pc = "running"
  /\ \E o \in Replies :
       /\ Spend(o) /\ Write(RunningStatus(rws), o)
       /\ IF Wrote(o) /\ IdleShutdown
          THEN /\ rws' = RunningStatus(rws) /\ Goto("idleCheck")
               /\ UNCHANGED <<mode, rFresh, want, todo, rDep, rSvc, rErr>>
          ELSE Return(~Wrote(o))
  /\ StatusFrame

\* handleIdleShutdownForRunningWorkspace: the pod's answer is idle, a reason
\* to look again later, or an error that is not retried.
CheckWorkspaceIdle ==
  /\ pc = "idleCheck"
  /\ Proceed("idleStop") \/ Return(TRUE) \/ Return(FALSE)
  /\ UNCHANGED <<server, caches, edits, crashes, faults>>

StopWorkspaceDueToIdle ==
  /\ pc = "idleStop"
  /\ \E o \in Replies : Spend(o) /\ Write([rws EXCEPT !.desired = "Stopped"], o)
  /\ Return(TRUE) /\ StatusFrame

(***************************************************************************)
(* StateMachine.ReconcileDeletion around CleanupAllResources.              *)
(***************************************************************************)
UpdateDeletingStatus ==
  /\ pc = "deleting"
  /\ \E o \in Replies :
       LET new == [rws EXCEPT !.del = TRUE]
       IN  /\ Spend(o) /\ Write(new, o)
           /\ IF Wrote(o)
              THEN /\ rws' = new /\ todo' = rws.acc /\ Goto("prune")
                   /\ UNCHANGED <<mode, rFresh, want, rDep, rSvc, rErr>>
              ELSE Return(TRUE)
  /\ StatusFrame

\* Mutant: tracked access resources do not hold the finalizer back.
AreAllResourcesDeletedButRoutes ==
  /\ pc = "check"
  /\ IF ~cdep.here /\ csvc = "absent" /\ cpvc = "absent"
     THEN Proceed("finalizer") ELSE Return(TRUE)
  /\ UNCHANGED <<server, caches, edits, crashes, faults>>

AreAllResourcesDeleted ==
  /\ pc = "check"
  /\ IF ~cdep.here /\ csvc = "absent" /\ cpvc = "absent" /\ rws.acc = {}
     THEN Proceed("finalizer") ELSE Return(TRUE)
  /\ UNCHANGED <<server, caches, edits, crashes, faults>>

\* The last finalizer gone, the server removes the workspace.
RemoveFinalizer ==
  /\ pc = "finalizer"
  /\ \E o \in Replies : Spend(o) /\ Write(NoWorkspace, o) /\ Return(~Wrote(o))
  /\ StatusFrame
-------------------------------------------------------------------------------
(***************************************************************************)
(* Kubernetes: informers, workload controllers and the garbage collector.  *)
(* A cache jumps to the server's current object and the event enqueues     *)
(* the workspace; a strategy's event does so only for a workspace whose    *)
(* cached label and reference both name it.                                *)
(***************************************************************************)
Budgets == UNCHANGED <<edits, crashes, faults>>
Worker  == UNCHANGED <<pc, local>>

SyncWorkspace ==
  /\ "ws" \notin fresh
  /\ cws' = ws /\ fresh' = fresh \cup {"ws"} /\ queued' = TRUE
  /\ UNCHANGED <<server, cdep, csvc, cpvc, cstrat>> /\ Worker /\ Budgets

\* Mutant: the controller does not own Deployments.
SyncDeploymentUnwatched ==
  /\ "dep" \notin fresh
  /\ cdep' = dep /\ fresh' = fresh \cup {"dep"} /\ UNCHANGED queued
  /\ UNCHANGED <<server, cws, csvc, cpvc, cstrat>> /\ Worker /\ Budgets

SyncDeployment ==
  /\ "dep" \notin fresh
  /\ cdep' = dep /\ fresh' = fresh \cup {"dep"} /\ queued' = TRUE
  /\ UNCHANGED <<server, cws, csvc, cpvc, cstrat>> /\ Worker /\ Budgets

SyncService ==
  /\ "svc" \notin fresh
  /\ csvc' = svc /\ fresh' = fresh \cup {"svc"} /\ queued' = TRUE
  /\ UNCHANGED <<server, cws, cdep, cpvc, cstrat>> /\ Worker /\ Budgets

SyncPVC ==
  /\ "pvc" \notin fresh
  /\ cpvc' = pvc /\ fresh' = fresh \cup {"pvc"} /\ queued' = TRUE
  /\ UNCHANGED <<server, cws, cdep, csvc, cstrat>> /\ Worker /\ Budgets

AccessStrategyEventHandler(s) ==
  /\ cstrat[s] # strat[s]
  /\ cstrat' = [cstrat EXCEPT ![s] = strat[s]]
  /\ queued' = (queued \/ (/\ cws.exists /\ ~cws.deleting
                           /\ cws.label = s /\ cws.ref = s))
  /\ UNCHANGED <<server, cws, cdep, csvc, cpvc, fresh>> /\ Worker /\ Budgets

DeploymentReady ==
  /\ dep.here /\ ~dep.term /\ ~dep.ready /\ (UsesStorage => pvc # "absent")
  /\ dep' = [dep EXCEPT !.ready = TRUE]
  /\ Changed("dep", dep', dep)
  /\ UNCHANGED <<ws, svc, pvc, routes, strat, cws, cdep, csvc, cpvc, cstrat, queued>> /\ Worker /\ Budgets

\* A deletion completes, or the garbage collector removes what the deleted
\* workspace owned.  A claim stays while a pod may use it.
DeploymentGone ==
  /\ dep.here /\ (dep.term \/ ~ws.exists)
  /\ dep' = NoDeployment
  /\ Changed("dep", dep', dep)
  /\ UNCHANGED <<ws, svc, pvc, routes, strat, cws, cdep, csvc, cpvc, cstrat, queued>> /\ Worker /\ Budgets

ServiceGone ==
  /\ svc = "deleting" \/ (svc = "live" /\ ~ws.exists)
  /\ svc' = "absent"
  /\ Changed("svc", svc', svc)
  /\ UNCHANGED <<ws, dep, pvc, routes, strat, cws, cdep, csvc, cpvc, cstrat, queued>> /\ Worker /\ Budgets

PVCGone ==
  /\ pvc = "deleting" \/ (pvc = "live" /\ ~ws.exists)
  /\ ~dep.here
  /\ pvc' = "absent"
  /\ Changed("pvc", pvc', pvc)
  /\ UNCHANGED <<ws, dep, svc, routes, strat, cws, cdep, csvc, cpvc, cstrat, queued>> /\ Worker /\ Budgets

RouteCollected(t) ==
  /\ routes[t].here /\ routes[t].owned /\ ~ws.exists
  /\ routes' = [routes EXCEPT ![t] = NoRoute] /\ queued' = TRUE
  /\ UNCHANGED <<ws, dep, svc, pvc, strat, caches>> /\ Worker /\ Budgets
-------------------------------------------------------------------------------
(***************************************************************************)
(* Users, administrators, and restarts of the operator.                    *)
(***************************************************************************)
Edit == edits < MaxEdits /\ edits' = edits + 1 /\ UNCHANGED <<crashes, faults>>

EditWorkspace(new) ==
  /\ Edit /\ ws.exists /\ new # ws
  /\ ws' = new /\ Changed("ws", new, ws) /\ rFresh' = FALSE
  /\ UNCHANGED <<dep, svc, pvc, routes, strat, cws, cdep, csvc, cpvc, cstrat, queued, pc,
                 mode, rws, want, todo, rDep, rSvc, rErr>>

EditSpec ==
  \/ \E d \in Desired : EditWorkspace([ws EXCEPT !.desired = d])
  \/ \E r \in Refs : EditWorkspace([ws EXCEPT !.ref = r])
  \/ \E v \in Revs : EditWorkspace([ws EXCEPT !.rev = v])

DeleteWorkspace ==
  /\ ~ws.deleting
  /\ EditWorkspace(IF ws.fin THEN [ws EXCEPT !.deleting = TRUE] ELSE NoWorkspace)

EditStrategy(s) ==
  /\ Edit
  /\ \E T \in TemplateSets \cup {strat[s].tpl} :
       strat' = [strat EXCEPT ![s] = [ver |-> strat[s].ver + 1, tpl |-> T]]
  /\ UNCHANGED <<ws, dep, svc, pvc, routes, caches, queued>> /\ Worker

\* Children that fail or that somebody else deletes.  Losing an access
\* resource is an event only while it carries the owner reference.
Stray ==
  \/ /\ "pod" \in Strays /\ Edit /\ dep.here /\ dep.ready
     /\ dep' = [dep EXCEPT !.ready = FALSE]
     /\ Changed("dep", dep', dep)
     /\ UNCHANGED <<ws, svc, pvc, routes, strat, cws, cdep, csvc, cpvc, cstrat, queued>>
     /\ Worker
  \/ /\ "dep" \in Strays /\ Edit /\ dep.here /\ ~dep.term
     /\ dep' = [dep EXCEPT !.term = TRUE]
     /\ Changed("dep", dep', dep)
     /\ UNCHANGED <<ws, svc, pvc, routes, strat, cws, cdep, csvc, cpvc, cstrat, queued>>
     /\ Worker
  \/ /\ "svc" \in Strays /\ Edit /\ svc = "live"
     /\ svc' = "deleting"
     /\ Changed("svc", svc', svc)
     /\ UNCHANGED <<ws, dep, pvc, routes, strat, cws, cdep, csvc, cpvc, cstrat, queued>>
     /\ Worker
  \/ /\ "route" \in Strays /\ Edit
     /\ \E t \in Routes :
          /\ routes[t].here
          /\ routes' = [routes EXCEPT ![t] = NoRoute]
          /\ queued' = (queued \/ routes[t].owned)
     /\ UNCHANGED <<ws, dep, svc, pvc, strat, caches>> /\ Worker

\* The operator restarts: the caches are listed afresh and every workspace
\* is queued.
Restart ==
  /\ crashes < MaxCrashes /\ crashes' = crashes + 1
  /\ pc' = "idle" /\ queued' = TRUE
  /\ mode' = "run" /\ rws' = NoWorkspace /\ rFresh' = FALSE
  /\ want' = NoWant /\ todo' = {} /\ rDep' = FALSE /\ rSvc' = FALSE /\ rErr' = FALSE
  /\ cws' = ws /\ cdep' = dep /\ csvc' = svc /\ cpvc' = pvc /\ cstrat' = strat
  /\ fresh' = Watched
  /\ UNCHANGED <<server, edits, faults>>
-------------------------------------------------------------------------------
Reconcile ==
  \/ ReconcileNothing \/ ReconcileDeletion \/ ReconcileMeta
  \/ ReconcileStopped \/ ReconcileRunning
  \/ UpdateMeta \/ GetAccessStrategy
  \/ EnsurePVCExists \/ EnsureDeploymentExists \/ EnsureServiceExists
  \/ \E t \in Routes : EnsureAccessResource(t) \/ EnsureAccessResourceDeleted(t)
  \/ EnsureAccessResourcesExist \/ EnsureAccessResourcesDeleted
  \/ EnsureDeploymentDeleted \/ EnsureServiceDeleted \/ EnsurePVCDeleted
  \/ UpdateStartingStatus \/ UpdateStoppingStatus \/ UpdateErrorStatus
  \/ UpdateStoppedStatus \/ UpdateRunningStatus
  \/ CheckWorkspaceIdle \/ StopWorkspaceDueToIdle
  \/ UpdateDeletingStatus \/ AreAllResourcesDeleted \/ RemoveFinalizer

Informers ==
  \/ SyncWorkspace \/ SyncDeployment \/ SyncService \/ SyncPVC
  \/ \E s \in Strategies : AccessStrategyEventHandler(s)

Kubernetes ==
  \/ DeploymentReady \/ DeploymentGone \/ ServiceGone \/ PVCGone
  \/ \E t \in Routes : RouteCollected(t)

Users == EditSpec \/ DeleteWorkspace \/ (\E s \in Strategies : EditStrategy(s)) \/ Stray

Next == Reconcile \/ Informers \/ Kubernetes \/ Users \/ Restart

Spec == Init /\ [][Next]_vars

(***************************************************************************)
(* The work queue hands out a queued key, informers and controllers catch  *)
(* up.  Users owe nothing.                                                 *)
(***************************************************************************)
FairSpec ==
  /\ Spec
  /\ WF_vars(Reconcile)
  /\ WF_vars(SyncWorkspace) /\ WF_vars(SyncDeployment)
  /\ WF_vars(SyncService) /\ WF_vars(SyncPVC)
  /\ \A s \in Strategies : WF_vars(AccessStrategyEventHandler(s))
  /\ WF_vars(DeploymentReady) /\ WF_vars(DeploymentGone)
  /\ WF_vars(ServiceGone) /\ WF_vars(PVCGone)
  /\ \A t \in Routes : WF_vars(RouteCollected(t))
-------------------------------------------------------------------------------
Modes == {"run", "stop", "delete"}

Steps ==
  {"idle", "meta", "strategy", "pvc", "dep", "svc", "ensure", "prune", "starting",
   "running", "stopping", "stopped", "error", "unexpected", "idleCheck", "idleStop",
   "deleting", "check", "finalizer"}

ServerTypes ==
  /\ ws \in Workspace /\ dep \in Deployment /\ svc \in Child /\ pvc \in Child
  /\ routes \in [Routes -> Route] /\ strat \in [Strategies -> Strategy]

CacheTypes ==
  /\ cws \in Workspace /\ cdep \in Deployment /\ csvc \in Child /\ cpvc \in Child
  /\ cstrat \in [Strategies -> Strategy] /\ fresh \in SUBSET Watched

WorkerTypes ==
  /\ queued \in BOOLEAN /\ pc \in Steps /\ mode \in Modes
  /\ rws \in Workspace /\ rFresh \in BOOLEAN /\ want \in Want /\ todo \in SUBSET Routes
  /\ rDep \in BOOLEAN /\ rSvc \in BOOLEAN /\ rErr \in BOOLEAN

BudgetTypes == edits \in Nat /\ crashes \in Nat /\ faults \in Nat

\* Every variable has its type: objects on the server, their cached copies, the
\* worker's local state.
TypeOK == ServerTypes /\ CacheTypes /\ WorkerTypes /\ BudgetTypes

\* reconcileDesiredStoppedStatus reports Stopped when "All resources are fully
\* deleted": no access resource of the workspace is left when it does.
StoppedMeansNoRoutes ==
  [][ws'.sp /\ ~ws.sp => \A t \in Routes : ~routes[t].here]_vars

\* StatusManager: of Available, Progressing and Stopped at most one is true,
\* whatever sequence of status writers (errors and conflicts included) ran.
OneCondition ==
  /\ ~(ws.av /\ ws.pr) /\ ~(ws.av /\ ws.sp) /\ ~(ws.pr /\ ws.sp)

\* ensureAccessResourceExists drops the owner reference of an access resource
\* it updates in place.  The workspace must then still track that resource, so
\* that stopping or deleting the workspace removes it.
UnownedTracked ==
  \A t \in Routes : routes[t].here /\ ~routes[t].owned => t \in ws.acc

\* Once the finalizer is removed and the workspace is gone, whatever is left of
\* its access resources carries the owner reference that lets the garbage
\* collector take it: ReconcileDeletion leaks nothing.
NoLeak ==
  ~ws.exists => \A t \in Routes : routes[t].here => routes[t].owned

Quiescent ==
  /\ pc = "idle" /\ ~queued
  /\ fresh = Watched /\ cstrat = strat
  /\ ~dep.term /\ svc # "deleting" /\ pvc # "deleting"

StoppedAsAsked == ws.sp /\ ~dep.here /\ svc = "absent" /\ ws.acc = {}

Templated == IF ws.ref = None THEN {} ELSE strat[ws.ref].tpl
Version == IF ws.ref = None THEN 0 ELSE strat[ws.ref].ver

RunningAsAsked ==
  /\ ws.av /\ svc = "live" /\ (UsesStorage => pvc = "live")
  /\ dep.here /\ dep.ready
  /\ dep.rev = ws.rev /\ dep.from = ws.ref /\ dep.ver = Version
  /\ ws.acc = Templated
  /\ \A t \in Templated :
       \/ routes[t].here /\ routes[t].from = ws.ref /\ routes[t].ver = Version
       \/ "route" \in Strays /\ ~routes[t].here

\* No event is lost: when nothing is queued, no cache lags and no deletion is
\* under way, the cluster is what the latest spec and strategy ask for and
\* the status says so.  (Reconcile, SetupWithManager's watches and requeues.)
\* Only an access resource that somebody else deletes may stay away: updated in
\* place it has no owner reference, and its loss is no event.
Settled ==
  Quiescent /\ ws.exists =>
    /\ ~ws.deleting /\ ~ws.dg
    /\ IF ws.desired = "Stopped" THEN StoppedAsAsked ELSE RunningAsAsked

StatusFollowsSpec ==
  /\ ws'.av /\ ~ws.av => ws.desired = "Running" /\ ~ws.deleting
  /\ ws'.sp /\ ~ws.sp => ws.desired = "Stopped" /\ ~ws.deleting

SpecKept ==
  edits' = edits /\ ws'.exists =>
    /\ ws'.rev = ws.rev /\ ws'.ref = ws.ref
    /\ ws'.desired = ws.desired \/ (pc = "idleStop" /\ ws.av)

CreatesNothing ==
  /\ dep'.here => dep.here
  /\ svc' # "absent" => svc # "absent"
  /\ pvc' # "absent" => pvc # "absent"
  /\ \A t \in Routes : routes'[t].here => routes[t].here

\* A status that reports Available or Stopped was computed from the spec the
\* server holds at that moment: optimistic concurrency refuses a reconcile
\* that worked from a stale copy.
StatusMatchesSpec == [][StatusFollowsSpec]_vars

\* Only users change the spec.  The worker's one spec write, the idle stop, hits
\* an Available workspace whose spec nobody edited since it was read.
SpecOnlyFromUsers == [][SpecKept]_vars

\* No child is created for a workspace that is gone: the finalizer is in place
\* before the first child, and the one worker that could still create children
\* is the one that removes the finalizer.
NoResurrection == [][~ws.exists => CreatesNothing]_vars

\* EnsurePVCDeleted is "used during workspace deletion, not stop": the claim is
\* only ever removed from a workspace that is being deleted or is gone.
StorageSurvivesStop ==
  [][pvc = "live" /\ pvc' # "live" => ws.deleting \/ ~ws.exists]_vars

\* Everything the workspace had is gone with it.
DeletedAsAsked ==
  /\ ~dep.here /\ svc = "absent" /\ pvc = "absent"
  /\ \A t \in Routes : ~routes[t].here

\* Edits, faults and restarts being finite, the workspace ends up as its last
\* spec asks: running, stopped, or deleted with all its children.
Converges ==
  <>[](IF ~ws.exists THEN DeletedAsAsked
       ELSE /\ ~ws.deleting
            /\ IF ws.desired = "Stopped" THEN StoppedAsAsked ELSE RunningAsAsked)
===============================================================================
