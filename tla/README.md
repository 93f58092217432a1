# A TLA+ model of the jupyter-k8s operator

This directory specifies the Kubernetes operator in `src/`, its authentication
middleware and its extension API in TLA+. TLC checks the specifications on small
instances and TLAPS proves the main properties for every value of the constants.
`PROJECT.json` is the machine-readable side: which definition models which lines,
which run checks what, the hazards, the findings.

    cd tla
    tlc -workers 2 -config Compute.cfg MCWorkspaceLifecycle   # one run
    tlc -workers 2 -config Gateway.cfg MCGateway
    tlapm WorkspaceLifecycle_proofs.tla                       # the proofs of a module

## 1. The system

The operator keeps every `Workspace` object (one JupyterLab or editor per user)
in the state its spec asks for. These are its parts.

| Part | State | Operations | What is hard about it |
|---|---|---|---|
| Workspace controller (`workspace_controller.go`) | work queue, informer caches | `Reconcile`, watches, strategy events | stale caches, events during a reconcile, restarts |
| State machine (`state_machine*.go`) | none between reconciles | run, stop, idle stop, delete | early returns, requeues, one cached copy used for many calls |
| Resource manager (`resource_manager*.go`) | Deployment, Service, claim, access resources | ensure exists / up to date / deleted | AlreadyExists and NotFound from stale reads, partial failure |
| Status manager (`status_manager.go`) | conditions, `status.accessResources` | seven status writers | conflicting writes, contradictory conditions |
| Template and strategy controllers | finalizers on shared objects | add and remove finalizer, block deletion | usage read from a cache, conflict retries |
| Webhooks (`internal/webhook`) | none | default, validate | side effects on other objects before admission |
| Pod events and SSM (`pod_event_handler.go`, `internal/aws/ssm_*`) | state file in the pod, AWS registrations | set up, clean up, preempt | containers that restart during a set-up, crash with a flag set |
| Tokens (`internal/jwt`, `internal/aws/jwt_kms.go`) | key cache | issue, validate, refresh | expiry boundaries, bounded cache, data races |
| Auth middleware, extension API | cookies, access reviews | authenticate, verify, connect | access that changes between two checks |

The controllers and webhooks interact through the API server only: they read it
through caches and write it with optimistic concurrency. The middleware asks the
extension API for access reviews; both sign and validate tokens with the same keys.
The pod events of the operator and the connection requests of the extension API
meet in SSM.

What correctness means, part by part:

- *Workspace lifecycle*: the cluster ends up as the last spec asks; a
  status never contradicts the spec it is stored with; data survives a stop;
  nothing is created for a deleted workspace; nothing outlives it.
- *Reference protection*: a template or strategy carries its
  finalizer exactly while workspaces reference it, so that one in use is not
  deleted and an unused one can be; a template's status acknowledges its spec.
- *Admission*: a stored workspace complies with its template, whatever exemptions
  its updates used; defaulting has nothing left to do; an OwnerOnly workspace is
  its creator's; a stop is refused only for reasons one can name.
- *Remote access*: a pod is set up, again after restarts; sessions go to its live
  agent and keep near their limit; nothing is left in SSM when it is gone.
- *Sessions*: access ends a bounded time after permission or workspace stopped
  allowing it, whatever requests overlap.
- *Key cache*: never above its bound, never without the key of a valid token
  because of a clean-up.

The hazards of each part are listed at their line in `PROJECT.json`.

## 2. The modules

| Module | Contents |
|---|---|
| `WorkspaceLifecycle` | one workspace key: worker, API server, caches, users, Kubernetes |
| `ReferenceProtection` | templates and strategies: admission, the two finalizer controllers, labels, caches |
| `Admission` | defaulting, validation and storage of one workspace's requests |
| `RemoteAccess` | pods, the pod event handler, SSM, and the extension API's VS Code connections |
| `SessionTokens` | kinds, lives and refresh rule of tokens, shared by the next two |
| `Gateway` | middleware, extension API, browser and cluster, for one user and workspace |
| `Sessions` | the abstract specification that `Gateway` implements |
| `KeyCache` | the KMS token signer |
| `MC*` | instances for TLC |
| `*_proofs` | inductive invariants, lemmas and theorems |

`Gateway` composes middleware and extension API, `RemoteAccess` the operator's pod
events and the extension API; `ReferenceProtection` composes webhook and
controllers. The parts that two modules share are split by what they write:
`Admission` has the spec that `Default` produces, `ReferenceProtection` the labels
and finalizers.

### WorkspaceLifecycle

The model follows one workspace. controller-runtime never runs two reconciles
of one key at a time, so there is one worker.

**State.**

| Variables | In the program |
|---|---|
| `ws dep svc pvc routes strat` | the objects on the API server |
| `cws cdep csvc cpvc cstrat` | their copies in the informer caches |
| `fresh` | the caches that hold the server's current resourceVersion |
| `queued` | the key is in the work queue |
| `pc mode` | the next API call of the reconcile, and whether it runs, stops or deletes |
| `rws rFresh` | the copy the reconcile works on; whether its resourceVersion is current |
| `want todo` | the strategy in use, the access resources still to handle |
| `rDep rSvc rErr` | what was learned about the Deployment, the Service, access errors |
| `edits crashes faults` | budgets spent |

In `ws`, the fields `av pr dg sp del` are the conditions Available, Progressing,
Degraded, Stopped and Deleting; `acc` is `status.accessResources`.

**Steps.** One step of the worker is one API call with the local work around
it. Between two steps users edit, caches move, children appear and vanish, or the
operator restarts. `Reconcile*` choose the branch from the cached workspace;
`UpdateMeta` stores finalizer and labels; `Ensure*Exists` and
`EnsureAccessResource` bring a running workspace up; `EnsureAccessResourceDeleted`
and `Ensure*Deleted` take one down; `StopVerdict` is the decision at the end of a
stop; `Update*Status` are the status writers; `CheckWorkspaceIdle` and
`StopWorkspaceDueToIdle` are the idle shutdown; `UpdateDeletingStatus`,
`AreAllResourcesDeleted` and `RemoveFinalizer` are the deletion.

**Calls.** A call is answered, refused before it takes effect, or takes effect
with its answer lost (`Replies`). An update succeeds only from the current
resourceVersion (`Write`). Typed objects are read from caches, access resources
(unstructured objects) live.

**Abstractions.**

- A cache jumps to the server's current object; versions in between are skipped,
  as an informer may deliver them in one relist.
- A deleted Deployment, Service or claim stays, terminating, until `*Gone`. An access
  resource disappears at once, and losing one that carries the owner reference is
  an event at once.
- The content of a Deployment is the workspace revision and strategy version
  it was built from; of an access resource, the strategy version. A strategy
  edit always changes the content.
- Whether Service or claim "need an update" is a free choice, because the code
  compares its own spec with the server-defaulted one. A Deployment must be
  updated when its content differs and may be when it does not, for the same
  reason.
- A Service of type ClusterIP, the only one the builder makes, is available
  when it exists.
- `ensureAccessResourceDeleted` answers "removed" whenever it returns no error, so the
  branch of a stop for access resources not yet deleted is unreachable and has
  no action. The branch for an unknown desiredStatus is excluded by the CRD's
  enumeration.
- Template labels are set with the strategy labels in the same update and only
  the strategy label is in this model; `ReferenceProtection` has both.
- A strategy that does not exist is a failed read.

### ReferenceProtection

The model follows several workspaces in one namespace, and the templates and
strategies they may reference.

**State.**

| Variables | In the program |
|---|---|
| `tgt wsp` | templates and strategies ("targets"), and workspaces, on the API server |
| `ctgt cwsp` | their copies in the informer caches |
| `tHolds wHolds` | who holds an object's current resourceVersion: the cache, a controller, a request |
| `queued` | the keys in the two controllers' work queues |
| `ctl` | for each target the reconcile under way: next call, finalizer wanted, generation to acknowledge |
| `req` | for each workspace the request under way: next call of the webhook, the object as defaulted so far |
| `edits crashes faults` | budgets spent |

**Steps.** `ReconcileTemplate` and `ReconcileAccessStrategy` read the caches and
decide; `UpdateFinalizer`, `Recheck` (the read after a conflict in
`finalizers.go`) and `UpdateStatusObservedGeneration` are the calls that follow.
A create or update of a workspace, by a user or by the workspace controller
(`Label`), runs through the webhook: `Default` resolves the template, sets the label
and the default strategy; `AddTemplateFinalizer`, `GetAccessStrategy`,
`AddAccessStrategyFinalizer` and `RecheckAccessStrategy` are its calls; `Store` is the
API server's write. `SyncTarget` and `SyncWorkspace` are the informers, the latter with
the two label-to-request mappings.

**Abstractions.**

- A workspace has one request in flight at a time; of two overlapping ones, the
  later would fail with a conflict, which a lost `Store` also shows.
- The Get and the List at the start of a reconcile are one step. A cache that moves
  between the two would be seen by the reconcile that its event queues.
- The controllers' keys run concurrently, which includes the one worker per
  controller that the code configures.
- `Label` is taken while the cached workspace lacks its labels; the work queue
  of the workspace controller is in `WorkspaceLifecycle`. A deleted workspace
  disappears at some point (`RemoveFinalizer`).
- The webhook's list is limited to one workspace *before* those being deleted are
  dropped. Which one the cache returns is open (`InUse`).
- What the validators refuse is a free choice (`Refuse`); `Admission` has what it is.
- Targets have no finalizers but the operator's, so that one marked for deletion
  without it is gone. Only finalizer and status updates fail or lose answers.
- Not in the model: edits of a workspace that is being deleted; the label
  and the reference pulled apart by hand.

### Admission

One workspace, its webhook requests, the templates and service accounts they are
judged by.

| Variables | In the program |
|---|---|
| `ws` | the stored workspace: spec, created-by annotation, deletion mark |
| `tmpl acct` | templates and service accounts with their labels |
| `req` | requests between defaulting, validation and storage, with the old object each was given |
| `asked epoch` | requests made, edits of templates and accounts |

`Ask` sends the object a user read with one field changed, `Default` and `Validate` are
the two webhooks, `Store` is the API server's write under the resourceVersion.
`EditTemplate`, `DeleteTemplate` and `EditAccount` happen in between. `ws.creator`,
`vetted` and `settled` are history: who created the workspace, and the epoch for
which its spec was last validated and last defaulted.

Defaulters and validators are pure operators named after the code. A defaulter that
may fail returns the set of its results, empty when the request is refused.
Abstractions: `plain` stands for the nine fields that are copied whole when absent;
one resource stands for CPU, memory and the others; a quantity is a number, zero unset.
The webhook reads templates and accounts from a cache; a cache that lags only moves the
read to an earlier moment of the request, and a request may begin at any time.

### RemoteAccess

| Variables | In the program |
|---|---|
| `life side main seen` | pods, their two containers, the pod object as last reported |
| `file agent server` | inside the pod: state file, registered agent, server in the workspace container |
| `left` | whether workspace and access strategy still exist |
| `queue h` | events of the pod informer, and the map function with its next call |
| `insts acts sess` | SSM: instances, activations, sessions by instance |
| `init req` | extension API: the once-only initializer, connection requests |
| `spoiled missed` | history: pods with a disturbed set-up, or whose deletion event was lost |

Each step of the handler is one AWS or exec call: `ReadRegistrationState`,
`MarkInProgress`, `CleanupInstances`, `CleanupActivations`, `CreateSSMActivation`,
`RegisterAgent`, `CreateMarkerFile`, `StartRemoteAccessServer`, `WriteFinalState`. A call
is answered, refused, or takes effect with its answer lost; a command also fails
while its container is down. controller-runtime calls the map function for the old
and the new object of an update, in the informer's only goroutine, so that handlers
do not overlap, while containers restart and reports lag at any point.

Abstractions: tags, document and URLs are left out; a clean-up that fails leaves all,
one or none of the objects; an expired activation is like any other; a set-up that
lasts over the replacement of its pod goes on against the terminating one.

### SessionTokens, Sessions, Gateway

`Gateway` follows one user's browser and one workspace.

| Variables | In the program |
|---|---|
| `ws rbac` | what the access review reads: the workspace, the user's permission |
| `away` | history: for how long each has not let the user in |
| `cookie link` | session token in the browser, bootstrap token in the connection URL |
| `req` | requests with route, next call, token, and the response on its way |

Routes: `HandleConnectionCreate` (extension API), `HandleAuth`, `HandleBearerAuth`,
`HandleVerify` (middleware). Their calls are `ValidateToken`, `CheckRBACPermission`,
`CheckAccess` and `Mint`; any may fail. `Deliver` and `Lose` are the response. A token is
dated by its age, so that time is unbounded; a request takes at most `Latency` ticks.
`doubt`, a history field, counts the failed reviews since the last positive one.

`Sessions` is what the gateway promises: a set of capabilities (tokens, and permits,
which are positive reviews not yet acted on) that come from a review, an exchange or a
failed review, age, and may be lost. The refinement mapping (`Promised`) takes every
token that cookie, link, requests and responses hold, and every positive review of a
request. Nothing of routes, requests or responses is left in it.

### KeyCache

`issued` are the tokens, each identified with its data key, `cacheExpiry` is the cache
(one map for `keyCache` and `cacheExpiry`, which the code keeps equal under the lock),
`call` the calls under way: look-up, the read of `lastCleanup` before the lock (`Peek`), the
clean-up under it, KMS, `SetCachedKey` with its eviction, and the parse. The unlocked read is
a data race in the code: while another call is at its clean-up it returns anything.
Entries that expire together are evicted in any order.

### Bounds and caches of the instances

*WorkspaceLifecycle.* The bounds are `MaxEdits` (user edits and deletions by others),
`MaxCrashes` (operator restarts) and `MaxFaults` (refused or lost calls). Every cache may
lag in every run but `Access`, the largest instance: there `Prompt` names the caches of
Deployment, Service and claim as never lagging, and the action constraint
`PromptCaches` lets nothing else happen until they have caught up; workspace and
strategy still lag. The liveness run has no constraint. Two edits suffice for every race
between one reconcile and the user's changes of mind. Deadlock is not checked in any
run: a converged system stops.

*ReferenceProtection.* One or two workspaces and up to three targets; every cache lags. Three
edits let a target be referenced, left and deleted, or deleted and created again under a
user; `MaxGen` bounds the edits of a template. Symmetry of the workspaces is used in
`Templates`, and of the strategies in `References`, where nothing singles one of them out;
`Protect` checks liveness and uses none.

*Admission.* One template with four forms, each tighter than the first in another respect
(`MCAdmission`), two service accounts, two users and an administrator, a foreign claim. Three
requests are a create and two updates that overlap, or a create, an update and a delete; one
edit may fall anywhere. Symmetry of users and requests, with no liveness.

*RemoteAccess.* One pod: pods of one workspace share only `left` and the queue. `MaxLoad`
bounds troubles (two each: restarts, damage, faults, crashes) and connection requests (one
each) together, so that any two troubles meet, or one and two requests. Two restarts
let one be overtaken by the next; a session limit of one is exceeded by two requests.

*Gateway.* A session lives two ticks and is refreshed in the last, a bootstrap token one, a
request takes up to one. `MaxAway = 8` exceeds the bound of `AuthorisedRecently` for one failed
review, so that longer absences are told apart where it matters. Two changes of
workspace or permission and faults, at most two together; time itself is unbounded.

*KeyCache.* Three keys on a cache of two, so that the limit is met with a key in and a key out;
two calls overlap; five ticks are longer than a token and its buffer together.

## 3. The runs

| Run | Checks | Distinct states | Instance |
|---|---|---|---|
| `Compute` | `TypeOK OneCondition Settled StatusMatchesSpec StorageSurvivesStop NoResurrection SpecOnlyFromUsers` | 1,614,691 | storage, idle shutdown, no strategy, strays, two edits, one restart |
| `Access` | `Settled UnownedTracked NoLeak` | 933,777 | two strategies with different templates, two edits, one fault, one restart |
| `Converge` | `Converges` (fair) | 139,787 | two strategies, one edit, one fault |
| `StopRace` | `StoppedMeansNoRoutes` violated | | one edit |
| `References` | `Settled` | 1,815,588 | two strategies, a workspace that switches, one fault, one restart |
| `Templates` | `TypeOK Settled ObservedGeneration` | 936,350 | one template, two workspaces, one fault |
| `Protect` | `Settled ProtectionConverges` (fair) | 113,131 | two default cluster templates with a default strategy, one fault |
| `Remote` | `TypeOK SetUp FoundIsLive CleanedUp SessionBound EventuallySetUp` (fair) | 414,271 | one pod, two requests, two troubles |
| `Recover` | `Recovered` violated | | one pod, one container restart |
| `Gateway` | `TypeOK AuthorisedRecently KeepsPromise ShutOutEnds` (fair) | 348,451 | two requests, two troubles |
| `Keys` | `TypeOK CacheBound CleanupsApart CleanupSparesLive` | 704,226 | three keys, two calls |
| `Admission` | `TypeOK Vetted Settled OwnerOnlyHeld StopRefusals TighteningAnnounced` | 927,775 | three requests, one edit |

What the passing runs show:

- `Settled` (`WorkspaceLifecycle`): no event is lost. Whenever nothing is queued, no cache
  lags and nothing is terminating, the workspace is exactly as its spec and its
  strategy's current version ask, and says so.
- `StatusMatchesSpec`: Available and Stopped are stored only against the spec
  of that moment. `SpecOnlyFromUsers`: the idle stop never overwrites an edit.
- `StorageSurvivesStop`, `NoResurrection`, `OneCondition`: see section 4.
- `UnownedTracked`, `NoLeak`: while a strategy keeps its set of templates, an access
  resource is always either owned or tracked, so that deletion takes it.
- `Converges`: after the last edit and fault the workspace reaches the state
  asked for and stays there.
- `Settled` (`ReferenceProtection`): whenever nothing is queued, running or
  unlabelled, a target has its finalizer exactly if an active workspace references it,
  none lingers in deletion without a user, and a template's generation is
  acknowledged. This holds although labels come late, requests are refused after their
  finalizers were written, and conflicts are judged by a cache. `ProtectionConverges`:
  that state is reached after the last edit and fault.
- `ObservedGeneration`: see section 4.
- `SetUp`, `EventuallySetUp`: a pod none of whose set-ups was disturbed is usable at rest, and
  becomes so, although handlers work from old pod objects and recorded counts.
- `FoundIsLive`: of several instances with a pod's tag, the one chosen is the live agent's.
- `CleanedUp`: the events of a pod's deletion clean up at least twice, so that one failing call
  leaves nothing in SSM. With two faults it would not hold; the bound is part of the claim.
- `SessionBound`: check and start are separate calls, so the limit may be exceeded, but by
  less than the number of requests served at a time.
- `AuthorisedRecently`: a request is let through only if permission and workspace let the user
  in within a session's life, the time its issue can have taken, and one more session
  for each failed review. `KeepsPromise`: `Gateway` implements `Sessions`. `ShutOutEnds`: a user
  who is shut out for good ends up without a session cookie.
- `CacheBound`, `CleanupsApart`, `CleanupSparesLive`: the bound of the key cache, that the
  second look under the lock makes up for the first, and that clean-up takes no key in use.
- `Vetted`: a workspace that was validated still complies while no template or account changes
  and no administrator rewrites it. `Settled` (`Admission`): defaulting it again changes nothing.
- `OwnerOnlyHeld`: only creator or administrator change, delete or make a workspace OwnerOnly.
- `StopRefusals`: the reasons for which a creator's mere stop is refused. `TighteningAnnounced`:
  which template changes that break a compliant workspace come with a warning.

Every property of a passing run is broken by a mutant of the mapped code
(`PROJECT.json`, "mutants").

**Fairness.** `WorkspaceLifecycle`: weak fairness of the worker (the work queue hands out a
queued key, and a reconcile goes on), of each informer, of the Deployment
controller and of deletions. Weak fairness is enough since none of these is disabled
again and again by others while it is due. Readiness of every Deployment is an assumption
on the workload, not on the operator. `ReferenceProtection`: the controllers, the informers, the
webhook's requests and the workspace controller's label update and finalizer removal.
`RemoteAccess`: the informer's goroutine, the kubelet's restarts and reports. `Gateway`: the clock, and
the steps of each request, which the servers' and clients' timeouts end; responses need none, and
no request has to arrive. Users, faults, restarts and crashes have none anywhere.

### Findings

- `StopRace`: access resources are created before the status write that tracks
  them. If that write conflicts with the user's switch to Stopped, the stop finds
  nothing to delete and reports Stopped (`state_machine.go:156`).
- `Recover`: the sidecar goes down after the set-up has written its in-progress flag into the
  pod. Registration fails, and so does the write that clears the flag. The restarted
  sidecar's events find the flag and return (`ssm_remote_access_strategy.go:144`), although
  `:105` speaks of "recovery from container restarts". An operator crash at that point has
  the same effect; a failure of the workspace container's part is recorded like a
  success (`:216`). `SetUp` holds because it excludes these pods, and shows that nothing else goes wrong.

The models show more places where the code does less than a reader expects. They have no run of their
own; each is a short behaviour of the module named.

- *Access resources outliving a workspace* (`WorkspaceLifecycle`, template sets that change).
  The in-place update of an access resource copies only the resourceVersion
  (`resource_manager_access.go:198`) and so removes the owner reference. If a template is
  dropped and returns while the worker's cached workspace still shows the old list,
  the resource is created again, updated once more, and never tracked; deletion then
  reads an empty list. `NoLeak` is therefore checked for strategies whose set of templates
  does not change (`TemplateSets = {}`).
- *A strategy released before it is labelled* (`ReferenceProtection`). The webhook puts the
  finalizer on the strategy, but the workspace gets its strategy labels only from a later
  update. The finalizer's own event starts a reconcile that finds nobody under the label and
  removes it; a deletion in that window takes the strategy from under an admitted
  workspace. At rest the protection is right.
- *A template found through the default namespace* (`ReferenceProtection`) is labelled under the
  workspace's namespace and never protected (`metadata_defaulter.go:35`).
- *Failed reviews* (`Gateway`). `UpdateSkipRefreshToken` sets a flag that the signer drops
  (`handler.go:79`), so that a failed review yields a full, refreshable session; and
  the refresh horizon is measured from the new `iat`. What bounds access is the review at each
  refresh; `AuthorisedRecently` counts failures for that reason.
- *Stops that are refused* (`Admission`). A stop passes without validation
  (`template_validator.go:142`), but defaulting comes first: it fails without the template, and
  defaults added to the template since make the update more than a stop.
- *Template changes without warning* (`Admission`). `constraintsChanged` does not look at
  `allowCustomImages`, the default image or `allowSecondaryStorages`, and looks at idle
  overrides, by which no workspace is validated.

Two more places where a comment promises more than the code does are visible in every
run and need none of their own. The delete helpers return the object as it was
*before* the delete, so that the first reconcile of every ordinary stop takes the
branch "This should not happen" (`state_machine.go:190`, `StopVerdict`) and marks the
workspace Degraded until the retry. And the webhook adds a template's finalizer
only if another workspace with the template is cached already; the first one is
admitted without, although `workspacetemplate_controller.go:100` calls it eager.

## 4. What is proved

`WorkspaceLifecycle_proofs` proves, from `ConstantsAssumption` alone (any sets of
strategies, routes and revisions, any bounds):

| Theorem | Property |
|---|---|
| `TypeCorrect` | `TypeOK` |
| `OneConditionCorrect` | `OneCondition`: at most one of Available, Progressing, Stopped |
| `NoResurrectionCorrect` | `NoResurrection`: no child is created for a workspace that is gone |
| `StorageSurvivesStopCorrect` | `StorageSurvivesStop`: only deletion takes the claim |
| `StatusMatchesSpecCorrect` | `StatusMatchesSpec` |
| `SpecOnlyFromUsersCorrect` | `SpecOnlyFromUsers` |

None of these is inductive. The inductive invariant is `LifeInv`, the conjunction of

- `TypeOK`;
- `Agree`: a fresh cache equals the server's object, and a worker's copy with a
  current resourceVersion equals it up to the tracked list, which the worker
  edits before it writes;
- `Pursues`: the worker's position fits its mode, and its copy is one that
  justifies the mode (desired Stopped for a stop, being deleted for a deletion,
  Available for an idle check);
- `Outlives`: what the worker does is still warranted on the *server*. A cached
  workspace with finalizer and without deletion mark means that the server's
  workspace exists with its finalizer; a reconcile that may create children
  means the same; a deletion means that the server's workspace is being deleted or
  gone. This is what `NoResurrection` needs: only the worker removes the finalizer, and
  it does so in a deletion, never while it creates.

Two lemmas carry the induction: `TypeStep` for the types and `LifeStep` for the rest. Each
first states, as named steps, what the building blocks do (a step that touches no
workspace, one that returns, one that writes and returns, one that writes and goes on)
and then has one step per action. The action properties follow from `LifeInv` and a
lemma on which actions touch which object.

`WorkspaceChildren_proofs` goes on from there, with the same assumption, to what a workspace
owns:

| Theorem | Property |
|---|---|
| `SettledCorrect` | `Settled`: at rest everything is as spec and strategy ask |
| `UnownedTrackedCorrect` | `UnownedTracked`, under `[][TemplatesKept]_vars` |
| `NoLeakCorrect` | `NoLeak`, under `[][TemplatesKept]_vars` |

`Settled` speaks about states at rest only, so its inductive invariant has to say
what makes rest impossible before the work is done. `SettleInv` is the conjunction of

- `Mirrors`: a fresh cache of a child equals the child, a cached strategy is not newer than the
  stored one, and a workspace being deleted still has its finalizer;
- `Cleared`: an idle worker has nothing resolved and no error pending;
- `Calm => Settles`, where `Calm` says that nothing calls for another reconcile (key not queued,
  caches fresh, the cached strategy current, no child terminating). A worker that is
  idle then leaves a workspace at `Rest`, as `Settled` asks; one that is under way has
  `Established`, with a current copy of the workspace, what the calls before its present
  one are there for. One call adds one clause: after the claim the claim is there, after the
  Deployment the Deployment is and `rDep` is its readiness, and so on to the status.

The steps split in two. Those of the cluster and the users end `Calm`, or leave what
`Settles` mentions alone: this is the statement that every change produces an event. Those
of the worker either queue the key again or establish the next clause.

`UnownedTracked` and `NoLeak` are about access resources whose owner an update removed, which only
`status.accessResources` remembers. `TrackInv` relates the tracked lists of the server's, the
cached and the worker's copy (`Tracked`), and says what a worker will ensure, has
pruned or has dropped (`Working`). The hypothesis `TemplatesKept`, that no edit changes *which*
access resources a strategy has, is needed: section 3 tells how such an edit leaves a resource that no list mentions
(*Access resources outliving a workspace*). Edits of what a template renders to are unrestricted.

`ReferenceProtection_proofs` proves, from `ProtectionAssumption` alone (any
workspaces, templates, strategies, cluster defaults and bounds):

| Theorem | Property |
|---|---|
| `ObservedGenerationCorrect` | `ObservedGeneration`: a template's `observedGeneration` never exceeds its generation and never decreases while it lives |
| `Types` | `TypeOK` |
| `SettledAtRest` | `Settled`: at rest, finalizers are there exactly while referenced, generations are acknowledged |

`ObservedGeneration` speaks about the server, the value written comes from a
cached copy; the inductive invariant `HeldInv` ties the two together:

- `CacheAgrees`: a cache that holds the current resourceVersion equals the server's object;
- `ReconcileAgrees`: a reconcile whose copy is still current will acknowledge
  exactly the server's generation, of an object not being deleted;
- a reconcile about to write the status has a generation to acknowledge;
- the observed generation is at most the generation.

There is one lemma per kind of step: a write by somebody else (`ForeignWrite`) leaves
controller and cache behind, one by the controller (`ControllerWrite`) leaves only the
cache, a copy from the cache (`ControllerCopy`, `ForeignCopy`) is as current as the
cache, and the others touch nothing. Assumption used: the holders' names are distinct
from the workspaces.

`SettledAtRest` needs more: `WatchInv` adds to `HeldInv` the types and the currency of cached
workspaces (`WorkInv`) and, for each template and strategy, `Watched`. An object at rest in the
cache has the finalizer that the *cached* labels call for, or is queued, or being
reconciled, or its cache is stale (`Attended`). A reconcile under way decided on
the labels of now, or its object is queued again, and what it writes under a current
resourceVersion is a change, so that the write brings another event (`Underway`). Every
workspace event that can change the answer of a label query queues the object in
the same step as the cache; this is where the map functions of the watches enter.

`Admission_proofs` proves, from `AdmissionAssumption` (any users, templates, accounts, images, drafts
and forms; they belong to their types, and there is an account
named `default`, as in every namespace):

| Theorem | Property |
|---|---|
| `Types` | `TypeOK` |
| `Complying` | `Vetted`: a stored workspace complies with its template |
| `DefaultedOnce` | `Settled`: defaulting it again changes nothing |
| `HeldByOwner` | `OwnerOnlyHeld` |
| `StopPasses` | `StopRefusals` |
| `Announced` | `TighteningAnnounced` |

The inductive invariant `IInv` follows a request through its calls (`Sound`): once defaulted,
its spec has all defaults (`Complete`) and is a fixed point of defaulting unless a
template or account has been edited since; once validated, it complies unless such
an edit came between, and its author may do what it does, whatever is stored meanwhile.
The lemmas it rests on are about the operators: each stage of `Default` gives what
it is for and keeps what the stages before it gave, so that their composition is
idempotent; and an update that passes for an exempt one changes no field that
the template restricts, which is the heart of `Complying` and of `StopPasses`.

`Gateway_proofs` proves, from `TokenAssumption` and `BoundAssumption` (any number of requests, any
lives, window, latency and bounds):

| Theorem | Property |
|---|---|
| `Types` | `TypeOK` |
| `Implements` | `KeepsPromise`: every step maps to a step of `Sessions` or a stutter |
| `StaysRecent` | `Sessions!Recent`: in the abstract specification no token outlives the conditions it was issued under by more than its lag |
| `Authority` | `AuthorisedRecently`, from `Implements` and `StaysRecent` |

The invariant `IInv` adds to `TypeOK` what a request at each call carries: the age of its token
against its waiting time, that the permission was there no longer ago than the request
has waited once the first check has passed, and that doubts are covered by faults spent.
The last makes `doubt` bounded; the second is what makes a review of two reads a
step `Authorise` of the abstraction. `Recent` is inductive together with the abstract types; the
lag grows along permit, bootstrap token, session and failed review, and each step of
issue needs just the inequality between two of them (`Spans`).

`KeyCache_proofs` proves, from `CacheAssumption`, `Types`, `Bounded` (`CacheBound`), `Apart` (`CleanupsApart`) and
`SparesLive` (`CleanupSparesLive`) for any number of keys and calls. The invariant is `TypeOK`, which ties each
entry to the expiry of its token, and the type of calls. `Bounded` needs that an eviction at
the limit removes at least one key, which takes `EvictBatch > 0`.

`RemoteAccess_proofs` proves, from `RemoteAssumption` and for any number of pods, handlers, restarts,
damaged files, faults and crashes:

| Theorem | Property |
|---|---|
| `Types` | `TypeOK` |
| `SessionsBounded` | `SessionBound` |
| `FoundLive` | `FoundIsLive` |
| `PodsSetUp` | `SetUp`: a pod at rest whose set-ups were not disturbed is usable |
| `PodsCleanedUp` | `CleanedUp` as long as there was one failing call at most |

`FoundIsLive` follows from `Latest`: no
instance with a pod's tag is newer than its running agent's, since a registration takes a
fresh identifier and everything else only removes instances or stops agents. `SessionBound`
counts checked requests with the sessions and is inductive with the types.

The hypothesis of `PodsCleanedUp` is what the run's `MaxFaults = 1` says: there are only two clean-ups
to a pod, and if each of them meets a failing call, what they left stays.

`PodsSetUp` and `PodsCleanedUp` rest on three invariants whose steps are the lemmas of `RemotePods_proofs`;
`PodsStep` puts them together. `Events` is about the pod objects that are queued or being handled. They come in the order in which the pod changed (`Before`: restart counts do not fall, a
deletion is not taken back) and none is ahead of the pod; the informer has seen the object that
the last pending event carries. A restart of the operator drops the queue and lists the pods
again, so that the invariant is established anew rather than kept. The lemmas take from the
list only that each pod is in it once (`Listed`); `Relisted` proves that, with the theorems on
finite sets, which `RemotePods_proofs` does without.

- `Tidied` says what is still to come for a pod on its way out: it is clean and only clean-ups
  follow; or it is still there and a clean-up is to come or a fault was spent; or it is
  gone, and one clean-up without fault is to come, or two with the fault not spent.
- `Serving` is for pods not spoiled. The state file is behind every event to come and tells
  the truth except during a set-up (`Truthful`); a set-up under way has done, or found done,
  what its step says (`Advanced`); and with no event pending, what the informer saw
  last is set up (`Served`). `Served` alone is not inductive: `Decide` skips a container because
  the file says so, and compares the file with an event that may be old.

The invariants were checked by TLC as invariants of the `Remote` instance before they were proved.

### Left to TLC

`Converges`, `ProtectionConverges`, `ShutOutEnds` and `EventuallySetUp` are liveness properties under
fairness, which the prover does not reason about. Every other property of a passing
run is stated by a theorem above. `StoppedMeansNoRoutes` and `Recovered` are violated (section 3);
there is nothing to prove.

## 5. Not modelled

- Preemption events (`HandleKubernetesEvents`, `updateWorkspaceDesiredStatus`): they act only on pods
  whose name begins with `jupyter-` (`pod_event_handler.go:127`), while the Deployments are named
  `workspace-...` (`constants.go:103`). In the system modelled they do nothing.
- The pod exec webhook: one stateless decision on the request's own fields.
- The HTTP probe of the idle check and the parsing of its answer; OIDC verification, an external
  library; parsing of headers, groups, paths and hosts; rendering of access resource
  templates, `status.accessURL`; assembly of Deployments, Services and claims field by field.
  These are string and structure processing without state; where their outcome
  steers control it is a free choice.
- Signatures and encryption: a token is what the signer issued.
- Inside the lifecycle: the re-creation of a workspace under the same name while old
  children are collected; size and class of the claim; event recording; a pod revision
  that never becomes ready (a Deployment is not updated before its workspace was Available,
  `resource_manager.go:201`, so that nothing about it would converge).
- Several replicas of the middleware or the extension API share nothing but the signing keys and
  the API server, and are the concurrent requests of `Gateway`. The operator is
  one process: it runs as one replica, or with leader election.
- Entry points, configuration parsing and generated code have no state worth modelling.
