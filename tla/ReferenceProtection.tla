------------------------ MODULE ReferenceProtection ------------------------
(***************************************************************************)
(* WorkspaceTemplates and WorkspaceAccessStrategies are kept from deletion *)
(* while workspaces use them by a finalizer on the template or strategy.   *)
(* The workspace webhook adds it at admission; the two controllers add and *)
(* remove it by what they find under the workspaces' labels in the         *)
(* informer caches; the workspace controller sets the labels.              *)
(***************************************************************************)
EXTENDS Naturals

CONSTANTS
  Workspaces,       \* workspaces, all in namespace Home
  Home, Shared,     \* Shared: the webhook's defaultTemplateNamespace
  Templates,        \* templates, pairs <<name, namespace>>
  Strategies,
  None,
  TemplateRefs,     \* the template references users write, and None
  StrategyRefs,     \* the strategy references users write, and None
  ClusterDefaults,  \* templates that carry the default-cluster-template label
  DefaultStrategy,  \* spec.defaultAccessStrategy of each template
  MaxEdits,         \* user requests
  MaxGen,           \* generations of a template
  MaxCrashes,       \* operator restarts
  MaxFaults         \* refused or lost API calls of the operator

\* What a template reference without namespace denotes.
Local(x) == <<x[1], Home>>
Keys == Templates \cup (TemplateRefs \ {None}) \cup {Local(x) : x \in ClusterDefaults}

ASSUME ProtectionAssumption ==
  /\ None \notin Keys \cup Strategies
  /\ Workspaces \cap {"cache", "ctl"} = {}
  /\ Templates \cap Strategies = {} /\ Keys \cap Strategies = {}
  /\ StrategyRefs \subseteq Strategies \cup {None}
  /\ ClusterDefaults \subseteq Templates
  /\ DefaultStrategy \in [Templates -> Strategies \cup {None}]
  /\ MaxEdits \in Nat /\ MaxGen \in Nat /\ MaxCrashes \in Nat /\ MaxFaults \in Nat

VARIABLES
  tgt, wsp,         \* the API server's templates and strategies, and workspaces
  ctgt, cwsp,       \* the operator's informer caches
  tHolds, wHolds,   \* who holds an object's current resourceVersion
  queued,           \* keys in the two controllers' work queues
  ctl,              \* the reconcile running for each template and strategy
  req,              \* the admission request in flight for each workspace
  edits, crashes, faults

objects == <<tgt, wsp>>
caches  == <<ctgt, cwsp, tHolds, wHolds>>
budgets == <<edits, crashes, faults>>
vars    == <<objects, caches, queued, ctl, req, budgets>>

Targets == Templates \cup Strategies

Target == [here: BOOLEAN, del: BOOLEAN, fin: BOOLEAN, gen: Nat, obs: Nat]
NewTarget == [here |-> TRUE, del |-> FALSE, fin |-> FALSE, gen |-> 1, obs |-> 0]
NoTarget  == [NewTarget EXCEPT !.here = FALSE]

\* tref and sref: spec.templateRef and spec.accessStrategy with the namespace
\* filled in; tlab and slab: the labels that name them.
Workspace ==
  [here: BOOLEAN, del: BOOLEAN, fin: BOOLEAN,
   tref: Keys \cup {None}, tlab: Keys \cup {None},
   sref: Strategies \cup {None}, slab: Strategies \cup {None}]

NoWorkspace ==
  [here |-> FALSE, del |-> FALSE, fin |-> FALSE,
   tref |-> None, tlab |-> None, sref |-> None, slab |-> None]

\* want: the finalizer the running reconcile asks for; gen: the generation it
\* will acknowledge, 0 for none.
Idle == [pc |-> "idle", want |-> FALSE, gen |-> 0]
NoRequest == [pc |-> "none", op |-> FALSE, new |-> NoWorkspace]

Init ==
  /\ tgt = [x \in Targets |-> NewTarget] /\ ctgt = tgt
  /\ wsp = [w \in Workspaces |-> NoWorkspace] /\ cwsp = wsp
  /\ tHolds = [x \in Targets |-> {"cache"}]
  /\ wHolds = [w \in Workspaces |-> {"cache"}]
  /\ queued = Targets
  /\ ctl = [x \in Targets |-> Idle]
  /\ req = [w \in Workspaces |-> NoRequest]
  /\ edits = 0 /\ crashes = 0 /\ faults = 0
-------------------------------------------------------------------------------
(***************************************************************************)
(* Objects.  A call is answered, refused, or takes effect with its answer  *)
(* lost.  An update needs the current resourceVersion.  An object marked   *)
(* for deletion is gone with its last finalizer and takes no new one.      *)
(***************************************************************************)
Replies == {"ok"} \cup (IF faults < MaxFaults THEN {"refused", "lost"} ELSE {})
Spend(o) == faults' = IF o = "ok" THEN faults ELSE faults + 1

Settle(t) == IF t.del /\ ~t.fin THEN NoTarget ELSE t

\* x becomes t; only the holders in keep know the new version.
Put(x, t, keep) ==
  /\ tgt' = [tgt EXCEPT ![x] = Settle(t)]
  /\ tHolds' = IF tgt'[x] = tgt[x] THEN tHolds ELSE [tHolds EXCEPT ![x] = @ \cap keep]

\* Mutant: updates without a resourceVersion.
AcceptsAny(x, h) == tgt[x].here

\* Whether the server accepts an update of x by holder h.
Accepts(x, h) == tgt[x].here /\ h \in tHolds[x]

Update(x, h, t, o) ==
  /\ Spend(o)
  /\ IF o # "refused" /\ Accepts(x, h) THEN Put(x, t, {h}) ELSE UNCHANGED <<tgt, tHolds>>

\* Holder h takes its copy of x from the cache.
Copied(x, h) ==
  tHolds' = [tHolds EXCEPT ![x] = IF "cache" \in @ THEN @ \cup {h} ELSE @ \ {h}]
-------------------------------------------------------------------------------
(***************************************************************************)
(* The label queries, on the cached workspaces.                            *)
(***************************************************************************)
Active(w) == w.here /\ ~w.del

HasActiveWorkspacesWithTemplate(x) ==
  \E w \in Workspaces : Active(cwsp[w]) /\ cwsp[w].tlab = x /\ cwsp[w].tref = x

HasActiveWorkspacesWithAccessStrategy(x) ==
  \E w \in Workspaces : Active(cwsp[w]) /\ cwsp[w].slab = x /\ cwsp[w].sref = x
-------------------------------------------------------------------------------
(***************************************************************************)
(* The controllers.  One step reads the caches and decides, the next ones  *)
(* are the API calls.                                                      *)
(***************************************************************************)
Begin(x) == ctl[x].pc = "idle" /\ x \in queued /\ queued' = queued \ {x}

Goto(x, c) == ctl' = [ctl EXCEPT ![x] = c]

Done(x) == Goto(x, Idle) /\ UNCHANGED queued

\* Mutant: the error is logged and dropped.
RetryDropped(x) == Done(x)

Retry(x) == Goto(x, Idle) /\ queued' = queued \cup {x}

\* Mutant: a template marked for deletion is never released.
DeletionBlockedAlways(t, users) == t.del

\* handleDeletion leaves the template alone.
DeletionBlocked(t, users) == t.del /\ (~t.fin \/ users)

ReconcileTemplate(x) ==
  LET t     == ctgt[x]
      users == HasActiveWorkspacesWithTemplate(x)
      gen   == IF ~t.del /\ t.obs < t.gen THEN t.gen ELSE 0  \* handleSpecChanges
      next  == IF ~t.here \/ DeletionBlocked(t, users) THEN "idle"
               ELSE IF t.fin # users THEN "update"
               ELSE IF gen # 0 THEN "status"
               ELSE "idle"
  IN /\ x \in Templates /\ Begin(x)
     /\ Goto(x, IF next = "idle" THEN Idle
                ELSE [pc |-> next, want |-> users, gen |-> gen])
     /\ IF next = "idle" THEN UNCHANGED tHolds ELSE Copied(x, "ctl")
     /\ UNCHANGED <<objects, ctgt, cwsp, wHolds, req, budgets>>

ReconcileAccessStrategy(x) ==
  LET t     == ctgt[x]
      users == HasActiveWorkspacesWithAccessStrategy(x)
  IN /\ x \in Strategies /\ Begin(x)
     /\ IF t.here /\ t.fin # users
        THEN Goto(x, [pc |-> "update", want |-> users, gen |-> 0]) /\ Copied(x, "ctl")
        ELSE UNCHANGED <<ctl, tHolds>>
     /\ UNCHANGED <<objects, ctgt, cwsp, wHolds, req, budgets>>

\* manageFinalizer and handleDeletion; SafelyAddFinalizerToAccessStrategy and
\* SafelyRemoveFinalizerFromAccessStrategy, which look again after a conflict.
UpdateFinalizer(x) ==
  /\ ctl[x].pc = "update"
  /\ \E o \in Replies :
       /\ Update(x, "ctl", [tgt[x] EXCEPT !.fin = ctl[x].want], o)
       /\ IF o = "ok" /\ Accepts(x, "ctl")
          THEN IF ctl[x].gen # 0 THEN Goto(x, [ctl[x] EXCEPT !.pc = "status"]) /\ UNCHANGED queued
                                 ELSE Done(x)
          ELSE IF o = "ok" /\ x \in Strategies /\ tgt[x].here
          THEN Goto(x, [ctl[x] EXCEPT !.pc = "recheck"]) /\ UNCHANGED queued
          ELSE Retry(x)
  /\ UNCHANGED <<wsp, ctgt, cwsp, wHolds, req, edits, crashes>>

Recheck(x) ==
  /\ ctl[x].pc = "recheck"
  /\ IF ctgt[x].here /\ ctgt[x].fin = ctl[x].want THEN Done(x) ELSE Retry(x)
  /\ UNCHANGED <<objects, caches, req, budgets>>

UpdateStatusObservedGeneration(x) ==
  /\ ctl[x].pc = "status"
  /\ \E o \in Replies :
       /\ Update(x, "ctl", [tgt[x] EXCEPT !.obs = ctl[x].gen], o)
       /\ IF o = "ok" /\ Accepts(x, "ctl") THEN Done(x) ELSE Retry(x)
  /\ UNCHANGED <<wsp, ctgt, cwsp, wHolds, req, edits, crashes>>

Controllers(x) ==
  \/ ReconcileTemplate(x) \/ ReconcileAccessStrategy(x)
  \/ UpdateFinalizer(x) \/ Recheck(x) \/ UpdateStatusObservedGeneration(x)
-------------------------------------------------------------------------------
(***************************************************************************)
(* Admission of a workspace.  The operator's own label updates pass the    *)
(* same defaulting webhook as the users' requests.                         *)
(***************************************************************************)
ResolveTemplate(k) ==
  LET fallback == <<k[1], Shared>>
      Cached(x) == x \in Templates /\ ctgt[x].here
  IN IF Cached(k) THEN k ELSE IF Cached(fallback) THEN fallback ELSE None

\* ApplyTemplateName: the default cluster template, if there is just one.
DefaultTemplates == {x \in ClusterDefaults : ctgt[x].here}

TemplateNames(n) ==
  IF n.tref # None THEN {n.tref}
  ELSE IF DefaultTemplates = {} THEN {None}
  ELSE {Local(x) : x \in {y \in DefaultTemplates : DefaultTemplates = {y}}}

\* ApplyTemplateDefaults, where the reference resolves: the labels and the
\* template's default access strategy.
Defaulted(n, k) ==
  IF k = None THEN n
  ELSE [n EXCEPT !.tref = k, !.tlab = k,
                 !.sref = IF @ = None THEN DefaultStrategy[ResolveTemplate(k)] ELSE @]

\* The list is cut to one workspace before those being deleted are dropped.
Listed(k) == {w \in Workspaces : cwsp[w].here /\ cwsp[w].tlab = k}
InUse(k) == IF Listed(k) = {} THEN {FALSE}
            ELSE {Active(cwsp[w]) /\ cwsp[w].tref = k : w \in Listed(k)}

\* ensureTemplateFinalizer up to its update.
TemplateLacksFinalizer(k) == k \in Templates /\ ctgt[k].here /\ ~ctgt[k].fin

Step(w, p) == req' = [req EXCEPT ![w].pc = p]
Reject(w) == req' = [req EXCEPT ![w] = NoRequest]

Default(w) ==
  LET names == TemplateNames(req[w].new)
      Proceed(k) ==
        LET n == Defaulted(req[w].new, k)
        IN \E used \in InUse(k) :
             IF used /\ TemplateLacksFinalizer(k)
             THEN /\ req' = [req EXCEPT ![w].pc = "template", ![w].new = n]
                  /\ Copied(k, w)
             ELSE /\ req' = [req EXCEPT ![w].pc = "lookup", ![w].new = n]
                  /\ UNCHANGED tHolds
  IN /\ req[w].pc = "default"
     /\ IF \E k \in names : k = None \/ ResolveTemplate(k) # None
        THEN \E k \in names : Proceed(k)
        ELSE Reject(w) /\ UNCHANGED tHolds
     /\ UNCHANGED <<objects, ctgt, cwsp, wHolds, queued, ctl, budgets>>

\* ensureTemplateFinalizer's update: any failure fails the request.
AddTemplateFinalizer(w) ==
  LET x == req[w].new.tref
  IN /\ req[w].pc = "template"
     /\ \E o \in Replies :
          /\ Update(x, w, [tgt[x] EXCEPT !.fin = TRUE], o)
          /\ IF o = "ok" /\ Accepts(x, w) THEN Step(w, "lookup") ELSE Reject(w)
     /\ UNCHANGED <<wsp, ctgt, cwsp, wHolds, queued, ctl, edits, crashes>>

\* ensureAccessStrategyFinalizer up to its update: no strategy fails the request.
GetAccessStrategy(w) ==
  LET x == req[w].new.sref
  IN /\ req[w].pc = "lookup"
     /\ IF x = None THEN Step(w, "store") /\ UNCHANGED tHolds
        ELSE IF ~ctgt[x].here THEN Reject(w) /\ UNCHANGED tHolds
        ELSE IF ctgt[x].fin THEN Step(w, "store") /\ UNCHANGED tHolds
        ELSE Step(w, "strategy") /\ Copied(x, w)
     /\ UNCHANGED <<objects, ctgt, cwsp, wHolds, queued, ctl, budgets>>

\* SafelyAddFinalizerToAccessStrategy; a conflict is looked into.
AddAccessStrategyFinalizer(w) ==
  LET x == req[w].new.sref
  IN /\ req[w].pc = "strategy"
     /\ \E o \in Replies :
          /\ Update(x, w, [tgt[x] EXCEPT !.fin = TRUE], o)
          /\ IF o = "ok" /\ Accepts(x, w) THEN Step(w, "store")
             ELSE IF o = "ok" /\ tgt[x].here THEN Step(w, "recheck")
             ELSE Reject(w)
     /\ UNCHANGED <<wsp, ctgt, cwsp, wHolds, queued, ctl, edits, crashes>>

RecheckAccessStrategy(w) ==
  LET x == req[w].new.sref
  IN /\ req[w].pc = "recheck"
     /\ IF ctgt[x].here /\ ctgt[x].fin THEN Step(w, "store") ELSE Reject(w)
     /\ UNCHANGED <<objects, caches, queued, ctl, budgets>>

PutWorkspace(w, n) ==
  /\ wsp' = [wsp EXCEPT ![w] = n]
  /\ wHolds' = IF n = wsp[w] THEN wHolds ELSE [wHolds EXCEPT ![w] = {}]

\* The API server stores the defaulted object unless it conflicts.
Store(w) ==
  /\ req[w].pc = "store"
  /\ IF "req" \in wHolds[w] THEN PutWorkspace(w, req[w].new) ELSE UNCHANGED <<wsp, wHolds>>
  /\ Reject(w)
  /\ UNCHANGED <<tgt, ctgt, cwsp, tHolds, queued, ctl, budgets>>

\* A validator refuses a user's request; the operator bypasses them.
Refuse(w) ==
  /\ req[w].pc = "store" /\ ~req[w].op
  /\ Reject(w)
  /\ UNCHANGED <<objects, caches, queued, ctl, budgets>>

Admission(w) ==
  \/ Default(w) \/ AddTemplateFinalizer(w)
  \/ GetAccessStrategy(w) \/ AddAccessStrategyFinalizer(w) \/ RecheckAccessStrategy(w)
  \/ Store(w)

Request(w, n, op, fresh) ==
  /\ req[w] = NoRequest
  /\ req' = [req EXCEPT ![w] = [pc |-> "default", op |-> op, new |-> n]]
  /\ wHolds' = [wHolds EXCEPT ![w] = IF fresh THEN @ \cup {"req"} ELSE @ \ {"req"}]
  /\ UNCHANGED <<objects, ctgt, cwsp, tHolds, queued, ctl, crashes, faults>>
-------------------------------------------------------------------------------
(***************************************************************************)
(* The workspace controller: labels and finalizer in one update, tried     *)
(* again until the cached workspace has them.  A deleted workspace goes    *)
(* through its own finalizer (see WorkspaceLifecycle).                     *)
(***************************************************************************)
\* Mutant: a label once set is not set again.
LabelledOnce(n) ==
  [n EXCEPT !.fin = TRUE, !.tlab = IF @ = None THEN n.tref ELSE @,
            !.slab = IF @ = None THEN n.sref ELSE @]

Labelled(n) == [n EXCEPT !.fin = TRUE, !.tlab = n.tref, !.slab = n.sref]

Label(w) ==
  /\ Active(cwsp[w]) /\ cwsp[w] # Labelled(cwsp[w])
  /\ Request(w, Labelled(cwsp[w]), TRUE, "cache" \in wHolds[w])
  /\ UNCHANGED edits

RemoveFinalizer(w) ==
  /\ wsp[w].del
  /\ PutWorkspace(w, NoWorkspace)
  /\ UNCHANGED <<tgt, ctgt, cwsp, tHolds, queued, ctl, req, budgets>>
-------------------------------------------------------------------------------
(***************************************************************************)
(* Informers.  A workspace event queues the targets its old and its new    *)
(* labels name, whoever they belong to.                                    *)
(***************************************************************************)
SyncTarget(x) ==
  /\ "cache" \notin tHolds[x]
  /\ ctgt' = [ctgt EXCEPT ![x] = tgt[x]]
  /\ tHolds' = [tHolds EXCEPT ![x] = @ \cup {"cache"}]
  /\ queued' = queued \cup {x}
  /\ UNCHANGED <<objects, cwsp, wHolds, ctl, req, budgets>>

\* Mutant: a workspace without labels is not skipped.
FindTargetsUnlabelled(n) == IF n.here THEN {n.tlab, n.slab} ELSE {}

\* Mutant: only the template controller watches workspaces.
FindTargetsTemplates(n) == IF n.here THEN {n.tlab} \cap Targets ELSE {}

FindTargets(n) == IF n.here THEN {n.tlab, n.slab} \cap Targets ELSE {}

SyncWorkspace(w) ==
  /\ "cache" \notin wHolds[w]
  /\ cwsp' = [cwsp EXCEPT ![w] = wsp[w]]
  /\ wHolds' = [wHolds EXCEPT ![w] = @ \cup {"cache"}]
  /\ queued' = queued \cup FindTargets(cwsp[w]) \cup FindTargets(wsp[w])
  /\ UNCHANGED <<objects, ctgt, tHolds, ctl, req, budgets>>
-------------------------------------------------------------------------------
(***************************************************************************)
(* Users and administrators, and the operator's process.                   *)
(***************************************************************************)
Edit == edits < MaxEdits /\ edits' = edits + 1

CreateWorkspace(w) ==
  /\ ~wsp[w].here /\ Edit
  /\ \E k \in TemplateRefs, s \in StrategyRefs :
       Request(w, [NoWorkspace EXCEPT !.here = TRUE, !.tref = k, !.sref = s], FALSE, TRUE)

EditWorkspace(w) ==
  /\ Active(wsp[w]) /\ Edit
  /\ \E k \in TemplateRefs, s \in StrategyRefs :
       Request(w, [wsp[w] EXCEPT !.tref = k, !.sref = s], FALSE, TRUE)

DeleteWorkspace(w) ==
  /\ Active(wsp[w]) /\ Edit
  /\ PutWorkspace(w, IF wsp[w].fin THEN [wsp[w] EXCEPT !.del = TRUE] ELSE NoWorkspace)
  /\ UNCHANGED <<tgt, ctgt, cwsp, tHolds, queued, ctl, req, crashes, faults>>

Administer(x, t) ==
  /\ Edit /\ Put(x, t, {})
  /\ UNCHANGED <<wsp, ctgt, cwsp, wHolds, queued, ctl, req, crashes, faults>>

DeleteTarget(x) == tgt[x].here /\ ~tgt[x].del /\ Administer(x, [tgt[x] EXCEPT !.del = TRUE])

EditTemplate(x) ==
  /\ x \in Templates /\ tgt[x].here /\ tgt[x].gen < MaxGen
  /\ Administer(x, [tgt[x] EXCEPT !.gen = @ + 1])

CreateTarget(x) == ~tgt[x].here /\ Administer(x, NewTarget)

Users ==
  \/ \E w \in Workspaces :
       CreateWorkspace(w) \/ EditWorkspace(w) \/ DeleteWorkspace(w) \/ Refuse(w)
  \/ \E x \in Targets : DeleteTarget(x) \/ EditTemplate(x) \/ CreateTarget(x)

Restart ==
  /\ crashes < MaxCrashes /\ crashes' = crashes + 1
  /\ ctgt' = tgt /\ cwsp' = wsp
  /\ tHolds' = [x \in Targets |-> {"cache"}] /\ wHolds' = [w \in Workspaces |-> {"cache"}]
  /\ queued' = {x \in Targets : tgt[x].here}
  /\ ctl' = [x \in Targets |-> Idle] /\ req' = [w \in Workspaces |-> NoRequest]
  /\ UNCHANGED <<objects, edits, faults>>

Operator ==
  \/ \E x \in Targets : Controllers(x) \/ SyncTarget(x)
  \/ \E w \in Workspaces :
       Admission(w) \/ Label(w) \/ RemoveFinalizer(w) \/ SyncWorkspace(w)

Next == Operator \/ Users \/ Restart

Spec == Init /\ [][Next]_vars

\* Work queues, informers and the API server make progress.
FairSpec ==
  /\ Spec
  /\ \A x \in Targets : WF_vars(Controllers(x)) /\ WF_vars(SyncTarget(x))
  /\ \A w \in Workspaces :
       /\ WF_vars(Admission(w)) /\ WF_vars(Label(w))
       /\ WF_vars(RemoveFinalizer(w)) /\ WF_vars(SyncWorkspace(w))
-------------------------------------------------------------------------------
\* Every variable has its type.
TypeOK ==
  /\ tgt \in [Targets -> Target] /\ ctgt \in [Targets -> Target]
  /\ wsp \in [Workspaces -> Workspace] /\ cwsp \in [Workspaces -> Workspace]
  /\ tHolds \in [Targets -> SUBSET ({"cache", "ctl"} \cup Workspaces)]
  /\ wHolds \in [Workspaces -> SUBSET {"cache", "req"}]
  /\ queued \subseteq Targets
  /\ ctl \in [Targets -> [pc: {"idle", "update", "recheck", "status"},
                          want: BOOLEAN, gen: Nat]]
  /\ req \in [Workspaces ->
               [pc: {"none", "default", "template", "lookup", "strategy", "recheck", "store"},
                op: BOOLEAN, new: Workspace]]
  /\ edits \in Nat /\ crashes \in Nat /\ faults \in Nat

UsersOf(x) ==
  {w \in Workspaces : Active(wsp[w]) /\ (wsp[w].tref = x \/ wsp[w].sref = x)}

\* Nothing is queued, running or on its way.
Quiet ==
  /\ queued = {} /\ \A x \in Targets : ctl[x].pc = "idle" /\ "cache" \in tHolds[x]
  /\ \A w \in Workspaces : /\ req[w] = NoRequest /\ "cache" \in wHolds[w]
                           /\ ~wsp[w].del
                           /\ Active(wsp[w]) => wsp[w] = Labelled(wsp[w])

\* No event is lost between labels, caches and finalizers: at rest a template or
\* strategy has its finalizer exactly while a workspace references it, none waits
\* for deletion without a user, and a template's generation is acknowledged.
Settled ==
  Quiet => \A x \in Targets : tgt[x].here =>
             /\ tgt[x].fin <=> UsersOf(x) # {}
             /\ x \in Templates /\ ~tgt[x].del => tgt[x].obs = tgt[x].gen

\* status.observedGeneration never runs ahead of the spec and, for one object,
\* never goes back, although it is written from cached copies.
ObservedKept ==
  \A x \in Targets : tgt'[x].here =>
    /\ tgt'[x].obs <= tgt'[x].gen
    /\ tgt[x].here => tgt[x].obs <= tgt'[x].obs
ObservedGeneration == [][ObservedKept]_vars

\* Active workspaces whose template is nowhere to be found: admission refuses
\* every update of theirs, the operator's labels included.
Dangling ==
  {w \in Workspaces : /\ Active(wsp[w]) /\ wsp[w].tref # None
                      /\ ResolveTemplate(wsp[w].tref) = None}

\* After the last edit, fault and restart the finalizers are on exactly the
\* templates and strategies in use, and those deleted without a user are gone,
\* unless a workspace's template was deleted before its labels were set.
ProtectionConverges ==
  <>[](Dangling # {} \/ \A x \in Targets : tgt[x].here => (tgt[x].fin <=> UsersOf(x) # {}))
=============================================================================
