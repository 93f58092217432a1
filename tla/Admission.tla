----------------------------- MODULE Admission -----------------------------
(***************************************************************************)
(* The admission webhooks of one workspace.  A request is defaulted        *)
(* (WorkspaceCustomDefaulter), validated (WorkspaceCustomValidator) and    *)
(* stored by the API server, while administrators edit the templates and   *)
(* service accounts it is judged by, and other requests overtake it.       *)
(* Absent values are None, quantities are naturals and zero is unset.      *)
(***************************************************************************)
EXTENDS Naturals

CONSTANTS
  Requests,       \* admission requests that may be in flight together
  Users,          \* users without privileges
  Admin,          \* a cluster administrator, or the operator itself
  None,
  Templates, Accounts, Images, Claims,
  Foreign,        \* the claims that belong to other workspaces
  Forms,          \* what a template's spec may be
  FirstForms,     \* what it is at first
  Labelled,       \* accounts with the default label at first
  Grants,         \* the users a service account's annotations may admit
  Quantities,     \* resources a user may ask for
  Stores,         \* storage a user may ask for
  Drafts,         \* specs a workspace may be created with
  MaxRequests,    \* requests
  MaxEdits        \* edits of templates and service accounts

Sharing == {"Public", "OwnerOnly"}
Optional(S) == S \cup {None}

Resources == [set: BOOLEAN, req: Nat, lim: Nat]
Storage   == [set: BOOLEAN, size: Nat, path: Optional({"path"})]

\* plain stands for the fields that are copied whole when absent:
\* containerConfig, appType, nodeSelector, affinity, tolerations, the access
\* strategy, lifecycle, idleShutdown and podSecurityContext.
WorkspaceSpec ==
  [tmpl: Optional(Templates), image: Optional(Images), own: Optional(Sharing),
   access: Optional(Sharing), res: Resources, store: Storage,
   vols: SUBSET Claims, sa: Optional(Accounts), plain: Optional({"plain"}),
   desired: {"Running", "Stopped"}]

\* bounds, storage.min and storage.max: zero when the template has none.
\* overrides: the idle shutdown policy, by which no workspace is judged.
TemplateSpec ==
  [image: Images, allowed: SUBSET Images, custom: BOOLEAN, own: Optional(Sharing),
   access: Optional(Sharing), res: Resources,
   bounds: [min: Nat, max: Nat],
   storage: [set: BOOLEAN, size: Nat, path: Optional({"path"}), min: Nat, max: Nat],
   secondary: BOOLEAN, plain: Optional({"plain"}), overrides: Nat]

NoResources == [set |-> FALSE, req |-> 0, lim |-> 0]
NoStorage   == [set |-> FALSE, size |-> 0, path |-> None]
Blank ==
  [tmpl |-> None, image |-> None, own |-> None, access |-> None, res |-> NoResources,
   store |-> NoStorage, vols |-> {}, sa |-> None, plain |-> None, desired |-> "Running"]

ASSUME AdmissionAssumption ==
  /\ Admin \notin Users
  /\ None \notin Users \cup {Admin} \cup Templates \cup Accounts \cup Images
                \cup Sharing \cup {"path", "plain"}
  /\ "default" \in Accounts
  /\ Forms \subseteq TemplateSpec /\ FirstForms \subseteq Forms /\ Foreign \subseteq Claims
  /\ Grants \subseteq SUBSET Users /\ Drafts \subseteq WorkspaceSpec
  /\ Quantities \subseteq Resources /\ Stores \subseteq Storage
  /\ MaxRequests \in Nat /\ MaxEdits \in Nat

VARIABLES
  ws,       \* the workspace stored; by: its created-by annotation
  tmpl,     \* templates; dflt: they carry the default-cluster-template label
  acct,     \* service accounts; dflt: the default label; users: whom they admit
  req,      \* the requests in flight
  asked,    \* how many requests were made
  epoch     \* how many edits of templates and accounts were made

vars == <<ws, tmpl, acct, req, asked, epoch>>

(***************************************************************************)
(* creator, vetted and settled are not in the code: who created the        *)
(* workspace, or was given it by an administrator, and the epochs for      *)
(* which its spec was last validated and last defaulted (Never: none).     *)
(***************************************************************************)
Never == MaxEdits + 1
NoWorkspace == [here |-> FALSE, del |-> FALSE, by |-> None, spec |-> Blank,
                creator |-> None, vetted |-> Never, settled |-> Never]
NoRequest == [pc |-> "none", op |-> "none", user |-> None, old |-> NoWorkspace,
              new |-> NoWorkspace, fresh |-> FALSE]

Init ==
  /\ ws = NoWorkspace
  /\ tmpl \in [Templates -> [here: {TRUE}, dflt: {FALSE}, form: FirstForms]]
  /\ acct = [a \in Accounts |-> [here |-> TRUE, dflt |-> a \in Labelled, users |-> {}]]
  /\ req = [r \in Requests |-> NoRequest]
  /\ asked = 0 /\ epoch = 0
-------------------------------------------------------------------------------
(***************************************************************************)
(* Defaulting.  An operator that may fail yields the set of its results,   *)
(* which is empty when the request is refused.                             *)
(***************************************************************************)
Or(x, default) == IF x = None THEN default ELSE x

\* A label that is to single out one object, and does not, fails the request.
Sole(S) == {x \in S : S = {x}}

DefaultTemplates == {t \in Templates : tmpl[t].here /\ tmpl[t].dflt}

ApplyTemplateName(s) ==
  IF s.tmpl # None \/ DefaultTemplates = {} THEN {s}
  ELSE {[s EXCEPT !.tmpl = t] : t \in Sole(DefaultTemplates)}

ApplyStorageDefaults(st, conf) ==
  LET given == st.set \/ conf.size # 0
  IN IF ~conf.set \/ ~given THEN st
     ELSE [set |-> TRUE, size |-> IF st.size = 0 THEN conf.size ELSE st.size,
           path |-> Or(st.path, conf.path)]

\* The registered applicators, in any order: none reads what another writes.
Filled(s, f) ==
  [s EXCEPT !.image = Or(@, f.image), !.own = Or(@, f.own), !.access = Or(@, f.access),
            !.plain = Or(@, f.plain),
            !.res = IF @.set THEN @ ELSE f.res,
            !.store = ApplyStorageDefaults(@, f.storage)]

ApplyTemplateDefaults(s) ==
  IF s.tmpl = None THEN {s}
  ELSE {Filled(s, tmpl[t].form) : t \in {t \in {s.tmpl} : tmpl[t].here}}

GetDefaultServiceAccount ==
  LET labelled == {a \in Accounts : acct[a].here /\ acct[a].dflt}
  IN IF labelled = {} THEN {"default"} ELSE Sole(labelled)

ApplyServiceAccountDefaults(s) ==
  IF s.sa # None THEN {s} ELSE {[s EXCEPT !.sa = a] : a \in GetDefaultServiceAccount}

\* Mutant: the access type is taken from the ownership type as it was sent.
SetWorkspaceSharingDefaultsRaw(s) ==
  [s EXCEPT !.own = Or(s.own, "Public"), !.access = Or(@, s.own)]

SetWorkspaceSharingDefaults(s) ==
  LET own == Or(s.own, "Public")
  IN [s EXCEPT !.own = own, !.access = Or(@, own)]

\* Default on a spec: its template's name, the template's defaults, the service
\* account, sharing.  (The finalizers it adds are ReferenceProtection's.)
Defaulted(s) ==
  {SetWorkspaceSharingDefaults(u) :
     u \in UNION {ApplyServiceAccountDefaults(v) :
                    v \in UNION {ApplyTemplateDefaults(w) : w \in ApplyTemplateName(s)}}}
-------------------------------------------------------------------------------
(***************************************************************************)
(* Validation.                                                             *)
(***************************************************************************)
ValidateImageAllowed(i, f) ==
  f.custom \/ i \in (IF f.allowed = {} THEN {f.image} ELSE f.allowed)

ValidateResourceBounds(q, f) ==
  /\ q.req # 0 /\ q.lim # 0 => q.req <= q.lim
  /\ f.bounds.max # 0 /\ q.req # 0 => q.req \in f.bounds.min .. f.bounds.max

ValidateStorageSize(n, conf) ==
  conf.set => n >= conf.min /\ (conf.max # 0 => n <= conf.max)

ValidateSecondaryStorages(vols, f) == vols # {} => f.secondary

Complies(s, f) ==
  /\ s.image # None => ValidateImageAllowed(s.image, f)
  /\ s.res.set => ValidateResourceBounds(s.res, f)
  /\ s.store.set /\ s.store.size # 0 => ValidateStorageSize(s.store.size, f.storage)
  /\ ValidateSecondaryStorages(s.vols, f)

ValidateCreateWorkspace(s) ==
  s.tmpl # None => tmpl[s.tmpl].here /\ Complies(s, tmpl[s.tmpl].form)

OnlyStopped(o, n) == /\ o.desired # "Stopped" /\ n = [o EXCEPT !.desired = "Stopped"]

\* Mutant: an unchanged template reference is never validated again.
ValidateUpdateWorkspaceRefOnly(o, n) ==
  n.tmpl = None \/ o.tmpl = n.tmpl \/ ValidateCreateWorkspace(n)

\* Mutant: a stop is validated like any other change.
ValidateUpdateWorkspaceStop(o, n) ==
  n.tmpl = None \/ o = n \/ ValidateCreateWorkspace(n)

\* Leaving the template, a change of metadata alone and a mere stop are free;
\* anything else must comply as a whole.
ValidateUpdateWorkspace(o, n) ==
  \/ n.tmpl = None
  \/ o = n \/ OnlyStopped(o, n)
  \/ ValidateCreateWorkspace(n)

ValidateVolumeOwnership(s) == s.vols \cap Foreign = {}

ValidateServiceAccountAccess(s, u) ==
  s.sa # None =>
    /\ acct[s.sa].here
    /\ s.sa \in GetDefaultServiceAccount \/ u \in acct[s.sa].users

GetEffectiveOwnershipType(own) == Or(own, "Public")

ValidateOwnershipPermission(w, u) == w.by = u

ValidateCreate(w, u) ==
  /\ ValidateCreateWorkspace(w.spec) /\ ValidateVolumeOwnership(w.spec)
  /\ u = Admin \/ ValidateServiceAccountAccess(w.spec, u)

\* Mutant: only the new ownership type counts.
ValidateUpdateNew(o, n, u) ==
  \/ o.del \/ u = Admin
  \/ /\ ValidateServiceAccountAccess(n.spec, u)
     /\ o.by # None => n.by = o.by
     /\ GetEffectiveOwnershipType(n.spec.own) = "OwnerOnly" => ValidateOwnershipPermission(o, u)
     /\ ValidateUpdateWorkspace(o.spec, n.spec)
     /\ ValidateVolumeOwnership(n.spec)

\* An OwnerOnly workspace, and one that is to become it, is its creator's.
ValidateUpdate(o, n, u) ==
  \/ o.del \/ u = Admin
  \/ /\ ValidateServiceAccountAccess(n.spec, u)
     /\ o.by # None => n.by = o.by
     /\ "OwnerOnly" \in {GetEffectiveOwnershipType(o.spec.own),
                         GetEffectiveOwnershipType(n.spec.own)}
          => ValidateOwnershipPermission(o, u)
     /\ ValidateUpdateWorkspace(o.spec, n.spec)
     /\ ValidateVolumeOwnership(n.spec)

ValidateDelete(o, u) ==
  \/ u = Admin
  \/ GetEffectiveOwnershipType(o.spec.own) = "OwnerOnly" => ValidateOwnershipPermission(o, u)
-------------------------------------------------------------------------------
(***************************************************************************)
(* Requests.  A user sends the object as they read it with a field of the  *)
(* spec or the created-by annotation changed.                              *)
(***************************************************************************)
Edited(w) ==
  {w} \cup {[w EXCEPT !.spec.tmpl = t] : t \in Optional(Templates)}
      \cup {[w EXCEPT !.spec.image = i] : i \in Optional(Images)}
      \cup {[w EXCEPT !.spec.own = x] : x \in Optional(Sharing)}
      \cup {[w EXCEPT !.spec.res = q] : q \in Quantities}
      \cup {[w EXCEPT !.spec.store = st] : st \in Stores}
      \cup {[w EXCEPT !.spec.vols = {c}] : c \in Claims}
      \cup {[w EXCEPT !.spec.sa = a] : a \in Optional(Accounts)}
      \cup {[w EXCEPT !.spec.desired = d] : d \in {"Running", "Stopped"}}
      \cup {[w EXCEPT !.by = u] : u \in Optional(Users)}

Ask(r) ==
  /\ req[r] = NoRequest /\ asked < MaxRequests /\ asked' = asked + 1
  /\ \E u \in Users \cup {Admin} :
       LET Send(op, pc, w) ==
             req' = [req EXCEPT ![r] = [pc |-> pc, op |-> op, user |-> u, old |-> ws,
                                        new |-> w, fresh |-> TRUE]]
       IN \/ ~ws.here /\ \E d \in Drafts : Send("create", "default", [NoWorkspace EXCEPT !.spec = d])
          \/ ws.here /\ \E w \in Edited(ws) : Send("update", "default", w)
          \/ ws.here /\ ~ws.del /\ Send("delete", "validate", ws)
  /\ UNCHANGED <<ws, tmpl, acct, epoch>>

Refuse(r) == req' = [req EXCEPT ![r] = NoRequest]

\* What Default leaves alone of an object that is being deleted is everything.
Default(r) ==
  LET q == req[r]
      results == IF q.new.del THEN {q.new}
                 ELSE {[q.new EXCEPT !.spec = s, !.settled = epoch,
                                      !.by = IF q.op = "create" THEN q.user ELSE @] :
                         s \in Defaulted(q.new.spec)}
  IN /\ q.pc = "default"
     /\ IF results = {} THEN Refuse(r)
        ELSE \E w \in results :
               req' = [req EXCEPT ![r].pc = "validate", ![r].new = w]
     /\ UNCHANGED <<ws, tmpl, acct, asked, epoch>>

Valid(q) ==
  CASE q.op = "create" -> ValidateCreate(q.new, q.user)
    [] q.op = "update" -> ValidateUpdate(q.old, q.new, q.user)
    [] q.op = "delete" -> ValidateDelete(q.old, q.user)

\* The epoch for which a validated spec is vouched for.
Vouched(q) ==
  IF q.op = "create" THEN epoch
  ELSE IF q.new.spec = q.old.spec \/ OnlyStopped(q.old.spec, q.new.spec) THEN q.old.vetted
  ELSE IF q.user = Admin \/ q.old.del THEN Never ELSE epoch

Validate(r) ==
  /\ req[r].pc = "validate"
  /\ IF Valid(req[r])
     THEN req' = [req EXCEPT ![r].pc = "store", ![r].new.vetted = Vouched(req[r])]
     ELSE Refuse(r)
  /\ UNCHANGED <<ws, tmpl, acct, asked, epoch>>

\* Request r ends with the workspace w; a request that read another is stale.
End(r, w) ==
  /\ ws' = w
  /\ req' = [x \in Requests |->
               IF x = r THEN NoRequest ELSE [req[x] EXCEPT !.fresh = @ /\ w = ws]]

Outcome(q) ==
  CASE q.op = "create" -> [q.new EXCEPT !.here = TRUE, !.creator = q.user]
    [] q.op = "update" -> [q.new EXCEPT !.creator =
                             IF q.user = Admin \/ ws.by = None THEN q.new.by ELSE @]
    [] q.op = "delete" -> [ws EXCEPT !.del = TRUE]

\* The API server stores what was admitted unless the workspace has changed.
Store(r) ==
  LET q == req[r]
      current == IF q.op = "create" THEN ~ws.here ELSE q.fresh
  IN /\ q.pc = "store"
     /\ End(r, IF current THEN Outcome(q) ELSE ws)
     /\ UNCHANGED <<tmpl, acct, asked, epoch>>

\* The operator removes the finalizer of a deleted workspace.
Finalize ==
  /\ ws.del /\ ws' = NoWorkspace
  /\ req' = [x \in Requests |-> [req[x] EXCEPT !.fresh = FALSE]]
  /\ UNCHANGED <<tmpl, acct, asked, epoch>>
-------------------------------------------------------------------------------
(***************************************************************************)
(* Administrators.                                                         *)
(***************************************************************************)
Edit == epoch < MaxEdits /\ epoch' = epoch + 1 /\ UNCHANGED <<ws, req, asked>>

\* ValidateUpdate of the template webhook lets every change pass.
EditTemplate(t) ==
  /\ Edit /\ tmpl[t].here
  /\ \/ \E f \in Forms : tmpl' = [tmpl EXCEPT ![t].form = f]
     \/ tmpl' = [tmpl EXCEPT ![t].dflt = ~@]
  /\ UNCHANGED acct

\* Its finalizer keeps a template while the stored workspace names it.
DeleteTemplate(t) ==
  /\ Edit /\ tmpl[t].here /\ (ws.here => ws.spec.tmpl # t)
  /\ tmpl' = [tmpl EXCEPT ![t].here = FALSE, ![t].dflt = FALSE]
  /\ UNCHANGED acct

EditAccount(a) ==
  /\ Edit
  /\ \/ acct' = [acct EXCEPT ![a].here = ~@]
     \/ acct' = [acct EXCEPT ![a].dflt = ~@]
     \/ \E us \in Grants : acct' = [acct EXCEPT ![a].users = us]
  /\ UNCHANGED tmpl

\* Mutant: the minimum of the storage size is not compared.
ConstraintsChangedMax(old, new) ==
  \/ old.allowed # new.allowed \/ old.bounds # new.bounds \/ old.overrides # new.overrides
  \/ old.storage.set # new.storage.set \/ old.storage.max # new.storage.max

\* The template webhook's warning that workspaces may no longer comply.
ConstraintsChanged(old, new) ==
  \/ old.allowed # new.allowed \/ old.bounds # new.bounds \/ old.overrides # new.overrides
  \/ old.storage.set # new.storage.set
  \/ new.storage.set /\ <<old.storage.min, old.storage.max>> # <<new.storage.min, new.storage.max>>

Admins ==
  \/ \E t \in Templates : EditTemplate(t) \/ DeleteTemplate(t)
  \/ \E a \in Accounts : EditAccount(a)

Next ==
  \/ \E r \in Requests : Ask(r) \/ Default(r) \/ Validate(r) \/ Store(r)
  \/ Finalize \/ Admins

Spec == Init /\ [][Next]_vars
-------------------------------------------------------------------------------
Workspace ==
  [here: BOOLEAN, del: BOOLEAN, by: Optional(Users \cup {Admin}), spec: WorkspaceSpec,
   creator: Optional(Users \cup {Admin}), vetted: 0 .. Never, settled: 0 .. Never]

\* Every variable has its type; a stored workspace has been through all the
\* defaults that need no template.
TypeOK ==
  /\ ws \in Workspace
  /\ ws.here /\ ~ws.del => None \notin {ws.spec.own, ws.spec.access, ws.spec.sa}
  /\ tmpl \in [Templates -> [here: BOOLEAN, dflt: BOOLEAN, form: Forms]]
  /\ acct \in [Accounts -> [here: BOOLEAN, dflt: BOOLEAN, users: Grants \cup {{}}]]
  /\ req \in [Requests -> [pc: {"none", "default", "validate", "store"},
                           op: {"none", "create", "update", "delete"},
                           user: Optional(Users \cup {Admin}), old: Workspace,
                           new: Workspace, fresh: BOOLEAN]]
  /\ asked \in 0 .. MaxRequests /\ epoch \in 0 .. MaxEdits

\* As long as nothing it depends on is edited and no administrator rewrites it, a
\* stored workspace complies with its template, whichever of the exemptions of
\* ValidateUpdateWorkspace its updates used and whatever overtook them.
Vetted ==
  ws.here /\ ws.vetted = epoch /\ ws.spec.tmpl # None
    => tmpl[ws.spec.tmpl].here /\ Complies(ws.spec, tmpl[ws.spec.tmpl].form)

\* The operator's updates of labels and finalizers pass the defaulting webhook as
\* well: defaulting a stored spec again changes nothing until a template or
\* service account is edited.
Settled == ws.here /\ ~ws.del /\ ws.settled = epoch => Defaulted(ws.spec) = {ws.spec}

Writes(r) == req[r].pc = "store" /\ req'[r] = NoRequest /\ ws' # ws
Owned(w) == w.here /\ ~w.del /\ GetEffectiveOwnershipType(w.spec.own) = "OwnerOnly"

\* An OwnerOnly workspace is changed, deleted, and made OwnerOnly, only by the user
\* who created it or by an administrator (ValidateUpdate, ValidateDelete), although
\* what they check was read before other writes and created-by is the users' to send.
OwnerOnlyHeld ==
  [][\A r \in Requests :
       Writes(r) /\ ws.here /\ ~ws.del /\ (Owned(ws) \/ Owned(ws'))
         => req[r].user \in {ws.creator, Admin}]_vars

Refused(r) == req[r].pc \in {"default", "validate"} /\ req'[r] = NoRequest

\* template_validator.go:142: a mere stop passes "without validation".  The creator's
\* stop to which defaulting has nothing to add is refused only when the template is
\* gone or the default one ambiguous, the service account is no longer theirs to use,
\* or an administrator has mounted another workspace's claim.
StopRefusals ==
  [][\A r \in Requests :
       LET q == req[r]
       IN Refused(r) /\ q.op = "update" /\ q.user = q.old.by
            /\ OnlyStopped(q.old.spec, q.new.spec) /\ q.new.by = q.old.by =>
              \/ q.pc = "default" /\ IF q.new.spec.tmpl = None THEN \E t, u \in DefaultTemplates : t # u
                                    ELSE ~tmpl[q.new.spec.tmpl].here
              \/ q.pc = "validate" /\ ~ValidateServiceAccountAccess(q.new.spec, q.user)
              \/ q.pc = "validate" /\ ~ValidateVolumeOwnership(q.new.spec)]_vars

\* A change of a template that makes a compliant workspace violate it is announced
\* by the template webhook, unless it is a change of the default image, of
\* allowCustomImages or of allowSecondaryStorages.
TighteningAnnounced ==
  [][\A t \in Templates :
       LET old == tmpl[t].form
           new == tmpl'[t].form
       IN ws.here /\ Complies(ws.spec, old) /\ ~Complies(ws.spec, new) =>
            \/ ConstraintsChanged(old, new)
            \/ <<old.image, old.custom, old.secondary>> # <<new.image, new.custom, new.secondary>>]_vars
=============================================================================
