-------------------------- MODULE Admission_proofs --------------------------
(* Proofs about Admission, for any templates, accounts, users and requests. *)
EXTENDS Admission, TLAPS

\* The provers are tried in turn, with more time than by default: contexts are large.
USE SMTT(30), ZenonT(20), Z3T(30)

Complete(s) == None \notin {s.own, s.access, s.sa}

\* The state the defaulters and validators read.
Catalogue ==
  /\ tmpl \in [Templates -> [here: BOOLEAN, dflt: BOOLEAN, form: Forms]]
  /\ acct \in [Accounts -> [here: BOOLEAN, dflt: BOOLEAN, users: Grants \cup {{}}]]

Request == [pc: {"none", "default", "validate", "store"},
            op: {"none", "create", "update", "delete"},
            user: Optional(Users \cup {Admin}), old: Workspace,
            new: Workspace, fresh: BOOLEAN]

\* Nothing is vouched for ahead of time.
Recent(w) == {w.vetted, w.settled} \subseteq (0 .. epoch) \cup {Never}

\* What is defaulted, and whose a workspace is, until it is being deleted.
Kept(w) == w.here /\ ~w.del => Complete(w.spec) /\ w.by = w.creator

SettledSpec(w) == w.settled = epoch => Defaulted(w.spec) = {w.spec}
VettedSpec(w) == w.vetted = epoch => ValidateCreateWorkspace(w.spec)

\* What ValidateUpdate and ValidateDelete make sure of, whatever is stored meanwhile.
OwnerOnly(w) == GetEffectiveOwnershipType(w.spec.own) = "OwnerOnly"
Permitted(q) ==
  \/ q.user = Admin
  \/ /\ q.op = "update" /\ ~q.old.del =>
            /\ q.old.by # None => q.new.by = q.old.by
            /\ OwnerOnly(q.old) \/ OwnerOnly(q.new) => q.old.by = q.user
     /\ q.op = "delete" => (OwnerOnly(q.old) => q.old.by = q.user)

\* Where a request stands.
Sound(q) ==
  /\ Recent(q.old) /\ Recent(q.new)
  /\ q.fresh => q.old = ws
  /\ q.pc # "none" => q.op # "none" /\ q.user # None
  /\ q.pc = "default" => q.op # "delete"
  /\ q.op = "create" => ~q.new.here /\ ~q.new.del
  /\ q.op = "update" => /\ q.old.here /\ Kept(q.old)
                        /\ q.new.here /\ q.new.del = q.old.del /\ q.new.creator = q.old.creator
  /\ q.pc \in {"validate", "store"} /\ q.op # "delete" /\ ~q.new.del =>
       /\ Complete(q.new.spec) /\ SettledSpec(q.new)
       /\ q.op = "create" => q.new.by = q.user
  /\ q.pc = "store" /\ (q.op = "create" \/ (q.op = "update" /\ q.fresh)) => VettedSpec(q.new)
  /\ q.pc = "store" => Permitted(q)

IInv ==
  /\ TypeOK
  /\ Recent(ws) /\ Kept(ws)
  /\ ws.here => VettedSpec(ws)
  /\ ws.here /\ ~ws.del => SettledSpec(ws)
  /\ \A r \in Requests : Sound(req[r])
-----------------------------------------------------------------------------
(***************************************************************************)
(* Defaulting, stage by stage.                                             *)
(***************************************************************************)
LEMMA NameGiven ==
  ASSUME Catalogue, NEW s \in WorkspaceSpec, NEW w \in ApplyTemplateName(s)
  PROVE  /\ w \in WorkspaceSpec
         /\ w.tmpl = None => DefaultTemplates = {}
         /\ s.sa = w.sa
         /\ s.tmpl # None => w.tmpl = s.tmpl
<1>1. CASE s.tmpl # None \/ DefaultTemplates = {}
  BY <1>1 DEF ApplyTemplateName
<1>2. CASE ~(s.tmpl # None \/ DefaultTemplates = {})
  <2>1. PICK t \in Templates : w = [s EXCEPT !.tmpl = t]
    BY <1>2, Zenon DEF ApplyTemplateName, Sole, DefaultTemplates
  <2> QED BY <1>2, <2>1, AdmissionAssumption DEF WorkspaceSpec, Optional
<1> QED BY <1>1, <1>2

\* What the storage defaulter yields, and that it has nothing more to do then.
LEMMA StorageFilled ==
  ASSUME NEW st \in Storage, NEW f \in Forms
  PROVE  LET x == ApplyStorageDefaults(st, f.storage) IN
         x \in Storage /\ ApplyStorageDefaults(x, f.storage) = x
<1> DEFINE x == ApplyStorageDefaults(st, f.storage)
<1>1. /\ f.storage.set \in BOOLEAN /\ f.storage.size \in Nat /\ f.storage.path \in Optional({"path"})
  BY AdmissionAssumption DEF TemplateSpec
<1>2. CASE ~f.storage.set \/ ~(st.set \/ f.storage.size # 0)
  BY <1>2 DEF ApplyStorageDefaults
<1>3. CASE f.storage.set /\ (st.set \/ f.storage.size # 0)
  <2> DEFINE n == IF st.size = 0 THEN f.storage.size ELSE st.size
             p == Or(st.path, f.storage.path)
  <2>1. x = [set |-> TRUE, size |-> n, path |-> p]
    BY <1>3 DEF ApplyStorageDefaults
  <2>2. n \in Nat /\ p \in Optional({"path"})
    BY <1>1 DEF Storage, Or
  <2>3. (IF n = 0 THEN f.storage.size ELSE n) = n /\ Or(p, f.storage.path) = p
    BY DEF Or
  <2> HIDE DEF n, p
  <2>4. ApplyStorageDefaults(x, f.storage) = x
    BY <1>3, <2>1, <2>3, Zenon DEF ApplyStorageDefaults
  <2> QED BY <2>1, <2>2, <2>4 DEF Storage
<1> QED BY <1>2, <1>3

\* What a template fills in.
LEMMA FormFilled ==
  ASSUME NEW s \in WorkspaceSpec, NEW f \in Forms
  PROVE  Filled(s, f) \in WorkspaceSpec
<1>1. f \in TemplateSpec
  BY AdmissionAssumption
<1>2. s.store \in Storage /\ ApplyStorageDefaults(s.store, f.storage) \in Storage
  BY StorageFilled DEF WorkspaceSpec
<1>3. /\ Or(s.image, f.image) \in Optional(Images) /\ Or(s.own, f.own) \in Optional(Sharing)
      /\ Or(s.access, f.access) \in Optional(Sharing) /\ Or(s.plain, f.plain) \in Optional({"plain"})
  BY <1>1 DEF Or, WorkspaceSpec, TemplateSpec, Optional
<1>4. (IF s.res.set THEN s.res ELSE f.res) \in Resources
  BY <1>1 DEF WorkspaceSpec, TemplateSpec
<1> QED BY <1>2, <1>3, <1>4, Zenon DEF Filled, WorkspaceSpec

\* ApplyTemplateDefaults leaves the name, and applied again it has nothing to do; nor
\* has it when only what is still absent afterwards has been set.
LEMMA TemplateApplied ==
  ASSUME Catalogue, NEW s \in WorkspaceSpec, NEW w \in ApplyTemplateDefaults(s)
  PROVE  /\ w \in WorkspaceSpec /\ w.tmpl = s.tmpl /\ w.sa = s.sa
         /\ \A d \in WorkspaceSpec :
              /\ d.tmpl = w.tmpl /\ d.image = w.image /\ d.plain = w.plain
              /\ d.res = w.res /\ d.store = w.store
              /\ d.own # None /\ d.access # None
              => ApplyTemplateDefaults(d) = {d}
<1>1. CASE s.tmpl = None
  BY <1>1 DEF ApplyTemplateDefaults
<1>2. CASE s.tmpl # None
  <2> DEFINE f == tmpl[s.tmpl].form
  <2>1. s.tmpl \in Templates /\ tmpl[s.tmpl].here /\ w = Filled(s, f) /\ f \in Forms
    BY <1>2 DEF ApplyTemplateDefaults, Catalogue, WorkspaceSpec, Optional
  <2> HIDE DEF f
  <2>2. w \in WorkspaceSpec
    BY <2>1, FormFilled
  <2>3. /\ w.tmpl = s.tmpl /\ w.sa = s.sa /\ w.image = Or(s.image, f.image)
        /\ w.plain = Or(s.plain, f.plain) /\ w.res = (IF s.res.set THEN s.res ELSE f.res)
        /\ w.store = ApplyStorageDefaults(s.store, f.storage)
    BY <2>1 DEF Filled, WorkspaceSpec
  <2>4. ASSUME NEW d \in WorkspaceSpec,
               d.tmpl = w.tmpl, d.image = w.image, d.plain = w.plain, d.res = w.res,
               d.store = w.store, d.own # None, d.access # None
        PROVE  ApplyTemplateDefaults(d) = {d}
    <3>1. /\ Or(d.image, f.image) = d.image /\ Or(d.plain, f.plain) = d.plain
          /\ Or(d.own, f.own) = d.own /\ Or(d.access, f.access) = d.access
      BY <2>3, <2>4 DEF Or
    <3>2. (IF d.res.set THEN d.res ELSE f.res) = d.res
      BY <2>3, <2>4
    <3>3. ApplyStorageDefaults(d.store, f.storage) = d.store
      BY <2>1, <2>3, <2>4, StorageFilled DEF WorkspaceSpec
    <3>4. Filled(d, f) = d
      BY <3>1, <3>2, <3>3, Zenon DEF Filled, WorkspaceSpec
    <3>5. ApplyTemplateDefaults(d) = {Filled(d, tmpl[t].form) : t \in {s.tmpl}}
      BY <1>2, <2>1, <2>3, <2>4 DEF ApplyTemplateDefaults
    <3> QED BY <3>4, <3>5 DEF f
  <2> QED BY <2>2, <2>3, <2>4
<1> QED BY <1>1, <1>2

LEMMA AccountApplied ==
  ASSUME Catalogue, NEW s \in WorkspaceSpec, NEW w \in ApplyServiceAccountDefaults(s)
  PROVE  w \in WorkspaceSpec /\ w.sa # None /\ \E a : w = [s EXCEPT !.sa = a]
<1>1. CASE s.sa # None
  <2>1. s = [s EXCEPT !.sa = s.sa]
    BY DEF WorkspaceSpec
  <2> QED BY <1>1, <2>1 DEF ApplyServiceAccountDefaults
<1>2. CASE s.sa = None
  <2>0. GetDefaultServiceAccount \subseteq Accounts
    BY AdmissionAssumption DEF GetDefaultServiceAccount, Sole
  <2>1. PICK a \in Accounts : w = [s EXCEPT !.sa = a]
    BY <1>2, <2>0, Zenon DEF ApplyServiceAccountDefaults
  <2> QED BY <2>1, AdmissionAssumption, Zenon DEF WorkspaceSpec, Optional
<1> QED BY <1>1, <1>2

LEMMA SharingApplied ==
  ASSUME NEW s \in WorkspaceSpec
  PROVE  LET d == SetWorkspaceSharingDefaults(s) IN
         /\ d \in WorkspaceSpec /\ d.own # None /\ d.access # None
         /\ d.tmpl = s.tmpl /\ d.image = s.image /\ d.plain = s.plain
         /\ d.res = s.res /\ d.store = s.store /\ d.sa = s.sa
         /\ SetWorkspaceSharingDefaults(d) = d
<1> DEFINE own == Or(s.own, "Public")
           access == Or(s.access, own)
           d == SetWorkspaceSharingDefaults(s)
<1>1. own \in Sharing /\ access \in Sharing /\ None \notin Sharing
  BY AdmissionAssumption DEF Or, WorkspaceSpec, Optional, Sharing
<1>2. d = [s EXCEPT !.own = own, !.access = access]
  BY DEF SetWorkspaceSharingDefaults
<1> HIDE DEF d, own, access
<1>3. /\ d \in WorkspaceSpec /\ d.own = own /\ d.access = access
      /\ d.tmpl = s.tmpl /\ d.image = s.image /\ d.plain = s.plain
      /\ d.res = s.res /\ d.store = s.store /\ d.sa = s.sa
  BY <1>1, <1>2, Zenon DEF WorkspaceSpec, Optional
<1>4. Or(d.own, "Public") = d.own /\ Or(d.access, d.own) = d.access
  BY <1>1, <1>3 DEF Or
<1>5. SetWorkspaceSharingDefaults(d) = d
  BY <1>3, <1>4, Zenon DEF SetWorkspaceSharingDefaults, WorkspaceSpec
<1> QED BY <1>1, <1>3, <1>5 DEF d

\* Default is idempotent: a second pass over what a first one made changes nothing.
LEMMA Idempotent ==
  ASSUME Catalogue, NEW s \in WorkspaceSpec, NEW d \in Defaulted(s)
  PROVE  d \in WorkspaceSpec /\ Complete(d) /\ Defaulted(d) = {d}
<1>1. PICK w, v, u : /\ w \in ApplyTemplateName(s) /\ v \in ApplyTemplateDefaults(w)
                     /\ u \in ApplyServiceAccountDefaults(v)
                     /\ d = SetWorkspaceSharingDefaults(u)
  BY DEF Defaulted
<1>2. w \in WorkspaceSpec /\ (w.tmpl = None => DefaultTemplates = {})
  BY <1>1, NameGiven
<1>3. /\ v \in WorkspaceSpec /\ v.tmpl = w.tmpl
      /\ \A e \in WorkspaceSpec :
           /\ e.tmpl = v.tmpl /\ e.image = v.image /\ e.plain = v.plain
           /\ e.res = v.res /\ e.store = v.store
           /\ e.own # None /\ e.access # None
           => ApplyTemplateDefaults(e) = {e}
  BY <1>1, <1>2, TemplateApplied
<1>4. u \in WorkspaceSpec /\ u.sa # None /\ \E a : u = [v EXCEPT !.sa = a]
  BY <1>1, <1>3, AccountApplied
<1>5. u.tmpl = v.tmpl /\ u.image = v.image /\ u.plain = v.plain /\ u.res = v.res /\ u.store = v.store
  BY <1>3, <1>4 DEF WorkspaceSpec
<1>6. /\ d \in WorkspaceSpec /\ d.own # None /\ d.access # None /\ d.sa # None
      /\ d.tmpl = v.tmpl /\ d.image = v.image /\ d.plain = v.plain
      /\ d.res = v.res /\ d.store = v.store /\ SetWorkspaceSharingDefaults(d) = d
  BY <1>1, <1>4, <1>5, SharingApplied, Zenon
<1>7. ApplyTemplateName(d) = {d}
  BY <1>2, <1>3, <1>6 DEF ApplyTemplateName
<1>8. ApplyTemplateDefaults(d) = {d}
  BY <1>3, <1>6
<1>9. ApplyServiceAccountDefaults(d) = {d}
  BY <1>6 DEF ApplyServiceAccountDefaults
<1>10. Defaulted(d) = {d}
  BY <1>6, <1>7, <1>8, <1>9 DEF Defaulted
<1> QED BY <1>6, <1>10 DEF Complete
-----------------------------------------------------------------------------
(***************************************************************************)
(* The inductive invariant.                                                *)
(***************************************************************************)
LEMMA Blanks ==
  /\ NoWorkspace \in Workspace /\ NoRequest \in Request
  /\ ~NoWorkspace.here /\ ~NoWorkspace.del /\ NoWorkspace.vetted = Never
  /\ NoWorkspace.settled = Never
  /\ NoRequest.pc = "none" /\ NoRequest.op = "none" /\ ~NoRequest.fresh
  /\ NoRequest.old = NoWorkspace /\ NoRequest.new = NoWorkspace
<1>1. Blank \in WorkspaceSpec
  BY DEF Blank, NoResources, NoStorage, WorkspaceSpec, Resources, Storage, Optional
<1>2. Never \in 0 .. Never
  BY AdmissionAssumption DEF Never
<1>3. NoWorkspace \in Workspace
  BY <1>1, <1>2 DEF NoWorkspace, Workspace, Optional
<1> QED BY <1>3 DEF NoWorkspace, NoRequest, Request, Optional

LEMMA Typed ==
  TypeOK <=> /\ ws \in Workspace /\ (ws.here /\ ~ws.del => Complete(ws.spec))
             /\ Catalogue /\ req \in [Requests -> Request]
             /\ asked \in 0 .. MaxRequests /\ epoch \in 0 .. MaxEdits
  BY DEF TypeOK, Complete, Catalogue, Request

LEMMA TypedNext ==
  TypeOK' <=> /\ ws' \in Workspace /\ (ws'.here /\ ~ws'.del => Complete(ws'.spec))
              /\ Catalogue' /\ req' \in [Requests -> Request]
              /\ asked' \in 0 .. MaxRequests /\ epoch' \in 0 .. MaxEdits
  BY DEF TypeOK, Complete, Catalogue, Request

\* While templates and accounts stay, so do the answers of defaulters and validators.
LEMMA SameAnswers ==
  ASSUME UNCHANGED <<tmpl, acct>>
  PROVE  \A s : /\ Defaulted(s)' = Defaulted(s)
                /\ ValidateCreateWorkspace(s)' <=> ValidateCreateWorkspace(s)
  BY DEF Defaulted, ApplyTemplateName, DefaultTemplates, ApplyTemplateDefaults,
         ApplyServiceAccountDefaults, GetDefaultServiceAccount, ValidateCreateWorkspace

LEMMA NoRequestSound == epoch \in Nat => Sound(NoRequest)
  BY Blanks DEF Sound, Recent

\* A request that nothing happens to, or that is overtaken.
LEMMA Overtaken ==
  ASSUME UNCHANGED <<tmpl, acct, epoch>>, NEW q \in Request, Sound(q), NEW p \in Request,
         \/ p = q /\ ws' = ws
         \/ p = [q EXCEPT !.fresh = FALSE]
  PROVE  Sound(p)'
<1>1. CASE p = q /\ ws' = ws
  BY <1>1, SameAnswers DEF Sound, Recent, SettledSpec, VettedSpec, Kept
<1>2. CASE p = [q EXCEPT !.fresh = FALSE]
  <2>1. /\ p.pc = q.pc /\ p.op = q.op /\ p.user = q.user /\ p.old = q.old /\ p.new = q.new
        /\ ~p.fresh
    BY <1>2 DEF Request
  <2> QED BY <2>1, SameAnswers DEF Sound, Recent, SettledSpec, VettedSpec, Kept, Permitted
<1> QED BY <1>1, <1>2

\* A step of one request that stores nothing.
LEMMA OneRequest ==
  ASSUME IInv, NEW r \in Requests, NEW q \in Request, Sound(q),
         req' = [req EXCEPT ![r] = q], UNCHANGED <<ws, tmpl, acct, epoch>>,
         asked' \in 0 .. MaxRequests
  PROVE  IInv'
<1>1. TypeOK'
  BY Typed, TypedNext DEF IInv, Catalogue
<1>2. ASSUME NEW x \in Requests PROVE Sound(req[x])'
  <2>1. req'[x] \in Request /\ Sound(req'[x]) /\ req'[x] = IF x = r THEN q ELSE req[x]
    BY Typed DEF IInv
  <2> QED BY <2>1, Overtaken
<1>3. Recent(ws)' /\ Kept(ws)' /\ (ws.here => VettedSpec(ws))'
      /\ (ws.here /\ ~ws.del => SettledSpec(ws))'
  BY SameAnswers DEF IInv, Recent, Kept, VettedSpec, SettledSpec
<1> QED BY <1>1, <1>2, <1>3 DEF IInv

LEMMA InitIInv == Init => IInv
<1> SUFFICES ASSUME Init PROVE IInv
  OBVIOUS
<1>1. /\ ws \in Workspace /\ ~ws.here /\ epoch = 0 /\ asked = 0 /\ Catalogue
      /\ req \in [Requests -> Request]
  <2>1. tmpl \in [Templates -> [here: BOOLEAN, dflt: BOOLEAN, form: Forms]]
    BY AdmissionAssumption, Zenon DEF Init
  <2>2. acct \in [Accounts -> [here: BOOLEAN, dflt: BOOLEAN, users: Grants \cup {{}}]]
    BY DEF Init
  <2> QED BY <2>1, <2>2, Blanks DEF Init, Catalogue
<1>2. TypeOK
  BY <1>1, Typed, AdmissionAssumption
<1>3. Recent(ws)
  BY Blanks DEF Init, Recent
<1>4. \A r \in Requests : Sound(req[r])
  <2>1. \A r \in Requests : req[r] = NoRequest
    BY DEF Init
  <2> QED BY <1>1, <2>1, NoRequestSound, Zenon
<1> QED BY <1>1, <1>2, <1>3, <1>4 DEF IInv, Kept

\* A user's edit leaves the rest of the object alone.
LEMMA EditedKeeps ==
  ASSUME NEW w \in Workspace, NEW e \in Edited(w)
  PROVE  /\ e \in Workspace /\ e.here = w.here /\ e.del = w.del /\ e.creator = w.creator
         /\ e.vetted = w.vetted /\ e.settled = w.settled
<1> USE AdmissionAssumption
<1>1. CASE e = w
  BY <1>1
<1>2. CASE \E x \in Optional(Users) : e = [w EXCEPT !.by = x]
  BY <1>2 DEF Workspace, Optional
<1>3. ASSUME NEW s \in WorkspaceSpec, e = [w EXCEPT !.spec = s]
      PROVE  /\ e \in Workspace /\ e.here = w.here /\ e.del = w.del /\ e.creator = w.creator
             /\ e.vetted = w.vetted /\ e.settled = w.settled
  BY <1>3 DEF Workspace
<1> DEFINE s == w.spec
<1>4. s \in WorkspaceSpec
  BY DEF Workspace
<1>5. ASSUME e # w, ~\E x \in Optional(Users) : e = [w EXCEPT !.by = x]
      PROVE  \E t \in WorkspaceSpec : e = [w EXCEPT !.spec = t]
  <2>1. CASE \E x \in Optional(Templates) : e = [w EXCEPT !.spec.tmpl = x]
    BY <1>4, <2>1, Zenon DEF WorkspaceSpec
  <2>2. CASE \E x \in Optional(Images) : e = [w EXCEPT !.spec.image = x]
    BY <1>4, <2>2, Zenon DEF WorkspaceSpec
  <2>3. CASE \E x \in Optional(Sharing) : e = [w EXCEPT !.spec.own = x]
    BY <1>4, <2>3, Zenon DEF WorkspaceSpec
  <2>4. CASE \E x \in Quantities : e = [w EXCEPT !.spec.res = x]
    BY <1>4, <2>4, Zenon DEF WorkspaceSpec
  <2>5. CASE \E x \in Stores : e = [w EXCEPT !.spec.store = x]
    BY <1>4, <2>5, Zenon DEF WorkspaceSpec
  <2>6. CASE \E x \in Claims : e = [w EXCEPT !.spec.vols = {x}]
    <3>1. PICK x \in Claims : e = [w EXCEPT !.spec.vols = {x}]
      BY <2>6, Zenon
    <3>2. [s EXCEPT !.vols = {x}] \in WorkspaceSpec
      BY <1>4, <3>1 DEF WorkspaceSpec
    <3> QED
      BY <3>1, <3>2, Zenon
  <2>7. CASE \E x \in Optional(Accounts) : e = [w EXCEPT !.spec.sa = x]
    BY <1>4, <2>7, Zenon DEF WorkspaceSpec
  <2>8. CASE \E x \in {"Running", "Stopped"} : e = [w EXCEPT !.spec.desired = x]
    BY <1>4, <2>8, Zenon DEF WorkspaceSpec
  <2> QED BY <1>5, <2>1, <2>2, <2>3, <2>4, <2>5, <2>6, <2>7, <2>8 DEF Edited
<1> QED BY <1>1, <1>2, <1>3, <1>5

LEMMA AskIInv == ASSUME IInv, NEW r \in Requests, Ask(r) PROVE IInv'
<1> USE AdmissionAssumption
<1>1. ws \in Workspace /\ Recent(ws) /\ Kept(ws) /\ epoch \in Nat
  BY Typed DEF IInv
<1>2. asked' \in 0 .. MaxRequests
  BY Typed DEF IInv, Ask
<1>3. PICK u \in Users \cup {Admin} :
        LET Send(op, pc, w) ==
              req' = [req EXCEPT ![r] = [pc |-> pc, op |-> op, user |-> u, old |-> ws,
                                         new |-> w, fresh |-> TRUE]]
        IN \/ ~ws.here /\ \E d \in Drafts : Send("create", "default", [NoWorkspace EXCEPT !.spec = d])
           \/ ws.here /\ \E w \in Edited(ws) : Send("update", "default", w)
           \/ ws.here /\ ~ws.del /\ Send("delete", "validate", ws)
  BY DEF Ask
<1>4. ASSUME NEW q \in Request, Sound(q), req' = [req EXCEPT ![r] = q] PROVE IInv'
  BY <1>2, <1>4, OneRequest, Zenon DEF Ask
<1>5. ASSUME NEW op \in {"create", "update", "delete"}, NEW pc \in {"default", "validate"},
             NEW w \in Workspace, pc = "default" <=> op # "delete", Recent(w),
             op = "create" => ~w.here /\ ~w.del,
             op = "update" => ws.here /\ w.here /\ w.del = ws.del /\ w.creator = ws.creator,
             req' = [req EXCEPT ![r] = [pc |-> pc, op |-> op, user |-> u, old |-> ws,
                                        new |-> w, fresh |-> TRUE]]
      PROVE  IInv'
  <2> DEFINE q == [pc |-> pc, op |-> op, user |-> u, old |-> ws, new |-> w, fresh |-> TRUE]
  <2>1. q \in Request
    BY <1>1, <1>5 DEF Request, Optional
  <2>2. /\ q.pc = pc /\ q.op = op /\ q.user = u /\ q.old = ws /\ q.new = w /\ q.fresh
    OBVIOUS
  <2> HIDE DEF q
  <2>3. Sound(q)
    BY ZenonT(30), <1>1, <1>5, <2>2 DEF Sound
  <2> QED BY <1>4, <1>5, <2>1, <2>3, Zenon DEF q
<1>6. ASSUME ~ws.here, NEW d \in Drafts,
             req' = [req EXCEPT ![r] = [pc |-> "default", op |-> "create", user |-> u, old |-> ws,
                                        new |-> [NoWorkspace EXCEPT !.spec = d], fresh |-> TRUE]]
      PROVE  IInv'
  <2> DEFINE w == [NoWorkspace EXCEPT !.spec = d]
  <2>1. w \in Workspace /\ ~w.here /\ ~w.del /\ w.vetted = Never /\ w.settled = Never
    BY Blanks DEF Workspace
  <2>2. Recent(w)
    BY <2>1 DEF Recent
  <2> HIDE DEF w
  <2> QED BY <1>5, <1>6, <2>1, <2>2, Zenon DEF w
<1>7. ASSUME ws.here, NEW w \in Edited(ws),
             req' = [req EXCEPT ![r] = [pc |-> "default", op |-> "update", user |-> u, old |-> ws,
                                        new |-> w, fresh |-> TRUE]]
      PROVE  IInv'
  <2>1. /\ w \in Workspace /\ w.here = ws.here /\ w.del = ws.del /\ w.creator = ws.creator
        /\ w.vetted = ws.vetted /\ w.settled = ws.settled
    BY <1>1, EditedKeeps
  <2>2. Recent(w)
    BY <1>1, <2>1 DEF Recent
  <2> QED BY <1>5, <1>7, <2>1, <2>2, Zenon
<1>8. ASSUME req' = [req EXCEPT ![r] = [pc |-> "validate", op |-> "delete", user |-> u, old |-> ws,
                                        new |-> ws, fresh |-> TRUE]]
      PROVE  IInv'
  BY <1>1, <1>5, <1>8, Zenon
<1> QED BY <1>3, <1>6, <1>7, <1>8

\* Refusing a request is always sound.
LEMMA RefuseIInv ==
  ASSUME IInv, NEW r \in Requests, Refuse(r), UNCHANGED <<ws, tmpl, acct, asked, epoch>>
  PROVE  IInv'
<1>1. Sound(NoRequest) /\ asked' \in 0 .. MaxRequests
  BY NoRequestSound, Typed, AdmissionAssumption DEF IInv
<1> QED BY <1>1, Blanks, OneRequest, Zenon DEF Refuse

\* The present epoch is one a workspace may be vouched for.
LEMMA Epochs ==
  ASSUME TypeOK PROVE epoch \in Nat /\ epoch \in 0 .. epoch /\ epoch \in 0 .. Never /\ epoch < Never
  BY Typed, AdmissionAssumption DEF Never

LEMMA DefaultIInv == ASSUME IInv, NEW r \in Requests, Default(r) PROVE IInv'
<1> USE AdmissionAssumption
<1> DEFINE q == req[r]
           results == IF q.new.del THEN {q.new}
                      ELSE {[q.new EXCEPT !.spec = s, !.settled = epoch,
                                          !.by = IF q.op = "create" THEN q.user ELSE @] :
                              s \in Defaulted(q.new.spec)}
<1>1. /\ q \in Request /\ Sound(q) /\ q.new \in Workspace /\ q.new.spec \in WorkspaceSpec
      /\ q.user \in Optional(Users \cup {Admin}) /\ epoch \in 0 .. MaxEdits /\ Catalogue
      /\ asked \in 0 .. MaxRequests
  BY Typed, Zenon DEF IInv, Request, Workspace
<1>2. q.pc = "default" /\ UNCHANGED <<ws, tmpl, acct, asked, epoch>>
  BY Zenon DEF Default
<1>3. CASE Refuse(r)
  BY <1>2, <1>3, RefuseIInv
<1>4. ASSUME NEW w \in results, req' = [req EXCEPT ![r].pc = "validate", ![r].new = w]
      PROVE  IInv'
  <2> DEFINE p == [q EXCEPT !.pc = "validate", !.new = w]
  <2>1. req' = [req EXCEPT ![r] = p]
    BY <1>4, Typed, Zenon DEF IInv
  <2>2. /\ w \in Workspace /\ w.here = q.new.here /\ w.del = q.new.del /\ w.creator = q.new.creator
        /\ Recent(w)
        /\ ~w.del => /\ Complete(w.spec) /\ Defaulted(w.spec) = {w.spec}
                     /\ q.op = "create" => w.by = q.user
    <3>1. CASE q.new.del
      BY <1>1, <1>4, <3>1, Zenon DEF Sound
    <3>2. CASE ~q.new.del
      <4>1. PICK s \in Defaulted(q.new.spec) :
              w = [q.new EXCEPT !.spec = s, !.settled = epoch,
                                !.by = IF q.op = "create" THEN q.user ELSE @]
        BY <1>4, <3>2, Zenon
      <4>2. s \in WorkspaceSpec /\ Complete(s) /\ Defaulted(s) = {s}
        BY <1>1, Idempotent, Zenon
      <4>3. /\ w \in Workspace /\ w.here = q.new.here /\ w.del = q.new.del
            /\ w.creator = q.new.creator /\ w.spec = s /\ w.settled = epoch
            /\ w.vetted = q.new.vetted /\ (q.op = "create" => w.by = q.user)
        <5> DEFINE o == q.new
                   b == IF q.op = "create" THEN q.user ELSE o.by
        <5>1. o \in Workspace /\ b \in Optional(Users \cup {Admin}) /\ epoch \in 0 .. Never
          <6>1. epoch \in 0 .. Never
            BY Epochs, Zenon DEF IInv
          <6>2. o.by \in Optional(Users \cup {Admin})
            BY <1>1, Zenon DEF Workspace
          <6> QED BY <1>1, <6>1, <6>2, Zenon
        <5>2. w = [o EXCEPT !.spec = s, !.settled = epoch, !.by = b]
          BY <4>1, Zenon
        <5>3. q.op = "create" => b = q.user
          BY Zenon
        <5> HIDE DEF q, o, b
        <5>4. /\ w \in Workspace /\ w.here = o.here /\ w.del = o.del /\ w.creator = o.creator
              /\ w.spec = s /\ w.settled = epoch /\ w.vetted = o.vetted /\ w.by = b
          BY <4>2, <5>1, <5>2, Zenon DEF Workspace
        <5> QED BY <5>3, <5>4, Zenon DEF o
      <4>4. Recent(w)
        <5>1. Recent(q.new)
          BY <1>1, Zenon DEF Sound
        <5>2. epoch \in 0 .. epoch
          BY Epochs, Zenon DEF IInv
        <5> QED BY <4>3, <5>1, <5>2, Zenon DEF Recent
      <4> QED BY <4>2, <4>3, <4>4, Zenon
    <3> QED BY <3>1, <3>2, Zenon
  <2>3. /\ p \in Request /\ p.pc = "validate" /\ p.op = q.op /\ p.user = q.user /\ p.old = q.old
        /\ p.new = w /\ p.fresh = q.fresh
    BY <1>1, <2>2, ZenonT(30) DEF Request
  <2> HIDE DEF p, q, results
  <2>4. Sound(p)
    BY <1>1, <1>2, <2>2, <2>3 DEF Sound, SettledSpec
  <2> QED BY <1>1, <1>2, <2>1, <2>3, <2>4, OneRequest, Zenon
<1> QED BY <1>3, <1>4, Zenon DEF Default

\* A stop, and no change at all, comply as the workspace did.
LEMMA StopComplies ==
  ASSUME NEW o \in WorkspaceSpec, NEW n \in WorkspaceSpec, n = o \/ OnlyStopped(o, n),
         ValidateCreateWorkspace(o)
  PROVE  ValidateCreateWorkspace(n)
<1>1. /\ n.tmpl = o.tmpl /\ n.image = o.image /\ n.res = o.res /\ n.store = o.store
      /\ n.vols = o.vols
  BY DEF OnlyStopped, WorkspaceSpec
<1> QED BY <1>1 DEF ValidateCreateWorkspace, Complies

\* What is vouched for when a request passes its validators.
LEMMA VouchedFor ==
  ASSUME IInv, NEW q \in Request, Sound(q), q.pc = "validate", Valid(q),
         q.op = "create" \/ (q.op = "update" /\ q.fresh), Vouched(q) = epoch
  PROVE  ValidateCreateWorkspace(q.new.spec)
<1>1. q.old.spec \in WorkspaceSpec /\ q.new.spec \in WorkspaceSpec /\ epoch # Never
  BY Epochs DEF Request, Workspace, IInv
<1>2. CASE q.op = "create"
  BY <1>2 DEF Valid, ValidateCreate
<1>3. CASE q.op = "update" /\ (q.new.spec = q.old.spec \/ OnlyStopped(q.old.spec, q.new.spec))
  <2>1. q.old = ws /\ ws.here /\ q.old.vetted = epoch
    BY <1>3 DEF Sound, Vouched
  <2>2. ValidateCreateWorkspace(q.old.spec)
    BY <2>1 DEF IInv, VettedSpec
  <2> QED BY <1>1, <1>3, <2>2, StopComplies
<1>4. CASE q.op = "update" /\ ~(q.new.spec = q.old.spec \/ OnlyStopped(q.old.spec, q.new.spec))
  <2>1. ~(q.user = Admin \/ q.old.del)
    BY <1>1, <1>4 DEF Vouched
  <2>2. ValidateUpdateWorkspace(q.old.spec, q.new.spec)
    BY <1>4, <2>1 DEF Valid, ValidateUpdate
  <2> QED BY <1>4, <2>2 DEF ValidateUpdateWorkspace, ValidateCreateWorkspace
<1> QED BY <1>2, <1>3, <1>4

LEMMA ValidateIInv == ASSUME IInv, NEW r \in Requests, Validate(r) PROVE IInv'
<1> DEFINE q == req[r]
           w == [q.new EXCEPT !.vetted = Vouched(q)]
           p == [q EXCEPT !.pc = "store", !.new = w]
<1>1. /\ q \in Request /\ Sound(q) /\ q.new \in Workspace /\ q.old \in Workspace
      /\ asked \in 0 .. MaxRequests
  BY Typed, Zenon DEF IInv, Request
<1>2. q.pc = "validate" /\ UNCHANGED <<ws, tmpl, acct, asked, epoch>>
  BY DEF Validate
<1>3. CASE Refuse(r)
  BY <1>2, <1>3, RefuseIInv
<1>4. CASE Valid(q) /\ req' = [req EXCEPT ![r].pc = "store", ![r].new.vetted = Vouched(q)]
  <2>1. Vouched(q) \in {epoch, Never, q.old.vetted}
    BY DEF Vouched
  <2>2. Vouched(q) \in 0 .. Never /\ Vouched(q) \in (0 .. epoch) \cup {Never}
    <3>1. /\ epoch \in 0 .. epoch /\ epoch \in 0 .. Never /\ Never \in 0 .. Never
      BY Epochs, AdmissionAssumption DEF IInv, Never
    <3>2. q.old.vetted \in 0 .. Never /\ q.old.vetted \in (0 .. epoch) \cup {Never}
      BY <1>1 DEF Workspace, Sound, Recent
    <3> QED BY <2>1, <3>1, <3>2
  <2>3. req' = [req EXCEPT ![r] = p]
    <3> DEFINE v == Vouched(q)
    <3>1. req \in [Requests -> Request] /\ req' = [req EXCEPT ![r].pc = "store", ![r].new.vetted = v]
      BY <1>4, Typed DEF IInv
    <3> HIDE DEF v
    <3>2. req' = [req EXCEPT ![r] = [q EXCEPT !.pc = "store", !.new = [q.new EXCEPT !.vetted = v]]]
      BY <3>1, Zenon
    <3> QED BY <3>2 DEF v
  <2>4. Vouched(q) = epoch /\ (q.op = "create" \/ (q.op = "update" /\ q.fresh))
        => ValidateCreateWorkspace(q.new.spec)
    BY <1>1, <1>2, <1>4, VouchedFor
  <2>5. Permitted(q)
    <3>1. CASE q.op = "update" /\ ~q.old.del /\ q.user # Admin
      BY <1>4, <3>1 DEF Valid, ValidateUpdate, Permitted, OwnerOnly, ValidateOwnershipPermission
    <3>2. CASE q.op = "delete" /\ q.user # Admin
      BY <1>4, <3>2 DEF Valid, ValidateDelete, Permitted, OwnerOnly, ValidateOwnershipPermission
    <3> QED BY <3>1, <3>2 DEF Permitted
  <2> DEFINE v == Vouched(q)
  <2> HIDE DEF v, q
  <2>6. /\ w \in Workspace /\ w.here = q.new.here /\ w.del = q.new.del /\ w.by = q.new.by
        /\ w.spec = q.new.spec /\ w.creator = q.new.creator /\ w.settled = q.new.settled
        /\ w.vetted = v
    BY <1>1, <2>2 DEF Workspace, v
  <2>7. Recent(w)
    <3>1. Recent(q.new)
      BY <1>1 DEF Sound
    <3> QED BY <2>2, <2>6, <3>1 DEF Recent, v
  <2> HIDE DEF w
  <2>8. /\ p \in Request /\ p.pc = "store" /\ p.op = q.op /\ p.user = q.user /\ p.old = q.old
        /\ p.new = w /\ p.fresh = q.fresh
    BY <1>1, <2>6, Zenon DEF Request
  <2> HIDE DEF p
  <2>9. Permitted(p)
    BY <2>5, <2>6, <2>8 DEF Permitted, OwnerOnly
  <2>10. Sound(p)
    BY <1>1, <1>2, <2>4, <2>6, <2>7, <2>8, <2>9 DEF Sound, SettledSpec, VettedSpec, v
  <2> QED BY <1>1, <1>2, <2>3, <2>8, <2>10, OneRequest, Zenon
<1> QED BY <1>3, <1>4 DEF Validate

\* A step that ends a request, or none, and stores a workspace.
LEMMA StoredIInv ==
  ASSUME IInv, UNCHANGED <<tmpl, acct, asked, epoch>>,
         ws' \in Workspace, Recent(ws'), Kept(ws'), ws'.here => VettedSpec(ws'),
         ws'.here /\ ~ws'.del => SettledSpec(ws'),
         req' \in [Requests -> Request],
         \A x \in Requests : \/ req'[x] = NoRequest
                             \/ req'[x] = req[x] /\ ws' = ws
                             \/ req'[x] = [req[x] EXCEPT !.fresh = FALSE]
  PROVE  IInv'
<1>1. TypeOK'
  BY Typed, TypedNext DEF IInv, Catalogue, Kept
<1>2. ASSUME NEW x \in Requests PROVE Sound(req[x])'
  <2>1. req[x] \in Request /\ Sound(req[x]) /\ req'[x] \in Request
    BY Typed DEF IInv
  <2>2. epoch' \in Nat
    BY Epochs DEF IInv
  <2>3. epoch' \in Nat => Sound(NoRequest)'
    BY Blanks DEF Sound, Recent
  <2> QED BY <2>1, <2>2, <2>3, Overtaken
<1>3. Recent(ws)' /\ Kept(ws)' /\ (ws.here => VettedSpec(ws))'
      /\ (ws.here /\ ~ws.del => SettledSpec(ws))'
  BY SameAnswers DEF Recent, Kept, VettedSpec, SettledSpec
<1> QED BY <1>1, <1>2, <1>3 DEF IInv

\* What a request that is up to date stores.
LEMMA OutcomeSound ==
  ASSUME IInv, NEW q \in Request, Sound(q), q.pc = "store",
         IF q.op = "create" THEN ~ws.here ELSE q.fresh
  PROVE  LET w == Outcome(q) IN
         /\ w \in Workspace /\ Recent(w) /\ Kept(w) /\ (w.here => VettedSpec(w))
         /\ w.here /\ ~w.del => SettledSpec(w)
<1> DEFINE w == Outcome(q)
<1>1. ws \in Workspace /\ q.new \in Workspace /\ q.user \in Optional(Users \cup {Admin})
  BY Typed DEF IInv, Request
<1>2. CASE q.op = "create"
  <2>1. w = [q.new EXCEPT !.here = TRUE, !.creator = q.user]
    BY <1>2 DEF Outcome
  <2>2. /\ w \in Workspace /\ w.spec = q.new.spec /\ w.vetted = q.new.vetted /\ ~w.del
        /\ w.settled = q.new.settled /\ w.by = q.user /\ w.creator = q.user
    BY <1>1, <1>2, <2>1, ZenonT(30) DEF Workspace, Sound
  <2> HIDE DEF w
  <2> QED BY <1>2, <2>2 DEF Sound, Recent, Kept, VettedSpec, SettledSpec, w
<1>3. CASE q.op = "update"
  <2> DEFINE c == IF q.user = Admin \/ ws.by = None THEN q.new.by ELSE q.new.creator
  <2>1. w = [q.new EXCEPT !.creator = c]
    BY <1>3 DEF Outcome
  <2>2. c \in Optional(Users \cup {Admin})
    BY <1>1 DEF Workspace
  <2>3. ~q.new.del => c = q.new.by
    BY <1>3 DEF Sound, Kept, Permitted
  <2> HIDE DEF c, w
  <2>4. /\ w \in Workspace /\ w.spec = q.new.spec /\ w.vetted = q.new.vetted /\ w.del = q.new.del
        /\ w.settled = q.new.settled /\ w.by = q.new.by /\ w.creator = c
    BY <1>1, <2>1, <2>2 DEF Workspace
  <2> QED BY <1>3, <2>3, <2>4 DEF Sound, Recent, Kept, VettedSpec, SettledSpec, w
<1>4. CASE q.op = "delete"
  <2>1. w = [ws EXCEPT !.del = TRUE]
    BY <1>4 DEF Outcome
  <2>2. /\ w \in Workspace /\ w.spec = ws.spec /\ w.vetted = ws.vetted /\ w.del /\ w.here = ws.here
        /\ w.settled = ws.settled
    BY <1>1, <2>1, Zenon DEF Workspace
  <2> HIDE DEF w
  <2> QED BY <2>2 DEF IInv, Recent, Kept, VettedSpec, w
<1>5. q.op \in {"create", "update", "delete"}
  BY DEF Sound, Request
<1> QED BY <1>2, <1>3, <1>4, <1>5

LEMMA StoreIInv == ASSUME IInv, NEW r \in Requests, Store(r) PROVE IInv'
<1> DEFINE q == req[r]
           current == IF q.op = "create" THEN ~ws.here ELSE q.fresh
           w == IF current THEN Outcome(q) ELSE ws
<1>1. /\ q \in Request /\ Sound(q) /\ ws \in Workspace /\ req \in [Requests -> Request]
  BY Typed DEF IInv
<1>2. q.pc = "store" /\ UNCHANGED <<tmpl, acct, asked, epoch>> /\ End(r, w)
  BY DEF Store
<1>3. /\ w \in Workspace /\ Recent(w) /\ Kept(w) /\ (w.here => VettedSpec(w))
      /\ w.here /\ ~w.del => SettledSpec(w)
  <2>1. CASE current
    BY <1>1, <1>2, <2>1, OutcomeSound
  <2>2. CASE ~current
    BY <1>1, <2>2 DEF IInv
  <2> QED BY <2>1, <2>2, Zenon
<1> HIDE DEF w
<1>4. /\ ws' = w
      /\ req' = [x \in Requests |->
                   IF x = r THEN NoRequest ELSE [req[x] EXCEPT !.fresh = @ /\ w = ws]]
  BY <1>2 DEF End
<1>5. ASSUME NEW x \in Requests
      PROVE  /\ req'[x] \in Request
             /\ \/ req'[x] = NoRequest
                \/ req'[x] = req[x] /\ ws' = ws
                \/ req'[x] = [req[x] EXCEPT !.fresh = FALSE]
  <2>1. CASE x = r
    BY <1>4, <2>1, Blanks
  <2>2. CASE x # r /\ w = ws
    <3>1. req'[x] = [req[x] EXCEPT !.fresh = req[x].fresh /\ TRUE] /\ req[x] \in Request
      BY <1>1, <1>4, <2>2
    <3>2. (req[x].fresh /\ TRUE) = req[x].fresh
      BY <1>1 DEF Request
    <3>3. [req[x] EXCEPT !.fresh = req[x].fresh] = req[x]
      BY <3>1 DEF Request
    <3> QED BY <1>4, <2>2, <3>1, <3>2, <3>3
  <2>3. CASE x # r /\ w # ws
    <3>1. req'[x] = [req[x] EXCEPT !.fresh = FALSE] /\ req[x] \in Request
      BY <1>1, <1>4, <2>3, Zenon
    <3> QED BY <3>1, Zenon DEF Request
  <2> QED BY <2>1, <2>2, <2>3
<1>6. req' \in [Requests -> Request]
  BY <1>4, <1>5, Zenon
<1> QED BY <1>2, <1>3, <1>4, <1>5, <1>6, StoredIInv

LEMMA FinalizeIInv == ASSUME IInv, Finalize PROVE IInv'
<1>1. /\ req \in [Requests -> Request] /\ ws' = NoWorkspace
      /\ req' = [x \in Requests |-> [req[x] EXCEPT !.fresh = FALSE]]
      /\ UNCHANGED <<tmpl, acct, asked, epoch>>
  BY Typed DEF IInv, Finalize
<1>2. req' \in [Requests -> Request]
  BY <1>1, ZenonT(30) DEF Request
<1>3. ws' \in Workspace /\ Recent(ws') /\ ~ws'.here
  BY <1>1, Blanks DEF Recent
<1> QED BY <1>1, <1>2, <1>3, StoredIInv DEF Kept

\* An edit of the catalogue voids everything that was vouched for.
LEMMA AdminsIInv == ASSUME IInv, Admins PROVE IInv'
<1> USE AdmissionAssumption
<1>1. Edit
  BY Zenon DEF Admins, EditTemplate, DeleteTemplate, EditAccount
<1>2. /\ epoch' = epoch + 1 /\ epoch' \in 0 .. MaxEdits /\ UNCHANGED <<ws, req, asked>>
      /\ epoch \in Nat
  BY <1>1, Typed DEF IInv, Edit
<1>3. Catalogue'
  <2> DEFINE Form == [here: BOOLEAN, dflt: BOOLEAN, form: Forms]
             Account == [here: BOOLEAN, dflt: BOOLEAN, users: Grants \cup {{}}]
  <2>0. tmpl \in [Templates -> Form] /\ acct \in [Accounts -> Account]
    BY Typed DEF IInv, Catalogue
  <2>1. ASSUME NEW t \in Templates, EditTemplate(t) \/ DeleteTemplate(t) PROVE Catalogue'
    <3>1. PICK f \in Form : tmpl' = [tmpl EXCEPT ![t] = f]
      <4>1. tmpl[t] \in Form
        BY <2>0
      <4>2. ASSUME NEW f \in Forms, tmpl' = [tmpl EXCEPT ![t].form = f]
            PROVE  \E g \in Form : tmpl' = [tmpl EXCEPT ![t] = g]
        BY <2>0, <4>1, <4>2, Zenon
      <4>3. ASSUME tmpl' = [tmpl EXCEPT ![t].dflt = ~@]
            PROVE  \E g \in Form : tmpl' = [tmpl EXCEPT ![t] = g]
        BY <2>0, <4>1, <4>3, Zenon
      <4>4. ASSUME tmpl' = [tmpl EXCEPT ![t].here = FALSE, ![t].dflt = FALSE]
            PROVE  \E g \in Form : tmpl' = [tmpl EXCEPT ![t] = g]
        <5> DEFINE g == [tmpl[t] EXCEPT !.here = FALSE, !.dflt = FALSE]
        <5>1. g \in Form
          BY <4>1, Zenon
        <5>2. tmpl' = [tmpl EXCEPT ![t] = g]
          BY <2>0, <4>4, Zenon
        <5> QED BY <5>1, <5>2, Zenon
      <4> QED BY <2>1, <4>2, <4>3, <4>4, Zenon DEF EditTemplate, DeleteTemplate
    <3>2. acct' = acct
      BY <2>1 DEF EditTemplate, DeleteTemplate
    <3> QED BY <2>0, <3>1, <3>2 DEF Catalogue
  <2>2. ASSUME NEW a \in Accounts, EditAccount(a) PROVE Catalogue'
    <3>1. PICK f \in Account : acct' = [acct EXCEPT ![a] = f]
      <4>1. acct[a] \in Account
        BY <2>0
      <4>2. ASSUME acct' = [acct EXCEPT ![a].here = ~@]
            PROVE  \E g \in Account : acct' = [acct EXCEPT ![a] = g]
        BY <2>0, <4>1, <4>2, Zenon
      <4>3. ASSUME acct' = [acct EXCEPT ![a].dflt = ~@]
            PROVE  \E g \in Account : acct' = [acct EXCEPT ![a] = g]
        BY <2>0, <4>1, <4>3, Zenon
      <4>4. ASSUME NEW us \in Grants, acct' = [acct EXCEPT ![a].users = us]
            PROVE  \E g \in Account : acct' = [acct EXCEPT ![a] = g]
        BY <2>0, <4>1, <4>4, Zenon
      <4> QED BY <2>2, <4>2, <4>3, <4>4 DEF EditAccount
    <3>2. tmpl' = tmpl
      BY <2>2 DEF EditAccount
    <3> QED BY <2>0, <3>1, <3>2 DEF Catalogue
  <2> QED BY <2>1, <2>2 DEF Admins
<1>4. TypeOK'
  BY <1>2, <1>3, Typed, TypedNext DEF IInv
<1>5. \A w : Recent(w) => /\ Recent(w)'
                          /\ w.vetted # epoch' /\ w.settled # epoch'
  BY <1>2 DEF Recent, Never
<1>6. ASSUME NEW x \in Requests PROVE Sound(req[x])'
  <2>1. Sound(req[x])
    BY DEF IInv
  <2> QED BY <1>2, <1>5, <2>1, Zenon DEF Sound, SettledSpec, VettedSpec, Kept
<1>7. Recent(ws)' /\ Kept(ws)' /\ (ws.here => VettedSpec(ws))'
      /\ (ws.here /\ ~ws.del => SettledSpec(ws))'
  BY <1>2, <1>5, Zenon DEF IInv, Kept, VettedSpec, SettledSpec
<1> QED BY <1>4, <1>6, <1>7 DEF IInv

LEMMA StepIInv == IInv /\ [Next]_vars => IInv'
<1> SUFFICES ASSUME IInv, [Next]_vars PROVE IInv'
  OBVIOUS
<1>1. ASSUME NEW r \in Requests, Ask(r) \/ Default(r) \/ Validate(r) \/ Store(r) PROVE IInv'
  BY <1>1, AskIInv, DefaultIInv, ValidateIInv, StoreIInv
<1>2. CASE Finalize
  BY <1>2, FinalizeIInv
<1>3. CASE Admins
  BY <1>3, AdminsIInv
<1>4. CASE UNCHANGED vars
  <2>1. ws' = ws /\ tmpl' = tmpl /\ acct' = acct /\ req' = req /\ asked' = asked /\ epoch' = epoch
    BY <1>4 DEF vars
  <2>2. req' \in [Requests -> Request] /\ ws' \in Workspace
    BY <2>1, Typed DEF IInv
  <2> QED BY <2>1, <2>2, StoredIInv DEF IInv
<1> QED BY <1>1, <1>2, <1>3, <1>4 DEF Next
-----------------------------------------------------------------------------
LEMMA Invariance == Spec => []IInv
<1>1. Init => IInv
  BY InitIInv
<1>2. IInv /\ [Next]_vars => IInv'
  BY StepIInv
<1> QED BY <1>1, <1>2, PTL DEF Spec

\* Every variable has its type, and what is stored has its defaults (Default).
THEOREM Types == Spec => []TypeOK
<1>1. IInv => TypeOK
  BY DEF IInv
<1> QED BY <1>1, Invariance, PTL

\* A stored workspace complies with its template until an edit or an administrator
\* intervenes (ValidateUpdateWorkspace with its exemptions).
THEOREM Complying == Spec => []Vetted
<1>1. IInv => Vetted
  BY DEF IInv, Vetted, VettedSpec, ValidateCreateWorkspace
<1> QED BY <1>1, Invariance, PTL

\* Defaulting a stored spec again changes nothing until an edit (Default).
THEOREM DefaultedOnce == Spec => []Settled
<1>1. IInv => Settled
  BY DEF IInv, Settled, SettledSpec
<1> QED BY <1>1, Invariance, PTL

\* The step that stores a request's object.
LEMMA WrittenBy ==
  ASSUME IInv, [Next]_vars, NEW r \in Requests, Writes(r), ~ws.del
  PROVE  Store(r)
<1>1. req[r] \in Request /\ req[r].pc = "store" /\ req'[r] = NoRequest /\ ws' # ws
      /\ req \in [Requests -> Request]
  BY Typed DEF IInv, Writes
<1>2. ASSUME NEW x \in Requests, Store(x) PROVE x = r
  <2>1. CASE x # r
    <3>1. PICK b : req'[r] = [req[r] EXCEPT !.fresh = b]
      BY <1>2, <2>1, Zenon DEF Store, End
    <3>2. req'[r].pc = "store"
      BY <1>1, <3>1 DEF Request
    <3> QED BY <1>1, <3>2, Blanks
  <2> QED BY <2>1
<1>3. ASSUME NEW x \in Requests, Ask(x) \/ Default(x) \/ Validate(x) PROVE ws' = ws
  BY <1>3, Zenon DEF Ask, Default, Validate
<1>4. ~Finalize /\ ~Admins
  BY <1>1, Zenon DEF Finalize, Admins, EditTemplate, DeleteTemplate, EditAccount, Edit
<1> QED BY <1>1, <1>2, <1>3, <1>4 DEF Next, vars

\* An OwnerOnly workspace is changed, deleted and made OwnerOnly only by its creator or
\* an administrator (ValidateUpdate, ValidateDelete).
THEOREM HeldByOwner == Spec => OwnerOnlyHeld
<1> DEFINE A == \A r \in Requests :
                  Writes(r) /\ ws.here /\ ~ws.del /\ (Owned(ws) \/ Owned(ws'))
                    => req[r].user \in {ws.creator, Admin}
<1>1. IInv /\ [Next]_vars => [A]_vars
  <2> SUFFICES ASSUME IInv, [Next]_vars, NEW r \in Requests, Writes(r), ws.here, ~ws.del,
                      Owned(ws) \/ Owned(ws'), req[r].user # Admin
               PROVE  req[r].user = ws.creator
    OBVIOUS
  <2> DEFINE q == req[r]
  <2>1. q \in Request /\ Sound(q) /\ Kept(ws)
    BY Typed DEF IInv
  <2>2. Store(r)
    BY WrittenBy
  <2>3. q.pc = "store" /\ q.op # "create" /\ q.fresh /\ ws' = Outcome(q)
    BY <2>2 DEF Store, End, Writes
  <2>4. q.old = ws /\ Permitted(q) /\ q.op \in {"update", "delete"} /\ ws.by = ws.creator
    BY <2>1, <2>3, Zenon DEF Sound, Request, Kept
  <2>5. CASE q.op = "update"
    <3>1. ws'.spec = q.new.spec
      BY <2>1, <2>3, <2>5 DEF Outcome, Request, Workspace
    <3> QED BY <2>4, <2>5, <3>1 DEF Permitted, OwnerOnly, Owned
  <2>6. CASE q.op = "delete"
    <3>1. ws'.del
      BY <2>3, <2>6, Typed DEF Outcome, IInv, Workspace
    <3> QED BY <2>4, <2>6, <3>1 DEF Permitted, OwnerOnly, Owned
  <2> QED BY <2>4, <2>5, <2>6
<1> QED BY <1>1, Invariance, PTL DEF Spec, OwnerOnlyHeld

\* A request is refused by its own defaulters or validators.
LEMMA RefusedBy ==
  ASSUME IInv, [Next]_vars, NEW r \in Requests, Refused(r)
  PROVE  (Default(r) \/ Validate(r)) /\ req'[r] = NoRequest
<1>1. /\ req[r] \in Request /\ req[r].pc \in {"default", "validate"} /\ req'[r] = NoRequest
      /\ req \in [Requests -> Request]
  BY Typed DEF IInv, Refused
<1>2. req'[r].pc = "none" /\ req'[r] # req[r]
  BY <1>1, Blanks
<1>3. ASSUME NEW x \in Requests, Ask(x) PROVE FALSE
  <2>1. x # r
    BY <1>1, <1>3, Blanks DEF Ask
  <2> QED BY <1>1, <1>2, <1>3, <2>1 DEF Ask
<1>4. ASSUME NEW x \in Requests, Default(x) \/ Validate(x) PROVE x = r
  BY <1>1, <1>2, <1>4, Zenon DEF Default, Validate, Refuse
<1>5. ASSUME NEW x \in Requests, Store(x) PROVE FALSE
  <2>1. x # r
    BY <1>1, <1>5 DEF Store
  <2>2. PICK b : req'[r] = [req[r] EXCEPT !.fresh = b]
    BY <1>5, <2>1, Zenon DEF Store, End
  <2> QED BY <1>1, <1>2, <2>2 DEF Request
<1>6. ~Finalize
  <2>1. Finalize => req'[r] = [req[r] EXCEPT !.fresh = FALSE]
    BY DEF Finalize
  <2> QED BY <1>1, <1>2, <2>1 DEF Request
<1>7. ~Admins
  BY <1>2, Zenon DEF Admins, EditTemplate, DeleteTemplate, EditAccount, Edit
<1>8. req' # req
  BY <1>2
<1> QED BY <1>1, <1>3, <1>4, <1>5, <1>6, <1>7, <1>8 DEF Next, vars

\* What leaves a spec without defaults that has its service account.
LEMMA NoDefaults ==
  ASSUME Catalogue, NEW s \in WorkspaceSpec, s.sa # None, Defaulted(s) = {}
  PROVE  IF s.tmpl = None THEN \E t, u \in DefaultTemplates : t # u ELSE ~tmpl[s.tmpl].here
<1> USE AdmissionAssumption
<1>1. ASSUME NEW w \in ApplyTemplateName(s), w.tmpl = None \/ tmpl[w.tmpl].here PROVE FALSE
  <2>1. w \in WorkspaceSpec /\ w.sa # None
    BY NameGiven
  <2>2. PICK v : v \in ApplyTemplateDefaults(w)
    BY <1>1 DEF ApplyTemplateDefaults
  <2>3. v.sa # None
    BY <2>1, <2>2, TemplateApplied
  <2>4. v \in ApplyServiceAccountDefaults(v)
    BY <2>3 DEF ApplyServiceAccountDefaults
  <2>5. SetWorkspaceSharingDefaults(v) \in Defaulted(s)
    BY <2>2, <2>4 DEF Defaulted
  <2> QED BY <2>5
<1>2. CASE s.tmpl # None
  BY <1>1, <1>2 DEF ApplyTemplateName
<1>3. CASE s.tmpl = None
  <2>1. DefaultTemplates # {}
    BY <1>1, <1>3 DEF ApplyTemplateName
  <2>2. Sole(DefaultTemplates) = {}
    <3>1. ASSUME NEW t \in Sole(DefaultTemplates) PROVE FALSE
      <4>1. [s EXCEPT !.tmpl = t] \in ApplyTemplateName(s)
        BY <1>3, <2>1 DEF ApplyTemplateName
      <4>2. tmpl[t].here /\ [s EXCEPT !.tmpl = t].tmpl = t
        BY DEF Sole, DefaultTemplates, WorkspaceSpec
      <4> QED BY <1>1, <4>1, <4>2, Zenon
    <3> QED BY <3>1
  <2>3. PICK t \in DefaultTemplates : DefaultTemplates # {t}
    BY <2>1, <2>2 DEF Sole
  <2>4. \E u \in DefaultTemplates : t # u
    BY <2>3
  <2> QED BY <1>3, <2>4
<1> QED BY <1>2, <1>3

\* The creator's mere stop is refused only for what has nothing to do with the spec it
\* leaves (template_validator.go's exemption).
THEOREM StopPasses == Spec => StopRefusals
<1> DEFINE A(r) ==
      LET q == req[r]
      IN Refused(r) /\ q.op = "update" /\ q.user = q.old.by
           /\ OnlyStopped(q.old.spec, q.new.spec) /\ q.new.by = q.old.by =>
             \/ q.pc = "default" /\ IF q.new.spec.tmpl = None THEN \E t, u \in DefaultTemplates : t # u
                                   ELSE ~tmpl[q.new.spec.tmpl].here
             \/ q.pc = "validate" /\ ~ValidateServiceAccountAccess(q.new.spec, q.user)
             \/ q.pc = "validate" /\ ~ValidateVolumeOwnership(q.new.spec)
<1>1. IInv /\ [Next]_vars => [\A r \in Requests : A(r)]_vars
  <2> SUFFICES ASSUME IInv, [Next]_vars, NEW r \in Requests, Refused(r), req[r].op = "update",
                      req[r].user = req[r].old.by, OnlyStopped(req[r].old.spec, req[r].new.spec),
                      req[r].new.by = req[r].old.by
               PROVE  \/ /\ req[r].pc = "default"
                         /\ IF req[r].new.spec.tmpl = None THEN \E t, u \in DefaultTemplates : t # u
                            ELSE ~tmpl[req[r].new.spec.tmpl].here
                      \/ /\ req[r].pc = "validate"
                         /\ ~ValidateServiceAccountAccess(req[r].new.spec, req[r].user)
                      \/ /\ req[r].pc = "validate"
                         /\ ~ValidateVolumeOwnership(req[r].new.spec)
    OBVIOUS
  <2>1. /\ req[r] \in Request /\ Sound(req[r]) /\ Catalogue /\ req \in [Requests -> Request]
        /\ req[r].new.spec \in WorkspaceSpec /\ req[r].old.spec \in WorkspaceSpec
    BY Typed, ZenonT(30) DEF IInv, Request, Workspace
  <2>2. (Default(r) \/ Validate(r)) /\ req'[r] = NoRequest
    BY RefusedBy
  <2>3. CASE Default(r)
    <3>1. req[r].pc = "default"
      BY <2>3, Zenon DEF Default
    <3>2. ~req[r].new.del /\ Defaulted(req[r].new.spec) = {}
      <4>1. ASSUME NEW w, req' = [req EXCEPT ![r].pc = "validate", ![r].new = w] PROVE FALSE
        <5>1. req'[r].pc = "validate"
          BY <2>1, <4>1 DEF Request
        <5> QED BY <2>2, <5>1, Blanks
      <4> QED BY <2>3, <4>1, ZenonT(30) DEF Default
    <3>3. req[r].new.spec.sa # None
      <4>1. req[r].new.spec.sa = req[r].old.spec.sa
        BY <2>1 DEF OnlyStopped, WorkspaceSpec
      <4> QED BY <2>1, <3>2, <4>1 DEF Sound, Kept, Complete
    <3> QED BY <2>1, <3>1, <3>2, <3>3, NoDefaults
  <2>4. CASE Validate(r)
    <3>1. req[r].pc = "validate"
      BY <2>4 DEF Validate
    <3>2. ~Valid(req[r])
      <4>1. ASSUME req' = [req EXCEPT ![r].pc = "store", ![r].new.vetted = Vouched(req[r])]
            PROVE  FALSE
        <5>1. req'[r].pc = "store"
          BY <2>1, <4>1 DEF Request
        <5> QED BY <2>2, <5>1, Blanks
      <4> QED BY <2>4, <4>1 DEF Validate
    <3>3. ~ValidateUpdate(req[r].old, req[r].new, req[r].user)
      BY <3>2 DEF Valid
    <3> QED BY ZenonT(30), <3>1, <3>3 DEF ValidateUpdate, ValidateUpdateWorkspace, ValidateOwnershipPermission
  <2> QED BY ZenonT(30), <2>2, <2>3, <2>4
<1> QED BY <1>1, Invariance, PTL DEF Spec, StopRefusals

\* A change of a template that a compliant workspace no longer meets is announced, or is
\* of one of the fields the template webhook does not compare (constraintsChanged).
THEOREM Announced == Spec => TighteningAnnounced
<1> DEFINE A == \A t \in Templates :
                  LET old == tmpl[t].form
                      new == tmpl'[t].form
                  IN ws.here /\ Complies(ws.spec, old) /\ ~Complies(ws.spec, new) =>
                       \/ ConstraintsChanged(old, new)
                       \/ <<old.image, old.custom, old.secondary>> # <<new.image, new.custom, new.secondary>>
<1>1. ASSUME NEW s, NEW old, NEW new, ~ConstraintsChanged(old, new), Complies(s, old),
             old.image = new.image, old.custom = new.custom, old.secondary = new.secondary
      PROVE  Complies(s, new)
  BY <1>1 DEF Complies, ConstraintsChanged, ValidateImageAllowed, ValidateResourceBounds,
              ValidateStorageSize, ValidateSecondaryStorages
<1>2. A
  BY <1>1
<1> QED BY <1>2, PTL DEF Spec, TighteningAnnounced
=============================================================================
