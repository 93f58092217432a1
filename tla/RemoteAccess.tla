---------------------------- MODULE RemoteAccess ----------------------------
(***************************************************************************)
(* Remote access to a workspace's pods through AWS Systems Manager (SSM).  *)
(* Pod events make the operator register the agent in the pod's sidecar as *)
(* an SSM instance and start a server in the workspace container; a state  *)
(* file in the pod tells it what was done.  The extension API finds the    *)
(* instance of a pod and opens a session on it.                            *)
(***************************************************************************)
EXTENDS Integers, Sequences, FiniteSets, FiniteSetsExt

CONSTANTS
  Pods,          \* pods the workspace's Deployment creates, by UID
  Handlers,      \* connection requests the extension API serves at a time
  MaxSessions,   \* MaxConcurrentSSMSessionsPerInstance
  MaxRestarts,   \* container restarts, in all
  MaxDamages,    \* times a state file is damaged from inside the pod
  MaxFaults,     \* AWS and exec calls that fail although they could succeed
  MaxCrashes,    \* restarts of the operator's process
  MaxLoad        \* all of these, at 2 each, and connection requests, at 1 each

ASSUME RemoteAssumption ==
  /\ IsFiniteSet(Pods) /\ IsFiniteSet(Handlers) /\ MaxSessions \in Nat \ {0}
  /\ MaxRestarts \in Nat /\ MaxDamages \in Nat /\ MaxFaults \in Nat
  /\ MaxCrashes \in Nat /\ MaxLoad \in Nat

VARIABLES
  life,      \* whether a pod is to come, up, terminating or gone
  side,      \* the sidecar container of each pod
  main,      \* its workspace container
  seen,      \* the pod object on the API server, as last reported
  file,      \* the state file on the pod's shared volume
  agent,     \* the instance the sidecar's running agent is registered as
  server,    \* how often the server was started in the present workspace container
  left,      \* what is left of the workspace and its access strategy
  queue,     \* pod objects the informer has yet to hand to the map function
  h,         \* the map function
  insts,     \* SSM: managed instances
  acts,      \* SSM: activations of each pod
  sess,      \* SSM: active sessions of every instance so far, by its identifier
  init,      \* the extension API's global resource initializer
  req,       \* its connection requests
  spoiled,   \* history: pods with a set-up that was disturbed
  missed,    \* history: pods whose deletion event a crash swallowed
  budget     \* troubles and requests so far

podVars == <<life, side, main, seen, left>>
inPod   == <<file, agent, server>>
ssm     == <<insts, acts, sess>>
hist    == <<spoiled, missed>>
vars    == <<podVars, inPod, queue, h, ssm, init, req, hist, budget>>

\* The state file: there or not, readable or not, the restart counts it records, and
\* whether a set-up is in progress.
NoFile  == [kind |-> "none", s |-> 0, m |-> 0, busy |-> FALSE]
Damaged == [NoFile EXCEPT !.kind = "damaged"]

\* A container: how often it was restarted, and whether it runs.
Started == [n |-> 0, up |-> TRUE]

\* The map function: its next call, the pod object it was given, whether the sidecar
\* and the workspace container are to be set up, after a clean-up or not, and
\* whether a step of the set-up failed.
NoObject == [pod |-> "none", del |-> FALSE, side |-> Started, main |-> Started]
Idle == [pc |-> "idle", ev |-> NoObject, s |-> FALSE, m |-> FALSE, clean |-> FALSE, err |-> FALSE]

\* A connection request: its next call and the instance it is for.
NoRequest == [pc |-> "idle", inst |-> 0]

Init ==
  /\ life = [p \in Pods |-> "none"]
  /\ side = [p \in Pods |-> Started] /\ main = side
  /\ seen = [p \in Pods |-> [pod |-> p, del |-> FALSE, side |-> Started, main |-> Started]]
  /\ file = [p \in Pods |-> NoFile]
  /\ agent = [p \in Pods |-> 0] /\ server = [p \in Pods |-> 0]
  /\ left = "both" /\ queue = <<>> /\ h = Idle
  /\ insts = {} /\ acts = [p \in Pods |-> 0] /\ sess = <<>>
  /\ init = "new" /\ req = [c \in Handlers |-> NoRequest]
  /\ spoiled = {} /\ missed = {}
  /\ budget = [restarts |-> 0, damages |-> 0, faults |-> 0, crashes |-> 0, load |-> 0]
-------------------------------------------------------------------------------
(***************************************************************************)
(* Calls.  An AWS call is answered, refused, or takes effect with its      *)
(* answer lost.  So is a command executed in a pod, which also fails       *)
(* whenever its container is not running.                                  *)
(***************************************************************************)
Trouble(k, max) == budget[k] < max /\ budget.load + 2 <= MaxLoad
Raised(k, n) == [budget EXCEPT ![k] = @ + n]
Charge(k) == budget' = [Raised(k, 1) EXCEPT !.load = @ + 2]

Replies == {"ok"} \cup (IF Trouble("faults", MaxFaults) THEN {"refused", "lost"} ELSE {})
Spend(o) == IF o = "ok" THEN UNCHANGED budget ELSE Charge("faults")

Runs(p, c) == life[p] \in {"up", "term"} /\ c[p].up

\* ExecInPod: reply o of a command in container c of p.
Exec(p, c, o) == Spend(o) /\ (o # "ok" => Runs(p, c))
Effect(p, c, o) == o # "refused" /\ Runs(p, c)
Succeeds(p, c, o) == o = "ok" /\ Runs(p, c)
-------------------------------------------------------------------------------
(***************************************************************************)
(* The pods.  The kubelet reports a pod's containers some time after they  *)
(* changed.  An update hands the old and the new object to the map         *)
(* function, a creation and a deletion one.                                *)
(***************************************************************************)
Object(p) == [pod |-> p, del |-> FALSE, side |-> side[p], main |-> main[p]]

Notify(objs) == queue' = queue \o objs

\* A new pod reaches phase Running, for which all its containers have started.
PodRunning(p) ==
  /\ life[p] = "none" /\ left = "both"
  /\ \A x \in Pods : life[x] # "up"
  /\ life' = [life EXCEPT ![p] = "up"]
  /\ Notify(<<seen[p]>>)
  /\ UNCHANGED <<side, main, seen, left, inPod, h, ssm, init, req, hist, budget>>

SidecarDown(p) ==
  /\ life[p] = "up" /\ side[p].up /\ Trouble("restarts", MaxRestarts)
  /\ side' = [side EXCEPT ![p].up = FALSE]
  /\ agent' = [agent EXCEPT ![p] = 0]
  /\ Charge("restarts")
  /\ UNCHANGED <<life, main, seen, left, file, server, queue, h, ssm, init, req, hist>>

SidecarUp(p) ==
  /\ life[p] = "up" /\ ~side[p].up
  /\ side' = [side EXCEPT ![p] = [n |-> @.n + 1, up |-> TRUE]]
  /\ UNCHANGED <<life, main, seen, left, inPod, queue, h, ssm, init, req, hist, budget>>

MainDown(p) ==
  /\ life[p] = "up" /\ main[p].up /\ Trouble("restarts", MaxRestarts)
  /\ main' = [main EXCEPT ![p].up = FALSE]
  /\ server' = [server EXCEPT ![p] = 0]
  /\ Charge("restarts")
  /\ UNCHANGED <<life, side, seen, left, file, agent, queue, h, ssm, init, req, hist>>

MainUp(p) ==
  /\ life[p] = "up" /\ ~main[p].up
  /\ main' = [main EXCEPT ![p] = [n |-> @.n + 1, up |-> TRUE]]
  /\ UNCHANGED <<life, side, seen, left, inPod, queue, h, ssm, init, req, hist, budget>>

Report(p) ==
  /\ life[p] = "up" /\ seen[p] # Object(p)
  /\ seen' = [seen EXCEPT ![p] = Object(p)]
  /\ Notify(<<seen[p], Object(p)>>)
  /\ UNCHANGED <<life, side, main, left, inPod, h, ssm, init, req, hist, budget>>

\* The file on the shared volume becomes unreadable.
Damage(p) ==
  /\ life[p] = "up" /\ file[p] # NoFile /\ Trouble("damages", MaxDamages)
  /\ file' = [file EXCEPT ![p] = Damaged]
  /\ Charge("damages")
  /\ UNCHANGED <<podVars, agent, server, queue, h, ssm, init, req, hist>>

\* The pod gets its deletion timestamp.
Terminate(p) ==
  /\ life[p] = "up"
  /\ life' = [life EXCEPT ![p] = "term"]
  /\ seen' = [seen EXCEPT ![p].del = TRUE]
  /\ Notify(<<seen[p], seen'[p]>>)
  /\ UNCHANGED <<side, main, left, inPod, h, ssm, init, req, hist, budget>>

PodGone(p) ==
  /\ life[p] = "term"
  /\ life' = [life EXCEPT ![p] = "gone"]
  /\ agent' = [agent EXCEPT ![p] = 0] /\ server' = [server EXCEPT ![p] = 0]
  /\ Notify(<<seen[p]>>)
  /\ UNCHANGED <<side, main, seen, left, file, h, ssm, init, req, hist, budget>>

\* A workspace is gone when its Deployment is, its strategy may be deleted then.
Release ==
  /\ \A p \in Pods : life[p] # "up"
  /\ \/ left = "both" /\ (\E p \in Pods : life[p] = "term") /\ left' = "strategy"
     \/ left = "strategy" /\ left' = "nothing"
  /\ UNCHANGED <<life, side, main, seen, inPod, queue, h, ssm, init, req, hist, budget>>
-------------------------------------------------------------------------------
(***************************************************************************)
(* The map function of the pod watch.  It runs in the informer's goroutine *)
(* and so handles one object at a time; each step is one call.             *)
(***************************************************************************)
Call(pc, ev) == [Idle EXCEPT !.pc = pc, !.ev = ev]

\* Mutant: a terminating pod whose phase is Running is set up, not cleaned up.
DispatchByPhase(ev) ==
  IF left = "both" /\ ev.side.up THEN Call("read", ev) ELSE Idle

\* handlePodDeleted needs the strategy, handlePodRunning the workspace as well;
\* SetupContainers waits for the sidecar.
Dispatch(ev) ==
  IF ev.del
  THEN IF left # "nothing" THEN Call("instances", ev) ELSE Idle
  ELSE IF left = "both" /\ ev.side.up THEN Call("read", ev) ELSE Idle

HandleWorkspacePodEvents ==
  /\ h = Idle /\ queue # <<>>
  /\ queue' = Tail(queue) /\ h' = Dispatch(Head(queue))
  /\ UNCHANGED <<podVars, inPod, ssm, init, req, hist, budget>>

\* Mutant: only a restart of the sidecar counts.
DecideSidecar(f) ==
  IF f = NoFile THEN [h EXCEPT !.pc = "mark", !.s = TRUE, !.m = TRUE]
  ELSE IF f = Damaged THEN [h EXCEPT !.pc = "mark", !.s = TRUE, !.m = TRUE, !.clean = TRUE]
  ELSE IF f.busy \/ h.ev.side.n <= f.s THEN Idle
  ELSE [h EXCEPT !.pc = "mark", !.s = TRUE, !.m = h.ev.main.n > f.m, !.clean = TRUE]

\* What SetupContainers makes of the state file: nothing readable is a first
\* set-up; else only restarts since the recorded counts matter.
Decide(f) ==
  IF f = NoFile THEN [h EXCEPT !.pc = "mark", !.s = TRUE, !.m = TRUE]
  ELSE IF f = Damaged THEN [h EXCEPT !.pc = "mark", !.s = TRUE, !.m = TRUE, !.clean = TRUE]
  ELSE LET restarted(n, old) == n > old
           s == restarted(h.ev.side.n, f.s)
           m == restarted(h.ev.main.n, f.m)
       IN IF f.busy \/ (~s /\ ~m) THEN Idle
          ELSE [h EXCEPT !.pc = "mark", !.s = s, !.m = m, !.clean = s]

ReadRegistrationState ==
  LET p == h.ev.pod
  IN /\ h.pc = "read"
     /\ \E o \in Replies :
          /\ Exec(p, side, o)
          /\ h' = Decide(IF Succeeds(p, side, o) THEN file[p] ELSE NoFile)
     /\ UNCHANGED <<podVars, inPod, queue, ssm, init, req, hist>>

\* Mutant: the counts are taken one too low.
StateOffByOne(busy) == [kind |-> "state", s |-> h.ev.side.n - 1, m |-> h.ev.main.n - 1, busy |-> busy]

\* The state written by a set-up for the restart counts of its pod object.
State(busy) == [kind |-> "state", s |-> h.ev.side.n, m |-> h.ev.main.n, busy |-> busy]

WriteState(p, o, busy) ==
  /\ Exec(p, side, o)
  /\ file' = IF Effect(p, side, o) THEN [file EXCEPT ![p] = State(busy)] ELSE file

\* Mark the set-up as in progress; a failure is ignored.
MarkInProgress ==
  /\ h.pc = "mark"
  /\ \E o \in Replies : WriteState(h.ev.pod, o, TRUE)
  /\ h' = [h EXCEPT !.pc = IF ~h.s THEN "server" ELSE IF h.clean THEN "instances" ELSE "activate"]
  /\ UNCHANGED <<podVars, agent, server, queue, ssm, init, req, hist>>

\* CleanupManagedInstancesByPodUID: what one failing call leaves behind.
InstancesOf(p) == {i \in insts : i.pod = p}
Kept(all) == {all, {}} \cup {{i} : i \in all}

CleanupInstances ==
  LET p == h.ev.pod
  IN /\ h.pc = "instances"
     /\ \E o \in Replies :
          /\ Spend(o)
          /\ \E kept \in IF o = "ok" THEN {{}} ELSE Kept(InstancesOf(p)) :
               LET removed == InstancesOf(p) \ kept
               IN /\ insts' = insts \ removed
                  /\ sess' = [i \in DOMAIN sess |->
                                IF \E x \in removed : x.id = i THEN 0 ELSE sess[i]]
     /\ h' = [h EXCEPT !.pc = "activations"]
     /\ UNCHANGED <<podVars, inPod, queue, acts, init, req, hist>>

\* CleanupActivationsByPodUID; a set-up goes on whatever came of it.
CleanupActivations ==
  LET p == h.ev.pod
  IN /\ h.pc = "activations"
     /\ \E o \in Replies :
          /\ Spend(o)
          /\ \E n \in IF o = "ok" THEN {0} ELSE {0, 1, acts[p]} :
               n <= acts[p] /\ acts' = [acts EXCEPT ![p] = n]
     /\ h' = IF h.ev.del THEN Idle ELSE [h EXCEPT !.pc = "activate"]
     /\ UNCHANGED <<podVars, inPod, queue, insts, sess, init, req, hist>>

\* A failed step ends the set-up but for the final state.
Proceed(ok, pc) ==
  /\ h' = IF ok THEN [h EXCEPT !.pc = pc] ELSE [h EXCEPT !.pc = "final", !.err = TRUE]
  /\ spoiled' = IF ok THEN spoiled ELSE spoiled \cup {h.ev.pod}
  /\ UNCHANGED missed

CreateSSMActivation ==
  /\ h.pc = "activate"
  /\ \E o \in Replies :
       /\ Spend(o)
       /\ acts' = IF o = "refused" THEN acts ELSE [acts EXCEPT ![h.ev.pod] = @ + 1]
       /\ Proceed(o = "ok", "register")
  /\ UNCHANGED <<podVars, inPod, queue, insts, sess, init, req>>

\* The registration script: SSM gives the agent a new identity.
RegisterAgent ==
  LET p  == h.ev.pod
      id == Len(sess) + 1
  IN /\ h.pc = "register"
     /\ \E o \in Replies :
          /\ Exec(p, side, o)
          /\ IF Effect(p, side, o)
             THEN /\ insts' = insts \cup {[pod |-> p, id |-> id]}
                  /\ sess' = Append(sess, 0)
                  /\ agent' = [agent EXCEPT ![p] = id]
             ELSE UNCHANGED <<insts, sess, agent>>
          /\ Proceed(Succeeds(p, side, o), "marker")
     /\ UNCHANGED <<podVars, file, server, queue, acts, init, req>>

CreateMarkerFile ==
  LET p == h.ev.pod
  IN /\ h.pc = "marker"
     /\ \E o \in Replies :
          /\ Exec(p, side, o)
          /\ Proceed(Succeeds(p, side, o), IF h.m THEN "server" ELSE "final")
     /\ UNCHANGED <<podVars, inPod, queue, ssm, init, req>>

\* setupWorkspaceContainer: a container that was down in the event is passed over.
StartRemoteAccessServer ==
  LET p == h.ev.pod
  IN /\ h.pc = "server"
     /\ IF ~h.ev.main.up
        THEN Proceed(TRUE, "final") /\ UNCHANGED <<server, budget>>
        ELSE \E o \in Replies :
               /\ Exec(p, main, o)
               /\ server' = IF Effect(p, main, o) THEN [server EXCEPT ![p] = @ + 1] ELSE server
               /\ Proceed(Succeeds(p, main, o), "final")
     /\ UNCHANGED <<podVars, file, agent, queue, ssm, init, req>>

\* Mutant: the flag is left standing after a successful set-up.
FinalBusy(p, o) == WriteState(p, o, ~h.err)

Final(p, o) == WriteState(p, o, FALSE)

\* Done or failed, the counts are recorded and the flag is cleared.
WriteFinalState ==
  LET p == h.ev.pod
  IN /\ h.pc = "final"
     /\ \E o \in Replies :
          /\ Final(p, o)
          /\ spoiled' = IF Effect(p, side, o) THEN spoiled ELSE spoiled \cup {p}
     /\ h' = Idle
     /\ UNCHANGED <<podVars, agent, server, queue, ssm, init, req, missed>>

PodEventHandler ==
  \/ HandleWorkspacePodEvents \/ ReadRegistrationState \/ MarkInProgress
  \/ CleanupInstances \/ CleanupActivations
  \/ CreateSSMActivation \/ RegisterAgent \/ CreateMarkerFile
  \/ StartRemoteAccessServer \/ WriteFinalState
-------------------------------------------------------------------------------
(***************************************************************************)
(* The extension API: initialise AWS resources once, find the instance of  *)
(* the workspace's pod, check the number of its sessions, start another.   *)
(***************************************************************************)
Answer(c) == req' = [req EXCEPT ![c] = NoRequest]

\* Both sync.Once guards run once per process: whatever error comes first stays.
EnsureResourcesInitialized ==
  /\ init = "new" /\ budget.load < MaxLoad
  /\ \/ init' = "ok" /\ budget' = Raised("load", 1)
     \/ init' = "failed" /\ Trouble("faults", MaxFaults) /\ Charge("faults")
  /\ UNCHANGED <<podVars, inPod, queue, h, ssm, req, hist>>

\* Mutant: the sort puts the oldest registration first.
FindOldest(p) == Min({i.id : i \in InstancesOf(p)})

\* The most recently registered instance with the pod's tag.
FindInstanceByPodUID(p) == Max({i.id : i \in InstancesOf(p)})

\* GetPodUIDFromWorkspaceName takes any pod of the workspace, a terminating one too.
GenerateVSCodeURL(c) ==
  /\ req[c].pc = "idle" /\ init = "ok" /\ left = "both"
  /\ budget.load < MaxLoad /\ budget' = Raised("load", 1)
  /\ \E p \in Pods :
       /\ life[p] \in {"up", "term"} /\ InstancesOf(p) # {}
       /\ req' = [req EXCEPT ![c] = [pc |-> "check", inst |-> FindInstanceByPodUID(p)]]
  /\ UNCHANGED <<podVars, inPod, queue, h, ssm, init, hist>>

\* Mutant: one session too many.
RoomOffByOne(i) == sess[i] <= MaxSessions

Room(i) == sess[i] < MaxSessions

CheckNumActiveSessions(c) ==
  /\ req[c].pc = "check"
  /\ \/ Room(req[c].inst) /\ req' = [req EXCEPT ![c].pc = "start"]
     \/ Answer(c)
  /\ UNCHANGED <<podVars, inPod, queue, h, ssm, init, hist, budget>>

\* StartSession fails on an instance that is no longer registered.
StartSession(c) ==
  LET i == req[c].inst
  IN /\ req[c].pc = "start" /\ Answer(c)
     /\ \/ (\E x \in insts : x.id = i) /\ sess' = [sess EXCEPT ![i] = @ + 1]
        \/ UNCHANGED sess
     /\ UNCHANGED <<podVars, inPod, queue, h, insts, acts, init, hist, budget>>

EndSession(i) ==
  /\ sess[i] > 0 /\ sess' = [sess EXCEPT ![i] = @ - 1]
  /\ UNCHANGED <<podVars, inPod, queue, h, insts, acts, init, req, hist, budget>>
-------------------------------------------------------------------------------
\* The operator restarts: work in progress and pending events are lost, and
\* the new informer lists the pods there are.
Pending(p) == (h.pc # "idle" /\ h.ev.pod = p) \/ (\E i \in DOMAIN queue : queue[i].pod = p)

Crash ==
  /\ Trouble("crashes", MaxCrashes)
  /\ Charge("crashes")
  /\ missed' = missed \cup {p \in Pods : life[p] = "gone" /\ Pending(p)}
  /\ spoiled' = spoiled \cup {p \in Pods : h.pc # "idle" /\ h.ev.pod = p}
  /\ h' = Idle /\ init' = "new" /\ req' = [c \in Handlers |-> NoRequest]
  /\ LET there == {p \in Pods : life[p] \in {"up", "term"}}
     IN queue' \in {f \in [1..Cardinality(there) -> {seen[p] : p \in there}] :
                      \A i, j \in DOMAIN f : f[i] = f[j] => i = j}
  /\ UNCHANGED <<podVars, inPod, ssm>>

Containers(p) == SidecarUp(p) \/ MainUp(p)

Kubernetes ==
  \/ Release
  \/ \E p \in Pods :
       \/ PodRunning(p) \/ SidecarDown(p) \/ MainDown(p) \/ Containers(p)
       \/ Report(p) \/ Damage(p) \/ Terminate(p) \/ PodGone(p)

ExtensionAPI ==
  \/ EnsureResourcesInitialized
  \/ \E c \in Handlers : GenerateVSCodeURL(c) \/ CheckNumActiveSessions(c) \/ StartSession(c)
  \/ \E i \in DOMAIN sess : EndSession(i)

Next == PodEventHandler \/ Kubernetes \/ ExtensionAPI \/ Crash

Spec == Init /\ [][Next]_vars

\* The informer's goroutine goes on, the kubelet reports and restarts containers.
FairSpec ==
  /\ Spec /\ WF_vars(PodEventHandler)
  /\ \A p \in Pods : WF_vars(Containers(p)) /\ WF_vars(Report(p))
-------------------------------------------------------------------------------
\* Every variable has its type.
Container == [n: Nat, up: BOOLEAN]
PodObject == [pod: Pods, del: BOOLEAN, side: Container, main: Container]

TypeOK ==
  /\ life \in [Pods -> {"none", "up", "term", "gone"}]
  /\ side \in [Pods -> Container] /\ main \in [Pods -> Container]
  /\ seen \in [Pods -> PodObject]
  /\ file \in [Pods -> [kind: {"none", "damaged", "state"}, s: Nat, m: Nat, busy: BOOLEAN]]
  /\ agent \in [Pods -> Nat] /\ server \in [Pods -> Nat]
  /\ left \in {"both", "strategy", "nothing"}
  /\ queue \in Seq(PodObject)
  /\ h \in [pc: {"idle", "read", "mark", "instances", "activations", "activate", "register",
                 "marker", "server", "final"},
            ev: PodObject \cup {NoObject}, s: BOOLEAN, m: BOOLEAN, clean: BOOLEAN, err: BOOLEAN]
  /\ h.pc # "idle" => h.ev \in PodObject
  /\ sess \in Seq(Nat) /\ insts \subseteq [pod: Pods, id: 1..Len(sess)]
  /\ acts \in [Pods -> Nat]
  /\ init \in {"new", "ok", "failed"}
  /\ req \in [Handlers -> [pc: {"idle", "check", "start"}, inst: 0..Len(sess)]]
  /\ \A c \in Handlers : req[c].pc \in {"check", "start"} => req[c].inst # 0
  /\ spoiled \subseteq Pods /\ missed \subseteq Pods
  /\ budget \in [restarts: Nat, damages: Nat, faults: Nat, crashes: Nat, load: Nat]

\* A pod is usable if its live agent is registered and the server was started.
Usable(p) ==
  /\ [pod |-> p, id |-> agent[p]] \in insts
  /\ server[p] > 0

\* Nothing about p is on its way.
Rest(p) ==
  /\ life[p] = "up" /\ left = "both" /\ side[p].up /\ main[p].up
  /\ seen[p] = Object(p) /\ ~Pending(p)

\* SetupContainers from old pod objects and recorded counts: at rest, a pod none of
\* whose set-ups was disturbed by a failing call, a dying container or a crash is
\* usable, whatever restarts were coalesced or overtaken by later ones.
SetUp == \A p \in Pods : Rest(p) /\ p \notin spoiled => Usable(p)

\* The instance that FindInstanceByPodUID takes for the most recent is the live
\* agent's, although failed reads of the state file and failed clean-ups leave
\* several instances with the pod's tag.
FoundIsLive ==
  \A p \in Pods : [pod |-> p, id |-> agent[p]] \in insts => FindInstanceByPodUID(p) = agent[p]

\* CleanupSSMManagedNodes runs at least twice for a pod, from the update that marks it
\* and from its deletion: with one failing call nothing in SSM outlives the pod,
\* unless the deletion event or the strategy was lost.
CleanedUp ==
  \A p \in Pods :
    life[p] = "gone" /\ ~Pending(p) /\ p \notin missed /\ left # "nothing"
      => InstancesOf(p) = {} /\ acts[p] = 0

\* checkNumActiveSessions is followed by a separate StartSession: concurrent requests
\* overrun the limit, but by no more than there are other requests.
Checked(i) == {c \in Handlers : req[c].pc = "start" /\ req[c].inst = i}
SessionBound ==
  \A i \in DOMAIN sess : sess[i] + Cardinality(Checked(i)) < MaxSessions + Cardinality(Handlers)

\* Once restarts, faults and crashes are over, every undisturbed pod that stays up
\* is made usable and stays so.
EventuallySetUp ==
  \A p \in Pods :
    <>[](life[p] = "up" /\ left = "both" /\ p \notin spoiled => Usable(p))

\* ssm_remote_access_strategy.go:105: SetupContainers "handles both first-time setup and
\* recovery from container restarts".  A container that restarts while its pod is being
\* set up makes the attempt fail; either the flag cannot be cleared and turns later
\* events away, or the attempt is recorded like a successful one.
Recovered == \A p \in Pods : Rest(p) => Usable(p)
=============================================================================
