---------------------------- MODULE DeployAgent ----------------------------
(***************************************************************************)
(* The deploy-agent sidekick (cmd/deploy_agent) and the Swirl containers   *)
(* it works on: stop the primary, rename it to "swirl-previous", pull,     *)
(* let the standalone engine tear the project down and recreate it, pass   *)
(* two health gates, remove the previous container, or roll back.          *)
(*                                                                         *)
(* One action is one call to the Docker daemon together with what the      *)
(* agent does with its answer.  Every call may fail; it can only succeed   *)
(* while the deploy context is live, because runDeploy hands that context  *)
(* (also during rollback) to every call.  The agent may be killed between  *)
(* any two calls, and deploys follow one another on the same containers.   *)
(***************************************************************************)
EXTENDS Naturals, FiniteSets

CONSTANTS
  Container,      \* identifiers of Swirl containers, each used at most once
  First,          \* the Swirl container that runs initially
  HasPeer,        \* Swirl needs another service of its own stack (mongodb)
  PortPublished,  \* 127.0.0.1:<port> of the host reaches the Swirl container
  ProjectNetwork  \* the Swirl service is on a network the engine created

ASSUME FirstAssumption == First \in Container
ASSUME FlagsAssumption ==
  /\ HasPeer \in BOOLEAN
  /\ PortPublished \in BOOLEAN
  /\ ProjectNetwork \in BOOLEAN

VARIABLES
  st,       \* [Container -> status on the daemon]
  name,     \* [Container -> container name]
  good,     \* the containers whose image serves /api/system/ready once up
  peer,     \* the other service of the stack is running
  net,      \* the project network exists
  pc,       \* the agent's next call, or idle / done / dead
  phase,    \* stateWriter.st.Phase
  ctx,      \* deployCtx is neither expired nor cancelled
  prim,     \* job.PrimaryContainer
  auto,     \* job.AutoRollback
  orig,     \* originalName, captured before the stop
  new,      \* the container this deploy created, {} before
  astray,   \* history: how the job's primary came by the backup's name, "no" if not
  rbFault   \* history: a rollback call failed that could have succeeded

daemon == <<st, name, good, peer, net>>
agentVars == <<st, name, good, peer, net, pc, phase, ctx, prim, auto, astray, orig, new, rbFault>>

-----------------------------------------------------------------------------
(* Names: what the engine gives a new container, the fallback j.StackName, *)
(* the name an operator chose for the first container, and the backup's.   *)
EngineName == "engine"
StackName == "stack"
CustomName == "custom"
PrevName == "swirl-previous"
Names == {EngineName, StackName, CustomName, PrevName}

Statuses == {"unused", "created", "running", "stopped", "removed"}
AgentPhases == {"pending", "stopping", "pulling", "starting", "health_check",
           "success", "failed", "rolled_back", "recovery"}
BeforeRename == {"begin", "stop", "probeStale", "removeStale", "rename", "restart"}
AfterRename == {"pull", "teardown", "createPeer", "create", "start",
                "gateA", "gateB", "removePrevious"}
Rollback == {"rbClean", "rbLeftover", "rbRename", "rbStart", "rbHealth"}
AgentSteps == BeforeRename \cup AfterRename \cup Rollback
AtRest == {"idle", "done", "dead"}

Exists(c) == st[c] \in {"created", "running", "stopped"}
Running(c) == st[c] = "running"
Named(n) == {c \in Container : Exists(c) /\ name[c] = n}

\* GET /api/system/ready answers 200: the process serves and its DB answers.
Ready(c) == Running(c) /\ c \in good /\ (HasPeer => peer)

\* containers the engine lists for the project, minus the preserved name
AllProjectContainers == {c \in Container : Exists(c)}
ProjectContainers == {c \in Container : Exists(c) /\ name[c] # PrevName}

-----------------------------------------------------------------------------
AgentTypeOK ==
  /\ st \in [Container -> Statuses]
  /\ name \in [Container -> Names]
  /\ good \subseteq Container
  /\ peer \in BOOLEAN
  /\ net \in BOOLEAN
  /\ pc \in AgentSteps \cup AtRest
  /\ phase \in AgentPhases
  /\ ctx \in BOOLEAN
  /\ prim \in Container
  /\ auto \in BOOLEAN
  /\ astray \in {"no", "begun", "left"}
  /\ orig \in Names
  /\ new \subseteq Container
  /\ rbFault \in BOOLEAN

AgentInit ==
  /\ st = [c \in Container |-> IF c = First THEN "running" ELSE "unused"]
  /\ \E n \in {EngineName, CustomName} :
       name = [c \in Container |-> IF c = First THEN n ELSE EngineName]
  /\ good \in {g \in SUBSET Container : First \in g}
  /\ peer = TRUE
  /\ net = TRUE
  /\ pc = "idle"
  /\ phase = "pending"
  /\ ctx = FALSE
  /\ prim = First
  /\ auto = TRUE
  /\ astray = "no"
  /\ orig = EngineName
  /\ new = {}
  /\ rbFault = FALSE

-----------------------------------------------------------------------------
(* How a run of the agent ends. *)
Finish(p) == pc' = "done" /\ phase' = p
Proceed(step, p) == pc' = step /\ phase' = p

\* handleDeployFailure
DeployFailed ==
  /\ IF auto THEN Proceed("rbClean", phase) ELSE Finish("recovery")
  /\ UNCHANGED rbFault

\* an error return of rollback: MarkRecovery.  possible says whether the call
\* could have succeeded in this state.
RollbackFailed(possible) ==
  /\ Finish("recovery")
  /\ rbFault' = (rbFault \/ possible)

\* A primary that answers requests spawns the agent for a new job.
Trigger(c) ==
  /\ pc \in AtRest
  /\ Ready(c)
  /\ prim' = c
  /\ auto' \in BOOLEAN
  /\ astray' = (IF name[c] = PrevName THEN "begun" ELSE "no")
  /\ Proceed("begin", "pending")
  /\ ctx' = TRUE
  /\ orig' = EngineName
  /\ new' = {}
  /\ UNCHANGED <<daemon, rbFault>>

\* validation and ping, then inspect the primary for its name; a failed
\* inspect falls back to the stack name
BeginNamingAfterRename ==
  /\ pc = "begin"
  /\ \/ Finish("failed") /\ UNCHANGED orig
     \/ ctx /\ Proceed("stop", "stopping") /\ orig' = PrevName
  /\ UNCHANGED <<daemon, ctx, prim, auto, astray, new, rbFault>>
Begin ==
  /\ pc = "begin"
  /\ \/ /\ Finish("failed")
        /\ UNCHANGED orig
     \/ /\ ctx
        /\ Proceed("stop", "stopping")
        /\ orig' \in {name[prim], StackName}
  /\ UNCHANGED <<daemon, ctx, prim, auto, astray, new, rbFault>>

\* a failing stop may still have stopped the container on the daemon
StopPrimaryIgnoringErrors ==
  /\ pc = "stop"
  /\ st' \in {st, [st EXCEPT ![prim] = IF @ = "running" THEN "stopped" ELSE @]}
  /\ Proceed("probeStale", phase)
  /\ UNCHANGED <<name, good, peer, net, ctx, prim, auto, astray, orig, new, rbFault>>
StopPrimary ==
  /\ pc = "stop"
  /\ \/ /\ ctx
        /\ st' = [st EXCEPT ![prim] = IF @ = "running" THEN "stopped" ELSE @]
        /\ Proceed("probeStale", phase)
     \/ /\ st' \in {st, [st EXCEPT ![prim] = IF @ = "running" THEN "stopped" ELSE @]}
        /\ Finish("failed")
  /\ UNCHANGED <<name, good, peer, net, ctx, prim, auto, astray, orig, new, rbFault>>

ProbeStale ==
  /\ pc = "probeStale"
  /\ \/ ctx /\ Named(PrevName) # {} /\ Proceed("removeStale", phase)
     \/ ctx /\ Named(PrevName) = {} /\ Proceed("rename", phase)
     \/ Proceed("restart", phase)
  /\ UNCHANGED <<daemon, ctx, prim, auto, astray, orig, new, rbFault>>

RemoveStale ==
  /\ pc = "removeStale"
  /\ \/ /\ ctx
        /\ st' = [c \in Container |-> IF c \in Named(PrevName) THEN "removed" ELSE st[c]]
        /\ \/ Proceed("rename", phase)
           \/ Proceed("restart", phase)
     \/ Proceed("restart", phase) /\ UNCHANGED st
  /\ UNCHANGED <<name, good, peer, net, ctx, prim, auto, astray, orig, new, rbFault>>

\* the daemon may have renamed it although the call fails: the answer was lost or
\* the context ended meanwhile
RenamePrimary ==
  /\ pc = "rename"
  /\ \/ /\ ctx
        /\ Exists(prim)
        /\ Named(PrevName) = {}
        /\ name' = [name EXCEPT ![prim] = PrevName]
        /\ \/ Proceed("pull", "pulling") /\ UNCHANGED astray
           \/ Proceed("restart", phase) /\ astray' = "left"
     \/ Proceed("restart", phase) /\ UNCHANGED <<name, astray>>
  /\ UNCHANGED <<st, good, peer, net, ctx, prim, auto, orig, new, rbFault>>

\* the rename failed: start the primary again (errors ignored), then Fail
RestartPrimary ==
  /\ pc = "restart"
  /\ \/ /\ ctx
        /\ Exists(prim)
        /\ ProjectNetwork => net
        /\ st' = [st EXCEPT ![prim] = "running"]
     \/ UNCHANGED st
  /\ Finish("failed")
  /\ UNCHANGED <<name, good, peer, net, ctx, prim, auto, astray, orig, new, rbFault>>

\* pulled, or present in the local cache
PullImage ==
  /\ pc = "pull"
  /\ \/ ctx /\ Proceed("teardown", "starting") /\ UNCHANGED rbFault
     \/ DeployFailed
  /\ UNCHANGED <<daemon, ctx, prim, auto, astray, orig, new>>

\* removeProjectContainers stops at the first error; the preserved name is
\* skipped; ensureNetworks follows
Teardown ==
  /\ pc = "teardown"
  /\ \/ /\ ctx
        /\ st' = [c \in Container |-> IF c \in ProjectContainers THEN "removed" ELSE st[c]]
        /\ peer' = FALSE
        /\ net' = TRUE
        /\ Proceed("createPeer", phase)
        /\ UNCHANGED rbFault
     \/ /\ \E gone \in SUBSET ProjectContainers :
             /\ ctx \/ gone = {}
             /\ st' = [c \in Container |-> IF c \in gone THEN "removed" ELSE st[c]]
        /\ peer' \in {peer, IF ctx THEN FALSE ELSE peer}
        /\ DeployFailed
        /\ UNCHANGED net
  /\ UNCHANGED <<name, good, ctx, prim, auto, astray, orig, new>>

\* the other services Swirl depends on, in depends_on order, and the wait
\* for their condition
CreatePeer ==
  /\ pc = "createPeer"
  /\ \/ ctx /\ peer' = TRUE /\ Proceed("create", phase) /\ UNCHANGED rbFault
     \/ peer' \in {peer, ctx} /\ DeployFailed
  /\ UNCHANGED <<st, name, good, net, ctx, prim, auto, astray, orig, new>>

CreateNew ==
  /\ pc = "create"
  /\ \/ \E c \in Container :
          /\ ctx
          /\ st[c] = "unused"
          /\ Named(EngineName) = {}
          /\ st' = [st EXCEPT ![c] = "created"]
          /\ name' = [name EXCEPT ![c] = EngineName]
          /\ new' = {c}
          /\ \/ Proceed("start", phase) /\ UNCHANGED rbFault
             \/ DeployFailed
     \/ DeployFailed /\ UNCHANGED <<st, name, new>>
  /\ UNCHANGED <<good, peer, net, ctx, prim, auto, astray, orig>>

\* ContainerStart and verifyRunning: a start the engine reports as failed may
\* leave the container exited or in a restart loop
StartNew ==
  /\ pc = "start"
  /\ \E c \in new :
       \/ /\ ctx
          /\ st' = [st EXCEPT ![c] = "running"]
          /\ Proceed("gateA", "health_check")
          /\ UNCHANGED rbFault
       \/ /\ \/ UNCHANGED st
             \/ ctx /\ \E s \in {"running", "stopped"} : st' = [st EXCEPT ![c] = s]
          /\ DeployFailed
  /\ UNCHANGED <<name, good, peer, net, ctx, prim, auto, astray, orig, new>>

\* waitHealthyResolver on the container found by its labels
GateAWithoutProbe ==
  /\ pc = "gateA"
  /\ \/ ctx /\ Proceed("gateB", phase) /\ UNCHANGED rbFault
     \/ DeployFailed
  /\ UNCHANGED <<daemon, ctx, prim, auto, astray, orig, new>>
GateAWithoutDeadline ==
  /\ pc = "gateA"
  /\ \/ ctx /\ (\E c \in new : Ready(c)) /\ Proceed("gateB", phase)
     \/ (\A c \in new : ~Ready(c)) /\ UNCHANGED <<pc, phase>>
  /\ UNCHANGED <<daemon, rbFault, ctx, prim, auto, astray, orig, new>>
GateA ==
  /\ pc = "gateA"
  /\ \/ ctx /\ (\E c \in new : Ready(c)) /\ Proceed("gateB", phase) /\ UNCHANGED rbFault
     \/ DeployFailed
  /\ UNCHANGED <<daemon, ctx, prim, auto, astray, orig, new>>

\* waitContainerHealthy: skipped when the lookup fails, passed when no
\* HEALTHCHECK is declared
GateB ==
  /\ pc = "gateB"
  /\ \/ Proceed("removePrevious", phase) /\ UNCHANGED rbFault
     \/ DeployFailed
  /\ UNCHANGED <<daemon, ctx, prim, auto, astray, orig, new>>

\* an error is only logged
RemovePrevious ==
  /\ pc = "removePrevious"
  /\ \/ /\ ctx
        /\ st' = [c \in Container |-> IF c \in Named(PrevName) THEN "removed" ELSE st[c]]
     \/ UNCHANGED st
  /\ Finish("success")
  /\ UNCHANGED <<name, good, peer, net, ctx, prim, auto, astray, orig, new, rbFault>>

-----------------------------------------------------------------------------
(* rollback *)

\* RemoveExcept ignores the errors of single removals, of containers and then
\* of networks; rollback ignores the error of listing them
RbClean ==
  /\ pc = "rbClean"
  /\ \/ /\ ctx
        /\ st' = [c \in Container |-> IF c \in ProjectContainers THEN "removed" ELSE st[c]]
        /\ peer' = FALSE
        /\ net' \in {net, FALSE}
        /\ UNCHANGED rbFault
     \/ /\ \E gone \in SUBSET ProjectContainers :
             /\ ctx \/ gone = {}
             /\ st' = [c \in Container |-> IF c \in gone THEN "removed" ELSE st[c]]
        /\ peer' \in {peer, IF ctx THEN FALSE ELSE peer}
        /\ net' \in {net, net /\ ~ctx}
        /\ rbFault' = (rbFault \/ ctx)
  /\ Proceed("rbLeftover", phase)
  /\ UNCHANGED <<name, good, ctx, prim, auto, astray, orig, new>>

\* a probe that fails counts as "no leftover"
RbLeftover ==
  /\ pc = "rbLeftover"
  /\ \/ /\ ctx
        /\ st' = [c \in Container |-> IF c \in Named(orig) THEN "removed" ELSE st[c]]
        /\ \/ Proceed("rbRename", phase) /\ UNCHANGED rbFault
           \/ Named(orig) # {} /\ RollbackFailed(TRUE)
     \/ /\ Proceed("rbRename", phase)
        /\ rbFault' = (rbFault \/ (ctx /\ Named(orig) # {}))
        /\ UNCHANGED st
     \/ ctx /\ Named(orig) # {} /\ RollbackFailed(TRUE) /\ UNCHANGED st
  /\ UNCHANGED <<name, good, peer, net, ctx, prim, auto, astray, orig, new>>

\* probe swirl-previous and rename it back
CanRenameBack == ctx /\ Named(PrevName) # {} /\ Named(orig) = {}
RbRename ==
  /\ pc = "rbRename"
  /\ \/ /\ CanRenameBack
        /\ name' = [c \in Container |-> IF c \in Named(PrevName) THEN orig ELSE name[c]]
        /\ \/ Proceed("rbStart", phase) /\ UNCHANGED rbFault
           \/ RollbackFailed(TRUE)
     \/ RollbackFailed(CanRenameBack) /\ UNCHANGED name
  /\ UNCHANGED <<st, good, peer, net, ctx, prim, auto, astray, orig, new>>

\* the daemon refuses to start a container whose network is gone
CanStartOld == ctx /\ (ProjectNetwork => net)
RbStart ==
  /\ pc = "rbStart"
  /\ \/ /\ CanStartOld
        /\ st' = [c \in Container |-> IF c \in Named(orig) THEN "running" ELSE st[c]]
        /\ \/ Proceed("rbHealth", phase) /\ UNCHANGED rbFault
           \/ RollbackFailed(TRUE)
     \/ RollbackFailed(CanStartOld) /\ UNCHANGED st
  /\ UNCHANGED <<name, good, peer, net, ctx, prim, auto, astray, orig, new>>

\* waitHealthy on http://127.0.0.1:<port>
OldAnswers == ctx /\ PortPublished /\ \E c \in Named(orig) : Ready(c)
RbHealthUnchecked ==
  /\ pc = "rbHealth"
  /\ ctx /\ Finish("rolled_back") /\ UNCHANGED rbFault
  /\ UNCHANGED <<daemon, ctx, prim, auto, astray, orig, new>>
RbHealth ==
  /\ pc = "rbHealth"
  /\ \/ OldAnswers /\ Finish("rolled_back") /\ UNCHANGED rbFault
     \/ RollbackFailed(OldAnswers)
  /\ UNCHANGED <<daemon, ctx, prim, auto, astray, orig, new>>

-----------------------------------------------------------------------------
(* The environment. *)

\* the deploy timeout elapses, or a signal cancels the context
ContextEnds ==
  /\ pc \in AgentSteps
  /\ ctx
  /\ ctx' = FALSE
  /\ UNCHANGED <<daemon, pc, phase, prim, auto, astray, orig, new, rbFault>>

\* a Swirl process exits by itself
ContainerExits ==
  /\ \E c \in Container : Running(c) /\ st' = [st EXCEPT ![c] = "stopped"]
  /\ rbFault' = (rbFault \/ pc = "rbHealth")
  /\ UNCHANGED <<name, good, peer, net, pc, phase, ctx, prim, auto, astray, orig, new>>

\* SIGKILL, OOM, host failure
Kill ==
  /\ pc \in AgentSteps
  /\ pc' = "dead"
  /\ UNCHANGED <<daemon, phase, ctx, prim, auto, astray, orig, new, rbFault>>

\* The manual rollback of the docs, when Swirl is down: remove the new
\* container, rename swirl-previous, start it (and the rest of the stack).
ManualRollback ==
  /\ pc \in AtRest
  /\ \A c \in Container : ~Ready(c)
  /\ Named(PrevName) # {}
  /\ st' = [c \in Container |-> IF c \in Named(PrevName) THEN "running"
                                ELSE IF Exists(c) THEN "removed" ELSE st[c]]
  /\ name' = [c \in Container |-> IF c \in Named(PrevName) THEN EngineName ELSE name[c]]
  /\ peer' = TRUE
  /\ net' = TRUE
  /\ UNCHANGED <<good, pc, phase, ctx, prim, auto, astray, orig, new, rbFault>>

\* Swirl is down: the operator starts one container again, whatever it is called,
\* the others stopped.
StartAgain ==
  /\ pc \in AtRest
  /\ \A c \in Container : ~Ready(c)
  /\ \E c \in AllProjectContainers :
       st' = [d \in Container |-> IF d = c THEN "running"
                                 ELSE IF st[d] = "running" THEN "stopped" ELSE st[d]]
  /\ peer' = TRUE
  /\ net' = TRUE
  /\ UNCHANGED <<name, good, pc, phase, ctx, prim, auto, astray, orig, new, rbFault>>

AgentStep ==
  \/ Begin \/ StopPrimary \/ ProbeStale \/ RemoveStale \/ RenamePrimary
  \/ RestartPrimary \/ PullImage \/ Teardown \/ CreatePeer \/ CreateNew
  \/ StartNew \/ GateA \/ GateB \/ RemovePrevious
  \/ RbClean \/ RbLeftover \/ RbRename \/ RbStart \/ RbHealth

Environment ==
  \/ \E c \in Container : Trigger(c)
  \/ ContextEnds \/ ContainerExits \/ Kill \/ ManualRollback \/ StartAgain

AgentNext == AgentStep \/ Environment

AgentSpec == AgentInit /\ [][AgentNext]_agentVars

\* A live agent process keeps calling the daemon: every call is bounded by a
\* timeout, so each step is eventually taken.
AgentFairSpec == AgentSpec /\ WF_agentVars(AgentStep)
-----------------------------------------------------------------------------
(* Properties. *)

\* There is always a Swirl container on the host that serves once started,
\* whatever call fails and wherever the agent is killed: lifecycle.go:17-19
\* "we never remove the old container until the new one is fully healthy".
\* Not so once a job is triggered from a Swirl that bears the backup's name
\* ("begun"): it removes that very container as the stale backup.
NeverContainerless ==
  astray # "begun" => \E c \in Container : Exists(c) /\ c \in good

\* What the agent reports is what it leaves: after success a container of
\* this deploy that has answered is there beside no backup's name; after
\* rolled_back the old one serves under its original name; after failed the
\* primary is there, renamed away only if the rename took effect although
\* its call failed ("left").  state_writer.go's Succeed, MarkRolledBack and
\* Fail against the daemon's state, for a job that began under its own name.
VerdictHolds ==
  /\ phase = "success" => \E c \in new : Exists(c) /\ c \in good /\ name[c] # PrevName
  /\ phase = "rolled_back" => Ready(prim) /\ name[prim] = orig /\ orig # PrevName
  /\ phase = "failed" /\ astray # "begun" =>
       Exists(prim) /\ prim \in good /\ (name[prim] = PrevName <=> astray = "left")
VerdictMatches == [][(pc \in AgentSteps /\ pc' = "done") => VerdictHolds']_agentVars

\* Two Swirl containers never run side by side on the same database and
\* volume, unless a removal failed during a rollback (RemoveExcept's errors
\* are ignored and the old container is started all the same).
OneSwirlRuns ==
  ~rbFault => \A c, d \in Container : Running(c) /\ Running(d) => c = d

\* A rollback whose calls all succeed within the deploy's context restores
\* the old version: it never ends in recovery by the agent's own doing.  That
\* is for a Swirl that needs nothing else of its stack and publishes its port:
\* RemoveExcept takes the stack's other services and networks away for good.
RecoveryOnlyOnFault ==
  ~HasPeer /\ ~ProjectNetwork /\ PortPublished =>
    (phase = "recovery" /\ auto /\ ctx => rbFault)

\* While the agent works, the container a job started from is destroyed only
\* once the job's new container has answered and is still there, as lifecycle.go:17-19
\* has it.  The code keeps to it unless the job began under the backup's name, to
\* which a rename that took effect unanswered, or a start of swirl-previous, leads.
OldKept ==
  (pc \in AgentSteps /\ Exists(prim) /\ ~Exists(prim)') => \E c \in new : Exists(c)' /\ c \in good
BackupUntilHealthy == [][astray # "begun" => OldKept]_agentVars

\* Every job ends: with a verdict or with the agent's death (each call and
\* each wait of runDeploy is bounded by a timeout).
JobEnds == pc \in AgentSteps ~> pc \in AtRest

\* The inductive invariant behind NeverContainerless, BackupUntilHealthy,
\* VerdictMatches and OneSwirlRuns.
\* What bears the backup's name serves once started, and is alone.
BackupNamed ==
  \A c \in Container : Exists(c) /\ name[c] = PrevName =>
    /\ c \in good
    /\ \A d \in Container : Exists(d) /\ name[d] = PrevName => d = c
\* The primary of the running job exists and serves; it bears the backup's
\* name exactly while the job is past its rename, and nothing else does.
PrimaryKept ==
  pc \in AgentSteps /\ astray # "begun" =>
    /\ prim \in good
    /\ Exists(prim)
    /\ orig # PrevName
    /\ pc \in BeforeRename => (name[prim] = PrevName <=> astray = "left")
    /\ astray = "left" => pc = "restart"
    /\ pc \in AfterRename \cup {"rbClean", "rbLeftover", "rbRename"} =>
         name[prim] = PrevName /\ \A c \in Named(PrevName) : c = prim
    /\ pc \in {"rbStart", "rbHealth"} =>
         name[prim] = orig /\ \A c \in Named(orig) : c = prim
    /\ pc \in {"probeStale", "removeStale", "rename"} => ~Running(prim)
\* A job that begins under the backup's name ends before its rename: whoever
\* finds the stale backup and removes it has no container left to rename.
EndsBeforeRename ==
  pc \in AgentSteps /\ astray = "begun" =>
    /\ pc \in BeforeRename
    /\ pc \in {"begin", "stop", "probeStale", "removeStale"} =>
         Exists(prim) /\ name[prim] = PrevName
    /\ pc = "rename" => ~Exists(prim)
\* The container of this deploy is not a backup; past gate A it has answered.
NewNamed == pc \in {"start", "gateA"} => \A c \in new : name[c] # PrevName
GatePassed ==
  pc \in {"gateB", "removePrevious"} =>
    \E c \in new : Exists(c) /\ c \in good /\ name[c] # PrevName
\* Nothing runs between the stop of the primary and the start of the new
\* container, nor between the rollback's cleanup and its start.
NoneRunning == \A c \in Container : ~Running(c)
RunsAlone ==
  ~rbFault =>
    /\ pc \in {"begin", "stop"} => \A c \in Container : Running(c) => c = prim
    /\ pc \in (BeforeRename \ {"begin", "stop"})
             \cup {"pull", "teardown", "createPeer", "create", "start"} => NoneRunning
    /\ pc \in AfterRename \cup {"rbClean"} => \A c \in Named(PrevName) : ~Running(c)
    /\ pc \in {"rbLeftover", "rbRename", "rbStart"} /\ ctx => NoneRunning

IndInv ==
  /\ AgentTypeOK
  /\ NeverContainerless
  /\ BackupNamed
  /\ PrimaryKept
  /\ EndsBeforeRename
  /\ NewNamed
  /\ GatePassed
  /\ OneSwirlRuns
  /\ RunsAlone
=============================================================================
