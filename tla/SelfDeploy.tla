----------------------------- MODULE SelfDeploy -----------------------------
(***************************************************************************)
(* The protocol between the primary Swirl (biz/self_deploy.go and          *)
(* biz/self_deploy_job.go) and the deploy-agent sidekick                   *)
(* (cmd/deploy_agent) over three files on the shared /data volume:         *)
(* job.json, state.json and .lock.                                         *)
(*                                                                         *)
(* The primary's threads are one per TriggerDeploy call, which turns into  *)
(* that job's watchdog, and one each for the boot hook, ResetLock and the  *)
(* Status poll.  One action is one access to a file, to the daemon or to   *)
(* the event log.  What may go wrong or overlap is a constant, so that     *)
(* each run names what it assumes.                                         *)
(***************************************************************************)
EXTENDS Naturals, FiniteSets

CONSTANTS
  Job,        \* job ids; each is triggered at most once
  NoJob,      \* no job id
  MaxEvents,  \* bound on the counted terminal events of a job
  Faults      \* what the environment may do, a subset of FaultKinds

FaultKinds ==
  {"overlap",       \* handlers of the primary run concurrently
   "inspectFails",  \* ContainerInspect of a sidekick fails although it runs
   "slowEnding",    \* handlers run between a sidekick's verdict and its exit
   "slowBoot",      \* a sidekick needs more than sidekickBootTimeout to boot
   "spawnFails",    \* creating or starting a sidekick fails
   "crash",         \* a sidekick dies at any point
   "primaryCrash"}  \* the primary dies by itself

Aux == {"boot", "reset", "poll"}   \* the threads of the primary without a job

ASSUME JobAssumption == NoJob \notin Job /\ Job \cap Aux = {}
ASSUME MaxEventsAssumption == MaxEvents \in Nat
ASSUME FaultsAssumption == Faults \subseteq FaultKinds

VARIABLES
  lock,     \* .lock exists
  jobFile,  \* the job id in job.json, or NoJob
  state,    \* state.json, or NoState
  side,     \* [Job -> status of the sidekick container on the daemon]
  spc,      \* [Job -> what the sidekick process does next]
  mem,      \* [Job -> stateWriter.st of the sidekick]
  up,       \* a primary runs
  tpc,      \* [Thread -> what the thread of the primary does next]
  seen,     \* [Thread -> the copy of state.json the thread works from]
  events    \* [Job -> Success and Failure audit events written for the job]

volume == <<lock, jobFile, state>>
sidekicks == <<side, spc, mem>>
primary == <<up, tpc, seen>>
vars == <<lock, jobFile, state, side, spc, mem, up, tpc, seen, events>>

-----------------------------------------------------------------------------
Thread == Job \cup Aux
Verdicts == {"success", "failed", "rolled_back", "recovery"}
Phases == {"none", "pending", "working"} \cup Verdicts
State == [job : Job \cup {NoJob}, phase : Phases, pub : BOOLEAN]
NoState == [job |-> NoJob, phase |-> "none", pub |-> FALSE]
Snapshot(j, p) == [job |-> j, phase |-> p, pub |-> FALSE]

ReclaimSteps == {"stat", "read", "inspect", "abandon", "unlock"}
TriggerSteps == {"acquire", "writeJob", "writePending", "sweep", "create",
                 "start", "fail", "release"}
WatchdogSteps == {"watch", "wdInspect", "wdFail", "wdUnlock"}
ThreadSteps == ReclaimSteps \cup TriggerSteps \cup WatchdogSteps
                 \cup {"idle", "done", "mark"}
SideStatus == {"absent", "created", "running", "exited"}
SidekickSteps == {"none", "load", "seed", "work", "unlock", "rotate", "close", "dead", "done"}

\* isInProgressPhase: "recovery" counts as in progress
isInProgressPhase(p) == p \in {"pending", "working", "recovery"}

SidekickRuns(j) == side[j] = "running"
Deploying(j) == SidekickRuns(j) /\ spc[j] \in {"load", "seed", "work"}
Ending(j) == spc[j] \in {"unlock", "rotate", "close"}

TypeOK ==
  /\ lock \in BOOLEAN
  /\ jobFile \in Job \cup {NoJob}
  /\ state \in State
  /\ side \in [Job -> SideStatus]
  /\ spc \in [Job -> SidekickSteps]
  /\ mem \in [Job -> State]
  /\ up \in BOOLEAN
  /\ tpc \in [Thread -> ThreadSteps]
  /\ seen \in [Thread -> State]
  /\ events \in [Job -> 0 .. MaxEvents]

Init ==
  /\ lock = FALSE
  /\ jobFile = NoJob
  /\ state = NoState
  /\ side = [j \in Job |-> "absent"]
  /\ spc = [j \in Job |-> "none"]
  /\ mem = [j \in Job |-> NoState]
  /\ up = TRUE
  /\ tpc = [t \in Thread |-> "idle"]
  /\ seen = [t \in Thread |-> NoState]
  /\ events = [j \in Job |-> 0]

-----------------------------------------------------------------------------
(* A thread's control. *)

Resting(t) == tpc[t] \in {"idle", "watch", "done"}
Turn(t) ==
  /\ up
  /\ "overlap" \notin Faults => \A u \in Thread \ {t} : Resting(u)
  /\ "slowEnding" \notin Faults => \A j \in Job : ~(SidekickRuns(j) /\ Ending(j))
At(t, step) == tpc[t] = step /\ Turn(t)
Goto(t, step) == tpc' = [tpc EXCEPT ![t] = step]
Keep(t, s) == seen' = [seen EXCEPT ![t] = s]

\* ContainerInspect says the sidekick of job j runs
SaysRunning(j) ==
  {(j \in Job) /\ SidekickRuns(j)} \cup (IF "inspectFails" \in Faults THEN {FALSE} ELSE {})

CountEvent(j) ==
  events' = IF j \in Job /\ events[j] < MaxEvents
            THEN [events EXCEPT ![j] = @ + 1] ELSE events

-----------------------------------------------------------------------------
(* reclaimStaleLock, called by a trigger, the boot hook and ResetLock. *)

AfterReclaim(t) ==
  CASE t \in Job -> "acquire"
    [] t = "boot" -> "sweep"
    [] OTHER -> "idle"

StatLock(t) ==
  /\ At(t, "stat")
  /\ Goto(t, IF lock THEN "read" ELSE AfterReclaim(t))
  /\ UNCHANGED <<volume, sidekicks, up, seen, events>>

\* no state or a terminal phase: the lock is simply dropped
ReadState(t) ==
  /\ At(t, "read")
  /\ Goto(t, IF isInProgressPhase(state.phase) THEN "inspect" ELSE "unlock")
  /\ Keep(t, state)
  /\ UNCHANGED <<volume, sidekicks, up, events>>

InspectSidekick(t) ==
  /\ At(t, "inspect")
  /\ \E running \in SaysRunning(seen[t].job) :
       Goto(t, IF running THEN AfterReclaim(t) ELSE "abandon")
  /\ UNCHANGED <<volume, sidekicks, up, seen, events>>

Abandon(t) ==
  /\ At(t, "abandon")
  /\ state' = Snapshot(seen[t].job, "failed")
  /\ Goto(t, "unlock")
  /\ UNCHANGED <<lock, jobFile, sidekicks, up, seen, events>>

DropLock(t) ==
  /\ At(t, "unlock")
  /\ lock' = FALSE
  /\ Goto(t, AfterReclaim(t))
  /\ Keep(t, NoState)
  /\ UNCHANGED <<jobFile, state, sidekicks, up, events>>

Reclaim(t) ==
  StatLock(t) \/ ReadState(t) \/ InspectSidekick(t) \/ Abandon(t) \/ DropLock(t)

-----------------------------------------------------------------------------
(* TriggerDeploy *)

TriggerDeploy(j) ==
  /\ At(j, "idle")
  /\ Goto(j, "stat")
  /\ UNCHANGED <<volume, sidekicks, up, seen, events>>

\* O_CREATE|O_EXCL; a held lock refuses the deploy
AcquireNotExclusive(j) ==
  /\ At(j, "acquire")
  /\ lock' = TRUE
  /\ Goto(j, "writeJob")
  /\ Keep(j, NoState)
  /\ UNCHANGED <<jobFile, state, sidekicks, up, events>>
Acquire(j) ==
  /\ At(j, "acquire")
  /\ lock' = TRUE
  /\ Goto(j, IF lock THEN "done" ELSE "writeJob")
  /\ Keep(j, NoState)
  /\ UNCHANGED <<jobFile, state, sidekicks, up, events>>

WriteJob(j) ==
  /\ At(j, "writeJob")
  /\ jobFile' = j
  /\ Goto(j, "writePending")
  /\ UNCHANGED <<lock, state, sidekicks, up, seen, events>>

WritePending(j) ==
  /\ At(j, "writePending")
  /\ state' = Snapshot(j, "pending")
  /\ Goto(j, "sweep")
  /\ UNCHANGED <<lock, jobFile, sidekicks, up, seen, events>>

\* cleanupExitedSidekicks, of a trigger and of the boot hook: whatever does
\* not run goes, containers created but not yet started included
Sweep(t) ==
  /\ At(t, "sweep")
  /\ \E gone \in {{}, {j \in Job : side[j] \in {"created", "exited"}}} :
       side' = [j \in Job |-> IF j \in gone THEN "absent" ELSE side[j]]
  /\ Goto(t, IF t \in Job THEN "create" ELSE "idle")
  /\ Keep(t, NoState)
  /\ UNCHANGED <<volume, spc, mem, up, events>>

CreateSidekick(j) ==
  /\ At(j, "create")
  /\ \/ side' = [side EXCEPT ![j] = "created"] /\ Goto(j, "start")
     \/ "spawnFails" \in Faults /\ Goto(j, "fail") /\ UNCHANGED side
  /\ UNCHANGED <<volume, spc, mem, up, seen, events>>

\* a container that cannot be started is removed again
StartSidekick(j) ==
  /\ At(j, "start")
  /\ \/ /\ side[j] = "created"
        /\ side' = [side EXCEPT ![j] = "running"]
        /\ spc' = [spc EXCEPT ![j] = "load"]
        /\ Goto(j, "watch")
     \/ /\ side[j] # "created" \/ "spawnFails" \in Faults
        /\ side' = [side EXCEPT ![j] = "absent"]
        /\ Goto(j, "fail")
        /\ UNCHANGED spc
  /\ UNCHANGED <<volume, mem, up, seen, events>>

\* the spawn failed: Failed state and a Failure event, then release()
SpawnFailedKeepsLock(j) ==
  /\ At(j, "fail")
  /\ state' = Snapshot(j, "failed")
  /\ CountEvent(j)
  /\ Goto(j, "done")
  /\ UNCHANGED <<lock, jobFile, sidekicks, up, seen>>
SpawnFailed(j) ==
  /\ At(j, "fail")
  /\ state' = Snapshot(j, "failed")
  /\ CountEvent(j)
  /\ Goto(j, "release")
  /\ UNCHANGED <<lock, jobFile, sidekicks, up, seen>>

Release(j) ==
  /\ At(j, "release")
  /\ lock' = FALSE
  /\ Goto(j, "done")
  /\ UNCHANGED <<jobFile, state, sidekicks, up, seen, events>>

RunTrigger(j) ==
  Acquire(j) \/ WriteJob(j) \/ WritePending(j) \/ CreateSidekick(j)
    \/ StartSidekick(j) \/ SpawnFailed(j) \/ Release(j)

-----------------------------------------------------------------------------
(* watchSidekickBoot: sidekickBootTimeout after the spawn. *)

WatchdogReadsAnyJob(j) ==
  /\ At(j, "watch")
  /\ "slowBoot" \in Faults \/ spc[j] \notin {"load", "seed"}
  /\ Goto(j, IF state.phase = "pending" THEN "wdInspect" ELSE "done")
  /\ UNCHANGED <<volume, sidekicks, up, seen, events>>
WatchdogReads(j) ==
  /\ At(j, "watch")
  /\ "slowBoot" \in Faults \/ spc[j] \notin {"load", "seed"}
  /\ Goto(j, IF state.job = j /\ state.phase = "pending" THEN "wdInspect" ELSE "done")
  /\ UNCHANGED <<volume, sidekicks, up, seen, events>>

WatchdogInspects(j) ==
  /\ At(j, "wdInspect")
  /\ \E running \in SaysRunning(j) : Goto(j, IF running THEN "done" ELSE "wdFail")
  /\ UNCHANGED <<volume, sidekicks, up, seen, events>>

WatchdogFailsSilently(j) ==
  /\ At(j, "wdFail")
  /\ Goto(j, "wdUnlock")
  /\ UNCHANGED <<volume, sidekicks, up, seen, events>>
WatchdogFails(j) ==
  /\ At(j, "wdFail")
  /\ state' = Snapshot(j, "failed")
  /\ Goto(j, "wdUnlock")
  /\ UNCHANGED <<lock, jobFile, sidekicks, up, seen, events>>

WatchdogUnlocks(j) ==
  /\ At(j, "wdUnlock")
  /\ lock' = FALSE
  /\ Goto(j, "done")
  /\ UNCHANGED <<jobFile, state, sidekicks, up, seen, events>>

Watchdog(j) ==
  WatchdogReads(j) \/ WatchdogInspects(j) \/ WatchdogFails(j) \/ WatchdogUnlocks(j)

-----------------------------------------------------------------------------
(* ResetLock and Status. *)

\* refused while the sidekick of job.json runs
ResetLock ==
  /\ At("reset", "idle")
  /\ FALSE \in SaysRunning(jobFile)
  /\ Goto("reset", "stat")
  /\ UNCHANGED <<volume, sidekicks, up, seen, events>>

\* publishTerminalEvent on the state the poll has read
PollPublishes ==
  /\ At("poll", "idle")
  /\ state.phase \in Verdicts
  /\ ~state.pub
  /\ CountEvent(state.job)
  /\ Keep("poll", state)
  /\ Goto("poll", "mark")
  /\ UNCHANGED <<volume, sidekicks, up>>

\* the copy read before goes back to the file with EventPublished set
PollMarks ==
  /\ At("poll", "mark")
  /\ state' = [seen["poll"] EXCEPT !.pub = TRUE]
  /\ Keep("poll", NoState)
  /\ Goto("poll", "idle")
  /\ UNCHANGED <<lock, jobFile, sidekicks, up, events>>

\* the poll of the UI; besides this it only reports what it read and whether
\* the sidekick's container runs
Status == PollPublishes \/ PollMarks

-----------------------------------------------------------------------------
(* The sidekick: runWithIO of cmd/deploy_agent. *)

SidekickAt(j, step) == SidekickRuns(j) /\ spc[j] = step
SidekickGoto(j, step) == spc' = [spc EXCEPT ![j] = step]
Flush(j) == state' = mem[j]

\* the job comes from the file, not from the container
LoadJob(j) ==
  /\ SidekickAt(j, "load")
  /\ mem' = [mem EXCEPT ![j] = Snapshot(jobFile, "pending")]
  /\ SidekickGoto(j, "seed")
  /\ UNCHANGED <<volume, side, primary, events>>

\* newStateWriter
SeedState(j) ==
  /\ SidekickAt(j, "seed")
  /\ Flush(j)
  /\ SidekickGoto(j, "work")
  /\ UNCHANGED <<lock, jobFile, side, mem, primary, events>>

\* SetPhase and Logf change the memory copy only
EnterPhase(j) ==
  /\ SidekickAt(j, "work")
  /\ mem[j].phase = "pending"
  /\ mem' = [mem EXCEPT ![j].phase = "working"]
  /\ UNCHANGED <<volume, side, spc, primary, events>>

\* flusherLoop
FlushPhase(j) ==
  /\ SidekickAt(j, "work")
  /\ state # mem[j]
  /\ Flush(j)
  /\ UNCHANGED <<lock, jobFile, sidekicks, primary, events>>

\* every thread of a primary that goes down is gone
Down ==
  /\ up' = FALSE
  /\ tpc' = [t \in Thread |->
               IF t \in Aux \/ tpc[t] = "idle" THEN "idle" ELSE "done"]
  /\ seen' = [t \in Thread |-> NoState]

StopPrimaryOf(j) ==
  /\ SidekickAt(j, "work")
  /\ mem[j].phase = "working"
  /\ up
  /\ Down
  /\ UNCHANGED <<volume, sidekicks, events>>

\* Succeed, MarkRolledBack, MarkRecovery and Fail flush at once.  Success
\* and rolled_back follow an answer of a primary.
Conclude(j) ==
  /\ SidekickAt(j, "work")
  /\ \E p \in Verdicts :
       /\ p # "failed" => mem[j].phase = "working"
       /\ p \in {"success", "rolled_back"} => up
       /\ mem' = [mem EXCEPT ![j].phase = p]
       /\ state' = [mem[j] EXCEPT !.phase = p]
  /\ SidekickGoto(j, "unlock")
  /\ UNCHANGED <<lock, jobFile, side, primary, events>>

\* whoever's lock it is
UnlockAfterDeploy(j) ==
  /\ SidekickAt(j, "unlock")
  /\ lock' = FALSE
  /\ SidekickGoto(j, "rotate")
  /\ UNCHANGED <<jobFile, state, side, mem, primary, events>>

\* rotateHistory flushes, and so does Close, which ends the process
RotateHistory(j) ==
  /\ SidekickAt(j, "rotate")
  /\ Flush(j)
  /\ SidekickGoto(j, "close")
  /\ UNCHANGED <<lock, jobFile, side, mem, primary, events>>

Close(j) ==
  /\ SidekickAt(j, "close")
  /\ Flush(j)
  /\ side' = [side EXCEPT ![j] = "exited"]
  /\ SidekickGoto(j, "done")
  /\ UNCHANGED <<lock, jobFile, mem, primary, events>>

SidekickDies(j) ==
  /\ SidekickRuns(j)
  /\ "crash" \in Faults
  /\ side' = [side EXCEPT ![j] = "exited"]
  /\ SidekickGoto(j, "dead")
  /\ UNCHANGED <<volume, mem, primary, events>>

-----------------------------------------------------------------------------
PrimaryDies ==
  /\ "primaryCrash" \in Faults
  /\ up
  /\ Down
  /\ UNCHANGED <<volume, sidekicks, events>>

\* a primary starts (the old one, or the one the sidekick created); its boot
\* hook starts with it
PrimaryBoots ==
  /\ ~up
  /\ up' = TRUE
  /\ Goto("boot", "stat")
  /\ UNCHANGED <<volume, sidekicks, seen, events>>

BootHook == Reclaim("boot") \/ Sweep("boot")
TriggerThread(j) == Reclaim(j) \/ Sweep(j) \/ RunTrigger(j) \/ Watchdog(j)
SidekickProgress(j) ==
  LoadJob(j) \/ SeedState(j) \/ Conclude(j) \/ UnlockAfterDeploy(j)
    \/ RotateHistory(j) \/ Close(j)

Next ==
  \/ \E j \in Job :
       \/ TriggerDeploy(j) \/ TriggerThread(j)
       \/ SidekickProgress(j) \/ EnterPhase(j) \/ FlushPhase(j) \/ StopPrimaryOf(j)
       \/ SidekickDies(j)
  \/ BootHook
  \/ ResetLock \/ Reclaim("reset")
  \/ Status
  \/ PrimaryDies \/ PrimaryBoots

Spec == Init /\ [][Next]_vars

\* Threads of a live primary and live sidekicks run on; their waits are
\* bounded by timeouts.  A primary that is down is started again by its
\* restart policy, the sidekick or the operator.  Nothing obliges anybody to
\* trigger, poll or reset.  Strong fairness for the primary's threads stands
\* for their running in parallel: without "overlap" they take turns here.
FairSpec ==
  /\ Spec
  /\ \A j \in Job : SF_vars(TriggerThread(j)) /\ WF_vars(SidekickProgress(j))
  /\ SF_vars(BootHook)
  /\ SF_vars(Reclaim("reset"))
  /\ SF_vars(PollMarks)
  /\ WF_vars(PrimaryBoots)

-----------------------------------------------------------------------------
(* Properties. *)

\* Two sidekicks never work on the same containers: the lock admits one
\* deploy at a time (TriggerDeploy, "a self-deploy is already in progress").
OneDeployAtATime ==
  \A i, j \in Job : Deploying(i) /\ Deploying(j) => i = j

\* While a sidekick works, the files describe its job, so that Status,
\* ResetLock and the reclaim inspect the right container.
StateNamesDeploy ==
  \A j \in Job : SidekickRuns(j) /\ spc[j] = "work" =>
    mem[j].job = j /\ jobFile = j /\ state.job = j /\ isInProgressPhase(state.phase)

\* The current sidekick is dead with the lock held, its watchdog has looked
\* (or is gone), and nothing else of the primary is at work
Unattended ==
  /\ lock
  /\ jobFile \in Job /\ spc[jobFile] = "dead" /\ tpc[jobFile] \notin WatchdogSteps
  /\ up /\ \A t \in Thread : Resting(t)

\* The lock is always given back: by the sidekick, the watchdog, a failed
\* spawn or the boot hook, whatever crashes, unless the sidekick dies once
\* nobody watches it any more (then only the next trigger, boot or reset
\* reclaims it) or the primary never stays up.
LockReturned == <>[]up => (lock ~> (~lock \/ Unattended))

\* No job stays Pending for ever (TriggerDeploy: "instead of an eternal
\* Pending"), with the same exceptions.
PendingResolves ==
  <>[]up => (state.phase = "pending" ~> (state.phase # "pending" \/ Unattended))
=============================================================================
