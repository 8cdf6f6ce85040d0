---------------------------- MODULE DeployProofs ----------------------------
(***************************************************************************)
(* What is proved of a self-deploy.  Of DeployAgent, for any number of     *)
(* containers and deploys and any shape of the Swirl stack: the host       *)
(* always keeps a Swirl container that serves, the backup outlives an      *)
(* unproven replacement, a verdict is true, and no two Swirl containers    *)
(* run at once.  Of SelfDeploy, for any set of jobs: its types, for any    *)
(* set of faults, and that the lock admits one deploy at a time, for every *)
(* set of faults in which handlers take turns and inspections do not fail. *)
(***************************************************************************)
EXTENDS DeployAgent, SelfDeploy, TLAPS

-----------------------------------------------------------------------------
(* The agent. *)

\* The agent's variables keep their types: every handler of the agent and
\* every operator action assigns values the record types allow.
LEMMA AgentTypeStep == AgentTypeOK /\ [AgentNext]_agentVars => AgentTypeOK'
<1> SUFFICES ASSUME AgentTypeOK, [AgentNext]_agentVars PROVE AgentTypeOK'
  OBVIOUS
<1> USE FirstAssumption DEF AgentTypeOK, Statuses, Names, PrevName, EngineName,
      StackName, CustomName, AgentPhases, AgentSteps, BeforeRename, AfterRename,
      Rollback, AtRest, Finish, Proceed, DeployFailed, RollbackFailed, daemon
<1>1. CASE Begin BY <1>1 DEF Begin
<1>2. CASE StopPrimary BY <1>2 DEF StopPrimary
<1>3. CASE ProbeStale BY <1>3 DEF ProbeStale
<1>4. CASE RemoveStale BY <1>4 DEF RemoveStale
<1>5. CASE RenamePrimary BY <1>5 DEF RenamePrimary
<1>6. CASE RestartPrimary BY <1>6 DEF RestartPrimary
<1>7. CASE PullImage BY <1>7 DEF PullImage
<1>8. CASE Teardown
  <2>1. st' \in [Container -> Statuses] /\ pc' \in AgentSteps \cup AtRest /\ phase' \in AgentPhases
    BY <1>8 DEF Teardown
  <2>2. peer' \in BOOLEAN /\ net' \in BOOLEAN /\ rbFault' \in BOOLEAN
    BY <1>8, Zenon DEF Teardown
  <2> QED BY <1>8, <2>1, <2>2 DEF Teardown
<1>9. CASE CreatePeer
  <2>1. pc' \in AgentSteps \cup AtRest /\ phase' \in AgentPhases
    BY <1>9 DEF CreatePeer
  <2>2. peer' \in BOOLEAN /\ rbFault' \in BOOLEAN
    BY <1>9, Zenon DEF CreatePeer
  <2> QED BY <1>9, <2>1, <2>2 DEF CreatePeer
<1>10. CASE CreateNew BY <1>10 DEF CreateNew
<1>11. CASE StartNew BY <1>11 DEF StartNew
<1>12. CASE GateA BY <1>12 DEF GateA
<1>13. CASE GateB BY <1>13 DEF GateB
<1>14. CASE RemovePrevious BY <1>14 DEF RemovePrevious
<1>15. CASE RbClean
  <2>1. st' \in [Container -> Statuses] /\ pc' \in AgentSteps \cup AtRest /\ phase' \in AgentPhases
    BY <1>15 DEF RbClean
  <2>2. peer' \in BOOLEAN /\ net' \in BOOLEAN /\ rbFault' \in BOOLEAN
    BY <1>15, Zenon DEF RbClean
  <2> QED BY <1>15, <2>1, <2>2 DEF RbClean
<1>16. CASE RbLeftover BY <1>16 DEF RbLeftover
<1>17. CASE RbRename
  <2>1. name' \in [Container -> Names] /\ pc' \in AgentSteps \cup AtRest /\ phase' \in AgentPhases
    BY <1>17 DEF RbRename
  <2>2. rbFault' \in BOOLEAN
    BY <1>17, Zenon DEF RbRename, CanRenameBack
  <2> QED BY <1>17, <2>1, <2>2 DEF RbRename
<1>18. CASE RbStart
  <2>1. st' \in [Container -> Statuses] /\ pc' \in AgentSteps \cup AtRest /\ phase' \in AgentPhases
    BY <1>18 DEF RbStart
  <2>2. rbFault' \in BOOLEAN
    BY <1>18, Zenon DEF RbStart, CanStartOld
  <2> QED BY <1>18, <2>1, <2>2 DEF RbStart
<1>19. CASE RbHealth BY <1>19 DEF RbHealth
<1>20. CASE \E c \in Container : Trigger(c) BY <1>20 DEF Trigger
<1>21. CASE ContextEnds
  <2>1. ctx' \in BOOLEAN BY <1>21 DEF ContextEnds
  <2> QED BY <1>21, <2>1 DEF ContextEnds
<1>22. CASE ContainerExits BY <1>22 DEF ContainerExits
<1>23. CASE Kill BY <1>23 DEF Kill
<1>24. CASE ManualRollback BY <1>24 DEF ManualRollback
<1>25. CASE StartAgain BY <1>25 DEF StartAgain, AllProjectContainers
<1>26. CASE UNCHANGED agentVars BY <1>26 DEF agentVars
<1> QED
  BY <1>1, <1>2, <1>3, <1>4, <1>5, <1>6, <1>7, <1>8, <1>9, <1>10, <1>11,
     <1>12, <1>13, <1>14, <1>15, <1>16, <1>17, <1>18, <1>19, <1>20, <1>21,
     <1>22, <1>23, <1>24, <1>25, <1>26
  DEF AgentNext, AgentStep, Environment

\* A host with one running Swirl and no job is well typed.
LEMMA AgentTypeInit == AgentInit => AgentTypeOK
BY FirstAssumption DEF AgentInit, AgentTypeOK, Statuses, Names, PrevName, EngineName,
   StackName, CustomName, AgentPhases, AtRest, AgentSteps

\* Type correctness of the agent and of the containers it works on.
THEOREM AgentTypeCorrect == AgentSpec => []AgentTypeOK
<1>1. AgentTypeOK /\ [AgentNext]_agentVars => AgentTypeOK' BY AgentTypeStep
<1> QED BY AgentTypeInit, <1>1, PTL DEF AgentSpec

-----------------------------------------------------------------------------
\* The part of the invariant about the backup: which container is the job's
\* primary, which name it bears, and that it or its replacement serves.
Backup ==
  /\ NeverContainerless /\ BackupNamed /\ PrimaryKept /\ EndsBeforeRename
  /\ NewNamed /\ GatePassed

\* Every call of the agent and every event of the host preserves it.
LEMMA BackupStep == AgentTypeOK /\ Backup /\ [AgentNext]_agentVars => Backup'
<1> SUFFICES ASSUME AgentTypeOK, Backup, [AgentNext]_agentVars PROVE Backup'
  OBVIOUS
<1> USE DEF AgentTypeOK, Backup, NeverContainerless, BackupNamed, PrimaryKept,
      EndsBeforeRename, NewNamed, GatePassed, Exists, Running, Named, Ready, ProjectContainers, PrevName,
      EngineName, StackName, CustomName, Names, AgentSteps, BeforeRename,
      AfterRename, Rollback, AtRest, Finish, Proceed, DeployFailed,
      RollbackFailed, daemon
<1>1. CASE Begin BY <1>1 DEF Begin
<1>2. CASE StopPrimary BY <1>2 DEF StopPrimary
<1>3. CASE ProbeStale BY <1>3 DEF ProbeStale
<1>4. CASE RemoveStale BY <1>4 DEF RemoveStale
<1>5. CASE RenamePrimary BY <1>5 DEF RenamePrimary
<1>6. CASE RestartPrimary BY <1>6 DEF RestartPrimary
<1>7. CASE PullImage BY <1>7 DEF PullImage
<1>8. CASE Teardown
  <2>1. \A c \in Container : st'[c] = st[c] \/ (st'[c] = "removed" /\ name[c] # PrevName)
    BY <1>8, ZenonT(60) DEF Teardown
  <2>2. UNCHANGED <<name, good, prim, astray, orig, new>>
    BY <1>8 DEF Teardown
  <2>3. name[prim] = PrevName /\ Exists(prim) /\ prim \in good /\ orig # PrevName
    BY <1>8 DEF Teardown
  <2>4. NeverContainerless' /\ BackupNamed'
    BY <2>1, <2>2, <2>3
  <2>5. PrimaryKept' /\ EndsBeforeRename' /\ NewNamed' /\ GatePassed'
    BY <1>8, <2>1, <2>2, <2>3 DEF Teardown
  <2> QED BY <2>4, <2>5
<1>9. CASE CreatePeer BY <1>9 DEF CreatePeer
<1>10. CASE CreateNew
  <2>1. /\ UNCHANGED <<good, prim, astray, orig>> /\ pc' \in {"start", "rbClean", "done"}
        /\ name[prim] = PrevName /\ Exists(prim) /\ prim \in good /\ orig # PrevName /\ astray # "begun"
        /\ astray # "left" /\ \A c \in Named(PrevName) : c = prim
    BY <1>10 DEF CreateNew
  <2>2. ASSUME NEW c \in Container, st[c] = "unused", st' = [st EXCEPT ![c] = "created"],
               name' = [name EXCEPT ![c] = EngineName], new' = {c}
        PROVE  Backup'
    BY <2>1, <2>2
  <2>3. CASE UNCHANGED <<st, name, new>> /\ pc' # "start"
    BY <2>1, <2>3
  <2> QED BY <1>10, <2>2, <2>3 DEF CreateNew
<1>11. CASE StartNew BY <1>11 DEF StartNew
<1>12. CASE GateA BY <1>12 DEF GateA
<1>13. CASE GateB BY <1>13 DEF GateB
<1>14. CASE RemovePrevious BY <1>14 DEF RemovePrevious
<1>15. CASE RbClean
  <2>1. \A c \in Container : st'[c] = st[c] \/ (st'[c] = "removed" /\ name[c] # PrevName)
    <3>1. \A gone \in SUBSET ProjectContainers :
             st' = [c \in Container |-> IF c \in gone THEN "removed" ELSE st[c]]
             => \A c \in Container : st'[c] = st[c] \/ (st'[c] = "removed" /\ name[c] # PrevName)
      OBVIOUS
    <3>2. \E gone \in SUBSET ProjectContainers :
             st' = [c \in Container |-> IF c \in gone THEN "removed" ELSE st[c]]
      BY <1>15, ZenonT(60) DEF RbClean
    <3> QED BY <3>1, <3>2
  <2>2. UNCHANGED <<name, good, prim, astray, orig, new>>
    BY <1>15 DEF RbClean
  <2>3. name[prim] = PrevName /\ Exists(prim) /\ prim \in good /\ orig # PrevName
    BY <1>15 DEF RbClean
  <2>4. NeverContainerless' /\ BackupNamed'
    BY <2>1, <2>2, <2>3
  <2>5. \A c \in Container : Exists(c) /\ name[c] = PrevName => c = prim
    BY <2>3
  <2>6. pc' = "rbLeftover"
    BY <1>15 DEF RbClean
  <2>7. PrimaryKept' /\ EndsBeforeRename' /\ NewNamed' /\ GatePassed'
    BY <1>15, <2>1, <2>2, <2>3, <2>5, <2>6 DEF RbClean
  <2> QED BY <2>4, <2>7
<1>16. CASE RbLeftover
  <2>1. /\ UNCHANGED <<name, good, prim, astray, orig, new>> /\ pc' \in {"rbRename", "done"}
        /\ name[prim] = PrevName /\ Exists(prim) /\ prim \in good /\ orig # PrevName /\ astray = "no"
    BY <1>16 DEF RbLeftover
  <2>2. \A c \in Container : st'[c] = st[c] \/ (st'[c] = "removed" /\ name[c] # PrevName)
    BY <1>16, <2>1 DEF RbLeftover
  <2> QED BY <1>16, <2>1, <2>2 DEF RbLeftover
<1>17. CASE RbRename
  <2>1. UNCHANGED <<st, good, peer, net, ctx, prim, auto, astray, orig, new>>
    BY <1>17 DEF RbRename
  <2>2. CASE CanRenameBack /\ pc' \in {"rbStart", "done"}
                /\ name' = [c \in Container |-> IF c \in Named(PrevName) THEN orig ELSE name[c]]
    <3>1. \A c \in Container : Exists(c) => (name[c] = PrevName <=> c = prim)
      BY <1>17 DEF RbRename
    <3>2. \A c \in Container : Exists(c) => name[c] # orig
      BY <2>2 DEF CanRenameBack
    <3>3. name'[prim] = orig /\ \A c \in Container \ {prim} : Exists(c) => name'[c] = name[c]
      BY <2>2, <3>1, <1>17 DEF RbRename
    <3>4. \A c \in Container : Exists(c) => name'[c] # PrevName
      BY <3>1, <3>3, <1>17 DEF RbRename
    <3>5. \A c \in Container : Exists(c) /\ name'[c] = orig => c = prim
      BY <3>2, <3>3
    <3>6. NeverContainerless' /\ BackupNamed' /\ EndsBeforeRename' /\ NewNamed' /\ GatePassed'
      BY <2>1, <2>2, <3>4, <1>17 DEF RbRename
    <3>7. PrimaryKept'
      BY <2>1, <2>2, <3>3, <3>5, <1>17 DEF RbRename
    <3> QED BY <3>6, <3>7
  <2>3. CASE UNCHANGED name /\ pc' = "done"
    BY <2>1, <2>3
  <2> QED BY <1>17, <2>2, <2>3 DEF RbRename
<1>18. CASE RbStart
  <2>1. /\ UNCHANGED <<name, good, prim, astray, orig, new>> /\ pc' \in {"rbHealth", "done"}
        /\ astray = "no" /\ \A c \in Named(orig) : c = prim
    BY <1>18 DEF RbStart
  <2>2. \A c \in Container : st'[c] = st[c] \/ (st'[c] = "running" /\ Exists(c))
    BY <1>18, <2>1 DEF RbStart
  <2> QED BY <2>1, <2>2, <1>18 DEF RbStart
<1>19. CASE RbHealth BY <1>19 DEF RbHealth
<1>20. CASE \E c \in Container : Trigger(c) BY <1>20 DEF Trigger
<1>21. CASE ContextEnds BY <1>21 DEF ContextEnds
<1>22. CASE ContainerExits BY <1>22 DEF ContainerExits
<1>23. CASE Kill BY <1>23 DEF Kill
<1>24. CASE ManualRollback BY <1>24 DEF ManualRollback
<1>25. CASE StartAgain BY <1>25 DEF StartAgain, AllProjectContainers
<1>26. CASE UNCHANGED agentVars BY <1>26 DEF agentVars
<1> QED
  BY <1>1, <1>2, <1>3, <1>4, <1>5, <1>6, <1>7, <1>8, <1>9, <1>10, <1>11,
     <1>12, <1>13, <1>14, <1>15, <1>16, <1>17, <1>18, <1>19, <1>20, <1>21,
     <1>22, <1>23, <1>24, <1>25, <1>26
  DEF AgentNext, AgentStep, Environment

-----------------------------------------------------------------------------
\* The part of the invariant about which Swirl containers run.
LEMMA RunsStep ==
  AgentTypeOK /\ Backup /\ OneSwirlRuns /\ RunsAlone /\ [AgentNext]_agentVars
    => OneSwirlRuns' /\ RunsAlone'
<1> SUFFICES ASSUME AgentTypeOK, Backup, OneSwirlRuns, RunsAlone, [AgentNext]_agentVars
             PROVE  OneSwirlRuns' /\ RunsAlone'
  OBVIOUS
<1> USE DEF AgentTypeOK, Backup, BackupNamed, PrimaryKept, NewNamed,
      EndsBeforeRename, OneSwirlRuns, RunsAlone,
      NoneRunning, Exists, Running, Named, Ready, ProjectContainers,
      AgentSteps, BeforeRename, AfterRename, Rollback, AtRest, Finish, Proceed,
      DeployFailed, RollbackFailed, daemon
<1>1. CASE Begin BY <1>1 DEF Begin
<1>2. CASE StopPrimary BY <1>2 DEF StopPrimary
<1>3. CASE ProbeStale BY <1>3 DEF ProbeStale
<1>4. CASE RemoveStale BY <1>4 DEF RemoveStale
<1>5. CASE RenamePrimary BY <1>5 DEF RenamePrimary
<1>6. CASE RestartPrimary BY <1>6 DEF RestartPrimary
<1>7. CASE PullImage BY <1>7 DEF PullImage
<1>8. CASE Teardown
  <2>1. \A c \in Container : st'[c] = "running" => st[c] = "running"
    <3>1. \E gone \in SUBSET ProjectContainers :
            st' = [c \in Container |-> IF c \in gone THEN "removed" ELSE st[c]]
      BY <1>8, ZenonT(60) DEF Teardown
    <3> QED BY <3>1
  <2>2. UNCHANGED <<name, rbFault, prim>> /\ pc' \in {"createPeer", "rbClean", "done"} /\ (NoneRunning \/ rbFault)
    BY <1>8 DEF Teardown
  <2> QED BY <1>8, <2>1, <2>2 DEF Teardown
<1>9. CASE CreatePeer BY <1>9 DEF CreatePeer
<1>10. CASE CreateNew BY <1>10 DEF CreateNew
<1>11. CASE StartNew BY <1>11 DEF StartNew
<1>12. CASE GateA BY <1>12 DEF GateA
<1>13. CASE GateB BY <1>13 DEF GateB
<1>14. CASE RemovePrevious BY <1>14 DEF RemovePrevious
<1>15. CASE RbClean
  <2>1. \A c \in Container : st'[c] = "running" => st[c] = "running"
    <3>1. \E gone \in SUBSET ProjectContainers :
            st' = [c \in Container |-> IF c \in gone THEN "removed" ELSE st[c]]
      BY <1>15, ZenonT(60) DEF RbClean
    <3> QED BY <3>1
  <2>2. UNCHANGED <<name, prim, ctx>> /\ pc' = "rbLeftover" /\ (rbFault => rbFault')
    BY <1>15 DEF RbClean
  <2>3. ctx /\ ~rbFault' =>
          /\ st' = [c \in Container |-> IF c \in ProjectContainers THEN "removed" ELSE st[c]]
          /\ \A c \in Named(PrevName) : ~Running(c)
    BY <1>15 DEF RbClean
  <2>4. ctx /\ ~rbFault' => \A c \in Container : st'[c] # "running"
    BY <2>3
  <2> QED BY <2>1, <2>2, <2>4
<1>16. CASE RbLeftover BY <1>16 DEF RbLeftover
<1>17. CASE RbRename BY <1>17 DEF RbRename
<1>18. CASE RbStart
  <2>1. \A c \in Container : Exists(c) /\ name[c] = orig => c = prim
    BY <1>18 DEF RbStart
  <2>2. CASE ctx /\ pc' = "rbHealth" /\ UNCHANGED rbFault
             /\ st' = [c \in Container |-> IF c \in Named(orig) THEN "running" ELSE st[c]]
    <3>1. ~rbFault => \A c \in Container : st'[c] = "running" => c = prim
      BY <1>18, <2>1, <2>2 DEF RbStart
    <3> QED BY <2>2, <3>1
  <2>3. CASE UNCHANGED st /\ pc' = "done" /\ (rbFault => rbFault')
    BY <2>3
  <2> QED BY <1>18, <2>2, <2>3 DEF RbStart, CanStartOld
<1>19. CASE RbHealth BY <1>19 DEF RbHealth
<1>20. CASE \E c \in Container : Trigger(c) BY <1>20 DEF Trigger
<1>21. CASE ContextEnds BY <1>21 DEF ContextEnds
<1>22. CASE ContainerExits BY <1>22 DEF ContainerExits
<1>23. CASE Kill BY <1>23 DEF Kill
<1>24. CASE ManualRollback
  <2>1. \A c, d \in Container : st'[c] = "running" /\ st'[d] = "running" => c = d
    BY <1>24 DEF ManualRollback
  <2> QED BY <1>24, <2>1 DEF ManualRollback
<1>25. CASE StartAgain BY <1>25 DEF StartAgain, AllProjectContainers
<1>26. CASE UNCHANGED agentVars BY <1>26 DEF agentVars
<1> QED
  BY <1>1, <1>2, <1>3, <1>4, <1>5, <1>6, <1>7, <1>8, <1>9, <1>10, <1>11,
     <1>12, <1>13, <1>14, <1>15, <1>16, <1>17, <1>18, <1>19, <1>20, <1>21,
     <1>22, <1>23, <1>24, <1>25, <1>26
  DEF AgentNext, AgentStep, Environment

-----------------------------------------------------------------------------
\* Before the first job the only container is not a backup and runs alone.
LEMMA InvInit == AgentInit => IndInv
<1> SUFFICES ASSUME AgentInit PROVE IndInv
  OBVIOUS
<1>1. AgentTypeOK BY AgentTypeInit
<1>2. First \in good /\ \A c \in Container : name[c] # PrevName
  BY FirstAssumption DEF AgentInit, PrevName, EngineName, CustomName
<1>3. NeverContainerless
  BY <1>2, FirstAssumption DEF AgentInit, NeverContainerless, Exists
<1>4. BackupNamed
  BY <1>2 DEF BackupNamed
<1>5. PrimaryKept /\ EndsBeforeRename /\ NewNamed /\ GatePassed /\ RunsAlone
  BY DEF AgentInit, PrimaryKept, EndsBeforeRename, NewNamed, GatePassed, RunsAlone, AgentSteps,
         BeforeRename, AfterRename, Rollback
<1>6. OneSwirlRuns
  BY DEF AgentInit, OneSwirlRuns, Running
<1> QED BY <1>1, <1>3, <1>4, <1>5, <1>6 DEF IndInv

\* IndInv is inductive: its type part, its backup part and its running part
\* each survive every step of the agent and of its environment.
LEMMA InvStep == IndInv /\ [AgentNext]_agentVars => IndInv'
BY AgentTypeStep, BackupStep, RunsStep DEF IndInv, Backup

\* The inductive invariant holds throughout, for any set of containers.
THEOREM Invariant == AgentSpec => []IndInv
<1>1. IndInv /\ [AgentNext]_agentVars => IndInv' BY InvStep
<1> QED BY InvInit, <1>1, PTL DEF AgentSpec

\* Wherever a call fails or the agent is killed, in any number of deploys,
\* a Swirl container that serves once started is left on the host
\* (runDeploy's rename pivot, rollback's RemoveExcept).
THEOREM ContainerKept == AgentSpec => []NeverContainerless
<1>1. IndInv => NeverContainerless BY DEF IndInv
<1> QED BY Invariant, <1>1, PTL

\* Without a removal that failed during a rollback, never two Swirl
\* containers run at once (stopPrimary before deployNew, RemoveExcept before
\* startContainer).
THEOREM RunAlone == AgentSpec => []OneSwirlRuns
<1>1. IndInv => OneSwirlRuns BY DEF IndInv
<1> QED BY Invariant, <1>1, PTL

\* The agent's steps that remove containers, seen from the primary: only
\* removePrevious, past both gates, takes it away.
LEMMA BackupLost ==
  IndInv /\ [AgentNext]_agentVars /\ astray # "begun" => OldKept
<1> SUFFICES ASSUME IndInv, [AgentNext]_agentVars, astray # "begun", pc \in AgentSteps,
                    Exists(prim), ~Exists(prim)'
             PROVE  \E c \in new : Exists(c)' /\ c \in good
  BY DEF OldKept
<1> USE DEF IndInv, AgentTypeOK, PrimaryKept, GatePassed, Exists, Running, Named,
      ProjectContainers, PrevName, AgentSteps, BeforeRename, AfterRename,
      Rollback, AtRest, daemon
<1>1. CASE RemovePrevious
  BY <1>1 DEF RemovePrevious
<1>2. CASE Begin \/ ProbeStale \/ RenamePrimary \/ PullImage \/ CreatePeer \/ GateA \/ GateB \/ RbRename \/ RbHealth
  BY <1>2 DEF Begin, ProbeStale, RenamePrimary, PullImage, CreatePeer, GateA, GateB, RbRename, RbHealth
<1>3. CASE StopPrimary \/ RemoveStale \/ RestartPrimary
  BY <1>3 DEF StopPrimary, RemoveStale, RestartPrimary
<1>4. CASE Teardown
  BY <1>4 DEF Teardown
<1>5. CASE CreateNew \/ StartNew
  BY <1>5 DEF CreateNew, StartNew
<1>6. CASE RbClean
  BY <1>6 DEF RbClean
<1>7. CASE RbLeftover
  BY <1>7 DEF RbLeftover
<1>8. CASE RbStart
  BY <1>8 DEF RbStart
<1>9. CASE Environment \/ UNCHANGED agentVars
  BY <1>9 DEF Environment, Trigger, ContextEnds, ContainerExits, Kill, ManualRollback, StartAgain, agentVars
<1> QED BY <1>1, <1>2, <1>3, <1>4, <1>5, <1>6, <1>7, <1>8, <1>9
  DEF AgentNext, AgentStep

\* A container the job still needs is never removed: the primary goes only
\* when this job's container has answered (removePrevious after both gates).
THEOREM BackupKept == AgentSpec => BackupUntilHealthy
<1>1. IndInv /\ [AgentNext]_agentVars
        => [astray # "begun" => OldKept]_agentVars
  BY BackupLost
<1> QED BY Invariant, <1>1, PTL DEF AgentSpec, BackupUntilHealthy

\* What the agent reports at its end is what it leaves on the daemon.
LEMMA VerdictStep ==
  IndInv /\ [AgentNext]_agentVars /\ pc \in AgentSteps /\ pc' = "done" => VerdictHolds'
<1> SUFFICES ASSUME IndInv, [AgentNext]_agentVars, pc \in AgentSteps, pc' = "done"
             PROVE  VerdictHolds'
  OBVIOUS
<1> USE DEF IndInv, AgentTypeOK, PrimaryKept, GatePassed, VerdictHolds, Exists, Running,
      Named, Ready, PrevName, AgentSteps, BeforeRename, AfterRename, Rollback,
      AtRest, Finish, Proceed, DeployFailed, RollbackFailed, daemon
<1>1. CASE RemovePrevious
  BY <1>1 DEF RemovePrevious
<1>2. CASE Begin \/ ProbeStale \/ RenamePrimary \/ PullImage \/ CreatePeer \/ GateA \/ GateB
  BY <1>2 DEF Begin, ProbeStale, RenamePrimary, PullImage, CreatePeer, GateA, GateB
<1>3. CASE StopPrimary
  BY <1>3 DEF StopPrimary
<1>4. CASE RemoveStale \/ RestartPrimary
  BY <1>4 DEF RemoveStale, RestartPrimary
<1>5. CASE Teardown
  BY <1>5 DEF Teardown
<1>6. CASE CreateNew \/ StartNew
  BY <1>6 DEF CreateNew, StartNew
<1>7. CASE RbClean \/ RbLeftover
  BY <1>7 DEF RbClean, RbLeftover
<1>8. CASE RbRename \/ RbStart
  BY <1>8 DEF RbRename, RbStart
<1>9. CASE RbHealth
  <2>1. name[prim] = orig /\ orig # PrevName /\ (\A c \in Named(orig) : c = prim) /\ UNCHANGED <<daemon, orig, prim>>
    BY <1>9 DEF RbHealth, EndsBeforeRename
  <2>2. phase' = "recovery" \/ (OldAnswers /\ phase' = "rolled_back")
    BY <1>9 DEF RbHealth
  <2> QED BY <2>1, <2>2 DEF OldAnswers
<1>10. CASE Environment \/ UNCHANGED agentVars
  BY <1>10 DEF Environment, Trigger, ContextEnds, ContainerExits, Kill, ManualRollback, StartAgain, agentVars
<1> QED BY <1>1, <1>2, <1>3, <1>4, <1>5, <1>6, <1>7, <1>8, <1>9, <1>10
  DEF AgentNext, AgentStep

\* The verdict in state.json is true of the daemon when the agent ends
\* (stateWriter.Succeed, MarkRolledBack, Fail).
THEOREM VerdictTrue == AgentSpec => VerdictMatches
<1>1. IndInv /\ [AgentNext]_agentVars
        => [(pc \in AgentSteps /\ pc' = "done") => VerdictHolds']_agentVars
  BY VerdictStep
<1> QED BY Invariant, <1>1, PTL DEF AgentSpec, VerdictMatches

-----------------------------------------------------------------------------
\* What a rollback needs for its next call to succeed, for a Swirl that needs
\* nothing else of its stack: unless a call failed that could have succeeded or
\* the context ended, nothing bears the original name when the old container is
\* to take it back, and the old container runs when it is asked.
CanGoBack ==
  ~HasPeer /\ ~ProjectNetwork /\ PortPublished /\ ctx /\ ~rbFault =>
    /\ ~(phase = "recovery" /\ auto)
    /\ pc = "rbRename" => Named(orig) = {}
    /\ pc = "rbHealth" => Running(prim)

LEMMA GoBackStep ==
  AgentTypeOK /\ Backup /\ CanGoBack /\ [AgentNext]_agentVars => CanGoBack'
<1> SUFFICES ASSUME AgentTypeOK, Backup, CanGoBack, [AgentNext]_agentVars, ~HasPeer, ~ProjectNetwork,
                    PortPublished, ctx', ~rbFault'
             PROVE  /\ ~(phase = "recovery" /\ auto)'
                    /\ pc' = "rbRename" => Named(orig)' = {}
                    /\ pc' = "rbHealth" => Running(prim)'
  BY DEF CanGoBack
<1> USE DEF AgentTypeOK, Backup, BackupNamed, PrimaryKept, CanGoBack, Exists, Running, Named, Ready,
      ProjectContainers, PrevName, AgentSteps, BeforeRename, AfterRename, Rollback, AtRest,
      Finish, Proceed, DeployFailed, RollbackFailed, daemon
<1>1. CASE Begin BY <1>1 DEF Begin
<1>2. CASE StopPrimary BY <1>2 DEF StopPrimary
<1>3. CASE ProbeStale BY <1>3 DEF ProbeStale
<1>4. CASE RemoveStale BY <1>4 DEF RemoveStale
<1>5. CASE RenamePrimary BY <1>5 DEF RenamePrimary
<1>6. CASE RestartPrimary BY <1>6 DEF RestartPrimary
<1>7. CASE PullImage BY <1>7 DEF PullImage
<1>8. CASE Teardown BY <1>8 DEF Teardown
<1>9. CASE CreatePeer BY <1>9 DEF CreatePeer
<1>10. CASE CreateNew BY <1>10 DEF CreateNew
<1>11. CASE StartNew BY <1>11 DEF StartNew
<1>12. CASE GateA BY <1>12 DEF GateA
<1>13. CASE GateB BY <1>13 DEF GateB
<1>14. CASE RemovePrevious BY <1>14 DEF RemovePrevious
<1>15. CASE RbClean BY <1>15 DEF RbClean
<1>16. CASE RbLeftover BY <1>16 DEF RbLeftover
<1>17. CASE RbRename
  <2>1. name[prim] = PrevName /\ Exists(prim) /\ Named(orig) = {}
    BY <1>17 DEF RbRename, EndsBeforeRename
  <2>2. CanRenameBack
    BY <1>17, <2>1 DEF RbRename, CanRenameBack
  <2> QED BY <1>17, <2>2 DEF RbRename
<1>18. CASE RbStart BY <1>18 DEF RbStart, CanStartOld, EndsBeforeRename
<1>19. CASE RbHealth BY <1>19 DEF RbHealth, OldAnswers, EndsBeforeRename
<1>20. CASE \E c \in Container : Trigger(c) BY <1>20 DEF Trigger
<1>21. CASE ContextEnds BY <1>21 DEF ContextEnds
<1>22. CASE ContainerExits BY <1>22 DEF ContainerExits
<1>23. CASE Kill BY <1>23 DEF Kill
<1>24. CASE ManualRollback BY <1>24 DEF ManualRollback
<1>25. CASE StartAgain BY <1>25 DEF StartAgain, AllProjectContainers
<1>26. CASE UNCHANGED agentVars BY <1>26 DEF agentVars
<1> QED
  BY <1>1, <1>2, <1>3, <1>4, <1>5, <1>6, <1>7, <1>8, <1>9, <1>10, <1>11, <1>12, <1>13,
     <1>14, <1>15, <1>16, <1>17, <1>18, <1>19, <1>20, <1>21, <1>22, <1>23, <1>24, <1>25, <1>26
  DEF AgentNext, AgentStep, Environment

\* A rollback none of whose calls failed, inside the deploy's time, ends with the
\* old version serving: MarkRecovery is for a call that failed, a timeout, or a
\* Swirl that needs more of its stack than RemoveExcept leaves it.
THEOREM RollbackRestores == AgentSpec => []RecoveryOnlyOnFault
<1>1. AgentInit => CanGoBack
  BY DEF AgentInit, CanGoBack
<1>2. IndInv => AgentTypeOK /\ Backup
  BY DEF IndInv, Backup
<1>3. IndInv /\ CanGoBack /\ [AgentNext]_agentVars => CanGoBack'
  BY <1>2, GoBackStep
<1>4. CanGoBack => RecoveryOnlyOnFault
  BY DEF CanGoBack, RecoveryOnlyOnFault
<1> QED BY Invariant, <1>1, <1>3, <1>4, PTL DEF AgentSpec

-----------------------------------------------------------------------------
(* The lock, the files and the threads of the primary. *)

\* Without a job the files are absent, the threads idle, no sidekick exists.
LEMMA TypeInit == Init => TypeOK
<1> SUFFICES ASSUME Init PROVE TypeOK
  OBVIOUS
<1>1. NoState \in State
  BY DEF NoState, State, Phases
<1>2. 0 \in 0 .. MaxEvents
  BY MaxEventsAssumption
<1> QED
  BY <1>1, <1>2 DEF Init, TypeOK, SideStatus, SidekickSteps, ThreadSteps

\* Every file access, daemon call and process event keeps the types: threads
\* only copy states they have read, and sidekicks only write their own.
LEMMA TypeStep == TypeOK /\ [Next]_vars => TypeOK'
<1> SUFFICES ASSUME TypeOK, [Next]_vars PROVE TypeOK'
  OBVIOUS
<1> USE DEF TypeOK, At, Goto, Keep, SidekickGoto, Flush, SideStatus, SidekickSteps,
      ThreadSteps, ReclaimSteps, TriggerSteps, WatchdogSteps, Thread, Aux,
      volume, sidekicks, primary
<1>1. \A j \in Job \cup {NoJob}, p \in Phases : Snapshot(j, p) \in State
  BY DEF Snapshot, State
<1>2. /\ NoState \in State
      /\ \A s \in State : s.job \in Job \cup {NoJob} /\ s.phase \in Phases
      /\ \A s \in State, p \in Phases : [s EXCEPT !.phase = p] \in State
      /\ \A s \in State : [s EXCEPT !.pub = TRUE] \in State
      /\ {"pending", "working", "failed"} \cup Verdicts \subseteq Phases
  BY DEF NoState, State, Phases, Verdicts
<1>3. \A t \in Thread : AfterReclaim(t) \in ThreadSteps
  BY DEF AfterReclaim
<1>event. ASSUME NEW j, CountEvent(j) PROVE events' \in [Job -> 0 .. MaxEvents]
  <2>1. CASE j \in Job /\ events[j] < MaxEvents
    <3>1. events[j] + 1 \in 0 .. MaxEvents
      BY <2>1, MaxEventsAssumption
    <3> QED BY <1>event, <2>1, <3>1 DEF CountEvent
  <2>2. CASE ~(j \in Job /\ events[j] < MaxEvents)
    BY <1>event, <2>2 DEF CountEvent
  <2> QED BY <2>1, <2>2
<1>down. Down => up' \in BOOLEAN /\ tpc' \in [Thread -> ThreadSteps] /\ seen' \in [Thread -> State]
  <2>1. \A t \in Thread : tpc[t] \in ThreadSteps
    OBVIOUS
  <2>2. Down => tpc' \in [Thread -> ThreadSteps]
    BY <2>1 DEF Down
  <2>3. Down => up' \in BOOLEAN /\ seen' \in [Thread -> State]
    BY <1>2, ZenonT(60) DEF Down
  <2> QED BY <2>2, <2>3
<1>4. ASSUME NEW t \in Thread, StatLock(t) PROVE TypeOK'
  BY <1>1, <1>2, <1>3, <1>4 DEF StatLock
<1>5. ASSUME NEW t \in Thread, ReadState(t) PROVE TypeOK'
  BY <1>1, <1>2, <1>3, <1>5 DEF ReadState
<1>6. ASSUME NEW t \in Thread, InspectSidekick(t) PROVE TypeOK'
  BY <1>1, <1>2, <1>3, <1>6 DEF InspectSidekick
<1>7. ASSUME NEW t \in Thread, Abandon(t) PROVE TypeOK'
  BY <1>1, <1>2, <1>3, <1>7 DEF Abandon
<1>8. ASSUME NEW t \in Thread, DropLock(t) PROVE TypeOK'
  BY <1>1, <1>2, <1>3, <1>8 DEF DropLock
<1>9. ASSUME NEW t \in Thread, Sweep(t) PROVE TypeOK'
  BY <1>1, <1>2, <1>3, <1>9 DEF Sweep
<1>10. ASSUME NEW j \in Job, TriggerDeploy(j) PROVE TypeOK'
  BY <1>1, <1>2, <1>3, <1>10 DEF TriggerDeploy
<1>11. ASSUME NEW j \in Job, Acquire(j) PROVE TypeOK'
  BY <1>1, <1>2, <1>3, <1>11 DEF Acquire
<1>12. ASSUME NEW j \in Job, WriteJob(j) PROVE TypeOK'
  BY <1>1, <1>2, <1>3, <1>12 DEF WriteJob
<1>13. ASSUME NEW j \in Job, WritePending(j) PROVE TypeOK'
  BY <1>1, <1>2, <1>3, <1>13 DEF WritePending
<1>14. ASSUME NEW j \in Job, CreateSidekick(j) PROVE TypeOK'
  <2>1. UNCHANGED <<lock, jobFile, state, spc, mem, up, seen, events>>
    BY <1>14 DEF CreateSidekick
  <2>2. side' \in [Job -> SideStatus] /\ tpc' \in [Thread -> ThreadSteps]
    BY <1>14 DEF CreateSidekick
  <2> QED BY <2>1, <2>2
<1>15. ASSUME NEW j \in Job, StartSidekick(j) PROVE TypeOK'
  <2>1. UNCHANGED <<lock, jobFile, state, mem, up, seen, events>>
    BY <1>15 DEF StartSidekick
  <2>2. side' \in [Job -> SideStatus] /\ spc' \in [Job -> SidekickSteps]
    BY <1>15 DEF StartSidekick
  <2>3. tpc' \in [Thread -> ThreadSteps]
    BY <1>15 DEF StartSidekick
  <2> QED BY <2>1, <2>2, <2>3
<1>16. ASSUME NEW j \in Job, SpawnFailed(j) PROVE TypeOK'
  BY <1>1, <1>2, <1>event, <1>16 DEF SpawnFailed
<1>17. ASSUME NEW j \in Job, Release(j) PROVE TypeOK'
  BY <1>1, <1>2, <1>3, <1>17 DEF Release
<1>18. ASSUME NEW j \in Job, WatchdogReads(j) PROVE TypeOK'
  BY <1>1, <1>2, <1>3, <1>18 DEF WatchdogReads
<1>19. ASSUME NEW j \in Job, WatchdogInspects(j) PROVE TypeOK'
  BY <1>1, <1>2, <1>3, <1>19 DEF WatchdogInspects
<1>20. ASSUME NEW j \in Job, WatchdogFails(j) PROVE TypeOK'
  BY <1>1, <1>2, <1>3, <1>20 DEF WatchdogFails
<1>21. ASSUME NEW j \in Job, WatchdogUnlocks(j) PROVE TypeOK'
  BY <1>1, <1>2, <1>3, <1>21 DEF WatchdogUnlocks
<1>22. ASSUME NEW j \in Job, LoadJob(j) PROVE TypeOK'
  BY <1>1, <1>2, <1>3, <1>22 DEF LoadJob
<1>23. ASSUME NEW j \in Job, SeedState(j) PROVE TypeOK'
  BY <1>1, <1>2, <1>3, <1>23 DEF SeedState
<1>24. ASSUME NEW j \in Job, EnterPhase(j) PROVE TypeOK'
  BY <1>1, <1>2, <1>3, <1>24 DEF EnterPhase
<1>25. ASSUME NEW j \in Job, FlushPhase(j) PROVE TypeOK'
  BY <1>1, <1>2, <1>3, <1>25 DEF FlushPhase
<1>26. ASSUME NEW j \in Job, StopPrimaryOf(j) PROVE TypeOK'
  BY <1>down, <1>26 DEF StopPrimaryOf
<1>27. ASSUME NEW j \in Job, Conclude(j) PROVE TypeOK'
  BY <1>1, <1>2, <1>3, <1>27 DEF Conclude
<1>28. ASSUME NEW j \in Job, UnlockAfterDeploy(j) PROVE TypeOK'
  BY <1>1, <1>2, <1>3, <1>28 DEF UnlockAfterDeploy
<1>29. ASSUME NEW j \in Job, RotateHistory(j) PROVE TypeOK'
  BY <1>1, <1>2, <1>3, <1>29 DEF RotateHistory
<1>30. ASSUME NEW j \in Job, Close(j) PROVE TypeOK'
  BY <1>1, <1>2, <1>3, <1>30 DEF Close
<1>31. ASSUME NEW j \in Job, SidekickDies(j) PROVE TypeOK'
  BY <1>1, <1>2, <1>3, <1>31 DEF SidekickDies
<1>32. CASE ResetLock
  BY <1>1, <1>2, <1>32 DEF ResetLock
<1>33. CASE PollPublishes
  BY <1>1, <1>2, <1>event, <1>33 DEF PollPublishes
<1>34. CASE PollMarks
  BY <1>1, <1>2, <1>34 DEF PollMarks
<1>35. CASE PrimaryDies
  BY <1>down, <1>35 DEF PrimaryDies
<1>36. CASE PrimaryBoots
  BY <1>1, <1>2, <1>36 DEF PrimaryBoots
<1>37. CASE UNCHANGED vars
  BY <1>37 DEF vars
<1> QED
  BY <1>4, <1>5, <1>6, <1>7, <1>8, <1>9, <1>10, <1>11, <1>12, <1>13, <1>14, <1>15, <1>16, <1>17, <1>18, <1>19, <1>20, <1>21, <1>22, <1>23, <1>24, <1>25, <1>26, <1>27, <1>28, <1>29, <1>30, <1>31, <1>32, <1>33, <1>34, <1>35, <1>36, <1>37
  DEF Next, Status, BootHook, TriggerThread, SidekickProgress, Reclaim, RunTrigger, Watchdog

\* Type correctness of the files, the threads and the sidekicks.
THEOREM TypeCorrect == Spec => []TypeOK
<1>1. TypeOK /\ [Next]_vars => TypeOK' BY TypeStep
<1> QED BY TypeInit, <1>1, PTL DEF Spec
-----------------------------------------------------------------------------
(* The lock.  Handlers of the primary take turns, ContainerInspect does not *)
(* fail, and no handler runs between a verdict and the end of its sidekick. *)

TakeTurns == {"overlap", "inspectFails", "slowEnding"} \cap Faults = {}

\* At most one thread is at work, and none while the primary is down.
Solo ==
  /\ \A t, u \in Thread : ~Resting(t) /\ ~Resting(u) => t = u
  /\ ~up => \A t \in Thread : Resting(t)

\* The deploy of a sidekick holds the lock and is the one the files name.
DeployHolds(j) ==
  /\ lock /\ jobFile = j
  /\ state.job = j /\ state.phase \in {"pending", "working"}
  /\ spc[j] \in {"seed", "work"} => mem[j].job = j /\ mem[j].phase \in {"pending", "working"}
Sidekicks ==
  /\ \A i, j \in Job : SidekickRuns(i) /\ SidekickRuns(j) => i = j
  /\ \A j \in Job : SidekickRuns(j) => Deploying(j) \/ Ending(j)
  /\ \A j \in Job : Deploying(j) => DeployHolds(j)

\* The trigger of a job that has taken the lock.
Owns(t) ==
  \/ tpc[t] \in {"writeJob", "writePending", "create", "start", "fail", "release"}
  \/ t \in Job /\ tpc[t] = "sweep"
\* A thread about to write state.json or to drop the lock.
Decided(t) == tpc[t] \in {"abandon", "unlock", "wdFail", "wdUnlock", "mark"}

\* A thread that has taken the lock or decided to drop it has made sure that
\* no sidekick runs; one that asks the daemon asks for the right one.
ThreadOK(t) ==
  /\ Owns(t) \/ Decided(t) => \A i \in Job : ~SidekickRuns(i)
  /\ tpc[t] = "inspect" => \A i \in Job : SidekickRuns(i) => seen[t].job = i
  /\ tpc[t] = "wdInspect" => \A i \in Job : SidekickRuns(i) => i = t
  /\ Owns(t) => lock
  /\ Owns(t) /\ tpc[t] \in {"writePending", "sweep", "create", "start"} => jobFile = t
  /\ Owns(t) /\ tpc[t] \in {"sweep", "create", "start"} => state = Snapshot(t, "pending")

LockInv == TypeOK /\ Solo /\ Sidekicks /\ \A t \in Thread : ThreadOK(t)
LEMMA LockInit == Init => LockInv
<1> SUFFICES ASSUME Init  PROVE  LockInv
  OBVIOUS
<1>1. \A t \in Thread : tpc[t] = "idle" /\ Resting(t) /\ ~Owns(t) /\ ~Decided(t)
  BY DEF Init, Resting, Owns, Decided
<1>2. \A j \in Job : side[j] = "absent" /\ ~SidekickRuns(j) /\ ~Deploying(j)
  BY DEF Init, SidekickRuns, Deploying
<1>3. Solo /\ Sidekicks
  BY <1>1, <1>2 DEF Solo, Sidekicks
<1>4. \A t \in Thread : ThreadOK(t)
  BY <1>1, <1>2 DEF ThreadOK
<1> QED BY <1>3, <1>4, TypeInit DEF LockInv

\* What a thread at its turn may rely on.
LEMMA Alone ==
  ASSUME TakeTurns, LockInv, NEW t \in Thread, Turn(t)
  PROVE  /\ up /\ \A u \in Thread \ {t} : Resting(u)
         /\ \A i \in Job : SidekickRuns(i) => Deploying(i) /\ DeployHolds(i)
BY DEF TakeTurns, Turn, LockInv, Sidekicks

\* A step of one thread that starts no sidekick: what is left to show.
LEMMA ThreadStep ==
  ASSUME TakeTurns, LockInv, TypeOK', NEW t \in Thread, Turn(t), NEW s, Goto(t, s), UNCHANGED up,
         Sidekicks', ThreadOK(t)'
  PROVE  LockInv'
<1> USE DEF LockInv
<1>1. up /\ \A u \in Thread \ {t} : Resting(u) /\ tpc'[u] = tpc[u]
  BY Alone DEF Goto, TypeOK
<1>2. \A u \in Thread \ {t} : Resting(u)'
  BY <1>1 DEF Resting
<1>3. Solo'
  BY <1>1, <1>2 DEF Solo
<1>4. ASSUME NEW u \in Thread, Resting(u)'  PROVE  ThreadOK(u)'
  BY <1>4 DEF ThreadOK, Resting, Owns, Decided
<1>5. \A u \in Thread : ThreadOK(u)'
  BY <1>2, <1>4
<1> QED BY <1>3, <1>5

\* The sidekicks and what they hold do not change.
LEMMA SidekicksSame ==
  ASSUME Sidekicks, UNCHANGED <<side, spc, mem, lock, jobFile, state>>
  PROVE  Sidekicks'
BY DEF Sidekicks, SidekickRuns, Deploying, Ending, DeployHolds

\* No sidekick runs: whatever becomes of the files, none does after.
LEMMA SidekicksNone ==
  ASSUME \A i \in Job : ~SidekickRuns(i), UNCHANGED side
  PROVE  Sidekicks' /\ \A i \in Job : ~SidekickRuns(i)'
BY DEF Sidekicks, SidekickRuns, Deploying, Ending

-----------------------------------------------------------------------------
(* reclaimStaleLock. *)

Later(t) == {"acquire", "idle"} \cup (IF t \in Job THEN {} ELSE {"sweep"})
LEMMA AfterReclaimIs == ASSUME NEW t \in Thread  PROVE  AfterReclaim(t) \in Later(t)
<1>1. CASE t \in Job
  <2>1. t # "boot"
    BY <1>1, JobAssumption DEF Aux
  <2> QED BY <1>1, <2>1 DEF AfterReclaim, Later
<1>2. CASE t \notin Job
  BY <1>2 DEF AfterReclaim, Later
<1> QED BY <1>1, <1>2

LEMMA StatLockKeeps == ASSUME TakeTurns, LockInv, TypeOK', NEW t \in Thread, StatLock(t)  PROVE  LockInv'
<1> USE DEF LockInv
<1>1. Turn(t) /\ UNCHANGED up /\ Sidekicks'
  BY SidekicksSame DEF StatLock, At, volume, sidekicks
<1>2. PICK s : Goto(t, s) /\ s \in {"read"} \cup Later(t)
  BY AfterReclaimIs DEF StatLock
<1>3. tpc'[t] = s
  BY <1>2 DEF Goto, TypeOK
<1>4. ThreadOK(t)'
  BY <1>2, <1>3 DEF ThreadOK, Owns, Decided, Later
<1> QED BY <1>1, <1>2, <1>4, ThreadStep

LEMMA ReadStateKeeps == ASSUME TakeTurns, LockInv, TypeOK', NEW t \in Thread, ReadState(t)  PROVE  LockInv'
<1> USE DEF LockInv
<1>1. Turn(t) /\ UNCHANGED up /\ Sidekicks' /\ UNCHANGED <<side, spc>>
  BY SidekicksSame DEF ReadState, At, volume, sidekicks
<1>2. PICK s : Goto(t, s) /\ s = IF isInProgressPhase(state.phase) THEN "inspect" ELSE "unlock"
  BY DEF ReadState
<1>3. tpc'[t] = s /\ seen'[t] = state
  BY <1>2 DEF ReadState, Goto, Keep, TypeOK
<1>4. \A i \in Job : SidekickRuns(i) => state.job = i /\ isInProgressPhase(state.phase)
  BY <1>1, Alone DEF DeployHolds, isInProgressPhase
<1>5. ThreadOK(t)'
  BY <1>1, <1>2, <1>3, <1>4 DEF ThreadOK, Owns, Decided, SidekickRuns
<1> QED BY <1>1, <1>2, <1>5, ThreadStep

LEMMA InspectKeeps ==
  ASSUME TakeTurns, LockInv, TypeOK', NEW t \in Thread, InspectSidekick(t)  PROVE  LockInv'
<1> USE DEF LockInv
<1>1. Turn(t) /\ UNCHANGED up /\ Sidekicks' /\ UNCHANGED side /\ tpc[t] = "inspect"
  BY SidekicksSame DEF InspectSidekick, At, volume, sidekicks
<1>2. PICK running \in SaysRunning(seen[t].job) :
        Goto(t, IF running THEN AfterReclaim(t) ELSE "abandon")
  BY DEF InspectSidekick
<1>3. ~running => \A i \in Job : ~SidekickRuns(i)
  BY <1>1, <1>2 DEF SaysRunning, TakeTurns, ThreadOK
<1>4. PICK s : Goto(t, s) /\ \/ s = "abandon" /\ ~running
                             \/ s \in Later(t)
  BY <1>2, AfterReclaimIs
<1>5. tpc'[t] = s
  BY <1>4 DEF Goto, TypeOK
<1>6. ThreadOK(t)'
  BY <1>1, <1>3, <1>4, <1>5 DEF ThreadOK, Owns, Decided, SidekickRuns, Later
<1> QED BY <1>1, <1>4, <1>6, ThreadStep

LEMMA AbandonKeeps == ASSUME TakeTurns, LockInv, TypeOK', NEW t \in Thread, Abandon(t)  PROVE  LockInv'
<1> USE DEF LockInv
<1>1. Turn(t) /\ UNCHANGED up /\ UNCHANGED side /\ Goto(t, "unlock") /\ tpc[t] = "abandon"
  BY DEF Abandon, At, sidekicks
<1>2. \A i \in Job : ~SidekickRuns(i)
  BY <1>1 DEF ThreadOK, Decided
<1>3. Sidekicks' /\ \A i \in Job : ~SidekickRuns(i)'
  BY <1>1, <1>2, SidekicksNone
<1>4. tpc'[t] = "unlock"
  BY <1>1 DEF Goto, TypeOK
<1>5. ThreadOK(t)'
  BY <1>3, <1>4 DEF ThreadOK, Owns
<1> QED BY <1>1, <1>3, <1>5, ThreadStep

LEMMA DropLockKeeps == ASSUME TakeTurns, LockInv, TypeOK', NEW t \in Thread, DropLock(t)  PROVE  LockInv'
<1> USE DEF LockInv
<1>1. Turn(t) /\ UNCHANGED up /\ UNCHANGED side /\ tpc[t] = "unlock"
  BY DEF DropLock, At, sidekicks
<1>2. Sidekicks'
  BY <1>1, SidekicksNone DEF ThreadOK, Decided
<1>3. PICK s : Goto(t, s) /\ s \in Later(t)
  BY AfterReclaimIs DEF DropLock
<1>4. tpc'[t] = s
  BY <1>3 DEF Goto, TypeOK
<1>5. ThreadOK(t)'
  BY <1>3, <1>4 DEF ThreadOK, Owns, Decided, Later
<1> QED BY <1>1, <1>2, <1>3, <1>5, ThreadStep

-----------------------------------------------------------------------------
(* TriggerDeploy. *)

LEMMA TriggerKeeps == ASSUME TakeTurns, LockInv, TypeOK', NEW j \in Job, TriggerDeploy(j)  PROVE  LockInv'
<1> USE DEF LockInv, Thread
<1>1. Turn(j) /\ UNCHANGED up /\ Goto(j, "stat") /\ Sidekicks'
  BY SidekicksSame DEF TriggerDeploy, At, volume, sidekicks
<1>2. tpc'[j] = "stat"
  BY <1>1 DEF Goto, TypeOK
<1>3. ThreadOK(j)'
  BY <1>2 DEF ThreadOK, Owns, Decided
<1> QED BY <1>1, <1>3, ThreadStep

LEMMA AcquireKeeps == ASSUME TakeTurns, LockInv, TypeOK', NEW j \in Job, Acquire(j)  PROVE  LockInv'
<1> USE DEF LockInv, Thread
<1>1. Turn(j) /\ UNCHANGED up /\ UNCHANGED <<side, spc, mem, jobFile, state>> /\ lock' = TRUE
  BY DEF Acquire, At, sidekicks
<1>2. Sidekicks'
  BY <1>1 DEF Sidekicks, SidekickRuns, Deploying, Ending, DeployHolds
<1>3. PICK s : Goto(j, s) /\ s = IF lock THEN "done" ELSE "writeJob"
  BY DEF Acquire
<1>4. tpc'[j] = s
  BY <1>3 DEF Goto, TypeOK
<1>5. ~lock => \A i \in Job : ~SidekickRuns(i)
  BY <1>1, Alone DEF DeployHolds
<1>6. ThreadOK(j)'
  BY <1>1, <1>3, <1>4, <1>5 DEF ThreadOK, Owns, Decided, SidekickRuns
<1> QED BY <1>1, <1>2, <1>3, <1>6, ThreadStep

\* The trigger that owns the lock goes on while no sidekick runs.
LEMMA OwnerStep ==
  ASSUME TakeTurns, LockInv, TypeOK', NEW j \in Job, Turn(j), Owns(j), NEW s, Goto(j, s),
         UNCHANGED up, \A i \in Job : ~SidekickRuns(i)',
         \/ s = "done"
         \/ s \in {"fail", "release"} /\ UNCHANGED lock
         \/ s = "writePending" /\ UNCHANGED lock /\ jobFile' = j
         \/ s \in {"sweep", "create", "start"} /\ UNCHANGED lock /\ jobFile' = j /\ state' = Snapshot(j, "pending")
  PROVE  LockInv'
<1> USE DEF LockInv, Thread
<1>1. tpc'[j] = s /\ lock
  BY DEF Goto, TypeOK, ThreadOK
<1>2. ThreadOK(j)'
  BY <1>1 DEF ThreadOK, Owns, Decided
<1>3. Sidekicks'
  BY DEF Sidekicks, Deploying
<1> QED BY <1>2, <1>3, ThreadStep

LEMMA OwnerAlone ==
  ASSUME LockInv, NEW j \in Job, Owns(j), UNCHANGED side  PROVE  \A i \in Job : ~SidekickRuns(i)'
BY DEF LockInv, Thread, ThreadOK, SidekickRuns

LEMMA WriteJobKeeps == ASSUME TakeTurns, LockInv, TypeOK', NEW j \in Job, WriteJob(j)  PROVE  LockInv'
<1>1. Turn(j) /\ Owns(j) /\ Goto(j, "writePending") /\ jobFile' = j /\ UNCHANGED <<up, lock, side>>
  BY DEF WriteJob, At, sidekicks, Owns
<1> QED BY <1>1, OwnerStep, OwnerAlone

LEMMA WritePendingKeeps ==
  ASSUME TakeTurns, LockInv, TypeOK', NEW j \in Job, WritePending(j)  PROVE  LockInv'
<1>1. /\ Turn(j) /\ Owns(j) /\ Goto(j, "sweep") /\ state' = Snapshot(j, "pending")
      /\ UNCHANGED <<up, lock, side, jobFile>>
  BY DEF WritePending, At, sidekicks, Owns
<1>2. jobFile = j
  BY <1>1 DEF LockInv, Thread, ThreadOK, WritePending, At
<1> QED BY <1>1, <1>2, OwnerStep, OwnerAlone

\* cleanupExitedSidekicks removes what does not run.
LEMMA SweepSide ==
  ASSUME TypeOK, NEW t, Sweep(t)
  PROVE  \A i \in Job : SidekickRuns(i)' <=> SidekickRuns(i)
BY DEF Sweep, SidekickRuns, TypeOK

LEMMA SweepKeeps == ASSUME TakeTurns, LockInv, TypeOK', NEW j \in Job, Sweep(j)  PROVE  LockInv'
<1> USE DEF LockInv, Thread
<1>1. Turn(j) /\ Owns(j) /\ Goto(j, "create") /\ UNCHANGED <<up, lock, jobFile, state>>
  BY DEF Sweep, At, volume, Owns
<1>2. jobFile = j /\ state = Snapshot(j, "pending") /\ \A i \in Job : ~SidekickRuns(i)'
  BY <1>1, SweepSide DEF ThreadOK, Sweep, At
<1> QED BY <1>1, <1>2, OwnerStep

LEMMA BootSweepKeeps == ASSUME TakeTurns, LockInv, TypeOK', Sweep("boot")  PROVE  LockInv'
<1> USE DEF LockInv, Thread, Aux
<1>1. Turn("boot") /\ Goto("boot", "idle") /\ UNCHANGED <<up, lock, jobFile, state, spc, mem>>
  BY JobAssumption DEF Sweep, At, volume
<1>2. Sidekicks'
  BY <1>1, SweepSide DEF Sidekicks, Deploying, Ending, DeployHolds
<1>3. tpc'["boot"] = "idle"
  BY <1>1 DEF Goto, TypeOK
<1>4. ThreadOK("boot")'
  BY <1>3 DEF ThreadOK, Owns, Decided
<1> QED BY <1>1, <1>2, <1>4, ThreadStep

LEMMA CreateKeeps == ASSUME TakeTurns, LockInv, TypeOK', NEW j \in Job, CreateSidekick(j)  PROVE  LockInv'
<1> USE DEF LockInv, Thread
<1>1. Turn(j) /\ Owns(j) /\ tpc[j] = "create" /\ UNCHANGED <<up, lock, jobFile, state>>
  BY DEF CreateSidekick, At, volume, Owns
<1>2. jobFile = j /\ state = Snapshot(j, "pending") /\ \A i \in Job : ~SidekickRuns(i)
  BY <1>1 DEF ThreadOK
<1>3. \A i \in Job : ~SidekickRuns(i)'
  BY <1>2 DEF CreateSidekick, SidekickRuns, TypeOK
<1>4. Goto(j, "start") \/ Goto(j, "fail")
  BY DEF CreateSidekick
<1> QED BY <1>1, <1>2, <1>3, <1>4, OwnerStep

LEMMA StartKeeps == ASSUME TakeTurns, LockInv, TypeOK', NEW j \in Job, StartSidekick(j)  PROVE  LockInv'
<1> USE DEF LockInv, Thread
<1>1. Turn(j) /\ Owns(j) /\ tpc[j] = "start" /\ UNCHANGED <<up, lock, jobFile, state, mem>>
  BY DEF StartSidekick, At, volume, Owns
<1>2. jobFile = j /\ state = Snapshot(j, "pending") /\ lock /\ \A i \in Job : ~SidekickRuns(i)
  BY <1>1 DEF ThreadOK
<1>3. CASE Goto(j, "watch") /\ side' = [side EXCEPT ![j] = "running"] /\ spc' = [spc EXCEPT ![j] = "load"]
  <2>1. spc'[j] = "load" /\ SidekickRuns(j)' /\ \A i \in Job \ {j} : ~SidekickRuns(i)'
    BY <1>2, <1>3 DEF SidekickRuns, TypeOK
  <2>2. state'.job = j /\ state'.phase = "pending"
    BY <1>1, <1>2 DEF Snapshot
  <2>3. Sidekicks'
    BY <1>1, <1>2, <2>1, <2>2 DEF Sidekicks, Deploying, DeployHolds
  <2>4. tpc'[j] = "watch"
    BY <1>3 DEF Goto, TypeOK
  <2>5. ThreadOK(j)'
    BY <2>4 DEF ThreadOK, Owns, Decided
  <2> QED BY <1>1, <1>3, <2>3, <2>5, ThreadStep
<1>4. CASE Goto(j, "fail") /\ side' = [side EXCEPT ![j] = "absent"]
  <2>1. \A i \in Job : ~SidekickRuns(i)'
    BY <1>2, <1>4 DEF SidekickRuns, TypeOK
  <2> QED BY <1>1, <1>4, <2>1, OwnerStep
<1> QED BY <1>3, <1>4 DEF StartSidekick

LEMMA SpawnFailedKeeps == ASSUME TakeTurns, LockInv, TypeOK', NEW j \in Job, SpawnFailed(j)  PROVE  LockInv'
<1>1. Turn(j) /\ Owns(j) /\ Goto(j, "release") /\ UNCHANGED <<up, lock, side>>
  BY DEF SpawnFailed, At, sidekicks, Owns
<1> QED BY <1>1, OwnerStep, OwnerAlone

LEMMA ReleaseKeeps == ASSUME TakeTurns, LockInv, TypeOK', NEW j \in Job, Release(j)  PROVE  LockInv'
<1>1. Turn(j) /\ Owns(j) /\ Goto(j, "done") /\ UNCHANGED <<up, side>>
  BY DEF Release, At, sidekicks, Owns
<1> QED BY <1>1, OwnerStep, OwnerAlone
-----------------------------------------------------------------------------
(* watchSidekickBoot, ResetLock, Status. *)

\* A step that touches no file and no sidekick, to a step s of no danger.
LEMMA QuietStep ==
  ASSUME TakeTurns, LockInv, TypeOK', NEW t \in Thread, Turn(t), NEW s, Goto(t, s),
         s \in {"idle", "done", "stat", "watch"}, UNCHANGED <<volume, sidekicks, up>>
  PROVE  LockInv'
<1> USE DEF LockInv
<1>1. Sidekicks'
  BY SidekicksSame DEF volume, sidekicks
<1>2. tpc'[t] = s
  BY DEF Goto, TypeOK
<1>3. ThreadOK(t)'
  BY <1>2 DEF ThreadOK, Owns, Decided
<1> QED BY <1>1, <1>3, ThreadStep

LEMMA WatchdogReadsKeeps ==
  ASSUME TakeTurns, LockInv, TypeOK', NEW j \in Job, WatchdogReads(j)  PROVE  LockInv'
<1> USE DEF LockInv, Thread
<1>1. Turn(j) /\ UNCHANGED <<volume, sidekicks, up>> /\ Sidekicks' /\ UNCHANGED side
  BY SidekicksSame DEF WatchdogReads, At, volume, sidekicks
<1>2. CASE state.job = j /\ Goto(j, "wdInspect")
  <2>1. \A i \in Job : SidekickRuns(i) => i = j
    BY <1>1, <1>2, Alone DEF DeployHolds
  <2>2. tpc'[j] = "wdInspect"
    BY <1>2 DEF Goto, TypeOK
  <2>3. ThreadOK(j)'
    BY <1>1, <2>1, <2>2 DEF ThreadOK, Owns, Decided, SidekickRuns
  <2> QED BY <1>1, <1>2, <2>3, ThreadStep
<1>3. CASE Goto(j, "done")
  BY <1>1, <1>3, QuietStep
<1> QED BY <1>2, <1>3 DEF WatchdogReads

LEMMA WatchdogInspectsKeeps ==
  ASSUME TakeTurns, LockInv, TypeOK', NEW j \in Job, WatchdogInspects(j)  PROVE  LockInv'
<1> USE DEF LockInv, Thread
<1>1. /\ Turn(j) /\ UNCHANGED <<volume, sidekicks, up>> /\ Sidekicks' /\ UNCHANGED side
      /\ tpc[j] = "wdInspect"
  BY SidekicksSame DEF WatchdogInspects, At, volume, sidekicks
<1>2. CASE ~SidekickRuns(j) /\ Goto(j, "wdFail")
  <2>1. \A i \in Job : ~SidekickRuns(i)
    BY <1>1, <1>2 DEF ThreadOK
  <2>2. tpc'[j] = "wdFail"
    BY <1>2 DEF Goto, TypeOK
  <2>3. ThreadOK(j)'
    BY <1>1, <2>1, <2>2 DEF ThreadOK, Owns, Decided, SidekickRuns
  <2> QED BY <1>1, <1>2, <2>3, ThreadStep
<1>3. CASE Goto(j, "done")
  BY <1>1, <1>3, QuietStep
<1> QED BY <1>2, <1>3 DEF WatchdogInspects, SaysRunning, TakeTurns

LEMMA WatchdogFailsKeeps ==
  ASSUME TakeTurns, LockInv, TypeOK', NEW j \in Job, WatchdogFails(j)  PROVE  LockInv'
<1> USE DEF LockInv, Thread
<1>1. Turn(j) /\ UNCHANGED up /\ UNCHANGED side /\ Goto(j, "wdUnlock") /\ tpc[j] = "wdFail"
  BY DEF WatchdogFails, At, sidekicks
<1>2. Sidekicks' /\ \A i \in Job : ~SidekickRuns(i)'
  BY <1>1, SidekicksNone DEF ThreadOK, Decided
<1>3. tpc'[j] = "wdUnlock"
  BY <1>1 DEF Goto, TypeOK
<1>4. ThreadOK(j)'
  BY <1>2, <1>3 DEF ThreadOK, Owns
<1> QED BY <1>1, <1>2, <1>4, ThreadStep

LEMMA WatchdogUnlocksKeeps ==
  ASSUME TakeTurns, LockInv, TypeOK', NEW j \in Job, WatchdogUnlocks(j)  PROVE  LockInv'
<1> USE DEF LockInv, Thread
<1>1. Turn(j) /\ UNCHANGED up /\ UNCHANGED side /\ Goto(j, "done") /\ tpc[j] = "wdUnlock"
  BY DEF WatchdogUnlocks, At, sidekicks
<1>2. Sidekicks' /\ \A i \in Job : ~SidekickRuns(i)'
  BY <1>1, SidekicksNone DEF ThreadOK, Decided
<1>3. tpc'[j] = "done"
  BY <1>1 DEF Goto, TypeOK
<1>4. ThreadOK(j)'
  BY <1>2, <1>3 DEF ThreadOK, Owns
<1> QED BY <1>1, <1>2, <1>4, ThreadStep

LEMMA ResetKeeps == TakeTurns /\ LockInv /\ TypeOK' /\ ResetLock => LockInv'
<1> SUFFICES ASSUME TakeTurns, LockInv, TypeOK', ResetLock  PROVE  LockInv'
  OBVIOUS
<1>1. "reset" \in Thread /\ Turn("reset") /\ Goto("reset", "stat") /\ UNCHANGED <<volume, sidekicks, up>>
  BY DEF ResetLock, At, Thread, Aux
<1> QED BY <1>1, QuietStep

LEMMA PollPublishesKeeps == TakeTurns /\ LockInv /\ TypeOK' /\ PollPublishes => LockInv'
<1> SUFFICES ASSUME TakeTurns, LockInv, TypeOK', PollPublishes  PROVE  LockInv'
  OBVIOUS
<1> USE DEF LockInv
<1>1. /\ "poll" \in Thread /\ Turn("poll") /\ Goto("poll", "mark") /\ UNCHANGED up
      /\ Sidekicks' /\ UNCHANGED side
  BY SidekicksSame DEF PollPublishes, At, Thread, Aux, volume, sidekicks
<1>2. \A i \in Job : ~SidekickRuns(i)
  BY <1>1, Alone DEF DeployHolds, PollPublishes, Verdicts
<1>3. tpc'["poll"] = "mark"
  BY <1>1 DEF Goto, TypeOK
<1>4. ThreadOK("poll")'
  BY <1>1, <1>2, <1>3 DEF ThreadOK, Owns, SidekickRuns
<1> QED BY <1>1, <1>4, ThreadStep

LEMMA PollMarksKeeps == TakeTurns /\ LockInv /\ TypeOK' /\ PollMarks => LockInv'
<1> SUFFICES ASSUME TakeTurns, LockInv, TypeOK', PollMarks  PROVE  LockInv'
  OBVIOUS
<1> USE DEF LockInv
<1>1. /\ "poll" \in Thread /\ Turn("poll") /\ Goto("poll", "idle") /\ UNCHANGED up
      /\ UNCHANGED side /\ tpc["poll"] = "mark"
  BY DEF PollMarks, At, Thread, Aux, sidekicks
<1>2. Sidekicks'
  BY <1>1, SidekicksNone DEF ThreadOK, Decided
<1>3. tpc'["poll"] = "idle"
  BY <1>1 DEF Goto, TypeOK
<1>4. ThreadOK("poll")'
  BY <1>3 DEF ThreadOK, Owns, Decided
<1> QED BY <1>1, <1>2, <1>4, ThreadStep

-----------------------------------------------------------------------------
(* Sidekicks and primaries. *)

\* A step of a running sidekick: the threads are not at anything it can spoil.
LEMMA SideStep ==
  ASSUME LockInv, TypeOK', NEW j \in Job, SidekickRuns(j), UNCHANGED <<up, tpc, seen>>,
         \A i \in Job : SidekickRuns(i)' => SidekickRuns(i), Sidekicks'
  PROVE  LockInv'
<1> USE DEF LockInv
<1>1. Solo'
  BY DEF Solo, Resting
<1>2. ASSUME NEW t \in Thread  PROVE  ThreadOK(t)'
  BY DEF ThreadOK, Owns, Decided
<1> QED BY <1>1, <1>2

\* The only sidekick that runs does step s, and the files are as it needs them.
LEMMA SoleStep ==
  ASSUME LockInv, TypeOK', NEW j \in Job, SidekickRuns(j), UNCHANGED <<up, tpc, seen, side>>,
         \A i \in Job \ {j} : spc'[i] = spc[i],
         \/ spc'[j] \in {"unlock", "rotate", "close"}
         \/ spc'[j] \in {"load", "seed", "work"} /\ DeployHolds(j)'
  PROVE  LockInv'
<1> USE DEF LockInv
<1>1. \A i \in Job \ {j} : ~SidekickRuns(i)
  BY DEF Sidekicks
<1>2. Sidekicks'
  BY <1>1 DEF Sidekicks, SidekickRuns, Deploying, Ending
<1> QED BY <1>2, SideStep DEF SidekickRuns

LEMMA LoadKeeps == ASSUME LockInv, TypeOK', NEW j \in Job, LoadJob(j)  PROVE  LockInv'
<1> USE DEF LockInv
<1>1. /\ SidekickRuns(j) /\ spc[j] = "load" /\ UNCHANGED <<up, tpc, seen, side, lock, jobFile, state>>
      /\ spc' = [spc EXCEPT ![j] = "seed"] /\ mem' = [mem EXCEPT ![j] = Snapshot(jobFile, "pending")]
  BY DEF LoadJob, SidekickAt, SidekickGoto, primary, volume
<1>2. DeployHolds(j)
  BY <1>1 DEF Sidekicks, Deploying
<1>3. spc'[j] = "seed" /\ mem'[j].job = j /\ mem'[j].phase = "pending" /\ \A i \in Job \ {j} : spc'[i] = spc[i]
  BY <1>1, <1>2 DEF DeployHolds, TypeOK, Snapshot
<1>4. DeployHolds(j)'
  BY <1>1, <1>2, <1>3 DEF DeployHolds
<1> QED BY <1>1, <1>3, <1>4, SoleStep

LEMMA SeedKeeps == ASSUME LockInv, TypeOK', NEW j \in Job, SeedState(j)  PROVE  LockInv'
<1> USE DEF LockInv
<1>1. /\ SidekickRuns(j) /\ spc[j] = "seed" /\ UNCHANGED <<up, tpc, seen, side, lock, jobFile, mem>>
      /\ spc' = [spc EXCEPT ![j] = "work"] /\ state' = mem[j]
  BY DEF SeedState, SidekickAt, SidekickGoto, Flush, primary
<1>2. DeployHolds(j)
  BY <1>1 DEF Sidekicks, Deploying
<1>3. spc'[j] = "work" /\ \A i \in Job \ {j} : spc'[i] = spc[i]
  BY <1>1 DEF TypeOK
<1>4. DeployHolds(j)'
  BY <1>1, <1>2, <1>3 DEF DeployHolds
<1> QED BY <1>1, <1>3, <1>4, SoleStep

LEMMA EnterKeeps == ASSUME LockInv, TypeOK', NEW j \in Job, EnterPhase(j)  PROVE  LockInv'
<1> USE DEF LockInv
<1>1. /\ SidekickRuns(j) /\ spc[j] = "work" /\ UNCHANGED <<up, tpc, seen, side, spc, lock, jobFile, state>>
      /\ mem' = [mem EXCEPT ![j].phase = "working"]
  BY DEF EnterPhase, SidekickAt, primary, volume
<1>2. DeployHolds(j)
  BY <1>1 DEF Sidekicks, Deploying
<1>3. mem'[j].job = mem[j].job /\ mem'[j].phase = "working"
  BY <1>1 DEF TypeOK, State
<1>4. DeployHolds(j)'
  BY <1>1, <1>2, <1>3 DEF DeployHolds
<1> QED BY <1>1, <1>4, SoleStep

LEMMA FlushKeeps == ASSUME LockInv, TypeOK', NEW j \in Job, FlushPhase(j)  PROVE  LockInv'
<1> USE DEF LockInv
<1>1. /\ SidekickRuns(j) /\ spc[j] = "work" /\ UNCHANGED <<up, tpc, seen, side, spc, lock, jobFile, mem>>
      /\ state' = mem[j]
  BY DEF FlushPhase, SidekickAt, Flush, primary, sidekicks
<1>2. DeployHolds(j)
  BY <1>1 DEF Sidekicks, Deploying
<1>3. DeployHolds(j)'
  BY <1>1, <1>2 DEF DeployHolds
<1> QED BY <1>1, <1>3, SoleStep

\* A sidekick that has reached its verdict: what it writes spoils nobody.
LEMMA EndingKeeps ==
  ASSUME LockInv, TypeOK', NEW j \in Job, Conclude(j) \/ UnlockAfterDeploy(j) \/ RotateHistory(j)
  PROVE  LockInv'
<1>1. /\ SidekickRuns(j) /\ UNCHANGED <<up, tpc, seen, side>>
      /\ \E s \in {"unlock", "rotate", "close"} : spc' = [spc EXCEPT ![j] = s]
  BY DEF Conclude, UnlockAfterDeploy, RotateHistory, SidekickAt, SidekickGoto, primary
<1>2. spc'[j] \in {"unlock", "rotate", "close"} /\ \A i \in Job \ {j} : spc'[i] = spc[i]
  BY <1>1 DEF LockInv, TypeOK
<1> QED BY <1>1, <1>2, SoleStep

LEMMA ExitKeeps ==
  ASSUME LockInv, TypeOK', NEW j \in Job, Close(j) \/ SidekickDies(j)  PROVE  LockInv'
<1> USE DEF LockInv
<1>1. SidekickRuns(j) /\ UNCHANGED <<up, tpc, seen>> /\ side' = [side EXCEPT ![j] = "exited"]
  BY DEF Close, SidekickDies, SidekickAt, primary
<1>2. \A i \in Job : ~SidekickRuns(i)'
  BY <1>1 DEF Sidekicks, SidekickRuns, TypeOK
<1>3. Sidekicks'
  BY <1>2 DEF Sidekicks, Deploying
<1> QED BY <1>1, <1>2, <1>3, SideStep

LEMMA DownKeeps ==
  ASSUME LockInv, TypeOK', Down, UNCHANGED <<volume, sidekicks>>  PROVE  LockInv'
<1> USE DEF LockInv
<1>1. \A t \in Thread : tpc'[t] \in {"idle", "done"}
  BY DEF Down
<1>2. Solo'
  BY <1>1 DEF Solo, Resting
<1>3. \A t \in Thread : ThreadOK(t)'
  BY <1>1 DEF ThreadOK, Owns, Decided
<1> QED BY <1>2, <1>3, SidekicksSame DEF volume, sidekicks

LEMMA BootKeeps == LockInv /\ TypeOK' /\ PrimaryBoots => LockInv'
<1> SUFFICES ASSUME LockInv, TypeOK', PrimaryBoots  PROVE  LockInv'
  OBVIOUS
<1> USE DEF LockInv
<1>1. "boot" \in Thread /\ tpc'["boot"] = "stat" /\ \A t \in Thread \ {"boot"} : tpc'[t] = tpc[t] /\ Resting(t)
  BY DEF PrimaryBoots, Goto, TypeOK, Thread, Aux, Solo
<1>2. up' /\ Solo'
  BY <1>1 DEF PrimaryBoots, Solo, Resting
<1>3. \A t \in Thread : ThreadOK(t)'
  BY <1>1 DEF ThreadOK, Owns, Decided, Resting
<1> QED BY <1>2, <1>3, SidekicksSame DEF PrimaryBoots, volume, sidekicks

-----------------------------------------------------------------------------
LEMMA LockStep == TakeTurns /\ LockInv /\ [Next]_vars => LockInv'
<1> SUFFICES ASSUME TakeTurns, LockInv, [Next]_vars  PROVE  LockInv'
  OBVIOUS
<1>1. TypeOK'
  BY TypeStep DEF LockInv
<1> USE <1>1
<1>2. ASSUME NEW t \in Thread, Reclaim(t)  PROVE  LockInv'
  BY <1>2, StatLockKeeps, ReadStateKeeps, InspectKeeps, AbandonKeeps, DropLockKeeps DEF Reclaim
<1>3. ASSUME NEW j \in Job, RunTrigger(j)  PROVE  LockInv'
  BY <1>3, AcquireKeeps, WriteJobKeeps, WritePendingKeeps, CreateKeeps, StartKeeps, SpawnFailedKeeps,
     ReleaseKeeps DEF RunTrigger
<1>4. ASSUME NEW j \in Job, Watchdog(j)  PROVE  LockInv'
  BY <1>4, WatchdogReadsKeeps, WatchdogInspectsKeeps, WatchdogFailsKeeps, WatchdogUnlocksKeeps DEF Watchdog
<1>5. ASSUME NEW j \in Job, SidekickProgress(j)  PROVE  LockInv'
  BY <1>5, LoadKeeps, SeedKeeps, EndingKeeps, ExitKeeps DEF SidekickProgress
<1>6. ASSUME NEW j \in Job, StopPrimaryOf(j)  PROVE  LockInv'
  BY <1>6, DownKeeps DEF StopPrimaryOf
<1>7. PrimaryDies => LockInv'
  BY DownKeeps DEF PrimaryDies
<1>8. ASSUME UNCHANGED vars  PROVE  LockInv'
  BY <1>8, SidekicksSame DEF vars, LockInv, Solo, Resting, ThreadOK, Owns, Decided, SidekickRuns
<1>9. ASSUME NEW j \in Job, TriggerThread(j)  PROVE  LockInv'
  BY <1>2, <1>3, <1>4, <1>9, SweepKeeps DEF TriggerThread, Thread
<1>10. BootHook => LockInv'
  BY <1>2, BootSweepKeeps DEF BootHook, Thread, Aux
<1>11. Reclaim("reset") => LockInv'
  BY <1>2 DEF Thread, Aux
<1>12. Status => LockInv'
  BY PollPublishesKeeps, PollMarksKeeps DEF Status
<1> QED BY <1>5, <1>6, <1>7, <1>8, <1>9, <1>10, <1>11, <1>12, TriggerKeeps, EnterKeeps, FlushKeeps,
           ExitKeeps, ResetKeeps, BootKeeps DEF Next

LEMMA LockInvariant == TakeTurns /\ Spec => []LockInv
<1>1. TakeTurns /\ LockInv /\ [Next]_vars => LockInv'
  BY LockStep
<1>2. CASE TakeTurns
  <2>1. LockInv /\ [Next]_vars => LockInv'
    BY <1>1, <1>2
  <2> QED BY <2>1, LockInit, PTL DEF Spec
<1>3. CASE ~TakeTurns
  BY <1>3
<1> QED BY <1>2, <1>3

(* Two sidekicks never work at a time ("a self-deploy is already in         *)
(* progress"), whatever crashes, however slow a sidekick boots and however  *)
(* many jobs are triggered, if the primary's handlers take turns.          *)
THEOREM OneDeploy == TakeTurns /\ Spec => []OneDeployAtATime
<1>1. LockInv => OneDeployAtATime
  BY DEF LockInv, Sidekicks, OneDeployAtATime, Deploying
<1> QED BY <1>1, LockInvariant, PTL

(* While a sidekick works, job.json and state.json name its job in progress, *)
(* so that Status, ResetLock and the reclaim ask for the right container.   *)
THEOREM FilesNameDeploy == TakeTurns /\ Spec => []StateNamesDeploy
<1>1. LockInv => StateNamesDeploy
  BY DEF LockInv, Sidekicks, StateNamesDeploy, Deploying, DeployHolds, isInProgressPhase
<1> QED BY <1>1, LockInvariant, PTL

=============================================================================
