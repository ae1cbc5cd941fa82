------------------------- MODULE ServerProcessProofs -------------------------
(***************************************************************************)
(* Proofs about ServerProcess, for any number of clients, stops and        *)
(* crashes.  Closing the parts of a server under handlers that still run   *)
(* breaks what LockServerProofs says of timers (the manager refuses the    *)
(* callbacks), but none of the core invariants.                            *)
(***************************************************************************)
EXTENDS ServerProcess, LockServerProofs

USE ConstantsAssumption, ProcessAssumption

-----------------------------------------------------------------------------
(* The inductive invariant.                                                *)

\* The socket file is gone when the IPC server was closed, and nothing makes
\* it again before the next start.
SocketInv ==
  /\ proc \in {"ipc", "flag", "timers", "manager"} => ~socket
  /\ CleanStop

\* The part of ProcTypeOK that does not speak of the lock server.
PhaseTypeOK ==
  /\ proc \in {"boot", "bootNet", "run", "rest", "stop", "net", "ipc", "flag",
               "timers", "manager"}
  /\ socket \in BOOLEAN /\ clean \in BOOLEAN /\ byStop \subseteq Grpc
  /\ stops \in 0..MaxStops
  /\ requests \in 0..MaxRequests
  /\ up \notin {"up", "loading"} => proc = "boot"
  /\ up = "up" => proc \notin {"boot", "bootNet"}

ProcInv == CoreInv /\ PhaseTypeOK /\ SocketInv

-----------------------------------------------------------------------------
(* The lock server's invariants survive the closers.                       *)

\* Steps that neither lock nor unlock nor list anything.
LEMMA QuietStep ==
  ASSUME CoreInv, RestTypeOK', CallInv', PhaseInv', RequestInv',
         UNCHANGED <<held, cap, queue, sessionLocks, file, up, noClearOnDisconnect,
                     toLoad, call, acked, asked>>,
         \A s \in Sessions : todo'[s] \subseteq todo[s] /\ todoTimer'[s] \subseteq todoTimer[s],
         \A k \in Keys : req'[k] = req[k] \/ (req[k] = "added" /\ req'[k] = "done"),
         toLoad # {} => \A k \in Keys : timer[k] = "none" => timer'[k] = "none"
  PROVE  CoreInv'
<1> USE DEF CoreInv
<1>1. ManagerInv'
  BY ManagerFrame
<1>2. TypeOK'
  BY <1>1, TypeSplitNext DEF ManagerInv
<1>3. Listed' = Listed /\ Saved' = Saved /\ Owners' = Owners
  BY TableFrame, OwnersFrame
<1>4. \A x, l : Entry(x, l) => Entry(x, l)'
  BY DEF Entry, LockOf
<1>5. EntryInv'
  BY <1>4 DEF EntryInv
<1>6. LoadInv'
  BY <1>3, <1>4 DEF LoadInv, Entry
<1>7. SyncInv'
  BY DEF SyncInv, Running
<1>8. KeptInv'
  BY <1>3 DEF KeptInv, Running, LockOf
<1>9. ExcludeInv'
  BY ExcludeFrame
<1> QED
  BY <1>1, <1>2, <1>5, <1>6, <1>7, <1>8, <1>9

\* What a process that is closing does and a lock server alone does not.
ClosingStep ==
  \/ \E s \in Sessions : DestroyNothing(s)
  \/ \E s \in Sessions : \E l \in todo[s] : DestroyRefused(s, l)
  \/ \E k \in Keys : UnlockRefused(k) \/ CallbackRefused(k)
  \/ \E k \in Keys : req[k] = "added" /\ TM!AddToNil(k) /\ req' = [req EXCEPT ![k] = "done"]
                     /\ UNCHANGED <<lmVars, smVars, loadVars, connVars, call, opVars, histVars>>
  \/ StopGrpc
  \/ CloseTimers

\* Every such step keeps the core invariants.
LEMMA ClosingCore ==
  ASSUME CoreInv, ClosingStep
  PROVE  CoreInv'
<1> USE DEF lmVars, tmVars, smVars, loadVars, connVars, lockVars, opVars, histVars
<1>1. RestTypeOK /\ CallInv /\ PhaseInv /\ RequestInv /\ LoadInv
  BY DEF CoreInv, TypeOK, RestTypeOK
<1>2. ASSUME NEW s \in Sessions, DestroyNothing(s) PROVE CoreInv'
  <2>1. RestTypeOK' /\ CallInv' /\ PhaseInv' /\ RequestInv'
    BY <1>1, <1>2, OwnersFrame, TableFrame
    DEF DestroyNothing, RestTypeOK, TM!TypeOK, SM!TypeOK, SM!IsTable, CallInv, PhaseInv,
        Running, RequestInv
  <2> QED
    BY <1>2, <2>1, QuietStep DEF DestroyNothing
<1>3. ASSUME NEW s \in Sessions, NEW l \in todo[s], DestroyRefused(s, l) PROVE CoreInv'
  <2>1. RestTypeOK' /\ CallInv' /\ PhaseInv' /\ RequestInv'
    BY <1>1, <1>3, OwnersFrame, TableFrame
    DEF DestroyRefused, RestTypeOK, TM!TypeOK, SM!TypeOK, SM!IsTable, CallInv, PhaseInv,
        Running, RequestInv
  <2>2. \A x \in Sessions : todo'[x] \subseteq todo[x]
    BY <1>1, <1>3 DEF DestroyRefused, RestTypeOK
  <2> QED
    BY <1>3, <2>1, <2>2, QuietStep DEF DestroyRefused
<1>4. ASSUME NEW k \in Keys, UnlockRefused(k) PROVE CoreInv'
  <2>1. RestTypeOK' /\ CallInv' /\ PhaseInv' /\ RequestInv'
    BY <1>1, <1>4, OwnersFrame, TableFrame
    DEF UnlockRefused, RestTypeOK, TM!TypeOK, SM!TypeOK, SM!IsTable, CallInv, PhaseInv,
        Running, RequestInv
  <2> QED
    BY <1>4, <2>1, QuietStep DEF UnlockRefused
<1>5. ASSUME NEW k \in Keys, CallbackRefused(k) PROVE CoreInv'
  <2>1. RestTypeOK' /\ CallInv' /\ PhaseInv' /\ RequestInv'
    BY <1>1, <1>5, OwnersFrame, TableFrame
    DEF CallbackRefused, RestTypeOK, TM!TypeOK, SM!TypeOK, SM!IsTable, CallInv, PhaseInv,
        Running, RequestInv
  <2> QED
    BY <1>5, <2>1, QuietStep DEF CallbackRefused
<1>6. ASSUME NEW k \in Keys, req[k] = "added", TM!AddToNil(k), req' = [req EXCEPT ![k] = "done"],
             UNCHANGED <<lmVars, smVars, loadVars, connVars, call, opVars, histVars>>
      PROVE  CoreInv'
  <2>1. up = "up" /\ timer[k] = "none"
    BY <1>1, <1>6 DEF PhaseInv, CallInv, RestTypeOK, TM!TypeOK, TM!TimerStates
  <2>2. RestTypeOK' /\ CallInv' /\ PhaseInv' /\ RequestInv'
    BY <1>1, <1>6, <2>1, OwnersFrame, TableFrame
    DEF TM!AddToNil, RestTypeOK, TM!TypeOK, TM!TimerStates, SM!TypeOK, SM!IsTable, CallInv,
        PhaseInv, Running, RequestInv
  <2>3. \A j \in Keys : req'[j] = req[j] \/ (req[j] = "added" /\ req'[j] = "done")
    BY <1>1, <1>6 DEF RestTypeOK
  <2>4. toLoad = {}
    BY <1>1, <2>1 DEF LoadInv
  <2> QED
    BY <1>6, <2>2, <2>3, <2>4, QuietStep
<1>7. CASE StopGrpc
  <2>1. /\ conn' = [s \in Sessions |-> IF s \in Open THEN "ending" ELSE conn[s]]
        /\ UNCHANGED <<lmVars, tmVars, smVars, loadVars, todo, todoTimer, lockVars, opVars, histVars>>
    BY <1>7 DEF StopGrpc, Hangup
  <2>2. \A s \in Open : conn[s] = "live"
    BY DEF Open
  <2>3. RestTypeOK' /\ CallInv' /\ PhaseInv' /\ RequestInv'
    <3>1. RestTypeOK'
      BY <1>1, <2>1 DEF RestTypeOK, TM!TypeOK, SM!TypeOK, SM!IsTable
    <3>2. CallInv' /\ PhaseInv'
      BY <1>1, <2>1, <2>2 DEF CallInv, PhaseInv, Running
    <3>3. ASSUME NEW k \in Keys, req[k] = "added", conn[call[k].sess] = "ended"
          PROVE  conn'[call[k].sess] = "ended"
      <4>1. call[k].sess \in Sessions
        BY <1>1, <3>3, CallFacts DEF CallInv, CoreInv
      <4> QED
        BY <4>1, <3>3, <2>1, <2>2
    <3>4. RequestInv'
      BY <1>1, <2>1, <3>3, OwnersFrame, TableFrame DEF RequestInv
    <3> QED
      BY <3>1, <3>2, <3>4
  <2> QED
    BY <2>1, <2>3, QuietStep
<1>8. CASE CloseTimers
  <2>1. /\ timers' = {} /\ UNCHANGED <<lmVars, smVars, loadVars, connVars, lockVars, opVars, histVars>>
        /\ timer' = [k \in Keys |-> IF k \in timers /\ timer[k] = "armed" THEN "stopped" ELSE timer[k]]
    BY <1>8 DEF CloseTimers, TM!Shutdown
  <2>2. RestTypeOK'
    BY <1>1, <2>1 DEF RestTypeOK, TM!TypeOK, TM!TimerStates, SM!TypeOK, SM!IsTable
  <2>3. CallInv' /\ PhaseInv' /\ RequestInv'
    BY <1>1, <2>1, OwnersFrame, TableFrame DEF CallInv, PhaseInv, Running, RequestInv
  <2>4. \A k \in Keys : timer[k] = "none" => timer'[k] = "none"
    BY <2>1
  <2> QED
    BY <2>1, <2>2, <2>3, <2>4, QuietStep
<1> QED
  BY <1>2, <1>3, <1>4, <1>5, <1>6, <1>7, <1>8 DEF ClosingStep

\* A step of the process is one of the lock server, one of the closers, or the
\* end.
LEMMA ProcStepKinds ==
  ASSUME [ProcNext]_allVars
  PROVE  \/ [Next]_vars
         \/ ClosingStep
         \/ \E cause \in {"down", "panicked"} : Die(cause) /\ UNCHANGED crashes
<1>1. CASE ProcClientStep
  BY <1>1 DEF ProcClientStep, ProcLockCall, ProcGiveUp, ProcRenewCall, ProcUnlockCall,
              ProcConnect, ProcDisconnect, ClientStep, Next
<1>2. ASSUME NEW k \in Keys, HandlerStep(k)
      PROVE  [Next]_vars \/ ClosingStep \/ (Die("panicked") /\ UNCHANGED crashes)
  <2>1. CASE UnlockRefused(k) \/ CallbackRefused(k)
    BY <2>1 DEF ClosingStep
  <2>2. CASE AddTimerPanics(k)
    BY <2>2 DEF AddTimerPanics, ClosingStep
  <2>3. CASE ~(UnlockRefused(k) \/ CallbackRefused(k) \/ AddTimerPanics(k))
    <3>1. ServerStep(k)
      BY <1>2, <2>3 DEF HandlerStep, ServerStep
    <3> QED
      BY <3>1 DEF Next
  <2> QED
    BY <2>1, <2>2, <2>3
<1>3. ASSUME NEW s \in Sessions, CleanUpStep(s)
      PROVE  [Next]_vars \/ ClosingStep
  <2>1. CASE DestroyNothing(s) \/ \E l \in todo[s] : DestroyRefused(s, l)
    BY <2>1 DEF ClosingStep
  <2>2. CASE ~(DestroyNothing(s) \/ \E l \in todo[s] : DestroyRefused(s, l))
    <3>1. SessionStep(s)
      BY <1>3, <2>2 DEF CleanUpStep, SessionStep, ProcDestroyRecords, ProcDestroyUnlock,
                        ProcDestroyTimer
    <3> QED
      BY <3>1 DEF Next
  <2> QED
    BY <2>1, <2>2
<1>4. CASE CloseRest
  BY <1>4 DEF CloseRest
<1>5. CASE Closer
  BY <1>5 DEF Closer, GrpcStopped, CloseIpc, SetFlag, CloseManager, Exit, ClosingStep
<1>6. CASE Boot
  BY <1>6 DEF Boot, ProcLoad, BootIpc, BootIpcFails, BootNet, LoadStep, Next
<1>7. CASE ProcCrash \/ ProcRestart \/ BootNetFails \/ DeleteSocket
  BY <1>7 DEF ProcCrash, ProcRestart, BootNetFails, DeleteSocket, Next
<1> QED
  BY <1>1, <1>2, <1>3, <1>4, <1>5, <1>6, <1>7 DEF ProcNext, allVars

\* Every step of the process keeps the core invariants.
LEMMA ProcNextCore == CoreInv /\ [ProcNext]_allVars => CoreInv'
<1> SUFFICES ASSUME CoreInv, [ProcNext]_allVars PROVE CoreInv'
  OBVIOUS
<1>1. ASSUME NEW cause \in {"down", "panicked"}, Die(cause) /\ UNCHANGED crashes PROVE CoreInv'
  <2>1. crashes' \in 0..MaxCrashes
    BY <1>1 DEF CoreInv, TypeOK
  <2> QED
    BY <1>1, <2>1, DieStep
<1> QED
  BY <1>1, ProcStepKinds, NextCore, ClosingCore

-----------------------------------------------------------------------------
(* The phases of the process.                                              *)

\* Handlers and clean-ups go on in the phase they find, or are the end.
LEMMA HandlerPhase ==
  ASSUME NEW k \in Keys, HandlerStep(k)
  PROVE  UNCHANGED <<up, procVars>> \/ (up' = "panicked" /\ Ended(FALSE))
<1> USE DEF loadVars
<1> QED
  BY DEF HandlerStep, AddLock, AddTimer, UnlockTimer, UnlockMgr, UnlockRemove, RenewStop,
      RenewArm, Fire, CallbackUnlock, CallbackRecord, CallbackTimer, UnlockRefused,
      CallbackRefused, AddTimerPanics, UnlockPanics, Die

\* The same for clean-ups.
LEMMA CleanUpPhase ==
  ASSUME NEW s \in Sessions, CleanUpStep(s)
  PROVE  UNCHANGED <<up, procVars>>
BY DEF CleanUpStep, ProcDestroyRecords, DestroyNothing, ProcDestroyUnlock, DestroyRefused,
       ProcDestroyTimer, DestroyRecords, DestroyUnlock, DestroyTimer, loadVars

\* The types of the process and what its socket tells.
LEMMA PhaseStep ==
  ASSUME CoreInv, PhaseTypeOK, SocketInv, [ProcNext]_allVars
  PROVE  PhaseTypeOK' /\ SocketInv'
<1> USE DEF PhaseTypeOK, SocketInv, CleanStop
<1>1. up \in {"up", "loading", "down", "panicked", "failed"}
  BY DEF CoreInv, TypeOK
<1>2. ASSUME Ended(FALSE), up' \in {"down", "panicked", "failed"}
      PROVE  PhaseTypeOK' /\ SocketInv'
  BY <1>2 DEF Ended
<1>3. ASSUME UNCHANGED <<up, procVars>> PROVE PhaseTypeOK' /\ SocketInv'
  BY <1>3 DEF procVars
<1>4. CASE ProcClientStep
  <2>1. UNCHANGED up
    BY <1>4 DEF ProcClientStep, ProcLockCall, ProcGiveUp, ProcRenewCall, ProcUnlockCall,
                ProcConnect, ProcDisconnect, LockCall, GiveUp, RenewCall, UnlockCall, Connect,
                Disconnect, loadVars
  <2>2. UNCHANGED procVars \/ NewRequest
    BY <1>4 DEF ProcClientStep, ProcLockCall, ProcGiveUp, ProcRenewCall, ProcUnlockCall,
                ProcConnect, ProcDisconnect
  <2>3. CASE NewRequest
    BY <2>1, <2>3, ProcessAssumption DEF NewRequest
  <2> QED
    BY <2>1, <2>2, <2>3, <1>3
<1>5. ASSUME NEW k \in Keys, HandlerStep(k) PROVE PhaseTypeOK' /\ SocketInv'
  BY <1>2, <1>3, <1>5, HandlerPhase
<1>6. ASSUME NEW s \in Sessions, CleanUpStep(s) PROVE PhaseTypeOK' /\ SocketInv'
  BY <1>3, <1>6, CleanUpPhase
<1>7. CASE CloseRest
  BY <1>7, ProcessAssumption DEF CloseRest, Stopping, vars, loadVars
<1>8. CASE Closer
  <2>1. CASE StopGrpc
    BY <1>1, <2>1 DEF StopGrpc, Hangup, Open, loadVars
  <2>2. CASE GrpcStopped \/ SetFlag \/ CloseTimers \/ CloseManager
    <3>1. UNCHANGED <<up, socket, clean, byStop, stops, requests>>
      BY <2>2 DEF GrpcStopped, SetFlag, CloseTimers, CloseManager, Advance, vars, loadVars
    <3>2. \/ proc = "stop" /\ proc' = "net"
          \/ proc = "ipc" /\ proc' = "flag"
          \/ proc = "flag" /\ proc' = "timers"
          \/ proc = "timers" /\ proc' = "manager"
      BY <2>2 DEF GrpcStopped, SetFlag, CloseTimers, CloseManager, Advance
    <3> QED
      BY <1>1, <3>1, <3>2
  <2>3. CASE CloseIpc
    <3>1. UNCHANGED <<up, clean, byStop, stops, requests>> /\ proc = "net" /\ proc' = "ipc"
      BY <2>3 DEF CloseIpc, Advance, vars, loadVars
    <3>2. socket' \in BOOLEAN /\ ~socket'
      BY <2>3, ZenonT(20) DEF CloseIpc
    <3> QED
      BY <1>1, <3>1, <3>2
  <2>4. CASE Exit
    BY <2>4 DEF Exit, ManagerClosed, Die, Ended
  <2> QED
    BY <1>8, <2>1, <2>2, <2>3, <2>4 DEF Closer
<1>9. CASE Boot
  <2>1. ASSUME NEW p \in toLoad, LoadLock(p[1], p[2]) /\ UNCHANGED procVars
        PROVE  PhaseTypeOK' /\ SocketInv'
    BY <1>3, <2>1 DEF LoadLock
  <2>2. ASSUME NEW p \in toLoad, LoadPanics(p[1], p[2]) /\ Ended(FALSE)
        PROVE  PhaseTypeOK' /\ SocketInv'
    BY <1>2, <2>2 DEF LoadPanics, Die
  <2>3. CASE BootIpcFails
    BY <1>2, <2>3 DEF BootIpcFails, Die
  <2>4. CASE BootIpc
    BY <2>4 DEF BootIpc, Advance, vars, loadVars
  <2>5. CASE BootNet
    BY <2>5 DEF BootNet, LoadDone
  <2> QED
    BY <1>9, <2>1, <2>2, <2>3, <2>4, <2>5 DEF Boot, ProcLoad
<1>10. CASE ProcCrash
  BY <1>2, <1>10 DEF ProcCrash, Crash, Die
<1>11. CASE ProcRestart
  BY <1>11 DEF ProcRestart, Restart, procVars
<1>12. CASE BootNetFails
  BY <1>12, ProcessAssumption DEF BootNetFails, Stopping, vars, loadVars
<1>13. CASE DeleteSocket
  BY <1>13 DEF DeleteSocket, vars, loadVars
<1>14. CASE UNCHANGED allVars
  BY <1>3, <1>14 DEF allVars, vars, loadVars
<1> QED
  BY <1>4, <1>5, <1>6, <1>7, <1>8, <1>9, <1>10, <1>11, <1>12, <1>13, <1>14 DEF ProcNext

\* The first process runs.
LEMMA InitProc == ProcInit => ProcInv
<1> SUFFICES ASSUME ProcInit PROVE ProcInv
  OBVIOUS
<1>1. CoreInv
  BY InitCore DEF ProcInit
<1>2. up = "up"
  BY DEF ProcInit, Init
<1>3. socket \in BOOLEAN /\ clean \in BOOLEAN /\ ~clean
  BY ZenonT(20) DEF ProcInit
<1>4. /\ proc = "run" /\ byStop \subseteq Grpc
      /\ stops \in 0..MaxStops /\ requests \in 0..MaxRequests
  BY ProcessAssumption DEF ProcInit
<1>5. PhaseTypeOK /\ SocketInv
  BY <1>2, <1>3, <1>4 DEF PhaseTypeOK, SocketInv, CleanStop
<1> QED
  BY <1>1, <1>5 DEF ProcInv

\* Every step of the process keeps the inductive invariant.
LEMMA NextProc == ProcInv /\ [ProcNext]_allVars => ProcInv'
BY ProcNextCore, PhaseStep DEF ProcInv

-----------------------------------------------------------------------------
(* The state file while the server closes.                                 *)

\* No step but the end of a session takes the entry of a session away.
LEMMA FileStep ==
  ASSUME CoreInv, [ProcNext]_allVars, Flagged, Running'
  PROVE  DOMAIN file \subseteq DOMAIN file'
<1> USE DEF smVars
<1>1. SyncInv /\ PhaseInv /\ CallInv
  BY DEF CoreInv
<1>2. CASE UNCHANGED file
  BY <1>2
<1>3. ASSUME Running, NEW s, NEW l, SM!AddLock(s, l) \/ SM!RemoveLock(s, l)
      PROVE  DOMAIN file \subseteq DOMAIN file'
  <2>1. DOMAIN file \subseteq DOMAIN sessionLocks
    BY <1>1, <1>3 DEF SyncInv
  <2> QED
    BY <1>3, <2>1 DEF SM!AddLock, SM!RemoveLock, SM!WithEntry, SM!Save, SM!HasEntry, SM!sessionVars
<1>4. CASE ProcClientStep
  BY <1>2, <1>4 DEF ProcClientStep, ProcLockCall, ProcGiveUp, ProcRenewCall, ProcUnlockCall,
                ProcConnect, ProcDisconnect, LockCall, GiveUp, RenewCall, UnlockCall, Connect,
                Disconnect, SM!CreateSession
<1>5. ASSUME NEW k \in Keys, HandlerStep(k) PROVE DOMAIN file \subseteq DOMAIN file'
  <2>1. CASE AddLock(k)
    <3>1. Running
      BY <1>1, <2>1 DEF AddLock, PhaseInv, Running
    <3> QED
      BY <1>3, <2>1, <3>1 DEF AddLock
  <2>2. CASE UnlockRemove(k)
    <3>1. Running
      BY <1>1, <2>2 DEF UnlockRemove, PhaseInv, Running
    <3> QED
      BY <1>3, <2>2, <3>1 DEF UnlockRemove
  <2>3. CASE CallbackRecord(k)
    <3>1. Running
      BY <1>1, <2>3 DEF CallbackRecord, PhaseInv, Running
    <3> QED
      BY <1>2, <1>3, <2>3, <3>1 DEF CallbackRecord
  <2>4. CASE ~(AddLock(k) \/ UnlockRemove(k) \/ CallbackRecord(k))
    <3>1. UNCHANGED file
      BY <1>5, <2>4
      DEF HandlerStep, AddTimer, UnlockTimer, UnlockMgr, RenewStop, RenewArm, Fire,
          CallbackUnlock, CallbackTimer, UnlockRefused, CallbackRefused, AddTimerPanics,
          UnlockPanics, Die
    <3> QED
      BY <1>2, <3>1
  <2> QED
    BY <2>1, <2>2, <2>3, <2>4
<1>6. ASSUME NEW s \in Sessions, CleanUpStep(s) PROVE DOMAIN file \subseteq DOMAIN file'
  <2>1. UNCHANGED file
    BY <1>6 DEF CleanUpStep, ProcDestroyRecords, DestroyNothing, ProcDestroyUnlock,
                DestroyRefused, ProcDestroyTimer, DestroyUnlock, DestroyTimer
  <2> QED
    BY <1>2, <2>1
<1>7. CASE CloseRest \/ Closer
  BY <1>2, <1>7 DEF CloseRest, Closer, StopGrpc, Hangup, GrpcStopped, CloseIpc, SetFlag,
                    CloseTimers, CloseManager, Exit, Die, vars
<1>8. CASE Boot
  <2>1. ASSUME NEW p \in toLoad, LoadLock(p[1], p[2]) PROVE DOMAIN file \subseteq DOMAIN file'
    <3>1. Running
      BY <2>1 DEF LoadLock, Running
    <3> QED
      BY <1>2, <1>3, <2>1, <3>1 DEF LoadLock
  <2>2. CASE UNCHANGED file
    BY <1>2, <2>2
  <2> QED
    BY <1>8, <2>1, <2>2
    DEF Boot, ProcLoad, LoadPanics, BootIpc, BootIpcFails, BootNet, LoadDone, Die, vars
<1>9. CASE ProcCrash \/ ProcRestart \/ BootNetFails \/ DeleteSocket
  BY <1>2, <1>9 DEF ProcCrash, Crash, ProcRestart, Restart, BootNetFails, DeleteSocket, Die,
                    SM!Load, vars
<1>10. CASE UNCHANGED allVars
  BY <1>2, <1>10 DEF allVars, vars
<1> QED
  BY <1>4, <1>5, <1>6, <1>7, <1>8, <1>9, <1>10 DEF ProcNext

-----------------------------------------------------------------------------
(* The properties.                                                         *)

\* The inductive invariant holds in every reachable state.
THEOREM ProcInductive == ProcSpec => []ProcInv
BY InitProc, NextProc, PTL DEF ProcSpec

\* Every variable has its type, and the process runs in the phases that have
\* its parts.
THEOREM ProcTypeCorrect == ProcSpec => []ProcTypeOK
<1>1. ProcInv => ProcTypeOK
  BY DEF ProcInv, CoreInv, PhaseTypeOK, ProcTypeOK
<1> QED
  BY <1>1, ProcInductive, PTL

\* KeptUntilReleased, of a server that is stopped, fails to start or is killed
\* at any step of its start or its stop.
THEOREM ProcKept == ProcSpec => [](~noClearOnDisconnect => KeptUntilReleased)
<1>1. ProcInv => (~noClearOnDisconnect => KeptUntilReleased)
  BY DEF ProcInv, CoreInv, KeptInv, KeptUntilReleased, Owners, Listed, Saved, TypeOK
<1> QED
  BY <1>1, ProcInductive, PTL

\* ClientsExclude, of such a server.
THEOREM ProcExclusion == ProcSpec => [](~noClearOnDisconnect => ClientsExclude)
<1>1. ProcInv => (~noClearOnDisconnect => ClientsExclude)
  BY DEF ProcInv, CoreInv, ExcludeInv
<1> QED
  BY <1>1, ProcInductive, PTL

\* CleanStop: the socket file is closed before the flag is set and the parts are
\* closed, also when the start failed half way.
THEOREM StopsCleanly == ProcSpec => []CleanStop
<1>1. ProcInv => CleanStop
  BY DEF ProcInv, SocketInv
<1> QED
  BY <1>1, ProcInductive, PTL

\* FlagKeepsSessions: what the file holds under a session stays there for the
\* next start, whatever handlers and timers do while the parts are closed.
THEOREM FlagKeeps == ProcSpec => FlagKeepsSessions
<1>1. ProcInv /\ [ProcNext]_allVars
        => [Flagged /\ Running' => DOMAIN file \subseteq DOMAIN file']_allVars
  BY FileStep DEF ProcInv
<1> QED
  BY <1>1, ProcInductive, PTL DEF ProcSpec, FlagKeepsSessions
=============================================================================
