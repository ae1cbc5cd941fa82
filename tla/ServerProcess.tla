--------------------------- MODULE ServerProcess ---------------------------
(***************************************************************************)
(* The server process of ldlm: how it starts, and in which order it closes *)
(* its parts when it is told to stop.  src/cmd/server/main.go, src/net,    *)
(* src/server/ipc/server.go and the closer of src/server/server.go, over   *)
(* the lock server of LockServer.tla.                                      *)
(*                                                                         *)
(* A session is a gRPC connection or a REST session.  Requests of a REST   *)
(* session are over before it ends (RestGateway.tla), and none of them     *)
(* waits for a lock.                                                       *)
(***************************************************************************)
EXTENDS LockServer

CONSTANTS RestSessions,   \* the others are gRPC connections
          MaxStops,       \* bound: signals and failed starts
          MaxRequests     \* bound: Lock, Unlock and Renew requests

ASSUME ProcessAssumption ==
  RestSessions \subseteq Sessions /\ MaxStops \in Nat /\ MaxRequests \in Nat

VARIABLES
  proc,    \* "boot", "bootNet": main starts its parts; "run"; then what the
           \* closers have come to, each step named for what is closed:
           \* "rest", "stop" (gRPC's Stop waits), "net", "ipc", "flag"
           \* (isShutdown is set), "timers", "manager"
  socket,  \* the IPC socket file exists
  clean,   \* history: the process ended last by returning from main
  byStop,  \* history: the sessions that gRPC's Stop closed
  stops, requests

procVars == <<proc, socket, clean, byStop, stops, requests>>
allVars  == <<vars, procVars>>

ProcInit ==
  /\ Init
  /\ proc = "run" /\ socket = TRUE /\ clean = FALSE /\ byStop = {}
  /\ stops = 0 /\ requests = 0

-----------------------------------------------------------------------------
Grpc == Sessions \ RestSessions

Flagged       == proc \in {"flag", "timers", "manager"}
TimersClosed  == proc \in {"timers", "manager"}
ManagerClosed == proc = "manager"

\* A request of s is being served.
Busy(s) == \E k \in Keys : \/ unlSess[k] = s
                           \/ req[k] \in {"granted", "added"} /\ call[k].sess = s

\* The process is gone, for good or bad.
\* Fault: what was closed stays closed in the next process.
EndedAsIs(well) == clean' = well /\ UNCHANGED <<proc, byStop, socket, stops, requests>>

Ended(well) ==
  /\ proc' = "boot" /\ clean' = well /\ byStop' = {}
  /\ UNCHANGED <<socket, stops, requests>>

Stopping == stops < MaxStops /\ stops' = stops + 1

-----------------------------------------------------------------------------
(* What clients do, as far as the listeners let them.                      *)

NewRequest ==
  /\ requests < MaxRequests /\ requests' = requests + 1
  /\ UNCHANGED <<proc, socket, clean, byStop, stops>>

ProcConnect(s) == proc = "run" /\ Connect(s) /\ UNCHANGED procVars

\* A gRPC connection breaks, or a REST session is deleted or times out.  The
\* closer stops the timers of REST sessions, but one that is being reset then
\* is started again.
ProcDisconnect(s) ==
  /\ s \in RestSessions => ~Busy(s)
  /\ Disconnect(s)
  /\ UNCHANGED procVars

\* Requests accepted before the closers ran go on.
ProcLockCall(k, c) ==
  /\ ~ManagerClosed
  /\ LockCall(k, c)
  /\ c.sess \in RestSessions => req'[k] = "granted"
  /\ NewRequest

ProcGiveUp(k)        == GiveUp(k) /\ UNCHANGED procVars
ProcUnlockCall(k, s) == UnlockCall(k, s) /\ NewRequest
ProcRenewCall(k)     == RenewCall(k) /\ NewRequest

-----------------------------------------------------------------------------
(* Clean-ups and handlers, once the parts they call are closed.            *)

\* Fault: isShutdown is not looked at.
ProcDestroyUnflagged(s) == DestroyRecords(s) /\ UNCHANGED procVars

\* DestroySession returns at once when isShutdown is set.
ProcDestroyRecords(s) == ~Flagged /\ DestroyRecords(s) /\ UNCHANGED procVars

DestroyNothing(s) ==
  /\ Flagged /\ up = "up" /\ conn[s] = "ending"
  /\ conn' = [conn EXCEPT ![s] = "ended"]
  /\ UNCHANGED <<lmVars, tmVars, smVars, loadVars, todo, todoTimer, lockVars, opVars, histVars>>
  /\ UNCHANGED procVars

ProcDestroyUnlock(s, l) == ~ManagerClosed /\ DestroyUnlock(s, l) /\ UNCHANGED procVars
ProcDestroyTimer(s, l)  == DestroyTimer(s, l) /\ UNCHANGED procVars

\* The manager refuses every call when it is closed.
DestroyRefused(s, l) ==
  /\ ManagerClosed /\ l \in todo[s] /\ todoTimer[s] = {}
  /\ todo' = [todo EXCEPT ![s] = @ \ {l}]
  /\ UNCHANGED <<lmVars, tmVars, smVars, loadVars, conn, todoTimer, lockVars, opVars, histVars>>
  /\ UNCHANGED procVars

UnlockRefused(k) ==
  /\ ManagerClosed /\ unl[k] = "mgr"
  /\ unl'     = [unl EXCEPT ![k] = "none"]
  /\ unlSess' = [unlSess EXCEPT ![k] = None]
  /\ UNCHANGED <<lmVars, tmVars, smVars, loadVars, connVars, lockVars, ren, cb, histVars>>
  /\ UNCHANGED procVars

CallbackRefused(k) ==
  /\ ManagerClosed /\ cb[k] = "unlock"
  /\ cb' = [cb EXCEPT ![k] = "record"]
  /\ UNCHANGED <<lmVars, tmVars, smVars, loadVars, connVars, lockVars, unl, unlSess, ren, histVars>>
  /\ UNCHANGED procVars

\* Add on the closed timers panics.  net/http recovers that in the handler of
\* a REST session, nobody in that of a gRPC connection.
AddTimerPanics(k) ==
  /\ TimersClosed /\ req[k] = "added"
  /\ IF call[k].sess \in RestSessions
       THEN /\ TM!AddToNil(k)
            /\ req' = [req EXCEPT ![k] = "done"]
            /\ UNCHANGED <<lmVars, smVars, loadVars, connVars, call, opVars, histVars>>
            /\ UNCHANGED procVars
       ELSE Die("panicked") /\ UNCHANGED crashes /\ Ended(FALSE)

HandlerStep(k) ==
  \/ /\ \/ AddLock(k) \/ (~TimersClosed /\ AddTimer(k))
        \/ UnlockTimer(k) \/ (~ManagerClosed /\ UnlockMgr(k)) \/ UnlockRemove(k)
        \/ RenewStop(k) \/ RenewArm(k)
        \/ Fire(k) \/ (~ManagerClosed /\ CallbackUnlock(k))
        \/ CallbackRecord(k) \/ CallbackTimer(k)
     /\ UNCHANGED procVars
  \/ UnlockRefused(k) \/ CallbackRefused(k) \/ AddTimerPanics(k)
  \/ UnlockPanics(k) /\ Ended(FALSE)

CleanUpStep(s) ==
  \/ ProcDestroyRecords(s) \/ DestroyNothing(s)
  \/ \E l \in todo[s] : ProcDestroyUnlock(s, l) \/ DestroyRefused(s, l)
  \/ \E l \in todoTimer[s] : ProcDestroyTimer(s, l)

-----------------------------------------------------------------------------
(* The closers, in the order in which main calls them.                     *)

Advance(from, to) ==
  proc = from /\ proc' = to /\ UNCHANGED <<clean, byStop, stops, requests>>

\* A signal: the REST server is closed, without an end of its sessions.
CloseRest ==
  /\ up = "up" /\ proc = "run" /\ proc' = "rest"
  /\ Stopping
  /\ UNCHANGED vars /\ UNCHANGED <<socket, clean, byStop, requests>>

\* The connections of S are closed.
Hangup(S) ==
  /\ proc = "rest" /\ proc' = "stop"
  /\ conn' = [s \in Sessions |-> IF s \in S THEN "ending" ELSE conn[s]]
  /\ byStop' = S
  /\ UNCHANGED <<socket, clean, stops, requests>>
  /\ UNCHANGED <<lmVars, tmVars, smVars, loadVars, todo, todoTimer, lockVars, opVars, histVars>>

Open == {s \in Grpc : conn[s] = "live"}

\* Fault: GracefulStop, which leaves connections open as long as calls run.
StopGracefully ==
  Hangup({s \in Open : \A k \in Keys : call[k] # None /\ call[k].sess = s => req[k] # "waiting"})

\* Stop closes every connection.
StopGrpc == Hangup(Open)

\* It waits for the ends of the connections, not for handlers.
GrpcStopped ==
  /\ \A s \in Grpc : conn[s] \in {"new", "ended"} /\ todo[s] = {} /\ todoTimer[s] = {}
  /\ Advance("stop", "net") /\ UNCHANGED socket
  /\ UNCHANGED vars

\* Fault: the socket file is left.
CloseIpcOnly ==
  /\ Advance("net", "ipc") /\ UNCHANGED socket
  /\ UNCHANGED vars

CloseIpc ==
  /\ Advance("net", "ipc") /\ socket' = FALSE
  /\ UNCHANGED vars

SetFlag ==
  /\ Advance("ipc", "flag") /\ UNCHANGED socket
  /\ UNCHANGED vars

CloseTimers ==
  /\ Advance("flag", "timers") /\ UNCHANGED socket
  /\ TM!Shutdown
  /\ UNCHANGED <<lmVars, smVars, loadVars, connVars, lockVars, opVars, histVars>>

\* The manager waits for the calls in progress.
CloseManager ==
  /\ \A k \in Keys : req[k] # "waiting"
  /\ Advance("timers", "manager") /\ UNCHANGED socket
  /\ UNCHANGED vars

Exit ==
  /\ ManagerClosed
  /\ Die("down") /\ UNCHANGED crashes
  /\ Ended(TRUE)

-----------------------------------------------------------------------------
(* Crashes and starts.                                                     *)

ProcCrash   == Crash /\ Ended(FALSE)
ProcRestart == Restart /\ UNCHANGED procVars

ProcLoad ==
  \E p \in toLoad :
    \/ LoadLock(p[1], p[2]) /\ UNCHANGED procVars
    \/ LoadPanics(p[1], p[2]) /\ Ended(FALSE)

\* ipc.Run refuses a socket file that exists, and New fails.
BootIpcFails ==
  /\ up = "loading" /\ proc = "boot" /\ toLoad = {} /\ socket
  /\ Die("down") /\ UNCHANGED crashes
  /\ Ended(FALSE)

BootIpc ==
  /\ up = "loading" /\ toLoad = {} /\ ~socket
  /\ Advance("boot", "bootNet") /\ socket' = TRUE
  /\ UNCHANGED vars

BootNet ==
  /\ proc = "bootNet" /\ proc' = "run"
  /\ LoadDone
  /\ UNCHANGED <<socket, clean, byStop, stops, requests>>

\* net.Run fails, on an address in use: only the lock server is closed.
BootNetFails ==
  /\ up = "loading" /\ proc = "bootNet" /\ proc' = "net"
  /\ Stopping
  /\ UNCHANGED vars /\ UNCHANGED <<socket, clean, byStop, requests>>

\* The operator deletes a socket file that was left behind.
DeleteSocket ==
  /\ up \in {"down", "panicked"} /\ socket
  /\ socket' = FALSE
  /\ UNCHANGED vars /\ UNCHANGED <<proc, clean, byStop, stops, requests>>

-----------------------------------------------------------------------------
ProcClientStep ==
  \/ \E k \in Keys, c \in Calls : ProcLockCall(k, c)
  \/ \E k \in Keys : ProcGiveUp(k) \/ ProcRenewCall(k)
  \/ \E k \in Keys, s \in Sessions : ProcUnlockCall(k, s)
  \/ \E s \in Sessions : ProcConnect(s) \/ ProcDisconnect(s)

Closer ==
  \/ StopGrpc \/ GrpcStopped \/ CloseIpc \/ SetFlag \/ CloseTimers \/ CloseManager \/ Exit

Boot == ProcLoad \/ BootIpc \/ BootIpcFails \/ BootNet

ProcNext ==
  \/ ProcClientStep
  \/ \E k \in Keys : HandlerStep(k)
  \/ \E s \in Sessions : CleanUpStep(s)
  \/ CloseRest \/ Closer
  \/ ProcCrash \/ ProcRestart \/ Boot \/ BootNetFails \/ DeleteSocket

ProcSpec == ProcInit /\ [][ProcNext]_allVars

\* Goroutines run on, and a Lock whose connection is closed gives up.
ProcFairness ==
  /\ \A k \in Keys :
       /\ WF_allVars(HandlerStep(k))
       /\ WF_allVars(ProcGiveUp(k) /\ conn[call[k].sess] # "live")
  /\ \A s \in Sessions : WF_allVars(CleanUpStep(s))
  /\ WF_allVars(Closer)

FairProcSpec == ProcSpec /\ ProcFairness

-----------------------------------------------------------------------------
\* Every variable has its type, and the process runs in the phases that have
\* its parts.
ProcTypeOK ==
  /\ TypeOK
  /\ proc \in {"boot", "bootNet", "run", "rest", "stop", "net", "ipc", "flag",
               "timers", "manager"}
  /\ socket \in BOOLEAN /\ clean \in BOOLEAN /\ byStop \subseteq Grpc
  /\ stops \in 0..MaxStops
  /\ requests \in 0..MaxRequests
  /\ up \notin {"up", "loading"} => proc = "boot"
  /\ up = "up" => proc \notin {"boot", "bootNet"}

\* Once isShutdown is set, no session loses its entry in the state file, also
\* one that a REST timer ends while the closers run (server.go:396-400): what
\* the file holds then is what the next start locks.
FlagKeepsSessions == [][Flagged /\ Running' => DOMAIN file \subseteq DOMAIN file']_allVars

\* A stop that ran to its end does not stand in the way of the next start, as
\* one that a panic of a handler cut short does: the socket file is gone.
CleanStop == clean /\ up = "down" => ~socket

\* Once told to stop the process ends, whatever calls wait and whatever
\* clean-ups are in progress.
StopEnds == (proc = "rest") ~> ~Running

-----------------------------------------------------------------------------
(* A statement of the code's comments that does not hold.                  *)

\* server.go:396-397: "We don't to clear all locks on shutdown, otherwise the
\* session manager will write all 0 locks to the state file."  So when the
\* process closes a connection, the locks of that client stay in the state file
\* until an Unlock or a timeout removes them.
ShutdownKeepsLocks ==
  [][\A k \in acked :
       call[k].sess \in byStop /\ InFile(k) /\ Running'
         => InFile(k)' \/ unl[k] # "none" \/ cb[k] # "none"]_allVars
=============================================================================
