---------------------------- MODULE RestGateway ----------------------------
(***************************************************************************)
(* The sessions of the REST gateway, src/net/rest/rest.go: a session is    *)
(* created and deleted by requests, named by a cookie in the others, and   *)
(* ends when it has been idle for too long.                                *)
(*                                                                         *)
(* Two levels of mutexes: sessionsMtx guards the map of the sessions, the  *)
(* mutex of a session (s.mtx) is held while one of its requests is served  *)
(* or the session ends.  A request and a timeout take the second while     *)
(* they hold the first, a DELETE after it has given the first up.          *)
(*                                                                         *)
(* The goroutine that runs the timeout of session i is called i.  The lock *)
(* server is abstracted to the life of its sessions: no call over REST     *)
(* waits for a lock.  Passwords, headers and bodies are left out.          *)
(***************************************************************************)
EXTENDS Naturals, FiniteSets

CONSTANTS Ids,       \* session ids: each is a fresh UUID
          Threads,   \* goroutines that serve requests
          None,      \* nobody
          Closes     \* bound: is the gateway closed at some time

ASSUME RestAssumption ==
  /\ Closes \in BOOLEAN
  /\ None \notin Ids \cup Threads /\ Ids \cap Threads = {}

VARIABLES
  timers, timer,   \* the session timers, see TimerMap
  sessions,        \* restHandler.sessions
  sessionsMtx,     \* who holds it
  sMtx,            \* sMtx[i]: who holds the mutex of session i
  grpc,            \* grpc[i]: the lock server's session: "none", "live", "ended"
  cookies,         \* the ids that were given to clients
  pc, on,          \* where each handler is, and its session
  cb,              \* where the timeout of a session is
  phase            \* "open", "noTimers", "closed": the steps of the closer

TM == INSTANCE TimerMap WITH Keys <- Ids

tmVars == <<timers, timer>>
vars   == <<tmVars, sessions, sessionsMtx, sMtx, grpc, cookies, pc, on, cb, phase>>

Init ==
  /\ TM!Init
  /\ sessions = {} /\ sessionsMtx = None /\ sMtx = [i \in Ids |-> None]
  /\ grpc = [i \in Ids |-> "none"] /\ cookies = {}
  /\ pc = [t \in Threads |-> "idle"] /\ on = [t \in Threads |-> None]
  /\ cb = [i \in Ids |-> "none"]
  /\ phase = "open"

-----------------------------------------------------------------------------
\* t gets request for session i and goes on at step.
Begin(t, i, step) ==
  /\ phase # "closed" /\ pc[t] = "idle"
  /\ pc' = [pc EXCEPT ![t] = step]
  /\ on' = [on EXCEPT ![t] = i]

Goto(t, step) == pc' = [pc EXCEPT ![t] = step] /\ UNCHANGED on

\* Fault: the handler's session is not cleared.
ReturnUncleared(t) == pc' = [pc EXCEPT ![t] = "idle"] /\ UNCHANGED on

Return(t) ==
  /\ pc' = [pc EXCEPT ![t] = "idle"]
  /\ on' = [on EXCEPT ![t] = None]

\* HandleConn with ConnEnd, then the mutex of the session is unlocked.
EndSession(i) ==
  /\ grpc' = [grpc EXCEPT ![i] = "ended"]
  /\ sMtx' = [sMtx EXCEPT ![i] = None]

-----------------------------------------------------------------------------
(* POST /session.                                                          *)

\* TagConn makes the lock server's session.
CreateSession(t, i) ==
  /\ grpc[i] = "none"
  /\ Begin(t, i, "create")
  /\ grpc' = [grpc EXCEPT ![i] = "live"]
  /\ UNCHANGED <<tmVars, sessions, sessionsMtx, sMtx, cookies, cb, phase>>

CreateEntry(t) ==
  /\ pc[t] = "create" /\ sessionsMtx = None /\ phase = "open"
  /\ sessions' = sessions \cup {on[t]}
  /\ TM!Add(on[t])
  /\ cookies' = cookies \cup {on[t]}
  /\ Return(t)
  /\ UNCHANGED <<sessionsMtx, sMtx, grpc, cb, phase>>

\* The map of the timers is nil.  net/http recovers, and sessionsMtx stays
\* locked.
CreatePanics(t) ==
  /\ pc[t] = "create" /\ sessionsMtx = None /\ phase # "open"
  /\ sessions' = sessions \cup {on[t]}
  /\ TM!AddToNil(on[t])
  /\ sessionsMtx' = t
  /\ Goto(t, "panicked")
  /\ UNCHANGED <<sMtx, grpc, cookies, cb, phase>>

-----------------------------------------------------------------------------
(* Any other request: ValidateSession, then the call.                      *)

Request(t, i) ==
  /\ i \in cookies
  /\ Begin(t, i, "validate")
  /\ UNCHANGED <<tmVars, sessions, sessionsMtx, sMtx, grpc, cookies, cb, phase>>

\* Fault: a timer that has fired is started again.
ValidateUnstopped(t) ==
  /\ pc[t] = "validate" /\ sessionsMtx = None
  /\ TM!LookUp(on[t])
  /\ TM!ResetStop(on[t])
  /\ sessionsMtx' = t
  /\ Goto(t, "rearm")
  /\ UNCHANGED <<sessions, sMtx, grpc, cookies, cb, phase>>

\* Under sessionsMtx: Reset stops the timer, if it has not fired.
Validate(t) ==
  /\ pc[t] = "validate" /\ sessionsMtx = None
  /\ TM!LookUp(on[t]) /\ timer[on[t]] = "armed"
  /\ TM!ResetStop(on[t])
  /\ sessionsMtx' = t
  /\ Goto(t, "rearm")
  /\ UNCHANGED <<sessions, sMtx, grpc, cookies, cb, phase>>

\* No timer, or one that has fired: 401.
Unauthorized(t) ==
  /\ pc[t] = "validate" /\ sessionsMtx = None
  /\ ~(TM!LookUp(on[t]) /\ timer[on[t]] = "armed")
  /\ Return(t)
  /\ UNCHANGED <<tmVars, sessions, sessionsMtx, sMtx, grpc, cookies, cb, phase>>

\* Fault: Stop without Reset.
RearmForgotten(t) ==
  /\ pc[t] = "rearm"
  /\ Goto(t, "lock")
  /\ UNCHANGED <<tmVars, sessions, sessionsMtx, sMtx, grpc, cookies, cb, phase>>

Rearm(t) ==
  /\ pc[t] = "rearm"
  /\ TM!ResetArm(on[t])
  /\ Goto(t, "lock")
  /\ UNCHANGED <<sessions, sessionsMtx, sMtx, grpc, cookies, cb, phase>>

\* s.mtx is locked, and on return sessionsMtx is unlocked.
LockSession(t) ==
  /\ pc[t] = "lock" /\ sMtx[on[t]] = None
  /\ sMtx' = [sMtx EXCEPT ![on[t]] = t]
  /\ sessionsMtx' = None
  /\ Goto(t, "serve")
  /\ UNCHANGED <<tmVars, sessions, grpc, cookies, cb, phase>>

\* The call is over.
Serve(t) ==
  /\ pc[t] = "serve"
  /\ sMtx' = [sMtx EXCEPT ![on[t]] = None]
  /\ Return(t)
  /\ UNCHANGED <<tmVars, sessions, sessionsMtx, grpc, cookies, cb, phase>>

-----------------------------------------------------------------------------
(* DELETE /session.                                                        *)

DestroySession(t, i) ==
  /\ i \in cookies
  /\ Begin(t, i, "delete")
  /\ UNCHANGED <<tmVars, sessions, sessionsMtx, sMtx, grpc, cookies, cb, phase>>

\* Fault: the early return leaves sessionsMtx locked.
ConflictLocked(t) ==
  /\ pc[t] = "delete" /\ sessionsMtx = None /\ on[t] \notin sessions
  /\ sessionsMtx' = t
  /\ Return(t)
  /\ UNCHANGED <<tmVars, sessions, sMtx, grpc, cookies, cb, phase>>

\* The session is not in the map: 409.
Conflict(t) ==
  /\ pc[t] = "delete" /\ sessionsMtx = None /\ on[t] \notin sessions
  /\ Return(t)
  /\ UNCHANGED <<tmVars, sessions, sessionsMtx, sMtx, grpc, cookies, cb, phase>>

\* The timer may have fired: then the timeout will not find the session.
DeleteEntry(t) ==
  /\ pc[t] = "delete" /\ sessionsMtx = None /\ on[t] \in sessions
  /\ TM!Remove(on[t])
  /\ sessions' = sessions \ {on[t]}
  /\ Goto(t, "deleteLock")
  /\ UNCHANGED <<sessionsMtx, sMtx, grpc, cookies, cb, phase>>

DeleteLock(t) ==
  /\ pc[t] = "deleteLock" /\ sMtx[on[t]] = None
  /\ sMtx' = [sMtx EXCEPT ![on[t]] = t]
  /\ Goto(t, "deleteEnd")
  /\ UNCHANGED <<tmVars, sessions, sessionsMtx, grpc, cookies, cb, phase>>

DeleteEnd(t) ==
  /\ pc[t] = "deleteEnd"
  /\ EndSession(on[t])
  /\ Return(t)
  /\ UNCHANGED <<tmVars, sessions, sessionsMtx, cookies, cb, phase>>

-----------------------------------------------------------------------------
(* The session timeout: onTimeoutFunc, then the removal of the timer.      *)

Fire(i) ==
  /\ TM!Fire(i)
  /\ cb' = [cb EXCEPT ![i] = "timeout"]
  /\ UNCHANGED <<sessions, sessionsMtx, sMtx, grpc, cookies, pc, on, phase>>

\* Fault: the timeout does not look whether the session is still there.
TimeoutUnchecked(i) ==
  /\ cb[i] = "timeout" /\ sessionsMtx = None
  /\ sessions' = sessions \ {i}
  /\ sessionsMtx' = i
  /\ cb' = [cb EXCEPT ![i] = "lock"]
  /\ UNCHANGED <<tmVars, sMtx, grpc, cookies, pc, on, phase>>

Timeout(i) ==
  /\ cb[i] = "timeout" /\ sessionsMtx = None
  /\ sessions' = sessions \ {i}
  /\ IF i \in sessions
       THEN sessionsMtx' = i /\ cb' = [cb EXCEPT ![i] = "lock"]
       ELSE cb' = [cb EXCEPT ![i] = "remove"] /\ UNCHANGED sessionsMtx
  /\ UNCHANGED <<tmVars, sMtx, grpc, cookies, pc, on, phase>>

\* Fault: the session ends under the request that is being served.
TimeoutBarges(i) ==
  /\ cb[i] = "lock"
  /\ sMtx' = [sMtx EXCEPT ![i] = i]
  /\ sessionsMtx' = None
  /\ cb' = [cb EXCEPT ![i] = "end"]
  /\ UNCHANGED <<tmVars, sessions, grpc, cookies, pc, on, phase>>

TimeoutLock(i) ==
  /\ cb[i] = "lock" /\ sMtx[i] = None
  /\ sMtx' = [sMtx EXCEPT ![i] = i]
  /\ sessionsMtx' = None
  /\ cb' = [cb EXCEPT ![i] = "end"]
  /\ UNCHANGED <<tmVars, sessions, grpc, cookies, pc, on, phase>>

TimeoutEnd(i) ==
  /\ cb[i] = "end"
  /\ EndSession(i)
  /\ cb' = [cb EXCEPT ![i] = "remove"]
  /\ UNCHANGED <<tmVars, sessions, sessionsMtx, cookies, pc, on, phase>>

TimeoutRemove(i) ==
  /\ cb[i] = "remove"
  /\ TM!Remove(i)
  /\ cb' = [cb EXCEPT ![i] = "none"]
  /\ UNCHANGED <<sessions, sessionsMtx, sMtx, grpc, cookies, pc, on, phase>>

-----------------------------------------------------------------------------
(* The closer: handlers run on, new requests are not accepted.             *)

CloseTimers ==
  /\ Closes /\ phase = "open" /\ phase' = "noTimers"
  /\ TM!Shutdown
  /\ UNCHANGED <<sessions, sessionsMtx, sMtx, grpc, cookies, pc, on, cb>>

CloseServer ==
  /\ phase = "noTimers" /\ phase' = "closed"
  /\ UNCHANGED <<tmVars, sessions, sessionsMtx, sMtx, grpc, cookies, pc, on, cb>>

-----------------------------------------------------------------------------
HandlerStep(t) ==
  \/ CreateEntry(t) \/ CreatePanics(t)
  \/ Validate(t) \/ Unauthorized(t) \/ Rearm(t) \/ LockSession(t) \/ Serve(t)
  \/ Conflict(t) \/ DeleteEntry(t) \/ DeleteLock(t) \/ DeleteEnd(t)

TimeoutStep(i) == Timeout(i) \/ TimeoutLock(i) \/ TimeoutEnd(i) \/ TimeoutRemove(i)

ClientStep ==
  \E t \in Threads, i \in Ids :
    CreateSession(t, i) \/ Request(t, i) \/ DestroySession(t, i)

Next ==
  \/ ClientStep
  \/ \E t \in Threads : HandlerStep(t)
  \/ \E i \in Ids : Fire(i) \/ TimeoutStep(i)
  \/ CloseTimers \/ CloseServer

Spec == Init /\ [][Next]_vars

\* Goroutines run on, and those that wait for a mutex get it in the end: Go's
\* mutexes do not starve.  A timer that is left alone fires.
Fairness ==
  /\ \A t \in Threads : SF_vars(HandlerStep(t))
  /\ \A i \in Ids : SF_vars(TimeoutStep(i)) /\ WF_vars(Fire(i))

FairSpec == Spec /\ Fairness

-----------------------------------------------------------------------------
\* Every variable has its type.
TypeOK ==
  /\ TM!TypeOK
  /\ sessions \subseteq Ids /\ cookies \subseteq Ids
  /\ sessionsMtx \in Threads \cup Ids \cup {None}
  /\ sMtx \in [Ids -> Threads \cup Ids \cup {None}]
  /\ grpc \in [Ids -> {"none", "live", "ended"}]
  /\ pc \in [Threads -> {"idle", "create", "validate", "rearm", "lock", "serve",
                         "delete", "deleteLock", "deleteEnd", "panicked"}]
  /\ on \in [Threads -> Ids \cup {None}]
  /\ \A t \in Threads : on[t] = None <=> pc[t] = "idle"
  /\ cb \in [Ids -> {"none", "timeout", "lock", "end", "remove"}]
  /\ phase \in {"open", "noTimers", "closed"}

\* A request that was let in runs in a session that exists: it is in the map
\* when its entry is read without a check (rest.go:160), and the lock server
\* does not end it before the request is served, whatever DELETE or timeout
\* comes in between.
ServedInLiveSession ==
  \A t \in Threads :
    /\ pc[t] \in {"rearm", "lock"} => on[t] \in sessions
    /\ pc[t] = "serve" => grpc[on[t]] = "live" /\ sMtx[on[t]] = t

\* Who is ending session i.
Enders(i) == {t \in Threads : on[t] = i /\ pc[t] \in {"deleteLock", "deleteEnd"}}
               \cup {j \in {i} : cb[j] \in {"lock", "end"}}

\* A DELETE, a second DELETE and the timeout of one session end it once.
EndsOnce ==
  \A i \in Ids : Enders(i) # {} =>
    Cardinality(Enders(i)) = 1 /\ grpc[i] = "live" /\ i \notin sessions

\* No session is forgotten: one of the lock server's is being created, or in
\* the map, or being ended, and while the gateway is open one in the map has a
\* timer that runs, is being reset or is calling back.  Its locks would never
\* be unlocked otherwise.
SessionsWillEnd ==
  \A i \in Ids :
    /\ grpc[i] = "live" =>
         \/ i \in sessions \/ Enders(i) # {}
         \/ \E t \in Threads : pc[t] = "create" /\ on[t] = i
    /\ i \in sessions /\ phase = "open" =>
         \/ timer[i] = "armed" \/ cb[i] = "timeout"
         \/ \E t \in Threads : pc[t] = "rearm" /\ on[t] = i

\* A session that is not used any more ends, also while its own requests, those
\* of other sessions and its DELETEs wait for one another's mutexes.
IdleSessionsEnd ==
  \A i \in Ids :
    \/ (grpc[i] = "live") ~> (grpc[i] = "ended")
    \/ []<>(\E t \in Threads : pc[t] = "rearm" /\ on[t] = i)
    \/ <>(phase # "open")

\* Every request is answered: the two levels of mutexes do not deadlock.
RequestsReturn ==
  \A t \in Threads : (pc[t] # "idle") ~> (pc[t] = "idle" \/ phase # "open")
=============================================================================
