----------------------------- MODULE LockServer -----------------------------
(***************************************************************************)
(* The lock server of ldlm, src/server/server.go, composed of the lock     *)
(* manager (as specified in LockService), the session table and the lock   *)
(* timers.  The three are called one after the other with no lock held in  *)
(* between.  Lock, Unlock and Renew calls, timer callbacks, the clean-up   *)
(* after a disconnect, crashes and restarts interleave between the calls.  *)
(*                                                                         *)
(* A lock key is used for one Lock or TryLock call; for each key there is  *)
(* at most one Unlock and one Renew in progress.                           *)
(***************************************************************************)
EXTENDS Integers, Sequences, FiniteSets

CONSTANTS
  Names, Keys, Sizes, Sessions,
  None,                 \* no call, no session
  NoClearSettings,      \* settings of LockServerConfig.NoClearOnDisconnect
  Timeouts,             \* bound: do Lock calls have a lock timeout
  ReuseUnlocked,        \* bound: clients go on using a key that an Unlock
                        \* reported unlocked
  MaxCrashes            \* bound: crashes of the process

Calls == [name : Names, size : Sizes, sess : Sessions, timed : Timeouts]
Locks == [name : Names, key : Keys, size : Sizes]

ASSUME ConstantsAssumption ==
  /\ Sizes \subseteq Nat \ {0}
  /\ NoClearSettings \subseteq BOOLEAN
  /\ Timeouts \subseteq BOOLEAN /\ ReuseUnlocked \in BOOLEAN
  /\ MaxCrashes \in Nat
  /\ None \notin Calls

VARIABLES
  held, cap, queue,        \* the lock manager, see LockService
  timers, timer,           \* the lock timers, see TimerMap
  sessionLocks, file,      \* the session table, see SessionManager
  up,       \* "up"; "loading": in New; "down": crashed; "panicked": died of
            \* a panic in a handler; "failed": died of a panic in New
  noClearOnDisconnect, \* the setting, which stays
  toLoad,   \* New: the entries of the state file not yet locked
  conn,     \* conn[s]: "new", "live", "ending" (the connection is closed),
            \* "ended" (the session is deleted)
  todo,     \* DestroySession: the locks still to be unlocked
  todoTimer,\* DestroySession: the lock unlocked whose timer is to be removed
  call,     \* call[k]: the Lock or TryLock call that made k
  req,      \* req[k]: where that call is
  unl, unlSess, \* Unlock of k: where it is and the session it is from
  ren,      \* Renew of k: where it is
  cb,       \* the callback of k's timer: where it is
  acked,    \* k was returned to a client as locked
  asked,    \* the release of k was asked for (by Unlock, by its timer or
            \* by the end of its session), or New dropped it
  freed,    \* an Unlock of k returned true
  crashes

LM == INSTANCE LockService
TM == INSTANCE TimerMap
SM == INSTANCE SessionManager

lmVars   == <<held, cap, queue>>
tmVars   == <<timers, timer>>
smVars   == <<sessionLocks, file>>
loadVars == <<up, noClearOnDisconnect, toLoad, crashes>>
connVars == <<conn, todo, todoTimer>>
lockVars == <<call, req>>
opVars   == <<unl, unlSess, ren, cb>>
histVars == <<acked, asked, freed>>
vars == <<lmVars, tmVars, smVars, loadVars, connVars, lockVars, opVars, histVars>>


Init ==
  /\ LM!Init /\ TM!Init /\ SM!Init
  /\ up = "up" /\ toLoad = {} /\ crashes = 0
  /\ noClearOnDisconnect \in NoClearSettings
  /\ conn = [s \in Sessions |-> "new"]
  /\ todo = [s \in Sessions |-> {}] /\ todoTimer = [s \in Sessions |-> {}]
  /\ call = [k \in Keys |-> None] /\ req = [k \in Keys |-> "none"]
  /\ unl = [k \in Keys |-> "none"] /\ unlSess = [k \in Keys |-> None]
  /\ ren = [k \in Keys |-> "none"] /\ cb = [k \in Keys |-> "none"]
  /\ acked = {} /\ asked = {} /\ freed = {}

-----------------------------------------------------------------------------
Running == up \in {"up", "loading"}

\* Fault: name and key in the wrong order.
LockOfSwapped(k) == [name |-> k, key |-> call[k].name, size |-> call[k].size]

LockOf(k) == [name |-> call[k].name, key |-> k, size |-> call[k].size]
Held(k)   == call[k] # None /\ k \in held[call[k].name]

\* Fault: the key is not compared with the lock's keys.
MgrUnlockAnyKey(k) ==
  IF held[call[k].name] # {}
    THEN LM!Release(call[k].name, CHOOSE j \in held[call[k].name] : TRUE)
    ELSE UNCHANGED lmVars

\* lockMgr.Unlock: a key that does not hold its lock is an error.
MgrUnlock(k) == IF Held(k) THEN LM!Release(call[k].name, k) ELSE UNCHANGED lmVars

\* The process dies: only the file and what clients remember is left.
Die(cause) ==
  /\ up' = cause /\ toLoad' = {}
  /\ held'  = [n \in Names |-> {}]
  /\ cap'   = [n \in Names |-> 0]
  /\ queue' = [n \in Names |-> << >>]
  /\ timers' = {} /\ timer' = [k \in Keys |-> "none"]
  /\ sessionLocks' = SM!EmptyTable
  /\ conn' = [s \in Sessions |-> IF conn[s] = "new" THEN "new" ELSE "ended"]
  /\ todo' = [s \in Sessions |-> {}] /\ todoTimer' = [s \in Sessions |-> {}]
  /\ req' = [k \in Keys |-> IF req[k] = "none" THEN "none" ELSE "done"]
  /\ unl' = [k \in Keys |-> "none"] /\ unlSess' = [k \in Keys |-> None]
  /\ ren' = [k \in Keys |-> "none"] /\ cb' = [k \in Keys |-> "none"]
  /\ UNCHANGED <<noClearOnDisconnect, file, call, acked, asked, freed>>

-----------------------------------------------------------------------------
(* Sessions: one per gRPC connection.                                      *)

Connect(s) ==
  /\ up = "up" /\ conn[s] = "new"
  /\ SM!CreateSession(s)
  /\ conn' = [conn EXCEPT ![s] = "live"]
  /\ UNCHANGED <<lmVars, tmVars, loadVars, todo, todoTimer, lockVars, opVars, histVars>>

\* The connection closes.  Handlers that are running go on.
Disconnect(s) ==
  /\ up = "up" /\ conn[s] = "live"
  /\ conn' = [conn EXCEPT ![s] = "ending"]
  /\ UNCHANGED <<lmVars, tmVars, smVars, loadVars, todo, todoTimer, lockVars, opVars, histVars>>

DestroyRecords(s) ==
  /\ up = "up" /\ conn[s] = "ending"
  /\ SM!DestroySession(s)
  /\ conn' = [conn EXCEPT ![s] = "ended"]
  /\ IF noClearOnDisconnect
       THEN UNCHANGED <<todo, asked>>
       ELSE /\ todo'  = [todo EXCEPT ![s] = SM!LocksOf(s)]
            /\ asked' = asked \cup {l.key : l \in SM!LocksOf(s)}
  /\ UNCHANGED <<lmVars, tmVars, loadVars, todoTimer, lockVars, opVars, acked, freed>>

\* A lock that was released already keeps its timer.
DestroyUnlock(s, l) ==
  /\ l \in todo[s] /\ todoTimer[s] = {}
  /\ MgrUnlock(l.key)
  /\ todo'      = [todo EXCEPT ![s] = @ \ {l}]
  /\ todoTimer' = [todoTimer EXCEPT ![s] = IF Held(l.key) THEN {l} ELSE {}]
  /\ UNCHANGED <<tmVars, smVars, loadVars, conn, lockVars, opVars, histVars>>

DestroyTimer(s, l) ==
  /\ l \in todoTimer[s]
  /\ TM!Remove(l.key)
  /\ todoTimer' = [todoTimer EXCEPT ![s] = {}]
  /\ UNCHANGED <<lmVars, smVars, loadVars, conn, todo, lockVars, opVars, histVars>>

-----------------------------------------------------------------------------
(* Lock and TryLock.  A TryLock that fails, and a call that is refused,    *)
(* leave no trace.                                                         *)

LockCall(k, c) ==
  /\ up = "up" /\ conn[c.sess] = "live" /\ req[k] = "none"
  /\ call' = [call EXCEPT ![k] = c]
  /\ \/ LM!Grant(c.name, k, c.size) /\ req' = [req EXCEPT ![k] = "granted"]
     \/ LM!Wait(c.name, k, c.size) /\ req' = [req EXCEPT ![k] = "waiting"]
  /\ UNCHANGED <<tmVars, smVars, loadVars, connVars, opVars, histVars>>

\* The context of a waiting Lock is done: its connection has closed or the
\* wait timeout has passed.  A slot it was given meanwhile goes back.
GiveUp(k) ==
  /\ req[k] = "waiting"
  /\ \/ Held(k) /\ LM!Release(call[k].name, k)
     \/ LM!Abandon(call[k].name, k)
  /\ req' = [req EXCEPT ![k] = "done"]
  /\ UNCHANGED <<tmVars, smVars, loadVars, connVars, call, opVars, histVars>>

\* The answer gets to the client if the connection is still open.
Answer(k) ==
  /\ req'   = [req EXCEPT ![k] = "done"]
  /\ acked' = IF conn[call[k].sess] = "live" THEN acked \cup {k} ELSE acked

AddLock(k) ==
  /\ req[k] = "granted" \/ (req[k] = "waiting" /\ Held(k))
  /\ SM!AddLock(call[k].sess, LockOf(k))
  /\ IF call[k].timed THEN req' = [req EXCEPT ![k] = "added"] /\ UNCHANGED acked
                      ELSE Answer(k)
  /\ UNCHANGED <<lmVars, tmVars, loadVars, connVars, call, opVars, asked, freed>>

AddTimer(k) ==
  /\ req[k] = "added"
  /\ TM!Add(k)
  /\ Answer(k)
  /\ UNCHANGED <<lmVars, smVars, loadVars, connVars, call, opVars, asked, freed>>

\* The keys clients may ask something of.
Known == IF ReuseUnlocked THEN acked ELSE acked \ freed

-----------------------------------------------------------------------------
(* Unlock.  Any client that knows the key may call it, from any session.   *)

UnlockCall(k, s) ==
  /\ up = "up" /\ conn[s] = "live" /\ k \in Known /\ unl[k] = "none"
  /\ unl'     = [unl EXCEPT ![k] = "timer"]
  /\ unlSess' = [unlSess EXCEPT ![k] = s]
  /\ asked'   = asked \cup {k}
  /\ UNCHANGED <<lmVars, tmVars, smVars, loadVars, connVars, lockVars, ren, cb, acked, freed>>

UnlockTimer(k) ==
  /\ unl[k] = "timer"
  /\ TM!Remove(k)
  /\ unl' = [unl EXCEPT ![k] = IF TM!Stopped(k) THEN "mgr" ELSE "remove"]
  /\ UNCHANGED <<lmVars, smVars, loadVars, connVars, lockVars, unlSess, ren, cb, histVars>>

UnlockMgr(k) ==
  /\ unl[k] = "mgr"
  /\ MgrUnlock(k)
  /\ unl'     = [unl EXCEPT ![k] = IF Held(k) THEN "remove" ELSE "none"]
  /\ unlSess' = [unlSess EXCEPT ![k] = IF Held(k) THEN @ ELSE None]
  /\ UNCHANGED <<tmVars, smVars, loadVars, connVars, lockVars, ren, cb, histVars>>

UnlockRemove(k) ==
  /\ unl[k] = "remove" /\ SM!HasEntry(unlSess[k])
  /\ SM!RemoveLock(unlSess[k], LockOf(k))
  /\ unl'     = [unl EXCEPT ![k] = "none"]
  /\ unlSess' = [unlSess EXCEPT ![k] = None]
  /\ freed'   = freed \cup {k}
  /\ UNCHANGED <<lmVars, tmVars, loadVars, connVars, lockVars, ren, cb, acked, asked>>

\* RemoveLock panics in a gRPC handler, where nobody recovers.
UnlockPanics(k) ==
  /\ unl[k] = "remove" /\ ~SM!HasEntry(unlSess[k])
  /\ Die("panicked") /\ UNCHANGED crashes

-----------------------------------------------------------------------------
(* Renew: no session is asked for.                                         *)

RenewCall(k) ==
  /\ up = "up" /\ k \in Known /\ ren[k] = "none" /\ TM!LookUp(k)
  /\ ren' = [ren EXCEPT ![k] = "stop"]
  /\ UNCHANGED <<lmVars, tmVars, smVars, loadVars, connVars, lockVars, unl, unlSess, cb, histVars>>

RenewStop(k) ==
  /\ ren[k] = "stop"
  /\ IF timer[k] = "armed"
       THEN TM!ResetStop(k) /\ ren' = [ren EXCEPT ![k] = "arm"]
       ELSE ren' = [ren EXCEPT ![k] = "none"] /\ UNCHANGED tmVars
  /\ UNCHANGED <<lmVars, smVars, loadVars, connVars, lockVars, unl, unlSess, cb, histVars>>

\* Fault: a timer that was removed meanwhile is not started again.
RenewArmChecked(k) ==
  /\ ren[k] = "arm"
  /\ IF TM!LookUp(k) THEN TM!ResetArm(k) ELSE UNCHANGED tmVars
  /\ ren' = [ren EXCEPT ![k] = "none"]
  /\ UNCHANGED <<lmVars, smVars, loadVars, connVars, lockVars, unl, unlSess, cb, histVars>>

RenewArm(k) ==
  /\ ren[k] = "arm"
  /\ TM!ResetArm(k)
  /\ ren' = [ren EXCEPT ![k] = "none"]
  /\ UNCHANGED <<lmVars, smVars, loadVars, connVars, lockVars, unl, unlSess, cb, histVars>>

-----------------------------------------------------------------------------
(* The lock timeout: onTimeoutFunc in a goroutine of its own, then the     *)
(* removal of the timer.                                                   *)

Fire(k) ==
  /\ TM!Fire(k)
  /\ cb'    = [cb EXCEPT ![k] = "unlock"]
  /\ asked' = asked \cup {k}
  /\ UNCHANGED <<lmVars, smVars, loadVars, connVars, lockVars, unl, unlSess, ren, acked, freed>>

CallbackUnlock(k) ==
  /\ cb[k] = "unlock"
  /\ MgrUnlock(k)
  /\ cb' = [cb EXCEPT ![k] = "record"]
  /\ UNCHANGED <<tmVars, smVars, loadVars, connVars, lockVars, unl, unlSess, ren, histVars>>

\* Here the panic of RemoveLock is recovered.
CallbackRecord(k) ==
  /\ cb[k] = "record"
  /\ \/ SM!RemoveLock(call[k].sess, LockOf(k))
     \/ ~SM!HasEntry(call[k].sess) /\ UNCHANGED smVars
  /\ cb' = [cb EXCEPT ![k] = "timer"]
  /\ UNCHANGED <<lmVars, tmVars, loadVars, connVars, lockVars, unl, unlSess, ren, histVars>>

CallbackTimer(k) ==
  /\ cb[k] = "timer"
  /\ TM!Remove(k)
  /\ cb' = [cb EXCEPT ![k] = "none"]
  /\ UNCHANGED <<lmVars, smVars, loadVars, connVars, lockVars, unl, unlSess, ren, histVars>>

-----------------------------------------------------------------------------
(* Crashes, and New, which locks what the state file says is locked.       *)

Crash ==
  /\ Running /\ crashes < MaxCrashes
  /\ crashes' = crashes + 1
  /\ Die("down")

Restart ==
  /\ up \in {"down", "panicked"}
  /\ SM!Load
  /\ up' = "loading"
  /\ toLoad' = UNION {{s} \X file[s] : s \in DOMAIN file}
  /\ UNCHANGED <<lmVars, tmVars, noClearOnDisconnect, crashes, connVars, lockVars, opVars, histVars>>

\* Fault: a loaded lock gets no timer.
LoadLockUntimed(s, l) ==
  /\ up = "loading" /\ <<s, l>> \in toLoad
  /\ LM!Grant(l.name, l.key, l.size)
  /\ toLoad' = toLoad \ {<<s, l>>}
  /\ UNCHANGED <<tmVars, smVars, up, noClearOnDisconnect, crashes, connVars, lockVars, opVars, histVars>>

\* A loaded lock gets a timer with the default lock timeout.  One that has
\* another size than a lock of that name loaded before is dropped.
LoadLock(s, l) ==
  /\ up = "loading" /\ <<s, l>> \in toLoad
  /\ \/ /\ LM!Grant(l.name, l.key, l.size)
        /\ TM!Add(l.key)
        /\ UNCHANGED <<smVars, asked>>
     \/ /\ ~LM!Fits(l.name, l.size)
        /\ SM!RemoveLock(s, l)
        /\ asked' = asked \cup {l.key}
        /\ UNCHANGED <<lmVars, tmVars>>
  /\ toLoad' = toLoad \ {<<s, l>>}
  /\ UNCHANGED <<up, noClearOnDisconnect, crashes, connVars, lockVars, opVars, acked, freed>>

\* No slot is free: TryLock returns false without an error, and the log
\* entry calls Error() on that nil error.
LoadPanics(s, l) ==
  /\ up = "loading" /\ <<s, l>> \in toLoad
  /\ LM!Fits(l.name, l.size) /\ ~LM!Free(l.name, l.size)
  /\ Die("failed") /\ UNCHANGED crashes

\* Fault: the server takes calls while it loads.
LoadDoneEarly ==
  /\ up = "loading"
  /\ up' = "up"
  /\ UNCHANGED <<lmVars, tmVars, smVars, noClearOnDisconnect, toLoad, crashes, connVars, lockVars, opVars, histVars>>

LoadDone ==
  /\ up = "loading" /\ toLoad = {}
  /\ up' = "up"
  /\ UNCHANGED <<lmVars, tmVars, smVars, noClearOnDisconnect, toLoad, crashes, connVars, lockVars, opVars, histVars>>

-----------------------------------------------------------------------------
\* What the server does by itself once a call has come in.
ServerStep(k) ==
  \/ AddLock(k) \/ AddTimer(k)
  \/ UnlockTimer(k) \/ UnlockMgr(k) \/ UnlockRemove(k) \/ UnlockPanics(k)
  \/ RenewStop(k) \/ RenewArm(k)
  \/ Fire(k) \/ CallbackUnlock(k) \/ CallbackRecord(k) \/ CallbackTimer(k)

SessionStep(s) ==
  \/ DestroyRecords(s)
  \/ \E l \in todo[s] : DestroyUnlock(s, l)
  \/ \E l \in todoTimer[s] : DestroyTimer(s, l)

LoadStep ==
  \/ \E p \in toLoad : LoadLock(p[1], p[2]) \/ LoadPanics(p[1], p[2])
  \/ LoadDone

ClientStep ==
  \/ \E k \in Keys, c \in Calls : LockCall(k, c)
  \/ \E k \in Keys : GiveUp(k) \/ RenewCall(k)
  \/ \E k \in Keys, s \in Sessions : UnlockCall(k, s)
  \/ \E s \in Sessions : Connect(s) \/ Disconnect(s)

Next ==
  \/ ClientStep
  \/ \E k \in Keys : ServerStep(k)
  \/ \E s \in Sessions : SessionStep(s)
  \/ LoadStep
  \/ Crash
  \/ Restart

Spec == Init /\ [][Next]_vars

\* Goroutines run on and a timer that is left alone fires.  Nothing makes a
\* client call anything or give up, and nobody need restart the server.
Fairness ==
  /\ \A k \in Keys :
       /\ WF_vars(AddLock(k)) /\ WF_vars(AddTimer(k))
       /\ WF_vars(UnlockTimer(k)) /\ WF_vars(UnlockMgr(k))
       /\ WF_vars(UnlockRemove(k) \/ UnlockPanics(k))
       /\ WF_vars(RenewStop(k)) /\ WF_vars(RenewArm(k))
       /\ WF_vars(Fire(k))
       /\ WF_vars(CallbackUnlock(k)) /\ WF_vars(CallbackRecord(k))
       /\ WF_vars(CallbackTimer(k))
  /\ \A s \in Sessions : WF_vars(SessionStep(s))
  /\ WF_vars(LoadStep)

FairSpec == Spec /\ Fairness

-----------------------------------------------------------------------------
\* Every variable has its type.
TypeOK ==
  /\ held \in [Names -> SUBSET Keys] /\ cap \in [Names -> Sizes \cup {0}]
  /\ \A n \in Names : LM!IsInjective(queue[n]) /\ LM!ToSet(queue[n]) \subseteq Keys
  /\ TM!TypeOK /\ SM!TypeOK
  /\ up \in {"up", "loading", "down", "panicked", "failed"}
  /\ noClearOnDisconnect \in BOOLEAN
  /\ toLoad \subseteq Sessions \X Locks
  /\ conn \in [Sessions -> {"new", "live", "ending", "ended"}]
  /\ todo \in [Sessions -> SUBSET Locks] /\ todoTimer \in [Sessions -> SUBSET Locks]
  /\ call \in [Keys -> Calls \cup {None}]
  /\ req \in [Keys -> {"none", "waiting", "granted", "added", "done"}]
  /\ unl \in [Keys -> {"none", "timer", "mgr", "remove"}]
  /\ unlSess \in [Keys -> Sessions \cup {None}]
  /\ ren \in [Keys -> {"none", "stop", "arm"}]
  /\ cb \in [Keys -> {"none", "unlock", "record", "timer"}]
  /\ acked \subseteq Keys /\ asked \subseteq Keys /\ freed \subseteq Keys
  /\ crashes \in 0..MaxCrashes

Recorded(k) == LockOf(k) \in SM!LocksOf(call[k].sess)
InFile(k)   == call[k].sess \in DOMAIN file /\ LockOf(k) \in file[call[k].sess]

\* A lock that a client was told it holds, and whose release was not asked
\* for since (by Unlock, by its timeout or by the end of its session), is
\* held, is in the session table and is in the state file, also when the
\* server has crashed and started again in between (unless New dropped it for
\* a lock of another size, which server.go:96-103 accepts).
KeptUntilReleased ==
  \A k \in acked \ asked :
    /\ InFile(k)
    /\ Running => Recorded(k)
    /\ up = "up" => Held(k)

\* No two clients believe in the same lock: those who were told that they
\* hold it and have no reason to think otherwise are never more than its size.
\* The claim spans the calls of several clients, crashes and restarts.
ClientsExclude ==
  \A k \in acked \ asked :
    Cardinality({j \in acked \ asked : call[j].name = call[k].name}) <= call[k].size

\* Without NoClearOnDisconnect a slot is never lost: whoever holds one has a
\* request in progress, or is in the session table, or is about to be unlocked
\* by the clean-up of its session, or has a timer that is armed, is being
\* renewed or is calling back.  Nothing else would ever unlock it.
NoOrphan ==
  ~noClearOnDisconnect =>
    \A k \in Keys : Held(k) =>
      \/ req[k] \in {"waiting", "granted"}
      \/ Recorded(k)
      \/ LockOf(k) \in todo[call[k].sess]
      \/ timer[k] = "armed" \/ ren[k] = "arm" \/ cb[k] = "unlock"

\* A lock with a timeout does not stay held for ever, however its calls,
\* callbacks and clean-ups interleave, unless its client keeps renewing it.
TimedLocksEnd ==
  \A k \in Keys :
    \/ (Held(k) /\ call[k].timed) ~> ~Held(k)
    \/ []<>(ren[k] # "none")

\* A key gives its slot up because that was asked for, because the waiter that
\* was just handed it gave up, or because the process died: no clean-up,
\* callback or Unlock of one key releases another.
OnlyAskedReleases ==
  [][\A k \in Keys : Held(k) =>
       \/ Held(k)' \/ k \in asked \/ ~Running'
       \/ (req[k] = "waiting" /\ req'[k] = "done")]_vars

-----------------------------------------------------------------------------
(* A statement of the code that does not hold.                             *)

\* session.go:98: whoever removes a lock has a session entry.  server.go:456-457
\* knows the exception of the timer, which recovers; Unlock has none.
NoHandlerPanic == up # "panicked"
=============================================================================
