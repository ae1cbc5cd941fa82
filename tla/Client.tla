------------------------------- MODULE Client -------------------------------
(***************************************************************************)
(* The client library, src/client/client.go: calls that are repeated when  *)
(* the server cannot be reached, and one goroutine per lock with a timeout *)
(* that renews it (a renewer), which Unlock and Close stop over a channel. *)
(* The goroutine that renews key k is called k.                            *)
(*                                                                         *)
(* The server is abstracted to what it holds for this client: it grants a  *)
(* lock to a fresh key, and drops it when it is unlocked, when its timeout *)
(* passes or when the connection it was locked over has broken.  Lock and  *)
(* TryLock differ only in that the server refuses the one at once.         *)
(*                                                                         *)
(* Auto-renewal is on.  TLS and the conversion of errors are left out: an  *)
(* error is an error.                                                      *)
(***************************************************************************)
EXTENDS Naturals, FiniteSets

CONSTANTS
  Names, Keys, Threads,  \* lock names, lock keys, goroutines of the program
  None,                  \* no key, no name
  MaxRetries,            \* Config.MaxRetries
  Scenarios,             \* bound: the sets of events that meet in a behaviour
  MaxBreaks              \* bound: breaks of the connection

\* "late": the renewal interval is not shorter than the lock timeouts; "break":
\* the connection breaks; "cancel": the program cancels Client.ctx; "close": it
\* calls Close; "untimed": it takes locks without a timeout, too.
Events == {"late", "break", "cancel", "close", "untimed"}

ASSUME ClientAssumption ==
  /\ MaxRetries \in Nat /\ MaxBreaks \in Nat
  /\ Scenarios \subseteq SUBSET Events
  /\ None \notin Names \cup Keys \cup {"ok"} /\ Threads \cap Keys = {}

VARIABLES
  held,      \* the server: the keys that hold their lock
  expiring,  \* the server: those whose timer has fired
  nameOf, timed, \* the name a key was granted for; the keys with a timeout
  conn,      \* "up", "down", "closed"
  ctxDone,   \* Client.ctx is done
  scenario,  \* which of Scenarios this is
  op, pc,    \* what a thread calls and where it is
  arg,       \* the name, key and timeout it calls with
  target,    \* the renewer that Stop is called for
  seen,      \* Close: the renewers stopped
  rpc,       \* the RPC of a thread or renewer: "none", "sent", "answered",
             \* "unavailable" (until it is repeated), "failed"
  ans,       \* its answer: a key, None (not locked, an error) or "ok"
  tries,     \* rpcWithRetry: the retries made
  renewer,   \* renewer[k]: "none", "begin", "select", "renew", "stopping",
             \* "done" (its channel is closed)
  renewMap,  \* Client.renewMap
  dead,      \* the panic that ended the program, or "no"
  acked,     \* what the program holds as far as it knows
  broken,    \* history: keys locked over a connection that has ended
  lost,      \* history: keys the server dropped without being asked
  missed,    \* history: renewers that Stop did not reach
  breaks

srvVars  == <<held, expiring, nameOf, timed>>
envVars  == <<conn, ctxDone, scenario, breaks, broken>>
appVars  == <<op, pc, arg, target, seen>>
rpcVars  == <<rpc, ans, tries>>
renVars  == <<renewer, renewMap>>
histVars == <<acked, lost, missed>>
vars == <<srvVars, envVars, appVars, rpcVars, renVars, histVars, dead>>

Procs == Threads \cup Keys

\* The renewer of k has not been stopped.
Renews(k) == renewer[k] \in {"begin", "select", "renew"}

Init ==
  /\ held = {} /\ expiring = {} /\ timed = {}
  /\ nameOf = [k \in Keys |-> None]
  /\ conn = "up" /\ ctxDone = FALSE /\ breaks = 0
  /\ scenario \in Scenarios
  /\ op = [t \in Threads |-> "none"] /\ pc = [t \in Threads |-> "idle"]
  /\ arg = [t \in Threads |-> None] /\ target = [t \in Threads |-> None]
  /\ seen = [t \in Threads |-> {}]
  /\ rpc = [p \in Procs |-> "none"] /\ ans = [p \in Procs |-> None]
  /\ tries = [p \in Procs |-> 0]
  /\ renewer = [k \in Keys |-> "none"] /\ renewMap = [n \in Names |-> None]
  /\ dead = "no"
  /\ acked = {} /\ broken = {} /\ lost = {} /\ missed = {}

Alive == dead = "no"

-----------------------------------------------------------------------------
(* RPCs and their repetition.                                              *)

\* How an RPC begins: a context that is done and a closed connection are
\* errors that are not repeated.
Attempt == IF ctxDone \/ conn = "closed" THEN "failed"
           ELSE IF conn = "up" THEN "sent" ELSE "unavailable"

StartRpc(p) ==
  /\ rpc'   = [rpc EXCEPT ![p] = Attempt]
  /\ tries' = [tries EXCEPT ![p] = 0]
  /\ ans'   = [ans EXCEPT ![p] = None]

EndRpc(p) ==
  /\ rpc'   = [rpc EXCEPT ![p] = "none"]
  /\ tries' = [tries EXCEPT ![p] = 0]
  /\ ans'   = [ans EXCEPT ![p] = None]

\* Fault: the retries are not counted.
RetryUncounted(p) ==
  /\ Alive /\ rpc[p] = "unavailable"
  /\ rpc' = [rpc EXCEPT ![p] = Attempt]
  /\ UNCHANGED <<srvVars, envVars, appVars, tries, ans, renVars, histVars, dead>>

\* Fault: one retry too many.
RetryOneMore(p) ==
  /\ Alive /\ rpc[p] = "unavailable"
  /\ IF tries[p] <= MaxRetries
       THEN rpc' = [rpc EXCEPT ![p] = Attempt] /\ tries' = [tries EXCEPT ![p] = @ + 1]
       ELSE rpc' = [rpc EXCEPT ![p] = "failed"] /\ tries' = [tries EXCEPT ![p] = 0]
  /\ UNCHANGED <<srvVars, envVars, appVars, ans, renVars, histVars, dead>>

\* rpcWithRetry: an unavailable server is tried again after a delay, which
\* neither the context nor a Close cuts short.
Retry(p) ==
  /\ Alive /\ rpc[p] = "unavailable"
  /\ IF tries[p] < MaxRetries
       THEN rpc' = [rpc EXCEPT ![p] = Attempt] /\ tries' = [tries EXCEPT ![p] = @ + 1]
       ELSE rpc' = [rpc EXCEPT ![p] = "failed"] /\ tries' = [tries EXCEPT ![p] = 0]
  /\ UNCHANGED <<srvVars, envVars, appVars, ans, renVars, histVars, dead>>

-----------------------------------------------------------------------------
(* The server.                                                             *)

Answer(p, a) ==
  /\ rpc' = [rpc EXCEPT ![p] = "answered"]
  /\ ans' = [ans EXCEPT ![p] = a]
  /\ UNCHANGED <<envVars, appVars, tries, renVars, dead>>

Holders(n) == {k \in held : nameOf[k] = n}

Fresh == {k \in Keys : nameOf[k] = None}

\* Which fresh key it is makes no difference.
ServeLock(t) ==
  /\ rpc[t] = "sent" /\ op[t] = "lock"
  /\ Fresh # {} /\ Holders(arg[t].name) = {}
  /\ LET k == CHOOSE k \in Fresh : TRUE IN
       /\ nameOf' = [nameOf EXCEPT ![k] = arg[t].name]
       /\ timed'  = IF arg[t].timed THEN timed \cup {k} ELSE timed
       /\ held'   = held \cup {k}
       /\ Answer(t, k)
  /\ UNCHANGED <<expiring, histVars>>

\* A TryLock, or a Lock whose wait timeout passes.
RefuseLock(t) ==
  /\ rpc[t] = "sent" /\ op[t] = "lock" /\ Holders(arg[t].name) # {}
  /\ Answer(t, None)
  /\ UNCHANGED <<srvVars, histVars>>

\* A key that is not held any more, as when the call is repeated, is an error.
ServeUnlock(t) ==
  /\ rpc[t] = "sent" /\ op[t] = "unlock"
  /\ held' = held \ {arg[t].key} /\ expiring' = expiring \ {arg[t].key}
  /\ Answer(t, IF arg[t].key \in held THEN "ok" ELSE None)
  /\ UNCHANGED <<nameOf, timed, histVars>>

\* A timer that has just fired is not an error, though it is not renewed.
ServeRenew(k) ==
  /\ rpc[k] = "sent"
  /\ Answer(k, IF k \in held THEN "ok" ELSE None)
  /\ UNCHANGED <<srvVars, histVars>>

\* If renewals are in time, the timer of a lock fires only when its renewer
\* has ended or cannot reach the server.  A lock whose connection has broken is
\* dropped anyway.
Renewing(k) ==
  \/ Renews(k) /\ rpc[k] \in {"none", "sent", "answered"}
  \/ \E t \in Threads : rpc[t] = "answered" /\ ans[t] = k

Fire(k) ==
  /\ k \in (held \cap timed) \ (expiring \cup broken)
  /\ "late" \notin scenario => ~Renewing(k)
  /\ expiring' = expiring \cup {k}
  /\ UNCHANGED <<held, nameOf, timed, envVars, appVars, rpcVars, renVars, histVars, dead>>

\* The server unlocks after the timeout, or at the end of the session.
Drop(k) ==
  /\ k \in held /\ k \in expiring \cup broken
  /\ held' = held \ {k} /\ expiring' = expiring \ {k}
  /\ lost' = lost \cup {k}
  /\ UNCHANGED <<nameOf, timed, envVars, appVars, rpcVars, renVars, acked, missed, dead>>

-----------------------------------------------------------------------------
(* The connection and the context.                                         *)

\* The answer of an RPC in flight is lost, whether it was carried out or not.
InFlight(result) ==
  LET lostAnswer(p) == rpc[p] \in {"sent", "answered"} IN
  /\ rpc' = [p \in Procs |-> IF lostAnswer(p) THEN result ELSE rpc[p]]
  /\ ans' = [p \in Procs |-> IF lostAnswer(p) THEN None ELSE ans[p]]

Break ==
  /\ Alive /\ conn = "up" /\ "break" \in scenario /\ breaks < MaxBreaks
  /\ conn' = "down" /\ breaks' = breaks + 1
  /\ broken' = broken \cup held
  /\ InFlight("unavailable")
  /\ UNCHANGED <<srvVars, ctxDone, scenario, appVars, tries, renVars, histVars, dead>>

Reconnect ==
  /\ Alive /\ conn = "down" /\ conn' = "up"
  /\ UNCHANGED <<srvVars, ctxDone, scenario, breaks, broken, appVars, rpcVars, renVars, histVars, dead>>

CancelCtx ==
  /\ Alive /\ ~ctxDone /\ "cancel" \in scenario /\ ctxDone' = TRUE
  /\ InFlight("failed")
  /\ UNCHANGED <<srvVars, conn, scenario, breaks, broken, appVars, tries, renVars, histVars, dead>>

-----------------------------------------------------------------------------
(* Lock and TryLock.                                                       *)

LockCall(t, n, w) ==
  /\ Alive /\ pc[t] = "idle"
  /\ w \/ "untimed" \in scenario
  /\ op'  = [op EXCEPT ![t] = "lock"] /\ pc' = [pc EXCEPT ![t] = "rpc"]
  /\ arg' = [arg EXCEPT ![t] = [name |-> n, key |-> None, timed |-> w]]
  /\ StartRpc(t)
  /\ UNCHANGED <<srvVars, envVars, target, seen, renVars, histVars, dead>>

Return(t) ==
  /\ op'  = [op EXCEPT ![t] = "none"] /\ pc' = [pc EXCEPT ![t] = "idle"]
  /\ arg' = [arg EXCEPT ![t] = None] /\ target' = [target EXCEPT ![t] = None]
  /\ seen' = [seen EXCEPT ![t] = {}]

\* maybeCreateRenewer.  The renewer is started before the map is looked at.
CreateRenewer(k) ==
  /\ renewer' = [renewer EXCEPT ![k] = "begin"]
  /\ IF renewMap[nameOf[k]] = None
       THEN renewMap' = [renewMap EXCEPT ![nameOf[k]] = k] /\ UNCHANGED dead
       ELSE dead' = "outOfSync" /\ UNCHANGED renewMap

\* A program that gets a lock again forgets that it had it.
LockReturns(t) ==
  /\ Alive /\ op[t] = "lock" /\ rpc[t] = "answered" /\ ans[t] # None
  /\ IF arg[t].timed THEN CreateRenewer(ans[t]) ELSE UNCHANGED <<renVars, dead>>
  /\ acked' = {k \in acked : nameOf[k] # arg[t].name} \cup {ans[t]}
  /\ Return(t) /\ EndRpc(t)
  /\ UNCHANGED <<srvVars, envVars, lost, missed>>

LockFails(t) ==
  /\ Alive /\ op[t] = "lock"
  /\ rpc[t] = "failed" \/ (rpc[t] = "answered" /\ ans[t] = None)
  /\ Return(t) /\ EndRpc(t)
  /\ UNCHANGED <<srvVars, envVars, renVars, histVars, dead>>

-----------------------------------------------------------------------------
(* Unlock: the renewer is removed and stopped, then the server is called.  *)

\* Fault: the renewer stays until the server has answered.
UnlockCallFirst(t, k) ==
  /\ Alive /\ pc[t] = "idle" /\ k \in acked
  /\ acked' = acked \ {k}
  /\ op'  = [op EXCEPT ![t] = "unlock"]
  /\ arg' = [arg EXCEPT ![t] = [name |-> nameOf[k], key |-> k, timed |-> FALSE]]
  /\ pc'  = [pc EXCEPT ![t] = "rpc"]
  /\ StartRpc(t)
  /\ UNCHANGED <<srvVars, envVars, target, seen, renVars, lost, missed, dead>>

UnlockCall(t, k) ==
  /\ Alive /\ pc[t] = "idle" /\ k \in acked
  /\ acked' = acked \ {k}
  /\ op'  = [op EXCEPT ![t] = "unlock"]
  /\ arg' = [arg EXCEPT ![t] = [name |-> nameOf[k], key |-> k, timed |-> FALSE]]
  /\ target'   = [target EXCEPT ![t] = renewMap[nameOf[k]]]
  /\ renewMap' = [renewMap EXCEPT ![nameOf[k]] = None]
  /\ IF renewMap[nameOf[k]] = None
       THEN pc' = [pc EXCEPT ![t] = "rpc"] /\ StartRpc(t)
       ELSE pc' = [pc EXCEPT ![t] = "stop"] /\ UNCHANGED rpcVars
  /\ UNCHANGED <<srvVars, envVars, seen, renewer, lost, missed, dead>>

UnlockReturns(t) ==
  /\ Alive /\ op[t] = "unlock" /\ rpc[t] \in {"answered", "failed"}
  /\ Return(t) /\ EndRpc(t)
  /\ UNCHANGED <<srvVars, envVars, renVars, histVars, dead>>

-----------------------------------------------------------------------------
(* Stop.                                                                   *)

\* What the caller of Stop does next.
AfterStop(t) == IF op[t] = "unlock" THEN "rpc" ELSE "close"

Stopped(t) == IF op[t] = "unlock" THEN StartRpc(t) ELSE UNCHANGED rpcVars

\* The renewer, or else another caller of Stop, receives what is sent.
StopSends(t) ==
  /\ Alive /\ pc[t] = "stop"
  /\ renewer[target[t]] = "select"
  /\ renewer' = [renewer EXCEPT ![target[t]] = "stopping"]
  /\ pc' = [pc EXCEPT ![t] = "receive"]
  /\ UNCHANGED <<srvVars, envVars, op, arg, target, seen, rpcVars, renewMap, histVars, dead>>

StopMeetsStop(t, u) ==
  /\ Alive /\ pc[t] = "stop" /\ pc[u] = "receive" /\ target[u] = target[t]
  /\ renewer[target[t]] = "stopping"
  /\ pc' = [pc EXCEPT ![t] = "receive", ![u] = AfterStop(u)]
  /\ Stopped(u)
  /\ UNCHANGED <<srvVars, envVars, op, arg, target, seen, renVars, histVars, dead>>

\* Fault: a renewer that cannot receive at once is waited for no more, and no
\* other is told to stop.
StopNever(t) ==
  /\ Alive /\ pc[t] = "stop"
  /\ pc' = [pc EXCEPT ![t] = AfterStop(t)]
  /\ Stopped(t)
  /\ UNCHANGED <<srvVars, envVars, op, arg, target, seen, renVars, histVars, dead>>

\* Nobody receives: the renewer has not come to its select, or is in Renew, or
\* another Stop has just sent.  Stop gives up.
StopMisses(t) ==
  /\ Alive /\ pc[t] = "stop" /\ renewer[target[t]] \in {"begin", "renew", "stopping"}
  /\ missed' = missed \cup {target[t]}
  /\ pc' = [pc EXCEPT ![t] = AfterStop(t)]
  /\ Stopped(t)
  /\ UNCHANGED <<srvVars, envVars, op, arg, target, seen, renVars, acked, lost, dead>>

\* The channel is closed.
StopPanics(t) ==
  /\ Alive /\ pc[t] = "stop" /\ renewer[target[t]] = "done"
  /\ dead' = "closedChannel"
  /\ UNCHANGED <<srvVars, envVars, appVars, rpcVars, renVars, histVars>>

StopReturns(t) ==
  /\ Alive /\ pc[t] = "receive" /\ renewer[target[t]] = "done"
  /\ pc' = [pc EXCEPT ![t] = AfterStop(t)]
  /\ Stopped(t)
  /\ UNCHANGED <<srvVars, envVars, op, arg, target, seen, renVars, histVars, dead>>

-----------------------------------------------------------------------------
(* Close: the renewers are stopped but stay in the map.                    *)

CloseCall(t) ==
  /\ Alive /\ pc[t] = "idle" /\ conn # "closed" /\ "close" \in scenario
  /\ op' = [op EXCEPT ![t] = "close"] /\ pc' = [pc EXCEPT ![t] = "close"]
  /\ UNCHANGED <<srvVars, envVars, arg, target, seen, rpcVars, renVars, histVars, dead>>

InMap == {renewMap[n] : n \in Names} \ {None}

CloseNext(t, k) ==
  /\ Alive /\ pc[t] = "close" /\ k \in InMap \ seen[t]
  /\ pc'     = [pc EXCEPT ![t] = "stop"]
  /\ target' = [target EXCEPT ![t] = k]
  /\ seen'   = [seen EXCEPT ![t] = @ \cup {k}]
  /\ UNCHANGED <<srvVars, envVars, op, arg, rpcVars, renVars, histVars, dead>>

CloseConn(t) ==
  /\ Alive /\ pc[t] = "close" /\ InMap \subseteq seen[t]
  /\ conn' = "closed" /\ broken' = broken \cup held
  /\ Return(t)
  /\ InFlight("failed")
  /\ UNCHANGED <<srvVars, ctxDone, scenario, breaks, tries, renVars, histVars, dead>>

-----------------------------------------------------------------------------
(* The renewers.                                                           *)

RenewerBegins(k) ==
  /\ Alive /\ renewer[k] = "begin"
  /\ renewer' = [renewer EXCEPT ![k] = "select"]
  /\ UNCHANGED <<srvVars, envVars, appVars, rpcVars, renewMap, histVars, dead>>

RenewStarts(k) ==
  /\ Alive /\ renewer[k] = "select"
  /\ renewer' = [renewer EXCEPT ![k] = "renew"]
  /\ StartRpc(k)
  /\ UNCHANGED <<srvVars, envVars, appVars, renewMap, histVars, dead>>

\* Fault: the renewer renews once and returns.
RenewOnce(k) ==
  /\ Alive /\ renewer[k] = "renew" /\ rpc[k] = "answered" /\ ans[k] = "ok"
  /\ renewer' = [renewer EXCEPT ![k] = "done"]
  /\ EndRpc(k)
  /\ UNCHANGED <<srvVars, envVars, appVars, renewMap, histVars, dead>>

\* That a lock was not renewed is not noticed if it is not an error.
Renewed(k) ==
  /\ Alive /\ renewer[k] = "renew" /\ rpc[k] = "answered" /\ ans[k] = "ok"
  /\ renewer' = [renewer EXCEPT ![k] = "select"]
  /\ EndRpc(k)
  /\ UNCHANGED <<srvVars, envVars, appVars, renewMap, histVars, dead>>

RenewPanics(k) ==
  /\ Alive /\ renewer[k] = "renew"
  /\ rpc[k] = "failed" \/ (rpc[k] = "answered" /\ ans[k] = None)
  /\ dead' = "renewError"
  /\ UNCHANGED <<srvVars, envVars, appVars, rpcVars, renVars, histVars>>

\* The channel is closed, on a stop or when the context is done.
RenewerEnds(k) ==
  /\ Alive
  /\ renewer[k] = "stopping" \/ (renewer[k] = "select" /\ ctxDone)
  /\ renewer' = [renewer EXCEPT ![k] = "done"]
  /\ UNCHANGED <<srvVars, envVars, appVars, rpcVars, renewMap, histVars, dead>>

-----------------------------------------------------------------------------
ThreadStep(t) ==
  \/ LockReturns(t) \/ LockFails(t) \/ UnlockReturns(t)
  \/ StopSends(t) \/ StopMisses(t) \/ StopPanics(t) \/ StopReturns(t)
  \/ \E u \in Threads \ {t} : StopMeetsStop(t, u)
  \/ \E k \in Keys : CloseNext(t, k)
  \/ CloseConn(t)

RenewerStep(k) == RenewerBegins(k) \/ Renewed(k) \/ RenewPanics(k) \/ RenewerEnds(k)

ServerStep ==
  \/ \E t \in Threads : ServeLock(t) \/ RefuseLock(t) \/ ServeUnlock(t)
  \/ \E k \in Keys : ServeRenew(k) \/ Fire(k) \/ Drop(k)

ProgramStep ==
  \E t \in Threads :
    \/ \E n \in Names, w \in BOOLEAN : LockCall(t, n, w)
    \/ \E k \in Keys : UnlockCall(t, k)
    \/ CloseCall(t)

Next ==
  \/ ProgramStep \/ ServerStep
  \/ \E t \in Threads : ThreadStep(t)
  \/ \E k \in Keys : RenewerStep(k) \/ RenewStarts(k)
  \/ \E p \in Procs : Retry(p)
  \/ Break \/ Reconnect \/ CancelCtx

Spec == Init /\ [][Next]_vars

\* Goroutines run on and the server answers Unlock and Renew.  Nothing makes
\* a timer fire or a connection come back.
Fairness ==
  /\ \A t \in Threads : WF_vars(ThreadStep(t) \/ Retry(t) \/ ServeUnlock(t))
  /\ \A k \in Keys : WF_vars(RenewerStep(k) \/ Retry(k) \/ ServeRenew(k))

FairSpec == Spec /\ Fairness

-----------------------------------------------------------------------------
\* Every variable has its type.
TypeOK ==
  /\ held \subseteq Keys /\ expiring \subseteq held /\ timed \subseteq Keys
  /\ nameOf \in [Keys -> Names \cup {None}]
  /\ conn \in {"up", "down", "closed"}
  /\ ctxDone \in BOOLEAN /\ scenario \in Scenarios
  /\ op \in [Threads -> {"none", "lock", "unlock", "close"}]
  /\ pc \in [Threads -> {"idle", "rpc", "stop", "receive", "close"}]
  /\ arg \in [Threads -> {None} \cup [name : Names, key : Keys \cup {None}, timed : BOOLEAN]]
  /\ target \in [Threads -> Keys \cup {None}]
  /\ \A t \in Threads : pc[t] \in {"stop", "receive"} => target[t] # None
  /\ seen \in [Threads -> SUBSET Keys]
  /\ rpc \in [Procs -> {"none", "sent", "answered", "unavailable", "failed"}]
  /\ ans \in [Procs -> Keys \cup {None, "ok"}]
  /\ tries \in [Procs -> 0..MaxRetries]
  /\ renewer \in [Keys -> {"none", "begin", "select", "renew", "stopping", "done"}]
  /\ renewMap \in [Names -> Keys \cup {None}]
  /\ dead \in {"no", "outOfSync", "closedChannel", "renewError"}
  /\ acked \subseteq Keys /\ broken \subseteq Keys
  /\ lost \subseteq Keys /\ missed \subseteq Keys

Closing == conn = "closed" \/ \E t \in Threads : op[t] = "close"

\* A program keeps what it has locked until it asks for its release or closes
\* the client, as long as its connection and its context last and renewals are
\* in time: whatever other threads lock, unlock and stop, the renewer of a held
\* lock goes on.
KeptWhileRenewed ==
  "late" \notin scenario /\ Alive /\ ~ctxDone /\ ~Closing
    => acked \ broken \subseteq held \ expiring

\* A panic of the library has a cause.  "Out of sync" (client.go:364) means
\* that the server dropped a lock of that name which the client still keeps, and
\* never that another thread is just unlocking it.  A renewer panics when the
\* server cannot be reached or refuses, and it refuses only if it dropped the
\* lock or if Stop has missed the renewer.  A closed channel is written to only
\* after a Close or the end of the context.
PanicsHaveCause ==
  /\ dead = "outOfSync" => \E k \in lost : renewMap[nameOf[k]] # None
  /\ dead = "renewError" =>
       \E k \in Keys : renewer[k] = "renew" /\ (rpc[k] = "failed" \/ k \in lost \cup missed)
  /\ dead = "closedChannel" =>
       ctxDone \/ Closing

\* One renewer at a time renews a lock name, leaving aside those that Stop has
\* missed and those whose lock the server has dropped: the others of that name
\* were stopped before their lock was unlocked.
OneRenewerPerName ==
  Alive => \A n \in Names :
    Cardinality({k \in Keys \ (missed \cup lost) :
                   nameOf[k] = n /\ Renews(k)}) <= 1

\* An Unlock comes to an end, also when it meets the renewer, another Stop, a
\* Close or a connection that is lost for good: it neither waits for the
\* renewer for ever nor repeats its call without an end.
UnlocksReturn ==
  \A t \in Threads : (op[t] = "unlock") ~> (op[t] # "unlock" \/ ~Alive)
=============================================================================
