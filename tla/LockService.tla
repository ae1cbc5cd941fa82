---------------------------- MODULE LockService ----------------------------
(***************************************************************************)
(* What the lock manager of ldlm (src/lock) promises to the server above   *)
(* it: every lock name is a counting lock.  At most "size" keys hold it,   *)
(* further callers stand in one first-come-first-served queue, and a       *)
(* released slot goes straight to the caller at the head of that queue.    *)
(*                                                                         *)
(* There are no lock objects here, no semaphore, no threads and no garbage *)
(* collection: LockManager.tla has them and is checked to implement this.  *)
(* LockServer.tla is composed from this module.                            *)
(***************************************************************************)
EXTENDS Integers, Sequences, FiniteSets, SequencesExt

CONSTANTS Names,   \* lock names
          Keys,    \* lock keys (the server makes a fresh UUID per request)
          Sizes    \* sizes a client may ask for

VARIABLES held,    \* held[n]: the keys that hold lock n
          cap,     \* cap[n]: the size of lock n while somebody holds it, else 0
          queue    \* queue[n]: the keys waiting for lock n, in arrival order

serviceVars == <<held, cap, queue>>

Init ==
  /\ held  = [n \in Names |-> {}]
  /\ cap   = [n \in Names |-> 0]
  /\ queue = [n \in Names |-> << >>]

-----------------------------------------------------------------------------
\* The size a lock has: an unheld lock takes whatever size is asked for.
Fits(n, s) == s > 0 /\ (held[n] = {} \/ cap[n] = s)

\* Fault: one slot too many.
FreeOneMore(n, s) == queue[n] = << >> /\ Cardinality(held[n]) <= s

\* A slot is free and nobody queues for it.
Free(n, s) == queue[n] = << >> /\ Cardinality(held[n]) < s

\* Lock or TryLock returns at once with the lock.
Grant(n, k, s) ==
  /\ Fits(n, s) /\ Free(n, s)
  /\ held' = [held EXCEPT ![n] = @ \cup {k}]
  /\ cap'  = [cap EXCEPT ![n] = s]
  /\ UNCHANGED queue

\* Lock blocks behind those who came before.
Wait(n, k, s) ==
  /\ Fits(n, s) /\ ~Free(n, s)
  /\ queue' = [queue EXCEPT ![n] = Append(@, k)]
  /\ UNCHANGED <<held, cap>>

\* A waiter gives up (its context is done) without ever holding the lock.
Abandon(n, k) ==
  /\ \E i \in 1..Len(queue[n]) :
       /\ queue[n][i] = k
       /\ queue' = [queue EXCEPT ![n] = RemoveAt(@, i)]
  /\ UNCHANGED <<held, cap>>

\* Fault: an Unlock that nobody waits for frees every slot.
ReleaseAll(n, k) ==
  /\ k \in held[n]
  /\ IF queue[n] = << >>
       THEN /\ held' = [held EXCEPT ![n] = {}]
            /\ cap'  = [cap EXCEPT ![n] = 0]
            /\ UNCHANGED queue
       ELSE /\ held'  = [held EXCEPT ![n] = (@ \ {k}) \cup {Head(queue[n])}]
            /\ queue' = [queue EXCEPT ![n] = Tail(@)]
            /\ UNCHANGED cap

\* k's slot goes to the head of the queue, or becomes free.
Release(n, k) ==
  /\ k \in held[n]
  /\ IF queue[n] = << >>
       THEN /\ held' = [held EXCEPT ![n] = @ \ {k}]
            /\ cap'  = [cap EXCEPT ![n] = IF held[n] = {k} THEN 0 ELSE @]
            /\ UNCHANGED queue
       ELSE /\ held'  = [held EXCEPT ![n] = (@ \ {k}) \cup {Head(queue[n])}]
            /\ queue' = [queue EXCEPT ![n] = Tail(@)]
            /\ UNCHANGED cap

Next ==
  \E n \in Names, k \in Keys :
    \/ \E s \in Sizes : Grant(n, k, s) \/ Wait(n, k, s)
    \/ Abandon(n, k)
    \/ Release(n, k)

Spec == Init /\ [][Next]_serviceVars
=============================================================================
