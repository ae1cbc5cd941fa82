-------------------------- MODULE LockServerProofs --------------------------
(***************************************************************************)
(* Proofs about LockServer, for any number of names, keys, sessions and    *)
(* crashes.                                                                *)
(***************************************************************************)
EXTENDS LockServer, FiniteSetTheorems, SequenceLemmas, TLAPS

USE ConstantsAssumption

-----------------------------------------------------------------------------
(* The inductive invariant.                                                *)

\* The keys that hold their lock, that are in the session table and that are
\* in the state file.
Owners == {k \in Keys : Held(k)}
Listed == {k \in Keys : call[k] # None /\ Recorded(k)}
Saved  == {k \in Keys : call[k] # None /\ InFile(k)}

\* The locks of session s are those that calls of s made.
Entry(s, l) ==
  /\ l.key \in Keys /\ call[l.key] # None /\ s = call[l.key].sess
  /\ l = LockOf(l.key) /\ req[l.key] \in {"added", "done"}

\* What clients, callbacks and Unlocks work with are keys whose call is over.
CallInv ==
  \A k \in Keys :
    /\ call[k] = None <=> req[k] = "none"
    /\ k \in acked => req[k] = "done"
    /\ timer[k] # "none" => req[k] = "done"
    /\ unl[k] # "none" => k \in acked /\ k \in asked
    /\ ren[k] # "none" => k \in acked
    /\ ren[k] = "arm" => timer[k] = "stopped"
    /\ cb[k] # "none" => timer[k] = "fired" /\ k \in asked

ManagerTypeOK ==
  /\ held \in [Names -> SUBSET Keys] /\ cap \in [Names -> Sizes \cup {0}]
  /\ queue \in [Names -> Seq(Keys)]
  /\ \A n \in Names : LM!IsInjective(queue[n])

\* Who holds a lock called for it, with the size that it has.
HolderInv ==
  \A n \in Names : \A k \in held[n] :
    call[k] # None /\ call[k].name = n /\ call[k].size = cap[n]

\* No lock is held more often than its size, and nobody waits for a lock that
\* nobody holds.
SlotInv ==
  \A n \in Names :
    /\ IsFiniteSet(held[n]) /\ Cardinality(held[n]) <= cap[n]
    /\ held[n] = {} => cap[n] = 0 /\ queue[n] = << >>

\* Who queues for a lock waits for it, with the size that it has.
QueueInv ==
  \A n \in Names : \A i \in 1..Len(queue[n]) :
    /\ req[queue[n][i]] = "waiting" /\ call[queue[n][i]] # None
    /\ call[queue[n][i]].name = n /\ call[queue[n][i]].size = cap[n]
    /\ queue[n][i] \notin held[n]

\* The invariants that speak of the lock manager.
ManagerInv == ManagerTypeOK /\ HolderInv /\ SlotInv /\ QueueInv

\* The table, the file and the clean-ups hold locks of calls of that session,
\* and a clean-up unlocks what it was asked to.
EntryInv ==
  /\ \A s \in DOMAIN sessionLocks : \A l \in sessionLocks[s] : Entry(s, l)
  /\ \A s \in DOMAIN file : \A l \in file[s] : Entry(s, l)
  /\ \A s \in Sessions : \A l \in todo[s] \cup todoTimer[s] : Entry(s, l) /\ l.key \in asked

\* What New has still to lock is listed, not held and without a timer.
LoadInv ==
  /\ toLoad # {} => up = "loading"
  /\ \A p \in toLoad :
       /\ Entry(p[1], p[2]) /\ p[2].key \in Listed \ Owners
       /\ timer[p[2].key] = "none"

\* Nobody is served while New loads, and only the file is left of a process
\* that died.
PhaseInv ==
  /\ up # "up" =>
       /\ \A k \in Keys : req[k] \in {"none", "done"} /\ unl[k] = "none" /\ ren[k] = "none"
       /\ \A s \in Sessions : conn[s] \in {"new", "ended"} /\ todo[s] = {} /\ todoTimer[s] = {}
       /\ \A n \in Names : queue[n] = << >>
  /\ ~Running =>
       /\ \A n \in Names : held[n] = {}
       /\ \A k \in Keys : timer[k] = "none" /\ cb[k] = "none"
       /\ DOMAIN sessionLocks = {}
  /\ \A s \in Sessions : conn[s] # "ended" => todo[s] = {}

\* The file is the table without the sessions that never got a lock.
SyncInv ==
  Running =>
    /\ DOMAIN file \subseteq DOMAIN sessionLocks
    /\ \A s \in DOMAIN sessionLocks :
         sessionLocks[s] = IF s \in DOMAIN file THEN file[s] ELSE {}

\* A call that is about to answer has its lock, unless its session ended or
\* its timer ran out meanwhile.
RequestInv ==
  \A k \in Keys :
    /\ req[k] = "granted" => k \in Owners
    /\ req[k] = "added" =>
         \/ k \in asked \/ conn[call[k].sess] = "ended"
         \/ k \in Owners /\ k \in Listed

\* KeptUntilReleased, and where the locks are while New loads.
KeptInv ==
  ~noClearOnDisconnect =>
    \A k \in acked \ asked :
      /\ k \in Saved
      /\ Running => k \in Listed
      /\ up = "up" => k \in Owners
      /\ up = "loading" => k \in Owners \/ <<call[k].sess, LockOf(k)>> \in toLoad

ExcludeInv == IsFiniteSet(acked) /\ (~noClearOnDisconnect => ClientsExclude)

\* The invariants that need no handler of a timer to do its work.
CoreInv ==
  /\ TypeOK /\ ManagerInv /\ CallInv /\ EntryInv /\ LoadInv
  /\ PhaseInv /\ SyncInv /\ RequestInv /\ KeptInv /\ ExcludeInv

\* What a timer, a clean-up or an Unlock that is past the lock manager knows
\* of the key it works on.
TimerInv ==
  /\ \A k \in Keys :
       /\ k \in timers => timer[k] # "none"
       /\ timer[k] = "stopped" /\ k \in timers => ren[k] = "arm"
       /\ timer[k] = "fired" /\ cb[k] # "unlock" => k \notin Owners
       /\ unl[k] \in {"mgr", "remove"} => k \notin timers
  /\ \A s \in Sessions : \A l \in todoTimer[s] : l.key \notin Owners

\* A timer will unlock k.
Timed(k) == timer[k] = "armed" \/ ren[k] = "arm" \/ cb[k] = "unlock"

\* NoOrphan; what only a timer will unlock has left the timer map, so that no
\* Unlock can stop its timer any more.
OrphanInv ==
  /\ \A k \in Owners : unl[k] = "remove" => Timed(k)
  /\ ~noClearOnDisconnect =>
       \A k \in Owners :
         \/ req[k] \in {"waiting", "granted"}
         \/ k \in Listed
         \/ LockOf(k) \in todo[call[k].sess]
         \/ k \notin timers /\ Timed(k)

IndInv == CoreInv /\ TimerInv /\ OrphanInv

-----------------------------------------------------------------------------
(* What the operations of the lock manager preserve.                       *)

\* What a call carries.
LEMMA CallFacts ==
  ASSUME TypeOK, NEW k \in Keys, call[k] # None
  PROVE  /\ call[k] \in Calls /\ call[k].name \in Names /\ call[k].size \in Sizes
         /\ call[k].sess \in Sessions /\ LockOf(k) \in Locks
         /\ LockOf(k).key = k
BY DEF TypeOK, Calls, Locks, LockOf

\* LockService counts as FiniteSets does.
LEMMA SameCardinality ==
  ASSUME NEW S
  PROVE  LM!Cardinality(S) = Cardinality(S)
BY DEF LM!Cardinality, Cardinality

\* A size is a number.
LEMMA CapNat ==
  ASSUME ManagerTypeOK, NEW n \in Names
  PROVE  cap[n] \in Nat
<1>1. cap[n] \in Sizes \cup {0}
  BY DEF ManagerTypeOK
<1>2. CASE cap[n] \in Sizes
  BY <1>2
<1>3. CASE cap[n] = 0
  BY <1>3
<1> QED
  BY <1>1, <1>2, <1>3

\* Those who wait are keys.
LEMMA WaiterType ==
  ASSUME ManagerTypeOK, NEW n \in Names, NEW i \in 1..Len(queue[n])
  PROVE  queue[n][i] \in Keys
<1>1. queue[n] \in Seq(Keys)
  BY DEF ManagerTypeOK
<1> QED
  BY <1>1

\* A lock is granted only when a slot is free.
LEMMA GrantStep ==
  ASSUME ManagerInv, NEW n \in Names, NEW k \in Keys, NEW s \in Sizes,
         LM!Grant(n, k, s), req[k] # "waiting", call[k] # None => call'[k] = call[k],
         call'[k] # None, call'[k].name = n, call'[k].size = s,
         \A j \in Keys \ {k} : call'[j] = call[j] /\ req'[j] = req[j]
  PROVE  ManagerInv' /\ (k \notin held[n] => \A m \in Names : held'[m] = IF m = n THEN held[m] \cup {k} ELSE held[m])
<1> USE DEF ManagerInv, ManagerTypeOK
<1>1. /\ held' = [held EXCEPT ![n] = @ \cup {k}]
      /\ cap'  = [cap EXCEPT ![n] = s]
      /\ queue' = queue /\ queue[n] = << >> /\ Cardinality(held[n]) < s
      /\ held[n] = {} \/ cap[n] = s
  BY SameCardinality DEF LM!Grant, LM!Fits, LM!Free
<1>2. ManagerTypeOK'
  BY <1>1 DEF LM!IsInjective
<1>3. \A m \in Names : \A i \in 1..Len(queue[m]) : queue[m][i] \in Keys \ {k}
  BY DEF QueueInv
<1>4. HolderInv'
  <2>1. \A m \in Names : /\ held'[m] = IF m = n THEN held[n] \cup {k} ELSE held[m]
                         /\ cap'[m] = IF m = n THEN s ELSE cap[m]
    BY <1>1
  <2>2. ASSUME NEW m \in Names, NEW j \in held'[m]
        PROVE  call'[j] # None /\ call'[j].name = m /\ call'[j].size = cap'[m]
    <3>1. CASE j = k
      BY <3>1, <2>1, <2>2 DEF HolderInv
    <3>2. CASE j # k
      <4>1. j \in held[m] /\ j \in Keys
        <5>1. j \in held[m]
          BY <3>2, <2>1, <2>2
        <5> QED
          BY <5>1 DEF ManagerTypeOK
      <4>2. call'[j] = call[j] /\ call[j] # None /\ call[j].name = m /\ call[j].size = cap[m]
        BY <4>1, <3>2 DEF HolderInv
      <4> QED
        BY <4>1, <4>2, <2>1, <1>1
    <3> QED
      BY <3>1, <3>2
  <2> QED
    BY <2>2 DEF HolderInv
<1>5. SlotInv'
  <2>1. IsFiniteSet(held[n]) /\ Cardinality(held[n]) \in Nat
    BY FS_CardinalityType DEF SlotInv
  <2>2. /\ IsFiniteSet(held[n] \cup {k})
        /\ Cardinality(held[n] \cup {k}) = IF k \in held[n] THEN Cardinality(held[n]) ELSE Cardinality(held[n]) + 1
    BY <2>1, FS_AddElement
  <2>3. Cardinality(held[n] \cup {k}) <= s
    BY <2>1, <2>2, <1>1
  <2>4. \A m \in Names : /\ held'[m] = IF m = n THEN held[n] \cup {k} ELSE held[m]
                         /\ cap'[m] = IF m = n THEN s ELSE cap[m]
                         /\ queue'[m] = queue[m]
    BY <1>1
  <2> QED
    BY <2>2, <2>3, <2>4 DEF SlotInv
<1>6. QueueInv'
  <2> SUFFICES ASSUME NEW m \in Names, NEW i \in 1..Len(queue[m])
               PROVE  /\ req'[queue[m][i]] = "waiting" /\ call'[queue[m][i]] # None
                      /\ call'[queue[m][i]].name = m /\ call'[queue[m][i]].size = cap'[m]
                      /\ queue[m][i] \notin held'[m]
    BY <1>1 DEF QueueInv
  <2>1. m # n
    BY <1>1
  <2>2. held'[m] = held[m] /\ cap'[m] = cap[m]
    BY <2>1, <1>1
  <2>3. queue[m][i] \in Keys \ {k}
    BY <1>3
  <2>4. /\ req[queue[m][i]] = "waiting" /\ call[queue[m][i]] # None
        /\ call[queue[m][i]].name = m /\ call[queue[m][i]].size = cap[m]
        /\ queue[m][i] \notin held[m]
    BY DEF QueueInv
  <2> QED
    BY <2>2, <2>3, <2>4
<1> QED
  BY <1>1, <1>2, <1>4, <1>5, <1>6

\* A call that waits stands behind those who came before.
LEMMA WaitStep ==
  ASSUME ManagerInv, NEW n \in Names, NEW k \in Keys, NEW s \in Sizes,
         LM!Wait(n, k, s), call[k] = None, req[k] # "waiting",
         call'[k] # None, call'[k].name = n, call'[k].size = s,
         \A j \in Keys \ {k} : call'[j] = call[j] /\ req'[j] = req[j],
         req'[k] = "waiting"
  PROVE  ManagerInv'
<1> USE DEF ManagerInv
<1>1. /\ queue' = [queue EXCEPT ![n] = Append(@, k)] /\ held' = held /\ cap' = cap
      /\ s > 0 /\ (held[n] = {} \/ cap[n] = s) /\ ~LM!Free(n, s)
  BY DEF LM!Wait, LM!Fits
<1>2. held[n] # {}
  <2> SUFFICES ASSUME held[n] = {} PROVE FALSE
    OBVIOUS
  <2>1. Cardinality(held[n]) = 0
    BY FS_EmptySet
  <2> QED
    BY <2>1, <1>1, SameCardinality DEF SlotInv, LM!Free
<1>3. cap[n] = s
  BY <1>1, <1>2
<1>4. \A m \in Names : \A i \in 1..Len(queue[m]) : queue[m][i] \in Keys \ {k}
  BY WaiterType DEF QueueInv
<1>5. \A m \in Names : \A j \in held[m] : j \in Keys \ {k}
  BY DEF HolderInv, ManagerTypeOK
<1>6. /\ queue'[n] \in Seq(Keys) /\ Len(queue[n]) \in Nat
      /\ Len(queue'[n]) = Len(queue[n]) + 1
      /\ \A i \in 1..(Len(queue[n]) + 1) :
           queue'[n][i] = IF i \in 1..Len(queue[n]) THEN queue[n][i] ELSE k
      /\ \A m \in Names \ {n} : queue'[m] = queue[m]
  <2>1. queue'[n] = Append(queue[n], k) /\ queue[n] \in Seq(Keys)
    BY <1>1 DEF ManagerTypeOK
  <2> QED
    BY <2>1, <1>1, AppendLemma DEF ManagerTypeOK
<1>7. ManagerTypeOK'
  <2>1. queue' \in [Names -> Seq(Keys)]
    BY <1>1, <1>6 DEF ManagerTypeOK
  <2>2. \A a, b \in 1..(Len(queue[n]) + 1) : queue'[n][a] = queue'[n][b] => a = b
    BY <1>4, <1>6 DEF ManagerTypeOK, LM!IsInjective
  <2>3. LM!IsInjective(queue'[n])
    BY <2>2, <1>6 DEF LM!IsInjective
  <2> QED
    BY <2>1, <2>3, <1>1, <1>6 DEF ManagerTypeOK
<1>8. HolderInv'
  BY <1>1, <1>5 DEF HolderInv
<1>9. SlotInv'
  BY <1>1, <1>2, <1>6 DEF SlotInv
<1>10. QueueInv'
  <2> SUFFICES ASSUME NEW m \in Names, NEW i \in 1..Len(queue'[m])
               PROVE  /\ req'[queue'[m][i]] = "waiting" /\ call'[queue'[m][i]] # None
                      /\ call'[queue'[m][i]].name = m /\ call'[queue'[m][i]].size = cap'[m]
                      /\ queue'[m][i] \notin held'[m]
    BY DEF QueueInv
  <2>1. CASE m = n /\ i = Len(queue[n]) + 1
    BY <2>1, <1>1, <1>3, <1>5, <1>6
  <2>2. CASE ~(m = n /\ i = Len(queue[n]) + 1)
    <3>1. i \in 1..Len(queue[m]) /\ queue'[m][i] = queue[m][i]
      BY <2>2, <1>6
    <3> QED
      BY <3>1, <1>1, <1>4 DEF QueueInv
  <2> QED
    BY <2>1, <2>2
<1> QED
  BY <1>7, <1>8, <1>9, <1>10

\* A caller that gives up leaves the queue; the order of the others stays.
LEMMA AbandonStep ==
  ASSUME ManagerInv, NEW n \in Names, NEW k \in Keys, LM!Abandon(n, k),
         UNCHANGED call, \A j \in Keys \ {k} : req'[j] = req[j]
  PROVE  ManagerInv' /\ k \notin held[call[k].name] /\ UNCHANGED <<held, cap>>
<1> USE DEF ManagerInv
<1>1. PICK i \in 1..Len(queue[n]) :
        /\ queue[n][i] = k
        /\ queue' = [queue EXCEPT ![n] = LM!RemoveAt(@, i)]
  BY DEF LM!Abandon
<1>2. held' = held /\ cap' = cap
  BY DEF LM!Abandon
<1>3. /\ queue[n] \in Seq(Keys)
      /\ queue'[n] = SubSeq(queue[n], 1, i - 1) \o SubSeq(queue[n], i + 1, Len(queue[n]))
  BY <1>1 DEF ManagerTypeOK, LM!RemoveAt
<1>4. /\ queue'[n] \in Seq(Keys) /\ Len(queue'[n]) = Len(queue[n]) - 1
      /\ \A j \in 1..(Len(queue[n]) - 1) :
           queue'[n][j] = IF j < i THEN queue[n][j] ELSE queue[n][j + 1]
      /\ \A m \in Names \ {n} : queue'[m] = queue[m]
  <2>1. \A m \in Names \ {n} : queue'[m] = queue[m]
    BY <1>1 DEF ManagerTypeOK
  <2> DEFINE q == queue[n]
  <2>2. q \in Seq(Keys) /\ i \in 1..Len(q)
    BY <1>3
  <2> HIDE DEF q
  <2>3. LET r == SubSeq(q, 1, i - 1) \o SubSeq(q, i + 1, Len(q)) IN
          /\ r \in Seq(Keys) /\ Len(r) = Len(q) - 1
          /\ \A j \in 1..(Len(q) - 1) : r[j] = IF j < i THEN q[j] ELSE q[j + 1]
    BY <2>2, CutLemma
  <2> QED
    BY <2>1, <2>3, <1>3 DEF q
<1>5. Len(queue[n]) \in Nat /\ i \in Nat /\ \A a, b \in 1..Len(queue[n]) : queue[n][a] = queue[n][b] => a = b
  BY <1>3 DEF ManagerTypeOK, LM!IsInjective
<1>6. \A j \in 1..Len(queue'[n]) :
         \E a \in 1..Len(queue[n]) : a # i /\ queue'[n][j] = queue[n][a]
  <2> TAKE j \in 1..Len(queue'[n])
  <2>1. CASE j < i
    <3>1. j \in 1..Len(queue[n]) /\ j # i /\ queue'[n][j] = queue[n][j]
      BY <2>1, <1>4, <1>5
    <3> QED
      BY <3>1
  <2>2. CASE ~(j < i)
    <3>1. j + 1 \in 1..Len(queue[n]) /\ j + 1 # i /\ queue'[n][j] = queue[n][j + 1]
      BY <2>2, <1>4, <1>5
    <3> QED
      BY <3>1
  <2> QED
    BY <2>1, <2>2
<1>7. ManagerTypeOK'
  <2>1. queue' \in [Names -> Seq(Keys)]
    BY <1>1, <1>4 DEF ManagerTypeOK
  <2>2. \A a, b \in 1..(Len(queue[n]) - 1) : queue'[n][a] = queue'[n][b] => a = b
    BY <1>4, <1>5
  <2>3. LM!IsInjective(queue'[n])
    BY <2>2, <1>4 DEF LM!IsInjective
  <2> QED
    BY <2>1, <2>3, <1>2, <1>4 DEF ManagerTypeOK
<1>8. HolderInv' /\ SlotInv'
  <2>1. queue[n] # << >>
    BY <1>1, <1>3
  <2>2. \A m \in Names : held[m] = {} => queue'[m] = queue[m]
    BY <2>1, <1>4 DEF SlotInv
  <2> QED
    BY <2>2, <1>2 DEF HolderInv, SlotInv
<1>9. \A m \in Names : \A j \in 1..Len(queue'[m]) :
        /\ queue'[m][j] # k
        /\ \E a \in 1..Len(queue[m]) : queue'[m][j] = queue[m][a]
  <2> TAKE m \in Names
  <2> TAKE j \in 1..Len(queue'[m])
  <2>1. CASE m = n
    BY <2>1, <1>1, <1>5, <1>6
  <2>2. CASE m # n
    <3>1. queue'[m][j] = queue[m][j] /\ j \in 1..Len(queue[m])
      BY <2>2, <1>4
    <3>2. call[k].name = n
      BY <1>1 DEF QueueInv
    <3>3. queue'[m][j] # k
      BY <3>1, <3>2, <2>2 DEF QueueInv
    <3> QED
      BY <3>1, <3>3
  <2> QED
    BY <2>1, <2>2
<1>10. QueueInv'
  <2> SUFFICES ASSUME NEW m \in Names, NEW j \in 1..Len(queue'[m])
               PROVE  /\ req'[queue'[m][j]] = "waiting" /\ call'[queue'[m][j]] # None
                      /\ call'[queue'[m][j]].name = m /\ call'[queue'[m][j]].size = cap'[m]
                      /\ queue'[m][j] \notin held'[m]
    BY DEF QueueInv
  <2>1. PICK a \in 1..Len(queue[m]) : queue'[m][j] = queue[m][a] /\ queue[m][a] # k
    BY <1>9
  <2>2. queue[m][a] \in Keys
    BY DEF ManagerTypeOK
  <2> QED
    BY <2>1, <2>2, <1>2 DEF QueueInv
<1>11. k \notin held[call[k].name]
  BY <1>1 DEF QueueInv
<1> QED
  BY <1>2, <1>7, <1>8, <1>10, <1>11

\* A slot that is given up goes to the caller at the head of the queue.
LEMMA ReleaseStep ==
  ASSUME ManagerInv, NEW n \in Names, NEW k \in Keys, LM!Release(n, k),
         UNCHANGED call, \A j \in Keys \ {k} : req'[j] = req[j]
  PROVE  /\ ManagerInv'
         /\ k \notin held'[n]
         /\ \A m \in Names : \A j \in held[m] : j # k => j \in held'[m]
         /\ \A m \in Names : \A j \in held'[m] : j \in held[m] \/ req[j] = "waiting"
<1> USE DEF ManagerInv
<1>1. k \in held[n]
  BY DEF LM!Release
<1>2. \A m \in Names : \A i \in 1..Len(queue[m]) : queue[m][i] \in Keys \ {k}
  <2>1. k \in Keys /\ call[k].name = n
    BY <1>1 DEF HolderInv
  <2> QED
    BY <2>1, <1>1, WaiterType DEF QueueInv
<1>3. \A m \in Names : k \in held[m] => m = n
  BY <1>1 DEF HolderInv
<1>4. IsFiniteSet(held[n]) /\ Cardinality(held[n]) \in Nat /\ Cardinality(held[n]) <= cap[n]
  BY FS_CardinalityType DEF SlotInv
<1>5. IsFiniteSet(held[n] \ {k}) /\ Cardinality(held[n] \ {k}) = Cardinality(held[n]) - 1
  BY <1>1, <1>4, FS_RemoveElement
<1>6. CASE queue[n] = << >>
  <2>1. /\ held' = [held EXCEPT ![n] = @ \ {k}]
        /\ cap'  = [cap EXCEPT ![n] = IF held[n] = {k} THEN 0 ELSE @]
        /\ queue' = queue
    BY <1>6 DEF LM!Release
  <2>2. /\ held'[n] = held[n] \ {k} /\ cap'[n] = IF held[n] = {k} THEN 0 ELSE cap[n]
        /\ \A m \in Names \ {n} : held'[m] = held[m] /\ cap'[m] = cap[m]
    BY <2>1 DEF ManagerTypeOK
  <2>3. ManagerTypeOK'
    BY <2>1 DEF ManagerTypeOK
  <2>4. HolderInv'
    BY <2>2 DEF HolderInv
  <2>5. SlotInv'
    <3>1. held'[n] = {} <=> held[n] = {k}
      BY <1>1, <2>2
    <3>2. Cardinality({}) = 0
      BY FS_EmptySet
    <3>3. Cardinality(held'[n]) <= cap'[n] /\ IsFiniteSet(held'[n])
      <4>1. CASE held[n] = {k}
        <5>1. held'[n] = {} /\ cap'[n] = 0
          BY <4>1, <3>1, <2>2
        <5>2. IsFiniteSet({})
          BY FS_EmptySet
        <5> QED
          BY <5>1, <5>2, <3>2
      <4>2. CASE held[n] # {k}
        <5>1. held'[n] = held[n] \ {k} /\ cap'[n] = cap[n] /\ cap[n] \in Nat
          BY <4>2, <2>2, CapNat
        <5> QED
          BY <5>1, <1>4, <1>5
      <4> QED
        BY <4>1, <4>2
    <3>4. held'[n] = {} => cap'[n] = 0 /\ queue'[n] = << >>
      BY <3>1, <2>1, <2>2, <1>6
    <3>5. \A m \in Names \ {n} : /\ IsFiniteSet(held'[m]) /\ Cardinality(held'[m]) <= cap'[m]
                                 /\ held'[m] = {} => cap'[m] = 0 /\ queue'[m] = << >>
      BY <2>1, <2>2 DEF SlotInv
    <3> QED
      BY <3>3, <3>4, <3>5 DEF SlotInv
  <2>6. QueueInv'
    <3>1. \A m \in Names : \A i \in 1..Len(queue[m]) : m # n
      BY <1>6
    <3> QED
      BY <3>1, <2>1, <2>2, <1>2 DEF QueueInv
  <2> QED
    BY <2>2, <2>3, <2>4, <2>5, <2>6
<1>7. CASE queue[n] # << >>
  <2> DEFINE h == Head(queue[n])
  <2>1. /\ held'  = [held EXCEPT ![n] = (@ \ {k}) \cup {h}]
        /\ queue' = [queue EXCEPT ![n] = Tail(@)]
        /\ cap' = cap
    BY <1>7 DEF LM!Release
  <2>2. /\ Tail(queue[n]) \in Seq(Keys) /\ Len(Tail(queue[n])) = Len(queue[n]) - 1
        /\ Len(queue[n]) \in Nat /\ Len(queue[n]) > 0 /\ h = queue[n][1]
        /\ \A i \in 1..(Len(queue[n]) - 1) : Tail(queue[n])[i] = queue[n][i + 1]
    BY <1>7, TailLemma DEF ManagerTypeOK
  <2>3. /\ h \in Keys /\ h # k /\ h \notin held[n] /\ req[h] = "waiting"
        /\ call[h].name = n /\ call[h].size = cap[n] /\ call[h] # None
    <3>1. 1 \in 1..Len(queue[n])
      BY <2>2
    <3> QED
      BY <3>1, <2>2, <1>1, <1>2 DEF QueueInv
  <2>4. /\ held'[n] = (held[n] \ {k}) \cup {h} /\ queue'[n] = Tail(queue[n])
        /\ \A m \in Names \ {n} : held'[m] = held[m] /\ queue'[m] = queue[m]
    BY <2>1 DEF ManagerTypeOK
  <2> HIDE DEF h
  <2>5. ManagerTypeOK'
    <3>1. held' \in [Names -> SUBSET Keys] /\ queue' \in [Names -> Seq(Keys)]
      BY <2>1, <2>2, <2>3 DEF ManagerTypeOK
    <3>2. \A a, b \in 1..Len(queue[n]) : queue[n][a] = queue[n][b] => a = b
      BY <2>2 DEF ManagerTypeOK, LM!IsInjective
    <3>3. \A a, b \in 1..(Len(queue[n]) - 1) : queue'[n][a] = queue'[n][b] => a = b
      BY <3>2, <2>2, <2>4
    <3>4. LM!IsInjective(queue'[n])
      <4>1. DOMAIN queue'[n] = 1..(Len(queue[n]) - 1)
        BY <2>2, <2>4
      <4> QED
        BY <4>1, <3>3 DEF LM!IsInjective
    <3> QED
      BY <3>1, <3>4, <2>1, <2>4 DEF ManagerTypeOK
  <2>6. HolderInv'
    BY <2>1, <2>3, <2>4 DEF HolderInv
  <2>7. SlotInv'
    <3>1. /\ IsFiniteSet((held[n] \ {k}) \cup {h})
          /\ Cardinality((held[n] \ {k}) \cup {h}) = Cardinality(held[n] \ {k}) + 1
      BY <2>3, <1>5, FS_AddElement
    <3>2. IsFiniteSet(held'[n]) /\ Cardinality(held'[n]) <= cap'[n] /\ held'[n] # {}
      <4>1. cap'[n] = cap[n] /\ cap[n] \in Nat /\ held'[n] = (held[n] \ {k}) \cup {h}
        BY <2>1, <2>4, CapNat
      <4> QED
        BY <4>1, <3>1, <1>4, <1>5
    <3>3. \A m \in Names \ {n} : /\ IsFiniteSet(held'[m]) /\ Cardinality(held'[m]) <= cap'[m]
                                 /\ held'[m] = {} => cap'[m] = 0 /\ queue'[m] = << >>
      BY <2>1, <2>4 DEF SlotInv
    <3> QED
      BY <3>2, <3>3 DEF SlotInv
  <2>8. QueueInv'
    <3> SUFFICES ASSUME NEW m \in Names, NEW i \in 1..Len(queue'[m])
                 PROVE  /\ req'[queue'[m][i]] = "waiting" /\ call'[queue'[m][i]] # None
                        /\ call'[queue'[m][i]].name = m /\ call'[queue'[m][i]].size = cap'[m]
                        /\ queue'[m][i] \notin held'[m]
      BY DEF QueueInv
    <3>1. CASE m # n
      BY <3>1, <2>1, <2>4, <1>2 DEF QueueInv
    <3>2. CASE m = n
      <4>1. /\ i + 1 \in 1..Len(queue[n]) /\ i + 1 # 1 /\ 1 \in 1..Len(queue[n])
            /\ queue'[n][i] = queue[n][i + 1]
        BY <3>2, <2>2, <2>4
      <4>2. queue[n][i + 1] # h
        <5>1. queue[n] \in Seq(Keys) /\ DOMAIN queue[n] = 1..Len(queue[n])
          BY DEF ManagerTypeOK
        <5> QED
          BY <5>1, <4>1, <2>2 DEF ManagerTypeOK, LM!IsInjective
      <4> QED
        BY <4>1, <4>2, <3>2, <2>1, <2>4, <1>2 DEF QueueInv
    <3> QED
      BY <3>1, <3>2
  <2> QED
    BY <2>3, <2>4, <2>5, <2>6, <2>7, <2>8
<1> QED
  BY <1>6, <1>7

\* Steps that leave the lock manager alone.
LEMMA ManagerFrame ==
  ASSUME ManagerInv, UNCHANGED <<held, cap, queue, call>>,
         \A j \in Keys : req[j] = "waiting" => req'[j] = "waiting" \/ Held(j)
  PROVE  ManagerInv'
<1> USE DEF ManagerInv
<1>1. ManagerTypeOK'
  BY DEF ManagerTypeOK
<1>2. HolderInv' /\ SlotInv'
  BY DEF HolderInv, SlotInv
<1>3. QueueInv'
  <2> SUFFICES ASSUME NEW n \in Names, NEW i \in 1..Len(queue[n])
               PROVE  req'[queue[n][i]] = "waiting"
    BY DEF QueueInv
  <2>1. queue[n][i] \in Keys
    BY DEF ManagerTypeOK
  <2>2. ~Held(queue[n][i]) /\ req[queue[n][i]] = "waiting"
    BY DEF QueueInv, Held
  <2> QED
    BY <2>1, <2>2
<1> QED
  BY <1>1, <1>2, <1>3

\* A key that does not hold its lock is an error of Unlock; another one gives
\* its slot to a call that waits, if there is one.
LEMMA MgrUnlockStep ==
  ASSUME TypeOK, ManagerInv, NEW k \in Keys, call[k] # None, MgrUnlock(k),
         UNCHANGED <<call, req>>
  PROVE  /\ ManagerInv'
         /\ k \notin Owners'
         /\ Owners \ {k} \subseteq Owners'
         /\ \A j \in Owners' : j \in Owners \/ req[j] = "waiting"
<1>1. CASE Held(k)
  <2>1. LM!Release(call[k].name, k) /\ call[k].name \in Names
    BY <1>1, CallFacts DEF MgrUnlock
  <2>2. /\ ManagerInv'
        /\ k \notin held'[call[k].name]
        /\ \A m \in Names : \A j \in held[m] : j # k => j \in held'[m]
        /\ \A m \in Names : \A j \in held'[m] : j \in held[m] \/ req[j] = "waiting"
    BY <2>1, ReleaseStep
  <2> QED
    BY <2>2, CallFacts DEF Owners, Held
<1>2. CASE ~Held(k)
  <2>1. UNCHANGED <<held, cap, queue>>
    BY <1>2 DEF MgrUnlock, lmVars
  <2> QED
    BY <2>1, <1>2, ManagerFrame DEF Owners, Held
<1> QED
  BY <1>1, <1>2

\* Who owns its lock, after a step that leaves the lock manager alone.
LEMMA OwnersFrame ==
  ASSUME UNCHANGED <<held, call>>
  PROVE  Owners' = Owners
BY DEF Owners, Held

\* A new call holds its lock or waits.
LEMMA LockCallStep ==
  ASSUME TypeOK, ManagerInv, CallInv, NEW k \in Keys, NEW c \in Calls, LockCall(k, c)
  PROVE  /\ ManagerInv'
         /\ k \notin Owners /\ Owners \subseteq Owners' /\ Owners' \subseteq Owners \cup {k}
         /\ k \in Owners' <=> req'[k] = "granted"
<1>1. call' = [call EXCEPT ![k] = c] /\ call[k] = None /\ req[k] = "none" /\ c # None
  BY ConstantsAssumption DEF LockCall, CallInv
<1>2. c.name \in Names /\ c.size \in Sizes
  BY DEF Calls
<1>3. /\ call'[k] = c
      /\ \A j \in Keys \ {k} : call'[j] = call[j]
  BY <1>1 DEF TypeOK
<1>4. \A n \in Names : k \notin held[n]
  BY <1>1 DEF ManagerInv, HolderInv
<1>5. CASE LM!Grant(c.name, k, c.size) /\ req' = [req EXCEPT ![k] = "granted"]
  <2>1. req'[k] = "granted" /\ \A j \in Keys \ {k} : req'[j] = req[j]
    BY <1>5 DEF TypeOK
  <2>2. /\ ManagerInv'
        /\ \A m \in Names : held'[m] = IF m = c.name THEN held[m] \cup {k} ELSE held[m]
    BY <1>1, <1>2, <1>3, <1>4, <1>5, <2>1, GrantStep, ZenonT(30)
  <2>3. k \in Owners' /\ k \notin Owners
    BY <1>1, <1>2, <1>3, <2>2 DEF Owners, Held
  <2>4. ASSUME NEW j \in Keys \ {k}
        PROVE  j \in Owners' <=> j \in Owners
    <3>1. CASE call[j] = None
      BY <3>1, <1>3 DEF Owners, Held
    <3>2. CASE call[j] # None
      <4>1. call[j].name \in Names /\ call'[j] = call[j]
        BY <3>2, <1>3, CallFacts
      <4> QED
        BY <4>1, <2>2 DEF Owners, Held
    <3> QED
      BY <3>1, <3>2
  <2> QED
    BY <2>1, <2>2, <2>3, <2>4 DEF Owners
<1>6. CASE LM!Wait(c.name, k, c.size) /\ req' = [req EXCEPT ![k] = "waiting"]
  <2>1. req'[k] = "waiting" /\ \A j \in Keys \ {k} : req'[j] = req[j]
    BY <1>6 DEF TypeOK
  <2>2. ManagerInv'
    BY <1>1, <1>2, <1>3, <1>6, <2>1, WaitStep
  <2>3. held' = held
    BY <1>6 DEF LM!Wait
  <2>4. k \notin Owners' /\ k \notin Owners
    BY <1>1, <1>2, <1>3, <1>4, <2>3 DEF Owners, Held
  <2>5. \A j \in Keys \ {k} : j \in Owners' <=> j \in Owners
    BY <1>3, <2>3 DEF Owners, Held
  <2> QED
    BY <2>1, <2>2, <2>4, <2>5 DEF Owners
<1> QED
  BY <1>5, <1>6 DEF LockCall

\* Who gives up holds nothing afterwards.
LEMMA GiveUpStep ==
  ASSUME TypeOK, ManagerInv, CallInv, NEW k \in Keys, GiveUp(k)
  PROVE  /\ ManagerInv'
         /\ k \notin Owners' /\ Owners \ {k} \subseteq Owners'
         /\ \A j \in Owners' : j \in Owners \/ req[j] = "waiting"
<1>1. /\ req[k] = "waiting" /\ call[k] # None /\ call[k].name \in Names /\ call' = call
      /\ \A j \in Keys \ {k} : req'[j] = req[j]
  BY CallFacts DEF GiveUp, CallInv, TypeOK
<1>2. CASE Held(k) /\ LM!Release(call[k].name, k)
  <2>1. /\ ManagerInv'
        /\ k \notin held'[call[k].name]
        /\ \A m \in Names : \A j \in held[m] : j # k => j \in held'[m]
        /\ \A m \in Names : \A j \in held'[m] : j \in held[m] \/ req[j] = "waiting"
    BY <1>1, <1>2, ReleaseStep
  <2> QED
    BY <1>1, <2>1, CallFacts DEF Owners, Held
<1>3. CASE LM!Abandon(call[k].name, k)
  <2>1. ManagerInv' /\ k \notin held[call[k].name] /\ held' = held
    BY <1>1, <1>3, AbandonStep
  <2> QED
    BY <1>1, <2>1 DEF Owners, Held
<1> QED
  BY <1>2, <1>3 DEF GiveUp

-----------------------------------------------------------------------------
(* What the operations of the session table preserve.                      *)

\* The types of the table and of the file.
LEMMA TableTypes ==
  ASSUME SM!TypeOK, NEW s \in Sessions,
         \/ SM!CreateSession(s) \/ SM!DestroySession(s)
         \/ \E l \in Locks : SM!AddLock(s, l) \/ SM!RemoveLock(s, l)
         \/ SM!Load \/ UNCHANGED <<sessionLocks, file>>
  PROVE  SM!TypeOK'
<1> USE DEF SM!TypeOK, SM!IsTable, SM!LocksOf, SM!HasEntry, SM!WithEntry, SM!WithoutEntry, SM!Save
<1>1. SM!LocksOf(s) \subseteq Locks
  OBVIOUS
<1>2. CASE SM!CreateSession(s)
  BY <1>1, <1>2 DEF SM!CreateSession
<1>3. CASE SM!DestroySession(s)
  BY <1>3 DEF SM!DestroySession, SM!sessionVars
<1>4. ASSUME NEW l \in Locks, SM!AddLock(s, l) PROVE SM!TypeOK'
  BY <1>1, <1>4 DEF SM!AddLock
<1>5. ASSUME NEW l \in Locks, SM!RemoveLock(s, l) PROVE SM!TypeOK'
  BY <1>1, <1>5 DEF SM!RemoveLock, SM!sessionVars
<1>6. CASE SM!Load
  BY <1>6 DEF SM!Load
<1>7. CASE UNCHANGED <<sessionLocks, file>>
  BY <1>7
<1> QED
  BY <1>2, <1>3, <1>4, <1>5, <1>6, <1>7

\* Steps that leave the table and the file alone.
LEMMA TableFrame ==
  ASSUME UNCHANGED <<sessionLocks, file, call>>
  PROVE  Listed' = Listed /\ Saved' = Saved
BY DEF Listed, Saved, Recorded, InFile, LockOf, SM!LocksOf, SM!HasEntry

\* While the server runs the file has the locks that the table has.
LEMMA SavedIsListed ==
  ASSUME SyncInv, Running
  PROVE  Saved = Listed
BY DEF SyncInv, Listed, Saved, Recorded, InFile, LockOf, SM!LocksOf, SM!HasEntry

\* The entry of a key that is listed.
LEMMA ListedEntry ==
  ASSUME EntryInv, NEW k \in Keys, call[k] # None
  PROVE  k \in Listed <=>
           call[k].sess \in DOMAIN sessionLocks /\ LockOf(k) \in sessionLocks[call[k].sess]
BY DEF Listed, Recorded, SM!LocksOf, SM!HasEntry

\* A lock that is added is listed.
LEMMA AddLockTable ==
  ASSUME TypeOK, EntryInv, SyncInv, Running, Running', UNCHANGED call,
         NEW k \in Keys, call[k] # None, req'[k] \in {"added", "done"},
         \A j \in Keys \ {k} : req'[j] = req[j],
         SM!AddLock(call[k].sess, LockOf(k))
  PROVE  /\ Listed' = Listed \cup {k} /\ SyncInv'
         /\ \A s \in DOMAIN sessionLocks' : \A l \in sessionLocks'[s] : Entry(s, l)'
         /\ \A s \in DOMAIN file' : \A l \in file'[s] : Entry(s, l)'
<1> DEFINE s == call[k].sess
           m == LockOf(k)
<1>1. /\ DOMAIN sessionLocks' = DOMAIN sessionLocks \cup {s}
      /\ \A x \in DOMAIN sessionLocks' :
           sessionLocks'[x] = IF x = s THEN SM!LocksOf(s) \cup {m} ELSE sessionLocks[x]
      /\ file' = sessionLocks'
  BY DEF SM!AddLock, SM!WithEntry, SM!Save
<1>2. m.key = k
  BY DEF LockOf
<1>3. \A j \in Keys : LockOf(j)' = LockOf(j) /\ LockOf(j).key = j
  BY DEF LockOf
<1>4. \A x, l : Entry(x, l) => Entry(x, l)'
  BY <1>3 DEF Entry
<1>5. \A x \in DOMAIN sessionLocks' : \A l \in sessionLocks'[x] :
        (x = s /\ l = m) \/ (x \in DOMAIN sessionLocks /\ l \in sessionLocks[x])
  BY <1>1 DEF SM!LocksOf, SM!HasEntry
<1>6. \A x \in DOMAIN sessionLocks' : \A l \in sessionLocks'[x] : Entry(x, l)'
  <2> SUFFICES ASSUME NEW x \in DOMAIN sessionLocks', NEW l \in sessionLocks'[x]
               PROVE  Entry(x, l)'
    OBVIOUS
  <2>1. CASE x = s /\ l = m
    BY <2>1, <1>3 DEF Entry
  <2>2. CASE x \in DOMAIN sessionLocks /\ l \in sessionLocks[x]
    BY <2>2, <1>4 DEF EntryInv
  <2> QED
    BY <2>1, <2>2, <1>5
<1>7. Listed' = Listed \cup {k}
  <2>1. ASSUME NEW j \in Keys, call[j] # None
        PROVE  Recorded(j)' <=> Recorded(j) \/ j = k
    <3>1. CASE j = k
      BY <3>1, <1>1, <1>3 DEF Recorded, SM!LocksOf, SM!HasEntry
    <3>2. CASE j # k
      BY <3>2, <1>1, <1>3 DEF Recorded, SM!LocksOf, SM!HasEntry
    <3> QED
      BY <3>1, <3>2
  <2> QED
    BY <2>1 DEF Listed
<1>8. SyncInv'
  BY <1>1 DEF SyncInv
<1> QED
  BY <1>1, <1>6, <1>7, <1>8

\* A lock that is removed, from whatever session, unlists no other.
LEMMA RemoveLockTable ==
  ASSUME TypeOK, EntryInv, SyncInv, Running, Running', UNCHANGED <<call, req>>,
         NEW k \in Keys, NEW s, SM!RemoveLock(s, LockOf(k))
  PROVE  /\ Listed' \subseteq Listed /\ Listed \ {k} \subseteq Listed' /\ SyncInv'
         /\ \A x \in DOMAIN sessionLocks' : \A l \in sessionLocks'[x] : Entry(x, l)'
         /\ \A x \in DOMAIN file' : \A l \in file'[x] : Entry(x, l)'
<1> DEFINE m == LockOf(k)
<1>1. \A j \in Keys : LockOf(j)' = LockOf(j) /\ LockOf(j).key = j
  BY DEF LockOf
<1>2. \A x, l : Entry(x, l) => Entry(x, l)'
  BY <1>1 DEF Entry
<1>3. CASE UNCHANGED <<sessionLocks, file>>
  BY <1>2, <1>3, TableFrame DEF SyncInv, EntryInv
<1>4. CASE sessionLocks' = SM!WithEntry(s, SM!LocksOf(s) \ {m}) /\ s \in DOMAIN sessionLocks /\ file' = sessionLocks'
  <2>1. /\ DOMAIN sessionLocks' = DOMAIN sessionLocks
        /\ \A x \in DOMAIN sessionLocks' :
             sessionLocks'[x] = IF x = s THEN sessionLocks[s] \ {m} ELSE sessionLocks[x]
    BY <1>4 DEF SM!WithEntry, SM!LocksOf, SM!HasEntry
  <2>2. \A x \in DOMAIN sessionLocks' : \A l \in sessionLocks'[x] : Entry(x, l)'
    BY <2>1, <1>2 DEF EntryInv
  <2>3. ASSUME NEW j \in Keys, call[j] # None
        PROVE  /\ Recorded(j)' => Recorded(j)
               /\ Recorded(j) /\ j # k => Recorded(j)'
    <3>1. j # k => LockOf(j) # m
      BY <1>1
    <3> HIDE DEF m
    <3> QED
      BY <3>1, <2>1, <1>1 DEF Recorded, SM!LocksOf, SM!HasEntry
  <2>4. SyncInv'
    BY <1>4 DEF SyncInv
  <2> QED
    BY <1>4, <2>2, <2>3, <2>4 DEF Listed
<1> QED
  BY <1>3, <1>4 DEF SM!RemoveLock, SM!sessionVars, SM!HasEntry, SM!Save

\* The end of a session unlists its locks, and hands them over.
LEMMA DestroySessionTable ==
  ASSUME TypeOK, EntryInv, SyncInv, Running, Running', UNCHANGED <<call, req>>,
         NEW s \in Sessions, SM!DestroySession(s)
  PROVE  /\ Listed' = {k \in Listed : call[k].sess # s} /\ SyncInv'
         /\ \A k \in Listed : call[k].sess = s => LockOf(k) \in SM!LocksOf(s)
         /\ \A l \in SM!LocksOf(s) : Entry(s, l)
         /\ \A x \in DOMAIN sessionLocks' : \A l \in sessionLocks'[x] : Entry(x, l)'
         /\ \A x \in DOMAIN file' : \A l \in file'[x] : Entry(x, l)'
<1>1. \A j \in Keys : LockOf(j)' = LockOf(j)
  BY DEF LockOf
<1>2. \A x, l : Entry(x, l) => Entry(x, l)'
  BY <1>1 DEF Entry
<1>3. \A k \in Listed : call[k].sess = s => LockOf(k) \in SM!LocksOf(s)
  BY DEF Listed, Recorded
<1>4. \A l \in SM!LocksOf(s) : Entry(s, l)
  BY DEF SM!LocksOf, SM!HasEntry, EntryInv
<1>5. CASE ~SM!HasEntry(s)
  <2>1. UNCHANGED <<sessionLocks, file>>
    BY <1>5 DEF SM!DestroySession, SM!sessionVars
  <2>2. \A k \in Listed : call[k].sess # s
    BY <1>5, <1>3 DEF SM!LocksOf
  <2>3. Listed' = {k \in Listed : call[k].sess # s}
    BY <2>1, <2>2, TableFrame
  <2> QED
    BY <1>2, <1>3, <1>4, <2>1, <2>3 DEF SyncInv, EntryInv
<1>6. CASE SM!HasEntry(s)
  <2>1. /\ DOMAIN sessionLocks' = DOMAIN sessionLocks \ {s}
        /\ \A x \in DOMAIN sessionLocks' : sessionLocks'[x] = sessionLocks[x]
        /\ file' = sessionLocks'
    BY <1>6 DEF SM!DestroySession, SM!WithoutEntry, SM!Save
  <2>2. \A x \in DOMAIN sessionLocks' : \A l \in sessionLocks'[x] : Entry(x, l)'
    BY <2>1, <1>2 DEF EntryInv
  <2>3. \A k \in Keys : Recorded(k)' <=> Recorded(k) /\ call[k].sess # s
    BY <2>1, <1>1 DEF Recorded, SM!LocksOf, SM!HasEntry
  <2>4. Listed' = {k \in Listed : call[k].sess # s}
    BY <2>3 DEF Listed
  <2>5. SyncInv'
    BY <2>1 DEF SyncInv
  <2> QED
    BY <1>3, <1>4, <2>1, <2>2, <2>4, <2>5
<1> QED
  BY <1>5, <1>6

\* A new session has no locks.
LEMMA ConnectTable ==
  ASSUME TypeOK, EntryInv, SyncInv, Running, Running', UNCHANGED <<call, req>>,
         NEW s \in Sessions, SM!CreateSession(s)
  PROVE  /\ Listed' = Listed /\ SyncInv'
         /\ \A x \in DOMAIN sessionLocks' : \A l \in sessionLocks'[x] : Entry(x, l)'
         /\ \A x \in DOMAIN file' : \A l \in file'[x] : Entry(x, l)'
<1>1. \A j \in Keys : LockOf(j)' = LockOf(j)
  BY DEF LockOf
<1>2. \A x, l : Entry(x, l) => Entry(x, l)'
  BY <1>1 DEF Entry
<1>3. /\ DOMAIN sessionLocks' = DOMAIN sessionLocks \cup {s}
      /\ \A x \in DOMAIN sessionLocks' :
           sessionLocks'[x] = IF x \in DOMAIN sessionLocks THEN sessionLocks[x] ELSE {}
      /\ file' = file
  BY DEF SM!CreateSession, SM!WithEntry, SM!LocksOf, SM!HasEntry
<1>4. \A x \in DOMAIN sessionLocks' : \A l \in sessionLocks'[x] : Entry(x, l)'
  BY <1>2, <1>3 DEF EntryInv
<1>5. \A k \in Keys : Recorded(k)' <=> Recorded(k)
  BY <1>1, <1>3 DEF Recorded, SM!LocksOf, SM!HasEntry
<1>6. SyncInv'
  BY <1>3 DEF SyncInv
<1> QED
  BY <1>2, <1>3, <1>4, <1>5, <1>6 DEF Listed, EntryInv

\* A call that begins has no locks yet.
LEMMA LockCallTable ==
  ASSUME TypeOK, CallInv, EntryInv, NEW k \in Keys, NEW c \in Calls, LockCall(k, c)
  PROVE  /\ Listed' = Listed /\ Saved' = Saved /\ k \notin Listed
         /\ \A x, l : Entry(x, l) => Entry(x, l)' /\ l.key # k /\ LockOf(l.key)' = LockOf(l.key)
<1>1. /\ call[k] = None /\ req[k] = "none" /\ call'[k] = c /\ c # None
      /\ \A j \in Keys \ {k} : call'[j] = call[j] /\ req'[j] = req[j]
      /\ UNCHANGED <<sessionLocks, file>>
  BY ConstantsAssumption DEF LockCall, CallInv, TypeOK, smVars
<1>2. \A j \in Keys \ {k} : LockOf(j)' = LockOf(j)
  BY <1>1 DEF LockOf
<1>3. \A x, l : Entry(x, l) => Entry(x, l)' /\ l.key # k /\ LockOf(l.key)' = LockOf(l.key)
  BY <1>1, <1>2 DEF Entry
<1>4. k \notin Listed /\ k \notin Saved
  BY <1>1 DEF Listed, Saved
<1>5. LockOf(k)'.key = k
  BY DEF LockOf
<1>6. k \notin Listed' /\ k \notin Saved'
  <2>1. \A x : ~Entry(x, LockOf(k)')
    BY <1>1, <1>5 DEF Entry
  <2> QED
    BY <1>1, <2>1 DEF Listed, Saved, Recorded, InFile, SM!LocksOf, SM!HasEntry, EntryInv
<1>7. \A j \in Keys \ {k} : (Recorded(j)' <=> Recorded(j)) /\ (InFile(j)' <=> InFile(j))
  BY <1>1, <1>2 DEF Recorded, InFile, SM!LocksOf, SM!HasEntry
<1> QED
  BY <1>1, <1>3, <1>4, <1>6, <1>7 DEF Listed, Saved

\* New finds in the table what the file held.
LEMMA RestartTable ==
  ASSUME SM!Load, UNCHANGED call
  PROVE  /\ Listed' = Saved /\ Saved' = Saved /\ SyncInv'
<1>1. sessionLocks' = file /\ file' = file
  BY DEF SM!Load
<1>2. \A k \in Keys : LockOf(k)' = LockOf(k)
  BY DEF LockOf
<1> QED
  BY <1>1, <1>2 DEF Listed, Saved, Recorded, InFile, SM!LocksOf, SM!HasEntry, SyncInv

-----------------------------------------------------------------------------
(* Types, entries and loading.                                             *)

\* The part of TypeOK that does not speak of the lock manager.
RestTypeOK ==
  /\ TM!TypeOK /\ SM!TypeOK
  /\ up \in {"up", "loading", "down", "panicked", "failed"}
  /\ noClearOnDisconnect \in BOOLEAN
  /\ toLoad \subseteq Sessions \X Locks
  /\ conn \in [Sessions -> {"new", "live", "ending", "ended"}]
  /\ todo \in [Sessions -> SUBSET Locks] /\ todoTimer \in [Sessions -> SUBSET Locks]
  /\ call \in [Keys -> Calls \cup {None}]
  /\ req \in [Keys -> {"none", "waiting", "granted", "added", "done"}]
  /\ unl \in [Keys -> {"none", "timer", "mgr", "remove"}]
  /\ unlSess \in [Keys -> Sessions \cup {None}]
  /\ ren \in [Keys -> {"none", "stop", "arm"}]
  /\ cb \in [Keys -> {"none", "unlock", "record", "timer"}]
  /\ acked \subseteq Keys /\ asked \subseteq Keys /\ freed \subseteq Keys
  /\ crashes \in 0..MaxCrashes

\* The two parts make up TypeOK.
LEMMA TypeSplit == RestTypeOK /\ ManagerTypeOK => TypeOK
<1> SUFFICES ASSUME RestTypeOK, ManagerTypeOK PROVE TypeOK
  OBVIOUS
<1>1. \A n \in Names : LM!IsInjective(queue[n]) /\ LM!ToSet(queue[n]) \subseteq Keys
  <2> TAKE n \in Names
  <2>1. queue[n] \in Seq(Keys) /\ LM!IsInjective(queue[n])
    BY DEF ManagerTypeOK
  <2>2. \A i \in DOMAIN queue[n] : queue[n][i] \in Keys
    BY <2>1
  <2> QED
    BY <2>1, <2>2 DEF LM!ToSet
<1>2. held \in [Names -> SUBSET Keys] /\ cap \in [Names -> Sizes \cup {0}]
  BY DEF ManagerTypeOK
<1> QED
  BY <1>1, <1>2 DEF TypeOK, RestTypeOK

\* TypeSplit, of the next state.
LEMMA TypeSplitNext == (RestTypeOK /\ ManagerTypeOK => TypeOK)'
BY TypeSplit, PTL

\* Steps that change no entry.
LEMMA EntryFrame ==
  ASSUME EntryInv, UNCHANGED <<sessionLocks, file, todo, todoTimer, call>>,
         asked \subseteq asked',
         \A j \in Keys : req[j] \in {"added", "done"} => req'[j] \in {"added", "done"}
  PROVE  EntryInv'
<1>1. \A x, l : Entry(x, l) => Entry(x, l)'
  BY DEF Entry, LockOf
<1> QED
  BY <1>1 DEF EntryInv

\* A lock that a clean-up unlocks.
LEMMA TodoFacts ==
  ASSUME EntryInv, NEW s \in Sessions, NEW l \in todo[s] \cup todoTimer[s]
  PROVE  /\ l.key \in Keys /\ call[l.key] # None /\ call[l.key].sess = s
         /\ l = LockOf(l.key) /\ l.key \in asked /\ req[l.key] \in {"added", "done"}
BY DEF EntryInv, Entry

\* A lock that New loads.
LEMMA LoadFacts ==
  ASSUME TypeOK, LoadInv, PhaseInv, NEW p \in toLoad
  PROVE  /\ up = "loading"
         /\ p[2].key \in Keys /\ call[p[2].key] # None /\ p[1] = call[p[2].key].sess
         /\ p[2] = LockOf(p[2].key) /\ req[p[2].key] = "done"
         /\ p[2].key \in Listed /\ p[2].key \notin Owners /\ timer[p[2].key] = "none"
         /\ p = <<p[1], p[2]>> /\ p[1] \in Sessions /\ p[2] \in Locks
<1>1. up = "loading" /\ Entry(p[1], p[2]) /\ p[2].key \in Listed \ Owners /\ timer[p[2].key] = "none"
  BY DEF LoadInv
<1>2. p \in Sessions \X Locks
  BY DEF TypeOK
<1>3. req[p[2].key] = "done"
  BY <1>1 DEF PhaseInv, Entry
<1> QED
  BY <1>1, <1>2, <1>3 DEF Entry

\* A lock that New loads is held, or it is dropped.
LEMMA LoadLockStep ==
  ASSUME TypeOK, ManagerInv, EntryInv, LoadInv, PhaseInv, SyncInv,
         NEW p \in toLoad, LoadLock(p[1], p[2])
  PROVE  /\ ManagerInv' /\ SyncInv'
         /\ \A x \in DOMAIN sessionLocks' : \A l \in sessionLocks'[x] : Entry(x, l)'
         /\ \A x \in DOMAIN file' : \A l \in file'[x] : Entry(x, l)'
         /\ Listed' \subseteq Listed /\ Listed \ {p[2].key} \subseteq Listed'
         /\ Owners \subseteq Owners' /\ Owners' \subseteq Owners \cup {p[2].key}
         /\ \/ p[2].key \in Owners' /\ Listed' = Listed /\ UNCHANGED asked
            \/ p[2].key \in asked' /\ Owners' = Owners
<1> DEFINE k == p[2].key
<1>1. /\ up = "loading" /\ k \in Keys /\ call[k] # None /\ p[1] = call[k].sess
      /\ p[2] = LockOf(k) /\ req[k] = "done" /\ k \notin Owners
  BY LoadFacts
<1> HIDE DEF k
<1>2. /\ p[2].name = call[k].name /\ p[2].size = call[k].size /\ p[2].key = k
      /\ call[k].name \in Names /\ call[k].size \in Sizes /\ call[k].sess \in Sessions
  BY <1>1, CallFacts DEF LockOf
<1>3. UNCHANGED <<call, req>> /\ Running /\ Running'
  BY <1>1 DEF LoadLock, lockVars, Running
<1>4. CASE LM!Grant(p[2].name, p[2].key, p[2].size) /\ UNCHANGED <<smVars, asked>>
  <2>1. k \notin held[call[k].name]
    BY <1>1 DEF Owners, Held
  <2>2. /\ ManagerInv'
        /\ \A m \in Names : held'[m] = IF m = call[k].name THEN held[m] \cup {k} ELSE held[m]
    BY <1>1, <1>2, <1>3, <1>4, <2>1, GrantStep, ZenonT(30)
  <2>3. ASSUME NEW j \in Keys
        PROVE  j \in Owners' <=> j \in Owners \/ j = k
    <3>1. CASE call[j] = None
      BY <3>1, <1>1, <1>3 DEF Owners, Held
    <3>2. CASE call[j] # None
      <4>1. call[j].name \in Names /\ call'[j] = call[j] /\ (j = k => call[j].name = call[k].name)
        BY <3>2, <1>3, CallFacts
      <4> QED
        BY <4>1, <3>2, <1>1, <2>2, ZenonT(30) DEF Owners, Held
    <3> QED
      BY <3>1, <3>2
  <2>4. Listed' = Listed
    BY <1>3, <1>4, TableFrame DEF smVars
  <2>5. \A x, l : Entry(x, l) => Entry(x, l)'
    BY <1>3 DEF Entry, LockOf
  <2> QED
    <3>1. Owners' = Owners \cup {k}
      BY <1>1, <2>3 DEF Owners
    <3> QED
      BY <1>2, <1>3, <1>4, <2>2, <3>1, <2>4, <2>5 DEF SyncInv, EntryInv, smVars
<1>5. CASE SM!RemoveLock(p[1], p[2]) /\ asked' = asked \cup {p[2].key} /\ UNCHANGED lmVars
  <2>1. ManagerInv' /\ Owners' = Owners
    BY <1>3, <1>5, ManagerFrame, OwnersFrame DEF lmVars
  <2>2. SM!RemoveLock(p[1], LockOf(k))
    BY <1>1, <1>5
  <2> QED
    BY <1>1, <1>2, <1>3, <1>5, <2>1, <2>2, RemoveLockTable
<1> QED
  BY <1>4, <1>5 DEF LoadLock

\* SavedIsListed, of the next state.
LEMMA SavedIsListedNext ==
  ASSUME SyncInv', Running'
  PROVE  Saved' = Listed'
BY DEF SyncInv, Listed, Saved, Recorded, InFile, LockOf, SM!LocksOf, SM!HasEntry

\* While the server takes calls no lock has more believers than slots: each of
\* them holds it.
LEMMA ExcludeWhenUp ==
  ASSUME TypeOK, ManagerInv, CallInv, KeptInv, up = "up", ~noClearOnDisconnect
  PROVE  ClientsExclude
<1> SUFFICES ASSUME NEW k \in acked \ asked
             PROVE  Cardinality({j \in acked \ asked : call[j].name = call[k].name}) <= call[k].size
  BY DEF ClientsExclude
<1> DEFINE B == {j \in acked \ asked : call[j].name = call[k].name}
           n == call[k].name
<1>1. k \in Keys /\ call[k] # None /\ n \in Names
  BY CallFacts DEF TypeOK, CallInv
<1>2. \A j \in acked \ asked : j \in held[call[j].name]
  BY DEF KeptInv, Owners, Held
<1>3. B \subseteq held[n]
  BY <1>2
<1>4. IsFiniteSet(held[n]) /\ Cardinality(held[n]) <= cap[n] /\ call[k].size = cap[n]
  BY <1>1, <1>2 DEF ManagerInv, SlotInv, HolderInv
<1>5. cap[n] \in Nat
  BY <1>1, CapNat DEF ManagerInv
<1> HIDE DEF B
<1>6. Cardinality(B) <= Cardinality(held[n]) /\ Cardinality(B) \in Nat /\ Cardinality(held[n]) \in Nat
  BY <1>3, <1>4, FS_Subset, FS_CardinalityType
<1>7. Cardinality(B) <= call[k].size
  BY <1>4, <1>5, <1>6
<1> QED
  BY <1>7 DEF B

\* The same as a formula, and of the next state.
LEMMA ExcludeFact ==
  TypeOK /\ ManagerInv /\ CallInv /\ KeptInv /\ up = "up" /\ ~noClearOnDisconnect => ClientsExclude
BY ExcludeWhenUp

\* ExcludeFact, of the next state.
LEMMA ExcludeWhenUpNext ==
  (TypeOK /\ ManagerInv /\ CallInv /\ KeptInv /\ up = "up" /\ ~noClearOnDisconnect => ClientsExclude)'
BY ExcludeFact, PTL

\* Nobody who is told nothing new believes in more locks.
LEMMA ExcludeFrame ==
  ASSUME TypeOK, CallInv, ExcludeInv, acked' = acked, asked \subseteq asked', UNCHANGED noClearOnDisconnect,
         \A j \in acked : call'[j] = call[j]
  PROVE  ExcludeInv'
<1> SUFFICES ASSUME ~noClearOnDisconnect PROVE ClientsExclude'
  BY DEF ExcludeInv
<1> SUFFICES ASSUME NEW k \in acked \ asked'
             PROVE  Cardinality({j \in acked \ asked' : call'[j].name = call'[k].name}) <= call'[k].size
  BY DEF ClientsExclude
<1> DEFINE B == {j \in acked \ asked : call[j].name = call[k].name}
           C == {j \in acked \ asked' : call'[j].name = call'[k].name}
<1>1. Cardinality(B) <= call[k].size /\ call'[k] = call[k]
  BY DEF ExcludeInv, ClientsExclude
<1>2. C \subseteq B /\ B \subseteq acked
  OBVIOUS
<1> HIDE DEF B, C
<1>3. IsFiniteSet(acked)
  BY DEF ExcludeInv
<1>4. IsFiniteSet(B)
  BY <1>2, <1>3, FS_Subset
<1>5. Cardinality(C) <= Cardinality(B)
  BY <1>2, <1>4, FS_Subset
<1>6. Cardinality(B) \in Nat /\ Cardinality(C) \in Nat
  BY <1>2, <1>4, FS_Subset, FS_CardinalityType
<1>7. call[k].size \in Nat
  <2>1. call[k] # None
    BY DEF CallInv, TypeOK
  <2>2. call[k].size \in Sizes
    BY <2>1, CallFacts DEF TypeOK
  <2> QED
    BY <2>2
<1>8. Cardinality(C) <= call'[k].size
  BY <1>1, <1>5, <1>6, <1>7
<1> QED
  BY <1>8 DEF C

-----------------------------------------------------------------------------
(* Each part is preserved by every step that the process survives.         *)

LiveNext ==
  \/ \E k \in Keys, c \in Calls : LockCall(k, c)
  \/ \E k \in Keys :
       \/ GiveUp(k) \/ RenewCall(k)
       \/ AddLock(k) \/ AddTimer(k) \/ UnlockTimer(k) \/ UnlockMgr(k) \/ UnlockRemove(k)
       \/ RenewStop(k) \/ RenewArm(k)
       \/ Fire(k) \/ CallbackUnlock(k) \/ CallbackRecord(k) \/ CallbackTimer(k)
  \/ \E k \in Keys, s \in Sessions : UnlockCall(k, s)
  \/ \E s \in Sessions :
       \/ Connect(s) \/ Disconnect(s) \/ DestroyRecords(s)
       \/ \E l \in todo[s] : DestroyUnlock(s, l)
       \/ \E l \in todoTimer[s] : DestroyTimer(s, l)
  \/ \E p \in toLoad : LoadLock(p[1], p[2])
  \/ LoadDone \/ Restart
  \/ UNCHANGED vars

\* The lock manager's invariants.
LEMMA ManagerLive ==
  ASSUME TypeOK, ManagerInv, CallInv, EntryInv, LoadInv, PhaseInv, SyncInv, LiveNext
  PROVE  ManagerInv'
<1> USE DEF lmVars, tmVars, smVars, loadVars, connVars, lockVars, opVars, histVars
<1>1. ASSUME NEW k \in Keys, NEW c \in Calls, LockCall(k, c) PROVE ManagerInv'
  BY <1>1, LockCallStep
<1>2. ASSUME NEW k \in Keys, GiveUp(k) PROVE ManagerInv'
  BY <1>2, GiveUpStep
<1>3. ASSUME NEW k \in Keys, RenewCall(k) PROVE ManagerInv'
  BY <1>3, ManagerFrame DEF RenewCall
<1>4. ASSUME NEW k \in Keys, NEW s \in Sessions, UnlockCall(k, s) PROVE ManagerInv'
  BY <1>4, ManagerFrame DEF UnlockCall
<1>5. ASSUME NEW s \in Sessions, Connect(s) PROVE ManagerInv'
  BY <1>5, ManagerFrame DEF Connect
<1>6. ASSUME NEW s \in Sessions, Disconnect(s) PROVE ManagerInv'
  BY <1>6, ManagerFrame DEF Disconnect
<1>7. ASSUME NEW k \in Keys, AddLock(k) PROVE ManagerInv'
  <2>1. \A j \in Keys : req[j] = "waiting" => req'[j] = "waiting" \/ Held(j)
    BY <1>7 DEF AddLock, Answer, TypeOK
  <2> QED
    BY <1>7, <2>1, ManagerFrame DEF AddLock, Answer
<1>8. ASSUME NEW k \in Keys, AddTimer(k) PROVE ManagerInv'
  <2>1. \A j \in Keys : req[j] = "waiting" => req'[j] = "waiting"
    BY <1>8 DEF AddTimer, Answer, TypeOK
  <2> QED
    BY <1>8, <2>1, ManagerFrame DEF AddTimer
<1>9. ASSUME NEW k \in Keys, UnlockTimer(k) PROVE ManagerInv'
  BY <1>9, ManagerFrame DEF UnlockTimer
<1>10. ASSUME NEW k \in Keys, UnlockMgr(k) PROVE ManagerInv'
  <2>1. call[k] # None
    BY <1>10 DEF UnlockMgr, CallInv
  <2> QED
    BY <1>10, <2>1, MgrUnlockStep DEF UnlockMgr
<1>11. ASSUME NEW k \in Keys, UnlockRemove(k) PROVE ManagerInv'
  BY <1>11, ManagerFrame DEF UnlockRemove
<1>12. ASSUME NEW k \in Keys, RenewStop(k) PROVE ManagerInv'
  BY <1>12, ManagerFrame DEF RenewStop
<1>13. ASSUME NEW k \in Keys, RenewArm(k) PROVE ManagerInv'
  BY <1>13, ManagerFrame DEF RenewArm
<1>14. ASSUME NEW k \in Keys, Fire(k) PROVE ManagerInv'
  BY <1>14, ManagerFrame DEF Fire
<1>15. ASSUME NEW k \in Keys, CallbackUnlock(k) PROVE ManagerInv'
  <2>1. call[k] # None
    BY <1>15 DEF CallbackUnlock, CallInv
  <2> QED
    BY <1>15, <2>1, MgrUnlockStep DEF CallbackUnlock
<1>16. ASSUME NEW k \in Keys, CallbackRecord(k) PROVE ManagerInv'
  BY <1>16, ManagerFrame DEF CallbackRecord
<1>17. ASSUME NEW k \in Keys, CallbackTimer(k) PROVE ManagerInv'
  BY <1>17, ManagerFrame DEF CallbackTimer
<1>18. ASSUME NEW s \in Sessions, DestroyRecords(s) PROVE ManagerInv'
  BY <1>18, ManagerFrame DEF DestroyRecords
<1>19. ASSUME NEW s \in Sessions, NEW l \in todo[s], DestroyUnlock(s, l)
      PROVE ManagerInv'
  BY <1>19, TodoFacts, MgrUnlockStep DEF DestroyUnlock
<1>20. ASSUME NEW s \in Sessions, NEW l \in todoTimer[s], DestroyTimer(s, l)
      PROVE ManagerInv'
  BY <1>20, ManagerFrame DEF DestroyTimer
<1>21. ASSUME NEW p \in toLoad, LoadLock(p[1], p[2]) PROVE ManagerInv'
  BY <1>21, LoadLockStep
<1>22. ASSUME LoadDone PROVE ManagerInv'
  BY <1>22, ManagerFrame DEF LoadDone
<1>23. ASSUME Restart PROVE ManagerInv'
  BY <1>23, ManagerFrame DEF Restart
<1>24. CASE UNCHANGED vars
  BY <1>24, ManagerFrame DEF vars
<1> HIDE DEF lmVars, tmVars, smVars, loadVars, connVars, lockVars, opVars, histVars
<1> QED
  BY <1>1, <1>2, <1>3, <1>4, <1>5, <1>6, <1>7, <1>8, <1>9, <1>10, <1>11, <1>12, <1>13,
     <1>14, <1>15, <1>16, <1>17, <1>18, <1>19, <1>20, <1>21, <1>22, <1>23, <1>24
  DEF LiveNext

\* The types of what is not the lock manager's.
LEMMA TypesLive ==
  ASSUME TypeOK, CallInv, EntryInv, LoadInv, PhaseInv, LiveNext
  PROVE  RestTypeOK'
<1> USE DEF TypeOK, RestTypeOK, TM!Add, TM!Remove, TM!ResetStop, TM!ResetArm, TM!Fire,
            lmVars, tmVars, smVars, loadVars, connVars, lockVars, opVars, histVars
<1>1. ASSUME NEW k \in Keys, NEW c \in Calls, LockCall(k, c) PROVE RestTypeOK'
  <2>1. SM!TypeOK'
    BY <1>1 DEF LockCall, SM!TypeOK, SM!IsTable
  <2> QED
    BY <1>1, <2>1 DEF LockCall, TM!TypeOK, TM!TimerStates
<1>2. ASSUME NEW k \in Keys, GiveUp(k) PROVE RestTypeOK'
  <2>1. SM!TypeOK'
    BY <1>2 DEF GiveUp, SM!TypeOK, SM!IsTable
  <2> QED
    BY <1>2, <2>1 DEF GiveUp, TM!TypeOK, TM!TimerStates
<1>3. ASSUME NEW k \in Keys, RenewCall(k) PROVE RestTypeOK'
  <2>1. SM!TypeOK'
    BY <1>3 DEF RenewCall, SM!TypeOK, SM!IsTable
  <2> QED
    BY <1>3, <2>1 DEF RenewCall, TM!TypeOK, TM!TimerStates
<1>4. ASSUME NEW k \in Keys, NEW s \in Sessions, UnlockCall(k, s) PROVE RestTypeOK'
  <2>1. SM!TypeOK'
    BY <1>4 DEF UnlockCall, SM!TypeOK, SM!IsTable
  <2> QED
    BY <1>4, <2>1 DEF UnlockCall, TM!TypeOK, TM!TimerStates
<1>5. ASSUME NEW s \in Sessions, Connect(s) PROVE RestTypeOK'
  <2>1. SM!TypeOK'
    BY <1>5, TableTypes DEF Connect
  <2> QED
    BY <1>5, <2>1 DEF Connect, TM!TypeOK
<1>6. ASSUME NEW s \in Sessions, Disconnect(s) PROVE RestTypeOK'
  <2>1. SM!TypeOK'
    BY <1>6 DEF Disconnect, SM!TypeOK, SM!IsTable
  <2> QED
    BY <1>6, <2>1 DEF Disconnect, TM!TypeOK, TM!TimerStates
<1>7. ASSUME NEW k \in Keys, AddLock(k) PROVE RestTypeOK'
  <2>1. call[k].sess \in Sessions /\ LockOf(k) \in Locks
    BY <1>7, CallFacts DEF AddLock, CallInv, Held
  <2>2. SM!TypeOK'
    BY <1>7, <2>1, TableTypes DEF AddLock
  <2> QED
    BY <1>7, <2>2 DEF AddLock, Answer, TM!TypeOK
<1>8. ASSUME NEW k \in Keys, AddTimer(k) PROVE RestTypeOK'
  <2>1. SM!TypeOK'
    BY <1>8 DEF AddTimer, Answer, SM!TypeOK, SM!IsTable
  <2> QED
    BY <1>8, <2>1 DEF AddTimer, Answer, TM!TypeOK, TM!TimerStates
<1>9. ASSUME NEW k \in Keys, UnlockTimer(k) PROVE RestTypeOK'
  <2>1. SM!TypeOK'
    BY <1>9 DEF UnlockTimer, SM!TypeOK, SM!IsTable
  <2> QED
    BY <1>9, <2>1 DEF UnlockTimer, TM!TypeOK, TM!TimerStates
<1>10. ASSUME NEW k \in Keys, UnlockMgr(k) PROVE RestTypeOK'
  <2>1. SM!TypeOK'
    BY <1>10 DEF UnlockMgr, SM!TypeOK, SM!IsTable
  <2> QED
    BY <1>10, <2>1 DEF UnlockMgr, TM!TypeOK, TM!TimerStates
<1>11. ASSUME NEW k \in Keys, UnlockRemove(k) PROVE RestTypeOK'
  <2>1. unlSess[k] \in Sessions /\ LockOf(k) \in Locks
    BY <1>11, CallFacts DEF UnlockRemove, CallInv, SM!HasEntry, SM!TypeOK, SM!IsTable
  <2>2. SM!TypeOK'
    BY <1>11, <2>1, TableTypes DEF UnlockRemove
  <2> QED
    BY <1>11, <2>2 DEF UnlockRemove, TM!TypeOK
<1>12. ASSUME NEW k \in Keys, RenewStop(k) PROVE RestTypeOK'
  <2>1. SM!TypeOK'
    BY <1>12 DEF RenewStop, SM!TypeOK, SM!IsTable
  <2> QED
    BY <1>12, <2>1 DEF RenewStop, TM!TypeOK, TM!TimerStates
<1>13. ASSUME NEW k \in Keys, RenewArm(k) PROVE RestTypeOK'
  <2>1. SM!TypeOK'
    BY <1>13 DEF RenewArm, SM!TypeOK, SM!IsTable
  <2> QED
    BY <1>13, <2>1 DEF RenewArm, TM!TypeOK, TM!TimerStates
<1>14. ASSUME NEW k \in Keys, Fire(k) PROVE RestTypeOK'
  <2>1. SM!TypeOK'
    BY <1>14 DEF Fire, SM!TypeOK, SM!IsTable
  <2> QED
    BY <1>14, <2>1 DEF Fire, TM!TypeOK, TM!TimerStates
<1>15. ASSUME NEW k \in Keys, CallbackUnlock(k) PROVE RestTypeOK'
  <2>1. SM!TypeOK'
    BY <1>15 DEF CallbackUnlock, SM!TypeOK, SM!IsTable
  <2> QED
    BY <1>15, <2>1 DEF CallbackUnlock, TM!TypeOK, TM!TimerStates
<1>16. ASSUME NEW k \in Keys, CallbackRecord(k) PROVE RestTypeOK'
  <2>1. call[k].sess \in Sessions /\ LockOf(k) \in Locks
    BY <1>16, CallFacts DEF CallbackRecord, CallInv
  <2>2. SM!TypeOK'
    BY <1>16, <2>1, TableTypes DEF CallbackRecord
  <2> QED
    BY <1>16, <2>2 DEF CallbackRecord, TM!TypeOK
<1>17. ASSUME NEW k \in Keys, CallbackTimer(k) PROVE RestTypeOK'
  <2>1. SM!TypeOK'
    BY <1>17 DEF CallbackTimer, SM!TypeOK, SM!IsTable
  <2> QED
    BY <1>17, <2>1 DEF CallbackTimer, TM!TypeOK, TM!TimerStates
<1>18. ASSUME NEW s \in Sessions, DestroyRecords(s) PROVE RestTypeOK'
  <2>1. SM!TypeOK' /\ SM!LocksOf(s) \subseteq Locks
    <3>1. SM!LocksOf(s) \subseteq Locks
      BY DEF SM!TypeOK, SM!IsTable, SM!LocksOf, SM!HasEntry
    <3> QED
      BY <1>18, <3>1, TableTypes DEF DestroyRecords
  <2>2. {l.key : l \in SM!LocksOf(s)} \subseteq Keys
    BY <2>1 DEF Locks
  <2> QED
    BY <1>18, <2>1, <2>2 DEF DestroyRecords, TM!TypeOK
<1>19. ASSUME NEW s \in Sessions, NEW l \in todo[s], DestroyUnlock(s, l)
      PROVE RestTypeOK'
  <2>1. SM!TypeOK'
    BY <1>19 DEF DestroyUnlock, SM!TypeOK, SM!IsTable
  <2> QED
    BY <1>19, <2>1 DEF DestroyUnlock, TM!TypeOK
<1>20. ASSUME NEW s \in Sessions, NEW l \in todoTimer[s], DestroyTimer(s, l)
      PROVE RestTypeOK'
  <2>1. SM!TypeOK' /\ l.key \in Keys
    BY <1>20, TodoFacts DEF DestroyTimer, SM!TypeOK, SM!IsTable
  <2> QED
    BY <1>20, <2>1 DEF DestroyTimer, TM!TypeOK, TM!TimerStates
<1>21. ASSUME NEW p \in toLoad, LoadLock(p[1], p[2]) PROVE RestTypeOK'
  <2>1. /\ p[1] \in Sessions /\ p[2] \in Locks /\ p[2].key \in Keys
    BY LoadFacts
  <2>2. SM!TypeOK'
    BY <1>21, <2>1, TableTypes DEF LoadLock
  <2> QED
    BY <1>21, <2>1, <2>2 DEF LoadLock, TM!TypeOK, TM!TimerStates
<1>22. ASSUME LoadDone PROVE RestTypeOK'
  <2>1. SM!TypeOK'
    BY <1>22 DEF LoadDone, SM!TypeOK, SM!IsTable
  <2> QED
    BY <1>22, <2>1 DEF LoadDone, TM!TypeOK, TM!TimerStates
<1>23. ASSUME Restart PROVE RestTypeOK'
  <2>1. SM!TypeOK'
    BY <1>23 DEF Restart, SM!Load, SM!TypeOK, SM!IsTable
  <2>2. toLoad' \subseteq Sessions \X Locks
    BY <1>23 DEF Restart, SM!TypeOK, SM!IsTable
  <2> QED
    BY <1>23, <2>1, <2>2 DEF Restart, TM!TypeOK
<1>24. CASE UNCHANGED vars
  <2>1. SM!TypeOK'
    BY <1>24 DEF vars, SM!TypeOK, SM!IsTable
  <2> QED
    BY <1>24, <2>1 DEF vars, TM!TypeOK, TM!TimerStates
<1> HIDE DEF TypeOK, RestTypeOK, TM!Add, TM!Remove, TM!ResetStop, TM!ResetArm, TM!Fire,
             lmVars, tmVars, smVars, loadVars, connVars, lockVars, opVars, histVars
<1> QED
  BY <1>1, <1>2, <1>3, <1>4, <1>5, <1>6, <1>7, <1>8, <1>9, <1>10, <1>11, <1>12, <1>13,
     <1>14, <1>15, <1>16, <1>17, <1>18, <1>19, <1>20, <1>21, <1>22, <1>23, <1>24
  DEF LiveNext

\* Only keys whose call is over are acknowledged, timed, renewed and unlocked.
LEMMA CallsLive ==
  ASSUME TypeOK, CallInv, EntryInv, LoadInv, PhaseInv, LiveNext
  PROVE  CallInv'
<1> USE DEF TypeOK, CallInv, TM!TypeOK, TM!Add, TM!Remove, TM!ResetStop, TM!ResetArm,
            TM!Fire, lmVars, tmVars, smVars, loadVars, connVars, lockVars, opVars, histVars
<1>1. ASSUME NEW k \in Keys, NEW c \in Calls, LockCall(k, c) PROVE CallInv'
  BY <1>1, ConstantsAssumption DEF LockCall
<1>2. ASSUME NEW k \in Keys, GiveUp(k) PROVE CallInv'
  BY <1>2 DEF GiveUp
<1>3. ASSUME NEW k \in Keys, RenewCall(k) PROVE CallInv'
  BY <1>3 DEF RenewCall, Known
<1>4. ASSUME NEW k \in Keys, NEW s \in Sessions, UnlockCall(k, s) PROVE CallInv'
  BY <1>4 DEF UnlockCall, Known
<1>5. ASSUME NEW s \in Sessions, Connect(s) PROVE CallInv'
  BY <1>5 DEF Connect
<1>6. ASSUME NEW s \in Sessions, Disconnect(s) PROVE CallInv'
  BY <1>6 DEF Disconnect
<1>7. ASSUME NEW k \in Keys, AddLock(k) PROVE CallInv'
  <2>1. call[k] # None
    BY <1>7 DEF AddLock, Held
  <2> QED
    BY <1>7, <2>1 DEF AddLock, Answer
<1>8. ASSUME NEW k \in Keys, AddTimer(k) PROVE CallInv'
  BY <1>8 DEF AddTimer, Answer
<1>9. ASSUME NEW k \in Keys, UnlockTimer(k) PROVE CallInv'
  BY <1>9 DEF UnlockTimer
<1>10. ASSUME NEW k \in Keys, UnlockMgr(k) PROVE CallInv'
  BY <1>10 DEF UnlockMgr
<1>11. ASSUME NEW k \in Keys, UnlockRemove(k) PROVE CallInv'
  BY <1>11 DEF UnlockRemove
<1>12. ASSUME NEW k \in Keys, RenewStop(k) PROVE CallInv'
  BY <1>12 DEF RenewStop
<1>13. ASSUME NEW k \in Keys, RenewArm(k) PROVE CallInv'
  BY <1>13 DEF RenewArm
<1>14. ASSUME NEW k \in Keys, Fire(k) PROVE CallInv'
  BY <1>14 DEF Fire
<1>15. ASSUME NEW k \in Keys, CallbackUnlock(k) PROVE CallInv'
  BY <1>15 DEF CallbackUnlock
<1>16. ASSUME NEW k \in Keys, CallbackRecord(k) PROVE CallInv'
  BY <1>16 DEF CallbackRecord
<1>17. ASSUME NEW k \in Keys, CallbackTimer(k) PROVE CallInv'
  BY <1>17 DEF CallbackTimer
<1>18. ASSUME NEW s \in Sessions, DestroyRecords(s) PROVE CallInv'
  BY <1>18 DEF DestroyRecords
<1>19. ASSUME NEW s \in Sessions, NEW l \in todo[s], DestroyUnlock(s, l) PROVE CallInv'
  BY <1>19 DEF DestroyUnlock
<1>20. ASSUME NEW s \in Sessions, NEW l \in todoTimer[s], DestroyTimer(s, l)
      PROVE CallInv'
  <2>1. l.key \in Keys /\ req[l.key] \in {"added", "done"}
    BY <1>20, TodoFacts
  <2> QED
    BY <1>20, <2>1 DEF DestroyTimer
<1>21. ASSUME NEW p \in toLoad, LoadLock(p[1], p[2]) PROVE CallInv'
  <2>1. p[2].key \in Keys /\ req[p[2].key] = "done" /\ timer[p[2].key] = "none"
    BY LoadFacts
  <2> QED
    BY <1>21, <2>1 DEF LoadLock
<1>22. ASSUME LoadDone PROVE CallInv'
  BY <1>22 DEF LoadDone
<1>23. ASSUME Restart PROVE CallInv'
  BY <1>23 DEF Restart
<1>24. CASE UNCHANGED vars
  BY <1>24 DEF vars
<1> HIDE DEF TypeOK, CallInv, TM!TypeOK, TM!Add, TM!Remove, TM!ResetStop, TM!ResetArm,
             TM!Fire, lmVars, tmVars, smVars, loadVars, connVars, lockVars, opVars, histVars
<1> QED
  BY <1>1, <1>2, <1>3, <1>4, <1>5, <1>6, <1>7, <1>8, <1>9, <1>10, <1>11, <1>12, <1>13,
     <1>14, <1>15, <1>16, <1>17, <1>18, <1>19, <1>20, <1>21, <1>22, <1>23, <1>24
  DEF LiveNext

\* Sessions hold locks of their own calls.
LEMMA EntriesLive ==
  ASSUME TypeOK, ManagerInv, CallInv, EntryInv, LoadInv, PhaseInv, SyncInv, LiveNext
  PROVE  EntryInv'
<1> USE DEF lmVars, tmVars, smVars, loadVars, connVars, lockVars, opVars, histVars
<1>1. ASSUME NEW k \in Keys, NEW c \in Calls, LockCall(k, c) PROVE EntryInv'
  <2>1. \A x, m : Entry(x, m) => Entry(x, m)'
    BY <1>1, LockCallTable
  <2> QED
    BY <1>1, <2>1 DEF LockCall, EntryInv
<1>2. ASSUME NEW k \in Keys, GiveUp(k) PROVE EntryInv'
  BY <1>2, EntryFrame DEF GiveUp, TypeOK
<1>3. ASSUME NEW k \in Keys, RenewCall(k) PROVE EntryInv'
  BY <1>3, EntryFrame DEF RenewCall
<1>4. ASSUME NEW k \in Keys, NEW s \in Sessions, UnlockCall(k, s) PROVE EntryInv'
  BY <1>4, EntryFrame DEF UnlockCall
<1>5. ASSUME NEW s \in Sessions, Connect(s) PROVE EntryInv'
  <2>1. \A x, m : Entry(x, m) => Entry(x, m)'
    BY <1>5 DEF Connect, Entry, LockOf
  <2> QED
    BY <1>5, <2>1, ConnectTable DEF Connect, EntryInv, Running
<1>6. ASSUME NEW s \in Sessions, Disconnect(s) PROVE EntryInv'
  BY <1>6, EntryFrame DEF Disconnect
<1>7. ASSUME NEW k \in Keys, AddLock(k) PROVE EntryInv'
  <2>1. /\ call[k] # None /\ Running /\ Running' /\ UNCHANGED call
        /\ req'[k] \in {"added", "done"} /\ \A j \in Keys \ {k} : req'[j] = req[j]
    BY <1>7 DEF AddLock, Answer, CallInv, PhaseInv, Running, TypeOK
  <2>2. \A x, m : Entry(x, m) => Entry(x, m)'
    BY <2>1 DEF Entry, LockOf
  <2> QED
    BY <1>7, <2>1, <2>2, AddLockTable DEF AddLock, Answer, EntryInv
<1>8. ASSUME NEW k \in Keys, AddTimer(k) PROVE EntryInv'
  BY <1>8, EntryFrame DEF AddTimer, Answer, TypeOK
<1>9. ASSUME NEW k \in Keys, UnlockTimer(k) PROVE EntryInv'
  BY <1>9, EntryFrame DEF UnlockTimer
<1>10. ASSUME NEW k \in Keys, UnlockMgr(k) PROVE EntryInv'
  BY <1>10, EntryFrame DEF UnlockMgr
<1>11. ASSUME NEW k \in Keys, UnlockRemove(k) PROVE EntryInv'
  <2>1. Running /\ Running' /\ UNCHANGED <<call, req>>
    BY <1>11 DEF UnlockRemove, PhaseInv, Running
  <2>2. \A x, m : Entry(x, m) => Entry(x, m)'
    BY <2>1 DEF Entry, LockOf
  <2> QED
    BY <1>11, <2>1, <2>2, RemoveLockTable DEF UnlockRemove, EntryInv
<1>12. ASSUME NEW k \in Keys, RenewStop(k) PROVE EntryInv'
  BY <1>12, EntryFrame DEF RenewStop
<1>13. ASSUME NEW k \in Keys, RenewArm(k) PROVE EntryInv'
  BY <1>13, EntryFrame DEF RenewArm
<1>14. ASSUME NEW k \in Keys, Fire(k) PROVE EntryInv'
  BY <1>14, EntryFrame DEF Fire
<1>15. ASSUME NEW k \in Keys, CallbackUnlock(k) PROVE EntryInv'
  BY <1>15, EntryFrame DEF CallbackUnlock
<1>16. ASSUME NEW k \in Keys, CallbackRecord(k) PROVE EntryInv'
  <2>1. Running /\ Running' /\ UNCHANGED <<call, req>>
    BY <1>16 DEF CallbackRecord, PhaseInv, Running
  <2>2. \A x, m : Entry(x, m) => Entry(x, m)'
    BY <2>1 DEF Entry, LockOf
  <2> QED
    BY <1>16, <2>1, <2>2, RemoveLockTable DEF CallbackRecord, EntryInv
<1>17. ASSUME NEW k \in Keys, CallbackTimer(k) PROVE EntryInv'
  BY <1>17, EntryFrame DEF CallbackTimer
<1>18. ASSUME NEW s \in Sessions, DestroyRecords(s) PROVE EntryInv'
  <2>1. Running /\ Running' /\ UNCHANGED <<call, req>>
    BY <1>18 DEF DestroyRecords, Running
  <2>2. \A x, m : Entry(x, m) => Entry(x, m)'
    BY <2>1 DEF Entry, LockOf
  <2>3. \A m \in SM!LocksOf(s) : Entry(s, m)
    BY <1>18, <2>1, DestroySessionTable DEF DestroyRecords
  <2>4. /\ \A x \in DOMAIN sessionLocks' : \A m \in sessionLocks'[x] : Entry(x, m)'
        /\ \A x \in DOMAIN file' : \A m \in file'[x] : Entry(x, m)'
    BY <1>18, <2>1, DestroySessionTable DEF DestroyRecords
  <2>5. \A x \in Sessions : \A m \in todo'[x] \cup todoTimer'[x] : Entry(x, m)' /\ m.key \in asked'
    <3>1. CASE noClearOnDisconnect
      BY <1>18, <2>2, <3>1 DEF DestroyRecords, EntryInv
    <3>2. CASE ~noClearOnDisconnect
      <4>1. /\ \A x \in Sessions : todo'[x] = IF x = s THEN SM!LocksOf(s) ELSE todo[x]
            /\ asked' = asked \cup {m.key : m \in SM!LocksOf(s)} /\ todoTimer' = todoTimer
        BY <1>18, <3>2 DEF DestroyRecords, TypeOK
      <4> QED
        BY <2>2, <2>3, <4>1 DEF EntryInv
    <3> QED
      BY <3>1, <3>2
  <2> QED
    BY <2>4, <2>5 DEF EntryInv
<1>19. ASSUME NEW s \in Sessions, NEW l \in todo[s], DestroyUnlock(s, l) PROVE EntryInv'
  <2>1. \A x, m : Entry(x, m) => Entry(x, m)'
    BY <1>19 DEF DestroyUnlock, Entry, LockOf
  <2>2. \A x \in Sessions : todo'[x] \cup todoTimer'[x] \subseteq todo[x] \cup todoTimer[x]
    BY <1>19 DEF DestroyUnlock, TypeOK
  <2> QED
    BY <1>19, <2>1, <2>2 DEF DestroyUnlock, EntryInv
<1>20. ASSUME NEW s \in Sessions, NEW l \in todoTimer[s], DestroyTimer(s, l)
      PROVE EntryInv'
  <2>1. \A x, m : Entry(x, m) => Entry(x, m)'
    BY <1>20 DEF DestroyTimer, Entry, LockOf
  <2>2. \A x \in Sessions : todo'[x] \cup todoTimer'[x] \subseteq todo[x] \cup todoTimer[x]
    BY <1>20 DEF DestroyTimer, TypeOK
  <2> QED
    BY <1>20, <2>1, <2>2 DEF DestroyTimer, EntryInv
<1>21. ASSUME NEW p \in toLoad, LoadLock(p[1], p[2]) PROVE EntryInv'
  <2>1. \A x, m : Entry(x, m) => Entry(x, m)'
    BY <1>21 DEF LoadLock, Entry, LockOf
  <2> QED
    BY <1>21, <2>1, LoadLockStep DEF LoadLock, EntryInv
<1>22. ASSUME LoadDone PROVE EntryInv'
  BY <1>22, EntryFrame DEF LoadDone
<1>23. ASSUME Restart PROVE EntryInv'
  <2>1. \A x, m : Entry(x, m) => Entry(x, m)'
    BY <1>23 DEF Restart, Entry, LockOf
  <2> QED
    BY <1>23, <2>1 DEF Restart, EntryInv, SM!Load
<1>24. CASE UNCHANGED vars
  BY <1>24, EntryFrame DEF vars
<1> HIDE DEF lmVars, tmVars, smVars, loadVars, connVars, lockVars, opVars, histVars
<1> QED
  BY <1>1, <1>2, <1>3, <1>4, <1>5, <1>6, <1>7, <1>8, <1>9, <1>10, <1>11, <1>12, <1>13,
     <1>14, <1>15, <1>16, <1>17, <1>18, <1>19, <1>20, <1>21, <1>22, <1>23, <1>24
  DEF LiveNext

\* What New has still to load is not touched by the timers of what it has loaded.
LEMMA LoadLive ==
  ASSUME TypeOK, ManagerInv, CallInv, EntryInv, LoadInv, PhaseInv, SyncInv, LiveNext
  PROVE  LoadInv'
<1> USE DEF LoadInv, lmVars, tmVars, smVars, loadVars, connVars, lockVars, opVars,
            histVars
<1>1. ASSUME NEW k \in Keys, NEW c \in Calls, LockCall(k, c) PROVE LoadInv'
  <2>1. toLoad = {} /\ toLoad' = {}
    BY <1>1 DEF LockCall, PhaseInv
  <2> QED
    BY <2>1
<1>2. ASSUME NEW k \in Keys, GiveUp(k) PROVE LoadInv'
  <2>1. toLoad = {} /\ toLoad' = {}
    BY <1>2 DEF GiveUp, PhaseInv
  <2> QED
    BY <2>1
<1>3. ASSUME NEW k \in Keys, RenewCall(k) PROVE LoadInv'
  <2>1. toLoad = {} /\ toLoad' = {}
    BY <1>3 DEF RenewCall, PhaseInv
  <2> QED
    BY <2>1
<1>4. ASSUME NEW k \in Keys, NEW s \in Sessions, UnlockCall(k, s) PROVE LoadInv'
  <2>1. toLoad = {} /\ toLoad' = {}
    BY <1>4 DEF UnlockCall, PhaseInv
  <2> QED
    BY <2>1
<1>5. ASSUME NEW s \in Sessions, Connect(s) PROVE LoadInv'
  <2>1. toLoad = {} /\ toLoad' = {}
    BY <1>5 DEF Connect
  <2> QED
    BY <2>1
<1>6. ASSUME NEW s \in Sessions, Disconnect(s) PROVE LoadInv'
  <2>1. toLoad = {} /\ toLoad' = {}
    BY <1>6 DEF Disconnect
  <2> QED
    BY <2>1
<1>7. ASSUME NEW k \in Keys, AddLock(k) PROVE LoadInv'
  <2>1. toLoad = {} /\ toLoad' = {}
    BY <1>7 DEF AddLock, Answer, PhaseInv
  <2> QED
    BY <2>1
<1>8. ASSUME NEW k \in Keys, AddTimer(k) PROVE LoadInv'
  <2>1. toLoad = {} /\ toLoad' = {}
    BY <1>8 DEF AddTimer, Answer, PhaseInv
  <2> QED
    BY <2>1
<1>9. ASSUME NEW k \in Keys, UnlockTimer(k) PROVE LoadInv'
  <2>1. toLoad = {} /\ toLoad' = {}
    BY <1>9 DEF UnlockTimer, PhaseInv
  <2> QED
    BY <2>1
<1>10. ASSUME NEW k \in Keys, UnlockMgr(k) PROVE LoadInv'
  <2>1. toLoad = {} /\ toLoad' = {}
    BY <1>10 DEF UnlockMgr, PhaseInv
  <2> QED
    BY <2>1
<1>11. ASSUME NEW k \in Keys, UnlockRemove(k) PROVE LoadInv'
  <2>1. toLoad = {} /\ toLoad' = {}
    BY <1>11 DEF UnlockRemove, PhaseInv
  <2> QED
    BY <2>1
<1>12. ASSUME NEW k \in Keys, RenewStop(k) PROVE LoadInv'
  <2>1. toLoad = {} /\ toLoad' = {}
    BY <1>12 DEF RenewStop, PhaseInv
  <2> QED
    BY <2>1
<1>13. ASSUME NEW k \in Keys, RenewArm(k) PROVE LoadInv'
  <2>1. toLoad = {} /\ toLoad' = {}
    BY <1>13 DEF RenewArm, PhaseInv
  <2> QED
    BY <2>1
<1>14. ASSUME NEW k \in Keys, Fire(k) PROVE LoadInv'
  <2>1. /\ UNCHANGED <<up, toLoad, call, req, Listed, Owners>>
        /\ timer[k] = "armed" /\ \A j \in Keys \ {k} : timer'[j] = timer[j]
    BY <1>14, TableFrame, OwnersFrame DEF Fire, TM!Fire, TypeOK, TM!TypeOK
  <2>2. \A x, m : Entry(x, m) => Entry(x, m)'
    BY <2>1 DEF Entry, LockOf
  <2>3. \A p \in toLoad : p[2].key \in Keys /\ p[2].key # k
    BY <2>1, LoadFacts
  <2> QED
    BY <2>1, <2>2, <2>3
<1>15. ASSUME NEW k \in Keys, CallbackUnlock(k) PROVE LoadInv'
  <2>1. /\ UNCHANGED <<up, toLoad, call, req, timer, Listed>> /\ call[k] # None
    BY <1>15, TableFrame DEF CallbackUnlock, CallInv
  <2>2. \A x, m : Entry(x, m) => Entry(x, m)'
    BY <2>1 DEF Entry, LockOf
  <2>3. \A j \in Owners' : j \in Owners \/ req[j] = "waiting"
    BY <1>15, <2>1, MgrUnlockStep DEF CallbackUnlock
  <2>4. \A p \in toLoad : p[2].key \notin Owners'
    BY <2>3, LoadFacts
  <2> QED
    BY <2>1, <2>2, <2>4
<1>16. ASSUME NEW k \in Keys, CallbackRecord(k) PROVE LoadInv'
  <2>1. /\ UNCHANGED <<up, toLoad, call, req, timer, Owners>> /\ call[k] # None /\ Running /\ Running'
    BY <1>16, OwnersFrame DEF CallbackRecord, CallInv, PhaseInv, Running
  <2>2. \A x, m : Entry(x, m) => Entry(x, m)'
    BY <2>1 DEF Entry, LockOf
  <2>3. Listed \ {k} \subseteq Listed'
    BY <1>16, <2>1, RemoveLockTable, TableFrame DEF CallbackRecord
  <2>4. \A p \in toLoad : p[2].key # k
    BY <1>16, LoadFacts DEF CallbackRecord, CallInv
  <2> QED
    BY <2>1, <2>2, <2>3, <2>4
<1>17. ASSUME NEW k \in Keys, CallbackTimer(k) PROVE LoadInv'
  <2>1. UNCHANGED <<up, toLoad, call, req, Listed, Owners>>
    BY <1>17, TableFrame, OwnersFrame DEF CallbackTimer
  <2>2. \A x, m : Entry(x, m) => Entry(x, m)'
    BY <2>1 DEF Entry, LockOf
  <2>3. UNCHANGED timer
    BY <1>17 DEF CallbackTimer, TM!Remove, CallInv, TypeOK, TM!TypeOK
  <2> QED
    BY <2>1, <2>2, <2>3
<1>18. ASSUME NEW s \in Sessions, DestroyRecords(s) PROVE LoadInv'
  <2>1. toLoad = {} /\ toLoad' = {}
    BY <1>18 DEF DestroyRecords
  <2> QED
    BY <2>1
<1>19. ASSUME NEW s \in Sessions, NEW l \in todo[s], DestroyUnlock(s, l) PROVE LoadInv'
  <2>1. toLoad = {} /\ toLoad' = {}
    BY <1>19 DEF DestroyUnlock, PhaseInv
  <2> QED
    BY <2>1
<1>20. ASSUME NEW s \in Sessions, NEW l \in todoTimer[s], DestroyTimer(s, l)
      PROVE LoadInv'
  <2>1. toLoad = {} /\ toLoad' = {}
    BY <1>20 DEF DestroyTimer, PhaseInv
  <2> QED
    BY <2>1
<1>21. ASSUME NEW p \in toLoad, LoadLock(p[1], p[2]) PROVE LoadInv'
  <2> DEFINE k == p[2].key
  <2>1. UNCHANGED <<up, call, req>> /\ toLoad' = toLoad \ {<<p[1], p[2]>>} /\ up = "loading"
    BY <1>21 DEF LoadLock
  <2>2. \A x, m : Entry(x, m) => Entry(x, m)'
    BY <2>1 DEF Entry, LockOf
  <2>3. \A q \in toLoad' : q \in toLoad /\ q[2].key \in Keys /\ q[2].key # k
    <3> TAKE q \in toLoad'
    <3>1. q \in toLoad /\ q # <<p[1], p[2]>>
      BY <2>1
    <3>2. /\ q[1] = call[q[2].key].sess /\ q[2] = LockOf(q[2].key) /\ q = <<q[1], q[2]>>
          /\ q[2].key \in Keys
      BY <3>1, LoadFacts
    <3>3. p[1] = call[k].sess /\ p[2] = LockOf(k) /\ p = <<p[1], p[2]>>
      BY LoadFacts
    <3> HIDE DEF k
    <3> QED
      BY <3>1, <3>2, <3>3
  <2>4. k \in Keys /\ Owners' \subseteq Owners \cup {k} /\ Listed \ {k} \subseteq Listed'
    BY <1>21, LoadFacts, LoadLockStep
  <2>5. \A j \in Keys \ {k} : timer'[j] = timer[j]
    BY <1>21 DEF LoadLock, TM!Add, TypeOK, TM!TypeOK
  <2> HIDE DEF k
  <2> QED
    BY <2>1, <2>2, <2>3, <2>4, <2>5
<1>22. ASSUME LoadDone PROVE LoadInv'
  <2>1. toLoad = {} /\ toLoad' = {}
    BY <1>22 DEF LoadDone
  <2> QED
    BY <2>1
<1>23. ASSUME Restart PROVE LoadInv'
  <2>1. /\ up' = "loading" /\ UNCHANGED <<call, req, timer, held>>
        /\ ~Running /\ SM!Load
        /\ toLoad' = UNION {{s} \X file[s] : s \in DOMAIN file}
    BY <1>23 DEF Restart, Running
  <2>2. \A x, m : Entry(x, m) => Entry(x, m)'
    BY <2>1 DEF Entry, LockOf
  <2>3. Owners' = {}
    BY <2>1, CallFacts DEF Owners, Held, PhaseInv
  <2>4. Listed' = Saved
    BY <2>1, RestartTable
  <2> SUFFICES ASSUME NEW q \in toLoad'
               PROVE  /\ Entry(q[1], q[2])' /\ q[2].key \in (Listed \ Owners)'
                      /\ timer'[q[2].key] = "none"
    BY <2>1
  <2>5. q[1] \in DOMAIN file /\ q[2] \in file[q[1]]
    BY <2>1
  <2>6. Entry(q[1], q[2])
    BY <2>5 DEF EntryInv
  <2>7. q[2].key \in Saved
    BY <2>5, <2>6 DEF Entry, Saved, InFile
  <2>8. timer[q[2].key] = "none"
    BY <2>1, <2>6 DEF Entry, PhaseInv
  <2> QED
    BY <2>1, <2>2, <2>3, <2>4, <2>6, <2>7, <2>8
<1>24. CASE UNCHANGED vars
  BY <1>24, TableFrame, OwnersFrame DEF vars, Entry, LockOf
<1> HIDE DEF LoadInv, lmVars, tmVars, smVars, loadVars, connVars, lockVars, opVars,
             histVars
<1> QED
  BY <1>1, <1>2, <1>3, <1>4, <1>5, <1>6, <1>7, <1>8, <1>9, <1>10, <1>11, <1>12, <1>13,
     <1>14, <1>15, <1>16, <1>17, <1>18, <1>19, <1>20, <1>21, <1>22, <1>23, <1>24
  DEF LiveNext

\* What a server that loads or has died does not have.
LEMMA PhasesLive ==
  ASSUME TypeOK, ManagerInv, CallInv, EntryInv, LoadInv, PhaseInv, LiveNext
  PROVE  PhaseInv'
<1> USE DEF PhaseInv, TypeOK, Running, lmVars, tmVars, smVars, loadVars, connVars,
            lockVars, opVars, histVars
<1>1. ASSUME NEW k \in Keys, NEW c \in Calls, LockCall(k, c) PROVE PhaseInv'
  BY <1>1 DEF LockCall
<1>2. ASSUME NEW k \in Keys, GiveUp(k) PROVE PhaseInv'
  BY <1>2 DEF GiveUp
<1>3. ASSUME NEW k \in Keys, RenewCall(k) PROVE PhaseInv'
  BY <1>3 DEF RenewCall
<1>4. ASSUME NEW k \in Keys, NEW s \in Sessions, UnlockCall(k, s) PROVE PhaseInv'
  BY <1>4 DEF UnlockCall
<1>5. ASSUME NEW s \in Sessions, Connect(s) PROVE PhaseInv'
  BY <1>5 DEF Connect
<1>6. ASSUME NEW s \in Sessions, Disconnect(s) PROVE PhaseInv'
  BY <1>6 DEF Disconnect
<1>7. ASSUME NEW k \in Keys, AddLock(k) PROVE PhaseInv'
  BY <1>7 DEF AddLock, Answer
<1>8. ASSUME NEW k \in Keys, AddTimer(k) PROVE PhaseInv'
  BY <1>8 DEF AddTimer, Answer
<1>9. ASSUME NEW k \in Keys, UnlockTimer(k) PROVE PhaseInv'
  BY <1>9 DEF UnlockTimer
<1>10. ASSUME NEW k \in Keys, UnlockMgr(k) PROVE PhaseInv'
  BY <1>10 DEF UnlockMgr, MgrUnlock, LM!Release
<1>11. ASSUME NEW k \in Keys, UnlockRemove(k) PROVE PhaseInv'
  BY <1>11 DEF UnlockRemove
<1>12. ASSUME NEW k \in Keys, RenewStop(k) PROVE PhaseInv'
  BY <1>12 DEF RenewStop
<1>13. ASSUME NEW k \in Keys, RenewArm(k) PROVE PhaseInv'
  BY <1>13 DEF RenewArm
<1>14. ASSUME NEW k \in Keys, Fire(k) PROVE PhaseInv'
  BY <1>14 DEF Fire, TM!Fire
<1>15. ASSUME NEW k \in Keys, CallbackUnlock(k) PROVE PhaseInv'
  <2>1. call[k].name \in Names /\ UNCHANGED up /\ Running
    BY <1>15, CallFacts DEF CallbackUnlock, CallInv
  <2>2. up # "up" => UNCHANGED queue
    BY <1>15, <2>1 DEF CallbackUnlock, MgrUnlock, LM!Release
  <2> QED
    BY <1>15, <2>1, <2>2 DEF CallbackUnlock
<1>16. ASSUME NEW k \in Keys, CallbackRecord(k) PROVE PhaseInv'
  BY <1>16 DEF CallbackRecord
<1>17. ASSUME NEW k \in Keys, CallbackTimer(k) PROVE PhaseInv'
  BY <1>17 DEF CallbackTimer
<1>18. ASSUME NEW s \in Sessions, DestroyRecords(s) PROVE PhaseInv'
  BY <1>18 DEF DestroyRecords
<1>19. ASSUME NEW s \in Sessions, NEW l \in todo[s], DestroyUnlock(s, l) PROVE PhaseInv'
  BY <1>19 DEF DestroyUnlock, MgrUnlock, LM!Release
<1>20. ASSUME NEW s \in Sessions, NEW l \in todoTimer[s], DestroyTimer(s, l)
      PROVE PhaseInv'
  BY <1>20 DEF DestroyTimer
<1>21. ASSUME NEW p \in toLoad, LoadLock(p[1], p[2]) PROVE PhaseInv'
  <2>1. up = "loading" /\ UNCHANGED queue
    BY <1>21, LoadFacts DEF LoadLock, LM!Grant
  <2> QED
    BY <1>21, <2>1 DEF LoadLock
<1>22. ASSUME LoadDone PROVE PhaseInv'
  BY <1>22 DEF LoadDone
<1>23. ASSUME Restart PROVE PhaseInv'
  BY <1>23 DEF Restart
<1>24. CASE UNCHANGED vars
  BY <1>24 DEF vars
<1> HIDE DEF PhaseInv, TypeOK, Running, lmVars, tmVars, smVars, loadVars, connVars,
             lockVars, opVars, histVars
<1> QED
  BY <1>1, <1>2, <1>3, <1>4, <1>5, <1>6, <1>7, <1>8, <1>9, <1>10, <1>11, <1>12, <1>13,
     <1>14, <1>15, <1>16, <1>17, <1>18, <1>19, <1>20, <1>21, <1>22, <1>23, <1>24
  DEF LiveNext

\* The table and the file agree.
LEMMA SyncLive ==
  ASSUME TypeOK, ManagerInv, CallInv, EntryInv, LoadInv, PhaseInv, SyncInv, LiveNext
  PROVE  SyncInv'
<1> USE DEF lmVars, tmVars, smVars, loadVars, connVars, lockVars, opVars, histVars
<1>1. ASSUME NEW k \in Keys, NEW c \in Calls, LockCall(k, c) PROVE SyncInv'
  BY <1>1 DEF LockCall, SyncInv, Running
<1>2. ASSUME NEW k \in Keys, GiveUp(k) PROVE SyncInv'
  BY <1>2 DEF GiveUp, SyncInv, Running
<1>3. ASSUME NEW k \in Keys, RenewCall(k) PROVE SyncInv'
  BY <1>3 DEF RenewCall, SyncInv, Running
<1>4. ASSUME NEW k \in Keys, NEW s \in Sessions, UnlockCall(k, s) PROVE SyncInv'
  BY <1>4 DEF UnlockCall, SyncInv, Running
<1>5. ASSUME NEW s \in Sessions, Connect(s) PROVE SyncInv'
  <2>1. Running /\ Running' /\ UNCHANGED <<call, req>>
    BY <1>5 DEF Connect, Running
  <2> QED
    BY <1>5, <2>1, ConnectTable DEF Connect
<1>6. ASSUME NEW s \in Sessions, Disconnect(s) PROVE SyncInv'
  BY <1>6 DEF Disconnect, SyncInv, Running
<1>7. ASSUME NEW k \in Keys, AddLock(k) PROVE SyncInv'
  <2>1. /\ call[k] # None /\ Running /\ Running' /\ UNCHANGED call
        /\ req'[k] \in {"added", "done"} /\ \A j \in Keys \ {k} : req'[j] = req[j]
    BY <1>7 DEF AddLock, Answer, CallInv, PhaseInv, Running, TypeOK
  <2> QED
    BY <1>7, <2>1, AddLockTable DEF AddLock, Answer
<1>8. ASSUME NEW k \in Keys, AddTimer(k) PROVE SyncInv'
  BY <1>8 DEF AddTimer, Answer, SyncInv, Running
<1>9. ASSUME NEW k \in Keys, UnlockTimer(k) PROVE SyncInv'
  BY <1>9 DEF UnlockTimer, SyncInv, Running
<1>10. ASSUME NEW k \in Keys, UnlockMgr(k) PROVE SyncInv'
  BY <1>10 DEF UnlockMgr, SyncInv, Running
<1>11. ASSUME NEW k \in Keys, UnlockRemove(k) PROVE SyncInv'
  <2>1. Running /\ Running' /\ UNCHANGED <<call, req>>
    BY <1>11 DEF UnlockRemove, PhaseInv, Running
  <2> QED
    BY <1>11, <2>1, RemoveLockTable DEF UnlockRemove
<1>12. ASSUME NEW k \in Keys, RenewStop(k) PROVE SyncInv'
  BY <1>12 DEF RenewStop, SyncInv, Running
<1>13. ASSUME NEW k \in Keys, RenewArm(k) PROVE SyncInv'
  BY <1>13 DEF RenewArm, SyncInv, Running
<1>14. ASSUME NEW k \in Keys, Fire(k) PROVE SyncInv'
  BY <1>14 DEF Fire, SyncInv, Running
<1>15. ASSUME NEW k \in Keys, CallbackUnlock(k) PROVE SyncInv'
  BY <1>15 DEF CallbackUnlock, SyncInv, Running
<1>16. ASSUME NEW k \in Keys, CallbackRecord(k) PROVE SyncInv'
  <2>1. Running /\ Running' /\ UNCHANGED <<call, req>>
    BY <1>16 DEF CallbackRecord, PhaseInv, Running
  <2>2. CASE UNCHANGED smVars
    BY <2>1, <2>2 DEF SyncInv
  <2> QED
    BY <1>16, <2>1, <2>2, RemoveLockTable DEF CallbackRecord
<1>17. ASSUME NEW k \in Keys, CallbackTimer(k) PROVE SyncInv'
  BY <1>17 DEF CallbackTimer, SyncInv, Running
<1>18. ASSUME NEW s \in Sessions, DestroyRecords(s) PROVE SyncInv'
  <2>1. Running /\ Running' /\ UNCHANGED <<call, req>>
    BY <1>18 DEF DestroyRecords, Running
  <2> QED
    BY <1>18, <2>1, DestroySessionTable DEF DestroyRecords
<1>19. ASSUME NEW s \in Sessions, NEW l \in todo[s], DestroyUnlock(s, l) PROVE SyncInv'
  BY <1>19 DEF DestroyUnlock, SyncInv, Running
<1>20. ASSUME NEW s \in Sessions, NEW l \in todoTimer[s], DestroyTimer(s, l)
      PROVE SyncInv'
  BY <1>20 DEF DestroyTimer, SyncInv, Running
<1>21. ASSUME NEW p \in toLoad, LoadLock(p[1], p[2]) PROVE SyncInv'
  BY <1>21, LoadLockStep
<1>22. ASSUME LoadDone PROVE SyncInv'
  BY <1>22 DEF LoadDone, SyncInv, Running
<1>23. ASSUME Restart PROVE SyncInv'
  BY <1>23, RestartTable DEF Restart, lockVars
<1>24. CASE UNCHANGED vars
  BY <1>24 DEF vars, SyncInv, Running
<1> HIDE DEF lmVars, tmVars, smVars, loadVars, connVars, lockVars, opVars, histVars
<1> QED
  BY <1>1, <1>2, <1>3, <1>4, <1>5, <1>6, <1>7, <1>8, <1>9, <1>10, <1>11, <1>12, <1>13,
     <1>14, <1>15, <1>16, <1>17, <1>18, <1>19, <1>20, <1>21, <1>22, <1>23, <1>24
  DEF LiveNext

\* A call that is about to answer keeps its lock.
LEMMA RequestsLive ==
  ASSUME TypeOK, ManagerInv, CallInv, EntryInv, LoadInv, PhaseInv, SyncInv, RequestInv,
         LiveNext
  PROVE  RequestInv'
<1> USE DEF lmVars, tmVars, smVars, loadVars, connVars, lockVars, opVars, histVars
<1>1. ASSUME NEW k \in Keys, NEW c \in Calls, LockCall(k, c) PROVE RequestInv'
  <2>1. /\ Owners \subseteq Owners' /\ (k \in Owners' <=> req'[k] = "granted") /\ Listed' = Listed
    BY <1>1, LockCallStep, LockCallTable
  <2>2. req'[k] \in {"granted", "waiting"} /\ \A j \in Keys \ {k} : call'[j] = call[j] /\ req'[j] = req[j]
    BY <1>1 DEF LockCall, TypeOK
  <2>3. UNCHANGED <<conn, asked>>
    BY <1>1 DEF LockCall
  <2> QED
    BY <2>1, <2>2, <2>3 DEF RequestInv
<1>2. ASSUME NEW k \in Keys, GiveUp(k) PROVE RequestInv'
  <2>1. Owners \ {k} \subseteq Owners'
    BY <1>2, GiveUpStep
  <2>2. req'[k] = "done" /\ (\A j \in Keys \ {k} : req'[j] = req[j]) /\ UNCHANGED <<call, conn, asked, Listed>>
    BY <1>2, TableFrame DEF GiveUp, TypeOK
  <2> QED
    BY <2>1, <2>2 DEF RequestInv
<1>3. ASSUME NEW k \in Keys, RenewCall(k) PROVE RequestInv'
  <2>1. UNCHANGED <<call, req, conn, asked, Owners, Listed>>
    BY <1>3, TableFrame, OwnersFrame DEF RenewCall
  <2> QED
    BY <2>1 DEF RequestInv
<1>4. ASSUME NEW k \in Keys, NEW s \in Sessions, UnlockCall(k, s) PROVE RequestInv'
  <2>1. UNCHANGED <<call, Owners, Listed>>
    BY <1>4, TableFrame, OwnersFrame DEF UnlockCall
  <2> QED
    BY <1>4, <2>1 DEF UnlockCall, RequestInv
<1>5. ASSUME NEW s \in Sessions, Connect(s) PROVE RequestInv'
  <2>1. UNCHANGED <<call, req, asked, Owners>> /\ Running /\ Running'
    BY <1>5, OwnersFrame DEF Connect, Running
  <2>2. Listed' = Listed
    BY <1>5, <2>1, ConnectTable DEF Connect
  <2>3. \A x \in Sessions : conn[x] = "ended" => conn'[x] = "ended"
    BY <1>5 DEF Connect, TypeOK
  <2>4. \A j \in Keys : call[j] # None => call[j].sess \in Sessions
    BY CallFacts
  <2> QED
    BY <2>1, <2>2, <2>3, <2>4 DEF RequestInv, CallInv
<1>6. ASSUME NEW s \in Sessions, Disconnect(s) PROVE RequestInv'
  <2>1. UNCHANGED <<call, req, asked, Owners, Listed>>
    BY <1>6, TableFrame, OwnersFrame DEF Disconnect
  <2>2. \A x \in Sessions : conn[x] = "ended" => conn'[x] = "ended"
    BY <1>6 DEF Disconnect, TypeOK
  <2>3. \A j \in Keys : call[j] # None => call[j].sess \in Sessions
    BY CallFacts
  <2> QED
    BY <2>1, <2>2, <2>3 DEF RequestInv, CallInv
<1>7. ASSUME NEW k \in Keys, AddLock(k) PROVE RequestInv'
  <2>1. /\ call[k] # None /\ Running /\ Running' /\ UNCHANGED <<call, conn, asked, Owners>>
        /\ req'[k] \in {"added", "done"} /\ \A j \in Keys \ {k} : req'[j] = req[j]
    BY <1>7, OwnersFrame DEF AddLock, Answer, CallInv, PhaseInv, Running, TypeOK
  <2>2. Listed' = Listed \cup {k}
    BY <1>7, <2>1, AddLockTable DEF AddLock, Answer
  <2>3. k \in Owners
    BY <1>7 DEF AddLock, Answer, RequestInv, Owners
  <2> QED
    BY <2>1, <2>2, <2>3 DEF RequestInv
<1>8. ASSUME NEW k \in Keys, AddTimer(k) PROVE RequestInv'
  <2>1. UNCHANGED <<call, Owners, Listed>>
    BY <1>8, TableFrame, OwnersFrame DEF AddTimer, Answer
  <2> QED
    BY <1>8, <2>1 DEF AddTimer, Answer, RequestInv, TypeOK
<1>9. ASSUME NEW k \in Keys, UnlockTimer(k) PROVE RequestInv'
  <2>1. UNCHANGED <<call, req, conn, asked, Owners, Listed>>
    BY <1>9, TableFrame, OwnersFrame DEF UnlockTimer
  <2> QED
    BY <2>1 DEF RequestInv
<1>10. ASSUME NEW k \in Keys, UnlockMgr(k) PROVE RequestInv'
  <2>1. call[k] # None /\ req[k] = "done" /\ UNCHANGED <<call, req, conn, asked, Listed>>
    BY <1>10, TableFrame DEF UnlockMgr, CallInv
  <2>2. Owners \ {k} \subseteq Owners'
    BY <1>10, <2>1, MgrUnlockStep DEF UnlockMgr
  <2> QED
    BY <2>1, <2>2 DEF RequestInv
<1>11. ASSUME NEW k \in Keys, UnlockRemove(k) PROVE RequestInv'
  <2>1. /\ req[k] = "done" /\ UNCHANGED <<call, req, conn, asked, Owners>>
        /\ Running /\ Running'
    BY <1>11, OwnersFrame DEF UnlockRemove, CallInv, PhaseInv, Running
  <2>2. Listed \ {k} \subseteq Listed'
    BY <1>11, <2>1, RemoveLockTable, TableFrame DEF UnlockRemove
  <2> QED
    BY <2>1, <2>2 DEF RequestInv
<1>12. ASSUME NEW k \in Keys, RenewStop(k) PROVE RequestInv'
  <2>1. UNCHANGED <<call, req, conn, asked, Owners, Listed>>
    BY <1>12, TableFrame, OwnersFrame DEF RenewStop
  <2> QED
    BY <2>1 DEF RequestInv
<1>13. ASSUME NEW k \in Keys, RenewArm(k) PROVE RequestInv'
  <2>1. UNCHANGED <<call, req, conn, asked, Owners, Listed>>
    BY <1>13, TableFrame, OwnersFrame DEF RenewArm
  <2> QED
    BY <2>1 DEF RequestInv
<1>14. ASSUME NEW k \in Keys, Fire(k) PROVE RequestInv'
  <2>1. UNCHANGED <<call, Owners, Listed>>
    BY <1>14, TableFrame, OwnersFrame DEF Fire
  <2> QED
    BY <1>14, <2>1 DEF Fire, RequestInv
<1>15. ASSUME NEW k \in Keys, CallbackUnlock(k) PROVE RequestInv'
  <2>1. call[k] # None /\ req[k] = "done" /\ UNCHANGED <<call, req, conn, asked, Listed>>
    BY <1>15, TableFrame DEF CallbackUnlock, CallInv
  <2>2. Owners \ {k} \subseteq Owners'
    BY <1>15, <2>1, MgrUnlockStep DEF CallbackUnlock
  <2> QED
    BY <2>1, <2>2 DEF RequestInv
<1>16. ASSUME NEW k \in Keys, CallbackRecord(k) PROVE RequestInv'
  <2>1. /\ req[k] = "done" /\ UNCHANGED <<call, req, conn, asked, Owners>>
        /\ Running /\ Running'
    BY <1>16, OwnersFrame DEF CallbackRecord, CallInv, PhaseInv, Running
  <2>2. Listed \ {k} \subseteq Listed'
    BY <1>16, <2>1, RemoveLockTable, TableFrame DEF CallbackRecord
  <2> QED
    BY <2>1, <2>2 DEF RequestInv
<1>17. ASSUME NEW k \in Keys, CallbackTimer(k) PROVE RequestInv'
  <2>1. UNCHANGED <<call, req, conn, asked, Owners, Listed>>
    BY <1>17, TableFrame, OwnersFrame DEF CallbackTimer
  <2> QED
    BY <2>1 DEF RequestInv
<1>18. ASSUME NEW s \in Sessions, DestroyRecords(s) PROVE RequestInv'
  <2>1. /\ UNCHANGED <<call, req, Owners>> /\ Running /\ Running' /\ asked \subseteq asked'
        /\ \A x \in Sessions : conn'[x] = IF x = s THEN "ended" ELSE conn[x]
    BY <1>18, OwnersFrame DEF DestroyRecords, Running, TypeOK
  <2>2. Listed' = {k \in Listed : call[k].sess # s}
    BY <1>18, <2>1, DestroySessionTable DEF DestroyRecords
  <2>3. \A j \in Keys : call[j] # None => call[j].sess \in Sessions
    BY CallFacts
  <2> QED
    BY <2>1, <2>2, <2>3 DEF RequestInv, CallInv
<1>19. ASSUME NEW s \in Sessions, NEW l \in todo[s], DestroyUnlock(s, l)
      PROVE RequestInv'
  <2>1. /\ UNCHANGED <<call, req, conn, asked, Listed>>
        /\ l.key \in Keys /\ call[l.key] # None /\ l.key \in asked /\ req[l.key] # "granted"
    BY <1>19, TodoFacts, TableFrame DEF DestroyUnlock
  <2>2. Owners \ {l.key} \subseteq Owners'
    BY <1>19, <2>1, MgrUnlockStep DEF DestroyUnlock
  <2> QED
    BY <2>1, <2>2 DEF RequestInv
<1>20. ASSUME NEW s \in Sessions, NEW l \in todoTimer[s], DestroyTimer(s, l)
      PROVE RequestInv'
  <2>1. UNCHANGED <<call, req, conn, asked, Owners, Listed>>
    BY <1>20, TableFrame, OwnersFrame DEF DestroyTimer
  <2> QED
    BY <2>1 DEF RequestInv
<1>21. ASSUME NEW p \in toLoad, LoadLock(p[1], p[2]) PROVE RequestInv'
  <2>1. \A k \in Keys : req'[k] \in {"none", "done"}
    BY <1>21, LoadFacts DEF LoadLock, PhaseInv
  <2> QED
    BY <2>1 DEF RequestInv
<1>22. ASSUME LoadDone PROVE RequestInv'
  <2>1. UNCHANGED <<call, req, conn, asked, Owners, Listed>>
    BY <1>22, TableFrame, OwnersFrame DEF LoadDone
  <2> QED
    BY <2>1 DEF RequestInv
<1>23. ASSUME Restart PROVE RequestInv'
  <2>1. \A k \in Keys : req'[k] \in {"none", "done"}
    BY <1>23 DEF Restart, PhaseInv
  <2> QED
    BY <2>1 DEF RequestInv
<1>24. CASE UNCHANGED vars
  <2>1. UNCHANGED <<call, req, conn, asked, Owners, Listed>>
    BY <1>24, TableFrame, OwnersFrame DEF vars
  <2> QED
    BY <2>1 DEF RequestInv
<1> HIDE DEF lmVars, tmVars, smVars, loadVars, connVars, lockVars, opVars, histVars
<1> QED
  BY <1>1, <1>2, <1>3, <1>4, <1>5, <1>6, <1>7, <1>8, <1>9, <1>10, <1>11, <1>12, <1>13,
     <1>14, <1>15, <1>16, <1>17, <1>18, <1>19, <1>20, <1>21, <1>22, <1>23, <1>24
  DEF LiveNext

\* What clients were told they hold is kept.
LEMMA KeptLive ==
  ASSUME TypeOK, ManagerInv, CallInv, EntryInv, LoadInv, PhaseInv, SyncInv, SyncInv',
         RequestInv, KeptInv, LiveNext
  PROVE  KeptInv'
<1> USE DEF lmVars, tmVars, smVars, loadVars, connVars, lockVars, opVars, histVars
<1>1. ASSUME NEW k \in Keys, NEW c \in Calls, LockCall(k, c) PROVE KeptInv'
  <2>1. Owners \subseteq Owners' /\ Listed' = Listed /\ Saved' = Saved
    BY <1>1, LockCallStep, LockCallTable
  <2>2. /\ k \notin acked /\ \A j \in Keys \ {k} : call'[j] = call[j]
        /\ acked \subseteq Keys /\ UNCHANGED <<noClearOnDisconnect, up, toLoad, acked, asked>>
    BY <1>1 DEF LockCall, TypeOK, CallInv
  <2> QED
    BY <2>1, <2>2 DEF KeptInv, Running, LockOf
<1>2. ASSUME NEW k \in Keys, GiveUp(k) PROVE KeptInv'
  <2>1. Owners \ {k} \subseteq Owners'
    BY <1>2, GiveUpStep
  <2>2. /\ UNCHANGED <<noClearOnDisconnect, up, toLoad, call, acked, asked, Listed, Saved>>
        /\ k \notin acked
    BY <1>2, TableFrame DEF GiveUp, CallInv
  <2> QED
    BY <2>1, <2>2 DEF KeptInv, Running, LockOf
<1>3. ASSUME NEW k \in Keys, RenewCall(k) PROVE KeptInv'
  <2>1. /\ UNCHANGED <<noClearOnDisconnect, up, toLoad, call, acked, Owners, Listed, Saved>>
        /\ asked \subseteq asked'
    BY <1>3, TableFrame, OwnersFrame DEF RenewCall
  <2> QED
    BY <2>1 DEF KeptInv, Running, LockOf
<1>4. ASSUME NEW k \in Keys, NEW s \in Sessions, UnlockCall(k, s) PROVE KeptInv'
  <2>1. /\ UNCHANGED <<noClearOnDisconnect, up, toLoad, call, acked, Owners, Listed, Saved>>
        /\ asked \subseteq asked'
    BY <1>4, TableFrame, OwnersFrame DEF UnlockCall
  <2> QED
    BY <2>1 DEF KeptInv, Running, LockOf
<1>5. ASSUME NEW s \in Sessions, Connect(s) PROVE KeptInv'
  <2>1. /\ UNCHANGED <<noClearOnDisconnect, up, toLoad, call, req, acked, asked, Owners>>
        /\ Running /\ Running'
    BY <1>5, OwnersFrame DEF Connect, Running
  <2>2. Listed' = Listed /\ Saved' = Listed'
    BY <1>5, <2>1, ConnectTable, SavedIsListedNext DEF Connect
  <2> QED
    BY <2>1, <2>2 DEF KeptInv, LockOf
<1>6. ASSUME NEW s \in Sessions, Disconnect(s) PROVE KeptInv'
  <2>1. /\ UNCHANGED <<noClearOnDisconnect, up, toLoad, call, acked, Owners, Listed, Saved>>
        /\ asked \subseteq asked'
    BY <1>6, TableFrame, OwnersFrame DEF Disconnect
  <2> QED
    BY <2>1 DEF KeptInv, Running, LockOf
<1>7. ASSUME NEW k \in Keys, AddLock(k) PROVE KeptInv'
  <2>1. /\ call[k] # None /\ Running /\ Running' /\ up = "up"
        /\ UNCHANGED <<noClearOnDisconnect, up, toLoad, call, asked, Owners>>
        /\ req'[k] \in {"added", "done"} /\ \A j \in Keys \ {k} : req'[j] = req[j]
        /\ acked' \subseteq acked \cup {k}
    BY <1>7, OwnersFrame DEF AddLock, Answer, CallInv, PhaseInv, Running, TypeOK
  <2>2. Listed' = Listed \cup {k} /\ Saved' = Listed'
    BY <1>7, <2>1, AddLockTable, SavedIsListedNext DEF AddLock, Answer
  <2>3. k \in Owners
    BY <1>7 DEF AddLock, Answer, RequestInv, Owners
  <2> QED
    BY <2>1, <2>2, <2>3 DEF KeptInv
<1>8. ASSUME NEW k \in Keys, AddTimer(k) PROVE KeptInv'
  <2>1. /\ call[k] # None /\ Running /\ up = "up"
        /\ UNCHANGED <<noClearOnDisconnect, up, toLoad, call, asked, Owners, Listed, Saved>>
        /\ acked' \subseteq IF conn[call[k].sess] = "live" THEN acked \cup {k} ELSE acked
    BY <1>8, TableFrame, OwnersFrame DEF AddTimer, Answer, CallInv, PhaseInv, Running,
       TypeOK
  <2>2. k \in asked \/ conn[call[k].sess] # "live" \/ (k \in Owners /\ k \in Listed)
    BY <1>8 DEF AddTimer, Answer, RequestInv
  <2>3. Saved = Listed
    BY <2>1, SavedIsListed
  <2> QED
    BY <2>1, <2>2, <2>3 DEF KeptInv, LockOf
<1>9. ASSUME NEW k \in Keys, UnlockTimer(k) PROVE KeptInv'
  <2>1. /\ UNCHANGED <<noClearOnDisconnect, up, toLoad, call, acked, Owners, Listed, Saved>>
        /\ asked \subseteq asked'
    BY <1>9, TableFrame, OwnersFrame DEF UnlockTimer
  <2> QED
    BY <2>1 DEF KeptInv, Running, LockOf
<1>10. ASSUME NEW k \in Keys, UnlockMgr(k) PROVE KeptInv'
  <2>1. /\ UNCHANGED <<noClearOnDisconnect, up, toLoad, call, req, acked, asked, Listed, Saved>>
        /\ call[k] # None /\ k \in asked
    BY <1>10, TableFrame DEF UnlockMgr, CallInv
  <2>2. Owners \ {k} \subseteq Owners'
    BY <1>10, <2>1, MgrUnlockStep DEF UnlockMgr
  <2> QED
    BY <2>1, <2>2 DEF KeptInv, Running, LockOf
<1>11. ASSUME NEW k \in Keys, UnlockRemove(k) PROVE KeptInv'
  <2>1. /\ UNCHANGED <<noClearOnDisconnect, up, toLoad, call, req, acked, asked, Owners>>
        /\ k \in asked /\ Running /\ Running'
    BY <1>11, OwnersFrame DEF UnlockRemove, CallInv, PhaseInv, Running
  <2>2. Listed \ {k} \subseteq Listed' /\ Saved' = Listed'
    BY <1>11, <2>1, RemoveLockTable, TableFrame, SavedIsListedNext DEF UnlockRemove
  <2> QED
    BY <2>1, <2>2 DEF KeptInv, LockOf
<1>12. ASSUME NEW k \in Keys, RenewStop(k) PROVE KeptInv'
  <2>1. /\ UNCHANGED <<noClearOnDisconnect, up, toLoad, call, acked, Owners, Listed, Saved>>
        /\ asked \subseteq asked'
    BY <1>12, TableFrame, OwnersFrame DEF RenewStop
  <2> QED
    BY <2>1 DEF KeptInv, Running, LockOf
<1>13. ASSUME NEW k \in Keys, RenewArm(k) PROVE KeptInv'
  <2>1. /\ UNCHANGED <<noClearOnDisconnect, up, toLoad, call, acked, Owners, Listed, Saved>>
        /\ asked \subseteq asked'
    BY <1>13, TableFrame, OwnersFrame DEF RenewArm
  <2> QED
    BY <2>1 DEF KeptInv, Running, LockOf
<1>14. ASSUME NEW k \in Keys, Fire(k) PROVE KeptInv'
  <2>1. /\ UNCHANGED <<noClearOnDisconnect, up, toLoad, call, acked, Owners, Listed, Saved>>
        /\ asked \subseteq asked'
    BY <1>14, TableFrame, OwnersFrame DEF Fire
  <2> QED
    BY <2>1 DEF KeptInv, Running, LockOf
<1>15. ASSUME NEW k \in Keys, CallbackUnlock(k) PROVE KeptInv'
  <2>1. /\ UNCHANGED <<noClearOnDisconnect, up, toLoad, call, req, acked, asked, Listed, Saved>>
        /\ call[k] # None /\ k \in asked
    BY <1>15, TableFrame DEF CallbackUnlock, CallInv
  <2>2. Owners \ {k} \subseteq Owners'
    BY <1>15, <2>1, MgrUnlockStep DEF CallbackUnlock
  <2> QED
    BY <2>1, <2>2 DEF KeptInv, Running, LockOf
<1>16. ASSUME NEW k \in Keys, CallbackRecord(k) PROVE KeptInv'
  <2>1. /\ UNCHANGED <<noClearOnDisconnect, up, toLoad, call, req, acked, asked, Owners>>
        /\ k \in asked /\ Running /\ Running'
    BY <1>16, OwnersFrame DEF CallbackRecord, CallInv, PhaseInv, Running
  <2>2. Listed \ {k} \subseteq Listed' /\ Saved' = Listed'
    BY <1>16, <2>1, RemoveLockTable, TableFrame, SavedIsListedNext DEF CallbackRecord
  <2> QED
    BY <2>1, <2>2 DEF KeptInv, LockOf
<1>17. ASSUME NEW k \in Keys, CallbackTimer(k) PROVE KeptInv'
  <2>1. /\ UNCHANGED <<noClearOnDisconnect, up, toLoad, call, acked, Owners, Listed, Saved>>
        /\ asked \subseteq asked'
    BY <1>17, TableFrame, OwnersFrame DEF CallbackTimer
  <2> QED
    BY <2>1 DEF KeptInv, Running, LockOf
<1>18. ASSUME NEW s \in Sessions, DestroyRecords(s) PROVE KeptInv'
  <2>1. /\ UNCHANGED <<noClearOnDisconnect, up, toLoad, call, req, acked, Owners>>
        /\ Running /\ Running'
        /\ ~noClearOnDisconnect => asked' = asked \cup {l.key : l \in SM!LocksOf(s)}
    BY <1>18, OwnersFrame DEF DestroyRecords, Running
  <2>2. /\ Listed' = {k \in Listed : call[k].sess # s} /\ Saved' = Listed'
        /\ \A k \in Listed : call[k].sess = s => LockOf(k) \in SM!LocksOf(s)
    BY <1>18, <2>1, DestroySessionTable, SavedIsListedNext DEF DestroyRecords
  <2>3. \A k \in Keys : LockOf(k).key = k
    BY DEF LockOf
  <2>4. ~noClearOnDisconnect => \A k \in acked \ asked' : k \in Listed /\ call[k].sess # s
    <3>1. ASSUME ~noClearOnDisconnect, NEW k \in acked \ asked'
          PROVE  k \in Listed /\ call[k].sess # s
      <4>1. k \in Listed
        BY <2>1, <3>1 DEF KeptInv
      <4>2. k \in Keys
        BY <4>1 DEF Listed
      <4> QED
        BY <4>1, <4>2, <3>1, <2>1, <2>2, <2>3
    <3> QED
      BY <3>1
  <2> QED
    BY <2>1, <2>2, <2>4 DEF KeptInv, LockOf
<1>19. ASSUME NEW s \in Sessions, NEW l \in todo[s], DestroyUnlock(s, l) PROVE KeptInv'
  <2>1. /\ UNCHANGED <<noClearOnDisconnect, up, toLoad, call, req, acked, asked, Listed, Saved>>
        /\ l.key \in Keys /\ call[l.key] # None /\ l.key \in asked
    BY <1>19, TodoFacts, TableFrame DEF DestroyUnlock
  <2>2. Owners \ {l.key} \subseteq Owners'
    BY <1>19, <2>1, MgrUnlockStep DEF DestroyUnlock
  <2> QED
    BY <2>1, <2>2 DEF KeptInv, Running, LockOf
<1>20. ASSUME NEW s \in Sessions, NEW l \in todoTimer[s], DestroyTimer(s, l)
      PROVE KeptInv'
  <2>1. /\ UNCHANGED <<noClearOnDisconnect, up, toLoad, call, acked, Owners, Listed, Saved>>
        /\ asked \subseteq asked'
    BY <1>20, TableFrame, OwnersFrame DEF DestroyTimer
  <2> QED
    BY <2>1 DEF KeptInv, Running, LockOf
<1>21. ASSUME NEW p \in toLoad, LoadLock(p[1], p[2]) PROVE KeptInv'
  <2> DEFINE k == p[2].key
  <2>1. /\ UNCHANGED <<noClearOnDisconnect, up, call, req, acked>> /\ Running /\ Running'
        /\ toLoad' = toLoad \ {<<p[1], p[2]>>} /\ up = "loading" /\ asked \subseteq asked'
    BY <1>21, LoadFacts DEF LoadLock, Running
  <2>2. /\ Listed \ {k} \subseteq Listed' /\ Saved' = Listed' /\ Owners \subseteq Owners'
        /\ k \in asked' \/ (k \in Owners' /\ Listed' = Listed)
    BY <1>21, <2>1, LoadLockStep, SavedIsListedNext
  <2>3. \A j \in Keys : <<call[j].sess, LockOf(j)>> = <<p[1], p[2]>> => j = k
    BY DEF LockOf
  <2>4. acked \subseteq Keys
    BY DEF TypeOK
  <2> HIDE DEF k
  <2>5. \A j \in Keys : LockOf(j)' = LockOf(j)
    BY <2>1 DEF LockOf
  <2> QED
    BY <2>1, <2>2, <2>3, <2>4, <2>5 DEF KeptInv
<1>22. ASSUME LoadDone PROVE KeptInv'
  <2>1. /\ UNCHANGED <<noClearOnDisconnect, toLoad, call, acked, asked, Owners, Listed, Saved>>
        /\ up = "loading" /\ up' = "up" /\ toLoad = {}
    BY <1>22, TableFrame, OwnersFrame DEF LoadDone
  <2> QED
    BY <2>1 DEF KeptInv, Running
<1>23. ASSUME Restart PROVE KeptInv'
  <2>1. /\ up' = "loading" /\ UNCHANGED <<noClearOnDisconnect, call, acked, asked>>
        /\ SM!Load /\ toLoad' = UNION {{s} \X file[s] : s \in DOMAIN file}
    BY <1>23 DEF Restart
  <2>2. Listed' = Saved /\ Saved' = Saved
    BY <2>1, RestartTable
  <2>3. \A k \in Saved : <<call[k].sess, LockOf(k)>> \in toLoad'
    BY <2>1 DEF Saved, InFile
  <2>4. \A k \in Keys : LockOf(k)' = LockOf(k)
    BY <2>1 DEF LockOf
  <2>5. acked \subseteq Keys
    BY DEF TypeOK
  <2> QED
    BY <2>1, <2>2, <2>3, <2>4, <2>5 DEF KeptInv
<1>24. CASE UNCHANGED vars
  <2>1. /\ UNCHANGED <<noClearOnDisconnect, up, toLoad, call, acked, Owners, Listed, Saved>>
        /\ asked \subseteq asked'
    BY <1>24, TableFrame, OwnersFrame DEF vars
  <2> QED
    BY <2>1 DEF KeptInv, Running, LockOf
<1> HIDE DEF lmVars, tmVars, smVars, loadVars, connVars, lockVars, opVars, histVars
<1> QED
  BY <1>1, <1>2, <1>3, <1>4, <1>5, <1>6, <1>7, <1>8, <1>9, <1>10, <1>11, <1>12, <1>13,
     <1>14, <1>15, <1>16, <1>17, <1>18, <1>19, <1>20, <1>21, <1>22, <1>23, <1>24
  DEF LiveNext

\* No two clients believe in the same slot.
LEMMA ExcludeLive ==
  ASSUME TypeOK, CallInv, PhaseInv, ExcludeInv, TypeOK', ManagerInv', CallInv',
         KeptInv', LiveNext
  PROVE  ExcludeInv'
<1> USE DEF lmVars, tmVars, smVars, loadVars, connVars, lockVars, opVars, histVars
<1>1. ASSUME NEW k \in Keys, NEW c \in Calls, LockCall(k, c) PROVE ExcludeInv'
  <2>1. \A j \in acked : call'[j] = call[j]
    BY <1>1 DEF LockCall, TypeOK, CallInv
  <2> QED
    BY <1>1, <2>1, ExcludeFrame DEF LockCall
<1>2. ASSUME NEW k \in Keys, GiveUp(k) PROVE ExcludeInv'
  BY <1>2, ExcludeFrame DEF GiveUp
<1>3. ASSUME NEW k \in Keys, RenewCall(k) PROVE ExcludeInv'
  BY <1>3, ExcludeFrame DEF RenewCall
<1>4. ASSUME NEW k \in Keys, NEW s \in Sessions, UnlockCall(k, s) PROVE ExcludeInv'
  BY <1>4, ExcludeFrame DEF UnlockCall
<1>5. ASSUME NEW s \in Sessions, Connect(s) PROVE ExcludeInv'
  BY <1>5, ExcludeFrame DEF Connect
<1>6. ASSUME NEW s \in Sessions, Disconnect(s) PROVE ExcludeInv'
  BY <1>6, ExcludeFrame DEF Disconnect
<1>7. ASSUME NEW k \in Keys, AddLock(k) PROVE ExcludeInv'
  <2>1. acked' \subseteq acked \cup {k} /\ UNCHANGED <<noClearOnDisconnect, up>> /\ up = "up"
    BY <1>7 DEF AddLock, Answer, PhaseInv
  <2>2. IsFiniteSet(acked \cup {k})
    BY FS_AddElement DEF ExcludeInv
  <2>3. IsFiniteSet(acked')
    BY <2>1, <2>2, FS_Subset
  <2>4. ~noClearOnDisconnect' => ClientsExclude'
    BY <2>1, ExcludeWhenUpNext
  <2> QED
    BY <2>3, <2>4 DEF ExcludeInv
<1>8. ASSUME NEW k \in Keys, AddTimer(k) PROVE ExcludeInv'
  <2>1. acked' \subseteq acked \cup {k} /\ UNCHANGED <<noClearOnDisconnect, up>> /\ up = "up"
    BY <1>8 DEF AddTimer, Answer, PhaseInv
  <2>2. IsFiniteSet(acked \cup {k})
    BY FS_AddElement DEF ExcludeInv
  <2>3. IsFiniteSet(acked')
    BY <2>1, <2>2, FS_Subset
  <2>4. ~noClearOnDisconnect' => ClientsExclude'
    BY <2>1, ExcludeWhenUpNext
  <2> QED
    BY <2>3, <2>4 DEF ExcludeInv
<1>9. ASSUME NEW k \in Keys, UnlockTimer(k) PROVE ExcludeInv'
  BY <1>9, ExcludeFrame DEF UnlockTimer
<1>10. ASSUME NEW k \in Keys, UnlockMgr(k) PROVE ExcludeInv'
  BY <1>10, ExcludeFrame DEF UnlockMgr
<1>11. ASSUME NEW k \in Keys, UnlockRemove(k) PROVE ExcludeInv'
  BY <1>11, ExcludeFrame DEF UnlockRemove
<1>12. ASSUME NEW k \in Keys, RenewStop(k) PROVE ExcludeInv'
  BY <1>12, ExcludeFrame DEF RenewStop
<1>13. ASSUME NEW k \in Keys, RenewArm(k) PROVE ExcludeInv'
  BY <1>13, ExcludeFrame DEF RenewArm
<1>14. ASSUME NEW k \in Keys, Fire(k) PROVE ExcludeInv'
  BY <1>14, ExcludeFrame DEF Fire
<1>15. ASSUME NEW k \in Keys, CallbackUnlock(k) PROVE ExcludeInv'
  BY <1>15, ExcludeFrame DEF CallbackUnlock
<1>16. ASSUME NEW k \in Keys, CallbackRecord(k) PROVE ExcludeInv'
  BY <1>16, ExcludeFrame DEF CallbackRecord
<1>17. ASSUME NEW k \in Keys, CallbackTimer(k) PROVE ExcludeInv'
  BY <1>17, ExcludeFrame DEF CallbackTimer
<1>18. ASSUME NEW s \in Sessions, DestroyRecords(s) PROVE ExcludeInv'
  BY <1>18, ExcludeFrame DEF DestroyRecords
<1>19. ASSUME NEW s \in Sessions, NEW l \in todo[s], DestroyUnlock(s, l)
      PROVE ExcludeInv'
  BY <1>19, ExcludeFrame DEF DestroyUnlock
<1>20. ASSUME NEW s \in Sessions, NEW l \in todoTimer[s], DestroyTimer(s, l)
      PROVE ExcludeInv'
  BY <1>20, ExcludeFrame DEF DestroyTimer
<1>21. ASSUME NEW p \in toLoad, LoadLock(p[1], p[2]) PROVE ExcludeInv'
  BY <1>21, ExcludeFrame DEF LoadLock
<1>22. ASSUME LoadDone PROVE ExcludeInv'
  BY <1>22, ExcludeFrame DEF LoadDone
<1>23. ASSUME Restart PROVE ExcludeInv'
  BY <1>23, ExcludeFrame DEF Restart
<1>24. CASE UNCHANGED vars
  BY <1>24, ExcludeFrame DEF vars
<1> HIDE DEF lmVars, tmVars, smVars, loadVars, connVars, lockVars, opVars, histVars
<1> QED
  BY <1>1, <1>2, <1>3, <1>4, <1>5, <1>6, <1>7, <1>8, <1>9, <1>10, <1>11, <1>12, <1>13,
     <1>14, <1>15, <1>16, <1>17, <1>18, <1>19, <1>20, <1>21, <1>22, <1>23, <1>24
  DEF LiveNext

\* What timers, clean-ups and Unlocks know.
LEMMA TimersLive ==
  ASSUME TypeOK, ManagerInv, CallInv, EntryInv, LoadInv, PhaseInv, SyncInv, TimerInv,
         LiveNext
  PROVE  TimerInv'
<1> USE DEF lmVars, tmVars, smVars, loadVars, connVars, lockVars, opVars, histVars
<1>1. ASSUME NEW k \in Keys, NEW c \in Calls, LockCall(k, c) PROVE TimerInv'
  <2>1. \A j \in Owners' : j \in Owners \/ req[j] \in {"none", "waiting"}
    BY <1>1, LockCallStep DEF LockCall
  <2>2. \A j \in Keys : req[j] \in {"none", "waiting"} => timer[j] = "none" /\ unl[j] = "none"
    BY DEF CallInv
  <2>3. \A x \in Sessions : \A m \in todoTimer[x] : req[m.key] \notin {"none", "waiting"}
    BY DEF EntryInv, Entry
  <2> QED
    BY <1>1, <2>1, <2>2, <2>3 DEF LockCall, TimerInv, CallInv, TypeOK
<1>2. ASSUME NEW k \in Keys, GiveUp(k) PROVE TimerInv'
  <2>1. \A j \in Owners' : j \in Owners \/ req[j] \in {"none", "waiting"}
    BY <1>2, GiveUpStep
  <2>2. \A j \in Keys : req[j] \in {"none", "waiting"} => timer[j] = "none" /\ unl[j] = "none"
    BY DEF CallInv
  <2>3. \A x \in Sessions : \A m \in todoTimer[x] : req[m.key] \notin {"none", "waiting"}
    BY DEF EntryInv, Entry
  <2> QED
    BY <1>2, <2>1, <2>2, <2>3 DEF GiveUp, TimerInv, CallInv, TypeOK
<1>3. ASSUME NEW k \in Keys, RenewCall(k) PROVE TimerInv'
  BY <1>3, OwnersFrame DEF RenewCall, TimerInv, TypeOK
<1>4. ASSUME NEW k \in Keys, NEW s \in Sessions, UnlockCall(k, s) PROVE TimerInv'
  BY <1>4, OwnersFrame DEF UnlockCall, TimerInv, TypeOK
<1>5. ASSUME NEW s \in Sessions, Connect(s) PROVE TimerInv'
  BY <1>5, OwnersFrame DEF Connect, TimerInv
<1>6. ASSUME NEW s \in Sessions, Disconnect(s) PROVE TimerInv'
  BY <1>6, OwnersFrame DEF Disconnect, TimerInv
<1>7. ASSUME NEW k \in Keys, AddLock(k) PROVE TimerInv'
  BY <1>7, OwnersFrame DEF AddLock, Answer, TimerInv
<1>8. ASSUME NEW k \in Keys, AddTimer(k) PROVE TimerInv'
  <2>1. Owners' = Owners /\ timer \in [Keys -> TM!TimerStates]
    BY <1>8, OwnersFrame DEF AddTimer, Answer, TypeOK, TM!TypeOK
  <2> QED
    BY <1>8, <2>1 DEF AddTimer, Answer, TimerInv, CallInv, TypeOK, TM!Add, TM!Remove,
       TM!ResetStop, TM!ResetArm, TM!Fire
<1>9. ASSUME NEW k \in Keys, UnlockTimer(k) PROVE TimerInv'
  <2>1. Owners' = Owners /\ timer \in [Keys -> TM!TimerStates]
    BY <1>9, OwnersFrame DEF UnlockTimer, TypeOK, TM!TypeOK
  <2> QED
    BY <1>9, <2>1 DEF UnlockTimer, TimerInv, CallInv, TypeOK, TM!Stopped, TM!Add,
       TM!Remove, TM!ResetStop, TM!ResetArm, TM!Fire
<1>10. ASSUME NEW k \in Keys, UnlockMgr(k) PROVE TimerInv'
  <2>0. call[k] # None
    BY <1>10 DEF UnlockMgr, CallInv
  <2>1. /\ k \notin Owners'
        /\ \A j \in Owners' : j \in Owners \/ req[j] \in {"none", "waiting"}
    BY <1>10, <2>0, MgrUnlockStep DEF UnlockMgr
  <2>2. \A j \in Keys : req[j] \in {"none", "waiting"} => timer[j] = "none" /\ unl[j] = "none"
    BY DEF CallInv
  <2>3. \A x \in Sessions : \A m \in todoTimer[x] : req[m.key] \notin {"none", "waiting"}
    BY DEF EntryInv, Entry
  <2> QED
    BY <1>10, <2>1, <2>2, <2>3 DEF UnlockMgr, TimerInv, CallInv, TypeOK
<1>11. ASSUME NEW k \in Keys, UnlockRemove(k) PROVE TimerInv'
  BY <1>11, OwnersFrame DEF UnlockRemove, TimerInv, TypeOK
<1>12. ASSUME NEW k \in Keys, RenewStop(k) PROVE TimerInv'
  <2>1. Owners' = Owners /\ timer \in [Keys -> TM!TimerStates]
    BY <1>12, OwnersFrame DEF RenewStop, TypeOK, TM!TypeOK
  <2> QED
    BY <1>12, <2>1 DEF RenewStop, TimerInv, CallInv, TypeOK, TM!Add, TM!Remove,
       TM!ResetStop, TM!ResetArm, TM!Fire
<1>13. ASSUME NEW k \in Keys, RenewArm(k) PROVE TimerInv'
  <2>1. Owners' = Owners /\ timer \in [Keys -> TM!TimerStates]
    BY <1>13, OwnersFrame DEF RenewArm, TypeOK, TM!TypeOK
  <2> QED
    BY <1>13, <2>1 DEF RenewArm, TimerInv, CallInv, TypeOK, TM!Add, TM!Remove,
       TM!ResetStop, TM!ResetArm, TM!Fire
<1>14. ASSUME NEW k \in Keys, Fire(k) PROVE TimerInv'
  <2>1. Owners' = Owners /\ timer \in [Keys -> TM!TimerStates]
    BY <1>14, OwnersFrame DEF Fire, TypeOK, TM!TypeOK
  <2> QED
    BY <1>14, <2>1 DEF Fire, TimerInv, CallInv, TypeOK, TM!Add, TM!Remove,
       TM!ResetStop, TM!ResetArm, TM!Fire
<1>15. ASSUME NEW k \in Keys, CallbackUnlock(k) PROVE TimerInv'
  <2>0. call[k] # None
    BY <1>15 DEF CallbackUnlock, CallInv
  <2>1. /\ k \notin Owners'
        /\ \A j \in Owners' : j \in Owners \/ req[j] \in {"none", "waiting"}
    BY <1>15, <2>0, MgrUnlockStep DEF CallbackUnlock
  <2>2. \A j \in Keys : req[j] \in {"none", "waiting"} => timer[j] = "none" /\ unl[j] = "none"
    BY DEF CallInv
  <2>3. \A x \in Sessions : \A m \in todoTimer[x] : req[m.key] \notin {"none", "waiting"}
    BY DEF EntryInv, Entry
  <2> QED
    BY <1>15, <2>1, <2>2, <2>3 DEF CallbackUnlock, TimerInv, CallInv, TypeOK
<1>16. ASSUME NEW k \in Keys, CallbackRecord(k) PROVE TimerInv'
  <2>1. Owners' = Owners /\ timer \in [Keys -> TM!TimerStates]
    BY <1>16, OwnersFrame DEF CallbackRecord, TypeOK, TM!TypeOK
  <2> QED
    BY <1>16, <2>1 DEF CallbackRecord, TimerInv, CallInv, TypeOK, TM!Add, TM!Remove,
       TM!ResetStop, TM!ResetArm, TM!Fire
<1>17. ASSUME NEW k \in Keys, CallbackTimer(k) PROVE TimerInv'
  <2>1. Owners' = Owners /\ timer \in [Keys -> TM!TimerStates]
    BY <1>17, OwnersFrame DEF CallbackTimer, TypeOK, TM!TypeOK
  <2> QED
    BY <1>17, <2>1 DEF CallbackTimer, TimerInv, CallInv, TypeOK, TM!Add, TM!Remove,
       TM!ResetStop, TM!ResetArm, TM!Fire
<1>18. ASSUME NEW s \in Sessions, DestroyRecords(s) PROVE TimerInv'
  BY <1>18, OwnersFrame DEF DestroyRecords, TimerInv
<1>19. ASSUME NEW s \in Sessions, NEW l \in todo[s], DestroyUnlock(s, l) PROVE TimerInv'
  <2>0. l.key \in Keys /\ call[l.key] # None
    BY <1>19, TodoFacts
  <2>1. /\ l.key \notin Owners'
        /\ \A j \in Owners' : j \in Owners \/ req[j] \in {"none", "waiting"}
    BY <1>19, <2>0, MgrUnlockStep DEF DestroyUnlock
  <2>2. \A j \in Keys : req[j] \in {"none", "waiting"} => timer[j] = "none" /\ unl[j] = "none"
    BY DEF CallInv
  <2>3. \A x \in Sessions : \A m \in todoTimer[x] : req[m.key] \notin {"none", "waiting"}
    BY DEF EntryInv, Entry
  <2> QED
    BY <1>19, <2>1, <2>2, <2>3 DEF DestroyUnlock, TimerInv, CallInv, TypeOK
<1>20. ASSUME NEW s \in Sessions, NEW l \in todoTimer[s], DestroyTimer(s, l)
      PROVE TimerInv'
  <2>1. Owners' = Owners /\ timer \in [Keys -> TM!TimerStates]
    BY <1>20, OwnersFrame DEF DestroyTimer, TypeOK, TM!TypeOK
  <2> QED
    BY <1>20, <2>1 DEF DestroyTimer, TimerInv, CallInv, TypeOK, TM!Add, TM!Remove,
       TM!ResetStop, TM!ResetArm, TM!Fire
<1>21. ASSUME NEW p \in toLoad, LoadLock(p[1], p[2]) PROVE TimerInv'
  <2> DEFINE k == p[2].key
  <2>1. /\ k \in Keys /\ timer[k] = "none" /\ up = "loading" /\ unl[k] = "none"
        /\ \A x \in Sessions : todoTimer[x] = {}
    BY LoadFacts DEF PhaseInv
  <2>2. Owners' \subseteq Owners \cup {k} /\ (k \in Owners' => TM!Add(k) \/ k \in Owners)
    BY <1>21, LoadLockStep, OwnersFrame DEF LoadLock
  <2> HIDE DEF k
  <2>3. TM!Add(k) \/ (Owners' \subseteq Owners /\ UNCHANGED <<timers, timer>>)
    BY <1>21, <2>2, OwnersFrame DEF LoadLock, k
  <2>4. UNCHANGED <<ren, cb, unl, todoTimer>>
    BY <1>21 DEF LoadLock
  <2> QED
    BY <2>1, <2>2, <2>3, <2>4 DEF TimerInv, TypeOK, TM!TypeOK, TM!Add
<1>22. ASSUME LoadDone PROVE TimerInv'
  BY <1>22, OwnersFrame DEF LoadDone, TimerInv
<1>23. ASSUME Restart PROVE TimerInv'
  BY <1>23, OwnersFrame DEF Restart, TimerInv
<1>24. CASE UNCHANGED vars
  BY <1>24, OwnersFrame DEF vars, TimerInv
<1> HIDE DEF lmVars, tmVars, smVars, loadVars, connVars, lockVars, opVars, histVars
<1> QED
  BY <1>1, <1>2, <1>3, <1>4, <1>5, <1>6, <1>7, <1>8, <1>9, <1>10, <1>11, <1>12, <1>13,
     <1>14, <1>15, <1>16, <1>17, <1>18, <1>19, <1>20, <1>21, <1>22, <1>23, <1>24
  DEF LiveNext

\* Somebody will unlock what is held.
LEMMA OrphanLive ==
  ASSUME TypeOK, ManagerInv, CallInv, EntryInv, LoadInv, PhaseInv, SyncInv, TimerInv,
         OrphanInv, LiveNext
  PROVE  OrphanInv'
<1> USE DEF lmVars, tmVars, smVars, loadVars, connVars, lockVars, opVars, histVars
<1>1. ASSUME NEW k \in Keys, NEW c \in Calls, LockCall(k, c) PROVE OrphanInv'
  <2>1. /\ k \notin Owners /\ Owners' \subseteq Owners \cup {k} /\ Listed' = Listed
        /\ k \in Owners' => req'[k] = "granted"
    BY <1>1, LockCallStep, LockCallTable
  <2>2. /\ unl[k] = "none" /\ UNCHANGED <<timers, timer, noClearOnDisconnect, todo, ren, cb, unl>>
        /\ \A j \in Keys \ {k} : call'[j] = call[j] /\ req'[j] = req[j] /\ LockOf(j)' = LockOf(j)
    BY <1>1 DEF LockCall, CallInv, LockOf, TypeOK
  <2>3. Owners' \subseteq Keys
    BY DEF Owners
  <2> QED
    BY <2>1, <2>2, <2>3 DEF OrphanInv, Timed
<1>2. ASSUME NEW k \in Keys, GiveUp(k) PROVE OrphanInv'
  <2>1. k \notin Owners' /\ \A j \in Owners' : j \in Owners \/ req[j] = "waiting"
    BY <1>2, GiveUpStep
  <2>2. /\ UNCHANGED <<timers, timer, noClearOnDisconnect, call, todo, ren, cb, unl, Listed>>
        /\ \A j \in Keys \ {k} : req'[j] = req[j]
        /\ \A j \in Keys : LockOf(j)' = LockOf(j)
    BY <1>2, TableFrame DEF GiveUp, LockOf, TypeOK
  <2>3. \A j \in Keys : req[j] = "waiting" => unl[j] = "none"
    BY DEF CallInv
  <2>4. Owners' \subseteq Keys
    BY DEF Owners
  <2> QED
    BY <2>1, <2>2, <2>3, <2>4 DEF OrphanInv, Timed
<1>3. ASSUME NEW k \in Keys, RenewCall(k) PROVE OrphanInv'
  <2>1. /\ UNCHANGED <<noClearOnDisconnect, call, todo, Owners, Listed>>
        /\ Owners \subseteq Keys /\ \A j \in Keys : LockOf(j)' = LockOf(j)
    BY <1>3, TableFrame, OwnersFrame DEF RenewCall, LockOf, Owners
  <2> QED
    BY <1>3, <2>1 DEF RenewCall, OrphanInv, TimerInv, CallInv, Timed, Owners, TypeOK,
       TM!TypeOK, TM!TimerStates, TM!Stopped, TM!Add, TM!Remove, TM!ResetStop, TM!ResetArm, TM!Fire
<1>4. ASSUME NEW k \in Keys, NEW s \in Sessions, UnlockCall(k, s) PROVE OrphanInv'
  <2>1. /\ UNCHANGED <<noClearOnDisconnect, call, todo, Owners, Listed>>
        /\ Owners \subseteq Keys /\ \A j \in Keys : LockOf(j)' = LockOf(j)
    BY <1>4, TableFrame, OwnersFrame DEF UnlockCall, LockOf, Owners
  <2> QED
    BY <1>4, <2>1 DEF UnlockCall, OrphanInv, Timed, Owners, TypeOK
<1>5. ASSUME NEW s \in Sessions, Connect(s) PROVE OrphanInv'
  <2>1. /\ UNCHANGED <<noClearOnDisconnect, call, req, todo, Owners>> /\ Running /\ Running'
        /\ Owners \subseteq Keys /\ \A j \in Keys : LockOf(j)' = LockOf(j)
    BY <1>5, OwnersFrame DEF Connect, Running, LockOf, Owners
  <2>2. Listed' = Listed
    BY <1>5, <2>1, ConnectTable DEF Connect
  <2> QED
    BY <1>5, <2>1, <2>2 DEF Connect, OrphanInv, Timed
<1>6. ASSUME NEW s \in Sessions, Disconnect(s) PROVE OrphanInv'
  <2>1. /\ UNCHANGED <<noClearOnDisconnect, call, todo, Owners, Listed>>
        /\ Owners \subseteq Keys /\ \A j \in Keys : LockOf(j)' = LockOf(j)
    BY <1>6, TableFrame, OwnersFrame DEF Disconnect, LockOf, Owners
  <2> QED
    BY <1>6, <2>1 DEF Disconnect, OrphanInv, Timed
<1>7. ASSUME NEW k \in Keys, AddLock(k) PROVE OrphanInv'
  <2>1. /\ call[k] # None /\ Running /\ Running'
        /\ UNCHANGED <<noClearOnDisconnect, call, todo, Owners, timers, timer, ren, cb, unl>>
        /\ req'[k] \in {"added", "done"} /\ \A j \in Keys \ {k} : req'[j] = req[j]
        /\ \A j \in Keys : LockOf(j)' = LockOf(j)
    BY <1>7, OwnersFrame DEF AddLock, Answer, CallInv, PhaseInv, Running, TypeOK, LockOf
  <2>2. Listed' = Listed \cup {k}
    BY <1>7, <2>1, AddLockTable DEF AddLock, Answer
  <2>3. Owners \subseteq Keys
    BY DEF Owners
  <2> QED
    BY <2>1, <2>2, <2>3 DEF OrphanInv, Timed
<1>8. ASSUME NEW k \in Keys, AddTimer(k) PROVE OrphanInv'
  <2>1. /\ UNCHANGED <<noClearOnDisconnect, call, todo, Owners, Listed>>
        /\ Owners \subseteq Keys /\ \A j \in Keys : LockOf(j)' = LockOf(j)
    BY <1>8, TableFrame, OwnersFrame DEF AddTimer, Answer, LockOf, Owners
  <2> QED
    BY <1>8, <2>1 DEF AddTimer, Answer, OrphanInv, TimerInv, CallInv, Timed, Owners,
       TypeOK, TM!TypeOK, TM!TimerStates, TM!Stopped, TM!Add, TM!Remove, TM!ResetStop,
       TM!ResetArm, TM!Fire
<1>9. ASSUME NEW k \in Keys, UnlockTimer(k) PROVE OrphanInv'
  <2>1. /\ UNCHANGED <<noClearOnDisconnect, call, todo, Owners, Listed>>
        /\ Owners \subseteq Keys /\ \A j \in Keys : LockOf(j)' = LockOf(j)
    BY <1>9, TableFrame, OwnersFrame DEF UnlockTimer, LockOf, Owners
  <2> QED
    BY <1>9, <2>1 DEF UnlockTimer, OrphanInv, TimerInv, CallInv, Timed, Owners, TypeOK,
       TM!TypeOK, TM!TimerStates, TM!Stopped, TM!Add, TM!Remove, TM!ResetStop, TM!ResetArm, TM!Fire
<1>10. ASSUME NEW k \in Keys, UnlockMgr(k) PROVE OrphanInv'
  <2>1. call[k] # None
    BY <1>10 DEF UnlockMgr, CallInv
  <2>2. /\ k \notin Owners' /\ \A j \in Owners' : j \in Owners \/ req[j] = "waiting"
        /\ UNCHANGED <<noClearOnDisconnect, call, req, todo, Listed>>
        /\ \A j \in Keys : LockOf(j)' = LockOf(j)
    BY <1>10, <2>1, MgrUnlockStep, TableFrame DEF UnlockMgr, LockOf
  <2>3. \A j \in Keys : req[j] = "waiting" => unl[j] = "none"
    BY DEF CallInv
  <2>4. Owners' \subseteq Keys
    BY DEF Owners
  <2> QED
    BY <1>10, <2>2, <2>3, <2>4 DEF UnlockMgr, OrphanInv, Timed, TypeOK
<1>11. ASSUME NEW k \in Keys, UnlockRemove(k) PROVE OrphanInv'
  <2>1. /\ UNCHANGED <<noClearOnDisconnect, call, req, todo, Owners, timers, timer, ren, cb>>
        /\ Running /\ Running' /\ \A j \in Keys : LockOf(j)' = LockOf(j)
        /\ unl'[k] = "none" /\ \A j \in Keys \ {k} : unl'[j] = unl[j]
    BY <1>11, OwnersFrame DEF UnlockRemove, CallInv, PhaseInv, Running, LockOf, TypeOK
  <2>2. Listed \ {k} \subseteq Listed'
    BY <1>11, <2>1, RemoveLockTable DEF UnlockRemove
  <2>3. k \in Owners => k \notin timers /\ Timed(k)
    BY <1>11 DEF UnlockRemove, OrphanInv, TimerInv
  <2>4. Owners \subseteq Keys
    BY DEF Owners
  <2> QED
    BY <2>1, <2>2, <2>3, <2>4 DEF OrphanInv, Timed
<1>12. ASSUME NEW k \in Keys, RenewStop(k) PROVE OrphanInv'
  <2>1. /\ UNCHANGED <<noClearOnDisconnect, call, todo, Owners, Listed>>
        /\ Owners \subseteq Keys /\ \A j \in Keys : LockOf(j)' = LockOf(j)
    BY <1>12, TableFrame, OwnersFrame DEF RenewStop, LockOf, Owners
  <2> QED
    BY <1>12, <2>1 DEF RenewStop, OrphanInv, TimerInv, CallInv, Timed, Owners, TypeOK,
       TM!TypeOK, TM!TimerStates, TM!Stopped, TM!Add, TM!Remove, TM!ResetStop, TM!ResetArm, TM!Fire
<1>13. ASSUME NEW k \in Keys, RenewArm(k) PROVE OrphanInv'
  <2>1. /\ UNCHANGED <<noClearOnDisconnect, call, todo, Owners, Listed>>
        /\ Owners \subseteq Keys /\ \A j \in Keys : LockOf(j)' = LockOf(j)
    BY <1>13, TableFrame, OwnersFrame DEF RenewArm, LockOf, Owners
  <2> QED
    BY <1>13, <2>1 DEF RenewArm, OrphanInv, TimerInv, CallInv, Timed, Owners, TypeOK,
       TM!TypeOK, TM!TimerStates, TM!Stopped, TM!Add, TM!Remove, TM!ResetStop, TM!ResetArm, TM!Fire
<1>14. ASSUME NEW k \in Keys, Fire(k) PROVE OrphanInv'
  <2>1. /\ UNCHANGED <<noClearOnDisconnect, call, todo, Owners, Listed>>
        /\ Owners \subseteq Keys /\ \A j \in Keys : LockOf(j)' = LockOf(j)
    BY <1>14, TableFrame, OwnersFrame DEF Fire, LockOf, Owners
  <2> QED
    BY <1>14, <2>1 DEF Fire, OrphanInv, TimerInv, CallInv, Timed, Owners, TypeOK,
       TM!TypeOK, TM!TimerStates, TM!Stopped, TM!Add, TM!Remove, TM!ResetStop, TM!ResetArm, TM!Fire
<1>15. ASSUME NEW k \in Keys, CallbackUnlock(k) PROVE OrphanInv'
  <2>1. call[k] # None
    BY <1>15 DEF CallbackUnlock, CallInv
  <2>2. /\ k \notin Owners' /\ \A j \in Owners' : j \in Owners \/ req[j] = "waiting"
        /\ UNCHANGED <<noClearOnDisconnect, call, req, todo, Listed>>
        /\ \A j \in Keys : LockOf(j)' = LockOf(j)
    BY <1>15, <2>1, MgrUnlockStep, TableFrame DEF CallbackUnlock, LockOf
  <2>3. \A j \in Keys : req[j] = "waiting" => unl[j] = "none"
    BY DEF CallInv
  <2>4. Owners' \subseteq Keys
    BY DEF Owners
  <2> QED
    BY <1>15, <2>2, <2>3, <2>4 DEF CallbackUnlock, OrphanInv, Timed, TypeOK
<1>16. ASSUME NEW k \in Keys, CallbackRecord(k) PROVE OrphanInv'
  <2>1. /\ UNCHANGED <<noClearOnDisconnect, call, req, todo, Owners, timers, timer, ren, unl>>
        /\ Running /\ Running' /\ \A j \in Keys : LockOf(j)' = LockOf(j)
        /\ \A j \in Keys \ {k} : cb'[j] = cb[j]
    BY <1>16, OwnersFrame DEF CallbackRecord, CallInv, PhaseInv, Running, LockOf, TypeOK
  <2>2. Listed \ {k} \subseteq Listed'
    BY <1>16, <2>1, RemoveLockTable, TableFrame DEF CallbackRecord
  <2>3. k \notin Owners
    BY <1>16 DEF CallbackRecord, TimerInv, CallInv
  <2>4. Owners \subseteq Keys
    BY DEF Owners
  <2> QED
    BY <2>1, <2>2, <2>3, <2>4 DEF OrphanInv, Timed
<1>17. ASSUME NEW k \in Keys, CallbackTimer(k) PROVE OrphanInv'
  <2>1. /\ UNCHANGED <<noClearOnDisconnect, call, todo, Owners, Listed>>
        /\ Owners \subseteq Keys /\ \A j \in Keys : LockOf(j)' = LockOf(j)
    BY <1>17, TableFrame, OwnersFrame DEF CallbackTimer, LockOf, Owners
  <2> QED
    BY <1>17, <2>1 DEF CallbackTimer, OrphanInv, TimerInv, CallInv, Timed, Owners,
       TypeOK, TM!TypeOK, TM!TimerStates, TM!Stopped, TM!Add, TM!Remove, TM!ResetStop,
       TM!ResetArm, TM!Fire
<1>18. ASSUME NEW s \in Sessions, DestroyRecords(s) PROVE OrphanInv'
  <2>1. /\ UNCHANGED <<noClearOnDisconnect, call, req, Owners, timers, timer, ren, cb, unl>>
        /\ Running /\ Running' /\ \A j \in Keys : LockOf(j)' = LockOf(j)
        /\ Owners \subseteq Keys
        /\ ~noClearOnDisconnect => todo' = [todo EXCEPT ![s] = SM!LocksOf(s)]
        /\ todo[s] = {} /\ todo \in [Sessions -> SUBSET Locks]
    BY <1>18, OwnersFrame DEF DestroyRecords, Running, LockOf, PhaseInv, TypeOK, Owners
  <2>2. /\ Listed' = {k \in Listed : call[k].sess # s}
        /\ \A k \in Listed : call[k].sess = s => LockOf(k) \in SM!LocksOf(s)
    BY <1>18, <2>1, DestroySessionTable DEF DestroyRecords
  <2>3. ASSUME NEW k \in Owners, k \in Listed \/ LockOf(k) \in todo[call[k].sess],
               ~noClearOnDisconnect
        PROVE  k \in Listed' \/ LockOf(k) \in todo'[call[k].sess]
    <3>1. call[k].sess \in Sessions
      BY CallFacts DEF Owners, Held
    <3> QED
      BY <3>1, <2>1, <2>2, <2>3
  <2> QED
    BY <2>1, <2>3 DEF OrphanInv, Timed
<1>19. ASSUME NEW s \in Sessions, NEW l \in todo[s], DestroyUnlock(s, l)
      PROVE OrphanInv'
  <2>1. l.key \in Keys /\ call[l.key] # None
    BY <1>19, TodoFacts
  <2>2. /\ l.key \notin Owners' /\ \A j \in Owners' : j \in Owners \/ req[j] = "waiting"
        /\ UNCHANGED <<noClearOnDisconnect, call, req, Listed, timers, timer, ren, cb, unl>>
        /\ \A j \in Keys : LockOf(j)' = LockOf(j) /\ LockOf(j).key = j
        /\ todo' = [todo EXCEPT ![s] = todo[s] \ {l}] /\ todo \in [Sessions -> SUBSET Locks]
    BY <1>19, <2>1, MgrUnlockStep, TableFrame DEF DestroyUnlock, LockOf, TypeOK
  <2>3. \A j \in Keys : req[j] = "waiting" => unl[j] = "none"
    BY DEF CallInv
  <2>4. Owners' \subseteq Keys
    BY DEF Owners
  <2>5. ASSUME NEW k \in Owners', LockOf(k) \in todo[call[k].sess]
        PROVE  LockOf(k) \in todo'[call[k].sess]
    <3>1. LockOf(k) # l
      BY <2>2, <2>4
    <3> QED
      BY <3>1, <2>2, <2>5
  <2> QED
    BY <2>2, <2>3, <2>4, <2>5 DEF OrphanInv, Timed
<1>20. ASSUME NEW s \in Sessions, NEW l \in todoTimer[s], DestroyTimer(s, l)
      PROVE OrphanInv'
  <2>0. l.key \notin Owners
    BY DEF TimerInv
  <2>1. /\ UNCHANGED <<noClearOnDisconnect, call, todo, Owners, Listed>>
        /\ Owners \subseteq Keys /\ \A j \in Keys : LockOf(j)' = LockOf(j)
    BY <1>20, TableFrame, OwnersFrame DEF DestroyTimer, LockOf, Owners
  <2> QED
    BY <1>20, <2>0, <2>1 DEF DestroyTimer, OrphanInv, TimerInv, CallInv, Timed, Owners,
       TypeOK, TM!TypeOK, TM!TimerStates, TM!Stopped, TM!Add, TM!Remove, TM!ResetStop,
       TM!ResetArm, TM!Fire
<1>21. ASSUME NEW p \in toLoad, LoadLock(p[1], p[2]) PROVE OrphanInv'
  <2> DEFINE k == p[2].key
  <2>1. /\ k \in Keys /\ k \in Listed /\ k \notin Owners /\ unl[k] = "none"
        /\ UNCHANGED <<noClearOnDisconnect, call, req, todo, ren, cb, unl>>
    BY <1>21, LoadFacts DEF LoadLock, PhaseInv
  <2>2. /\ Owners' \subseteq Owners \cup {k} /\ Listed \ {k} \subseteq Listed'
        /\ (k \in Owners' /\ Listed' = Listed) \/ Owners' = Owners
    BY <1>21, LoadLockStep
  <2>3. /\ timers' \subseteq timers \cup {k} /\ \A j \in Keys \ {k} : timer'[j] = timer[j]
    BY <1>21, <2>1 DEF LoadLock, TM!Add, TypeOK, TM!TypeOK
  <2>4. Owners \subseteq Keys /\ \A j \in Keys : LockOf(j)' = LockOf(j)
    BY <2>1 DEF Owners, LockOf
  <2> HIDE DEF k
  <2> QED
    BY <2>1, <2>2, <2>3, <2>4 DEF OrphanInv, Timed
<1>22. ASSUME LoadDone PROVE OrphanInv'
  <2>1. /\ UNCHANGED <<noClearOnDisconnect, call, todo, Owners, Listed>>
        /\ Owners \subseteq Keys /\ \A j \in Keys : LockOf(j)' = LockOf(j)
    BY <1>22, TableFrame, OwnersFrame DEF LoadDone, LockOf, Owners
  <2> QED
    BY <1>22, <2>1 DEF LoadDone, OrphanInv, Timed
<1>23. ASSUME Restart PROVE OrphanInv'
  <2>1. \A n \in Names : held[n] = {}
    BY <1>23 DEF Restart, PhaseInv, Running
  <2>2. Owners' = {}
    BY <1>23, <2>1, CallFacts, OwnersFrame DEF Restart, Owners, Held
  <2> QED
    BY <2>2 DEF OrphanInv
<1>24. CASE UNCHANGED vars
  <2>1. /\ UNCHANGED <<noClearOnDisconnect, call, todo, Owners, Listed>>
        /\ Owners \subseteq Keys /\ \A j \in Keys : LockOf(j)' = LockOf(j)
    BY <1>24, TableFrame, OwnersFrame DEF vars, LockOf, Owners
  <2> QED
    BY <1>24, <2>1 DEF vars, OrphanInv, Timed
<1> HIDE DEF lmVars, tmVars, smVars, loadVars, connVars, lockVars, opVars, histVars
<1> QED
  BY <1>1, <1>2, <1>3, <1>4, <1>5, <1>6, <1>7, <1>8, <1>9, <1>10, <1>11, <1>12, <1>13,
     <1>14, <1>15, <1>16, <1>17, <1>18, <1>19, <1>20, <1>21, <1>22, <1>23, <1>24
  DEF LiveNext

\* What OnlyAskedReleases says of a step.
ReleaseIsAsked ==
  \A k \in Keys : Held(k) =>
    \/ Held(k)' \/ k \in asked \/ ~Running'
    \/ (req[k] = "waiting" /\ req'[k] = "done")

\* No step takes a slot from a key that was not asked for.
LEMMA ReleasesLive ==
  ASSUME TypeOK, ManagerInv, CallInv, EntryInv, LoadInv, PhaseInv, SyncInv, LiveNext
  PROVE  ReleaseIsAsked
<1> USE DEF lmVars, tmVars, smVars, loadVars, connVars, lockVars, opVars, histVars
<1>1. ASSUME NEW k \in Keys, NEW c \in Calls, LockCall(k, c) PROVE ReleaseIsAsked
  BY <1>1, LockCallStep DEF ReleaseIsAsked, Owners
<1>2. ASSUME NEW k \in Keys, GiveUp(k) PROVE ReleaseIsAsked
  <2>1. Owners \ {k} \subseteq Owners' /\ req[k] = "waiting" /\ req'[k] = "done"
    BY <1>2, GiveUpStep DEF GiveUp, TypeOK
  <2> QED
    BY <2>1 DEF ReleaseIsAsked, Owners
<1>3. ASSUME NEW k \in Keys, RenewCall(k) PROVE ReleaseIsAsked
  BY <1>3, OwnersFrame DEF RenewCall, ReleaseIsAsked, Owners
<1>4. ASSUME NEW k \in Keys, NEW s \in Sessions, UnlockCall(k, s) PROVE ReleaseIsAsked
  BY <1>4, OwnersFrame DEF UnlockCall, ReleaseIsAsked, Owners
<1>5. ASSUME NEW s \in Sessions, Connect(s) PROVE ReleaseIsAsked
  BY <1>5, OwnersFrame DEF Connect, ReleaseIsAsked, Owners
<1>6. ASSUME NEW s \in Sessions, Disconnect(s) PROVE ReleaseIsAsked
  BY <1>6, OwnersFrame DEF Disconnect, ReleaseIsAsked, Owners
<1>7. ASSUME NEW k \in Keys, AddLock(k) PROVE ReleaseIsAsked
  BY <1>7, OwnersFrame DEF AddLock, Answer, ReleaseIsAsked, Owners
<1>8. ASSUME NEW k \in Keys, AddTimer(k) PROVE ReleaseIsAsked
  BY <1>8, OwnersFrame DEF AddTimer, Answer, ReleaseIsAsked, Owners
<1>9. ASSUME NEW k \in Keys, UnlockTimer(k) PROVE ReleaseIsAsked
  BY <1>9, OwnersFrame DEF UnlockTimer, ReleaseIsAsked, Owners
<1>10. ASSUME NEW k \in Keys, UnlockMgr(k) PROVE ReleaseIsAsked
  <2>1. call[k] # None /\ k \in asked /\ UNCHANGED <<call, req>>
    BY <1>10 DEF UnlockMgr, CallInv
  <2>2. Owners \ {k} \subseteq Owners'
    BY <1>10, <2>1, MgrUnlockStep DEF UnlockMgr
  <2> QED
    BY <2>1, <2>2 DEF ReleaseIsAsked, Owners
<1>11. ASSUME NEW k \in Keys, UnlockRemove(k) PROVE ReleaseIsAsked
  BY <1>11, OwnersFrame DEF UnlockRemove, ReleaseIsAsked, Owners
<1>12. ASSUME NEW k \in Keys, RenewStop(k) PROVE ReleaseIsAsked
  BY <1>12, OwnersFrame DEF RenewStop, ReleaseIsAsked, Owners
<1>13. ASSUME NEW k \in Keys, RenewArm(k) PROVE ReleaseIsAsked
  BY <1>13, OwnersFrame DEF RenewArm, ReleaseIsAsked, Owners
<1>14. ASSUME NEW k \in Keys, Fire(k) PROVE ReleaseIsAsked
  BY <1>14, OwnersFrame DEF Fire, ReleaseIsAsked, Owners
<1>15. ASSUME NEW k \in Keys, CallbackUnlock(k) PROVE ReleaseIsAsked
  <2>1. call[k] # None /\ k \in asked /\ UNCHANGED <<call, req>>
    BY <1>15 DEF CallbackUnlock, CallInv
  <2>2. Owners \ {k} \subseteq Owners'
    BY <1>15, <2>1, MgrUnlockStep DEF CallbackUnlock
  <2> QED
    BY <2>1, <2>2 DEF ReleaseIsAsked, Owners
<1>16. ASSUME NEW k \in Keys, CallbackRecord(k) PROVE ReleaseIsAsked
  BY <1>16, OwnersFrame DEF CallbackRecord, ReleaseIsAsked, Owners
<1>17. ASSUME NEW k \in Keys, CallbackTimer(k) PROVE ReleaseIsAsked
  BY <1>17, OwnersFrame DEF CallbackTimer, ReleaseIsAsked, Owners
<1>18. ASSUME NEW s \in Sessions, DestroyRecords(s) PROVE ReleaseIsAsked
  BY <1>18, OwnersFrame DEF DestroyRecords, ReleaseIsAsked, Owners
<1>19. ASSUME NEW s \in Sessions, NEW l \in todo[s], DestroyUnlock(s, l)
      PROVE ReleaseIsAsked
  <2>1. l.key \in Keys /\ call[l.key] # None /\ l.key \in asked /\ UNCHANGED <<call, req>>
    BY <1>19, TodoFacts DEF DestroyUnlock
  <2>2. Owners \ {l.key} \subseteq Owners'
    BY <1>19, <2>1, MgrUnlockStep DEF DestroyUnlock
  <2> QED
    BY <2>1, <2>2 DEF ReleaseIsAsked, Owners
<1>20. ASSUME NEW s \in Sessions, NEW l \in todoTimer[s], DestroyTimer(s, l)
      PROVE ReleaseIsAsked
  BY <1>20, OwnersFrame DEF DestroyTimer, ReleaseIsAsked, Owners
<1>21. ASSUME NEW p \in toLoad, LoadLock(p[1], p[2]) PROVE ReleaseIsAsked
  BY <1>21, LoadLockStep DEF ReleaseIsAsked, Owners
<1>22. ASSUME LoadDone PROVE ReleaseIsAsked
  BY <1>22, OwnersFrame DEF LoadDone, ReleaseIsAsked, Owners
<1>23. ASSUME Restart PROVE ReleaseIsAsked
  BY <1>23, OwnersFrame DEF Restart, ReleaseIsAsked, Owners
<1>24. CASE UNCHANGED vars
  BY <1>24, OwnersFrame DEF vars, ReleaseIsAsked, Owners
<1> HIDE DEF lmVars, tmVars, smVars, loadVars, connVars, lockVars, opVars, histVars
<1> QED
  BY <1>1, <1>2, <1>3, <1>4, <1>5, <1>6, <1>7, <1>8, <1>9, <1>10, <1>11, <1>12, <1>13,
     <1>14, <1>15, <1>16, <1>17, <1>18, <1>19, <1>20, <1>21, <1>22, <1>23, <1>24
  DEF LiveNext

-----------------------------------------------------------------------------
(* A process that dies, and all steps together.                            *)

\* Only the file and what clients remember is left of a process that dies.
LEMMA DieStep ==
  ASSUME CoreInv, NEW cause \in {"down", "panicked", "failed"}, Die(cause),
         crashes' \in 0..MaxCrashes
  PROVE  CoreInv' /\ Owners' = {} /\ (\A s \in Sessions : todoTimer'[s] = {})
         /\ \A k \in Keys : timer'[k] = "none" /\ unl'[k] = "none"
<1> USE DEF CoreInv, Die
<1>1. \A k \in Keys : LockOf(k)' = LockOf(k)
  BY DEF LockOf
<1>2. DOMAIN sessionLocks' = {}
  BY DEF SM!EmptyTable
<1>3. /\ \A n \in Names : held'[n] = {} /\ cap'[n] = 0 /\ queue'[n] = << >>
      /\ \A k \in Keys : timer'[k] = "none" /\ unl'[k] = "none" /\ cb'[k] = "none" /\ ren'[k] = "none"
      /\ \A k \in Keys : req'[k] = IF req[k] = "none" THEN "none" ELSE "done"
      /\ \A s \in Sessions : todo'[s] = {} /\ todoTimer'[s] = {}
      /\ \A s \in Sessions : conn'[s] = IF conn[s] = "new" THEN "new" ELSE "ended"
      /\ toLoad' = {} /\ ~Running' /\ up' # "up"
  BY DEF Running
<1>4. Owners' = {}
  <2> SUFFICES ASSUME NEW k \in Keys, call[k] # None PROVE k \notin held'[call[k].name]
    BY DEF Owners, Held
  <2> QED
    BY <1>3, CallFacts
<1>5. Saved' = Saved
  BY <1>1 DEF Saved, InFile
<1>6. ManagerInv'
  <2>1. ManagerTypeOK'
    BY DEF ManagerTypeOK, LM!IsInjective
  <2>2. IsFiniteSet({}) /\ Cardinality({}) = 0
    BY FS_EmptySet
  <2>3. HolderInv' /\ SlotInv'
    BY <1>3, <2>2 DEF HolderInv, SlotInv
  <2>4. QueueInv'
    BY <1>3 DEF QueueInv
  <2> QED
    BY <2>1, <2>3, <2>4 DEF ManagerInv
<1>7. TypeOK'
  <2>1. SM!TypeOK'
    BY <1>2 DEF TypeOK, SM!TypeOK, SM!IsTable, SM!EmptyTable
  <2>2. TM!TypeOK'
    BY DEF TM!TypeOK, TM!TimerStates
  <2>3. /\ noClearOnDisconnect' \in BOOLEAN
        /\ conn' \in [Sessions -> {"new", "live", "ending", "ended"}]
        /\ call' \in [Keys -> Calls \cup {None}]
        /\ req' \in [Keys -> {"none", "waiting", "granted", "added", "done"}]
        /\ acked' \subseteq Keys /\ asked' \subseteq Keys /\ freed' \subseteq Keys
    BY DEF TypeOK
  <2>4. RestTypeOK'
    BY <2>1, <2>2, <2>3 DEF RestTypeOK
  <2> QED
    BY <2>4, <1>6, TypeSplitNext DEF ManagerInv
<1>8. CallInv' /\ RequestInv' /\ PhaseInv' /\ LoadInv'
  BY <1>2, <1>3 DEF CallInv, RequestInv, PhaseInv, LoadInv, TypeOK
<1>9. EntryInv'
  <2>1. \A x, l : Entry(x, l) => Entry(x, l)'
    BY <1>1, <1>3 DEF Entry
  <2> QED
    BY <2>1, <1>2, <1>3 DEF EntryInv
<1>10. SyncInv'
  BY <1>3 DEF SyncInv
<1>11. KeptInv'
  BY <1>3, <1>5 DEF KeptInv
<1>12. ExcludeInv'
  BY ExcludeFrame
<1> QED
  BY <1>3, <1>4, <1>6, <1>7, <1>8, <1>9, <1>10, <1>11, <1>12

\* Nothing is held, listed or called at first.
LEMMA InitCore == Init => CoreInv
<1> SUFFICES ASSUME Init PROVE CoreInv
  OBVIOUS
<1> USE DEF Init, LM!Init, TM!Init, SM!Init
<1>1. DOMAIN sessionLocks = {} /\ DOMAIN file = {} /\ sessionLocks = file
  BY DEF SM!EmptyTable
<1>2. IsFiniteSet({}) /\ Cardinality({}) = 0
  BY FS_EmptySet
<1>3. ManagerInv
  <2>1. ManagerTypeOK
    BY DEF ManagerTypeOK, LM!IsInjective
  <2>2. HolderInv /\ SlotInv /\ QueueInv
    BY <1>2 DEF HolderInv, SlotInv, QueueInv
  <2> QED
    BY <2>1, <2>2 DEF ManagerInv
<1>4. TypeOK
  <2>1. SM!TypeOK
    BY <1>1 DEF SM!TypeOK, SM!IsTable, SM!EmptyTable
  <2>2. TM!TypeOK
    BY DEF TM!TypeOK, TM!TimerStates
  <2>3. noClearOnDisconnect \in BOOLEAN /\ crashes \in 0..MaxCrashes
    BY ConstantsAssumption
  <2>4. RestTypeOK
    BY <2>1, <2>2, <2>3 DEF RestTypeOK
  <2> QED
    BY <2>4, <1>3, TypeSplit DEF ManagerInv
<1>5. CallInv /\ RequestInv /\ LoadInv /\ PhaseInv
  BY DEF CallInv, RequestInv, LoadInv, PhaseInv, Running
<1>6. EntryInv /\ SyncInv
  BY <1>1 DEF EntryInv, SyncInv
<1>7. KeptInv /\ ExcludeInv
  BY <1>2 DEF KeptInv, ExcludeInv, ClientsExclude
<1> QED
  BY <1>3, <1>4, <1>5, <1>6, <1>7 DEF CoreInv

\* A step that the process survives keeps the core invariants.
LEMMA LiveCore ==
  ASSUME CoreInv, LiveNext
  PROVE  CoreInv'
<1>1. ManagerInv' /\ RestTypeOK' /\ CallInv' /\ EntryInv' /\ LoadInv' /\ PhaseInv' /\ SyncInv' /\ RequestInv'
  BY ManagerLive, TypesLive, CallsLive, EntriesLive, LoadLive, PhasesLive, SyncLive, RequestsLive
  DEF CoreInv
<1>2. TypeOK'
  BY <1>1, TypeSplitNext DEF ManagerInv
<1>3. KeptInv'
  BY <1>1, KeptLive DEF CoreInv
<1>4. ExcludeInv'
  BY <1>1, <1>2, <1>3, ExcludeLive DEF CoreInv
<1> QED
  BY <1>1, <1>2, <1>3, <1>4 DEF CoreInv

\* A step is survived or is the end of the process.
LEMMA StepKinds ==
  ASSUME CoreInv, [Next]_vars
  PROVE  \/ LiveNext
         \/ \E cause \in {"down", "panicked", "failed"} : Die(cause) /\ crashes' \in 0..MaxCrashes
<1>1. ASSUME NEW k \in Keys, UnlockPanics(k)
      PROVE  Die("panicked") /\ crashes' \in 0..MaxCrashes
  BY <1>1 DEF UnlockPanics, CoreInv, TypeOK
<1>2. ASSUME NEW p \in toLoad, LoadPanics(p[1], p[2])
      PROVE  Die("failed") /\ crashes' \in 0..MaxCrashes
  BY <1>2 DEF LoadPanics, CoreInv, TypeOK
<1>3. ASSUME Crash PROVE Die("down") /\ crashes' \in 0..MaxCrashes
  BY <1>3, ConstantsAssumption DEF Crash, CoreInv, TypeOK
<1> QED
  BY <1>1, <1>2, <1>3 DEF Next, ClientStep, ServerStep, SessionStep, LoadStep, LiveNext

\* Every step keeps the core invariants.
LEMMA NextCore == CoreInv /\ [Next]_vars => CoreInv'
BY StepKinds, LiveCore, DieStep


\* A death leaves no timer and no owner, so nothing of theirs to keep.
LEMMA DieTimers ==
  ASSUME CoreInv, NEW cause \in {"down", "panicked", "failed"}, Die(cause),
         crashes' \in 0..MaxCrashes
  PROVE  TimerInv' /\ OrphanInv'
BY DieStep DEF Die, TimerInv, OrphanInv

\* Nothing is timed or owned at first.
LEMMA InitInd == Init => IndInv
<1> SUFFICES ASSUME Init PROVE IndInv
  OBVIOUS
<1>1. CoreInv
  BY InitCore
<1>2. Owners = {}
  BY DEF Init, Owners, Held
<1>3. TimerInv
  BY <1>2 DEF Init, TM!Init, TimerInv
<1>4. OrphanInv
  BY <1>2 DEF OrphanInv
<1> QED
  BY <1>1, <1>3, <1>4 DEF IndInv

\* Every step keeps the inductive invariant.
LEMMA NextInd == IndInv /\ [Next]_vars => IndInv'
<1> SUFFICES ASSUME IndInv, [Next]_vars PROVE IndInv'
  OBVIOUS
<1>1. CoreInv'
  BY NextCore DEF IndInv
<1>2. CASE LiveNext
  <2>1. TimerInv' /\ OrphanInv'
    BY <1>2, TimersLive, OrphanLive DEF IndInv, CoreInv
  <2> QED
    BY <1>1, <2>1 DEF IndInv
<1>3. ASSUME NEW cause \in {"down", "panicked", "failed"}, Die(cause), crashes' \in 0..MaxCrashes
      PROVE  IndInv'
  BY <1>1, <1>3, DieTimers DEF IndInv
<1> QED
  BY <1>2, <1>3, StepKinds DEF IndInv

\* Whoever holds a lock is in one of the five states of NoOrphan.
LEMMA OrphanFact == IndInv => NoOrphan
BY DEF IndInv, OrphanInv, NoOrphan, Owners, Listed, Timed

-----------------------------------------------------------------------------
(* The properties.                                                         *)

\* The inductive invariant holds in every reachable state.
THEOREM Inductive == Spec => []IndInv
BY InitInd, NextInd, PTL DEF Spec

\* Every variable of the composed server has its type: the lock manager, the
\* session table, the state file, the timers and the calls in progress.
THEOREM TypeCorrect == Spec => []TypeOK
BY Inductive, PTL DEF IndInv, CoreInv

\* KeptUntilReleased, for every number of crashes: AddLock saves the table
\* before the answer, New loads it before it serves.  A server that does not
\* clear the locks of a session that ended goes on with them unasked for, so the
\* other setting is not claimed.
THEOREM Kept == Spec => [](~noClearOnDisconnect => KeptUntilReleased)
<1>1. IndInv => (~noClearOnDisconnect => KeptUntilReleased)
  BY DEF IndInv, CoreInv, KeptInv, KeptUntilReleased, Owners, Listed, Saved, TypeOK
<1> QED
  BY <1>1, Inductive, PTL

\* ClientsExclude: whoever believes in a slot has it, and the lock manager
\* gives no more slots than the lock has.
THEOREM Exclusion == Spec => [](~noClearOnDisconnect => ClientsExclude)
<1>1. IndInv => (~noClearOnDisconnect => ClientsExclude)
  BY DEF IndInv, CoreInv, ExcludeInv
<1> QED
  BY <1>1, Inductive, PTL

\* NoOrphan: the orders in which Unlock, Renew, the timer's callback and the
\* clean-up of the session can meet leave no slot that nobody will unlock.
THEOREM NothingOrphaned == Spec => []NoOrphan
BY OrphanFact, Inductive, PTL

\* OnlyAskedReleases: no Unlock, callback or clean-up of one key takes the slot
\* of another.
THEOREM ReleasesAreAsked == Spec => OnlyAskedReleases
<1>1. IndInv /\ [Next]_vars => [ReleaseIsAsked]_vars
  <2> SUFFICES ASSUME IndInv, [Next]_vars PROVE ReleaseIsAsked
    OBVIOUS
  <2>1. CASE LiveNext
    BY <2>1, ReleasesLive DEF IndInv, CoreInv
  <2>2. ASSUME NEW cause \in {"down", "panicked", "failed"}, Die(cause) PROVE ~Running'
    BY <2>2 DEF Die, Running
  <2>3. CASE ~Running'
    BY <2>3 DEF ReleaseIsAsked
  <2> QED
    BY <2>1, <2>2, <2>3, StepKinds DEF IndInv
<1> QED
  BY <1>1, Inductive, PTL DEF Spec, OnlyAskedReleases, ReleaseIsAsked
=============================================================================
