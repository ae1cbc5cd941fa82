------------------------- MODULE LockManagerProofs -------------------------
(***************************************************************************)
(* Proofs about LockManager, for any number of names, keys, goroutines and *)
(* lock objects.                                                           *)
(***************************************************************************)
EXTENDS LockManager, FiniteSetTheorems, SequenceLemmas, TLAPS

USE ConstantsAssumption

-----------------------------------------------------------------------------
(* Type correctness                                                        *)

\* A cancelled waiter leaves the queue; those behind it move up by one.
LEMMA RemoveAtLemma ==
  ASSUME NEW S, NEW s \in Seq(S), NEW i \in 1..Len(s)
  PROVE  /\ RemoveAt(s, i) \in Seq(S)
         /\ Len(RemoveAt(s, i)) = Len(s) - 1
         /\ \A j \in 1..(Len(s) - 1) :
              RemoveAt(s, i)[j] = IF j < i THEN s[j] ELSE s[j + 1]
  BY CutLemma DEF RemoveAt

\* What a call carries.
LEMMA CallFacts ==
  ASSUME NEW c \in Calls
  PROVE  /\ c.name \in Names /\ c.key \in Keys /\ c.size \in Int
         /\ c.op = "Unlock" => c.size = 1
<1>1. CASE c \in [op : {"Lock", "TryLock"}, name : Names, key : Keys, size : Sizes]
  <2>1. c.op \in {"Lock", "TryLock"} /\ c.size \in Sizes
    BY <1>1
  <2> QED BY <1>1, <2>1
<1>2. CASE c \in [op : {"Unlock"}, name : Names, key : Keys, size : {1}]
  BY <1>2
<1> QED BY <1>1, <1>2 DEF Calls

\* Every step of a call, the collector or shutdown keeps the types.
LEMMA TypeStep ==
  ASSUME IndInv, [Next]_vars
  PROVE  TypeOK'
<1> USE DEF IndInv, TypeOK, CallInv, PCs, Running, objVars, semVars, threadVars
<1>1. ASSUME NEW t \in Threads, NEW c \in Calls, Enter(t, c)
      PROVE  TypeOK'
  BY <1>1 DEF Enter
<1>2. ASSUME NEW t \in Threads, CtxDone(t)
      PROVE  TypeOK'
  BY <1>2 DEF CtxDone
<1>3. ASSUME NEW t \in Threads, GetFails(t)
      PROVE  TypeOK'
  BY <1>3 DEF GetFails, Return
<1>4. ASSUME NEW t \in Threads, GetFinds(t)
      PROVE  TypeOK'
  <2>1. call[t] \in Calls /\ call[t].name \in Names
    BY <1>4, CallFacts DEF GetFinds
  <2>2. lockOf[call[t].name] \in Objs
    BY <2>1, <1>4 DEF GetFinds
  <2> QED BY <1>4, <2>1, <2>2 DEF GetFinds
<1>5. ASSUME NEW t \in Threads, GetCreates(t)
      PROVE  TypeOK'
  <2>1. call[t] \in Calls /\ ~(call[t].size <= 0)
    BY <1>5 DEF GetCreates, SizeInvalid
  <2>2. call[t].size \in Nat
    BY <2>1, CallFacts
  <2>3. PICK o \in Objs :
          /\ lockOf'  = [lockOf EXCEPT ![call[t].name] = o]
          /\ nameOf'  = [nameOf EXCEPT ![o] = call[t].name]
          /\ size'    = [size EXCEPT ![o] = call[t].size]
          /\ deleted' = [deleted EXCEPT ![o] = FALSE]
          /\ cur'     = [cur EXCEPT ![o] = 0]
          /\ waiters' = [waiters EXCEPT ![o] = << >>]
          /\ idle'    = [idle EXCEPT ![o] = FALSE]
          /\ obj'     = [obj EXCEPT ![t] = o]
    BY <1>5 DEF GetCreates
  <2>4. << >> \in Seq(Threads) /\ call[t].name \in Names
    BY <2>1, CallFacts
  <2>5. size' \in [Objs -> Nat] /\ waiters' \in [Objs -> Seq(Threads)]
    BY <2>2, <2>3, <2>4
  <2>6. /\ lockOf' \in [Names -> Objs \cup {NoObj}]
        /\ nameOf' \in [Objs -> Names]
        /\ cur' \in [Objs -> Int]
        /\ deleted' \in [Objs -> BOOLEAN]
        /\ idle' \in [Objs -> BOOLEAN]
        /\ obj' \in [Threads -> Objs \cup {NoObj}]
    BY <2>3, <2>4
  <2> QED BY <1>5, <2>5, <2>6 DEF GetCreates
<1>6. ASSUME NEW t \in Threads, CheckPasses(t)
      PROVE  TypeOK'
  BY <1>6 DEF CheckPasses
<1>7. ASSUME NEW t \in Threads, CheckPanics(t)
      PROVE  TypeOK'
  BY <1>7 DEF CheckPanics
<1>8. ASSUME NEW t \in Threads, Acquire(t)
      PROVE  TypeOK'
  BY <1>8 DEF Acquire
<1>9. ASSUME NEW t \in Threads, AcquireFails(t)
      PROVE  TypeOK'
  BY <1>9 DEF AcquireFails, Return
<1>10. ASSUME NEW t \in Threads, Enqueue(t)
      PROVE  TypeOK'
  BY <1>10 DEF Enqueue
<1>11. ASSUME NEW t \in Threads, CancelWait(t)
      PROVE  TypeOK'
  <2>1. PICK i \in 1..Len(waiters[obj[t]]) :
          waiters' = [waiters EXCEPT ![obj[t]] = RemoveAt(@, i)]
    BY <1>11 DEF CancelWait
  <2>2. obj[t] \in Objs /\ waiters[obj[t]] \in Seq(Threads)
    BY <1>11 DEF CancelWait
  <2>3. RemoveAt(waiters[obj[t]], i) \in Seq(Threads)
    BY <2>2, RemoveAtLemma
  <2>4. waiters' \in [Objs -> Seq(Threads)]
    BY <2>1, <2>3
  <2> QED BY <1>11, <2>4 DEF CancelWait, Return
<1>12. ASSUME NEW t \in Threads, WakeUp(t)
      PROVE  TypeOK'
  BY <1>12 DEF WakeUp
<1>13. ASSUME NEW t \in Threads, GiveBack(t)
      PROVE  TypeOK'
  BY <1>13 DEF GiveBack
<1>14. ASSUME NEW t \in Threads, AddKey(t)
      PROVE  TypeOK'
  <2>1. call[t].key \in Keys
    BY <1>14, CallFacts DEF AddKey
  <2> QED BY <2>1, <1>14 DEF AddKey, Return
<1>15. ASSUME NEW t \in Threads, UnlockCheck(t)
      PROVE  TypeOK'
  <2>1. CASE deleted[obj[t]]
    <3>1. Return(t) /\ UNCHANGED <<objVars, semVars, keys, idle, mgr>>
      BY <2>1, <1>15 DEF UnlockCheck
    <3> QED BY <3>1 DEF Return
  <2>2. CASE ~deleted[obj[t]]  BY <2>2, <1>15 DEF UnlockCheck
  <2> QED BY <2>1, <2>2
<1>16. ASSUME NEW t \in Threads, RemoveKey(t)
      PROVE  TypeOK'
  BY <1>16 DEF RemoveKey
<1>17. ASSUME NEW t \in Threads, KeyUnknown(t)
      PROVE  TypeOK'
  BY <1>17 DEF KeyUnknown, Return
<1>18. ASSUME NEW t \in Threads, ReleaseToken(t)
      PROVE  TypeOK'
  BY <1>18 DEF ReleaseToken, Return
<1>19. ASSUME NEW t \in Threads, HandOver(t)
      PROVE  TypeOK'
  <2>1. obj[t] \in Objs /\ waiters[obj[t]] \in Seq(Threads)
    BY <1>19 DEF HandOver
  <2>2. Tail(waiters[obj[t]]) \in Seq(Threads)
    BY <2>1, <1>19, TailLemma DEF HandOver
  <2>3. waiters' \in [Objs -> Seq(Threads)]
    BY <1>19, <2>2 DEF HandOver
  <2> QED BY <1>19, <2>3 DEF HandOver
<1>20. ASSUME NEW o \in Objs, Age(o)
      PROVE  TypeOK'
  BY <1>20 DEF Age
<1>21. ASSUME NEW n \in Names, Collect(n)
      PROVE  TypeOK'
  BY <1>21 DEF Collect
<1>22. CASE BeginShutdown
  BY <1>22 DEF BeginShutdown
<1>23. CASE Shutdown
  BY <1>23 DEF Shutdown
<1>24. CASE UNCHANGED vars
  BY <1>24 DEF vars
<1> QED
  BY <1>1, <1>2, <1>3, <1>4, <1>5, <1>6, <1>7, <1>8, <1>9, <1>10, <1>11, <1>12, <1>13, <1>14, <1>15, <1>16, <1>17, <1>18, <1>19, <1>20, <1>21, <1>22, <1>23, <1>24
     DEF Next, Step, Refuse

\* Every step keeps what is known of the calls in progress.
LEMMA CallStep ==
  ASSUME IndInv, [Next]_vars
  PROVE  CallInv'
<1> USE DEF IndInv, TypeOK, CallInv, PCs, Running, objVars, semVars, threadVars
<1>1. ASSUME NEW t \in Threads, NEW c \in Calls, Enter(t, c)
      PROVE  CallInv'
  BY <1>1 DEF Enter
<1>2. ASSUME NEW t \in Threads, CtxDone(t)
      PROVE  CallInv'
  BY <1>2 DEF CtxDone
<1>3. ASSUME NEW t \in Threads, GetFails(t)
      PROVE  CallInv'
  BY <1>3 DEF GetFails, Return
<1>4. ASSUME NEW t \in Threads, GetFinds(t)
      PROVE  CallInv'
  <2>1. call[t] \in Calls /\ call[t].name \in Names
    BY <1>4, CallFacts DEF GetFinds
  <2>2. lockOf[call[t].name] \in Objs
    BY <2>1, <1>4 DEF GetFinds
  <2> QED BY <1>4, <2>1, <2>2 DEF GetFinds
<1>5. ASSUME NEW t \in Threads, GetCreates(t)
      PROVE  CallInv'
  BY <1>5 DEF GetCreates, SizeInvalid, Unused
<1>6. ASSUME NEW t \in Threads, CheckPasses(t)
      PROVE  CallInv'
  BY <1>6 DEF CheckPasses
<1>7. ASSUME NEW t \in Threads, CheckPanics(t)
      PROVE  CallInv'
  BY <1>7 DEF CheckPanics
<1>8. ASSUME NEW t \in Threads, Acquire(t)
      PROVE  CallInv'
  BY <1>8 DEF Acquire
<1>9. ASSUME NEW t \in Threads, AcquireFails(t)
      PROVE  CallInv'
  BY <1>9 DEF AcquireFails, Return
<1>10. ASSUME NEW t \in Threads, Enqueue(t)
      PROVE  CallInv'
  BY <1>10 DEF Enqueue
<1>11. ASSUME NEW t \in Threads, CancelWait(t)
      PROVE  CallInv'
  BY <1>11 DEF CancelWait, Return
<1>12. ASSUME NEW t \in Threads, WakeUp(t)
      PROVE  CallInv'
  BY <1>12 DEF WakeUp
<1>13. ASSUME NEW t \in Threads, GiveBack(t)
      PROVE  CallInv'
  BY <1>13 DEF GiveBack
<1>14. ASSUME NEW t \in Threads, AddKey(t)
      PROVE  CallInv'
  BY <1>14 DEF AddKey, Return
<1>15. ASSUME NEW t \in Threads, UnlockCheck(t)
      PROVE  CallInv'
  <2>1. CASE deleted[obj[t]]
    <3>1. Return(t) /\ UNCHANGED <<objVars, semVars, keys, idle, mgr>>
      BY <2>1, <1>15 DEF UnlockCheck
    <3> QED BY <3>1 DEF Return
  <2>2. CASE ~deleted[obj[t]]  BY <2>2, <1>15 DEF UnlockCheck
  <2> QED BY <2>1, <2>2
<1>16. ASSUME NEW t \in Threads, RemoveKey(t)
      PROVE  CallInv'
  BY <1>16 DEF RemoveKey
<1>17. ASSUME NEW t \in Threads, KeyUnknown(t)
      PROVE  CallInv'
  BY <1>17 DEF KeyUnknown, Return
<1>18. ASSUME NEW t \in Threads, ReleaseToken(t)
      PROVE  CallInv'
  BY <1>18 DEF ReleaseToken, Return
<1>19. ASSUME NEW t \in Threads, HandOver(t)
      PROVE  CallInv'
  <2> DEFINE h == Head(waiters[obj[t]])
  <2>1. obj[t] \in Objs /\ waiters[obj[t]] \in Seq(Threads)
    BY <1>19 DEF HandOver
  <2>2. h \in Threads /\ h = waiters[obj[t]][1] /\ 1 \in 1..Len(waiters[obj[t]])
    BY <2>1, <1>19, TailLemma DEF HandOver
  <2>3. pc[h] = "waiting"
    BY <2>1, <2>2 DEF QueueInv
  <2>4. h # t
    BY <2>3, <1>19 DEF HandOver
  <2>5. pc' = [pc EXCEPT ![h] = "woken", ![t] = "idle"]
    BY <1>19 DEF HandOver
  <2> HIDE DEF h
  <2> QED BY <1>19, <2>2, <2>3, <2>4, <2>5 DEF HandOver
<1>20. ASSUME NEW o \in Objs, Age(o)
      PROVE  CallInv'
  BY <1>20 DEF Age
<1>21. ASSUME NEW n \in Names, Collect(n)
      PROVE  CallInv'
  BY <1>21 DEF Collect
<1>22. CASE BeginShutdown
  BY <1>22 DEF BeginShutdown
<1>23. CASE Shutdown
  BY <1>23 DEF Shutdown
<1>24. CASE UNCHANGED vars
  BY <1>24 DEF vars
<1> QED
  BY <1>1, <1>2, <1>3, <1>4, <1>5, <1>6, <1>7, <1>8, <1>9, <1>10, <1>11, <1>12, <1>13, <1>14, <1>15, <1>16, <1>17, <1>18, <1>19, <1>20, <1>21, <1>22, <1>23, <1>24
     DEF Next, Step, Refuse

-----------------------------------------------------------------------------
(* The queues                                                              *)

\* What the queues hold.
LEMMA QueueElements ==
  ASSUME IndInv, NEW o \in Objs,
         NEW i \in 1..Len(waiters[o]), NEW j \in 1..Len(waiters[o])
  PROVE  /\ waiters[o][i] \in Threads
         /\ pc[waiters[o][i]] = "waiting" /\ obj[waiters[o][i]] = o
         /\ i # j => waiters[o][i] # waiters[o][j]
  BY DEF IndInv, TypeOK, QueueInv

\* A call that waits has a place in the queue of its object.
LEMMA QueuePosition ==
  ASSUME IndInv, NEW u \in Threads, pc[u] = "waiting"
  PROVE  /\ obj[u] \in Objs
         /\ \E i \in 1..Len(waiters[obj[u]]) : waiters[obj[u]][i] = u
  BY DEF IndInv, CallInv, QueueInv

\* The queues are untouched by a step of a call that does not wait.
LEMMA QueueFrame ==
  ASSUME IndInv, waiters' = waiters,
         \A u \in Threads : /\ pc'[u] = "waiting" <=> pc[u] = "waiting"
                            /\ pc[u] = "waiting" => obj'[u] = obj[u]
  PROVE  QueueInv'
<1>1. \A o \in Objs : \A i \in 1..Len(waiters[o]) : waiters[o][i] \in Threads
  BY DEF IndInv, TypeOK
<1>2. \A u \in Threads : pc[u] = "waiting" => obj[u] \in Objs
  BY DEF IndInv, CallInv
<1> QED BY <1>1, <1>2 DEF IndInv, QueueInv

\* Every step keeps the queues: the calls that wait, each once, in one queue.
LEMMA QueueStep ==
  ASSUME IndInv, [Next]_vars
  PROVE  QueueInv'
<1> USE DEF IndInv, TypeOK, objVars, semVars, threadVars
<1>1. ASSUME NEW t \in Threads, NEW c \in Calls, Enter(t, c)
      PROVE  QueueInv'
  BY <1>1, QueueFrame DEF Enter
<1>2. ASSUME NEW t \in Threads, CtxDone(t)
      PROVE  QueueInv'
  BY <1>2, QueueFrame DEF CtxDone
<1>3. ASSUME NEW t \in Threads, GetFails(t)
      PROVE  QueueInv'
  BY <1>3, QueueFrame DEF GetFails, Return
<1>4. ASSUME NEW t \in Threads, GetFinds(t)
      PROVE  QueueInv'
  BY <1>4, QueueFrame DEF GetFinds
<1>5. ASSUME NEW t \in Threads, GetCreates(t)
      PROVE  QueueInv'
  <2>1. PICK o \in Objs : /\ Unused(o)
                          /\ waiters' = [waiters EXCEPT ![o] = << >>]
                          /\ obj'     = [obj EXCEPT ![t] = o]
    BY <1>5 DEF GetCreates
  <2>2. /\ pc[t] = "get" /\ pc' = [pc EXCEPT ![t] = "check"]
    BY <1>5 DEF GetCreates
  <2>3. \A u \in Threads : obj[u] # o
    BY <2>1 DEF Unused
  <2>4. \A p \in Objs : \A i \in 1..Len(waiters[p]) : waiters[p][i] \in Threads
    OBVIOUS
  <2>5. \A p \in Objs \ {o} : waiters'[p] = waiters[p]
    BY <2>1
  <2>6. waiters'[o] = << >> /\ Len(<< >>) = 0
    BY <2>1
  <2>7. ASSUME NEW p \in Objs, NEW i \in 1..Len(waiters'[p]), NEW j \in 1..Len(waiters'[p])
        PROVE  /\ pc'[waiters'[p][i]] = "waiting"
               /\ obj'[waiters'[p][i]] = p
               /\ i # j => waiters'[p][i] # waiters'[p][j]
    <3>1. p # o
      BY <2>6
    <3>2. waiters'[p] = waiters[p]
      BY <3>1, <2>5
    <3>3. waiters[p][i] \in Threads /\ pc[waiters[p][i]] = "waiting"
      BY <3>2, <2>4 DEF QueueInv
    <3> QED BY <3>2, <3>3, <2>1, <2>2 DEF QueueInv
  <2>8. ASSUME NEW u \in Threads, pc'[u] = "waiting"
        PROVE  \E i \in 1..Len(waiters'[obj'[u]]) : waiters'[obj'[u]][i] = u
    <3>1. u # t /\ pc[u] = "waiting" /\ obj'[u] = obj[u] /\ obj[u] \in Objs
      BY <2>1, <2>2, <2>8 DEF CallInv
    <3>2. obj[u] # o /\ waiters'[obj[u]] = waiters[obj[u]]
      BY <3>1, <2>3, <2>5
    <3> QED BY <3>1, <3>2, QueuePosition
  <2> QED BY <2>7, <2>8 DEF QueueInv
<1>6. ASSUME NEW t \in Threads, CheckPasses(t)
      PROVE  QueueInv'
  BY <1>6, QueueFrame DEF CheckPasses
<1>7. ASSUME NEW t \in Threads, CheckPanics(t)
      PROVE  QueueInv'
  BY <1>7, QueueFrame DEF CheckPanics
<1>8. ASSUME NEW t \in Threads, Acquire(t)
      PROVE  QueueInv'
  BY <1>8, QueueFrame DEF Acquire
<1>9. ASSUME NEW t \in Threads, AcquireFails(t)
      PROVE  QueueInv'
  BY <1>9, QueueFrame DEF AcquireFails, Return
<1>10. ASSUME NEW t \in Threads, Enqueue(t)
      PROVE  QueueInv'
  <2> DEFINE o == obj[t]
             q == waiters[o]
  <2>1. o \in Objs /\ q \in Seq(Threads)
    BY <1>10 DEF Enqueue, CallInv, Running
  <2>2. \A p \in Objs : \A i \in 1..Len(waiters[p]) : waiters[p][i] \in Threads
    OBVIOUS
  <2>3. /\ Append(q, t) \in Seq(Threads) /\ Len(Append(q, t)) = Len(q) + 1
        /\ \A i \in 1..(Len(q) + 1) :
             Append(q, t)[i] = IF i \in 1..Len(q) THEN q[i] ELSE t
        /\ Len(q) \in Nat
    BY <2>1, AppendLemma
  <2>4. /\ pc[t] = "acquire" /\ pc' = [pc EXCEPT ![t] = "waiting"]
        /\ waiters' = [waiters EXCEPT ![o] = Append(q, t)]
        /\ obj' = obj
    BY <1>10 DEF Enqueue
  <2>5. \A p \in Objs : \A i \in 1..Len(waiters[p]) : waiters[p][i] # t
    BY <2>4 DEF QueueInv
  <2>6. waiters'[o] = Append(q, t) /\ \A p \in Objs \ {o} : waiters'[p] = waiters[p]
    BY <2>1, <2>4
  <2>7. ASSUME NEW p \in Objs, NEW i \in 1..Len(waiters'[p]), NEW j \in 1..Len(waiters'[p])
        PROVE  /\ pc'[waiters'[p][i]] = "waiting"
               /\ obj'[waiters'[p][i]] = p
               /\ i # j => waiters'[p][i] # waiters'[p][j]
    <3>1. CASE p # o
      BY <3>1, <2>2, <2>4, <2>6 DEF QueueInv
    <3>2. CASE p = o
      <4>1. i \in 1..(Len(q) + 1) /\ j \in 1..(Len(q) + 1) /\ waiters'[p] = Append(q, t)
        BY <3>2, <2>3, <2>6
      <4>3. \A l \in 1..Len(q) : q[l] \in Threads /\ q[l] # t
        BY <2>1, <2>2, <2>5
      <4>4. \A l, m \in 1..Len(q) : /\ pc[q[l]] = "waiting" /\ obj[q[l]] = o
                                    /\ l # m => q[l] # q[m]
        BY <2>1 DEF QueueInv
      <4> HIDE DEF q, o
      <4>5. i # j => i \in 1..Len(q) \/ j \in 1..Len(q)
        BY <4>1, <2>3
      <4>6. obj[t] = o
        BY DEF o
      <4> QED BY <4>1, <4>3, <4>4, <4>5, <4>6, <3>2, <2>3, <2>4
    <3> QED BY <3>1, <3>2
  <2>8. ASSUME NEW u \in Threads, pc'[u] = "waiting"
        PROVE  \E i \in 1..Len(waiters'[obj'[u]]) : waiters'[obj'[u]][i] = u
    <3>1. CASE u = t
      <4>1. waiters'[obj'[u]] = Append(q, t) /\ Len(q) + 1 \in 1..(Len(q) + 1)
        BY <3>1, <2>3, <2>4, <2>6
      <4>2. Append(q, t)[Len(q) + 1] = t
        BY <2>3
      <4> QED BY <3>1, <4>1, <4>2, <2>3
    <3>2. CASE u # t
      <4>1. pc[u] = "waiting" /\ obj[u] \in Objs /\ obj'[u] = obj[u]
        BY <3>2, <2>4, <2>8 DEF CallInv
      <4>2. PICK i \in 1..Len(waiters[obj[u]]) : waiters[obj[u]][i] = u
        BY <4>1 DEF QueueInv
      <4>3. i \in 1..Len(waiters'[obj[u]]) /\ waiters'[obj[u]][i] = u
        <5>1. CASE obj[u] = o  BY <5>1, <4>2, <2>3, <2>6
        <5>2. CASE obj[u] # o  BY <5>2, <4>1, <4>2, <2>6
        <5> QED BY <5>1, <5>2
      <4> QED BY <4>1, <4>3
    <3> QED BY <3>1, <3>2
  <2> QED BY <2>7, <2>8 DEF QueueInv
<1>11. ASSUME NEW t \in Threads, CancelWait(t)
      PROVE  QueueInv'
  <2> DEFINE o == obj[t]
             q == waiters[o]
  <2>1. o \in Objs /\ q \in Seq(Threads)
    BY <1>11 DEF CancelWait, CallInv, Running
  <2>2. \A p \in Objs : \A i \in 1..Len(waiters[p]) : waiters[p][i] \in Threads
    OBVIOUS
  <2>3. PICK d \in 1..Len(q) :
          q[d] = t /\ waiters' = [waiters EXCEPT ![o] = RemoveAt(q, d)]
    BY <1>11 DEF CancelWait
  <2> DEFINE r == RemoveAt(q, d)
             At(i) == IF i < d THEN i ELSE i + 1
  <2>4. /\ r \in Seq(Threads) /\ Len(r) = Len(q) - 1
        /\ \A i \in 1..(Len(q) - 1) : r[i] = IF i < d THEN q[i] ELSE q[i + 1]
        /\ Len(q) \in Nat
    BY <2>1, RemoveAtLemma
  <2>5. /\ pc[t] = "waiting" /\ pc' = [pc EXCEPT ![t] = "idle"]
        /\ obj' = [obj EXCEPT ![t] = NoObj]
    BY <1>11 DEF CancelWait, Return
  <2>6. waiters'[o] = r /\ \A p \in Objs \ {o} : waiters'[p] = waiters[p]
    BY <2>1, <2>3
  <2>7. \A l, m \in 1..Len(q) : /\ pc[q[l]] = "waiting" /\ obj[q[l]] = o
                                /\ l # m => q[l] # q[m]
    BY <2>1, QueueElements
  <2>8. \A l \in 1..Len(q) : q[l] \in Threads
    BY <2>1, <2>2
  <2> HIDE DEF q, r
  <2>9. ASSUME NEW p \in Objs, NEW i \in 1..Len(waiters'[p]), NEW j \in 1..Len(waiters'[p])
        PROVE  /\ pc'[waiters'[p][i]] = "waiting"
               /\ obj'[waiters'[p][i]] = p
               /\ i # j => waiters'[p][i] # waiters'[p][j]
    <3>1. CASE p # o
      <4>1. /\ waiters'[p] = waiters[p] /\ waiters[p][i] \in Threads
            /\ pc[waiters[p][i]] = "waiting" /\ obj[waiters[p][i]] = p
            /\ i # j => waiters[p][i] # waiters[p][j]
        BY <3>1, <2>6, QueueElements
      <4> QED BY <3>1, <4>1, <2>5
    <3>2. CASE p = o
      <4>1. i \in 1..(Len(q) - 1) /\ j \in 1..(Len(q) - 1) /\ waiters'[p] = r
        BY <3>2, <2>4, <2>6
      <4>2. /\ At(i) \in 1..Len(q) /\ At(j) \in 1..Len(q)
            /\ At(i) # d /\ At(j) # d
            /\ i # j => At(i) # At(j)
        BY <4>1, <2>4
      <4>3. waiters'[p][i] = q[At(i)] /\ waiters'[p][j] = q[At(j)]
        BY <4>1, <2>4 DEF At
      <4> HIDE DEF At
      <4>4. q[At(i)] # t
        BY <4>2, <2>3, <2>7
      <4> QED BY <4>2, <4>3, <4>4, <3>2, <2>5, <2>7, <2>8
    <3> QED BY <3>1, <3>2
  <2>10. ASSUME NEW u \in Threads, pc'[u] = "waiting"
         PROVE  \E i \in 1..Len(waiters'[obj'[u]]) : waiters'[obj'[u]][i] = u
    <3>1. u # t /\ pc[u] = "waiting" /\ obj'[u] = obj[u] /\ obj[u] \in Objs
      BY <2>5, <2>10 DEF CallInv
    <3>2. PICK i \in 1..Len(waiters[obj[u]]) : waiters[obj[u]][i] = u
      BY <3>1, QueuePosition
    <3>3. CASE obj[u] # o
      <4>1. waiters'[obj'[u]] = waiters[obj[u]]
        BY <3>1, <3>3, <2>6
      <4> QED BY <3>2, <4>1
    <3>4. CASE obj[u] = o
      <4>1. i \in 1..Len(q) /\ q[i] = u /\ i # d
        BY <3>1, <3>2, <3>4, <2>3 DEF q
      <4>2. CASE i < d
        <5>1. i \in 1..(Len(q) - 1) /\ At(i) = i
          BY <4>1, <4>2, <2>4
        <5>2. r[i] = u
          BY <5>1, <4>1, <2>4
        <5> QED BY <5>1, <5>2, <3>1, <3>4, <2>4, <2>6
      <4>3. CASE ~(i < d)
        <5>1. i - 1 \in 1..(Len(q) - 1) /\ At(i - 1) = i
          BY <4>1, <4>3, <2>4
        <5>2. r[i - 1] = u
          BY <5>1, <4>1, <2>4
        <5> QED BY <5>1, <5>2, <3>1, <3>4, <2>4, <2>6
      <4> QED BY <4>2, <4>3
    <3> QED BY <3>3, <3>4
  <2> QED BY <2>9, <2>10 DEF QueueInv
<1>12. ASSUME NEW t \in Threads, WakeUp(t)
      PROVE  QueueInv'
  BY <1>12, QueueFrame DEF WakeUp
<1>13. ASSUME NEW t \in Threads, GiveBack(t)
      PROVE  QueueInv'
  BY <1>13, QueueFrame DEF GiveBack
<1>14. ASSUME NEW t \in Threads, AddKey(t)
      PROVE  QueueInv'
  BY <1>14, QueueFrame DEF AddKey, Return
<1>15. ASSUME NEW t \in Threads, UnlockCheck(t)
      PROVE  QueueInv'
  <2>1. \A u \in Threads \ {t} : pc'[u] = pc[u] /\ obj'[u] = obj[u]
    BY <1>15 DEF UnlockCheck, Return
  <2>2. pc[t] # "waiting" /\ pc'[t] # "waiting" /\ waiters' = waiters
    BY <1>15 DEF UnlockCheck, Return
  <2> QED BY <2>1, <2>2, QueueFrame
<1>16. ASSUME NEW t \in Threads, RemoveKey(t)
      PROVE  QueueInv'
  BY <1>16, QueueFrame DEF RemoveKey
<1>17. ASSUME NEW t \in Threads, KeyUnknown(t)
      PROVE  QueueInv'
  BY <1>17, QueueFrame DEF KeyUnknown, Return
<1>18. ASSUME NEW t \in Threads, ReleaseToken(t)
      PROVE  QueueInv'
  BY <1>18, QueueFrame DEF ReleaseToken, Return
<1>19. ASSUME NEW t \in Threads, HandOver(t)
      PROVE  QueueInv'
  <2> DEFINE o == obj[t]
             q == waiters[o]
  <2>1. o \in Objs /\ q \in Seq(Threads)
    BY <1>19 DEF HandOver, CallInv, Running
  <2>2. \A p \in Objs : \A i \in 1..Len(waiters[p]) : waiters[p][i] \in Threads
    OBVIOUS
  <2>3. q # << >> /\ pc[t] = "release"
    BY <1>19 DEF HandOver
  <2> DEFINE r == Tail(q)
             h == q[1]
  <2>4. /\ r \in Seq(Threads) /\ Len(r) = Len(q) - 1 /\ Len(q) \in Nat /\ Len(q) > 0
        /\ Head(q) = h
        /\ \A i \in 1..(Len(q) - 1) : r[i] = q[i + 1]
    BY <2>1, <2>3, TailLemma
  <2>5. /\ pc' = [pc EXCEPT ![h] = "woken", ![t] = "idle"]
        /\ obj' = [obj EXCEPT ![t] = NoObj]
        /\ waiters' = [waiters EXCEPT ![o] = r]
    BY <1>19, <2>4 DEF HandOver
  <2>6. waiters'[o] = r /\ \A p \in Objs \ {o} : waiters'[p] = waiters[p]
    BY <2>1, <2>5
  <2>7. \A l, m \in 1..Len(q) : /\ pc[q[l]] = "waiting" /\ obj[q[l]] = o
                                /\ l # m => q[l] # q[m]
    BY <2>1, QueueElements
  <2>8. \A l \in 1..Len(q) : q[l] \in Threads
    BY <2>1, <2>2
  <2> HIDE DEF q, r
  <2>9. h \in Threads /\ pc[h] = "waiting" /\ obj[h] = o
    BY <2>4, <2>7, <2>8
  <2> HIDE DEF h
  <2>10. ASSUME NEW p \in Objs, NEW i \in 1..Len(waiters'[p]), NEW j \in 1..Len(waiters'[p])
         PROVE  /\ pc'[waiters'[p][i]] = "waiting"
                /\ obj'[waiters'[p][i]] = p
                /\ i # j => waiters'[p][i] # waiters'[p][j]
    <3>1. CASE p # o
      <4>1. /\ waiters'[p] = waiters[p] /\ waiters[p][i] \in Threads
            /\ pc[waiters[p][i]] = "waiting" /\ obj[waiters[p][i]] = p
            /\ i # j => waiters[p][i] # waiters[p][j]
        BY <3>1, <2>6, QueueElements
      <4> QED BY <3>1, <4>1, <2>3, <2>5, <2>9
    <3>2. CASE p = o
      <4>1. i \in 1..(Len(q) - 1) /\ j \in 1..(Len(q) - 1) /\ waiters'[p] = r
        BY <3>2, <2>4, <2>6
      <4>2. /\ i + 1 \in 1..Len(q) /\ j + 1 \in 1..Len(q) /\ 1 \in 1..Len(q)
            /\ i + 1 # 1 /\ (i # j => i + 1 # j + 1)
        BY <4>1, <2>4
      <4>3. waiters'[p][i] = q[i + 1] /\ waiters'[p][j] = q[j + 1]
        BY <4>1, <2>4
      <4>4. q[i + 1] # h
        BY <4>2, <2>7 DEF h
      <4> QED BY <4>2, <4>3, <4>4, <3>2, <2>3, <2>5, <2>7, <2>8
    <3> QED BY <3>1, <3>2
  <2>11. ASSUME NEW u \in Threads, pc'[u] = "waiting"
         PROVE  \E i \in 1..Len(waiters'[obj'[u]]) : waiters'[obj'[u]][i] = u
    <3>1. u # t /\ u # h /\ pc[u] = "waiting" /\ obj'[u] = obj[u] /\ obj[u] \in Objs
      BY <2>5, <2>9, <2>11 DEF CallInv
    <3>2. PICK i \in 1..Len(waiters[obj[u]]) : waiters[obj[u]][i] = u
      BY <3>1, QueuePosition
    <3>3. CASE obj[u] # o
      <4>1. waiters'[obj'[u]] = waiters[obj[u]]
        BY <3>1, <3>3, <2>6
      <4> QED BY <3>2, <4>1
    <3>4. CASE obj[u] = o
      <4>1. i \in 1..Len(q) /\ q[i] = u /\ i # 1
        BY <3>1, <3>2, <3>4 DEF q, h
      <4>2. i - 1 \in 1..(Len(q) - 1) /\ (i - 1) + 1 = i
        BY <4>1, <2>4
      <4>3. r[i - 1] = u
        BY <4>1, <4>2, <2>4
      <4> QED BY <4>2, <4>3, <3>1, <3>4, <2>4, <2>6
    <3> QED BY <3>3, <3>4
  <2> QED BY <2>10, <2>11 DEF QueueInv
<1>20. ASSUME NEW o \in Objs, Age(o)
      PROVE  QueueInv'
  BY <1>20, QueueFrame DEF Age
<1>21. ASSUME NEW n \in Names, Collect(n)
      PROVE  QueueInv'
  BY <1>21, QueueFrame DEF Collect
<1>22. CASE BeginShutdown
  BY <1>22, QueueFrame DEF BeginShutdown
<1>23. CASE Shutdown
  BY <1>23, QueueFrame DEF Shutdown
<1>24. CASE UNCHANGED vars
  BY <1>24, QueueFrame DEF vars
<1> QED
  BY <1>1, <1>2, <1>3, <1>4, <1>5, <1>6, <1>7, <1>8, <1>9, <1>10, <1>11, <1>12, <1>13, <1>14, <1>15, <1>16, <1>17, <1>18, <1>19, <1>20, <1>21, <1>22, <1>23, <1>24
     DEF Next, Step, Refuse

-----------------------------------------------------------------------------
(* The tokens                                                              *)

\* Nothing happens to the tokens of o.
LEMMA TokenFrame ==
  ASSUME IndInv, NEW o \in Objs,
         keys'[o] = keys[o], cur'[o] = cur[o], size'[o] = size[o],
         waiters'[o] = waiters[o],
         \A u \in Threads : (pc'[u] \in Holding /\ obj'[u] = o)
                              <=> (pc[u] \in Holding /\ obj[u] = o)
  PROVE  TokenOK(o)'
<1>1. InHand(o)' = InHand(o)
  BY DEF InHand
<1>2. TokenOK(o)
  BY DEF IndInv, TokenInv
<1> QED BY <1>1, <1>2 DEF TokenOK

\* The calls in hand are finitely many, and one more or one less counts.
LEMMA HandFacts ==
  ASSUME NEW o
  PROVE  /\ IsFiniteSet(InHand(o)) /\ Cardinality(InHand(o)) \in Nat
         /\ \A u \in Threads :
              /\ u \notin InHand(o) => Cardinality(InHand(o) \cup {u}) = Cardinality(InHand(o)) + 1
              /\ u \in InHand(o) => Cardinality(InHand(o) \ {u}) = Cardinality(InHand(o)) - 1
<1>1. IsFiniteSet(InHand(o))
  BY FS_Subset DEF InHand
<1> QED BY <1>1, FS_CardinalityType, FS_AddElement, FS_RemoveElement

\* Every step keeps the count of tokens of every object.
LEMMA TokenStep ==
  ASSUME IndInv, [Next]_vars
  PROVE  TokenInv'
<1> USE DEF IndInv, TypeOK, objVars, semVars, threadVars
<1>1. ASSUME NEW t \in Threads, NEW c \in Calls, Enter(t, c)
      PROVE  TokenInv'
  <2> SUFFICES ASSUME NEW p \in Objs  PROVE TokenOK(p)'
    BY DEF TokenInv
  <2> QED BY <1>1, TokenFrame DEF Enter, Holding
<1>2. ASSUME NEW t \in Threads, CtxDone(t)
      PROVE  TokenInv'
  <2> SUFFICES ASSUME NEW p \in Objs  PROVE TokenOK(p)'
    BY DEF TokenInv
  <2> QED BY <1>2, TokenFrame DEF CtxDone, Holding
<1>3. ASSUME NEW t \in Threads, GetFails(t)
      PROVE  TokenInv'
  <2> SUFFICES ASSUME NEW p \in Objs  PROVE TokenOK(p)'
    BY DEF TokenInv
  <2> QED BY <1>3, TokenFrame DEF GetFails, Return, Holding
<1>4. ASSUME NEW t \in Threads, GetFinds(t)
      PROVE  TokenInv'
  <2> SUFFICES ASSUME NEW p \in Objs  PROVE TokenOK(p)'
    BY DEF TokenInv
  <2>1. pc[t] \notin Holding /\ pc'[t] \notin Holding
    BY <1>4 DEF GetFinds, Holding
  <2>2. \A u \in Threads \ {t} : pc'[u] = pc[u] /\ obj'[u] = obj[u]
    BY <1>4 DEF GetFinds
  <2> QED BY <1>4, <2>1, <2>2, TokenFrame DEF GetFinds
<1>5. ASSUME NEW t \in Threads, GetCreates(t)
      PROVE  TokenInv'
  <2>1. PICK o \in Objs : /\ Unused(o)
                          /\ cur'     = [cur EXCEPT ![o] = 0]
                          /\ size'    = [size EXCEPT ![o] = call[t].size]
                          /\ waiters' = [waiters EXCEPT ![o] = << >>]
                          /\ obj'     = [obj EXCEPT ![t] = o]
    BY <1>5 DEF GetCreates
  <2>2. /\ pc[t] = "get" /\ pc' = [pc EXCEPT ![t] = "check"] /\ keys' = keys
    BY <1>5 DEF GetCreates
  <2> SUFFICES ASSUME NEW p \in Objs  PROVE TokenOK(p)'
    BY DEF TokenInv
  <2>3. CASE p # o
    BY <2>1, <2>2, <2>3, TokenFrame DEF Holding
  <2>4. CASE p = o
    <3>1. keys'[p] = {} /\ cur'[p] = 0 /\ waiters'[p] = << >>
      BY <2>1, <2>2, <2>4 DEF Unused
    <3>2. size'[p] \in Nat
      BY TypeStep DEF TypeOK
    <3>3. InHand(p)' = {}
      BY <2>1, <2>2, <2>4 DEF InHand, Holding, Unused
    <3> QED BY <3>1, <3>2, <3>3, FS_EmptySet DEF TokenOK
  <2> QED BY <2>3, <2>4
<1>6. ASSUME NEW t \in Threads, CheckPasses(t)
      PROVE  TokenInv'
  <2> SUFFICES ASSUME NEW p \in Objs  PROVE TokenOK(p)'
    BY DEF TokenInv
  <2> QED BY <1>6, TokenFrame DEF CheckPasses, Holding
<1>7. ASSUME NEW t \in Threads, CheckPanics(t)
      PROVE  TokenInv'
  <2> SUFFICES ASSUME NEW p \in Objs  PROVE TokenOK(p)'
    BY DEF TokenInv
  <2> QED BY <1>7, TokenFrame DEF CheckPanics, Holding
<1>8. ASSUME NEW t \in Threads, Acquire(t)
      PROVE  TokenInv'
  <2>1. PICK o \in Objs : o = obj[t] /\ waiters[o] \in Seq(Threads)
    BY <1>8 DEF Acquire, CallInv, Running
  <2>2. TokenOK(o) /\ cur[o] \in Int /\ size[o] \in Nat /\ keys[o] \subseteq Keys
    BY <2>1 DEF TokenInv
  <2> SUFFICES ASSUME NEW p \in Objs  PROVE TokenOK(p)'
    BY DEF TokenInv
  <2>3. CASE p # o
    BY <1>8, <2>1, <2>3, TokenFrame DEF Acquire, Holding
  <2>4. CASE p = o
    <3>1. /\ t \notin InHand(o) /\ InHand(o)' = InHand(o) \cup {t}
      BY <1>8, <2>1 DEF Acquire, InHand, Holding
    <3>2. /\ keys'[o] = keys[o] /\ cur'[o] = cur[o] + 1 /\ size'[o] = size[o]
          /\ waiters'[o] = << >> /\ cur[o] < size[o]
      BY <1>8, <2>1 DEF Acquire, TokenFree
    <3>3. Cardinality(InHand(o)') = Cardinality(InHand(o)) + 1
      BY <3>1, HandFacts
    <3>4. Cardinality(keys[o]) \in Nat /\ Cardinality(InHand(o)) \in Nat
      BY <2>2, HandFacts, FS_CardinalityType DEF TokenOK
    <3> QED BY <3>2, <3>3, <3>4, <2>2, <2>4 DEF TokenOK
  <2> QED BY <2>3, <2>4
<1>9. ASSUME NEW t \in Threads, AcquireFails(t)
      PROVE  TokenInv'
  <2> SUFFICES ASSUME NEW p \in Objs  PROVE TokenOK(p)'
    BY DEF TokenInv
  <2> QED BY <1>9, TokenFrame DEF AcquireFails, Return, Holding
<1>10. ASSUME NEW t \in Threads, Enqueue(t)
      PROVE  TokenInv'
  <2>1. PICK o \in Objs : o = obj[t] /\ waiters[o] \in Seq(Threads)
    BY <1>10 DEF Enqueue, CallInv, Running
  <2>2. TokenOK(o) /\ cur[o] \in Int /\ size[o] \in Nat /\ keys[o] \subseteq Keys
    BY <2>1 DEF TokenInv
  <2> SUFFICES ASSUME NEW p \in Objs  PROVE TokenOK(p)'
    BY DEF TokenInv
  <2>3. CASE p # o
    BY <1>10, <2>1, <2>3, TokenFrame DEF Enqueue, Holding
  <2>4. CASE p = o
    <3>1. InHand(o)' = InHand(o)
      BY <1>10, <2>1 DEF Enqueue, InHand, Holding
    <3>2. /\ keys'[o] = keys[o] /\ cur'[o] = cur[o] /\ size'[o] = size[o]
          /\ ~TokenFree(o)
      BY <1>10, <2>1 DEF Enqueue
    <3>3. cur[o] = size[o]
      BY <3>2, <2>2 DEF TokenFree, TokenOK
    <3> QED BY <3>1, <3>2, <3>3, <2>2, <2>4 DEF TokenOK
  <2> QED BY <2>3, <2>4
<1>11. ASSUME NEW t \in Threads, CancelWait(t)
      PROVE  TokenInv'
  <2>1. PICK o \in Objs : o = obj[t] /\ waiters[o] \in Seq(Threads)
    BY <1>11 DEF CancelWait, CallInv, Running
  <2>2. TokenOK(o) /\ cur[o] \in Int /\ size[o] \in Nat /\ keys[o] \subseteq Keys
    BY <2>1 DEF TokenInv
  <2> SUFFICES ASSUME NEW p \in Objs  PROVE TokenOK(p)'
    BY DEF TokenInv
  <2>3. CASE p # o
    BY <1>11, <2>1, <2>3, TokenFrame DEF CancelWait, Return, Holding
  <2>4. CASE p = o
    <3>1. InHand(o)' = InHand(o)
      BY <1>11, <2>1 DEF CancelWait, Return, InHand, Holding
    <3>2. /\ keys'[o] = keys[o] /\ cur'[o] = cur[o] /\ size'[o] = size[o]
          /\ waiters[o] # << >>
      BY <1>11, <2>1 DEF CancelWait
    <3> QED BY <3>1, <3>2, <2>2, <2>4 DEF TokenOK
  <2> QED BY <2>3, <2>4
<1>12. ASSUME NEW t \in Threads, WakeUp(t)
      PROVE  TokenInv'
  <2> SUFFICES ASSUME NEW p \in Objs  PROVE TokenOK(p)'
    BY DEF TokenInv
  <2> QED BY <1>12, TokenFrame DEF WakeUp, Holding
<1>13. ASSUME NEW t \in Threads, GiveBack(t)
      PROVE  TokenInv'
  <2> SUFFICES ASSUME NEW p \in Objs  PROVE TokenOK(p)'
    BY DEF TokenInv
  <2> QED BY <1>13, TokenFrame DEF GiveBack, Holding
<1>14. ASSUME NEW t \in Threads, AddKey(t)
      PROVE  TokenInv'
  <2>1. PICK o \in Objs : o = obj[t] /\ waiters[o] \in Seq(Threads)
    BY <1>14 DEF AddKey, CallInv, Running
  <2>2. TokenOK(o) /\ cur[o] \in Int /\ size[o] \in Nat /\ keys[o] \subseteq Keys
    BY <2>1 DEF TokenInv
  <2> SUFFICES ASSUME NEW p \in Objs  PROVE TokenOK(p)'
    BY DEF TokenInv
  <2>3. CASE p # o
    BY <1>14, <2>1, <2>3, TokenFrame DEF AddKey, Return, Holding
  <2>4. CASE p = o
    <3>1. /\ t \in InHand(o) /\ InHand(o)' = InHand(o) \ {t}
      BY <1>14, <2>1 DEF AddKey, Return, InHand, Holding
    <3>2. /\ keys'[o] = keys[o] \cup {call[t].key} /\ cur'[o] = cur[o]
          /\ size'[o] = size[o] /\ waiters'[o] = waiters[o]
      BY <1>14, <2>1 DEF AddKey
    <3>3. call[t].key \notin keys[o]
      BY <1>14, <2>1 DEF AddKey, KeyInv, Acquiring, CallInv
    <3>4. Cardinality(InHand(o)') = Cardinality(InHand(o)) - 1
      BY <3>1, HandFacts
    <3>5. /\ IsFiniteSet(keys'[o])
          /\ Cardinality(keys'[o]) = Cardinality(keys[o]) + 1
      <4>1. IsFiniteSet(keys[o])
        BY <2>2 DEF TokenOK
      <4>2. /\ IsFiniteSet(keys[o] \cup {call[t].key})
            /\ Cardinality(keys[o] \cup {call[t].key}) = Cardinality(keys[o]) + 1
        BY <4>1, <3>3, FS_AddElement
      <4> QED BY <4>2, <3>2
    <3>6. Cardinality(keys[o]) \in Nat /\ Cardinality(InHand(o)) \in Nat
      BY <2>2, HandFacts, FS_CardinalityType DEF TokenOK
    <3>7. cur[o] = Cardinality(keys[o]) + Cardinality(InHand(o))
      BY <2>2 DEF TokenOK
    <3>8. cur'[o] = Cardinality(keys'[o]) + Cardinality(InHand(o)')
      BY <3>2, <3>4, <3>5, <3>6, <3>7
    <3> QED BY <3>2, <3>5, <3>8, <2>2, <2>4 DEF TokenOK
  <2> QED BY <2>3, <2>4
<1>15. ASSUME NEW t \in Threads, UnlockCheck(t)
      PROVE  TokenInv'
  <2>1. \A u \in Threads \ {t} : pc'[u] = pc[u] /\ obj'[u] = obj[u]
    BY <1>15 DEF UnlockCheck, Return
  <2>2. /\ pc[t] \notin Holding /\ pc'[t] \notin Holding
        /\ waiters' = waiters /\ cur' = cur /\ keys' = keys /\ size' = size
    BY <1>15 DEF UnlockCheck, Return, Holding
  <2> QED BY <2>1, <2>2, TokenFrame DEF TokenInv
<1>16. ASSUME NEW t \in Threads, RemoveKey(t)
      PROVE  TokenInv'
  <2>1. PICK o \in Objs : o = obj[t] /\ waiters[o] \in Seq(Threads)
    BY <1>16 DEF RemoveKey, CallInv, Running
  <2>2. TokenOK(o) /\ cur[o] \in Int /\ size[o] \in Nat /\ keys[o] \subseteq Keys
    BY <2>1 DEF TokenInv
  <2> SUFFICES ASSUME NEW p \in Objs  PROVE TokenOK(p)'
    BY DEF TokenInv
  <2>3. CASE p # o
    BY <1>16, <2>1, <2>3, TokenFrame DEF RemoveKey, Holding
  <2>4. CASE p = o
    <3>1. /\ t \notin InHand(o) /\ InHand(o)' = InHand(o) \cup {t}
      BY <1>16, <2>1 DEF RemoveKey, InHand, Holding
    <3>2. /\ keys'[o] = keys[o] \ {call[t].key} /\ cur'[o] = cur[o]
          /\ size'[o] = size[o] /\ waiters'[o] = waiters[o]
          /\ call[t].key \in keys[o]
      BY <1>16, <2>1 DEF RemoveKey
    <3>3. Cardinality(InHand(o)') = Cardinality(InHand(o)) + 1
      BY <3>1, HandFacts
    <3>4. /\ IsFiniteSet(keys'[o])
          /\ Cardinality(keys'[o]) = Cardinality(keys[o]) - 1
      <4>1. IsFiniteSet(keys[o])
        BY <2>2 DEF TokenOK
      <4> DEFINE S == keys[o]
                 k == call[t].key
      <4>a. IsFiniteSet(S) /\ k \in S
        BY <4>1, <3>2
      <4> HIDE DEF S, k
      <4>b. IsFiniteSet(S \ {k}) /\ Cardinality(S \ {k}) = Cardinality(S) - 1
        BY <4>a, FS_RemoveElement
      <4>2. /\ IsFiniteSet(keys[o] \ {call[t].key})
            /\ Cardinality(keys[o] \ {call[t].key}) = Cardinality(keys[o]) - 1
        BY <4>b DEF S, k
      <4> QED BY <4>2, <3>2
    <3>5. Cardinality(keys[o]) \in Nat /\ Cardinality(InHand(o)) \in Nat
      BY <2>2, HandFacts, FS_CardinalityType DEF TokenOK
    <3>7. cur[o] = Cardinality(keys[o]) + Cardinality(InHand(o))
      BY <2>2 DEF TokenOK
    <3>8. cur'[o] = Cardinality(keys'[o]) + Cardinality(InHand(o)')
      BY <3>2, <3>3, <3>4, <3>5, <3>7
    <3> QED BY <3>2, <3>4, <3>8, <2>2, <2>4 DEF TokenOK
  <2> QED BY <2>3, <2>4
<1>17. ASSUME NEW t \in Threads, KeyUnknown(t)
      PROVE  TokenInv'
  <2> SUFFICES ASSUME NEW p \in Objs  PROVE TokenOK(p)'
    BY DEF TokenInv
  <2> QED BY <1>17, TokenFrame DEF KeyUnknown, Return, Holding
<1>18. ASSUME NEW t \in Threads, ReleaseToken(t)
      PROVE  TokenInv'
  <2>1. PICK o \in Objs : o = obj[t] /\ waiters[o] \in Seq(Threads)
    BY <1>18 DEF ReleaseToken, CallInv, Running
  <2>2. TokenOK(o) /\ cur[o] \in Int /\ size[o] \in Nat /\ keys[o] \subseteq Keys
    BY <2>1 DEF TokenInv
  <2> SUFFICES ASSUME NEW p \in Objs  PROVE TokenOK(p)'
    BY DEF TokenInv
  <2>3. CASE p # o
    BY <1>18, <2>1, <2>3, TokenFrame DEF ReleaseToken, Return, Holding
  <2>4. CASE p = o
    <3>1. /\ t \in InHand(o) /\ InHand(o)' = InHand(o) \ {t}
      BY <1>18, <2>1 DEF ReleaseToken, Return, InHand, Holding
    <3>2. /\ keys'[o] = keys[o] /\ cur'[o] = cur[o] - 1
          /\ size'[o] = size[o] /\ waiters'[o] = << >>
      BY <1>18, <2>1 DEF ReleaseToken
    <3>3. Cardinality(InHand(o)') = Cardinality(InHand(o)) - 1
      BY <3>1, HandFacts
    <3>4. Cardinality(keys[o]) \in Nat /\ Cardinality(InHand(o)) \in Nat
      BY <2>2, HandFacts, FS_CardinalityType DEF TokenOK
    <3> QED BY <3>2, <3>3, <3>4, <2>2, <2>4 DEF TokenOK
  <2> QED BY <2>3, <2>4
<1>19. ASSUME NEW t \in Threads, HandOver(t)
      PROVE  TokenInv'
  <2>1. PICK o \in Objs :
          o = obj[t] /\ waiters[o] \in Seq(Threads) /\ waiters[o] # << >>
    BY <1>19 DEF HandOver, CallInv, Running
  <2> DEFINE h == Head(waiters[o])
  <2>2. TokenOK(o) /\ cur[o] \in Int /\ size[o] \in Nat
    BY <2>1 DEF TokenInv
  <2>3. h = waiters[o][1] /\ 1 \in 1..Len(waiters[o])
    BY <2>1, TailLemma
  <2>4. h \in Threads /\ pc[h] = "waiting" /\ obj[h] = o
    <3>1. /\ waiters[o][1] \in Threads
          /\ pc[waiters[o][1]] = "waiting" /\ obj[waiters[o][1]] = o
      BY <2>3, QueueElements
    <3> QED BY <2>3, <3>1
  <2>5. /\ pc[t] = "release" /\ pc' = [pc EXCEPT ![h] = "woken", ![t] = "idle"]
        /\ obj' = [obj EXCEPT ![t] = NoObj]
        /\ waiters' = [waiters EXCEPT ![o] = Tail(waiters[o])]
        /\ cur' = cur /\ keys' = keys /\ size' = size
    BY <1>19, <2>1 DEF HandOver
  <2> HIDE DEF h
  <2> SUFFICES ASSUME NEW p \in Objs  PROVE TokenOK(p)'
    BY DEF TokenInv
  <2>6. CASE p # o
    BY <2>1, <2>4, <2>5, <2>6, TokenFrame DEF Holding
  <2>7. CASE p = o
    <3>1. /\ t \in InHand(o) /\ h \notin InHand(o) \ {t}
          /\ InHand(o)' = (InHand(o) \ {t}) \cup {h}
      BY <2>1, <2>4, <2>5 DEF InHand, Holding
    <3>2. IsFiniteSet(InHand(o)) /\ Cardinality(InHand(o)) \in Nat
      BY HandFacts
    <3>3. /\ IsFiniteSet(InHand(o) \ {t})
          /\ Cardinality(InHand(o) \ {t}) = Cardinality(InHand(o)) - 1
      BY <3>1, <3>2, FS_RemoveElement
    <3>4. Cardinality((InHand(o) \ {t}) \cup {h}) = Cardinality(InHand(o) \ {t}) + 1
      BY <3>1, <3>3, FS_AddElement
    <3>5. Cardinality(InHand(o)') = Cardinality(InHand(o))
      BY <3>1, <3>2, <3>3, <3>4
    <3> QED BY <3>5, <2>1, <2>2, <2>5, <2>7 DEF TokenOK
  <2> QED BY <2>6, <2>7
<1>20. ASSUME NEW o \in Objs, Age(o)
      PROVE  TokenInv'
  <2> SUFFICES ASSUME NEW p \in Objs  PROVE TokenOK(p)'
    BY DEF TokenInv
  <2> QED BY <1>20, TokenFrame DEF Age, Holding
<1>21. ASSUME NEW n \in Names, Collect(n)
      PROVE  TokenInv'
  <2> SUFFICES ASSUME NEW p \in Objs  PROVE TokenOK(p)'
    BY DEF TokenInv
  <2> QED BY <1>21, TokenFrame DEF Collect, Holding
<1>22. CASE BeginShutdown
  <2> SUFFICES ASSUME NEW p \in Objs  PROVE TokenOK(p)'
    BY DEF TokenInv
  <2> QED BY <1>22, TokenFrame DEF BeginShutdown, Holding
<1>23. CASE Shutdown
  <2> SUFFICES ASSUME NEW p \in Objs  PROVE TokenOK(p)'
    BY DEF TokenInv
  <2> QED BY <1>23, TokenFrame DEF Shutdown, Holding
<1>24. CASE UNCHANGED vars
  <2> SUFFICES ASSUME NEW p \in Objs  PROVE TokenOK(p)'
    BY DEF TokenInv
  <2> QED BY <1>24, TokenFrame DEF vars, Holding
<1> QED
  BY <1>1, <1>2, <1>3, <1>4, <1>5, <1>6, <1>7, <1>8, <1>9, <1>10, <1>11, <1>12, <1>13, <1>14, <1>15, <1>16, <1>17, <1>18, <1>19, <1>20, <1>21, <1>22, <1>23, <1>24
     DEF Next, Step, Refuse

-----------------------------------------------------------------------------
(* The keys                                                                *)

\* HandOver wakes a call that waits on the same object.
LEMMA HeadWaits ==
  ASSUME IndInv, NEW t \in Threads, pc[t] = "release", waiters[obj[t]] # << >>
  PROVE  LET h == waiters[obj[t]][1] IN
           /\ h = Head(waiters[obj[t]]) /\ h \in Threads /\ h # t
           /\ pc[h] = "waiting" /\ obj[h] = obj[t]
<1>1. obj[t] \in Objs /\ waiters[obj[t]] \in Seq(Threads)
  BY DEF IndInv, TypeOK, CallInv, Running
<1>2. /\ waiters[obj[t]][1] = Head(waiters[obj[t]])
      /\ 1 \in 1..Len(waiters[obj[t]])
  BY <1>1, TailLemma
<1>3. /\ waiters[obj[t]][1] \in Threads
      /\ pc[waiters[obj[t]][1]] = "waiting" /\ obj[waiters[obj[t]][1]] = obj[t]
  BY <1>1, <1>2, QueueElements
<1> QED BY <1>2, <1>3

\* No key is listed, and no call starts to acquire.
LEMMA KeyFrame ==
  ASSUME IndInv,
         \A o \in Objs : keys'[o] \subseteq keys[o],
         \A u \in Threads : Acquiring(u)' => Acquiring(u) /\ call'[u] = call[u]
  PROVE  KeyInv'
  BY DEF IndInv, KeyInv

\* Every step keeps the keys: until its key is listed, a call is alone with it.
LEMMA KeyStep ==
  ASSUME IndInv, [Next]_vars
  PROVE  KeyInv'
<1> USE DEF IndInv, TypeOK, objVars, semVars, threadVars
<1>1. ASSUME NEW t \in Threads, NEW c \in Calls, Enter(t, c)
      PROVE  KeyInv'
  <2>1. /\ pc[t] = "idle"
        /\ c.op # "Unlock" => Fresh(c.key)
        /\ pc' = [pc EXCEPT ![t] = "get"] /\ call' = [call EXCEPT ![t] = c]
        /\ keys' = keys
    BY <1>1 DEF Enter
  <2>2. \A u \in Threads \ {t} : /\ Acquiring(u)' <=> Acquiring(u)
                                /\ call'[u] = call[u]
    BY <2>1 DEF Acquiring
  <2>3. \A u \in Threads : Acquiring(u) => pc[u] # "idle"
    BY DEF Acquiring
  <2>4. Acquiring(t)' => c.op # "Unlock" /\ call'[t] = c
    BY <2>1 DEF Acquiring
  <2> SUFFICES ASSUME NEW u \in Threads, Acquiring(u)'
               PROVE  /\ \A o \in Objs : call'[u].key \notin keys'[o]
                      /\ \A v \in Threads \ {u} :
                           Acquiring(v)' => call'[v].key # call'[u].key
    BY DEF KeyInv
  <2>5. CASE u = t
    <3>1. Fresh(c.key) /\ call'[u] = c
      BY <2>1, <2>4, <2>5
    <3> QED BY <3>1, <2>1, <2>2, <2>3, <2>5 DEF Fresh
  <2>6. CASE u # t
    <3>1. Acquiring(u) /\ call'[u] = call[u]
      BY <2>2, <2>6
    <3>2. \A v \in Threads \ {u} : Acquiring(v)' => call'[v].key # call'[u].key
      <4> TAKE v \in Threads \ {u}
      <4> HAVE Acquiring(v)'
      <4>1. CASE v = t
        BY <4>1, <3>1, <2>1, <2>3, <2>4 DEF Fresh
      <4>2. CASE v # t
        BY <4>2, <3>1, <2>2 DEF KeyInv
      <4> QED BY <4>1, <4>2
    <3> QED BY <3>1, <3>2, <2>1 DEF KeyInv
  <2> QED BY <2>5, <2>6
<1>2. ASSUME NEW t \in Threads, CtxDone(t)
      PROVE  KeyInv'
  BY <1>2, KeyFrame DEF CtxDone, Acquiring
<1>3. ASSUME NEW t \in Threads, GetFails(t)
      PROVE  KeyInv'
  BY <1>3, KeyFrame DEF GetFails, Return, Acquiring
<1>4. ASSUME NEW t \in Threads, GetFinds(t)
      PROVE  KeyInv'
  <2>1. /\ pc[t] = "get" /\ call' = call /\ keys' = keys
        /\ \A u \in Threads \ {t} : pc'[u] = pc[u]
    BY <1>4 DEF GetFinds
  <2> QED BY <2>1, KeyFrame DEF Acquiring
<1>5. ASSUME NEW t \in Threads, GetCreates(t)
      PROVE  KeyInv'
  <2>1. /\ pc[t] = "get" /\ call' = call /\ keys' = keys
        /\ \A u \in Threads \ {t} : pc'[u] = pc[u]
    BY <1>5 DEF GetCreates
  <2> QED BY <2>1, KeyFrame DEF Acquiring
<1>6. ASSUME NEW t \in Threads, CheckPasses(t)
      PROVE  KeyInv'
  BY <1>6, KeyFrame DEF CheckPasses, Acquiring
<1>7. ASSUME NEW t \in Threads, CheckPanics(t)
      PROVE  KeyInv'
  BY <1>7, KeyFrame DEF CheckPanics, Acquiring
<1>8. ASSUME NEW t \in Threads, Acquire(t)
      PROVE  KeyInv'
  BY <1>8, KeyFrame DEF Acquire, Acquiring
<1>9. ASSUME NEW t \in Threads, AcquireFails(t)
      PROVE  KeyInv'
  BY <1>9, KeyFrame DEF AcquireFails, Return, Acquiring
<1>10. ASSUME NEW t \in Threads, Enqueue(t)
      PROVE  KeyInv'
  BY <1>10, KeyFrame DEF Enqueue, Acquiring
<1>11. ASSUME NEW t \in Threads, CancelWait(t)
      PROVE  KeyInv'
  BY <1>11, KeyFrame DEF CancelWait, Return, Acquiring
<1>12. ASSUME NEW t \in Threads, WakeUp(t)
      PROVE  KeyInv'
  BY <1>12, KeyFrame DEF WakeUp, Acquiring
<1>13. ASSUME NEW t \in Threads, GiveBack(t)
      PROVE  KeyInv'
  BY <1>13, KeyFrame DEF GiveBack, Acquiring
<1>14. ASSUME NEW t \in Threads, AddKey(t)
      PROVE  KeyInv'
  <2>1. /\ pc[t] = "addKey" /\ pc' = [pc EXCEPT ![t] = "idle"]
        /\ call' = [call EXCEPT ![t] = NoCall]
        /\ keys' = [keys EXCEPT ![obj[t]] = @ \cup {call[t].key}]
    BY <1>14 DEF AddKey, Return
  <2>2. Acquiring(t)
    BY <2>1 DEF Acquiring, CallInv
  <2>3. \A u \in Threads : Acquiring(u)' => u # t /\ Acquiring(u) /\ call'[u] = call[u]
    BY <2>1 DEF Acquiring
  <2>4. \A o \in Objs : keys'[o] \subseteq keys[o] \cup {call[t].key}
    BY <2>1
  <2> QED BY <2>2, <2>3, <2>4 DEF KeyInv
<1>15. ASSUME NEW t \in Threads, UnlockCheck(t)
      PROVE  KeyInv'
  <2>1. \A u \in Threads \ {t} : pc'[u] = pc[u] /\ call'[u] = call[u]
    BY <1>15 DEF UnlockCheck, Return
  <2>2. pc[t] = "unlockCheck" /\ pc'[t] \in {"idle", "removeKey"} /\ keys' = keys
    BY <1>15 DEF UnlockCheck, Return
  <2> QED BY <2>1, <2>2, KeyFrame DEF Acquiring
<1>16. ASSUME NEW t \in Threads, RemoveKey(t)
      PROVE  KeyInv'
  BY <1>16, KeyFrame DEF RemoveKey, Acquiring
<1>17. ASSUME NEW t \in Threads, KeyUnknown(t)
      PROVE  KeyInv'
  BY <1>17, KeyFrame DEF KeyUnknown, Return, Acquiring
<1>18. ASSUME NEW t \in Threads, ReleaseToken(t)
      PROVE  KeyInv'
  BY <1>18, KeyFrame DEF ReleaseToken, Return, Acquiring
<1>19. ASSUME NEW t \in Threads, HandOver(t)
      PROVE  KeyInv'
  <2> DEFINE h == waiters[obj[t]][1]
  <2>1. h = Head(waiters[obj[t]]) /\ pc[h] = "waiting" /\ h # t
    BY <1>19, HeadWaits DEF HandOver
  <2>2. /\ pc' = [pc EXCEPT ![h] = "woken", ![t] = "idle"]
        /\ call' = [call EXCEPT ![t] = NoCall] /\ keys' = keys
    BY <1>19, <2>1 DEF HandOver
  <2> HIDE DEF h
  <2> QED BY <2>1, <2>2, KeyFrame DEF Acquiring
<1>20. ASSUME NEW o \in Objs, Age(o)
      PROVE  KeyInv'
  BY <1>20, KeyFrame DEF Age, Acquiring
<1>21. ASSUME NEW n \in Names, Collect(n)
      PROVE  KeyInv'
  BY <1>21, KeyFrame DEF Collect, Acquiring
<1>22. CASE BeginShutdown
  BY <1>22, KeyFrame DEF BeginShutdown, Acquiring
<1>23. CASE Shutdown
  BY <1>23, KeyFrame DEF Shutdown, Acquiring
<1>24. CASE UNCHANGED vars
  BY <1>24, KeyFrame DEF vars, Acquiring
<1> QED
  BY <1>1, <1>2, <1>3, <1>4, <1>5, <1>6, <1>7, <1>8, <1>9, <1>10, <1>11, <1>12, <1>13, <1>14, <1>15, <1>16, <1>17, <1>18, <1>19, <1>20, <1>21, <1>22, <1>23, <1>24
     DEF Next, Step, Refuse

-----------------------------------------------------------------------------
(* The map                                                                 *)

\* Every step keeps the map of names to lock objects.
LEMMA MapStep ==
  ASSUME IndInv, [Next]_vars
  PROVE  MapInv'
<1> USE DEF IndInv, TypeOK, objVars, semVars, threadVars, MapInv
<1>1. ASSUME NEW t \in Threads, NEW c \in Calls, Enter(t, c)
      PROVE  MapInv'
  BY <1>1 DEF Enter
<1>2. ASSUME NEW t \in Threads, CtxDone(t)
      PROVE  MapInv'
  BY <1>2 DEF CtxDone
<1>3. ASSUME NEW t \in Threads, GetFails(t)
      PROVE  MapInv'
  BY <1>3 DEF GetFails, Return
<1>4. ASSUME NEW t \in Threads, GetFinds(t)
      PROVE  MapInv'
  <2>1. lockOf' = lockOf /\ nameOf' = nameOf /\ deleted' = deleted /\ size' = size
    BY <1>4 DEF GetFinds
  <2> QED BY <2>1
<1>5. ASSUME NEW t \in Threads, GetCreates(t)
      PROVE  MapInv'
  <2>1. PICK o \in Objs : /\ Unused(o)
                          /\ lockOf'  = [lockOf EXCEPT ![call[t].name] = o]
                          /\ nameOf'  = [nameOf EXCEPT ![o] = call[t].name]
                          /\ size'    = [size EXCEPT ![o] = call[t].size]
                          /\ deleted' = [deleted EXCEPT ![o] = FALSE]
                          /\ idle'    = [idle EXCEPT ![o] = FALSE]
                          /\ obj'     = [obj EXCEPT ![t] = o]
    BY <1>5 DEF GetCreates
  <2>2. /\ call[t].name \in Names /\ call[t].size \in Int /\ ~(call[t].size <= 0)
        /\ lockOf[call[t].name] = NoObj
    BY <1>5, CallFacts DEF GetCreates, SizeInvalid, CallInv
  <2> SUFFICES ASSUME NEW n \in Names, lockOf'[n] # NoObj
               PROVE  /\ nameOf'[lockOf'[n]] = n
                      /\ ~deleted'[lockOf'[n]]
                      /\ size'[lockOf'[n]] > 0
    OBVIOUS
  <2>3. CASE n = call[t].name
    BY <2>1, <2>2, <2>3
  <2>4. CASE n # call[t].name
    <3>1. lockOf'[n] = lockOf[n] /\ lockOf[n] \in Objs /\ lockOf[n] # o
      BY <2>1, <2>4 DEF Unused
    <3>2. /\ nameOf'[lockOf[n]] = nameOf[lockOf[n]]
          /\ deleted'[lockOf[n]] = deleted[lockOf[n]]
          /\ size'[lockOf[n]] = size[lockOf[n]]
      BY <3>1, <2>1
    <3> QED BY <3>1, <3>2
  <2> QED BY <2>3, <2>4
<1>6. ASSUME NEW t \in Threads, CheckPasses(t)
      PROVE  MapInv'
  BY <1>6 DEF CheckPasses
<1>7. ASSUME NEW t \in Threads, CheckPanics(t)
      PROVE  MapInv'
  BY <1>7 DEF CheckPanics
<1>8. ASSUME NEW t \in Threads, Acquire(t)
      PROVE  MapInv'
  BY <1>8 DEF Acquire
<1>9. ASSUME NEW t \in Threads, AcquireFails(t)
      PROVE  MapInv'
  BY <1>9 DEF AcquireFails, Return
<1>10. ASSUME NEW t \in Threads, Enqueue(t)
      PROVE  MapInv'
  BY <1>10 DEF Enqueue
<1>11. ASSUME NEW t \in Threads, CancelWait(t)
      PROVE  MapInv'
  BY <1>11 DEF CancelWait, Return
<1>12. ASSUME NEW t \in Threads, WakeUp(t)
      PROVE  MapInv'
  BY <1>12 DEF WakeUp
<1>13. ASSUME NEW t \in Threads, GiveBack(t)
      PROVE  MapInv'
  BY <1>13 DEF GiveBack
<1>14. ASSUME NEW t \in Threads, AddKey(t)
      PROVE  MapInv'
  BY <1>14 DEF AddKey, Return
<1>15. ASSUME NEW t \in Threads, UnlockCheck(t)
      PROVE  MapInv'
  <2>1. lockOf' = lockOf /\ nameOf' = nameOf /\ deleted' = deleted /\ size' = size
    BY <1>15 DEF UnlockCheck
  <2> QED BY <2>1
<1>16. ASSUME NEW t \in Threads, RemoveKey(t)
      PROVE  MapInv'
  BY <1>16 DEF RemoveKey
<1>17. ASSUME NEW t \in Threads, KeyUnknown(t)
      PROVE  MapInv'
  BY <1>17 DEF KeyUnknown, Return
<1>18. ASSUME NEW t \in Threads, ReleaseToken(t)
      PROVE  MapInv'
  BY <1>18 DEF ReleaseToken, Return
<1>19. ASSUME NEW t \in Threads, HandOver(t)
      PROVE  MapInv'
  BY <1>19 DEF HandOver
<1>20. ASSUME NEW o \in Objs, Age(o)
      PROVE  MapInv'
  BY <1>20 DEF Age
<1>21. ASSUME NEW n \in Names, Collect(n)
      PROVE  MapInv'
  <2>1. /\ lockOf[n] # NoObj
        /\ lockOf' = [lockOf EXCEPT ![n] = NoObj]
        /\ deleted' = [deleted EXCEPT ![lockOf[n]] = TRUE]
        /\ nameOf' = nameOf /\ size' = size
    BY <1>21 DEF Collect
  <2> SUFFICES ASSUME NEW m \in Names, lockOf'[m] # NoObj
               PROVE  /\ nameOf'[lockOf'[m]] = m
                      /\ ~deleted'[lockOf'[m]]
                      /\ size'[lockOf'[m]] > 0
    OBVIOUS
  <2>2. m # n /\ lockOf'[m] = lockOf[m] /\ lockOf[m] # NoObj
    BY <2>1
  <2>3. lockOf[m] # lockOf[n]
    BY <2>1, <2>2
  <2> QED BY <2>1, <2>2, <2>3
<1>22. CASE BeginShutdown
  BY <1>22 DEF BeginShutdown
<1>23. CASE Shutdown
  <2>1. nameOf' = nameOf /\ size' = size
    BY <1>23 DEF Shutdown
  <2> SUFFICES ASSUME NEW m \in Names, lockOf'[m] # NoObj
               PROVE  /\ nameOf'[lockOf'[m]] = m
                      /\ ~deleted'[lockOf'[m]]
                      /\ size'[lockOf'[m]] > 0
    OBVIOUS
  <2>2. /\ lockOf'[m] = lockOf[m] /\ lockOf[m] \in Objs
        /\ keys[lockOf[m]] # {}
    BY <1>23 DEF Shutdown
  <2>3. deleted'[lockOf[m]] = deleted[lockOf[m]]
    BY <1>23, <2>2 DEF Shutdown
  <2> QED BY <2>1, <2>2, <2>3
<1>24. CASE UNCHANGED vars
  BY <1>24 DEF vars
<1> QED
  BY <1>1, <1>2, <1>3, <1>4, <1>5, <1>6, <1>7, <1>8, <1>9, <1>10, <1>11, <1>12, <1>13, <1>14, <1>15, <1>16, <1>17, <1>18, <1>19, <1>20, <1>21, <1>22, <1>23, <1>24
     DEF Next, Step, Refuse

\* Nothing is mapped, idle or listed anew, and no call starts to run.
LEMMA UseFrame ==
  ASSUME IndInv, lockOf' = lockOf, nameOf' = nameOf,
         \A o \in Objs : (idle'[o] => idle[o]) /\ keys'[o] \subseteq keys[o],
         \A u \in Threads :
           /\ pc'[u] = "panicked" => pc[u] = "panicked"
           /\ pc'[u] = "waiting" => pc[u] \in Running \cup {"waiting"}
           /\ pc'[u] \in Running => pc[u] \in Running
           /\ pc'[u] \in Running \cup {"waiting"} => obj'[u] = obj[u] /\ call'[u] = call[u]
  PROVE  UseInv'
<1> SUFFICES ASSUME MinIdleCoversCalls  PROVE UseInv'
  BY DEF UseInv
<1>1. \A o \in Objs : keys'[o] # {} => lockOf'[nameOf'[o]] = o
  BY DEF IndInv, UseInv
<1>2. ASSUME NEW u \in Threads
      PROVE  /\ pc'[u] # "panicked"
             /\ pc'[u] \in Running \cup {"waiting"} => lockOf'[call'[u].name] = obj'[u]
             /\ pc'[u] \in Running => ~idle'[obj'[u]]
  <2>1. pc'[u] # "panicked"
    BY DEF IndInv, UseInv
  <2>2. pc'[u] \in Running \cup {"waiting"} => lockOf'[call'[u].name] = obj'[u]
    BY DEF IndInv, UseInv
  <2>3. ASSUME pc'[u] \in Running  PROVE ~idle'[obj'[u]]
    <3>1. pc[u] \in Running /\ obj'[u] = obj[u] /\ obj[u] \in Objs /\ ~idle[obj[u]]
      BY <2>3 DEF IndInv, UseInv, CallInv
    <3> QED BY <3>1
  <2> QED BY <2>1, <2>2, <2>3
<1> QED BY <1>1, <1>2 DEF UseInv

\* Every step keeps the objects that calls still use out of the collector's reach.
LEMMA UseStep ==
  ASSUME IndInv, [Next]_vars
  PROVE  UseInv'
<1> USE DEF IndInv, TypeOK, objVars, semVars, threadVars
<1>1. ASSUME NEW t \in Threads, NEW c \in Calls, Enter(t, c)
      PROVE  UseInv'
  BY <1>1, UseFrame DEF Enter, Running
<1>2. ASSUME NEW t \in Threads, CtxDone(t)
      PROVE  UseInv'
  BY <1>2, UseFrame DEF CtxDone, Running
<1>3. ASSUME NEW t \in Threads, GetFails(t)
      PROVE  UseInv'
  BY <1>3, UseFrame DEF GetFails, Return, Running
<1>4. ASSUME NEW t \in Threads, GetFinds(t)
      PROVE  UseInv'
  <2> SUFFICES ASSUME MinIdleCoversCalls  PROVE UseInv'
    BY DEF UseInv
  <2> DEFINE o == lockOf[call[t].name]
  <2>1. /\ pc[t] = "get" /\ o # NoObj
        /\ idle' = [idle EXCEPT ![o] = FALSE] /\ obj' = [obj EXCEPT ![t] = o]
        /\ call' = call /\ keys' = keys /\ lockOf' = lockOf /\ nameOf' = nameOf
        /\ \A u \in Threads \ {t} : pc'[u] = pc[u]
        /\ pc'[t] \in {"check", "unlockCheck"}
    BY <1>4 DEF GetFinds
  <2>2. call[t].name \in Names
    BY <2>1, CallFacts DEF CallInv
  <2>3. o \in Objs
    BY <2>1, <2>2
  <2>4. \A p \in Objs : keys'[p] # {} => lockOf'[nameOf'[p]] = p
    BY <2>1 DEF UseInv
  <2>5. ASSUME NEW u \in Threads
        PROVE  /\ pc'[u] # "panicked"
               /\ pc'[u] \in Running \cup {"waiting"} => lockOf'[call'[u].name] = obj'[u]
               /\ pc'[u] \in Running => ~idle'[obj'[u]]
    <3>1. CASE u = t
      BY <3>1, <2>1, <2>3
    <3>2. CASE u # t
      <4>1. pc'[u] = pc[u] /\ call'[u] = call[u] /\ obj'[u] = obj[u]
        BY <3>2, <2>1
      <4>2. pc[u] \in Running => ~idle[obj[u]] /\ obj[u] \in Objs
        BY DEF UseInv, CallInv
      <4>3. pc[u] \in Running => ~idle'[obj[u]]
        BY <4>2, <2>1
      <4> QED BY <4>1, <4>3, <2>1 DEF UseInv
    <3> QED BY <3>1, <3>2
  <2> QED BY <2>4, <2>5 DEF UseInv
<1>5. ASSUME NEW t \in Threads, GetCreates(t)
      PROVE  UseInv'
  <2> SUFFICES ASSUME MinIdleCoversCalls  PROVE UseInv'
    BY DEF UseInv
  <2>1. PICK o \in Objs : /\ Unused(o)
                          /\ lockOf'  = [lockOf EXCEPT ![call[t].name] = o]
                          /\ nameOf'  = [nameOf EXCEPT ![o] = call[t].name]
                          /\ size'    = [size EXCEPT ![o] = call[t].size]
                          /\ deleted' = [deleted EXCEPT ![o] = FALSE]
                          /\ idle'    = [idle EXCEPT ![o] = FALSE]
                          /\ obj'     = [obj EXCEPT ![t] = o]
    BY <1>5 DEF GetCreates
  <2>2. /\ call[t].name \in Names /\ call[t].size \in Int /\ ~(call[t].size <= 0)
        /\ lockOf[call[t].name] = NoObj
    BY <1>5, CallFacts DEF GetCreates, SizeInvalid, CallInv
  <2>3. /\ pc[t] = "get" /\ pc' = [pc EXCEPT ![t] = "check"]
        /\ call' = call /\ keys' = keys
    BY <1>5 DEF GetCreates
  <2>4. ASSUME NEW p \in Objs, keys'[p] # {}
        PROVE  lockOf'[nameOf'[p]] = p
    <3>1. p # o /\ lockOf[nameOf[p]] = p
      BY <2>1, <2>3, <2>4 DEF UseInv, Unused
    <3>2. nameOf'[p] = nameOf[p] /\ nameOf[p] \in Names /\ nameOf[p] # call[t].name
      BY <3>1, <2>1, <2>2
    <3> QED BY <3>1, <3>2, <2>1
  <2>5. ASSUME NEW u \in Threads
        PROVE  /\ pc'[u] # "panicked"
               /\ pc'[u] \in Running \cup {"waiting"} => lockOf'[call'[u].name] = obj'[u]
               /\ pc'[u] \in Running => ~idle'[obj'[u]]
    <3>1. CASE u = t
      BY <3>1, <2>1, <2>2, <2>3
    <3>2. CASE u # t
      <4>1. pc'[u] = pc[u] /\ call'[u] = call[u] /\ obj'[u] = obj[u]
        BY <3>2, <2>1, <2>3
      <4>2. pc[u] \in Running \cup {"waiting"} =>
              /\ obj[u] \in Objs /\ obj[u] # o /\ call[u].name \in Names
              /\ lockOf[call[u].name] = obj[u]
        BY <2>1, CallFacts DEF UseInv, CallInv, Unused, Running
      <4>3. pc[u] \in Running \cup {"waiting"} => lockOf'[call[u].name] = obj[u]
        BY <4>2, <2>1, <2>2
      <4>4. pc[u] \in Running => ~idle'[obj[u]]
        BY <4>2, <2>1 DEF UseInv
      <4> QED BY <4>1, <4>3, <4>4 DEF UseInv
    <3> QED BY <3>1, <3>2
  <2> QED BY <2>4, <2>5 DEF UseInv
<1>6. ASSUME NEW t \in Threads, CheckPasses(t)
      PROVE  UseInv'
  BY <1>6, UseFrame DEF CheckPasses, Running
<1>7. ASSUME NEW t \in Threads, CheckPanics(t)
      PROVE  UseInv'
  <2> SUFFICES ASSUME MinIdleCoversCalls  PROVE UseInv'
    BY DEF UseInv
  <2>1. pc[t] = "check" /\ deleted[obj[t]]
    BY <1>7 DEF CheckPanics
  <2>2. /\ call[t].name \in Names /\ obj[t] \in Objs
        /\ lockOf[call[t].name] = obj[t]
    BY <2>1, CallFacts DEF CallInv, UseInv, Running
  <2> QED BY <2>1, <2>2 DEF MapInv
<1>8. ASSUME NEW t \in Threads, Acquire(t)
      PROVE  UseInv'
  BY <1>8, UseFrame DEF Acquire, Running
<1>9. ASSUME NEW t \in Threads, AcquireFails(t)
      PROVE  UseInv'
  BY <1>9, UseFrame DEF AcquireFails, Return, Running
<1>10. ASSUME NEW t \in Threads, Enqueue(t)
      PROVE  UseInv'
  BY <1>10, UseFrame DEF Enqueue, Running
<1>11. ASSUME NEW t \in Threads, CancelWait(t)
      PROVE  UseInv'
  BY <1>11, UseFrame DEF CancelWait, Return, Running
<1>12. ASSUME NEW t \in Threads, WakeUp(t)
      PROVE  UseInv'
  BY <1>12, UseFrame DEF WakeUp, Running
<1>13. ASSUME NEW t \in Threads, GiveBack(t)
      PROVE  UseInv'
  BY <1>13, UseFrame DEF GiveBack, Running
<1>14. ASSUME NEW t \in Threads, AddKey(t)
      PROVE  UseInv'
  <2> SUFFICES ASSUME MinIdleCoversCalls  PROVE UseInv'
    BY DEF UseInv
  <2>1. /\ pc[t] = "addKey" /\ pc' = [pc EXCEPT ![t] = "idle"]
        /\ call' = [call EXCEPT ![t] = NoCall] /\ obj' = [obj EXCEPT ![t] = NoObj]
        /\ keys' = [keys EXCEPT ![obj[t]] = @ \cup {call[t].key}]
        /\ lockOf' = lockOf /\ nameOf' = nameOf /\ idle' = idle
    BY <1>14 DEF AddKey, Return
  <2>2. /\ call[t].name \in Names /\ obj[t] \in Objs
        /\ lockOf[call[t].name] = obj[t]
    BY <2>1, CallFacts DEF CallInv, UseInv, Running
  <2>3. lockOf[nameOf[obj[t]]] = obj[t]
    BY <2>2 DEF MapInv
  <2>4. \A o \in Objs : keys'[o] # {} => lockOf'[nameOf'[o]] = o
    BY <2>1, <2>3 DEF UseInv
  <2>5. \A u \in Threads :
          /\ pc'[u] # "panicked"
          /\ pc'[u] \in Running \cup {"waiting"} => lockOf'[call'[u].name] = obj'[u]
          /\ pc'[u] \in Running => ~idle'[obj'[u]]
    BY <2>1 DEF UseInv, Running
  <2> QED BY <2>4, <2>5 DEF UseInv
<1>15. ASSUME NEW t \in Threads, UnlockCheck(t)
      PROVE  UseInv'
  <2>1. \A u \in Threads \ {t} : pc'[u] = pc[u] /\ obj'[u] = obj[u] /\ call'[u] = call[u]
    BY <1>15 DEF UnlockCheck, Return
  <2>2. /\ pc[t] = "unlockCheck"
        /\ \/ pc'[t] = "idle"
           \/ pc'[t] = "removeKey" /\ obj'[t] = obj[t] /\ call'[t] = call[t]
        /\ lockOf' = lockOf /\ nameOf' = nameOf /\ idle' = idle /\ keys' = keys
    BY <1>15 DEF UnlockCheck, Return
  <2> QED BY <2>1, <2>2, UseFrame DEF Running
<1>16. ASSUME NEW t \in Threads, RemoveKey(t)
      PROVE  UseInv'
  BY <1>16, UseFrame DEF RemoveKey, Running
<1>17. ASSUME NEW t \in Threads, KeyUnknown(t)
      PROVE  UseInv'
  BY <1>17, UseFrame DEF KeyUnknown, Return, Running
<1>18. ASSUME NEW t \in Threads, ReleaseToken(t)
      PROVE  UseInv'
  BY <1>18, UseFrame DEF ReleaseToken, Return, Running
<1>19. ASSUME NEW t \in Threads, HandOver(t)
      PROVE  UseInv'
  <2> SUFFICES ASSUME MinIdleCoversCalls  PROVE UseInv'
    BY DEF UseInv
  <2> DEFINE h == waiters[obj[t]][1]
  <2>1. /\ h = Head(waiters[obj[t]]) /\ h \in Threads /\ h # t
        /\ pc[h] = "waiting" /\ obj[h] = obj[t]
    BY <1>19, HeadWaits DEF HandOver
  <2>2. /\ pc[t] = "release" /\ pc' = [pc EXCEPT ![h] = "woken", ![t] = "idle"]
        /\ call' = [call EXCEPT ![t] = NoCall] /\ obj' = [obj EXCEPT ![t] = NoObj]
        /\ keys' = keys /\ lockOf' = lockOf /\ nameOf' = nameOf /\ idle' = idle
    BY <1>19, <2>1 DEF HandOver
  <2> HIDE DEF h
  <2>3. ~idle[obj[h]] /\ lockOf[call[h].name] = obj[h]
    BY <2>1, <2>2 DEF UseInv, Running
  <2>4. \A o \in Objs : keys'[o] # {} => lockOf'[nameOf'[o]] = o
    BY <2>2 DEF UseInv
  <2>5. \A u \in Threads :
          /\ pc'[u] # "panicked"
          /\ pc'[u] \in Running \cup {"waiting"} => lockOf'[call'[u].name] = obj'[u]
          /\ pc'[u] \in Running => ~idle'[obj'[u]]
    BY <2>1, <2>2, <2>3 DEF UseInv, Running
  <2> QED BY <2>4, <2>5 DEF UseInv
<1>20. ASSUME NEW o \in Objs, Age(o)
      PROVE  UseInv'
  <2> SUFFICES ASSUME MinIdleCoversCalls  PROVE UseInv'
    BY DEF UseInv
  <2>1. /\ \A u \in Threads : obj[u] = o => pc[u] \notin Running
        /\ idle' = [idle EXCEPT ![o] = TRUE]
        /\ lockOf' = lockOf /\ nameOf' = nameOf /\ keys' = keys
        /\ pc' = pc /\ call' = call /\ obj' = obj
    BY <1>20 DEF Age
  <2>2. \A u \in Threads : pc[u] \in Running => ~idle'[obj[u]]
    BY <2>1 DEF UseInv, CallInv
  <2> QED BY <2>1, <2>2 DEF UseInv
<1>21. ASSUME NEW n \in Names, Collect(n)
      PROVE  UseInv'
  <2> SUFFICES ASSUME MinIdleCoversCalls  PROVE UseInv'
    BY DEF UseInv
  <2> DEFINE o == lockOf[n]
  <2>1. /\ o \in Objs /\ keys[o] = {} /\ idle[o]
        /\ lockOf' = [lockOf EXCEPT ![n] = NoObj]
        /\ nameOf' = nameOf /\ keys' = keys /\ idle' = idle
        /\ pc' = pc /\ call' = call /\ obj' = obj
    BY <1>21 DEF Collect, Collectable
  <2>2. \A u \in Threads : pc[u] \in Running => obj[u] # o
    BY <2>1 DEF UseInv
  <2>3. InHand(o) = {}
    BY <2>2 DEF InHand, Holding, Running
  <2>4. cur[o] = 0 /\ size[o] > 0
    <3>1. size[o] > 0
      BY <2>1 DEF MapInv
    <3>2. cur[o] = Cardinality(keys[o]) + Cardinality(InHand(o))
      BY <2>1 DEF TokenInv, TokenOK
    <3>3. Cardinality(keys[o]) = 0 /\ Cardinality(InHand(o)) = 0
      BY <2>1, <2>3, FS_EmptySet
    <3> QED BY <3>1, <3>2, <3>3
  <2>5. waiters[o] = << >>
    BY <2>1, <2>4 DEF TokenInv, TokenOK
  <2>6. \A u \in Threads : pc[u] \in Running \cup {"waiting"} => obj[u] # o
    BY <2>2, <2>5, QueuePosition
  <2> HIDE DEF o
  <2>7. \A u \in Threads :
          pc[u] \in Running \cup {"waiting"} => lockOf'[call[u].name] = obj[u]
    BY <2>1, <2>6 DEF UseInv, o
  <2>8. \A p \in Objs : keys'[p] # {} => lockOf'[nameOf'[p]] = p
    BY <2>1 DEF UseInv, o
  <2> QED BY <2>1, <2>7, <2>8 DEF UseInv
<1>22. CASE BeginShutdown
  BY <1>22, UseFrame DEF BeginShutdown, Running
<1>23. CASE Shutdown
  <2> SUFFICES ASSUME MinIdleCoversCalls  PROVE UseInv'
    BY DEF UseInv
  <2>1. /\ \A u \in Threads : pc[u] \in {"idle", "panicked"}
        /\ nameOf' = nameOf /\ keys' = keys /\ pc' = pc
        /\ \A n \in Names : lockOf[n] \in Objs /\ keys[lockOf[n]] # {}
                              => lockOf'[n] = lockOf[n]
    BY <1>23 DEF Shutdown
  <2>2. \A p \in Objs : keys'[p] # {} => lockOf'[nameOf'[p]] = p
    BY <2>1 DEF UseInv
  <2> QED BY <2>1, <2>2 DEF UseInv, Running
<1>24. CASE UNCHANGED vars
  BY <1>24, UseFrame DEF vars, Running
<1> QED
  BY <1>1, <1>2, <1>3, <1>4, <1>5, <1>6, <1>7, <1>8, <1>9, <1>10, <1>11, <1>12, <1>13, <1>14, <1>15, <1>16, <1>17, <1>18, <1>19, <1>20, <1>21, <1>22, <1>23, <1>24
     DEF Next, Step, Refuse

-----------------------------------------------------------------------------
(* The theorems                                                            *)

\* The manager starts in the strengthening.
LEMMA InitInd == Init => IndInv
<1> SUFFICES ASSUME Init  PROVE IndInv
  OBVIOUS
<1>1. TypeOK
  <2>1. << >> \in Seq(Threads)
    OBVIOUS
  <2> QED BY <2>1 DEF Init, TypeOK, PCs
<1>2. CallInv
  BY DEF Init, CallInv, Running
<1>3. QueueInv
  BY DEF Init, QueueInv
<1>4. TokenInv
  <2> SUFFICES ASSUME NEW o \in Objs  PROVE TokenOK(o)
    BY DEF TokenInv
  <2>1. keys[o] = {} /\ cur[o] = 0 /\ size[o] = 0 /\ waiters[o] = << >>
    BY DEF Init
  <2>2. InHand(o) = {}
    BY DEF Init, InHand, Holding
  <2> QED BY <2>1, <2>2, FS_EmptySet DEF TokenOK
<1>5. KeyInv
  BY DEF Init, KeyInv, Acquiring
<1>6. MapInv /\ UseInv
  BY DEF Init, MapInv, UseInv, Running
<1> QED BY <1>1, <1>2, <1>3, <1>4, <1>5, <1>6 DEF IndInv

\* Every step preserves the strengthening.
LEMMA NextInd == IndInv /\ [Next]_vars => IndInv'
  BY TypeStep, CallStep, QueueStep, TokenStep, KeyStep, MapStep, UseStep
     DEF IndInv

\* The strengthening of all that follows is an invariant of the manager.
THEOREM Inductive == Spec => []IndInv
  BY InitInd, NextInd, PTL DEF Spec

\* Every variable keeps its type; in particular no semaphore gets a size
\* that is not positive (manager.go:161-163).
THEOREM TypeCorrect == Spec => []TypeOK
<1>1. IndInv => TypeOK
  BY DEF IndInv
<1> QED BY Inductive, <1>1, PTL

\* However calls, cancellations, the collector and shutdown interleave, no
\* token is lost or made up, and no object is held more than size times.
THEOREM TokensMatch == Spec => []TokensMatchKeys
<1>1. IndInv => TokensMatchKeys
  BY DEF IndInv, TokenInv, TokenOK, TokensMatchKeys
<1> QED BY Inductive, <1>1, PTL

\* A Lock call waits only while all tokens are out, and the semaphore's queue
\* is the set of calls waiting on the object, each once.
THEOREM WakeUps == Spec => []NoLostWakeUp
<1>1. ASSUME IndInv, NEW o \in Objs
      PROVE  /\ waiters[o] # << >> => cur[o] = size[o]
             /\ ToSet(waiters[o]) = {t \in Threads : pc[t] = "waiting" /\ obj[t] = o}
             /\ IsInjective(waiters[o])
  <2>1. waiters[o] # << >> => cur[o] = size[o]
    BY <1>1 DEF IndInv, TokenInv, TokenOK
  <2>2. waiters[o] \in Seq(Threads) /\ DOMAIN waiters[o] = 1..Len(waiters[o])
    BY <1>1 DEF IndInv, TypeOK
  <2>3. \A i \in DOMAIN waiters[o] :
          /\ waiters[o][i] \in Threads
          /\ pc[waiters[o][i]] = "waiting" /\ obj[waiters[o][i]] = o
    BY <1>1, <2>2, QueueElements
  <2>4. \A t \in Threads : pc[t] = "waiting" /\ obj[t] = o =>
          \E i \in DOMAIN waiters[o] : waiters[o][i] = t
    BY <1>1, <2>2, QueuePosition
  <2>5. ToSet(waiters[o]) = {t \in Threads : pc[t] = "waiting" /\ obj[t] = o}
    BY <2>3, <2>4 DEF ToSet
  <2>6. \A i, j \in DOMAIN waiters[o] : waiters[o][i] = waiters[o][j] => i = j
    BY <1>1, <2>2, QueueElements
  <2> QED BY <2>1, <2>5, <2>6 DEF IsInjective
<1>2. IndInv => NoLostWakeUp
  BY <1>1 DEF NoLostWakeUp
<1> QED BY Inductive, <1>2, PTL

\* If LockGcMinIdle covers the running time of a call, the collector never
\* takes an object away from a call that looked it up.
THEOREM NeverPanics ==
  ASSUME MinIdleCoversCalls
  PROVE  Spec => []NoPanic
<1>1. IndInv => NoPanic
  BY DEF IndInv, UseInv, NoPanic
<1> QED BY Inductive, <1>1, PTL

\* Under the same condition a name is never held more than size times, over
\* all the objects it ever had.
THEOREM Exclusion ==
  ASSUME MinIdleCoversCalls
  PROVE  Spec => []MutualExclusion
<1>1. ASSUME IndInv  PROVE MutualExclusion
  <2> SUFFICES ASSUME NEW o \in Objs, keys[o] # {}
               PROVE  Cardinality(Holders(nameOf[o])) <= size[o]
    BY DEF MutualExclusion
  <2>1. \A p \in Objs : keys[p] # {} /\ nameOf[p] = nameOf[o] => p = o
    BY <1>1 DEF IndInv, UseInv
  <2>2. Holders(nameOf[o]) = keys[o]
    BY <2>1 DEF Holders
  <2>3. TokenOK(o) /\ cur[o] \in Int /\ size[o] \in Nat
    BY <1>1 DEF IndInv, TokenInv, TypeOK
  <2>4. Cardinality(keys[o]) \in Nat /\ Cardinality(InHand(o)) \in Nat
    BY <2>3, HandFacts, FS_CardinalityType DEF TokenOK
  <2>5. Cardinality(keys[o]) <= size[o]
    BY <2>3, <2>4 DEF TokenOK
  <2> QED BY <2>2, <2>5
<1> QED BY Inductive, <1>1, PTL

\* The steps with which an Unlock call returns short of releasing a token.
LEMMA UnlockReturns ==
  ASSUME IndInv, [Next]_vars, NEW t \in Threads,
         call[t] # NoCall, call[t].op = "Unlock",
         call'[t] = NoCall, pc[t] # "release"
  PROVE  GetFails(t) \/ UnlockCheck(t) \/ KeyUnknown(t)
<1> USE DEF IndInv, TypeOK, CallInv
<1>1. call' # call /\ pc[t] # "idle"
  OBVIOUS
<1>2. PICK u \in Threads : \/ \E c \in Calls : Enter(u, c)
                           \/ Step(u)
  BY <1>1 DEF Next, Refuse, CtxDone, Age, Collect, BeginShutdown, Shutdown,
              vars, threadVars
<1>3. u = t
  <2>1. CASE \E c \in Calls : Enter(u, c)
    BY <1>1, <2>1 DEF Enter
  <2>2. CASE GetFails(u) \/ AcquireFails(u) \/ CancelWait(u) \/ AddKey(u)
               \/ KeyUnknown(u) \/ ReleaseToken(u)
    BY <2>2 DEF GetFails, AcquireFails, CancelWait, AddKey, KeyUnknown,
                ReleaseToken, Return
  <2>3. CASE UnlockCheck(u)
    BY <2>3 DEF UnlockCheck, Return
  <2>4. CASE HandOver(u)
    BY <2>4 DEF HandOver
  <2>5. CASE GetFinds(u) \/ GetCreates(u) \/ CheckPasses(u) \/ CheckPanics(u)
               \/ Acquire(u) \/ Enqueue(u) \/ WakeUp(u) \/ GiveBack(u) \/ RemoveKey(u)
    BY <1>1, <2>5 DEF GetFinds, GetCreates, CheckPasses, CheckPanics, Acquire,
                      Enqueue, WakeUp, GiveBack, RemoveKey
  <2> QED BY <1>2, <2>1, <2>2, <2>3, <2>4, <2>5 DEF Step
<1>4. ~ \E c \in Calls : Enter(t, c)
  BY <1>1 DEF Enter
<1>5. ~(AcquireFails(t) \/ CancelWait(t) \/ AddKey(t))
  BY DEF AcquireFails, CancelWait, AddKey
<1>6. ~(ReleaseToken(t) \/ HandOver(t))
  BY DEF ReleaseToken, HandOver
<1>7. ~(GetFinds(t) \/ GetCreates(t) \/ CheckPasses(t) \/ CheckPanics(t)
          \/ Acquire(t) \/ Enqueue(t) \/ WakeUp(t) \/ GiveBack(t) \/ RemoveKey(t))
  BY <1>1 DEF GetFinds, GetCreates, CheckPasses, CheckPanics, Acquire,
              Enqueue, WakeUp, GiveBack, RemoveKey
<1> QED BY <1>2, <1>3, <1>4, <1>5, <1>6, <1>7 DEF Step

\* Under the same condition Unlock never fails for a key that holds the lock.
THEOREM UnlockWorks ==
  ASSUME MinIdleCoversCalls
  PROVE  Spec => UnlockFindsHeldLock
<1>1. ASSUME IndInv, [Next]_vars, NEW t \in Threads,
             call[t] # NoCall, call[t].op = "Unlock",
             call'[t] = NoCall, pc[t] # "release"
      PROVE  call[t].key \notin Holders(call[t].name)
  <2>1. pc[t] # "idle" /\ call[t] \in Calls
    BY <1>1 DEF IndInv, CallInv, TypeOK
  <2>2. call[t].name \in Names /\ call[t].size = 1
    BY <2>1, <1>1, CallFacts
  <2>3. \A p \in Objs : keys[p] # {} => lockOf[nameOf[p]] = p
    BY <1>1 DEF IndInv, UseInv
  <2>4. ASSUME call[t].key \in Holders(call[t].name)
        PROVE  /\ lockOf[call[t].name] \in Objs
               /\ call[t].key \in keys[lockOf[call[t].name]]
    BY <2>3, <2>4 DEF Holders
  <2>5. CASE GetFails(t)
    BY <2>2, <2>4, <2>5, <1>1 DEF GetFails, SizeInvalid, SizeMatches
  <2>6. CASE UnlockCheck(t)
    <3>1. /\ lockOf[call[t].name] = obj[t] /\ obj[t] \in Objs
          /\ pc[t] = "unlockCheck" /\ ~deleted[obj[t]]
      BY <2>2, <2>6, <1>1
         DEF UnlockCheck, IndInv, UseInv, CallInv, MapInv, Running
    <3> QED BY <2>6, <3>1, <1>1 DEF UnlockCheck
  <2>7. CASE KeyUnknown(t)
    <3>1. lockOf[call[t].name] = obj[t] /\ call[t].key \notin keys[obj[t]]
      BY <2>7, <1>1 DEF KeyUnknown, IndInv, UseInv, Running
    <3> QED BY <2>4, <3>1
  <2> QED BY <1>1, <2>5, <2>6, <2>7, UnlockReturns
<1>2. IndInv /\ [Next]_vars =>
        \A t \in Threads :
          /\ call[t] # NoCall /\ call[t].op = "Unlock"
          /\ call'[t] = NoCall /\ pc[t] # "release"
          => call[t].key \notin Holders(call[t].name)
  BY <1>1
<1> QED BY Inductive, <1>2, PTL DEF UnlockFindsHeldLock, Spec

-----------------------------------------------------------------------------
(* Shutdown                                                                *)

\* Once shutdown has returned no call is in progress.
FinalInv == mgr = "shutdown" => \A t \in Threads : pc[t] \in {"idle", "panicked"}

\* After shutdown no call, cancellation or collection does anything.
LEMMA FinalStep ==
  ASSUME IndInv, FinalInv, mgr = "shutdown", [Next]_vars
  PROVE  UNCHANGED <<objVars, semVars, keys, pc, mgr>>
<1> USE DEF FinalInv, objVars, semVars, threadVars, vars
<1>1. ASSUME NEW t \in Threads, Step(t) PROVE FALSE
  BY <1>1 DEF Step, GetFails, GetFinds, GetCreates, CheckPasses, CheckPanics, Acquire,
      AcquireFails, Enqueue, CancelWait, WakeUp, GiveBack, AddKey, UnlockCheck, RemoveKey,
      KeyUnknown, ReleaseToken, HandOver
<1>2. ASSUME NEW t \in Threads, Refuse(t) \/ CtxDone(t) \/ \E c \in Calls : Enter(t, c)
      PROVE  UNCHANGED <<objVars, semVars, keys, pc, mgr>>
  BY <1>2 DEF Refuse, CtxDone, Enter
<1>3. ASSUME NEW o \in Objs, Age(o) PROVE UNCHANGED <<objVars, semVars, keys, pc, mgr>>
  BY <1>3 DEF Age
<1>4. CASE BeginShutdown \/ Shutdown \/ \E n \in Names : Collect(n)
  BY <1>4 DEF BeginShutdown, Shutdown, Collect
<1> QED
  BY <1>1, <1>2, <1>3, <1>4 DEF Next

\* No step but shutdown itself, which waits for all calls, sets the flag.
LEMMA FinalNext == IndInv /\ FinalInv /\ [Next]_vars => FinalInv'
<1> SUFFICES ASSUME IndInv, FinalInv, [Next]_vars, mgr' = "shutdown"
             PROVE  \A t \in Threads : pc'[t] \in {"idle", "panicked"}
  BY DEF FinalInv
<1>1. CASE mgr = "shutdown"
  BY <1>1, FinalStep DEF FinalInv
<1>2. CASE mgr # "shutdown"
  <2>1. Shutdown
    BY <1>2 DEF Next, vars, Enter, Refuse, CtxDone, Age, Collect, BeginShutdown, Step, GetFails,
        GetFinds, GetCreates, CheckPasses, CheckPanics, Acquire, AcquireFails, Enqueue,
        CancelWait, WakeUp, GiveBack, AddKey, UnlockCheck, RemoveKey, KeyUnknown,
        ReleaseToken, HandOver
  <2> QED
    BY <2>1 DEF Shutdown, threadVars
<1> QED
  BY <1>1, <1>2

\* ShutdownIsFinal: when shutdown returns no call is half done, and from then on
\* nothing is granted, released or collected.
THEOREM ShutdownStays == Spec => ShutdownIsFinal
<1>1. Init => FinalInv
  BY DEF Init, FinalInv
<1>2. IndInv /\ FinalInv /\ [Next]_vars
        => [mgr = "shutdown" => UNCHANGED <<objVars, semVars, keys, pc>>]_vars
  BY FinalStep
<1> QED
  BY <1>1, <1>2, FinalNext, Inductive, PTL DEF Spec, ShutdownIsFinal
=============================================================================
