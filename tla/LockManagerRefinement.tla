------------------------ MODULE LockManagerRefinement ------------------------
(***************************************************************************)
(* LockManager implements LockService, for any number of names, keys,      *)
(* goroutines and lock objects, if LockGcMinIdle covers the running time   *)
(* of a call.                                                              *)
(***************************************************************************)
EXTENDS LockManagerProofs

USE ConstantsAssumption

-----------------------------------------------------------------------------
(* Who holds is counted once.                                              *)

\* A call that will list its key, or has taken it off the list.
Owning(t) == Acquiring(t) \/ pc[t] = "release"

\* Such a call is alone with its key, and a key is on the list of one object.
OwnInv ==
  /\ \A t \in Threads : Owning(t) =>
       /\ \A o \in Objs : call[t].key \notin keys[o]
       /\ \A u \in Threads \ {t} : Owning(u) => call[u].key # call[t].key
  /\ \A o, p \in Objs : o # p => keys[o] \cap keys[p] = {}

\* An object in the map has a size that somebody asked for.
SizeInv == \A n \in Names : lockOf[n] # NoObj => size[lockOf[n]] \in Sizes

\* No key is listed, and no call starts to own one.
LEMMA OwnFrame ==
  ASSUME OwnInv,
         \A o \in Objs : keys'[o] \subseteq keys[o],
         \A u \in Threads : Owning(u)' => Owning(u) /\ call'[u] = call[u]
  PROVE  OwnInv'
BY DEF OwnInv

\* Every step keeps keys apart.
LEMMA OwnStep ==
  ASSUME IndInv, OwnInv, [Next]_vars
  PROVE  OwnInv'
<1> USE DEF IndInv, TypeOK, objVars, semVars, threadVars
<1>1. ASSUME NEW t \in Threads, NEW c \in Calls, Enter(t, c)
      PROVE  OwnInv'
  <2>1. /\ pc[t] = "idle"
        /\ c.op # "Unlock" => Fresh(c.key)
        /\ pc' = [pc EXCEPT ![t] = "get"] /\ call' = [call EXCEPT ![t] = c]
        /\ keys' = keys
    BY <1>1 DEF Enter
  <2>2. \A u \in Threads \ {t} : Owning(u)' => Owning(u) /\ pc[u] # "idle" /\ call'[u] = call[u]
    BY <2>1 DEF Owning, Acquiring
  <2>3. Owning(t)' => Fresh(c.key) /\ call'[t] = c
    BY <2>1 DEF Owning, Acquiring
  <2> SUFFICES ASSUME NEW u \in Threads, Owning(u)'
               PROVE  /\ \A o \in Objs : call'[u].key \notin keys'[o]
                      /\ \A v \in Threads \ {u} :
                           Owning(v)' => call'[v].key # call'[u].key
    BY <2>1 DEF OwnInv
  <2>4. CASE u = t
    BY <2>1, <2>2, <2>3, <2>4 DEF Fresh
  <2>5. CASE u # t
    <3>1. \A v \in Threads \ {u} : Owning(v)' => call'[v].key # call'[u].key
      <4> SUFFICES ASSUME NEW v \in Threads \ {u}, Owning(v)'
                   PROVE  call'[v].key # call'[u].key
        OBVIOUS
      <4>1. CASE v = t
        BY <4>1, <2>2, <2>3, <2>5 DEF Fresh
      <4>2. CASE v # t
        BY <4>2, <2>2, <2>5 DEF OwnInv
      <4> QED BY <4>1, <4>2
    <3> QED BY <3>1, <2>1, <2>2, <2>5 DEF OwnInv
  <2> QED BY <2>4, <2>5
<1>2. ASSUME NEW t \in Threads, CtxDone(t)
      PROVE  OwnInv'
  BY <1>2, OwnFrame DEF CtxDone, Owning, Acquiring
<1>3. ASSUME NEW t \in Threads, GetFails(t)
      PROVE  OwnInv'
  BY <1>3, OwnFrame DEF GetFails, Return, Owning, Acquiring
<1>4. ASSUME NEW t \in Threads, GetFinds(t)
      PROVE  OwnInv'
  <2>1. /\ pc[t] = "get" /\ call' = call /\ keys' = keys
        /\ \A u \in Threads \ {t} : pc'[u] = pc[u]
        /\ pc'[t] = "check" => call[t].op # "Unlock"
        /\ pc'[t] \in {"check", "unlockCheck"}
    BY <1>4 DEF GetFinds
  <2> QED BY <2>1, OwnFrame DEF Owning, Acquiring
<1>5. ASSUME NEW t \in Threads, GetCreates(t)
      PROVE  OwnInv'
  <2>1. /\ pc[t] = "get" /\ call' = call /\ keys' = keys
        /\ \A u \in Threads \ {t} : pc'[u] = pc[u]
        /\ call[t].op # "Unlock"
    BY <1>5 DEF GetCreates
  <2> QED BY <2>1, OwnFrame DEF Owning, Acquiring
<1>6. ASSUME NEW t \in Threads, CheckPasses(t)
      PROVE  OwnInv'
  BY <1>6, OwnFrame DEF CheckPasses, Owning, Acquiring
<1>7. ASSUME NEW t \in Threads, CheckPanics(t)
      PROVE  OwnInv'
  BY <1>7, OwnFrame DEF CheckPanics, Owning, Acquiring
<1>8. ASSUME NEW t \in Threads, Acquire(t)
      PROVE  OwnInv'
  BY <1>8, OwnFrame DEF Acquire, Owning, Acquiring
<1>9. ASSUME NEW t \in Threads, AcquireFails(t)
      PROVE  OwnInv'
  BY <1>9, OwnFrame DEF AcquireFails, Return, Owning, Acquiring
<1>10. ASSUME NEW t \in Threads, Enqueue(t)
      PROVE  OwnInv'
  BY <1>10, OwnFrame DEF Enqueue, Owning, Acquiring
<1>11. ASSUME NEW t \in Threads, CancelWait(t)
      PROVE  OwnInv'
  BY <1>11, OwnFrame DEF CancelWait, Return, Owning, Acquiring
<1>12. ASSUME NEW t \in Threads, WakeUp(t)
      PROVE  OwnInv'
  BY <1>12, OwnFrame DEF WakeUp, Owning, Acquiring, CallInv
<1>13. ASSUME NEW t \in Threads, GiveBack(t)
      PROVE  OwnInv'
  BY <1>13, OwnFrame DEF GiveBack, Owning, Acquiring, CallInv
<1>14. ASSUME NEW t \in Threads, AddKey(t)
      PROVE  OwnInv'
  <2>1. /\ pc[t] = "addKey" /\ pc' = [pc EXCEPT ![t] = "idle"]
        /\ call' = [call EXCEPT ![t] = NoCall]
        /\ keys' = [keys EXCEPT ![obj[t]] = @ \cup {call[t].key}]
    BY <1>14 DEF AddKey, Return
  <2>2. Owning(t) /\ obj[t] \in Objs
    BY <2>1 DEF Owning, Acquiring, CallInv, Running
  <2>3. \A u \in Threads : Owning(u)' => u # t /\ Owning(u) /\ call'[u] = call[u]
    BY <2>1 DEF Owning, Acquiring
  <2>4. \A o \in Objs : keys'[o] = IF o = obj[t] THEN keys[o] \cup {call[t].key} ELSE keys[o]
    BY <2>1
  <2>5. \A o \in Objs : call[t].key \notin keys[o]
    BY <2>2 DEF OwnInv
  <2>6. ASSUME NEW o \in Objs, NEW p \in Objs, o # p
        PROVE  keys'[o] \cap keys'[p] = {}
    <3>1. keys[o] \cap keys[p] = {}
      BY <2>6 DEF OwnInv
    <3>2. /\ keys'[o] = IF o = obj[t] THEN keys[o] \cup {call[t].key} ELSE keys[o]
          /\ keys'[p] = IF p = obj[t] THEN keys[p] \cup {call[t].key} ELSE keys[p]
      BY <2>4
    <3>3. call[t].key \notin keys[o] /\ call[t].key \notin keys[p]
      BY <2>5
    <3>4. CASE o = obj[t]
      BY <2>6, <3>1, <3>2, <3>3, <3>4
    <3>5. CASE o # obj[t]
      BY <3>1, <3>2, <3>3, <3>5
    <3> QED BY <3>4, <3>5
  <2>7. ASSUME NEW u \in Threads, Owning(u)'
        PROVE  /\ \A o \in Objs : call'[u].key \notin keys'[o]
               /\ \A v \in Threads \ {u} : Owning(v)' => call'[v].key # call'[u].key
    <3>1. call[u].key # call[t].key /\ u # t /\ Owning(u) /\ call'[u] = call[u]
      <4>1. u # t /\ Owning(u) /\ call'[u] = call[u]
        BY <2>3, <2>7
      <4>2. call[u].key # call[t].key
        BY <2>2, <4>1 DEF OwnInv
      <4> QED BY <4>1, <4>2
    <3>2. \A o \in Objs : call[u].key \notin keys[o]
      BY <3>1 DEF OwnInv
    <3>3. \A v \in Threads \ {u} : Owning(v) => call[v].key # call[u].key
      BY <3>1 DEF OwnInv
    <3> QED
      <4>1. ASSUME NEW o \in Objs PROVE call'[u].key \notin keys'[o]
        <5>1. keys'[o] \subseteq keys[o] \cup {call[t].key}
          BY <2>4
        <5> QED BY <5>1, <3>1, <3>2
      <4>2. ASSUME NEW v \in Threads \ {u}, Owning(v)' PROVE call'[v].key # call'[u].key
        <5>1. Owning(v) /\ call'[v] = call[v]
          BY <2>3, <4>2
        <5>2. call[v].key # call[u].key
          BY <5>1, <3>3
        <5> QED BY <5>1, <5>2, <3>1
      <4> QED BY <4>1, <4>2
  <2> QED BY <2>6, <2>7 DEF OwnInv
<1>15. ASSUME NEW t \in Threads, UnlockCheck(t)
      PROVE  OwnInv'
  <2>1. \A u \in Threads \ {t} : pc'[u] = pc[u] /\ call'[u] = call[u]
    BY <1>15 DEF UnlockCheck, Return
  <2>2. pc[t] = "unlockCheck" /\ pc'[t] \in {"idle", "removeKey"} /\ keys' = keys
    BY <1>15 DEF UnlockCheck, Return
  <2> QED BY <2>1, <2>2, OwnFrame DEF Owning, Acquiring
<1>16. ASSUME NEW t \in Threads, RemoveKey(t)
      PROVE  OwnInv'
  <2>1. /\ pc[t] = "removeKey" /\ call[t].key \in keys[obj[t]] /\ obj[t] \in Objs
        /\ pc' = [pc EXCEPT ![t] = "release"] /\ call' = call
        /\ keys' = [keys EXCEPT ![obj[t]] = @ \ {call[t].key}]
    BY <1>16 DEF RemoveKey, CallInv, Running
  <2>2. \A u \in Threads \ {t} : Owning(u)' => Owning(u)
    BY <2>1 DEF Owning, Acquiring
  <2>3. \A o \in Objs : keys'[o] \subseteq keys[o] /\ call[t].key \notin keys'[o]
    BY <2>1 DEF OwnInv
  <2>4. \A o, p \in Objs : o # p => keys'[o] \cap keys'[p] = {}
    BY <2>3 DEF OwnInv
  <2>5. ASSUME NEW u \in Threads \ {t}, Owning(u)
        PROVE  call[u].key # call[t].key
    BY <2>1, <2>5 DEF OwnInv
  <2>6. ASSUME NEW u \in Threads, Owning(u)'
        PROVE  /\ \A o \in Objs : call'[u].key \notin keys'[o]
               /\ \A v \in Threads \ {u} : Owning(v)' => call'[v].key # call'[u].key
    <3>1. CASE u = t
      BY <2>1, <2>2, <2>3, <2>5, <3>1
    <3>2. CASE u # t
      BY <2>1, <2>2, <2>3, <2>5, <2>6, <3>2 DEF OwnInv
    <3> QED BY <3>1, <3>2
  <2> QED BY <2>4, <2>6 DEF OwnInv
<1>17. ASSUME NEW t \in Threads, KeyUnknown(t)
      PROVE  OwnInv'
  BY <1>17, OwnFrame DEF KeyUnknown, Return, Owning, Acquiring
<1>18. ASSUME NEW t \in Threads, ReleaseToken(t)
      PROVE  OwnInv'
  BY <1>18, OwnFrame DEF ReleaseToken, Return, Owning, Acquiring
<1>19. ASSUME NEW t \in Threads, HandOver(t)
      PROVE  OwnInv'
  <2> DEFINE h == waiters[obj[t]][1]
  <2>1. h = Head(waiters[obj[t]]) /\ h \in Threads /\ pc[h] = "waiting" /\ h # t
    BY <1>19, HeadWaits DEF HandOver
  <2>2. /\ pc' = [pc EXCEPT ![h] = "woken", ![t] = "idle"]
        /\ call' = [call EXCEPT ![t] = NoCall] /\ keys' = keys
    BY <1>19, <2>1 DEF HandOver
  <2> HIDE DEF h
  <2> QED BY <2>1, <2>2, OwnFrame DEF Owning, Acquiring
<1>20. ASSUME NEW o \in Objs, Age(o)
      PROVE  OwnInv'
  BY <1>20, OwnFrame DEF Age, Owning, Acquiring
<1>21. ASSUME NEW n \in Names, Collect(n)
      PROVE  OwnInv'
  BY <1>21, OwnFrame DEF Collect, Owning, Acquiring
<1>22. CASE BeginShutdown
  BY <1>22, OwnFrame DEF BeginShutdown, Owning, Acquiring
<1>23. CASE Shutdown
  BY <1>23, OwnFrame DEF Shutdown, Owning, Acquiring
<1>24. CASE UNCHANGED vars
  BY <1>24, OwnFrame DEF vars, Owning, Acquiring
<1> QED
  BY <1>1, <1>2, <1>3, <1>4, <1>5, <1>6, <1>7, <1>8, <1>9, <1>10, <1>11, <1>12, <1>13, <1>14, <1>15, <1>16, <1>17, <1>18, <1>19, <1>20, <1>21, <1>22, <1>23, <1>24
     DEF Next, Step, Refuse

\* Every step keeps the sizes of the map.
LEMMA SizeStep ==
  ASSUME IndInv, SizeInv, [Next]_vars
  PROVE  SizeInv'
<1> USE DEF IndInv, TypeOK, objVars, semVars, threadVars
<1>1. ASSUME NEW t \in Threads, GetCreates(t) PROVE SizeInv'
  <2>1. /\ call[t] \in Calls /\ call[t].op # "Unlock" /\ call[t].name \in Names
    BY <1>1, CallFacts DEF GetCreates, CallInv
  <2>2. call[t].size \in Sizes
    BY <2>1 DEF Calls
  <2>3. PICK o \in Objs :
          /\ Unused(o) /\ lockOf' = [lockOf EXCEPT ![call[t].name] = o]
          /\ size' = [size EXCEPT ![o] = call[t].size]
    BY <1>1 DEF GetCreates
  <2> QED
    BY <2>1, <2>2, <2>3 DEF SizeInv, Unused
<1>2. ASSUME NEW n \in Names, Collect(n) PROVE SizeInv'
  BY <1>2 DEF Collect, SizeInv
<1>3. CASE Shutdown
  BY <1>3 DEF Shutdown, SizeInv
<1>4. ASSUME UNCHANGED <<lockOf, size>> PROVE SizeInv'
  BY <1>4 DEF SizeInv
<1>5. ASSUME NEW t \in Threads, Step(t) PROVE SizeInv'
  BY <1>1, <1>4, <1>5
     DEF Step, GetFails, GetFinds, CheckPasses, CheckPanics, Acquire, AcquireFails, Enqueue,
         CancelWait, WakeUp, GiveBack, AddKey, UnlockCheck, RemoveKey, KeyUnknown,
         ReleaseToken, HandOver
<1>6. ASSUME NEW t \in Threads, CtxDone(t) \/ Refuse(t) \/ \E c \in Calls : Enter(t, c)
      PROVE  SizeInv'
  BY <1>4, <1>6 DEF vars, Enter, Refuse, CtxDone
<1>7. CASE (\E o \in Objs : Age(o)) \/ BeginShutdown \/ UNCHANGED vars
  BY <1>4, <1>7 DEF vars, Age, BeginShutdown
<1> QED
  BY <1>2, <1>3, <1>5, <1>6, <1>7 DEF Next

-----------------------------------------------------------------------------
(* The tokens of an object are counted by its semaphore.                   *)

RInv == IndInv /\ OwnInv /\ SizeInv

\* The keys in hand are as many as the calls in hand, and none is listed.
LEMMA TokenCount ==
  ASSUME RInv, NEW o \in Objs
  PROVE  /\ IsFiniteSet(Tokens(o)) /\ Cardinality(Tokens(o)) = cur[o]
         /\ cur[o] \in Nat /\ size[o] \in Nat /\ cur[o] <= size[o]
<1> DEFINE S == InHand(o)
           T == {call[t].key : t \in InHand(o)}
           f == [t \in S |-> call[t].key]
<1>1. \A t \in S : t \in Threads /\ Owning(t)
  BY DEF InHand, Holding, Owning, Acquiring, RInv, IndInv, CallInv
<1>2. \A t, u \in S : f[t] = f[u] => t = u
  BY <1>1 DEF RInv, OwnInv
<1>3. f \in [S -> T] /\ \A k \in T : \E t \in S : f[t] = k
  OBVIOUS
<1>4. f \in Bijection(S, T)
  <2>1. DOMAIN f = S
    OBVIOUS
  <2> HIDE DEF f, S, T
  <2> QED BY <2>1, <1>2, <1>3 DEF Bijection, Injection, Surjection, IsInjective
<1>5. ExistsBijection(S, T)
  <2> HIDE DEF f, S, T
  <2> QED BY <1>4 DEF ExistsBijection
<1>6. IsFiniteSet(S) /\ Cardinality(S) \in Nat
  BY HandFacts
<1>7. IsFiniteSet(T) /\ Cardinality(T) = Cardinality(S)
  <2> HIDE DEF S, T
  <2> QED BY <1>5, <1>6, FS_Bijection
<1>8. keys[o] \cap T = {}
  BY <1>1 DEF RInv, OwnInv
<1>9. TokenOK(o) /\ cur[o] \in Int /\ size[o] \in Nat
  BY DEF RInv, IndInv, TokenInv, TypeOK
<1>10. IsFiniteSet(keys[o]) /\ Cardinality(keys[o]) \in Nat
  BY <1>9, FS_CardinalityType DEF TokenOK
<1>11. /\ IsFiniteSet(keys[o] \cup T)
       /\ Cardinality(keys[o] \cup T) = Cardinality(keys[o]) + Cardinality(T) - Cardinality({})
  <2> HIDE DEF T
  <2> QED BY <1>7, <1>8, <1>10, FS_Union
<1>12. Cardinality({}) = 0
  BY FS_EmptySet
<1>13. Tokens(o) = keys[o] \cup T
  BY DEF Tokens
<1> QED
  BY <1>6, <1>7, <1>9, <1>10, <1>11, <1>12, <1>13 DEF TokenOK

\* The place of a call that has a lock object.
LEMMA Place ==
  ASSUME RInv, MinIdleCoversCalls, NEW t \in Threads, pc[t] \in Running \cup {"waiting"}
  PROVE  /\ obj[t] \in Objs /\ call[t].name \in Names /\ call[t].key \in Keys
         /\ lockOf[call[t].name] = obj[t] /\ obj[t] # NoObj
         /\ size[obj[t]] \in Sizes /\ size[obj[t]] > 0
         /\ \A m \in Names \ {call[t].name} : lockOf[m] # obj[t]
<1>1. obj[t] \in Objs /\ call[t] \in Calls /\ lockOf[call[t].name] = obj[t]
  BY DEF RInv, IndInv, CallInv, UseInv, Running
<1>2. call[t].name \in Names /\ call[t].key \in Keys
  BY <1>1, CallFacts
<1>3. \A m \in Names \ {call[t].name} : lockOf[m] # obj[t]
  BY <1>1, <1>2 DEF RInv, IndInv, MapInv
<1> QED
  BY <1>1, <1>2, <1>3 DEF RInv, IndInv, MapInv, SizeInv

-----------------------------------------------------------------------------
(* The abstract state, name by name.                                       *)

\* What stands for held, cap and queue of LockService.
AHeld  == [n \in Names |-> UNION {Tokens(o) : o \in {p \in Objs : nameOf[p] = n}}]
ACap   == [n \in Names |-> IF lockOf[n] = NoObj \/ cur[lockOf[n]] = 0
                              THEN 0 ELSE size[lockOf[n]]]
AQueue == [n \in Names |-> IF lockOf[n] = NoObj THEN << >>
              ELSE [i \in DOMAIN waiters[lockOf[n]] |->
                      call[waiters[lockOf[n]][i]].key]]

\* The same, looked up in the map.
MHeld(n)  == IF lockOf[n] = NoObj THEN {} ELSE Tokens(lockOf[n])
MCap(n)   == IF lockOf[n] = NoObj \/ cur[lockOf[n]] = 0 THEN 0 ELSE size[lockOf[n]]
QKeys(o)  == [i \in DOMAIN waiters[o] |-> call[waiters[o][i]].key]
MQueue(n) == IF lockOf[n] = NoObj THEN << >> ELSE QKeys(lockOf[n])

\* Whoever holds a name holds it on the object that the name maps to.
LEMMA Abstraction ==
  RInv /\ MinIdleCoversCalls =>
    /\ AHeld  = [n \in Names |-> MHeld(n)]
    /\ ACap   = [n \in Names |-> MCap(n)]
    /\ AQueue = [n \in Names |-> MQueue(n)]
<1> SUFFICES ASSUME RInv, MinIdleCoversCalls
             PROVE  AHeld = [n \in Names |-> MHeld(n)]
  BY DEF ACap, AQueue, MCap, MQueue, QKeys
<1>1. ASSUME NEW o \in Objs, NEW k \in Tokens(o) PROVE lockOf[nameOf[o]] = o
  <2>1. CASE k \in keys[o]
    BY <2>1 DEF RInv, IndInv, UseInv
  <2>2. CASE k \notin keys[o]
    <3>1. PICK t \in InHand(o) : k = call[t].key
      BY <2>2 DEF Tokens
    <3>2. t \in Threads /\ obj[t] = o /\ pc[t] \in Running
      BY DEF InHand, Holding, Running
    <3>3. lockOf[call[t].name] = o /\ call[t].name \in Names /\ o # NoObj
      BY <3>2, Place
    <3> QED
      BY <3>3 DEF RInv, IndInv, MapInv
  <2> QED BY <2>1, <2>2
<1>2. ASSUME NEW n \in Names
      PROVE  UNION {Tokens(o) : o \in {p \in Objs : nameOf[p] = n}} = MHeld(n)
  <2>1. lockOf[n] # NoObj => lockOf[n] \in Objs /\ nameOf[lockOf[n]] = n
    BY DEF RInv, IndInv, TypeOK, MapInv
  <2>2. ASSUME NEW o \in Objs, nameOf[o] = n, NEW k \in Tokens(o) PROVE k \in MHeld(n)
    BY <1>1, <2>2 DEF MHeld
  <2>3. ASSUME NEW k \in MHeld(n)
        PROVE  \E o \in {p \in Objs : nameOf[p] = n} : k \in Tokens(o)
    BY <2>1, <2>3 DEF MHeld
  <2> QED BY <2>2, <2>3
<1> QED BY <1>2 DEF AHeld

\* Abstraction, of the next state.
LEMMA AbstractionNext ==
  MinIdleCoversCalls /\ RInv' =>
    /\ AHeld'  = [n \in Names |-> MHeld(n)']
    /\ ACap'   = [n \in Names |-> MCap(n)']
    /\ AQueue' = [n \in Names |-> MQueue(n)']
<1>1. (RInv /\ MinIdleCoversCalls =>
        /\ AHeld  = [n \in Names |-> MHeld(n)]
        /\ ACap   = [n \in Names |-> MCap(n)]
        /\ AQueue = [n \in Names |-> MQueue(n)])'
  BY Abstraction, PTL
<1> QED BY <1>1

\* The queue of keys has the shape of the queue of calls.
LEMMA QKeysLemma ==
  ASSUME RInv, NEW o \in Objs
  PROVE  /\ waiters[o] \in Seq(Threads) /\ QKeys(o) \in Seq(Keys)
         /\ Len(QKeys(o)) = Len(waiters[o])
         /\ \A i \in 1..Len(waiters[o]) : QKeys(o)[i] = call[waiters[o][i]].key
         /\ QKeys(o) = << >> <=> waiters[o] = << >>
<1>1. waiters[o] \in Seq(Threads)
  BY DEF RInv, IndInv, TypeOK
<1>2. \A i \in 1..Len(waiters[o]) : call[waiters[o][i]].key \in Keys
  <2> TAKE i \in 1..Len(waiters[o])
  <2>1. waiters[o][i] \in Threads /\ pc[waiters[o][i]] = "waiting"
    BY <1>1 DEF RInv, IndInv, QueueInv
  <2>2. call[waiters[o][i]] \in Calls
    BY <2>1 DEF RInv, IndInv, CallInv
  <2> QED BY <2>2, CallFacts
<1>3. QKeys(o) = [i \in 1..Len(waiters[o]) |-> call[waiters[o][i]].key] /\ Len(waiters[o]) \in Nat
  BY <1>1 DEF QKeys
<1>4. QKeys(o) \in Seq(Keys) /\ Len(QKeys(o)) = Len(waiters[o])
  BY <1>2, <1>3
<1>5. QKeys(o) = << >> <=> waiters[o] = << >>
  BY <1>1, <1>4
<1> QED BY <1>1, <1>3, <1>4, <1>5

\* QKeysLemma as a formula.
LEMMA QKeysFact ==
  RInv => \A o \in Objs :
         /\ waiters[o] \in Seq(Threads) /\ QKeys(o) \in Seq(Keys)
         /\ Len(QKeys(o)) = Len(waiters[o])
         /\ \A i \in 1..Len(waiters[o]) : QKeys(o)[i] = call[waiters[o][i]].key
         /\ QKeys(o) = << >> <=> waiters[o] = << >>
BY QKeysLemma

\* The fact of the next state.
LEMMA QKeysNext ==
  (RInv => \A o \in Objs :
         /\ waiters[o] \in Seq(Threads) /\ QKeys(o) \in Seq(Keys)
         /\ Len(QKeys(o)) = Len(waiters[o])
         /\ \A i \in 1..Len(waiters[o]) : QKeys(o)[i] = call[waiters[o][i]].key
         /\ QKeys(o) = << >> <=> waiters[o] = << >>)'
BY QKeysFact, PTL

\* Nothing that concerns the name m happens.
LEMMA NameFrame ==
  ASSUME RInv, NEW m \in Names, lockOf'[m] = lockOf[m],
         lockOf[m] # NoObj =>
           LET o == lockOf[m] IN
           /\ keys'[o] = keys[o] /\ cur'[o] = cur[o] /\ size'[o] = size[o]
           /\ waiters'[o] = waiters[o]
           /\ \A u \in Threads :
                /\ pc'[u] \in Holding /\ obj'[u] = o <=> pc[u] \in Holding /\ obj[u] = o
                /\ pc[u] \in Holding \cup {"waiting"} /\ obj[u] = o => call'[u] = call[u]
  PROVE  MHeld(m)' = MHeld(m) /\ MCap(m)' = MCap(m) /\ MQueue(m)' = MQueue(m)
<1>1. CASE lockOf[m] = NoObj
  BY <1>1 DEF MHeld, MCap, MQueue
<1>2. CASE lockOf[m] # NoObj
  <2> DEFINE o == lockOf[m]
  <2>1. o \in Objs
    BY <1>2 DEF RInv, IndInv, TypeOK
  <2>2. InHand(o)' = InHand(o) /\ \A u \in InHand(o) : call'[u] = call[u]
    BY <1>2 DEF InHand
  <2>3. Tokens(o)' = Tokens(o)
    BY <1>2, <2>2 DEF Tokens
  <2>4. waiters[o] \in Seq(Threads) /\ DOMAIN waiters[o] = 1..Len(waiters[o])
    BY <2>1 DEF RInv, IndInv, TypeOK
  <2>5. ASSUME NEW i \in DOMAIN waiters[o] PROVE call'[waiters[o][i]] = call[waiters[o][i]]
    <3>1. /\ waiters[o][i] \in Threads /\ pc[waiters[o][i]] = "waiting"
          /\ obj[waiters[o][i]] = o
      BY <2>1, <2>4, <2>5 DEF RInv, IndInv, QueueInv
    <3> QED BY <1>2, <3>1
  <2>6. QKeys(o)' = QKeys(o)
    BY <1>2, <2>5 DEF QKeys
  <2> QED
    BY <1>2, <2>3, <2>6 DEF MHeld, MCap, MQueue
<1> QED BY <1>1, <1>2

-----------------------------------------------------------------------------
(* The steps of LockService, name by name.                                 *)

\* LockService counts as FiniteSets does.
LEMMA SameCount == \A S : Abs!Cardinality(S) = Cardinality(S)
BY DEF Abs!Cardinality, Cardinality

\* Nothing of the abstract state has changed.
AbsSame == AHeld' = AHeld /\ ACap' = ACap /\ AQueue' = AQueue

\* What LockService sees of a step that it does not see.
LEMMA StutterMap ==
  ASSUME RInv, RInv', MinIdleCoversCalls,
         \A m \in Names : MHeld(m)' = MHeld(m) /\ MCap(m)' = MCap(m) /\ MQueue(m)' = MQueue(m)
  PROVE  AbsSame
BY Abstraction, AbstractionNext DEF AbsSame

\* A call gets a token at once.
LEMMA GrantMap ==
  ASSUME RInv, RInv', MinIdleCoversCalls, NEW n \in Names, NEW k \in Keys, NEW s \in Sizes,
         s > 0, MHeld(n) = {} \/ MCap(n) = s,
         MQueue(n) = << >>, Cardinality(MHeld(n)) < s,
         MHeld(n)' = MHeld(n) \cup {k}, MCap(n)' = s, MQueue(n)' = MQueue(n),
         \A m \in Names \ {n} :
           MHeld(m)' = MHeld(m) /\ MCap(m)' = MCap(m) /\ MQueue(m)' = MQueue(m)
  PROVE  Abs!Grant(n, k, s)
<1>1. /\ AHeld[n] = MHeld(n) /\ ACap[n] = MCap(n) /\ AQueue[n] = MQueue(n)
      /\ AHeld' = [AHeld EXCEPT ![n] = @ \cup {k}] /\ ACap' = [ACap EXCEPT ![n] = s]
      /\ AQueue' = AQueue
  BY Abstraction, AbstractionNext
<1>2. /\ s > 0 /\ (AHeld[n] = {} \/ ACap[n] = s)
      /\ AQueue[n] = << >> /\ Abs!Cardinality(AHeld[n]) < s
  BY <1>1, SameCount
<1> QED
  BY <1>1, <1>2 DEF Abs!Grant, Abs!Fits, Abs!Free, AHeld, ACap, AQueue

\* A call joins the queue.
LEMMA WaitMap ==
  ASSUME RInv, RInv', MinIdleCoversCalls, NEW n \in Names, NEW k \in Keys, NEW s \in Sizes,
         s > 0, MHeld(n) = {} \/ MCap(n) = s,
         ~(MQueue(n) = << >> /\ Cardinality(MHeld(n)) < s),
         MHeld(n)' = MHeld(n), MCap(n)' = MCap(n), MQueue(n)' = Append(MQueue(n), k),
         \A m \in Names \ {n} :
           MHeld(m)' = MHeld(m) /\ MCap(m)' = MCap(m) /\ MQueue(m)' = MQueue(m)
  PROVE  Abs!Wait(n, k, s)
<1>1. /\ AHeld[n] = MHeld(n) /\ ACap[n] = MCap(n) /\ AQueue[n] = MQueue(n)
      /\ AHeld' = AHeld /\ ACap' = ACap
      /\ AQueue' = [AQueue EXCEPT ![n] = Append(@, k)]
  BY Abstraction, AbstractionNext
<1>2. /\ s > 0 /\ (AHeld[n] = {} \/ ACap[n] = s)
      /\ ~(AQueue[n] = << >> /\ Abs!Cardinality(AHeld[n]) < s)
  BY <1>1, SameCount
<1> QED
  BY <1>1, <1>2 DEF Abs!Wait, Abs!Fits, Abs!Free, AHeld, ACap, AQueue

\* A call leaves the queue.
LEMMA AbandonMap ==
  ASSUME RInv, RInv', MinIdleCoversCalls, NEW n \in Names, NEW k \in Keys,
         NEW i \in 1..Len(MQueue(n)), MQueue(n)[i] = k,
         MHeld(n)' = MHeld(n), MCap(n)' = MCap(n), MQueue(n)' = RemoveAt(MQueue(n), i),
         \A m \in Names \ {n} :
           MHeld(m)' = MHeld(m) /\ MCap(m)' = MCap(m) /\ MQueue(m)' = MQueue(m)
  PROVE  Abs!Abandon(n, k)
<1>1. /\ AQueue[n] = MQueue(n) /\ AHeld' = AHeld /\ ACap' = ACap
      /\ AQueue' = [AQueue EXCEPT ![n] = RemoveAt(@, i)]
  BY Abstraction, AbstractionNext
<1>2. i \in 1..Len(AQueue[n]) /\ AQueue[n][i] = k
  BY <1>1
<1>3. \A s : Abs!RemoveAt(s, i) = RemoveAt(s, i)
  BY DEF Abs!RemoveAt, RemoveAt
<1> QED
  BY <1>1, <1>2, <1>3 DEF Abs!Abandon, AHeld, ACap, AQueue

\* A token is freed or handed over.
LEMMA ReleaseMap ==
  ASSUME RInv, RInv', MinIdleCoversCalls, NEW n \in Names, NEW k \in Keys,
         k \in MHeld(n),
         \/ /\ MQueue(n) = << >> /\ MQueue(n)' = MQueue(n)
            /\ MHeld(n)' = MHeld(n) \ {k}
            /\ MCap(n)' = IF MHeld(n) = {k} THEN 0 ELSE MCap(n)
         \/ /\ MQueue(n) # << >> /\ MQueue(n)' = Tail(MQueue(n))
            /\ MHeld(n)' = (MHeld(n) \ {k}) \cup {Head(MQueue(n))}
            /\ MCap(n)' = MCap(n),
         \A m \in Names \ {n} :
           MHeld(m)' = MHeld(m) /\ MCap(m)' = MCap(m) /\ MQueue(m)' = MQueue(m)
  PROVE  Abs!Release(n, k)
<1>1. /\ AHeld[n] = MHeld(n) /\ ACap[n] = MCap(n) /\ AQueue[n] = MQueue(n)
      /\ AHeld  = [m \in Names |-> MHeld(m)] /\ AHeld'  = [m \in Names |-> MHeld(m)']
      /\ ACap   = [m \in Names |-> MCap(m)] /\ ACap'   = [m \in Names |-> MCap(m)']
      /\ AQueue = [m \in Names |-> MQueue(m)] /\ AQueue' = [m \in Names |-> MQueue(m)']
  BY Abstraction, AbstractionNext
<1>2. CASE AQueue[n] = << >>
  <2>1. /\ AHeld' = [AHeld EXCEPT ![n] = @ \ {k}]
        /\ ACap' = [ACap EXCEPT ![n] = IF AHeld[n] = {k} THEN 0 ELSE @]
        /\ AQueue' = AQueue
    BY <1>1, <1>2
  <2> QED
    BY <1>1, <1>2, <2>1 DEF Abs!Release, AHeld, ACap, AQueue
<1>3. CASE AQueue[n] # << >>
  <2>1. /\ AHeld' = [AHeld EXCEPT ![n] = (@ \ {k}) \cup {Head(AQueue[n])}]
        /\ AQueue' = [AQueue EXCEPT ![n] = Tail(@)]
        /\ ACap' = ACap
    BY <1>1, <1>3
  <2> QED
    BY <1>1, <1>3, <2>1 DEF Abs!Release, AHeld, ACap, AQueue
<1> QED BY <1>2, <1>3

-----------------------------------------------------------------------------
(* Steps that LockService does not see.                                    *)

\* No token changes hands and no queue changes.
UnseenStep ==
  /\ UNCHANGED <<lockOf, size, cur, waiters, keys>>
  /\ \A u \in Threads :
       /\ pc'[u] \in Holding <=> pc[u] \in Holding
       /\ pc[u] \in Holding \cup {"waiting"} => obj'[u] = obj[u] /\ call'[u] = call[u]

\* They leave the abstract state alone.
LEMMA UnseenMap ==
  ASSUME RInv, RInv', MinIdleCoversCalls, UnseenStep
  PROVE  AbsSame
<1>1. ASSUME NEW m \in Names
      PROVE  MHeld(m)' = MHeld(m) /\ MCap(m)' = MCap(m) /\ MQueue(m)' = MQueue(m)
  <2>1. \A o \in Objs : \A u \in Threads :
          /\ pc'[u] \in Holding /\ obj'[u] = o <=> pc[u] \in Holding /\ obj[u] = o
          /\ pc[u] \in Holding \cup {"waiting"} /\ obj[u] = o => call'[u] = call[u]
    BY DEF UnseenStep
  <2>2. lockOf[m] # NoObj => lockOf[m] \in Objs
    BY DEF RInv, IndInv, TypeOK
  <2> QED
    BY <2>1, <2>2, NameFrame DEF UnseenStep
<1> QED BY <1>1, StutterMap

\* Look-ups, checks, refusals, cancellations, time.
LEMMA UnseenKinds ==
  ASSUME RInv, NEW t \in Threads,
         \/ \E c \in Calls : Enter(t, c)
         \/ Refuse(t) \/ CtxDone(t) \/ GetFails(t) \/ GetFinds(t) \/ CheckPasses(t)
         \/ CheckPanics(t) \/ AcquireFails(t) \/ WakeUp(t) \/ GiveBack(t)
         \/ UnlockCheck(t) \/ KeyUnknown(t)
  PROVE  UnseenStep
<1> USE DEF RInv, IndInv, TypeOK, objVars, semVars, threadVars, Holding
<1>1. ASSUME NEW c \in Calls, Enter(t, c) PROVE UnseenStep
  BY <1>1 DEF Enter, UnseenStep
<1>2. CASE Refuse(t)
  BY <1>2 DEF Refuse, vars, UnseenStep
<1>3. CASE CtxDone(t)
  BY <1>3 DEF CtxDone, UnseenStep
<1>4. CASE GetFails(t)
  BY <1>4 DEF GetFails, Return, UnseenStep
<1>5. CASE GetFinds(t)
  <2>1. /\ pc[t] = "get" /\ pc'[t] \in {"check", "unlockCheck"} /\ call' = call
        /\ \A u \in Threads \ {t} : pc'[u] = pc[u] /\ obj'[u] = obj[u]
        /\ UNCHANGED <<lockOf, size, cur, waiters, keys>>
    BY <1>5 DEF GetFinds
  <2> QED BY <2>1 DEF UnseenStep
<1>6. CASE CheckPasses(t)
  BY <1>6 DEF CheckPasses, UnseenStep
<1>7. CASE CheckPanics(t)
  BY <1>7 DEF CheckPanics, UnseenStep
<1>8. CASE AcquireFails(t)
  BY <1>8 DEF AcquireFails, Return, UnseenStep
<1>9. CASE WakeUp(t)
  BY <1>9 DEF WakeUp, UnseenStep
<1>10. CASE GiveBack(t)
  BY <1>10 DEF GiveBack, UnseenStep
<1>11. CASE UnlockCheck(t)
  <2>1. /\ pc[t] = "unlockCheck" /\ pc'[t] \in {"idle", "removeKey"}
        /\ \A u \in Threads \ {t} : pc'[u] = pc[u] /\ obj'[u] = obj[u] /\ call'[u] = call[u]
        /\ UNCHANGED <<lockOf, size, cur, waiters, keys>>
    BY <1>11 DEF UnlockCheck, Return
  <2> QED BY <2>1 DEF UnseenStep
<1>12. CASE KeyUnknown(t)
  BY <1>12 DEF KeyUnknown, Return, UnseenStep
<1> QED
  BY <1>1, <1>2, <1>3, <1>4, <1>5, <1>6, <1>7, <1>8, <1>9, <1>10, <1>11, <1>12

-----------------------------------------------------------------------------
(* Steps of a call on its object.                                          *)

\* A step on the object of the name n does not concern the others.
LEMMA OtherNames ==
  ASSUME RInv, NEW n \in Names, NEW o \in Objs, lockOf' = lockOf, size' = size,
         \A m \in Names \ {n} : lockOf[m] # o,
         \A p \in Objs \ {o} : keys'[p] = keys[p] /\ cur'[p] = cur[p] /\ waiters'[p] = waiters[p],
         \A u \in Threads :
           \/ obj[u] = o /\ obj'[u] \in {o, NoObj}
           \/ pc'[u] = pc[u] /\ obj'[u] = obj[u] /\ call'[u] = call[u]
  PROVE  \A m \in Names \ {n} :
           MHeld(m)' = MHeld(m) /\ MCap(m)' = MCap(m) /\ MQueue(m)' = MQueue(m)
<1> TAKE m \in Names \ {n}
<1>1. lockOf[m] # NoObj => lockOf[m] \in Objs \ {o}
  BY DEF RInv, IndInv, TypeOK
<1>2. \A p \in Objs \ {o} : \A u \in Threads :
        /\ pc'[u] \in Holding /\ obj'[u] = p <=> pc[u] \in Holding /\ obj[u] = p
        /\ pc[u] \in Holding \cup {"waiting"} /\ obj[u] = p => call'[u] = call[u]
  OBVIOUS
<1> QED BY <1>1, <1>2, NameFrame

\* The state of a name with an object.
LEMMA Looked ==
  ASSUME RInv, NEW n \in Names, NEW o \in Objs, lockOf[n] = o
  PROVE  /\ MHeld(n) = Tokens(o) /\ MQueue(n) = QKeys(o)
         /\ MCap(n) = IF cur[o] = 0 THEN 0 ELSE size[o]
         /\ Tokens(o) = {} <=> cur[o] = 0
         /\ Cardinality(MHeld(n)) = cur[o] /\ cur[o] \in Nat /\ cur[o] <= size[o]
<1>1. o # NoObj
  OBVIOUS
<1>2. IsFiniteSet(Tokens(o)) /\ Cardinality(Tokens(o)) = cur[o] /\ cur[o] \in Nat /\ cur[o] <= size[o]
  BY TokenCount
<1>3. Tokens(o) = {} <=> cur[o] = 0
  BY <1>2, FS_EmptySet
<1> QED BY <1>1, <1>2, <1>3 DEF MHeld, MQueue, MCap

\* The same as a formula.
LEMMA LookedFact ==
  RInv => \A n \in Names, o \in Objs : lockOf[n] = o =>
            /\ MHeld(n) = Tokens(o) /\ MQueue(n) = QKeys(o)
            /\ MCap(n) = IF cur[o] = 0 THEN 0 ELSE size[o]
            /\ Tokens(o) = {} <=> cur[o] = 0
            /\ Cardinality(MHeld(n)) = cur[o] /\ cur[o] \in Nat /\ cur[o] <= size[o]
BY Looked

\* And of the next state.
LEMMA LookedNext ==
  (RInv => \A n \in Names, o \in Objs : lockOf[n] = o =>
             /\ MHeld(n) = Tokens(o) /\ MQueue(n) = QKeys(o)
             /\ MCap(n) = IF cur[o] = 0 THEN 0 ELSE size[o]
             /\ Tokens(o) = {} <=> cur[o] = 0
             /\ Cardinality(MHeld(n)) = cur[o] /\ cur[o] \in Nat /\ cur[o] <= size[o])'
BY LookedFact, PTL

\* Acquire grants a slot.
LEMMA AcquireMap ==
  ASSUME RInv, RInv', MinIdleCoversCalls, NEW t \in Threads, Acquire(t)
  PROVE  \E n \in Names, k \in Keys, s \in Sizes : Abs!Grant(n, k, s)
<1>1. PICK o \in Objs, n \in Names, k \in Keys, s \in Sizes :
        /\ o = obj[t] /\ n = call[t].name /\ k = call[t].key /\ lockOf[n] = o
        /\ s = size[o] /\ s > 0 /\ \A m \in Names \ {n} : lockOf[m] # o
  BY Place DEF Acquire, Running
<1>2. /\ pc[t] = "acquire" /\ TokenFree(o)
      /\ cur' = [cur EXCEPT ![o] = @ + 1] /\ pc' = [pc EXCEPT ![t] = "addKey"]
      /\ UNCHANGED <<lockOf, size, waiters, keys, call, obj>>
      /\ pc \in [Threads -> PCs] /\ cur \in [Objs -> Int]
  BY <1>1 DEF Acquire, objVars, RInv, IndInv, TypeOK
<1>3. \A m \in Names \ {n} : MHeld(m)' = MHeld(m) /\ MCap(m)' = MCap(m) /\ MQueue(m)' = MQueue(m)
  <2>1. \A u \in Threads : \/ obj[u] = o /\ obj'[u] \in {o, NoObj}
                           \/ pc'[u] = pc[u] /\ obj'[u] = obj[u] /\ call'[u] = call[u]
    BY <1>1, <1>2
  <2>2. \A p \in Objs \ {o} : keys'[p] = keys[p] /\ cur'[p] = cur[p] /\ waiters'[p] = waiters[p]
    BY <1>2
  <2> QED BY <1>1, <1>2, <2>1, <2>2, OtherNames
<1>4. InHand(o)' = InHand(o) \cup {t}
  BY <1>1, <1>2 DEF InHand, Holding
<1>5. Tokens(o)' = Tokens(o) \cup {k}
  BY <1>1, <1>2, <1>4 DEF Tokens
<1>6. QKeys(o)' = QKeys(o)
  BY <1>2 DEF QKeys
<1>7. /\ MHeld(n) = Tokens(o) /\ MQueue(n) = QKeys(o)
      /\ MCap(n) = IF cur[o] = 0 THEN 0 ELSE size[o]
      /\ Tokens(o) = {} <=> cur[o] = 0
      /\ Cardinality(MHeld(n)) = cur[o] /\ cur[o] \in Nat
  BY <1>1, LookedFact
<1>8. /\ MHeld(n)' = Tokens(o)' /\ MQueue(n)' = QKeys(o)'
      /\ MCap(n)' = IF cur'[o] = 0 THEN 0 ELSE size'[o]
  BY <1>1, <1>2, LookedNext
<1>9. cur'[o] = cur[o] + 1 /\ cur'[o] # 0 /\ cur[o] < size[o] /\ QKeys(o) = << >>
  BY <1>1, <1>2, <1>7, QKeysFact DEF TokenFree
<1>10. Abs!Grant(n, k, s)
  BY <1>1, <1>2, <1>3, <1>5, <1>6, <1>7, <1>8, <1>9, GrantMap
<1> QED BY <1>10

\* Enqueue queues.
LEMMA EnqueueMap ==
  ASSUME RInv, RInv', MinIdleCoversCalls, NEW t \in Threads, Enqueue(t)
  PROVE  \E n \in Names, k \in Keys, s \in Sizes : Abs!Wait(n, k, s)
<1>1. PICK o \in Objs, n \in Names, k \in Keys, s \in Sizes :
        /\ o = obj[t] /\ n = call[t].name /\ k = call[t].key /\ lockOf[n] = o
        /\ s = size[o] /\ s > 0 /\ \A m \in Names \ {n} : lockOf[m] # o
  BY Place DEF Enqueue, Running
<1>2. /\ pc[t] = "acquire" /\ ~TokenFree(o)
      /\ waiters' = [waiters EXCEPT ![o] = Append(@, t)] /\ pc' = [pc EXCEPT ![t] = "waiting"]
      /\ UNCHANGED <<lockOf, size, cur, keys, call, obj>>
      /\ pc \in [Threads -> PCs] /\ waiters \in [Objs -> Seq(Threads)]
  BY <1>1 DEF Enqueue, objVars, RInv, IndInv, TypeOK
<1>3. \A m \in Names \ {n} : MHeld(m)' = MHeld(m) /\ MCap(m)' = MCap(m) /\ MQueue(m)' = MQueue(m)
  <2>1. \A u \in Threads : \/ obj[u] = o /\ obj'[u] \in {o, NoObj}
                           \/ pc'[u] = pc[u] /\ obj'[u] = obj[u] /\ call'[u] = call[u]
    BY <1>1, <1>2
  <2>2. \A p \in Objs \ {o} : keys'[p] = keys[p] /\ cur'[p] = cur[p] /\ waiters'[p] = waiters[p]
    BY <1>2
  <2> QED BY <1>1, <1>2, <2>1, <2>2, OtherNames
<1>4. InHand(o)' = InHand(o)
  BY <1>1, <1>2 DEF InHand, Holding
<1>5. Tokens(o)' = Tokens(o)
  BY <1>1, <1>2, <1>4 DEF Tokens
<1>6. QKeys(o)' = Append(QKeys(o), k)
  <2>1. /\ waiters[o] \in Seq(Threads) /\ QKeys(o) \in Seq(Keys)
        /\ Len(QKeys(o)) = Len(waiters[o])
        /\ \A i \in 1..Len(waiters[o]) : QKeys(o)[i] = call[waiters[o][i]].key
    BY <1>1, QKeysFact
  <2>2. /\ QKeys(o)' \in Seq(Keys) /\ Len(QKeys(o)') = Len(waiters'[o])
        /\ \A i \in 1..Len(waiters'[o]) : QKeys(o)'[i] = call'[waiters'[o][i]].key
    BY <1>1, QKeysNext
  <2>3. waiters'[o] = Append(waiters[o], t) /\ call' = call
    BY <1>1, <1>2
  <2>4. /\ Len(waiters[o]) \in Nat /\ Len(waiters'[o]) = Len(waiters[o]) + 1
        /\ \A i \in 1..(Len(waiters[o]) + 1) :
             waiters'[o][i] = IF i \in 1..Len(waiters[o]) THEN waiters[o][i] ELSE t
    BY <2>1, <2>3, AppendLemma
  <2>5. /\ Append(QKeys(o), k) \in Seq(Keys) /\ Len(Append(QKeys(o), k)) = Len(waiters[o]) + 1
        /\ \A i \in 1..(Len(waiters[o]) + 1) :
             Append(QKeys(o), k)[i] = IF i \in 1..Len(waiters[o]) THEN QKeys(o)[i] ELSE k
    BY <1>1, <2>1, AppendLemma
  <2>6. \A i \in 1..Len(QKeys(o)') : QKeys(o)'[i] = Append(QKeys(o), k)[i]
    BY <1>1, <2>1, <2>2, <2>3, <2>4, <2>5
  <2> QED BY <2>2, <2>4, <2>5, <2>6, SeqEqual
<1>7. /\ MHeld(n) = Tokens(o) /\ MQueue(n) = QKeys(o)
      /\ MCap(n) = IF cur[o] = 0 THEN 0 ELSE size[o]
      /\ Tokens(o) = {} <=> cur[o] = 0
      /\ Cardinality(MHeld(n)) = cur[o] /\ cur[o] \in Nat /\ cur[o] <= size[o]
  BY <1>1, LookedFact
<1>8. /\ MHeld(n)' = Tokens(o)' /\ MQueue(n)' = QKeys(o)'
      /\ MCap(n)' = IF cur'[o] = 0 THEN 0 ELSE size'[o]
  BY <1>1, <1>2, LookedNext
<1>9. ~(QKeys(o) = << >> /\ cur[o] < size[o])
  BY <1>1, <1>2, QKeysFact DEF TokenFree
<1>10. Abs!Wait(n, k, s)
  BY <1>1, <1>2, <1>3, <1>5, <1>6, <1>7, <1>8, <1>9, WaitMap
<1> QED BY <1>10

\* A cancelled waiter leaves the queue.
LEMMA CancelWaitMap ==
  ASSUME RInv, RInv', MinIdleCoversCalls, NEW t \in Threads, CancelWait(t)
  PROVE  \E n \in Names, k \in Keys : Abs!Abandon(n, k)
<1>1. PICK o \in Objs, n \in Names, k \in Keys :
        /\ o = obj[t] /\ n = call[t].name /\ k = call[t].key /\ lockOf[n] = o
        /\ \A m \in Names \ {n} : lockOf[m] # o
  BY Place DEF CancelWait
<1>2. /\ pc[t] = "waiting"
      /\ pc' = [pc EXCEPT ![t] = "idle"] /\ call' = [call EXCEPT ![t] = NoCall]
      /\ obj' = [obj EXCEPT ![t] = NoObj]
      /\ UNCHANGED <<lockOf, size, cur, keys>>
      /\ pc \in [Threads -> PCs] /\ waiters \in [Objs -> Seq(Threads)]
      /\ call \in [Threads -> Calls \cup {NoCall}] /\ obj \in [Threads -> Objs \cup {NoObj}]
  BY <1>1 DEF CancelWait, Return, objVars, RInv, IndInv, TypeOK
<1>3. PICK i \in 1..Len(waiters[o]) :
        waiters[o][i] = t /\ waiters' = [waiters EXCEPT ![o] = RemoveAt(@, i)]
  BY <1>1 DEF CancelWait
<1>4. \A m \in Names \ {n} : MHeld(m)' = MHeld(m) /\ MCap(m)' = MCap(m) /\ MQueue(m)' = MQueue(m)
  <2>1. \A u \in Threads : \/ obj[u] = o /\ obj'[u] \in {o, NoObj}
                           \/ pc'[u] = pc[u] /\ obj'[u] = obj[u] /\ call'[u] = call[u]
    BY <1>1, <1>2
  <2>2. \A p \in Objs \ {o} : keys'[p] = keys[p] /\ cur'[p] = cur[p] /\ waiters'[p] = waiters[p]
    BY <1>1, <1>2, <1>3
  <2> QED BY <1>1, <1>2, <2>1, <2>2, OtherNames
<1>5. InHand(o)' = InHand(o) /\ t \notin InHand(o)
  BY <1>1, <1>2 DEF InHand, Holding
<1>6. Tokens(o)' = Tokens(o)
  <2>1. \A u \in InHand(o) : call'[u] = call[u]
    BY <1>2, <1>5 DEF InHand
  <2> QED BY <1>2, <1>5, <2>1 DEF Tokens
<1>7. QKeys(o)' = RemoveAt(QKeys(o), i) /\ i \in 1..Len(QKeys(o)) /\ QKeys(o)[i] = k
  <2>1. /\ waiters[o] \in Seq(Threads) /\ QKeys(o) \in Seq(Keys)
        /\ Len(QKeys(o)) = Len(waiters[o]) /\ Len(waiters[o]) \in Nat
        /\ \A j \in 1..Len(waiters[o]) : QKeys(o)[j] = call[waiters[o][j]].key
    BY <1>1, <1>2, QKeysFact
  <2>2. /\ QKeys(o)' \in Seq(Keys) /\ Len(QKeys(o)') = Len(waiters'[o])
        /\ \A j \in 1..Len(waiters'[o]) : QKeys(o)'[j] = call'[waiters'[o][j]].key
    BY <1>1, QKeysNext
  <2>3. /\ Len(waiters'[o]) = Len(waiters[o]) - 1
        /\ \A j \in 1..(Len(waiters[o]) - 1) :
             waiters'[o][j] = IF j < i THEN waiters[o][j] ELSE waiters[o][j + 1]
    BY <1>2, <1>3, <2>1, RemoveAtLemma
  <2>4. /\ RemoveAt(QKeys(o), i) \in Seq(Keys) /\ Len(RemoveAt(QKeys(o), i)) = Len(waiters[o]) - 1
        /\ \A j \in 1..(Len(waiters[o]) - 1) :
             RemoveAt(QKeys(o), i)[j] = IF j < i THEN QKeys(o)[j] ELSE QKeys(o)[j + 1]
    BY <2>1, RemoveAtLemma
  <2>5. \A j \in 1..Len(waiters[o]) : waiters[o][j] \in Threads /\ (waiters[o][j] = t => j = i)
    BY <1>1, <1>3, <2>1 DEF RInv, IndInv, QueueInv
  <2>6. ASSUME NEW j \in 1..Len(QKeys(o)') PROVE QKeys(o)'[j] = RemoveAt(QKeys(o), i)[j]
    <3>1. j \in Nat /\ j \in 1..(Len(waiters[o]) - 1) /\ j + 1 \in 1..Len(waiters[o])
          /\ j \in 1..Len(waiters[o])
      BY <2>1, <2>2, <2>3, <2>6
    <3>2. waiters'[o][j] \in Threads \ {t}
      BY <2>3, <2>5, <3>1
    <3>3. QKeys(o)'[j] = call[waiters'[o][j]].key
      BY <1>2, <2>2, <2>3, <3>1, <3>2
    <3>4. CASE j < i
      BY <2>1, <2>3, <2>4, <3>1, <3>3, <3>4
    <3>5. CASE ~(j < i)
      BY <2>1, <2>3, <2>4, <3>1, <3>3, <3>5
    <3> QED BY <3>4, <3>5
  <2>7. QKeys(o)' = RemoveAt(QKeys(o), i)
    BY <2>2, <2>3, <2>4, <2>6, SeqEqual
  <2> QED BY <1>1, <1>3, <2>1, <2>7
<1>8. /\ MHeld(n) = Tokens(o) /\ MQueue(n) = QKeys(o)
      /\ MCap(n) = IF cur[o] = 0 THEN 0 ELSE size[o]
  BY <1>1, LookedFact
<1>9. /\ MHeld(n)' = Tokens(o)' /\ MQueue(n)' = QKeys(o)'
      /\ MCap(n)' = IF cur'[o] = 0 THEN 0 ELSE size'[o]
  BY <1>1, <1>2, LookedNext
<1>10. Abs!Abandon(n, k)
  <2>1. i \in 1..Len(MQueue(n)) /\ MQueue(n)[i] = k
    BY <1>7, <1>8
  <2>2. MHeld(n)' = MHeld(n) /\ MCap(n)' = MCap(n) /\ MQueue(n)' = RemoveAt(MQueue(n), i)
    BY <1>2, <1>6, <1>7, <1>8, <1>9
  <2> QED BY <1>4, <2>1, <2>2, AbandonMap
<1> QED BY <1>10

\* The key is listed: it holds the lock as before.
LEMMA AddKeyMap ==
  ASSUME RInv, RInv', MinIdleCoversCalls, NEW t \in Threads, AddKey(t)
  PROVE  AbsSame
<1>1. PICK o \in Objs, n \in Names, k \in Keys :
        /\ o = obj[t] /\ n = call[t].name /\ k = call[t].key /\ lockOf[n] = o
        /\ \A m \in Names \ {n} : lockOf[m] # o
  BY Place DEF AddKey, Running
<1>2. /\ pc[t] = "addKey"
      /\ pc' = [pc EXCEPT ![t] = "idle"] /\ call' = [call EXCEPT ![t] = NoCall]
      /\ obj' = [obj EXCEPT ![t] = NoObj]
      /\ keys' = [keys EXCEPT ![o] = @ \cup {k}]
      /\ UNCHANGED <<lockOf, size, cur, waiters>>
      /\ pc \in [Threads -> PCs] /\ keys \in [Objs -> SUBSET Keys]
      /\ call \in [Threads -> Calls \cup {NoCall}] /\ obj \in [Threads -> Objs \cup {NoObj}]
  BY <1>1 DEF AddKey, Return, objVars, semVars, RInv, IndInv, TypeOK
<1>3. \A m \in Names \ {n} : MHeld(m)' = MHeld(m) /\ MCap(m)' = MCap(m) /\ MQueue(m)' = MQueue(m)
  <2>1. \A u \in Threads : \/ obj[u] = o /\ obj'[u] \in {o, NoObj}
                           \/ pc'[u] = pc[u] /\ obj'[u] = obj[u] /\ call'[u] = call[u]
    BY <1>1, <1>2
  <2>2. \A p \in Objs \ {o} : keys'[p] = keys[p] /\ cur'[p] = cur[p] /\ waiters'[p] = waiters[p]
    BY <1>1, <1>2
  <2> QED BY <1>1, <1>2, <2>1, <2>2, OtherNames
<1>4. InHand(o)' = InHand(o) \ {t} /\ t \in InHand(o)
  BY <1>1, <1>2 DEF InHand, Holding
<1>5. \A u \in InHand(o) \ {t} : call'[u] = call[u]
  BY <1>2 DEF InHand
<1>6. Tokens(o)' = Tokens(o)
  <2>1. keys'[o] = keys[o] \cup {k}
    BY <1>1, <1>2
  <2>2. {call'[u].key : u \in InHand(o)'} = {call[u].key : u \in InHand(o) \ {t}}
    BY <1>4, <1>5
  <2> QED BY <1>1, <1>4, <2>1, <2>2 DEF Tokens
<1>7. QKeys(o)' = QKeys(o)
  <2>1. waiters[o] \in Seq(Threads) /\ DOMAIN waiters[o] = 1..Len(waiters[o])
    BY DEF RInv, IndInv, TypeOK
  <2>2. \A i \in DOMAIN waiters[o] : call'[waiters[o][i]] = call[waiters[o][i]]
    BY <1>2, <2>1 DEF RInv, IndInv, QueueInv
  <2> QED BY <1>2, <2>2 DEF QKeys
<1>8. /\ MHeld(n) = Tokens(o) /\ MQueue(n) = QKeys(o)
      /\ MCap(n) = IF cur[o] = 0 THEN 0 ELSE size[o]
  BY <1>1, LookedFact
<1>9. /\ MHeld(n)' = Tokens(o)' /\ MQueue(n)' = QKeys(o)'
      /\ MCap(n)' = IF cur'[o] = 0 THEN 0 ELSE size'[o]
  BY <1>1, <1>2, LookedNext
<1>10. MHeld(n)' = MHeld(n) /\ MCap(n)' = MCap(n) /\ MQueue(n)' = MQueue(n)
  BY <1>2, <1>6, <1>7, <1>8, <1>9
<1> QED BY <1>3, <1>10, StutterMap

\* The key is off the list: it holds the lock until the token is released.
LEMMA RemoveKeyMap ==
  ASSUME RInv, RInv', MinIdleCoversCalls, NEW t \in Threads, RemoveKey(t)
  PROVE  AbsSame
<1>1. PICK o \in Objs, n \in Names, k \in Keys :
        /\ o = obj[t] /\ n = call[t].name /\ k = call[t].key /\ lockOf[n] = o
        /\ \A m \in Names \ {n} : lockOf[m] # o
  BY Place DEF RemoveKey, Running
<1>2. /\ pc[t] = "removeKey" /\ k \in keys[o]
      /\ pc' = [pc EXCEPT ![t] = "release"]
      /\ keys' = [keys EXCEPT ![o] = @ \ {k}]
      /\ UNCHANGED <<lockOf, size, cur, waiters, call, obj>>
      /\ pc \in [Threads -> PCs] /\ keys \in [Objs -> SUBSET Keys]
  BY <1>1 DEF RemoveKey, objVars, semVars, RInv, IndInv, TypeOK
<1>3. \A m \in Names \ {n} : MHeld(m)' = MHeld(m) /\ MCap(m)' = MCap(m) /\ MQueue(m)' = MQueue(m)
  <2>1. \A u \in Threads : \/ obj[u] = o /\ obj'[u] \in {o, NoObj}
                           \/ pc'[u] = pc[u] /\ obj'[u] = obj[u] /\ call'[u] = call[u]
    BY <1>1, <1>2
  <2>2. \A p \in Objs \ {o} : keys'[p] = keys[p] /\ cur'[p] = cur[p] /\ waiters'[p] = waiters[p]
    BY <1>1, <1>2
  <2> QED BY <1>1, <1>2, <2>1, <2>2, OtherNames
<1>4. InHand(o)' = InHand(o) \cup {t}
  BY <1>1, <1>2 DEF InHand, Holding
<1>5. keys'[o] = keys[o] \ {k}
  BY <1>1, <1>2
<1>6. Tokens(o)' = Tokens(o)
  BY <1>1, <1>2, <1>4, <1>5 DEF Tokens
<1>7. QKeys(o)' = QKeys(o)
  BY <1>2 DEF QKeys
<1>8. /\ MHeld(n) = Tokens(o) /\ MQueue(n) = QKeys(o)
      /\ MCap(n) = IF cur[o] = 0 THEN 0 ELSE size[o]
  BY <1>1, LookedFact
<1>9. /\ MHeld(n)' = Tokens(o)' /\ MQueue(n)' = QKeys(o)'
      /\ MCap(n)' = IF cur'[o] = 0 THEN 0 ELSE size'[o]
  BY <1>1, <1>2, LookedNext
<1>10. MHeld(n)' = MHeld(n) /\ MCap(n)' = MCap(n) /\ MQueue(n)' = MQueue(n)
  BY <1>2, <1>6, <1>7, <1>8, <1>9
<1> QED BY <1>3, <1>10, StutterMap

\* A token that nobody waits for is freed.
LEMMA ReleaseTokenMap ==
  ASSUME RInv, RInv', MinIdleCoversCalls, NEW t \in Threads, ReleaseToken(t)
  PROVE  \E n \in Names, k \in Keys : Abs!Release(n, k)
<1>1. PICK o \in Objs, n \in Names, k \in Keys :
        /\ o = obj[t] /\ n = call[t].name /\ k = call[t].key /\ lockOf[n] = o
        /\ \A m \in Names \ {n} : lockOf[m] # o
  BY Place DEF ReleaseToken, Running
<1>2. /\ pc[t] = "release" /\ waiters[o] = << >>
      /\ pc' = [pc EXCEPT ![t] = "idle"] /\ call' = [call EXCEPT ![t] = NoCall]
      /\ obj' = [obj EXCEPT ![t] = NoObj]
      /\ cur' = [cur EXCEPT ![o] = @ - 1]
      /\ UNCHANGED <<lockOf, size, keys, waiters>>
      /\ pc \in [Threads -> PCs] /\ cur \in [Objs -> Int]
      /\ call \in [Threads -> Calls \cup {NoCall}] /\ obj \in [Threads -> Objs \cup {NoObj}]
  BY <1>1 DEF ReleaseToken, Return, objVars, RInv, IndInv, TypeOK
<1>3. \A m \in Names \ {n} : MHeld(m)' = MHeld(m) /\ MCap(m)' = MCap(m) /\ MQueue(m)' = MQueue(m)
  <2>1. \A u \in Threads : \/ obj[u] = o /\ obj'[u] \in {o, NoObj}
                           \/ pc'[u] = pc[u] /\ obj'[u] = obj[u] /\ call'[u] = call[u]
    BY <1>1, <1>2
  <2>2. \A p \in Objs \ {o} : keys'[p] = keys[p] /\ cur'[p] = cur[p] /\ waiters'[p] = waiters[p]
    BY <1>1, <1>2
  <2> QED BY <1>1, <1>2, <2>1, <2>2, OtherNames
<1>4. InHand(o)' = InHand(o) \ {t} /\ t \in InHand(o)
  BY <1>1, <1>2 DEF InHand, Holding
<1>5. \A u \in InHand(o) \ {t} : call'[u] = call[u] /\ call[u].key # k
  <2>1. \A u \in InHand(o) : u \in Threads /\ Owning(u)
    BY DEF InHand, Holding, Owning, Acquiring, RInv, IndInv, CallInv
  <2> QED BY <1>1, <1>2, <1>4, <2>1 DEF RInv, OwnInv
<1>6. k \notin keys[o]
  BY <1>1, <1>2 DEF RInv, OwnInv, Owning
<1>7. Tokens(o)' = Tokens(o) \ {k} /\ k \in Tokens(o)
  <2>1. {call'[u].key : u \in InHand(o)'} = {call[u].key : u \in InHand(o)} \ {k}
    BY <1>1, <1>4, <1>5
  <2>2. /\ Tokens(o) = keys[o] \cup {call[u].key : u \in InHand(o)}
        /\ Tokens(o)' = keys'[o] \cup {call'[u].key : u \in InHand(o)'}
    BY DEF Tokens
  <2>3. k \in {call[u].key : u \in InHand(o)} /\ keys'[o] = keys[o]
    BY <1>1, <1>2, <1>4
  <2> QED BY <1>6, <2>1, <2>2, <2>3
<1>8. QKeys(o)' = << >> /\ QKeys(o) = << >>
  BY <1>1, <1>2, QKeysFact, QKeysNext
<1>9. /\ MHeld(n) = Tokens(o) /\ MQueue(n) = QKeys(o)
      /\ MCap(n) = IF cur[o] = 0 THEN 0 ELSE size[o]
      /\ Tokens(o) = {} <=> cur[o] = 0
  BY <1>1, LookedFact
<1>10. /\ MHeld(n)' = Tokens(o)' /\ MQueue(n)' = QKeys(o)'
       /\ MCap(n)' = IF cur'[o] = 0 THEN 0 ELSE size'[o]
       /\ Tokens(o)' = {} <=> cur'[o] = 0
  BY <1>1, <1>2, LookedNext
<1>11. MCap(n)' = IF MHeld(n) = {k} THEN 0 ELSE MCap(n)
  BY <1>1, <1>2, <1>7, <1>9, <1>10
<1>12. Abs!Release(n, k)
  BY <1>3, <1>7, <1>8, <1>9, <1>10, <1>11, ReleaseMap
<1> QED BY <1>12

\* A token goes to the head of the queue.
LEMMA HandOverMap ==
  ASSUME RInv, RInv', MinIdleCoversCalls, NEW t \in Threads, HandOver(t)
  PROVE  \E n \in Names, k \in Keys : Abs!Release(n, k)
<1>1. PICK o \in Objs, n \in Names, k \in Keys :
        /\ o = obj[t] /\ n = call[t].name /\ k = call[t].key /\ lockOf[n] = o
        /\ \A m \in Names \ {n} : lockOf[m] # o
  BY Place DEF HandOver, Running
<1>2. pc[t] = "release" /\ waiters[o] # << >>
  BY <1>1 DEF HandOver
<1>3. PICK h \in Threads :
        h = waiters[o][1] /\ h = Head(waiters[o]) /\ h # t /\ pc[h] = "waiting" /\ obj[h] = o
  BY <1>1, <1>2, HeadWaits DEF RInv
<1>4. /\ pc' = [pc EXCEPT ![h] = "woken", ![t] = "idle"]
      /\ call' = [call EXCEPT ![t] = NoCall]
      /\ obj' = [obj EXCEPT ![t] = NoObj]
      /\ waiters' = [waiters EXCEPT ![o] = Tail(@)]
      /\ UNCHANGED <<lockOf, size, keys, cur>>
      /\ pc \in [Threads -> PCs] /\ waiters \in [Objs -> Seq(Threads)]
      /\ call \in [Threads -> Calls \cup {NoCall}] /\ obj \in [Threads -> Objs \cup {NoObj}]
  BY <1>1, <1>3 DEF HandOver, objVars, RInv, IndInv, TypeOK
<1>5. \A m \in Names \ {n} : MHeld(m)' = MHeld(m) /\ MCap(m)' = MCap(m) /\ MQueue(m)' = MQueue(m)
  <2>1. \A u \in Threads : \/ obj[u] = o /\ obj'[u] \in {o, NoObj}
                           \/ pc'[u] = pc[u] /\ obj'[u] = obj[u] /\ call'[u] = call[u]
    BY <1>1, <1>3, <1>4
  <2>2. \A p \in Objs \ {o} : keys'[p] = keys[p] /\ cur'[p] = cur[p] /\ waiters'[p] = waiters[p]
    BY <1>1, <1>4
  <2> QED BY <1>1, <1>4, <2>1, <2>2, OtherNames
<1>6. /\ InHand(o)' = (InHand(o) \ {t}) \cup {h} /\ t \in InHand(o) /\ h \notin InHand(o)
  BY <1>1, <1>2, <1>3, <1>4 DEF InHand, Holding
<1>7. \A u \in InHand(o) \ {t} : call'[u] = call[u] /\ call[u].key # k
  <2>1. \A u \in InHand(o) : u \in Threads /\ Owning(u)
    BY DEF InHand, Holding, Owning, Acquiring, RInv, IndInv, CallInv
  <2> QED BY <1>1, <1>4, <1>6, <2>1 DEF RInv, OwnInv
<1>8. k \notin keys[o] /\ call'[h] = call[h]
  BY <1>1, <1>2, <1>3, <1>4 DEF RInv, OwnInv, Owning
<1>9. Tokens(o)' = (Tokens(o) \ {k}) \cup {call[h].key} /\ k \in Tokens(o)
  <2>1. {call'[u].key : u \in InHand(o)'} =
           ({call[u].key : u \in InHand(o)} \ {k}) \cup {call[h].key}
    BY <1>1, <1>6, <1>7, <1>8
  <2>2. /\ Tokens(o) = keys[o] \cup {call[u].key : u \in InHand(o)}
        /\ Tokens(o)' = keys'[o] \cup {call'[u].key : u \in InHand(o)'}
    BY DEF Tokens
  <2>3. k \in {call[u].key : u \in InHand(o)} /\ keys'[o] = keys[o]
    BY <1>1, <1>4, <1>6
  <2> QED BY <1>8, <2>1, <2>2, <2>3
<1>10. QKeys(o)' = Tail(QKeys(o)) /\ QKeys(o) # << >> /\ Head(QKeys(o)) = call[h].key
  <2>1. /\ waiters[o] \in Seq(Threads) /\ QKeys(o) \in Seq(Keys) /\ QKeys(o) # << >>
        /\ Len(QKeys(o)) = Len(waiters[o])
        /\ \A i \in 1..Len(waiters[o]) : QKeys(o)[i] = call[waiters[o][i]].key
    BY <1>1, <1>2, QKeysFact
  <2>2. /\ QKeys(o)' \in Seq(Keys) /\ Len(QKeys(o)') = Len(waiters'[o])
        /\ \A i \in 1..Len(waiters'[o]) : QKeys(o)'[i] = call'[waiters'[o][i]].key
    BY <1>1, QKeysNext
  <2>3. /\ Len(waiters[o]) \in Nat /\ Len(waiters[o]) > 0
        /\ Len(waiters'[o]) = Len(waiters[o]) - 1
        /\ \A i \in 1..(Len(waiters[o]) - 1) : waiters'[o][i] = waiters[o][i + 1]
    BY <1>1, <1>2, <1>4, <2>1, TailLemma
  <2>4. /\ Tail(QKeys(o)) \in Seq(Keys) /\ Len(Tail(QKeys(o))) = Len(waiters[o]) - 1
        /\ Head(QKeys(o)) = QKeys(o)[1]
        /\ \A i \in 1..(Len(waiters[o]) - 1) : Tail(QKeys(o))[i] = QKeys(o)[i + 1]
    BY <2>1, TailLemma
  <2>5. ASSUME NEW i \in 1..Len(QKeys(o)') PROVE QKeys(o)'[i] = Tail(QKeys(o))[i]
    <3>1. i \in Nat /\ i \in 1..(Len(waiters[o]) - 1) /\ i + 1 \in 1..Len(waiters[o])
      BY <2>2, <2>3, <2>5
    <3>2. waiters[o][i + 1] \in Threads /\ pc[waiters[o][i + 1]] = "waiting"
      BY <2>1, <3>1 DEF RInv, IndInv, QueueInv
    <3>3. call'[waiters[o][i + 1]] = call[waiters[o][i + 1]]
      BY <1>2, <1>4, <3>2
    <3>4. QKeys(o)'[i] = call'[waiters[o][i + 1]].key
      BY <2>2, <2>3, <3>1
    <3>5. Tail(QKeys(o))[i] = call[waiters[o][i + 1]].key
      BY <2>1, <2>4, <3>1
    <3> QED BY <3>3, <3>4, <3>5
  <2>6. QKeys(o)' = Tail(QKeys(o))
    BY <2>2, <2>3, <2>4, <2>5, SeqEqual
  <2> QED BY <1>3, <2>1, <2>3, <2>4, <2>6
<1>11. /\ MHeld(n) = Tokens(o) /\ MQueue(n) = QKeys(o)
       /\ MCap(n) = IF cur[o] = 0 THEN 0 ELSE size[o]
  BY <1>1, LookedFact
<1>12. /\ MHeld(n)' = Tokens(o)' /\ MQueue(n)' = QKeys(o)'
       /\ MCap(n)' = IF cur'[o] = 0 THEN 0 ELSE size'[o]
  BY <1>1, <1>4, LookedNext
<1>13. /\ k \in MHeld(n) /\ MQueue(n) # << >> /\ MQueue(n)' = Tail(MQueue(n))
       /\ MHeld(n)' = (MHeld(n) \ {k}) \cup {Head(MQueue(n))} /\ MCap(n)' = MCap(n)
  BY <1>1, <1>4, <1>9, <1>10, <1>11, <1>12
<1>14. Abs!Release(n, k)
  BY <1>5, <1>13, ReleaseMap
<1> QED BY <1>14

-----------------------------------------------------------------------------
(* Objects come and go.                                                    *)

\* A new object has no holders, as an unmapped name has none.
LEMMA GetCreatesMap ==
  ASSUME RInv, RInv', MinIdleCoversCalls, NEW t \in Threads, GetCreates(t)
  PROVE  AbsSame
<1>1. call[t].name \in Names /\ pc[t] = "get"
  BY CallFacts DEF GetCreates, RInv, IndInv, CallInv
<1>2. PICK n \in Names : n = call[t].name
  BY <1>1
<1>3. lockOf[n] = NoObj /\ keys' = keys /\ call' = call /\ pc' = [pc EXCEPT ![t] = "check"]
  BY <1>2 DEF GetCreates
<1>4. PICK o \in Objs :
        /\ Unused(o) /\ lockOf' = [lockOf EXCEPT ![n] = o]
        /\ size' = [size EXCEPT ![o] = call[t].size] /\ cur' = [cur EXCEPT ![o] = 0]
        /\ waiters' = [waiters EXCEPT ![o] = << >>] /\ obj' = [obj EXCEPT ![t] = o]
  BY <1>2 DEF GetCreates
<1> USE DEF RInv, IndInv, TypeOK
<1>5. \A p \in Objs : InHand(p)' = InHand(p)
  BY <1>1, <1>3, <1>4 DEF InHand, Holding, Unused
<1>6. keys[o] = {} /\ InHand(o) = {}
  BY <1>4 DEF Unused, InHand
<1>7. Tokens(o)' = {}
  BY <1>3, <1>5, <1>6 DEF Tokens
<1>8. lockOf'[n] = o /\ waiters'[o] = << >> /\ cur'[o] = 0 /\ o # NoObj
  BY <1>4
<1>9. MHeld(n) = {} /\ MCap(n) = 0 /\ MQueue(n) = << >>
  BY <1>3 DEF MHeld, MCap, MQueue
<1>10. MHeld(n)' = {} /\ MCap(n)' = 0
  BY <1>7, <1>8 DEF MHeld, MCap
<1>11. MQueue(n)' = << >>
  BY <1>8, QKeysNext DEF MQueue
<1>12. ASSUME NEW m \in Names \ {n}
       PROVE  MHeld(m)' = MHeld(m) /\ MCap(m)' = MCap(m) /\ MQueue(m)' = MQueue(m)
  <2>1. lockOf'[m] = lockOf[m] /\ lockOf[m] # o
    BY <1>4 DEF Unused
  <2>2. lockOf[m] # NoObj =>
          LET p == lockOf[m] IN
          /\ p \in Objs /\ keys'[p] = keys[p] /\ cur'[p] = cur[p] /\ size'[p] = size[p]
          /\ waiters'[p] = waiters[p]
    BY <1>3, <1>4, <2>1
  <2>3. \A u \in Threads : \A p \in Objs :
          /\ pc'[u] \in Holding /\ obj'[u] = p <=> pc[u] \in Holding /\ obj[u] = p
          /\ pc[u] \in Holding \cup {"waiting"} /\ obj[u] = p => call'[u] = call[u]
    BY <1>1, <1>3, <1>4 DEF Holding
  <2> QED BY <2>1, <2>2, <2>3, NameFrame
<1> QED BY <1>9, <1>10, <1>11, <1>12, StutterMap

\* An object that may be collected has no holders and no waiters: nobody runs on
\* it, and who waits there waits because all tokens are out.
LEMMA CollectableIsFree ==
  ASSUME RInv, MinIdleCoversCalls, NEW n \in Names, lockOf[n] # NoObj,
         keys[lockOf[n]] = {},
         \A t \in Threads : pc[t] \in Running => obj[t] # lockOf[n]
  PROVE  MHeld(n) = {} /\ MCap(n) = 0 /\ MQueue(n) = << >>
<1>1. PICK o \in Objs : o = lockOf[n]
  BY DEF RInv, IndInv, TypeOK
<1>2. InHand(o) = {}
  BY <1>1 DEF InHand, Holding, Running
<1>3. Tokens(o) = {}
  BY <1>1, <1>2 DEF Tokens
<1>4. cur[o] = 0 /\ size[o] > 0
  BY <1>1, <1>3, LookedFact DEF RInv, IndInv, MapInv
<1>5. waiters[o] = << >>
  BY <1>4 DEF RInv, IndInv, TokenInv, TokenOK
<1> QED
  BY <1>1, <1>3, <1>4, <1>5, LookedFact, QKeysFact

\* The collector and shutdown delete objects that nobody holds or waits for.
LEMMA CollectMap ==
  ASSUME RInv, RInv', MinIdleCoversCalls,
         UNCHANGED <<nameOf, size, cur, waiters, keys, pc, call, obj>>,
         \A n \in Names : lockOf'[n] = lockOf[n] \/
           /\ lockOf'[n] = NoObj /\ lockOf[n] # NoObj /\ keys[lockOf[n]] = {}
           /\ \A t \in Threads : pc[t] \in Running => obj[t] # lockOf[n]
  PROVE  AbsSame
<1>1. ASSUME NEW n \in Names
      PROVE  MHeld(n)' = MHeld(n) /\ MCap(n)' = MCap(n) /\ MQueue(n)' = MQueue(n)
  <2>1. CASE lockOf'[n] = lockOf[n]
    BY <2>1, NameFrame
  <2>2. CASE lockOf'[n] # lockOf[n]
    <3>1. MHeld(n) = {} /\ MCap(n) = 0 /\ MQueue(n) = << >>
      BY <2>2, CollectableIsFree
    <3>2. lockOf'[n] = NoObj
      BY <2>2
    <3> QED BY <3>1, <3>2 DEF MHeld, MCap, MQueue
  <2> QED BY <2>1, <2>2
<1> QED BY <1>1, StutterMap

\* The steps of nobody's call.
LEMMA ManagerSteps ==
  ASSUME RInv, RInv', MinIdleCoversCalls,
         \/ \E o \in Objs : Age(o)
         \/ \E n \in Names : Collect(n)
         \/ BeginShutdown \/ Shutdown \/ UNCHANGED vars
  PROVE  AbsSame
<1> USE DEF objVars, semVars, threadVars
<1>1. CASE (\E o \in Objs : Age(o)) \/ BeginShutdown \/ UNCHANGED vars
  <2>1. UnseenStep
    BY <1>1 DEF Age, BeginShutdown, vars, UnseenStep
  <2> QED BY <2>1, UnseenMap
<1>2. ASSUME NEW n \in Names, Collect(n) PROVE AbsSame
  <2>1. /\ UNCHANGED <<nameOf, size, cur, waiters, keys, pc, call, obj>>
        /\ lockOf[n] # NoObj /\ keys[lockOf[n]] = {} /\ idle[lockOf[n]]
        /\ lockOf' = [lockOf EXCEPT ![n] = NoObj]
    BY <1>2 DEF Collect, Collectable
  <2>2. \A t \in Threads : pc[t] \in Running => obj[t] # lockOf[n]
    BY <2>1 DEF RInv, IndInv, UseInv
  <2>3. \A m \in Names : lockOf'[m] = lockOf[m] \/ (m = n /\ lockOf'[m] = NoObj)
    BY <2>1 DEF RInv, IndInv, TypeOK
  <2> QED BY <2>1, <2>2, <2>3, CollectMap
<1>3. CASE Shutdown
  <2>1. UNCHANGED <<nameOf, size, cur, waiters, keys, pc, call, obj>>
    BY <1>3 DEF Shutdown
  <2>2. \A t \in Threads : pc[t] \notin Running
    BY <1>3 DEF Shutdown, Running
  <2>3. \A n \in Names : lockOf'[n] = lockOf[n] \/
          /\ lockOf'[n] = NoObj /\ lockOf[n] # NoObj /\ keys[lockOf[n]] = {}
    BY <1>3 DEF Shutdown
  <2> QED BY <2>1, <2>2, <2>3, CollectMap
<1> QED BY <1>1, <1>2, <1>3

-----------------------------------------------------------------------------
(* The refinement.                                                         *)

\* Every step of the manager is one of the service, or one it does not see.
LEMMA AbsStep ==
  ASSUME RInv, RInv', MinIdleCoversCalls, [Next]_vars
  PROVE  [Abs!Next]_(Abs!serviceVars)
<1>1. AbsSame => UNCHANGED Abs!serviceVars
  BY DEF AbsSame, AHeld, ACap, AQueue, Abs!serviceVars
<1>2. ASSUME NEW t \in Threads, Step(t) PROVE AbsSame \/ Abs!Next
  <2>1. CASE \/ GetFails(t) \/ GetFinds(t) \/ CheckPasses(t) \/ CheckPanics(t)
             \/ AcquireFails(t) \/ WakeUp(t) \/ GiveBack(t) \/ UnlockCheck(t) \/ KeyUnknown(t)
    BY <2>1, UnseenKinds, UnseenMap
  <2>2. CASE GetCreates(t) \/ AddKey(t) \/ RemoveKey(t)
    BY <2>2, GetCreatesMap, AddKeyMap, RemoveKeyMap
  <2>3. CASE Acquire(t)
    BY <2>3, AcquireMap DEF Abs!Next
  <2>4. CASE Enqueue(t)
    BY <2>4, EnqueueMap DEF Abs!Next
  <2>5. CASE CancelWait(t)
    BY <2>5, CancelWaitMap DEF Abs!Next
  <2>6. CASE ReleaseToken(t)
    BY <2>6, ReleaseTokenMap DEF Abs!Next
  <2>7. CASE HandOver(t)
    BY <2>7, HandOverMap DEF Abs!Next
  <2> QED
    BY <1>2, <2>1, <2>2, <2>3, <2>4, <2>5, <2>6, <2>7 DEF Step
<1>3. ASSUME NEW t \in Threads, (\E c \in Calls : Enter(t, c)) \/ Refuse(t) \/ CtxDone(t)
      PROVE  AbsSame
  BY <1>3, UnseenKinds, UnseenMap
<1>4. CASE \/ \E o \in Objs : Age(o)
           \/ \E n \in Names : Collect(n)
           \/ BeginShutdown \/ Shutdown \/ UNCHANGED vars
  BY <1>1, <1>4, ManagerSteps
<1> QED
  BY <1>1, <1>2, <1>3, <1>4 DEF Next

\* Nobody holds or waits for anything at first.
LEMMA AbsInit == Init => Abs!Init
<1> SUFFICES ASSUME Init PROVE Abs!Init
  OBVIOUS
<1>1. \A o \in Objs : Tokens(o) = {}
  BY DEF Init, Tokens, InHand, Holding
<1>2. /\ AHeld = [n \in Names |-> {}] /\ ACap = [n \in Names |-> 0]
      /\ AQueue = [n \in Names |-> << >>]
  BY <1>1 DEF Init, AHeld, ACap, AQueue
<1> QED
  BY <1>2 DEF Abs!Init, AHeld, ACap, AQueue

\* The invariant that the refinement needs.
LEMMA RInductive == Spec => []RInv
<1>1. Init => OwnInv /\ SizeInv
  BY DEF Init, OwnInv, SizeInv, Owning, Acquiring
<1>2. IndInv /\ OwnInv /\ SizeInv /\ [Next]_vars => OwnInv' /\ SizeInv'
  BY OwnStep, SizeStep
<1> QED
  BY <1>1, <1>2, Inductive, PTL DEF Spec, RInv

\* ImplementsLockService: to the server above it the manager is a table of
\* first-come-first-served counting locks, if the collector never overtakes a
\* call.  The objects, their two counts, the steps between them and the
\* collector cannot be seen.
THEOREM Implements ==
  ASSUME MinIdleCoversCalls
  PROVE  Spec => ImplementsLockService
<1>1. RInv /\ RInv' /\ [Next]_vars => [Abs!Next]_(Abs!serviceVars)
  BY AbsStep
<1> QED
  BY <1>1, AbsInit, RInductive, PTL DEF Spec, ImplementsLockService, Abs!Spec
=============================================================================
