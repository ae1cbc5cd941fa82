---------------------------- MODULE LockManager ----------------------------
(***************************************************************************)
(* The lock manager of ldlm: src/lock/manager.go and src/lock/lock.go over *)
(* golang.org/x/sync/semaphore.                                            *)
(*                                                                         *)
(* Any number of goroutines call Lock, TryLock and Unlock.  The manager    *)
(* maps a lock name to a lock object, made on demand.  An object counts    *)
(* its holders twice: in a weighted semaphore, which decides who may hold  *)
(* the lock and queues the others, and in a list of keys, which decides    *)
(* who may unlock it.  The two are updated in separate steps.  A garbage   *)
(* collector deletes objects whose list of keys is empty and that nobody   *)
(* looked up for LockGcMinIdle; it cannot see the semaphore, nor the calls *)
(* that hold a pointer to the object.  Every step of a call between two    *)
(* critical sections is an action of its own here.                         *)
(*                                                                         *)
(* A shard only groups names under one mutex; with one action per name     *)
(* there is nothing left of it.  lastAccessed is abstracted to idle:       *)
(* whether it lies more than LockGcMinIdle in the past.                    *)
(***************************************************************************)
EXTENDS Integers, Sequences, FiniteSets, SequencesExt

CONSTANTS
  Names,     \* lock names
  Keys,      \* lock keys: UUIDs, a new one for every Lock and TryLock call
  Sizes,     \* sizes requested, the invalid ones included
  Threads,   \* goroutines that serve the calls
  Objs,      \* addresses of lock objects
  NoObj, NoCall,
  MinIdleCoversCalls \* TRUE: LockGcMinIdle is longer than any call runs
                     \* without blocking (the default is five minutes);
                     \* FALSE: it may be shorter (0 is accepted)

ASSUME ConstantsAssumption ==
  /\ IsFiniteSet(Threads)
  /\ Sizes \subseteq Int
  /\ NoObj \notin Objs
  /\ MinIdleCoversCalls \in BOOLEAN

VARIABLES
  lockOf,    \* Manager.shards: the object of each name
  nameOf, size, cur, waiters, keys, deleted, \* the fields of each object;
             \* cur and waiters are those of its semaphore
  idle,      \* lastAccessed is more than LockGcMinIdle ago
  pc, call, obj, \* each goroutine's position, arguments and object
  done,      \* the context of the call is cancelled or timed out
  mgr        \* "running"; "pending": shutdown waits for shutdownMtx;
             \* "shutdown": isShutdown is set

objVars    == <<lockOf, nameOf, size, deleted>>
semVars    == <<cur, waiters>>
threadVars == <<pc, call, obj, done>>
vars == <<objVars, semVars, keys, idle, threadVars, mgr>>

\* Unlock looks its lock up with the size 1, whatever size the lock has.
Calls ==
  [op : {"Lock", "TryLock"}, name : Names, key : Keys, size : Sizes]
    \cup [op : {"Unlock"}, name : Names, key : Keys, size : {1}]

PCs == {"idle", "get", "check", "acquire", "waiting", "woken", "addKey",
        "unlockCheck", "removeKey", "release", "panicked"}

\* Where a goroutine owns a token of the semaphore with no key on the list.
Holding == {"woken", "addKey", "release"}

\* Where a goroutine has a lock object and does not block.
Running == {"check", "acquire", "woken", "addKey", "unlockCheck",
            "removeKey", "release"}

TypeOK ==
  /\ lockOf  \in [Names -> Objs \cup {NoObj}]
  /\ nameOf  \in [Objs -> Names]
  /\ size    \in [Objs -> Nat]
  /\ cur     \in [Objs -> Int]
  /\ waiters \in [Objs -> Seq(Threads)]
  /\ keys    \in [Objs -> SUBSET Keys]
  /\ deleted \in [Objs -> BOOLEAN]
  /\ idle    \in [Objs -> BOOLEAN]
  /\ pc      \in [Threads -> PCs]
  /\ call    \in [Threads -> Calls \cup {NoCall}]
  /\ obj     \in [Threads -> Objs \cup {NoObj}]
  /\ done    \in [Threads -> BOOLEAN]
  /\ mgr     \in {"running", "pending", "shutdown"}

Init ==
  /\ lockOf  = [n \in Names |-> NoObj]
  /\ nameOf  \in {[o \in Objs |-> n] : n \in Names}
  /\ size    = [o \in Objs |-> 0]
  /\ cur     = [o \in Objs |-> 0]
  /\ waiters = [o \in Objs |-> << >>]
  /\ keys    = [o \in Objs |-> {}]
  /\ deleted = [o \in Objs |-> TRUE]
  /\ idle    = [o \in Objs |-> FALSE]
  /\ pc      = [t \in Threads |-> "idle"]
  /\ call    = [t \in Threads |-> NoCall]
  /\ obj     = [t \in Threads |-> NoObj]
  /\ done    = [t \in Threads |-> FALSE]
  /\ mgr     = "running"

-----------------------------------------------------------------------------
(* Calls                                                                   *)

\* A UUID that no call in flight carries and no lock has on its list.
Fresh(k) ==
  /\ \A t \in Threads : pc[t] # "idle" => call[t].key # k
  /\ \A o \in Objs : k \notin keys[o]

\* The call takes shutdownMtx for reading, which a pending writer blocks.
Enter(t, c) ==
  /\ pc[t] = "idle" /\ mgr = "running"
  /\ c.op # "Unlock" => Fresh(c.key)
  /\ call' = [call EXCEPT ![t] = c]
  /\ pc' = [pc EXCEPT ![t] = "get"]
  /\ UNCHANGED <<objVars, semVars, keys, idle, obj, done, mgr>>

\* After shutdown every call returns ErrManagerShutdown.
Refuse(t) == mgr = "shutdown" /\ pc[t] = "idle" /\ UNCHANGED vars

\* The call returns and releases shutdownMtx.
Return(t) ==
  /\ pc'   = [pc EXCEPT ![t] = "idle"]
  /\ call' = [call EXCEPT ![t] = NoCall]
  /\ obj'  = [obj EXCEPT ![t] = NoObj]
  /\ done' = [done EXCEPT ![t] = FALSE]

\* The context of a Lock call ends: the client left, or its wait timed out.
CtxDone(t) ==
  /\ pc[t] \in {"get", "check", "acquire", "waiting", "woken", "addKey"}
  /\ call[t].op = "Lock" /\ ~done[t]
  /\ done' = [done EXCEPT ![t] = TRUE]
  /\ UNCHANGED <<objVars, semVars, keys, idle, pc, call, obj, mgr>>

-----------------------------------------------------------------------------
(* Manager.getLock, one critical section of the shard                      *)

\* Fault: Unlock's look-up compares sizes, too.
SizeMatchesAlways(t, o) == size[o] = call[t].size

\* The lock exists with the size asked for; Unlock does not ask for one.
SizeMatches(t, o) == call[t].op # "Unlock" => size[o] = call[t].size

\* Fault: only the size 0 is refused.
SizeZero(t) == call[t].size = 0

SizeInvalid(t) == call[t].size <= 0

\* ErrInvalidLockSize, ErrLockSizeMismatch, or for Unlock ErrLockDoesNotExist
GetFails(t) ==
  /\ pc[t] = "get"
  /\ LET o == lockOf[call[t].name] IN
       \/ SizeInvalid(t)
       \/ o # NoObj /\ ~SizeMatches(t, o)
       \/ o = NoObj /\ call[t].op = "Unlock"
  /\ Return(t)
  /\ UNCHANGED <<objVars, semVars, keys, idle, mgr>>

\* Fault: lastAccessed is not refreshed.
GetFindsUntouched(t) ==
  /\ pc[t] = "get" /\ ~SizeInvalid(t)
  /\ LET o == lockOf[call[t].name] IN
       /\ o # NoObj /\ SizeMatches(t, o)
       /\ obj' = [obj EXCEPT ![t] = o]
  /\ pc' = [pc EXCEPT ![t] = IF call[t].op = "Unlock" THEN "unlockCheck"
                                                      ELSE "check"]
  /\ UNCHANGED <<objVars, semVars, keys, idle, call, done, mgr>>

\* The object is found and its idle time starts anew.
GetFinds(t) ==
  /\ pc[t] = "get" /\ ~SizeInvalid(t)
  /\ LET o == lockOf[call[t].name] IN
       /\ o # NoObj /\ SizeMatches(t, o)
       /\ idle' = [idle EXCEPT ![o] = FALSE]
       /\ obj'  = [obj EXCEPT ![t] = o]
  /\ pc' = [pc EXCEPT ![t] = IF call[t].op = "Unlock" THEN "unlockCheck"
                                                      ELSE "check"]
  /\ UNCHANGED <<objVars, semVars, keys, call, done, mgr>>

\* An address nothing refers to: not mapped, not held, used by no goroutine.
Unused(o) ==
  /\ \A n \in Names : lockOf[n] # o
  /\ \A t \in Threads : obj[t] # o
  /\ keys[o] = {}

\* A new object is made and mapped.
GetCreates(t) ==
  /\ pc[t] = "get" /\ call[t].op # "Unlock" /\ ~SizeInvalid(t)
  /\ lockOf[call[t].name] = NoObj
  /\ \E o \in Objs :
       /\ Unused(o)
       /\ lockOf'  = [lockOf EXCEPT ![call[t].name] = o]
       /\ nameOf'  = [nameOf EXCEPT ![o] = call[t].name]
       /\ size'    = [size EXCEPT ![o] = call[t].size]
       /\ deleted' = [deleted EXCEPT ![o] = FALSE]
       /\ cur'     = [cur EXCEPT ![o] = 0]
       /\ waiters' = [waiters EXCEPT ![o] = << >>]
       /\ idle'    = [idle EXCEPT ![o] = FALSE]
       /\ obj'     = [obj EXCEPT ![t] = o]
  /\ pc' = [pc EXCEPT ![t] = "check"]
  /\ UNCHANGED <<keys, call, done, mgr>>

-----------------------------------------------------------------------------
(* Lock and TryLock on the object                                          *)

\* l.deleted is read with no mutex held: the read may miss a deletion that
\* is being made, so passing the check proves nothing about deleted.
CheckPasses(t) ==
  /\ pc[t] = "check"
  /\ pc' = [pc EXCEPT ![t] = "acquire"]
  /\ UNCHANGED <<objVars, semVars, keys, idle, call, obj, done, mgr>>

\* panic("Tried to lock deleted lock")
CheckPanics(t) ==
  /\ pc[t] = "check" /\ deleted[obj[t]]
  /\ pc' = [pc EXCEPT ![t] = "panicked"]
  /\ UNCHANGED <<objVars, semVars, keys, idle, call, obj, done, mgr>>

\* The semaphore has a token to give away and nobody queues for it.
TokenFree(o) == cur[o] < size[o] /\ waiters[o] = << >>

\* Acquire or TryAcquire takes a token.
Acquire(t) ==
  /\ pc[t] = "acquire" /\ ~done[t] /\ TokenFree(obj[t])
  /\ cur' = [cur EXCEPT ![obj[t]] = @ + 1]
  /\ pc' = [pc EXCEPT ![t] = "addKey"]
  /\ UNCHANGED <<objVars, waiters, keys, idle, call, obj, done, mgr>>

\* Acquire refuses a context that is done; TryAcquire finds no token.
AcquireFails(t) ==
  /\ pc[t] = "acquire"
  /\ \/ done[t]
     \/ call[t].op = "TryLock" /\ ~TokenFree(obj[t])
  /\ Return(t)
  /\ UNCHANGED <<objVars, semVars, keys, idle, mgr>>

\* Acquire joins the semaphore's queue.
Enqueue(t) ==
  /\ pc[t] = "acquire" /\ call[t].op = "Lock" /\ ~done[t]
  /\ ~TokenFree(obj[t])
  /\ waiters' = [waiters EXCEPT ![obj[t]] = Append(@, t)]
  /\ pc' = [pc EXCEPT ![t] = "waiting"]
  /\ UNCHANGED <<objVars, cur, keys, idle, call, obj, done, mgr>>

\* Fault: the call returns and stays in the queue.
CancelWaitStays(t) ==
  /\ pc[t] = "waiting" /\ done[t]
  /\ Return(t)
  /\ UNCHANGED <<objVars, semVars, keys, idle, mgr>>

\* Fault: the wait does not watch the context.
CancelWaitNever(t) == pc[t] = "waiting" /\ done[t] /\ UNCHANGED vars

\* The context is done before a token came: leave the queue.
CancelWait(t) ==
  /\ pc[t] = "waiting" /\ done[t]
  /\ LET o == obj[t] IN
       \E i \in 1..Len(waiters[o]) :
         /\ waiters[o][i] = t
         /\ waiters' = [waiters EXCEPT ![o] = RemoveAt(@, i)]
  /\ Return(t)
  /\ UNCHANGED <<objVars, cur, keys, idle, mgr>>

\* A token came.  Acquire looks at the context once more.
WakeUp(t) ==
  /\ pc[t] = "woken" /\ ~done[t]
  /\ pc' = [pc EXCEPT ![t] = "addKey"]
  /\ UNCHANGED <<objVars, semVars, keys, idle, call, obj, done, mgr>>

\* Fault: the token is not put back.
GiveBackForgotten(t) ==
  /\ pc[t] = "woken" /\ done[t]
  /\ Return(t)
  /\ UNCHANGED <<objVars, semVars, keys, idle, mgr>>

\* A token came, but the context is done: the token has to be put back.
GiveBack(t) ==
  /\ pc[t] = "woken" /\ done[t]
  /\ pc' = [pc EXCEPT ![t] = "release"]
  /\ UNCHANGED <<objVars, semVars, keys, idle, call, obj, done, mgr>>

\* Lock.addKey; the call returns with the lock.
AddKey(t) ==
  /\ pc[t] = "addKey"
  /\ keys' = [keys EXCEPT ![obj[t]] = @ \cup {call[t].key}]
  /\ Return(t)
  /\ UNCHANGED <<objVars, semVars, idle, mgr>>

-----------------------------------------------------------------------------
(* Unlock on the object                                                    *)

\* deleted is read under keyMtx, under which lockGc writes it.
UnlockCheck(t) ==
  /\ pc[t] = "unlockCheck"
  /\ IF deleted[obj[t]]
       THEN Return(t)
       ELSE /\ pc' = [pc EXCEPT ![t] = "removeKey"]
            /\ UNCHANGED <<call, obj, done>>
  /\ UNCHANGED <<objVars, semVars, keys, idle, mgr>>

\* Fault: the token is released whether or not the key was on the list.
RemoveAnyKey(t) ==
  /\ pc[t] = "removeKey"
  /\ keys' = [keys EXCEPT ![obj[t]] = @ \ {call[t].key}]
  /\ pc' = [pc EXCEPT ![t] = "release"]
  /\ UNCHANGED <<objVars, semVars, idle, call, obj, done, mgr>>

\* Lock.removeKey finds the key: the token is still to be released.
RemoveKey(t) ==
  /\ pc[t] = "removeKey" /\ call[t].key \in keys[obj[t]]
  /\ keys' = [keys EXCEPT ![obj[t]] = @ \ {call[t].key}]
  /\ pc' = [pc EXCEPT ![t] = "release"]
  /\ UNCHANGED <<objVars, semVars, idle, call, obj, done, mgr>>

\* ErrInvalidLockKey
KeyUnknown(t) ==
  /\ pc[t] = "removeKey" /\ call[t].key \notin keys[obj[t]]
  /\ Return(t)
  /\ UNCHANGED <<objVars, semVars, keys, idle, mgr>>

\* Fault: the token is freed although calls wait for it.
ReleaseUnnoticed(t) ==
  /\ pc[t] = "release"
  /\ cur' = [cur EXCEPT ![obj[t]] = @ - 1]
  /\ Return(t)
  /\ UNCHANGED <<objVars, waiters, keys, idle, mgr>>

\* Release with an empty queue: one more token is free.
ReleaseToken(t) ==
  /\ pc[t] = "release" /\ waiters[obj[t]] = << >>
  /\ cur' = [cur EXCEPT ![obj[t]] = @ - 1]
  /\ Return(t)
  /\ UNCHANGED <<objVars, waiters, keys, idle, mgr>>

\* Fault: the last of the queue gets the token.
HandOverLast(t) ==
  /\ pc[t] = "release" /\ waiters[obj[t]] # << >>
  /\ waiters' = [waiters EXCEPT ![obj[t]] = Front(@)]
  /\ pc'   = [pc EXCEPT ![Last(waiters[obj[t]])] = "woken", ![t] = "idle"]
  /\ call' = [call EXCEPT ![t] = NoCall]
  /\ obj'  = [obj EXCEPT ![t] = NoObj]
  /\ done' = [done EXCEPT ![t] = FALSE]
  /\ UNCHANGED <<objVars, cur, keys, idle, mgr>>

\* Release with a queue: its head gets the token and wakes up.
HandOver(t) ==
  /\ pc[t] = "release" /\ waiters[obj[t]] # << >>
  /\ waiters' = [waiters EXCEPT ![obj[t]] = Tail(@)]
  /\ pc'   = [pc EXCEPT ![Head(waiters[obj[t]])] = "woken", ![t] = "idle"]
  /\ call' = [call EXCEPT ![t] = NoCall]
  /\ obj'  = [obj EXCEPT ![t] = NoObj]
  /\ done' = [done EXCEPT ![t] = FALSE]
  /\ UNCHANGED <<objVars, cur, keys, idle, mgr>>

-----------------------------------------------------------------------------
(* Garbage collection and shutdown                                         *)

\* LockGcMinIdle passes since the last look-up of a mapped object.
Age(o) ==
  /\ ~idle[o] /\ ~deleted[o]
  /\ MinIdleCoversCalls => \A t \in Threads : obj[t] = o => pc[t] \notin Running
  /\ idle' = [idle EXCEPT ![o] = TRUE]
  /\ UNCHANGED <<objVars, semVars, keys, threadVars, mgr>>

\* Fault: the keys are not looked at.
CollectableHeld(o) == idle[o]

\* lockGc's test, made under the object's keyMtx.
Collectable(o) == keys[o] = {} /\ idle[o]

\* lockGc at one name, under the shard's mutex.
Collect(n) ==
  /\ mgr # "shutdown"
  /\ lockOf[n] # NoObj /\ Collectable(lockOf[n])
  /\ deleted' = [deleted EXCEPT ![lockOf[n]] = TRUE]
  /\ lockOf'  = [lockOf EXCEPT ![n] = NoObj]
  /\ UNCHANGED <<nameOf, size, semVars, keys, idle, threadVars, mgr>>

\* shutdownMtx.Lock is called: calls in progress go on, new ones block.
BeginShutdown ==
  /\ mgr = "running"
  /\ mgr' = "pending"
  /\ UNCHANGED <<objVars, semVars, keys, idle, threadVars>>

\* Fault: shutdown does not wait for the calls in progress.
ShutdownAtOnce ==
  /\ mgr = "pending"
  /\ deleted' = [o \in Objs |->
                   deleted[o] \/ (keys[o] = {} /\ \E n \in Names : lockOf[n] = o)]
  /\ lockOf' = [n \in Names |->
                  IF lockOf[n] # NoObj /\ keys[lockOf[n]] = {}
                    THEN NoObj ELSE lockOf[n]]
  /\ mgr' = "shutdown"
  /\ UNCHANGED <<nameOf, size, semVars, keys, idle, threadVars>>

\* No call is in progress: stop the collector, cancel the context that every
\* lock watches, collect all unlocked locks (minIdle is 0), refuse new calls.
\* A panic releases shutdownMtx like a return.
Shutdown ==
  /\ mgr = "pending"
  /\ \A t \in Threads : pc[t] \in {"idle", "panicked"}
  /\ deleted' = [o \in Objs |->
                   deleted[o] \/ (keys[o] = {} /\ \E n \in Names : lockOf[n] = o)]
  /\ lockOf' = [n \in Names |->
                  IF lockOf[n] # NoObj /\ keys[lockOf[n]] = {}
                    THEN NoObj ELSE lockOf[n]]
  /\ mgr' = "shutdown"
  /\ UNCHANGED <<nameOf, size, semVars, keys, idle, threadVars>>

-----------------------------------------------------------------------------
\* A step that a running call makes by itself.
Step(t) ==
  \/ GetFails(t) \/ GetFinds(t) \/ GetCreates(t)
  \/ CheckPasses(t) \/ CheckPanics(t)
  \/ Acquire(t) \/ AcquireFails(t) \/ Enqueue(t)
  \/ CancelWait(t) \/ WakeUp(t) \/ GiveBack(t) \/ AddKey(t)
  \/ UnlockCheck(t) \/ RemoveKey(t) \/ KeyUnknown(t)
  \/ ReleaseToken(t) \/ HandOver(t)

Next ==
  \/ \E t \in Threads : \/ \E c \in Calls : Enter(t, c)
                        \/ Refuse(t) \/ CtxDone(t) \/ Step(t)
  \/ \E o \in Objs : Age(o)
  \/ \E n \in Names : Collect(n)
  \/ BeginShutdown \/ Shutdown

Spec == Init /\ [][Next]_vars

-----------------------------------------------------------------------------
(* Properties                                                              *)

\* The goroutines that own a token of o's semaphore with no key on its list.
InHand(o) == {t \in Threads : pc[t] \in Holding /\ obj[t] = o}

\* The two counts an object keeps of its holders agree, up to the calls that
\* are between the semaphore (x/sync) and addKey or removeKey (lock.go:87-96,
\* 126-131): no token is lost or made up, and no more than size are out.
TokensMatchKeys ==
  \A o \in Objs :
    /\ cur[o] = Cardinality(keys[o]) + Cardinality(InHand(o))
    /\ cur[o] <= size[o]

\* No wake-up is lost: a Lock call waits only while all tokens are out, and
\* the queue of the semaphore is exactly the calls that wait on the object,
\* each once, so that a cancelled call (lock.go:87-95) leaves no ghost that
\* would swallow a token.
NoLostWakeUp ==
  \A o \in Objs :
    /\ waiters[o] # << >> => cur[o] = size[o]
    /\ ToSet(waiters[o]) = {t \in Threads : pc[t] = "waiting" /\ obj[t] = o}
    /\ IsInjective(waiters[o])

\* The keys held under a name, on whatever object they are listed.
Holders(n) == UNION {keys[o] : o \in {p \in Objs : nameOf[p] = n}}

\* A name is held at most "size" times.  It would be held more often if the
\* collector (manager.go:260-278) deleted an object between getLock and the
\* return of a Lock call, or while calls wait on it: the next Lock call
\* would make a second object of the same name.
MutualExclusion ==
  \A o \in Objs : keys[o] # {} => Cardinality(Holders(nameOf[o])) <= size[o]

\* A call never finds that the object it just looked up is deleted
\* (the panics at manager.go:209 and 228).
NoPanic == \A t \in Threads : pc[t] # "panicked"

\* Unlock never fails (manager.go:244, 252; lock.go:128) for a key that holds
\* the lock: a client can always give back what it got.
UnlockFindsHeldLock ==
  [][\A t \in Threads :
       /\ call[t] # NoCall /\ call[t].op = "Unlock"
       /\ call'[t] = NoCall /\ pc[t] # "release"
       => call[t].key \notin Holders(call[t].name)]_vars

\* When shutdown returns (manager.go:142-157) no call is half done: from then
\* on nothing is granted, released or collected.
ShutdownIsFinal ==
  [][mgr = "shutdown" => UNCHANGED <<objVars, semVars, keys, pc>>]_vars

-----------------------------------------------------------------------------
(* The inductive invariant behind the safety properties.                   *)

\* What a call carries at each point of the code.
CallInv ==
  \A t \in Threads :
    /\ pc[t] # "idle" => call[t] \in Calls
    /\ pc[t] = "idle" => call[t] = NoCall
    /\ pc[t] \in Running \cup {"waiting", "panicked"} => obj[t] \in Objs
    /\ pc[t] \in {"check", "acquire", "waiting", "woken", "addKey"}
         => call[t].op # "Unlock"
    /\ pc[t] \in {"unlockCheck", "removeKey"} => call[t].op = "Unlock"

\* The queue of an object holds the calls waiting on it, each once.
QueueInv ==
  /\ \A o \in Objs : \A i, j \in 1..Len(waiters[o]) :
       /\ pc[waiters[o][i]] = "waiting"
       /\ obj[waiters[o][i]] = o
       /\ i # j => waiters[o][i] # waiters[o][j]
  /\ \A t \in Threads : pc[t] = "waiting" =>
       \E i \in 1..Len(waiters[obj[t]]) : waiters[obj[t]][i] = t

\* The tokens that are out are listed or in hand, and all of them are out
\* when somebody waits.
TokenOK(o) ==
  /\ IsFiniteSet(keys[o])
  /\ cur[o] = Cardinality(keys[o]) + Cardinality(InHand(o))
  /\ cur[o] <= size[o]
  /\ waiters[o] # << >> => cur[o] = size[o]
TokenInv == \A o \in Objs : TokenOK(o)

\* Until its key is listed, a Lock or TryLock call is alone with it.
Acquiring(t) ==
  pc[t] \in {"get", "check", "acquire", "waiting", "woken", "addKey"}
  /\ call[t].op # "Unlock"
KeyInv ==
  \A t \in Threads : Acquiring(t) =>
    /\ \A o \in Objs : call[t].key \notin keys[o]
    /\ \A u \in Threads \ {t} : Acquiring(u) => call[u].key # call[t].key

\* The map only has live objects, each under its own name.
MapInv ==
  \A n \in Names : lockOf[n] # NoObj =>
    nameOf[lockOf[n]] = n /\ ~deleted[lockOf[n]] /\ size[lockOf[n]] > 0

\* An object that a call works on, waits on or holds is the one its name maps
\* to, and no running call's object has become idle.
UseInv ==
  MinIdleCoversCalls =>
    /\ \A t \in Threads :
         /\ pc[t] # "panicked"
         /\ pc[t] \in Running \cup {"waiting"} => lockOf[call[t].name] = obj[t]
         /\ pc[t] \in Running => ~idle[obj[t]]
    /\ \A o \in Objs : keys[o] # {} => lockOf[nameOf[o]] = o

IndInv ==
  TypeOK /\ CallInv /\ QueueInv /\ TokenInv /\ KeyInv /\ MapInv /\ UseInv

-----------------------------------------------------------------------------
(* The manager implements LockService.  A key holds a lock from the moment *)
(* its call owns a token until that token is given up.                     *)

Tokens(o) == keys[o] \cup {call[t].key : t \in InHand(o)}

Abs == INSTANCE LockService WITH
  held  <- [n \in Names |-> UNION {Tokens(o) : o \in {p \in Objs : nameOf[p] = n}}],
  cap   <- [n \in Names |-> IF lockOf[n] = NoObj \/ cur[lockOf[n]] = 0
                              THEN 0 ELSE size[lockOf[n]]],
  queue <- [n \in Names |-> IF lockOf[n] = NoObj THEN << >>
              ELSE [i \in DOMAIN waiters[lockOf[n]] |->
                      call[waiters[lockOf[n]][i]].key]]

\* To the server above it the manager is a table of first-come-first-served
\* counting locks: its objects, their two counts, the steps between them and
\* the collector cannot be seen.
ImplementsLockService == Abs!Spec

-----------------------------------------------------------------------------
(* Liveness                                                                *)

\* The Go scheduler runs every goroutine that can run, shutdown's included.
StepFairness == WF_vars(Shutdown) /\ \A t \in Threads : WF_vars(Step(t))

\* Clients unlock what they hold.
UnlockCall(n, k) ==
  /\ k \in Holders(n)
  /\ \E t \in Threads :
       Enter(t, [op |-> "Unlock", name |-> n, key |-> k, size |-> 1])
UnlockFairness == \A n \in Names, k \in Keys : SF_vars(UnlockCall(n, k))

\* The process closes its gRPC server before the manager (cmd/server/main.go:
\* 81-82), which ends the context of every Lock call.
CancelFairness == \A t \in Threads : WF_vars(mgr = "pending" /\ CtxDone(t))

FairSpec      == Spec /\ StepFairness /\ UnlockFairness
FairCloseSpec == FairSpec /\ CancelFairness

\* Every waiting Lock call is served or gives up, whoever else keeps coming,
\* as long as the manager runs and holders unlock.
WaitersServed ==
  \A t \in Threads :
    pc[t] = "waiting" ~> (pc[t] # "waiting" \/ mgr # "running")

\* Shutdown comes to its end.
ShutdownCompletes == mgr = "pending" ~> mgr = "shutdown"
=============================================================================
