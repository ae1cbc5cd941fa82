---------------------------- MODULE ClientProofs ----------------------------
(***************************************************************************)
(* Proofs about Client, for any number of names, keys, threads and retries *)
(* and for all sets of events.                                             *)
(***************************************************************************)
EXTENDS Client, FiniteSetTheorems, TLAPS

USE ClientAssumption

-----------------------------------------------------------------------------
(* The inductive invariant.                                                *)

\* What the threads and renewers are doing with key k.
Pending(t, k)   == op[t] = "lock" /\ ans[t] = k
Unlocking(t, k) == op[t] = "unlock" /\ arg[t].key = k
Stopping(t, k)  == op[t] = "unlock" /\ pc[t] \in {"stop", "receive"} /\ target[t] = k
Mapped(k)       == \E n \in Names : renewMap[n] = k

Args == [name : Names, key : Keys \cup {None}, timed : BOOLEAN]

\* Nobody has closed or cancelled anything.
Calm == ~ctxDone /\ ~Closing

\* Where a call is goes with what it is, and with its RPC.
CallInv ==
  /\ \A t \in Threads :
       /\ op[t] = "none" <=> pc[t] = "idle"
       /\ pc[t] = "rpc" <=> rpc[t] # "none"
       /\ pc[t] = "rpc" => op[t] \in {"lock", "unlock"}
       /\ pc[t] \in {"stop", "receive"} => op[t] \in {"unlock", "close"}
       /\ pc[t] = "close" => op[t] = "close"
       /\ op[t] = "lock" =>
            pc[t] = "rpc" /\ arg[t] \in Args /\ ans[t] \in Keys \cup {None}
       /\ op[t] = "unlock" => arg[t] \in Args /\ arg[t].key \in Keys
  /\ \A k \in Keys : renewer[k] = "renew" <=> rpc[k] # "none"
  /\ \A p \in Procs :
       /\ rpc[p] \in {"sent", "answered"} => conn = "up" /\ ~ctxDone
       /\ ans[p] # None => rpc[p] = "answered"

\* A key is nobody's before it is granted; one name has one holder.
NameInv ==
  /\ \A k \in Keys : nameOf[k] = None =>
       /\ k \notin held \cup lost \cup acked \cup timed /\ renewer[k] = "none"
       /\ ~Mapped(k)
       /\ \A t \in Threads : ~Pending(t, k) /\ ~Unlocking(t, k)
  /\ \A j, k \in held : nameOf[j] = nameOf[k] => j = k
  /\ \A k \in Keys : renewer[k] # "none" => k \in timed

\* A key goes from the answer of one Lock to the program to one Unlock.
KeyInv ==
  /\ \A t \in Threads, k \in Keys : Pending(t, k) =>
       /\ nameOf[k] = arg[t].name /\ (arg[t].timed <=> k \in timed)
       /\ k \in held \cup lost /\ k \notin acked
       /\ renewer[k] = "none" /\ ~Mapped(k)
       /\ \A u \in Threads : ~Unlocking(u, k) /\ (Pending(u, k) => u = t)
  /\ \A j, k \in acked : nameOf[j] = nameOf[k] => j = k
  /\ \A t \in Threads, k \in acked : ~Unlocking(t, k)

\* renewMap has the renewer of the lock that the program holds, until Unlock
\* takes it out for good.
MapInv ==
  /\ \A n \in Names, k \in Keys : renewMap[n] = k =>
       /\ nameOf[k] = n /\ renewer[k] # "none" /\ k \in held \cup lost
       /\ Calm => Renews(k)
       /\ \A t \in Threads : ~Unlocking(t, k) /\ ~Stopping(t, k)
  /\ Alive => \A k \in acked \cap timed : renewMap[nameOf[k]] = k

\* A renewer is stopped for one Unlock, before the server is called, unless it
\* is missed.
StopInv ==
  /\ \A t \in Threads, k \in Keys :
       /\ Unlocking(t, k) /\ Renews(k) =>
            k \in missed \/ (pc[t] = "stop" /\ target[t] = k)
       /\ pc[t] = "receive" /\ target[t] = k => renewer[k] \in {"stopping", "done"}
       /\ Stopping(t, k) =>
            /\ renewer[k] # "none"
            /\ \A u \in Threads : Stopping(u, k) => u = t
            /\ Calm /\ pc[t] = "stop" => Renews(k)
  /\ \A k \in Keys :
       /\ Renews(k) => k \in held \cup lost \cup missed
       /\ rpc[k] = "answered" /\ ans[k] = None => k \in lost \cup missed

\* A lock that its connection has outlived is renewed, and does not expire if
\* renewals are in time.
KeepInv ==
  /\ conn # "up" => held \subseteq broken
  /\ ~ctxDone => \A k \in held \ broken : rpc[k] \notin {"unavailable", "failed"}
  /\ expiring \subseteq timed
  /\ "late" \notin scenario =>
       \A t \in Threads, k \in Keys \ broken : Pending(t, k) => k \in held \ expiring

IndInv ==
  /\ TypeOK /\ CallInv /\ NameInv /\ KeyInv /\ MapInv /\ StopInv /\ KeepInv
  /\ KeptWhileRenewed /\ PanicsHaveCause

-----------------------------------------------------------------------------
(* Each part is preserved by every step.                                   *)

\* ServeLock that gives t the key k.
GrantOf(t, k) ==
  /\ rpc[t] = "sent" /\ op[t] = "lock" /\ nameOf[k] = None
  /\ \A j \in held : nameOf[j] # arg[t].name
  /\ nameOf' = [nameOf EXCEPT ![k] = arg[t].name]
  /\ timed'  = IF arg[t].timed THEN timed \cup {k} ELSE timed
  /\ held'   = held \cup {k}
  /\ rpc' = [rpc EXCEPT ![t] = "answered"]
  /\ ans' = [ans EXCEPT ![t] = k]
  /\ UNCHANGED <<expiring, envVars, appVars, tries, renVars, histVars, dead>>

\* A Lock that is served gets a key that was nobody's.
LEMMA Grant ==
  ASSUME NEW t \in Threads, ServeLock(t)
  PROVE  \E k \in Keys : GrantOf(t, k)
<1> DEFINE k == CHOOSE k \in Fresh : TRUE
<1>1. k \in Fresh
  BY DEF ServeLock
<1>2. k \in Keys /\ nameOf[k] = None
  BY <1>1 DEF Fresh
<1> HIDE DEF k
<1>3. \A j \in held : nameOf[j] # arg[t].name
  BY DEF ServeLock, Holders
<1> QED
  BY <1>2, <1>3 DEF ServeLock, Answer, GrantOf, k

\* The types of RPCs, which StartRpc and EndRpc set together.
RpcTypeOK ==
  /\ rpc \in [Procs -> {"none", "sent", "answered", "unavailable", "failed"}]
  /\ ans \in [Procs -> Keys \cup {None, "ok"}]
  /\ tries \in [Procs -> 0..MaxRetries]

\* An RPC begins and ends with a fresh count of its retries.
LEMMA RpcTypes ==
  ASSUME TypeOK, NEW p \in Procs, StartRpc(p) \/ EndRpc(p) \/ UNCHANGED rpcVars
  PROVE  RpcTypeOK'
BY DEF TypeOK, RpcTypeOK, StartRpc, EndRpc, Attempt, rpcVars

\* Every step keeps the types.
LEMMA TypeStep ==
  ASSUME TypeOK, CallInv, NameInv, [Next]_vars
  PROVE  TypeOK'
<1> USE DEF TypeOK, CallInv, NameInv, Pending, Args, Procs,
        srvVars, envVars, appVars, rpcVars, renVars, histVars
<1>1. ASSUME NEW t \in Threads, NEW n \in Names, NEW w \in BOOLEAN, LockCall(t, n, w)
      PROVE TypeOK'
  BY <1>1 DEF LockCall, StartRpc, Attempt
<1>2. ASSUME NEW t \in Threads, NEW k \in Keys, UnlockCall(t, k) PROVE TypeOK'
  <2>1. nameOf[k] \in Names /\ renewMap[nameOf[k]] \in Keys \cup {None}
    BY <1>2 DEF UnlockCall
  <2>2. RpcTypeOK'
    BY <1>2, RpcTypes DEF UnlockCall, Procs
  <2>3. arg' \in [Threads -> {None} \cup Args]
    BY <1>2, <2>1 DEF UnlockCall
  <2>4. /\ op' \in [Threads -> {"none", "lock", "unlock", "close"}]
        /\ pc' \in [Threads -> {"idle", "rpc", "stop", "receive", "close"}]
        /\ target' \in [Threads -> Keys \cup {None}]
        /\ renewMap' \in [Names -> Keys \cup {None}]
    BY <1>2, <2>1, SMTT(20) DEF UnlockCall
  <2>5. \A u \in Threads : pc'[u] \in {"stop", "receive"} => target'[u] # None
    BY <1>2, <2>1 DEF UnlockCall
  <2> QED
    BY <1>2, <2>2, <2>3, <2>4, <2>5 DEF UnlockCall, RpcTypeOK
<1>3. ASSUME NEW t \in Threads, CloseCall(t) PROVE TypeOK'
  BY <1>3 DEF CloseCall
<1>4. ASSUME NEW t \in Threads, ServeLock(t) PROVE TypeOK'
  <2>1. PICK k \in Keys : GrantOf(t, k)
    BY <1>4, Grant
  <2> QED
    BY <2>1 DEF GrantOf
<1>5. ASSUME NEW t \in Threads, RefuseLock(t) PROVE TypeOK'
  BY <1>5 DEF RefuseLock, Answer
<1>6. ASSUME NEW t \in Threads, ServeUnlock(t) PROVE TypeOK'
  BY <1>6 DEF ServeUnlock, Answer
<1>7. ASSUME NEW k \in Keys, ServeRenew(k) PROVE TypeOK'
  BY <1>7 DEF ServeRenew, Answer
<1>8. ASSUME NEW k \in Keys, Fire(k) PROVE TypeOK'
  BY <1>8 DEF Fire
<1>9. ASSUME NEW k \in Keys, Drop(k) PROVE TypeOK'
  BY <1>9 DEF Drop
<1>10. ASSUME NEW t \in Threads, LockReturns(t) PROVE TypeOK'
  <2>1. ans[t] \in Keys /\ nameOf[ans[t]] \in Names
    BY <1>10 DEF LockReturns, Pending
  <2>2. RpcTypeOK'
    BY <1>10, RpcTypes DEF LockReturns, Procs
  <2>3. /\ renewer' \in [Keys -> {"none", "begin", "select", "renew", "stopping", "done"}]
        /\ renewMap' \in [Names -> Keys \cup {None}]
        /\ dead' \in {"no", "outOfSync", "closedChannel", "renewError"}
        /\ acked' \subseteq Keys
    BY <1>10, <2>1 DEF LockReturns, CreateRenewer
  <2>4. /\ op' \in [Threads -> {"none", "lock", "unlock", "close"}]
        /\ pc' \in [Threads -> {"idle", "rpc", "stop", "receive", "close"}]
        /\ arg' \in [Threads -> {None} \cup Args]
        /\ target' \in [Threads -> Keys \cup {None}]
        /\ seen' \in [Threads -> SUBSET Keys]
        /\ \A u \in Threads : pc'[u] \in {"stop", "receive"} => target'[u] # None
    BY <1>10 DEF LockReturns, Return
  <2> QED
    BY <1>10, <2>2, <2>3, <2>4 DEF LockReturns, RpcTypeOK
<1>11. ASSUME NEW t \in Threads, LockFails(t) PROVE TypeOK'
  BY <1>11 DEF LockFails, Return, EndRpc
<1>12. ASSUME NEW t \in Threads, UnlockReturns(t) PROVE TypeOK'
  BY <1>12 DEF UnlockReturns, Return, EndRpc
<1>13. ASSUME NEW t \in Threads, StopSends(t) PROVE TypeOK'
  BY <1>13 DEF StopSends
<1>14. ASSUME NEW t \in Threads, StopMisses(t) PROVE TypeOK'
  <2>1. RpcTypeOK'
    BY <1>14, RpcTypes DEF StopMisses, Stopped, Procs
  <2>2. pc' \in [Threads -> {"idle", "rpc", "stop", "receive", "close"}]
    BY <1>14 DEF StopMisses, AfterStop
  <2>3. \A v \in Threads : pc'[v] \in {"stop", "receive"} => target'[v] # None
    BY <1>14 DEF StopMisses, AfterStop
  <2> QED
    BY <1>14, <2>1, <2>2, <2>3 DEF StopMisses, RpcTypeOK
<1>15. ASSUME NEW t \in Threads, StopPanics(t) PROVE TypeOK'
  BY <1>15 DEF StopPanics
<1>16. ASSUME NEW t \in Threads, StopReturns(t) PROVE TypeOK'
  <2>1. RpcTypeOK'
    BY <1>16, RpcTypes DEF StopReturns, Stopped, Procs
  <2>2. pc' \in [Threads -> {"idle", "rpc", "stop", "receive", "close"}]
    BY <1>16 DEF StopReturns, AfterStop
  <2>3. \A v \in Threads : pc'[v] \in {"stop", "receive"} => target'[v] # None
    BY <1>16 DEF StopReturns, AfterStop
  <2> QED
    BY <1>16, <2>1, <2>2, <2>3 DEF StopReturns, RpcTypeOK
<1>17. ASSUME NEW t \in Threads, NEW u \in Threads \ {t}, StopMeetsStop(t, u)
      PROVE TypeOK'
  <2>1. RpcTypeOK'
    BY <1>17, RpcTypes DEF StopMeetsStop, Stopped, Procs
  <2>2. pc' \in [Threads -> {"idle", "rpc", "stop", "receive", "close"}]
    BY <1>17 DEF StopMeetsStop, AfterStop
  <2>3. \A v \in Threads : pc'[v] \in {"stop", "receive"} => target'[v] # None
    BY <1>17 DEF StopMeetsStop, AfterStop
  <2> QED
    BY <1>17, <2>1, <2>2, <2>3 DEF StopMeetsStop, RpcTypeOK
<1>18. ASSUME NEW t \in Threads, NEW k \in Keys, CloseNext(t, k) PROVE TypeOK'
  BY <1>18 DEF CloseNext, InMap
<1>19. ASSUME NEW t \in Threads, CloseConn(t) PROVE TypeOK'
  BY <1>19 DEF CloseConn, Return, InFlight, InMap
<1>20. ASSUME NEW k \in Keys, RenewerBegins(k) PROVE TypeOK'
  BY <1>20 DEF RenewerBegins
<1>21. ASSUME NEW k \in Keys, Renewed(k) PROVE TypeOK'
  BY <1>21 DEF Renewed, EndRpc
<1>22. ASSUME NEW k \in Keys, RenewPanics(k) PROVE TypeOK'
  BY <1>22 DEF RenewPanics
<1>23. ASSUME NEW k \in Keys, RenewerEnds(k) PROVE TypeOK'
  BY <1>23 DEF RenewerEnds
<1>24. ASSUME NEW k \in Keys, RenewStarts(k) PROVE TypeOK'
  BY <1>24 DEF RenewStarts, StartRpc, Attempt
<1>25. ASSUME NEW p \in Procs, Retry(p) PROVE TypeOK'
  BY <1>25 DEF Retry, Attempt
<1>26. ASSUME Break PROVE TypeOK'
  BY <1>26 DEF Break, InFlight
<1>27. ASSUME Reconnect PROVE TypeOK'
  BY <1>27 DEF Reconnect
<1>28. ASSUME CancelCtx PROVE TypeOK'
  BY <1>28 DEF CancelCtx, InFlight
<1>29. CASE UNCHANGED vars
  BY <1>29 DEF vars
<1> HIDE DEF TypeOK, CallInv, NameInv, Pending, Args, Procs
<1> QED
  BY <1>1, <1>2, <1>3, <1>4, <1>5, <1>6, <1>7, <1>8, <1>9, <1>10, <1>11, <1>12,
     <1>13, <1>14, <1>15, <1>16, <1>17, <1>18, <1>19, <1>20, <1>21, <1>22, <1>23,
     <1>24, <1>25, <1>26, <1>27, <1>28, <1>29
  DEF Next, ProgramStep, ServerStep, ThreadStep, RenewerStep

\* A call that enters a step has what the step needs.
LEMMA CallStep ==
  ASSUME TypeOK, CallInv, NameInv, KeyInv, [Next]_vars
  PROVE  CallInv'
<1> USE DEF TypeOK, CallInv, NameInv, KeyInv, Pending, Args, Procs,
        srvVars, envVars, appVars, rpcVars, renVars, histVars
<1>1. ASSUME NEW t \in Threads, NEW n \in Names, NEW w \in BOOLEAN, LockCall(t, n, w)
      PROVE CallInv'
  BY <1>1 DEF LockCall, StartRpc, Attempt
<1>2. ASSUME NEW t \in Threads, NEW k \in Keys, UnlockCall(t, k) PROVE CallInv'
  BY <1>2 DEF UnlockCall, StartRpc, Attempt
<1>3. ASSUME NEW t \in Threads, CloseCall(t) PROVE CallInv'
  BY <1>3 DEF CloseCall
<1>4. ASSUME NEW t \in Threads, ServeLock(t) PROVE CallInv'
  <2>1. PICK k \in Keys : GrantOf(t, k)
    BY <1>4, Grant
  <2> QED
    BY <2>1 DEF GrantOf
<1>5. ASSUME NEW t \in Threads, RefuseLock(t) PROVE CallInv'
  BY <1>5 DEF RefuseLock, Answer
<1>6. ASSUME NEW t \in Threads, ServeUnlock(t) PROVE CallInv'
  BY <1>6 DEF ServeUnlock, Answer
<1>7. ASSUME NEW k \in Keys, ServeRenew(k) PROVE CallInv'
  BY <1>7 DEF ServeRenew, Answer
<1>8. ASSUME NEW k \in Keys, Fire(k) PROVE CallInv'
  BY <1>8 DEF Fire
<1>9. ASSUME NEW k \in Keys, Drop(k) PROVE CallInv'
  BY <1>9 DEF Drop
<1>10. ASSUME NEW t \in Threads, LockReturns(t) PROVE CallInv'
  BY <1>10 DEF LockReturns, CreateRenewer, Return, EndRpc
<1>11. ASSUME NEW t \in Threads, LockFails(t) PROVE CallInv'
  BY <1>11 DEF LockFails, Return, EndRpc
<1>12. ASSUME NEW t \in Threads, UnlockReturns(t) PROVE CallInv'
  BY <1>12 DEF UnlockReturns, Return, EndRpc
<1>13. ASSUME NEW t \in Threads, StopSends(t) PROVE CallInv'
  BY <1>13 DEF StopSends
<1>14. ASSUME NEW t \in Threads, StopMisses(t) PROVE CallInv'
  <2>1. CASE op[t] = "unlock"
    BY <1>14, <2>1 DEF StopMisses, Stopped, AfterStop, StartRpc, Attempt
  <2>2. CASE op[t] # "unlock"
    BY <1>14, <2>2 DEF StopMisses, Stopped, AfterStop
  <2> QED
    BY <2>1, <2>2
<1>15. ASSUME NEW t \in Threads, StopPanics(t) PROVE CallInv'
  BY <1>15 DEF StopPanics
<1>16. ASSUME NEW t \in Threads, StopReturns(t) PROVE CallInv'
  <2>1. CASE op[t] = "unlock"
    BY <1>16, <2>1 DEF StopReturns, Stopped, AfterStop, StartRpc, Attempt
  <2>2. CASE op[t] # "unlock"
    BY <1>16, <2>2 DEF StopReturns, Stopped, AfterStop
  <2> QED
    BY <2>1, <2>2
<1>17. ASSUME NEW t \in Threads, NEW u \in Threads \ {t}, StopMeetsStop(t, u)
      PROVE CallInv'
  BY <1>17 DEF StopMeetsStop, Stopped, AfterStop, StartRpc, Attempt
<1>18. ASSUME NEW t \in Threads, NEW k \in Keys, CloseNext(t, k) PROVE CallInv'
  BY <1>18 DEF CloseNext, InMap
<1>19. ASSUME NEW t \in Threads, CloseConn(t) PROVE CallInv'
  BY <1>19 DEF CloseConn, Return, InFlight, InMap
<1>20. ASSUME NEW k \in Keys, RenewerBegins(k) PROVE CallInv'
  BY <1>20 DEF RenewerBegins
<1>21. ASSUME NEW k \in Keys, Renewed(k) PROVE CallInv'
  BY <1>21 DEF Renewed, EndRpc
<1>22. ASSUME NEW k \in Keys, RenewPanics(k) PROVE CallInv'
  BY <1>22 DEF RenewPanics
<1>23. ASSUME NEW k \in Keys, RenewerEnds(k) PROVE CallInv'
  BY <1>23 DEF RenewerEnds
<1>24. ASSUME NEW k \in Keys, RenewStarts(k) PROVE CallInv'
  BY <1>24 DEF RenewStarts, StartRpc, Attempt
<1>25. ASSUME NEW p \in Procs, Retry(p) PROVE CallInv'
  BY <1>25 DEF Retry, Attempt
<1>26. ASSUME Break PROVE CallInv'
  BY <1>26 DEF Break, InFlight
<1>27. ASSUME Reconnect PROVE CallInv'
  BY <1>27 DEF Reconnect
<1>28. ASSUME CancelCtx PROVE CallInv'
  BY <1>28 DEF CancelCtx, InFlight
<1>29. CASE UNCHANGED vars
  BY <1>29 DEF vars
<1> HIDE DEF TypeOK, CallInv, NameInv, KeyInv, Pending, Args, Procs
<1> QED
  BY <1>1, <1>2, <1>3, <1>4, <1>5, <1>6, <1>7, <1>8, <1>9, <1>10, <1>11, <1>12,
     <1>13, <1>14, <1>15, <1>16, <1>17, <1>18, <1>19, <1>20, <1>21, <1>22, <1>23,
     <1>24, <1>25, <1>26, <1>27, <1>28, <1>29
  DEF Next, ProgramStep, ServerStep, ThreadStep, RenewerStep

\* Keys are granted once, and a name is granted when nobody holds it.
LEMMA NameStep ==
  ASSUME TypeOK, CallInv, NameInv, KeyInv, MapInv, [Next]_vars
  PROVE  NameInv'
<1> USE DEF TypeOK, CallInv, NameInv, KeyInv, Pending, Unlocking, Mapped, Args,
            Procs, MapInv, Stopping,
        srvVars, envVars, appVars, rpcVars, renVars, histVars
<1>1. ASSUME NEW t \in Threads, NEW n \in Names, NEW w \in BOOLEAN, LockCall(t, n, w)
      PROVE NameInv'
  BY <1>1 DEF LockCall, StartRpc, Attempt
<1>2. ASSUME NEW t \in Threads, NEW k \in Keys, UnlockCall(t, k) PROVE NameInv'
  BY <1>2 DEF UnlockCall, StartRpc, Attempt
<1>3. ASSUME NEW t \in Threads, CloseCall(t) PROVE NameInv'
  BY <1>3 DEF CloseCall
<1>4. ASSUME NEW t \in Threads, ServeLock(t) PROVE NameInv'
  <2>1. PICK k \in Keys : GrantOf(t, k)
    BY <1>4, Grant
  <2> QED
    BY <2>1 DEF GrantOf
<1>5. ASSUME NEW t \in Threads, RefuseLock(t) PROVE NameInv'
  BY <1>5 DEF RefuseLock, Answer
<1>6. ASSUME NEW t \in Threads, ServeUnlock(t) PROVE NameInv'
  BY <1>6 DEF ServeUnlock, Answer
<1>7. ASSUME NEW k \in Keys, ServeRenew(k) PROVE NameInv'
  BY <1>7 DEF ServeRenew, Answer
<1>8. ASSUME NEW k \in Keys, Fire(k) PROVE NameInv'
  BY <1>8 DEF Fire
<1>9. ASSUME NEW k \in Keys, Drop(k) PROVE NameInv'
  BY <1>9 DEF Drop
<1>10. ASSUME NEW t \in Threads, LockReturns(t) PROVE NameInv'
  BY <1>10 DEF LockReturns, CreateRenewer, Return, EndRpc
<1>11. ASSUME NEW t \in Threads, LockFails(t) PROVE NameInv'
  BY <1>11 DEF LockFails, Return, EndRpc
<1>12. ASSUME NEW t \in Threads, UnlockReturns(t) PROVE NameInv'
  BY <1>12 DEF UnlockReturns, Return, EndRpc
<1>13. ASSUME NEW t \in Threads, StopSends(t) PROVE NameInv'
  BY <1>13 DEF StopSends
<1>14. ASSUME NEW t \in Threads, StopMisses(t) PROVE NameInv'
  BY <1>14 DEF StopMisses, Stopped, AfterStop, StartRpc, Attempt
<1>15. ASSUME NEW t \in Threads, StopPanics(t) PROVE NameInv'
  BY <1>15 DEF StopPanics
<1>16. ASSUME NEW t \in Threads, StopReturns(t) PROVE NameInv'
  BY <1>16 DEF StopReturns, Stopped, AfterStop, StartRpc, Attempt
<1>17. ASSUME NEW t \in Threads, NEW u \in Threads \ {t}, StopMeetsStop(t, u)
      PROVE NameInv'
  BY <1>17 DEF StopMeetsStop, Stopped, AfterStop, StartRpc, Attempt
<1>18. ASSUME NEW t \in Threads, NEW k \in Keys, CloseNext(t, k) PROVE NameInv'
  BY <1>18 DEF CloseNext, InMap
<1>19. ASSUME NEW t \in Threads, CloseConn(t) PROVE NameInv'
  BY <1>19 DEF CloseConn, Return, InFlight, InMap
<1>20. ASSUME NEW k \in Keys, RenewerBegins(k) PROVE NameInv'
  BY <1>20 DEF RenewerBegins
<1>21. ASSUME NEW k \in Keys, Renewed(k) PROVE NameInv'
  BY <1>21 DEF Renewed, EndRpc
<1>22. ASSUME NEW k \in Keys, RenewPanics(k) PROVE NameInv'
  BY <1>22 DEF RenewPanics
<1>23. ASSUME NEW k \in Keys, RenewerEnds(k) PROVE NameInv'
  BY <1>23 DEF RenewerEnds
<1>24. ASSUME NEW k \in Keys, RenewStarts(k) PROVE NameInv'
  BY <1>24 DEF RenewStarts, StartRpc, Attempt
<1>25. ASSUME NEW p \in Procs, Retry(p) PROVE NameInv'
  BY <1>25 DEF Retry, Attempt
<1>26. ASSUME Break PROVE NameInv'
  BY <1>26 DEF Break, InFlight
<1>27. ASSUME Reconnect PROVE NameInv'
  BY <1>27 DEF Reconnect
<1>28. ASSUME CancelCtx PROVE NameInv'
  BY <1>28 DEF CancelCtx, InFlight
<1>29. CASE UNCHANGED vars
  BY <1>29 DEF vars
<1> HIDE DEF TypeOK, CallInv, NameInv, KeyInv, Pending, Unlocking, Mapped, Args,
             Procs, MapInv, Stopping
<1> QED
  BY <1>1, <1>2, <1>3, <1>4, <1>5, <1>6, <1>7, <1>8, <1>9, <1>10, <1>11, <1>12,
     <1>13, <1>14, <1>15, <1>16, <1>17, <1>18, <1>19, <1>20, <1>21, <1>22, <1>23,
     <1>24, <1>25, <1>26, <1>27, <1>28, <1>29
  DEF Next, ProgramStep, ServerStep, ThreadStep, RenewerStep

\* A key has one owner at a time.
LEMMA KeyStep ==
  ASSUME TypeOK, CallInv, NameInv, KeyInv, MapInv, [Next]_vars
  PROVE  KeyInv'
<1> USE DEF TypeOK, CallInv, NameInv, KeyInv, Pending, Unlocking, Mapped, Args,
            Procs, MapInv, Stopping,
        srvVars, envVars, appVars, rpcVars, renVars, histVars
<1>1. ASSUME NEW t \in Threads, NEW n \in Names, NEW w \in BOOLEAN, LockCall(t, n, w)
      PROVE KeyInv'
  BY <1>1 DEF LockCall, StartRpc, Attempt
<1>2. ASSUME NEW t \in Threads, NEW k \in Keys, UnlockCall(t, k) PROVE KeyInv'
  BY <1>2 DEF UnlockCall, StartRpc, Attempt
<1>3. ASSUME NEW t \in Threads, CloseCall(t) PROVE KeyInv'
  BY <1>3 DEF CloseCall
<1>4. ASSUME NEW t \in Threads, ServeLock(t) PROVE KeyInv'
  <2>1. PICK k \in Keys : GrantOf(t, k)
    BY <1>4, Grant
  <2> QED
    BY <2>1 DEF GrantOf
<1>5. ASSUME NEW t \in Threads, RefuseLock(t) PROVE KeyInv'
  BY <1>5 DEF RefuseLock, Answer
<1>6. ASSUME NEW t \in Threads, ServeUnlock(t) PROVE KeyInv'
  BY <1>6 DEF ServeUnlock, Answer
<1>7. ASSUME NEW k \in Keys, ServeRenew(k) PROVE KeyInv'
  BY <1>7 DEF ServeRenew, Answer
<1>8. ASSUME NEW k \in Keys, Fire(k) PROVE KeyInv'
  BY <1>8 DEF Fire
<1>9. ASSUME NEW k \in Keys, Drop(k) PROVE KeyInv'
  BY <1>9 DEF Drop
<1>10. ASSUME NEW t \in Threads, LockReturns(t) PROVE KeyInv'
  BY <1>10 DEF LockReturns, CreateRenewer, Return, EndRpc
<1>11. ASSUME NEW t \in Threads, LockFails(t) PROVE KeyInv'
  BY <1>11 DEF LockFails, Return, EndRpc
<1>12. ASSUME NEW t \in Threads, UnlockReturns(t) PROVE KeyInv'
  BY <1>12 DEF UnlockReturns, Return, EndRpc
<1>13. ASSUME NEW t \in Threads, StopSends(t) PROVE KeyInv'
  BY <1>13 DEF StopSends
<1>14. ASSUME NEW t \in Threads, StopMisses(t) PROVE KeyInv'
  <2>1. /\ \A v \in Threads, j \in Keys : Pending(v, j)' => Pending(v, j)
        /\ UNCHANGED <<nameOf, held, lost, acked, timed, renewer, renewMap, op, arg>>
    BY <1>14 DEF StopMisses, Stopped, StartRpc
  <2> QED
    BY <2>1, SMTT(20)
<1>15. ASSUME NEW t \in Threads, StopPanics(t) PROVE KeyInv'
  BY <1>15 DEF StopPanics
<1>16. ASSUME NEW t \in Threads, StopReturns(t) PROVE KeyInv'
  <2>1. /\ \A v \in Threads, j \in Keys : Pending(v, j)' => Pending(v, j)
        /\ UNCHANGED <<nameOf, held, lost, acked, timed, renewer, renewMap, op, arg>>
    BY <1>16 DEF StopReturns, Stopped, StartRpc
  <2> QED
    BY <2>1, SMTT(20)
<1>17. ASSUME NEW t \in Threads, NEW u \in Threads \ {t}, StopMeetsStop(t, u)
      PROVE KeyInv'
  BY <1>17 DEF StopMeetsStop, Stopped, AfterStop, StartRpc, Attempt
<1>18. ASSUME NEW t \in Threads, NEW k \in Keys, CloseNext(t, k) PROVE KeyInv'
  BY <1>18 DEF CloseNext, InMap
<1>19. ASSUME NEW t \in Threads, CloseConn(t) PROVE KeyInv'
  BY <1>19 DEF CloseConn, Return, InFlight, InMap
<1>20. ASSUME NEW k \in Keys, RenewerBegins(k) PROVE KeyInv'
  BY <1>20 DEF RenewerBegins
<1>21. ASSUME NEW k \in Keys, Renewed(k) PROVE KeyInv'
  BY <1>21 DEF Renewed, EndRpc
<1>22. ASSUME NEW k \in Keys, RenewPanics(k) PROVE KeyInv'
  BY <1>22 DEF RenewPanics
<1>23. ASSUME NEW k \in Keys, RenewerEnds(k) PROVE KeyInv'
  BY <1>23 DEF RenewerEnds
<1>24. ASSUME NEW k \in Keys, RenewStarts(k) PROVE KeyInv'
  BY <1>24 DEF RenewStarts, StartRpc, Attempt
<1>25. ASSUME NEW p \in Procs, Retry(p) PROVE KeyInv'
  BY <1>25 DEF Retry, Attempt
<1>26. ASSUME Break PROVE KeyInv'
  BY <1>26 DEF Break, InFlight
<1>27. ASSUME Reconnect PROVE KeyInv'
  BY <1>27 DEF Reconnect
<1>28. ASSUME CancelCtx PROVE KeyInv'
  BY <1>28 DEF CancelCtx, InFlight
<1>29. CASE UNCHANGED vars
  BY <1>29 DEF vars
<1> HIDE DEF TypeOK, CallInv, NameInv, KeyInv, Pending, Unlocking, Mapped, Args,
             Procs, MapInv, Stopping
<1> QED
  BY <1>1, <1>2, <1>3, <1>4, <1>5, <1>6, <1>7, <1>8, <1>9, <1>10, <1>11, <1>12,
     <1>13, <1>14, <1>15, <1>16, <1>17, <1>18, <1>19, <1>20, <1>21, <1>22, <1>23,
     <1>24, <1>25, <1>26, <1>27, <1>28, <1>29
  DEF Next, ProgramStep, ServerStep, ThreadStep, RenewerStep

\* Entries of renewMap come and go with the lock.
LEMMA MapStep ==
  ASSUME TypeOK, CallInv, NameInv, KeyInv, MapInv, StopInv, [Next]_vars
  PROVE  MapInv'
<1> USE DEF TypeOK, CallInv, NameInv, KeyInv, Pending, Unlocking, Mapped, Args,
            Procs, MapInv, StopInv, Stopping, Renews, Alive, Calm, Closing,
        srvVars, envVars, appVars, rpcVars, renVars, histVars
<1>1. ASSUME NEW t \in Threads, NEW n \in Names, NEW w \in BOOLEAN, LockCall(t, n, w)
      PROVE MapInv'
  BY <1>1 DEF LockCall, StartRpc, Attempt
<1>2. ASSUME NEW t \in Threads, NEW k \in Keys, UnlockCall(t, k) PROVE MapInv'
  BY <1>2 DEF UnlockCall, StartRpc, Attempt
<1>3. ASSUME NEW t \in Threads, CloseCall(t) PROVE MapInv'
  BY <1>3 DEF CloseCall
<1>4. ASSUME NEW t \in Threads, ServeLock(t) PROVE MapInv'
  <2>1. PICK k \in Keys : GrantOf(t, k)
    BY <1>4, Grant
  <2> QED
    BY <2>1 DEF GrantOf
<1>5. ASSUME NEW t \in Threads, RefuseLock(t) PROVE MapInv'
  BY <1>5 DEF RefuseLock, Answer
<1>6. ASSUME NEW t \in Threads, ServeUnlock(t) PROVE MapInv'
  BY <1>6 DEF ServeUnlock, Answer
<1>7. ASSUME NEW k \in Keys, ServeRenew(k) PROVE MapInv'
  BY <1>7 DEF ServeRenew, Answer
<1>8. ASSUME NEW k \in Keys, Fire(k) PROVE MapInv'
  BY <1>8 DEF Fire
<1>9. ASSUME NEW k \in Keys, Drop(k) PROVE MapInv'
  BY <1>9 DEF Drop
<1>10. ASSUME NEW t \in Threads, LockReturns(t) PROVE MapInv'
  <2> DEFINE k == ans[t]
  <2>1. /\ k \in Keys /\ Pending(t, k) /\ nameOf[k] = arg[t].name /\ nameOf[k] \in Names
        /\ k \in held \cup lost /\ renewer[k] = "none" /\ ~Mapped(k)
        /\ \A u \in Threads : ~Unlocking(u, k) /\ ~Stopping(u, k)
    BY <1>10 DEF LockReturns
  <2>2. \A u \in Threads, j \in Keys :
          /\ Unlocking(u, j)' => Unlocking(u, j)
          /\ Stopping(u, j)' => Stopping(u, j)
    BY <1>10 DEF LockReturns, Return
  <2>3. Closing' <=> Closing
    BY <1>10 DEF LockReturns, Return
  <2>4. CASE arg[t].timed /\ renewMap[nameOf[k]] = None
    <3>1. /\ renewer' = [renewer EXCEPT ![k] = "begin"]
          /\ renewMap' = [renewMap EXCEPT ![nameOf[k]] = k]
          /\ acked' = {j \in acked : nameOf[j] # nameOf[k]} \cup {k}
      BY <1>10, <2>1, <2>4 DEF LockReturns, CreateRenewer
    <3> QED
      BY <1>10, <2>1, <2>2, <2>3, <3>1 DEF LockReturns
  <2>5. CASE arg[t].timed /\ renewMap[nameOf[k]] # None
    <3>1. /\ renewer' = [renewer EXCEPT ![k] = "begin"] /\ renewMap' = renewMap
          /\ ~Alive'
      BY <1>10, <2>1, <2>5 DEF LockReturns, CreateRenewer
    <3> QED
      BY <1>10, <2>1, <2>2, <2>3, <3>1 DEF LockReturns
  <2>6. CASE ~arg[t].timed
    <3>1. /\ renewer' = renewer /\ renewMap' = renewMap
          /\ acked' = {j \in acked : nameOf[j] # nameOf[k]} \cup {k}
          /\ k \notin timed
      BY <1>10, <2>1, <2>6 DEF LockReturns
    <3> QED
      BY <1>10, <2>1, <2>2, <2>3, <3>1 DEF LockReturns
  <2> QED
    BY <2>4, <2>5, <2>6
<1>11. ASSUME NEW t \in Threads, LockFails(t) PROVE MapInv'
  BY <1>11 DEF LockFails, Return, EndRpc
<1>12. ASSUME NEW t \in Threads, UnlockReturns(t) PROVE MapInv'
  BY <1>12 DEF UnlockReturns, Return, EndRpc
<1>13. ASSUME NEW t \in Threads, StopSends(t) PROVE MapInv'
  BY <1>13 DEF StopSends
<1>14. ASSUME NEW t \in Threads, StopMisses(t) PROVE MapInv'
  BY <1>14 DEF StopMisses, Stopped, AfterStop, StartRpc, Attempt
<1>15. ASSUME NEW t \in Threads, StopPanics(t) PROVE MapInv'
  BY <1>15 DEF StopPanics
<1>16. ASSUME NEW t \in Threads, StopReturns(t) PROVE MapInv'
  BY <1>16 DEF StopReturns, Stopped, AfterStop, StartRpc, Attempt
<1>17. ASSUME NEW t \in Threads, NEW u \in Threads \ {t}, StopMeetsStop(t, u)
      PROVE MapInv'
  BY <1>17 DEF StopMeetsStop, Stopped, AfterStop, StartRpc, Attempt
<1>18. ASSUME NEW t \in Threads, NEW k \in Keys, CloseNext(t, k) PROVE MapInv'
  BY <1>18 DEF CloseNext, InMap
<1>19. ASSUME NEW t \in Threads, CloseConn(t) PROVE MapInv'
  BY <1>19 DEF CloseConn, Return, InFlight, InMap
<1>20. ASSUME NEW k \in Keys, RenewerBegins(k) PROVE MapInv'
  BY <1>20 DEF RenewerBegins
<1>21. ASSUME NEW k \in Keys, Renewed(k) PROVE MapInv'
  BY <1>21 DEF Renewed, EndRpc
<1>22. ASSUME NEW k \in Keys, RenewPanics(k) PROVE MapInv'
  BY <1>22 DEF RenewPanics
<1>23. ASSUME NEW k \in Keys, RenewerEnds(k) PROVE MapInv'
  BY <1>23 DEF RenewerEnds
<1>24. ASSUME NEW k \in Keys, RenewStarts(k) PROVE MapInv'
  BY <1>24 DEF RenewStarts, StartRpc, Attempt
<1>25. ASSUME NEW p \in Procs, Retry(p) PROVE MapInv'
  BY <1>25 DEF Retry, Attempt
<1>26. ASSUME Break PROVE MapInv'
  BY <1>26 DEF Break, InFlight
<1>27. ASSUME Reconnect PROVE MapInv'
  BY <1>27 DEF Reconnect
<1>28. ASSUME CancelCtx PROVE MapInv'
  BY <1>28 DEF CancelCtx, InFlight
<1>29. CASE UNCHANGED vars
  BY <1>29 DEF vars
<1> HIDE DEF TypeOK, CallInv, NameInv, KeyInv, Pending, Unlocking, Mapped, Args,
             Procs, MapInv, StopInv, Stopping, Renews, Alive, Calm, Closing
<1> QED
  BY <1>1, <1>2, <1>3, <1>4, <1>5, <1>6, <1>7, <1>8, <1>9, <1>10, <1>11, <1>12,
     <1>13, <1>14, <1>15, <1>16, <1>17, <1>18, <1>19, <1>20, <1>21, <1>22, <1>23,
     <1>24, <1>25, <1>26, <1>27, <1>28, <1>29
  DEF Next, ProgramStep, ServerStep, ThreadStep, RenewerStep

\* A renewer that is told to stop is told by one Unlock, and stops.
LEMMA StopStep ==
  ASSUME TypeOK, CallInv, NameInv, KeyInv, MapInv, StopInv, [Next]_vars
  PROVE  StopInv'
<1> USE DEF TypeOK, CallInv, NameInv, KeyInv, Pending, Unlocking, Mapped, Args,
            Procs, MapInv, StopInv, Stopping, Renews, Alive, Calm, Closing,
        srvVars, envVars, appVars, rpcVars, renVars, histVars
<1>1. ASSUME NEW t \in Threads, NEW n \in Names, NEW w \in BOOLEAN, LockCall(t, n, w)
      PROVE StopInv'
  BY <1>1 DEF LockCall, StartRpc, Attempt
<1>2. ASSUME NEW t \in Threads, NEW k \in Keys, UnlockCall(t, k) PROVE StopInv'
  BY <1>2 DEF UnlockCall, StartRpc, Attempt
<1>3. ASSUME NEW t \in Threads, CloseCall(t) PROVE StopInv'
  BY <1>3 DEF CloseCall
<1>4. ASSUME NEW t \in Threads, ServeLock(t) PROVE StopInv'
  <2>1. PICK k \in Keys : GrantOf(t, k)
    BY <1>4, Grant
  <2> QED
    BY <2>1 DEF GrantOf
<1>5. ASSUME NEW t \in Threads, RefuseLock(t) PROVE StopInv'
  BY <1>5 DEF RefuseLock, Answer
<1>6. ASSUME NEW t \in Threads, ServeUnlock(t) PROVE StopInv'
  <2>1. arg[t].key \in Keys /\ (Renews(arg[t].key) => arg[t].key \in missed)
    BY <1>6 DEF ServeUnlock
  <2>2. \A k \in Keys : rpc'[k] = rpc[k] /\ ans'[k] = ans[k]
    BY <1>6 DEF ServeUnlock, Answer
  <2> QED
    BY <1>6, <2>1, <2>2 DEF ServeUnlock, Answer
<1>7. ASSUME NEW k \in Keys, ServeRenew(k) PROVE StopInv'
  BY <1>7 DEF ServeRenew, Answer
<1>8. ASSUME NEW k \in Keys, Fire(k) PROVE StopInv'
  BY <1>8 DEF Fire
<1>9. ASSUME NEW k \in Keys, Drop(k) PROVE StopInv'
  BY <1>9 DEF Drop
<1>10. ASSUME NEW t \in Threads, LockReturns(t) PROVE StopInv'
  BY <1>10 DEF LockReturns, CreateRenewer, Return, EndRpc
<1>11. ASSUME NEW t \in Threads, LockFails(t) PROVE StopInv'
  BY <1>11 DEF LockFails, Return, EndRpc
<1>12. ASSUME NEW t \in Threads, UnlockReturns(t) PROVE StopInv'
  BY <1>12 DEF UnlockReturns, Return, EndRpc
<1>13. ASSUME NEW t \in Threads, StopSends(t) PROVE StopInv'
  BY <1>13 DEF StopSends
<1>14. ASSUME NEW t \in Threads, StopMisses(t) PROVE StopInv'
  BY <1>14 DEF StopMisses, Stopped, AfterStop, StartRpc, Attempt
<1>15. ASSUME NEW t \in Threads, StopPanics(t) PROVE StopInv'
  BY <1>15 DEF StopPanics
<1>16. ASSUME NEW t \in Threads, StopReturns(t) PROVE StopInv'
  BY <1>16 DEF StopReturns, Stopped, AfterStop, StartRpc, Attempt
<1>17. ASSUME NEW t \in Threads, NEW u \in Threads \ {t}, StopMeetsStop(t, u)
      PROVE StopInv'
  BY <1>17 DEF StopMeetsStop, Stopped, AfterStop, StartRpc, Attempt
<1>18. ASSUME NEW t \in Threads, NEW k \in Keys, CloseNext(t, k) PROVE StopInv'
  BY <1>18 DEF CloseNext, InMap
<1>19. ASSUME NEW t \in Threads, CloseConn(t) PROVE StopInv'
  BY <1>19 DEF CloseConn, Return, InFlight, InMap
<1>20. ASSUME NEW k \in Keys, RenewerBegins(k) PROVE StopInv'
  BY <1>20 DEF RenewerBegins
<1>21. ASSUME NEW k \in Keys, Renewed(k) PROVE StopInv'
  BY <1>21 DEF Renewed, EndRpc
<1>22. ASSUME NEW k \in Keys, RenewPanics(k) PROVE StopInv'
  BY <1>22 DEF RenewPanics
<1>23. ASSUME NEW k \in Keys, RenewerEnds(k) PROVE StopInv'
  BY <1>23 DEF RenewerEnds
<1>24. ASSUME NEW k \in Keys, RenewStarts(k) PROVE StopInv'
  BY <1>24 DEF RenewStarts, StartRpc, Attempt
<1>25. ASSUME NEW p \in Procs, Retry(p) PROVE StopInv'
  BY <1>25 DEF Retry, Attempt
<1>26. ASSUME Break PROVE StopInv'
  BY <1>26 DEF Break, InFlight
<1>27. ASSUME Reconnect PROVE StopInv'
  BY <1>27 DEF Reconnect
<1>28. ASSUME CancelCtx PROVE StopInv'
  BY <1>28 DEF CancelCtx, InFlight
<1>29. CASE UNCHANGED vars
  BY <1>29 DEF vars
<1> HIDE DEF TypeOK, CallInv, NameInv, KeyInv, Pending, Unlocking, Mapped, Args,
             Procs, MapInv, StopInv, Stopping, Renews, Alive, Calm, Closing
<1> QED
  BY <1>1, <1>2, <1>3, <1>4, <1>5, <1>6, <1>7, <1>8, <1>9, <1>10, <1>11, <1>12,
     <1>13, <1>14, <1>15, <1>16, <1>17, <1>18, <1>19, <1>20, <1>21, <1>22, <1>23,
     <1>24, <1>25, <1>26, <1>27, <1>28, <1>29
  DEF Next, ProgramStep, ServerStep, ThreadStep, RenewerStep

\* What is not broken is held.
LEMMA KeepStep ==
  ASSUME TypeOK, CallInv, NameInv, KeyInv, MapInv, KeepInv, [Next]_vars
  PROVE  KeepInv'
<1> USE DEF TypeOK, CallInv, NameInv, KeyInv, Pending, Unlocking, Mapped, Args,
            Procs, MapInv, KeepInv, Renewing, Renews,
        srvVars, envVars, appVars, rpcVars, renVars, histVars
<1>1. ASSUME NEW t \in Threads, NEW n \in Names, NEW w \in BOOLEAN, LockCall(t, n, w)
      PROVE KeepInv'
  BY <1>1 DEF LockCall, StartRpc, Attempt
<1>2. ASSUME NEW t \in Threads, NEW k \in Keys, UnlockCall(t, k) PROVE KeepInv'
  BY <1>2 DEF UnlockCall, StartRpc, Attempt
<1>3. ASSUME NEW t \in Threads, CloseCall(t) PROVE KeepInv'
  BY <1>3 DEF CloseCall
<1>4. ASSUME NEW t \in Threads, ServeLock(t) PROVE KeepInv'
  <2>1. PICK k \in Keys : GrantOf(t, k)
    BY <1>4, Grant
  <2> QED
    BY <2>1 DEF GrantOf
<1>5. ASSUME NEW t \in Threads, RefuseLock(t) PROVE KeepInv'
  BY <1>5 DEF RefuseLock, Answer
<1>6. ASSUME NEW t \in Threads, ServeUnlock(t) PROVE KeepInv'
  BY <1>6 DEF ServeUnlock, Answer
<1>7. ASSUME NEW k \in Keys, ServeRenew(k) PROVE KeepInv'
  BY <1>7 DEF ServeRenew, Answer
<1>8. ASSUME NEW k \in Keys, Fire(k) PROVE KeepInv'
  BY <1>8 DEF Fire
<1>9. ASSUME NEW k \in Keys, Drop(k) PROVE KeepInv'
  BY <1>9 DEF Drop
<1>10. ASSUME NEW t \in Threads, LockReturns(t) PROVE KeepInv'
  BY <1>10 DEF LockReturns, CreateRenewer, Return, EndRpc
<1>11. ASSUME NEW t \in Threads, LockFails(t) PROVE KeepInv'
  BY <1>11 DEF LockFails, Return, EndRpc
<1>12. ASSUME NEW t \in Threads, UnlockReturns(t) PROVE KeepInv'
  BY <1>12 DEF UnlockReturns, Return, EndRpc
<1>13. ASSUME NEW t \in Threads, StopSends(t) PROVE KeepInv'
  BY <1>13 DEF StopSends
<1>14. ASSUME NEW t \in Threads, StopMisses(t) PROVE KeepInv'
  <2>1. /\ \A k \in Keys : rpc'[k] = rpc[k]
        /\ \A v \in Threads, k \in Keys : Pending(v, k)' => Pending(v, k)
    BY <1>14 DEF StopMisses, Stopped, StartRpc
  <2> QED
    BY <1>14, <2>1 DEF StopMisses
<1>15. ASSUME NEW t \in Threads, StopPanics(t) PROVE KeepInv'
  BY <1>15 DEF StopPanics
<1>16. ASSUME NEW t \in Threads, StopReturns(t) PROVE KeepInv'
  <2>1. /\ \A k \in Keys : rpc'[k] = rpc[k]
        /\ \A v \in Threads, k \in Keys : Pending(v, k)' => Pending(v, k)
    BY <1>16 DEF StopReturns, Stopped, StartRpc
  <2> QED
    BY <1>16, <2>1 DEF StopReturns
<1>17. ASSUME NEW t \in Threads, NEW u \in Threads \ {t}, StopMeetsStop(t, u)
      PROVE KeepInv'
  <2>1. /\ \A k \in Keys : rpc'[k] = rpc[k]
        /\ \A v \in Threads, k \in Keys : Pending(v, k)' => Pending(v, k)
    BY <1>17 DEF StopMeetsStop, Stopped, StartRpc
  <2> QED
    BY <1>17, <2>1 DEF StopMeetsStop
<1>18. ASSUME NEW t \in Threads, NEW k \in Keys, CloseNext(t, k) PROVE KeepInv'
  BY <1>18 DEF CloseNext, InMap
<1>19. ASSUME NEW t \in Threads, CloseConn(t) PROVE KeepInv'
  BY <1>19 DEF CloseConn, Return, InFlight, InMap
<1>20. ASSUME NEW k \in Keys, RenewerBegins(k) PROVE KeepInv'
  BY <1>20 DEF RenewerBegins
<1>21. ASSUME NEW k \in Keys, Renewed(k) PROVE KeepInv'
  BY <1>21 DEF Renewed, EndRpc
<1>22. ASSUME NEW k \in Keys, RenewPanics(k) PROVE KeepInv'
  BY <1>22 DEF RenewPanics
<1>23. ASSUME NEW k \in Keys, RenewerEnds(k) PROVE KeepInv'
  BY <1>23 DEF RenewerEnds
<1>24. ASSUME NEW k \in Keys, RenewStarts(k) PROVE KeepInv'
  BY <1>24 DEF RenewStarts, StartRpc, Attempt
<1>25. ASSUME NEW p \in Procs, Retry(p) PROVE KeepInv'
  BY <1>25 DEF Retry, Attempt
<1>26. ASSUME Break PROVE KeepInv'
  BY <1>26 DEF Break, InFlight
<1>27. ASSUME Reconnect PROVE KeepInv'
  BY <1>27 DEF Reconnect
<1>28. ASSUME CancelCtx PROVE KeepInv'
  BY <1>28 DEF CancelCtx, InFlight
<1>29. CASE UNCHANGED vars
  BY <1>29 DEF vars
<1> HIDE DEF TypeOK, CallInv, NameInv, KeyInv, Pending, Unlocking, Mapped, Args,
             Procs, MapInv, KeepInv, Renewing, Renews
<1> QED
  BY <1>1, <1>2, <1>3, <1>4, <1>5, <1>6, <1>7, <1>8, <1>9, <1>10, <1>11, <1>12,
     <1>13, <1>14, <1>15, <1>16, <1>17, <1>18, <1>19, <1>20, <1>21, <1>22, <1>23,
     <1>24, <1>25, <1>26, <1>27, <1>28, <1>29
  DEF Next, ProgramStep, ServerStep, ThreadStep, RenewerStep

\* What the program holds does not expire.
LEMMA KeptStep ==
  ASSUME IndInv, [Next]_vars
  PROVE  KeptWhileRenewed'
<1> USE DEF IndInv, TypeOK, CallInv, NameInv, KeyInv, Pending, Unlocking, Mapped,
            Args, Procs, MapInv, StopInv, Stopping, Renews, Alive, Calm, Closing,
            KeepInv, KeptWhileRenewed, Renewing,
        srvVars, envVars, appVars, rpcVars, renVars, histVars
<1>1. ASSUME NEW t \in Threads, NEW n \in Names, NEW w \in BOOLEAN, LockCall(t, n, w)
      PROVE KeptWhileRenewed'
  BY <1>1 DEF LockCall, StartRpc, Attempt
<1>2. ASSUME NEW t \in Threads, NEW k \in Keys, UnlockCall(t, k)
      PROVE KeptWhileRenewed'
  BY <1>2 DEF UnlockCall, StartRpc, Attempt
<1>3. ASSUME NEW t \in Threads, CloseCall(t) PROVE KeptWhileRenewed'
  BY <1>3 DEF CloseCall
<1>4. ASSUME NEW t \in Threads, ServeLock(t) PROVE KeptWhileRenewed'
  BY <1>4, Grant DEF GrantOf
<1>5. ASSUME NEW t \in Threads, RefuseLock(t) PROVE KeptWhileRenewed'
  BY <1>5 DEF RefuseLock, Answer
<1>6. ASSUME NEW t \in Threads, ServeUnlock(t) PROVE KeptWhileRenewed'
  BY <1>6 DEF ServeUnlock, Answer
<1>7. ASSUME NEW k \in Keys, ServeRenew(k) PROVE KeptWhileRenewed'
  BY <1>7 DEF ServeRenew, Answer
<1>8. ASSUME NEW k \in Keys, Fire(k) PROVE KeptWhileRenewed'
  BY <1>8 DEF Fire
<1>9. ASSUME NEW k \in Keys, Drop(k) PROVE KeptWhileRenewed'
  BY <1>9 DEF Drop
<1>10. ASSUME NEW t \in Threads, LockReturns(t) PROVE KeptWhileRenewed'
  BY <1>10 DEF LockReturns, CreateRenewer, Return, EndRpc
<1>11. ASSUME NEW t \in Threads, LockFails(t) PROVE KeptWhileRenewed'
  BY <1>11 DEF LockFails, Return, EndRpc
<1>12. ASSUME NEW t \in Threads, UnlockReturns(t) PROVE KeptWhileRenewed'
  BY <1>12 DEF UnlockReturns, Return, EndRpc
<1>13. ASSUME NEW t \in Threads, StopSends(t) PROVE KeptWhileRenewed'
  BY <1>13 DEF StopSends
<1>14. ASSUME NEW t \in Threads, StopMisses(t) PROVE KeptWhileRenewed'
  BY <1>14 DEF StopMisses, Stopped, AfterStop, StartRpc, Attempt
<1>15. ASSUME NEW t \in Threads, StopPanics(t) PROVE KeptWhileRenewed'
  BY <1>15 DEF StopPanics
<1>16. ASSUME NEW t \in Threads, StopReturns(t) PROVE KeptWhileRenewed'
  BY <1>16 DEF StopReturns, Stopped, AfterStop, StartRpc, Attempt
<1>17. ASSUME NEW t \in Threads, NEW u \in Threads \ {t}, StopMeetsStop(t, u)
      PROVE KeptWhileRenewed'
  BY <1>17 DEF StopMeetsStop, Stopped, AfterStop, StartRpc, Attempt
<1>18. ASSUME NEW t \in Threads, NEW k \in Keys, CloseNext(t, k)
      PROVE KeptWhileRenewed'
  BY <1>18 DEF CloseNext, InMap
<1>19. ASSUME NEW t \in Threads, CloseConn(t) PROVE KeptWhileRenewed'
  BY <1>19 DEF CloseConn, Return, InFlight, InMap
<1>20. ASSUME NEW k \in Keys, RenewerBegins(k) PROVE KeptWhileRenewed'
  BY <1>20 DEF RenewerBegins
<1>21. ASSUME NEW k \in Keys, Renewed(k) PROVE KeptWhileRenewed'
  BY <1>21 DEF Renewed, EndRpc
<1>22. ASSUME NEW k \in Keys, RenewPanics(k) PROVE KeptWhileRenewed'
  BY <1>22 DEF RenewPanics
<1>23. ASSUME NEW k \in Keys, RenewerEnds(k) PROVE KeptWhileRenewed'
  BY <1>23 DEF RenewerEnds
<1>24. ASSUME NEW k \in Keys, RenewStarts(k) PROVE KeptWhileRenewed'
  BY <1>24 DEF RenewStarts, StartRpc, Attempt
<1>25. ASSUME NEW p \in Procs, Retry(p) PROVE KeptWhileRenewed'
  BY <1>25 DEF Retry, Attempt
<1>26. ASSUME Break PROVE KeptWhileRenewed'
  BY <1>26 DEF Break, InFlight
<1>27. ASSUME Reconnect PROVE KeptWhileRenewed'
  BY <1>27 DEF Reconnect
<1>28. ASSUME CancelCtx PROVE KeptWhileRenewed'
  BY <1>28 DEF CancelCtx, InFlight
<1>29. CASE UNCHANGED vars
  BY <1>29 DEF vars
<1> HIDE DEF IndInv, TypeOK, CallInv, NameInv, KeyInv, Pending, Unlocking, Mapped,
             Args, Procs, MapInv, StopInv, Stopping, Renews, Alive, Calm, Closing,
             KeepInv, KeptWhileRenewed, Renewing
<1> QED
  BY <1>1, <1>2, <1>3, <1>4, <1>5, <1>6, <1>7, <1>8, <1>9, <1>10, <1>11, <1>12,
     <1>13, <1>14, <1>15, <1>16, <1>17, <1>18, <1>19, <1>20, <1>21, <1>22, <1>23,
     <1>24, <1>25, <1>26, <1>27, <1>28, <1>29
  DEF Next, ProgramStep, ServerStep, ThreadStep, RenewerStep

\* A panic has its cause, then and later.
LEMMA PanicStep ==
  ASSUME IndInv, [Next]_vars
  PROVE  PanicsHaveCause'
<1> USE DEF IndInv, TypeOK, CallInv, NameInv, KeyInv, Pending, Unlocking, Mapped,
            Args, Procs, MapInv, StopInv, Stopping, Renews, Alive, Calm, Closing,
            PanicsHaveCause,
        srvVars, envVars, appVars, rpcVars, renVars, histVars
<1>1. ASSUME NEW t \in Threads, NEW n \in Names, NEW w \in BOOLEAN, LockCall(t, n, w)
      PROVE PanicsHaveCause'
  BY <1>1 DEF LockCall, StartRpc, Attempt
<1>2. ASSUME NEW t \in Threads, NEW k \in Keys, UnlockCall(t, k)
      PROVE PanicsHaveCause'
  BY <1>2 DEF UnlockCall, StartRpc, Attempt
<1>3. ASSUME NEW t \in Threads, CloseCall(t) PROVE PanicsHaveCause'
  BY <1>3 DEF CloseCall
<1>4. ASSUME NEW t \in Threads, ServeLock(t) PROVE PanicsHaveCause'
  <2>1. PICK k \in Keys : GrantOf(t, k)
    BY <1>4, Grant
  <2>2. k \notin lost
    BY <2>1 DEF GrantOf
  <2>3. \A j \in lost : nameOf'[j] = nameOf[j]
    BY <2>1, <2>2 DEF GrantOf
  <2>4. \A j \in Keys : rpc'[j] = rpc[j]
    BY <2>1 DEF GrantOf
  <2>5. UNCHANGED <<dead, lost, missed, renewMap, renewer, ctxDone, conn, op>>
    BY <2>1 DEF GrantOf
  <2> HIDE DEF NameInv, KeyInv, MapInv, StopInv, CallInv
  <2> QED
    BY <2>3, <2>4, <2>5
<1>5. ASSUME NEW t \in Threads, RefuseLock(t) PROVE PanicsHaveCause'
  BY <1>5 DEF RefuseLock, Answer
<1>6. ASSUME NEW t \in Threads, ServeUnlock(t) PROVE PanicsHaveCause'
  BY <1>6 DEF ServeUnlock, Answer
<1>7. ASSUME NEW k \in Keys, ServeRenew(k) PROVE PanicsHaveCause'
  BY <1>7 DEF ServeRenew, Answer
<1>8. ASSUME NEW k \in Keys, Fire(k) PROVE PanicsHaveCause'
  BY <1>8 DEF Fire
<1>9. ASSUME NEW k \in Keys, Drop(k) PROVE PanicsHaveCause'
  BY <1>9 DEF Drop
<1>10. ASSUME NEW t \in Threads, LockReturns(t) PROVE PanicsHaveCause'
  BY <1>10 DEF LockReturns, CreateRenewer, Return, EndRpc
<1>11. ASSUME NEW t \in Threads, LockFails(t) PROVE PanicsHaveCause'
  BY <1>11 DEF LockFails, Return, EndRpc
<1>12. ASSUME NEW t \in Threads, UnlockReturns(t) PROVE PanicsHaveCause'
  BY <1>12 DEF UnlockReturns, Return, EndRpc
<1>13. ASSUME NEW t \in Threads, StopSends(t) PROVE PanicsHaveCause'
  BY <1>13 DEF StopSends
<1>14. ASSUME NEW t \in Threads, StopMisses(t) PROVE PanicsHaveCause'
  BY <1>14 DEF StopMisses, Stopped, AfterStop, StartRpc, Attempt
<1>15. ASSUME NEW t \in Threads, StopPanics(t) PROVE PanicsHaveCause'
  BY <1>15 DEF StopPanics
<1>16. ASSUME NEW t \in Threads, StopReturns(t) PROVE PanicsHaveCause'
  BY <1>16 DEF StopReturns, Stopped, AfterStop, StartRpc, Attempt
<1>17. ASSUME NEW t \in Threads, NEW u \in Threads \ {t}, StopMeetsStop(t, u)
      PROVE PanicsHaveCause'
  BY <1>17 DEF StopMeetsStop, Stopped, AfterStop, StartRpc, Attempt
<1>18. ASSUME NEW t \in Threads, NEW k \in Keys, CloseNext(t, k)
      PROVE PanicsHaveCause'
  BY <1>18 DEF CloseNext, InMap
<1>19. ASSUME NEW t \in Threads, CloseConn(t) PROVE PanicsHaveCause'
  BY <1>19 DEF CloseConn, Return, InFlight, InMap
<1>20. ASSUME NEW k \in Keys, RenewerBegins(k) PROVE PanicsHaveCause'
  BY <1>20 DEF RenewerBegins
<1>21. ASSUME NEW k \in Keys, Renewed(k) PROVE PanicsHaveCause'
  BY <1>21 DEF Renewed, EndRpc
<1>22. ASSUME NEW k \in Keys, RenewPanics(k) PROVE PanicsHaveCause'
  BY <1>22 DEF RenewPanics
<1>23. ASSUME NEW k \in Keys, RenewerEnds(k) PROVE PanicsHaveCause'
  BY <1>23 DEF RenewerEnds
<1>24. ASSUME NEW k \in Keys, RenewStarts(k) PROVE PanicsHaveCause'
  BY <1>24 DEF RenewStarts, StartRpc, Attempt
<1>25. ASSUME NEW p \in Procs, Retry(p) PROVE PanicsHaveCause'
  BY <1>25 DEF Retry, Attempt
<1>26. ASSUME Break PROVE PanicsHaveCause'
  BY <1>26 DEF Break, InFlight
<1>27. ASSUME Reconnect PROVE PanicsHaveCause'
  BY <1>27 DEF Reconnect
<1>28. ASSUME CancelCtx PROVE PanicsHaveCause'
  BY <1>28 DEF CancelCtx, InFlight
<1>29. CASE UNCHANGED vars
  BY <1>29 DEF vars
<1> HIDE DEF IndInv, TypeOK, CallInv, NameInv, KeyInv, Pending, Unlocking, Mapped,
             Args, Procs, MapInv, StopInv, Stopping, Renews, Alive, Calm, Closing,
             PanicsHaveCause
<1> QED
  BY <1>1, <1>2, <1>3, <1>4, <1>5, <1>6, <1>7, <1>8, <1>9, <1>10, <1>11, <1>12,
     <1>13, <1>14, <1>15, <1>16, <1>17, <1>18, <1>19, <1>20, <1>21, <1>22, <1>23,
     <1>24, <1>25, <1>26, <1>27, <1>28, <1>29
  DEF Next, ProgramStep, ServerStep, ThreadStep, RenewerStep

-----------------------------------------------------------------------------
\* Nothing is locked, and nobody runs, at the start.
LEMMA InitInd == Init => IndInv
<1> SUFFICES ASSUME Init PROVE IndInv
  OBVIOUS
<1> USE DEF Init
<1>1. TypeOK
  <2>1. MaxRetries \in Nat /\ 0 \in 0..MaxRetries
    BY DEF ClientAssumption
  <2>2. RpcTypeOK
    BY <2>1 DEF RpcTypeOK
  <2> QED
    BY <2>2 DEF TypeOK, RpcTypeOK
<1>2. CallInv
  BY DEF CallInv, Procs
<1>3. NameInv /\ KeyInv
  BY DEF NameInv, KeyInv, Pending, Unlocking, Mapped
<1>4. MapInv /\ StopInv
  BY DEF MapInv, StopInv, Unlocking, Stopping, Renews, Procs
<1>5. KeepInv
  BY DEF KeepInv, Pending, Procs
<1>6. KeptWhileRenewed /\ PanicsHaveCause
  BY DEF KeptWhileRenewed, PanicsHaveCause
<1> QED
  BY <1>1, <1>2, <1>3, <1>4, <1>5, <1>6 DEF IndInv

\* The parts together.
LEMMA NextInd == IndInv /\ [Next]_vars => IndInv'
  BY TypeStep, CallStep, NameStep, KeyStep, MapStep, StopStep, KeepStep, KeptStep,
     PanicStep DEF IndInv

\* The invariant holds in every reachable state.
THEOREM Inductive == Spec => []IndInv
  BY InitInd, NextInd, PTL DEF Spec

\* Every variable of the client and of its view of the server keeps its type.
THEOREM TypeCorrect == Spec => []TypeOK
  BY Inductive, PTL DEF IndInv

\* A lock that is renewed in time stays locked until its Unlock
\* (client.go:430-448).
THEOREM Kept == Spec => []KeptWhileRenewed
  BY Inductive, PTL DEF IndInv

\* The library panics (client.go:364, 444, 457) only for the causes named.
THEOREM Panics == Spec => []PanicsHaveCause
  BY Inductive, PTL DEF IndInv

\* Two goroutines renew one name only if Stop missed one (client.go:455) or the
\* server dropped its lock.
THEOREM OneRenewer == Spec => []OneRenewerPerName
<1>1. ASSUME IndInv, NEW n \in Names
      PROVE  Cardinality({k \in Keys \ (missed \cup lost) :
               nameOf[k] = n /\ Renews(k)}) <= 1
  <2> DEFINE R == {k \in Keys \ (missed \cup lost) :
                     nameOf[k] = n /\ Renews(k)}
  <2>1. \A j, k \in R : j = k
    BY <1>1 DEF IndInv, StopInv, NameInv
  <2> HIDE DEF R
  <2>2. ASSUME R = {} PROVE Cardinality(R) <= 1
    <3>1. Cardinality({}) = 0
      BY FS_EmptySet
    <3> QED
      BY <2>2, <3>1
  <2>3. ASSUME R # {} PROVE Cardinality(R) <= 1
    <3>1. PICK k \in R : TRUE
      BY <2>3
    <3>2. R = {k}
      BY <2>1, <3>1
    <3>3. Cardinality({k}) = 1
      BY FS_Singleton
    <3> QED
      BY <3>2, <3>3
  <2>4. Cardinality(R) <= 1
    BY <2>2, <2>3
  <2> QED
    BY <2>4 DEF R
<1>2. IndInv => OneRenewerPerName
  BY <1>1 DEF OneRenewerPerName
<1> QED
  BY Inductive, <1>2, PTL
=============================================================================
