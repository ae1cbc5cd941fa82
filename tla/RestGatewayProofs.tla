------------------------- MODULE RestGatewayProofs -------------------------
(***************************************************************************)
(* Proofs about RestGateway, for any number of sessions and goroutines.    *)
(***************************************************************************)
EXTENDS RestGateway, FiniteSetTheorems, TLAPS

USE RestAssumption

-----------------------------------------------------------------------------
(* The inductive invariant.                                                *)

\* A mutex is held at the steps between its Lock and its Unlock, and by
\* nobody else.
MtxInv ==
  /\ \A t \in Threads : sessionsMtx = t <=> pc[t] \in {"rearm", "lock", "panicked"}
  /\ \A i \in Ids : sessionsMtx = i <=> cb[i] = "lock"
  /\ \A i \in Ids, t \in Threads :
       sMtx[i] = t <=> on[t] = i /\ pc[t] \in {"serve", "deleteEnd"}
  /\ \A i, j \in Ids : sMtx[i] = j <=> j = i /\ cb[i] = "end"

\* Nobody has heard of session i.
Unknown(i) ==
  i \notin sessions \cup cookies \cup timers /\ timer[i] = "none" /\ cb[i] = "none"

\* Ids are fresh: a session is known to the one that creates it only.
FreshInv ==
  /\ \A i \in Ids : grpc[i] = "none" => Unknown(i) /\ \A t \in Threads : on[t] # i
  /\ \A t \in Threads : pc[t] = "create" =>
       /\ grpc[on[t]] = "live" /\ Unknown(on[t])
       /\ \A u \in Threads : on[u] = on[t] => u = t

\* A timer in the map that may still fire has its session; a timeout runs once
\* and never against a timer that is being reset.
TimerInv ==
  /\ \A i \in Ids :
       /\ cb[i] # "none" => timer[i] = "fired"
       /\ i \in timers /\ timer[i] = "armed" => i \in sessions
       /\ cb[i] \in {"lock", "end", "remove"} => i \notin sessions
  /\ \A t \in Threads : pc[t] = "rearm" => timer[on[t]] = "stopped"

\* Sessions in the map and sessions that are being served are live, and those
\* that end are live for the last time and have one that ends them.
LifeInv ==
  /\ \A i \in sessions : grpc[i] = "live"
  /\ \A t \in Threads :
       /\ pc[t] \in {"rearm", "lock"} => on[t] \in sessions
       /\ pc[t] = "serve" => grpc[on[t]] = "live"
  /\ \A i \in Ids : \A e \in Enders(i) :
       grpc[i] = "live" /\ i \notin sessions /\ \A f \in Enders(i) : e = f

IndInv == TypeOK /\ MtxInv /\ FreshInv /\ TimerInv /\ LifeInv /\ SessionsWillEnd

-----------------------------------------------------------------------------
(* Each part is preserved by every step.                                   *)

\* Every handler, timeout and closer keeps the types.
LEMMA TypeStep ==
  ASSUME IndInv, [Next]_vars
  PROVE  TypeOK'
<1> USE DEF IndInv, TypeOK, TM!TypeOK, TM!TimerStates
<1>1. ASSUME NEW t \in Threads, NEW i \in Ids, CreateSession(t, i) PROVE TypeOK'
  BY <1>1 DEF CreateSession, Begin, tmVars
<1>2. ASSUME NEW t \in Threads, NEW i \in Ids, Request(t, i) PROVE TypeOK'
  BY <1>2 DEF Request, Begin, tmVars
<1>3. ASSUME NEW t \in Threads, NEW i \in Ids, DestroySession(t, i) PROVE TypeOK'
  BY <1>3 DEF DestroySession, Begin, tmVars
<1>4. ASSUME NEW t \in Threads, CreateEntry(t) PROVE TypeOK'
  BY <1>4 DEF CreateEntry, Return, TM!Add, tmVars
<1>5. ASSUME NEW t \in Threads, CreatePanics(t) PROVE TypeOK'
  BY <1>5 DEF CreatePanics, Goto, TM!AddToNil, tmVars
<1>6. ASSUME NEW t \in Threads, Validate(t) PROVE TypeOK'
  BY <1>6 DEF Validate, Goto, TM!LookUp, TM!ResetStop, tmVars
<1>7. ASSUME NEW t \in Threads, Unauthorized(t) PROVE TypeOK'
  BY <1>7 DEF Unauthorized, Return, tmVars
<1>8. ASSUME NEW t \in Threads, Rearm(t) PROVE TypeOK'
  BY <1>8 DEF Rearm, Goto, TM!ResetArm, tmVars
<1>9. ASSUME NEW t \in Threads, LockSession(t) PROVE TypeOK'
  BY <1>9 DEF LockSession, Goto, tmVars
<1>10. ASSUME NEW t \in Threads, Serve(t) PROVE TypeOK'
  BY <1>10 DEF Serve, Return, tmVars
<1>11. ASSUME NEW t \in Threads, Conflict(t) PROVE TypeOK'
  BY <1>11 DEF Conflict, Return, tmVars
<1>12. ASSUME NEW t \in Threads, DeleteEntry(t) PROVE TypeOK'
  BY <1>12 DEF DeleteEntry, Goto, TM!Remove, tmVars
<1>13. ASSUME NEW t \in Threads, DeleteLock(t) PROVE TypeOK'
  BY <1>13 DEF DeleteLock, Goto, tmVars
<1>14. ASSUME NEW t \in Threads, DeleteEnd(t) PROVE TypeOK'
  BY <1>14 DEF DeleteEnd, EndSession, Return, tmVars
<1>15. ASSUME NEW i \in Ids, Fire(i) PROVE TypeOK'
  BY <1>15 DEF Fire, TM!Fire, tmVars
<1>16. ASSUME NEW i \in Ids, Timeout(i) PROVE TypeOK'
  BY <1>16 DEF Timeout, tmVars
<1>17. ASSUME NEW i \in Ids, TimeoutLock(i) PROVE TypeOK'
  BY <1>17 DEF TimeoutLock, tmVars
<1>18. ASSUME NEW i \in Ids, TimeoutEnd(i) PROVE TypeOK'
  BY <1>18 DEF TimeoutEnd, EndSession, tmVars
<1>19. ASSUME NEW i \in Ids, TimeoutRemove(i) PROVE TypeOK'
  BY <1>19 DEF TimeoutRemove, TM!Remove, tmVars
<1>20. ASSUME CloseTimers PROVE TypeOK'
  BY <1>20 DEF CloseTimers, TM!Shutdown, tmVars
<1>21. ASSUME CloseServer PROVE TypeOK'
  BY <1>21 DEF CloseServer, tmVars
<1>22. CASE UNCHANGED vars
  BY <1>22 DEF vars, tmVars
<1> QED
  BY <1>1, <1>2, <1>3, <1>4, <1>5, <1>6, <1>7, <1>8, <1>9, <1>10, <1>11, <1>12, <1>13, <1>14, <1>15, <1>16, <1>17, <1>18, <1>19, <1>20, <1>21, <1>22
  DEF Next, ClientStep, HandlerStep, TimeoutStep

\* Every Lock has its Unlock on the same path.
LEMMA MtxStep ==
  ASSUME IndInv, [Next]_vars
  PROVE  MtxInv'
<1> USE DEF IndInv, TypeOK, MtxInv
<1>1. ASSUME NEW t \in Threads, NEW i \in Ids, CreateSession(t, i) PROVE MtxInv'
  BY <1>1 DEF CreateSession, Begin, tmVars
<1>2. ASSUME NEW t \in Threads, NEW i \in Ids, Request(t, i) PROVE MtxInv'
  BY <1>2 DEF Request, Begin, tmVars
<1>3. ASSUME NEW t \in Threads, NEW i \in Ids, DestroySession(t, i) PROVE MtxInv'
  BY <1>3 DEF DestroySession, Begin, tmVars
<1>4. ASSUME NEW t \in Threads, CreateEntry(t) PROVE MtxInv'
  BY <1>4 DEF CreateEntry, Return, TM!Add, tmVars
<1>5. ASSUME NEW t \in Threads, CreatePanics(t) PROVE MtxInv'
  BY <1>5 DEF CreatePanics, Goto, TM!AddToNil, tmVars
<1>6. ASSUME NEW t \in Threads, Validate(t) PROVE MtxInv'
  BY <1>6 DEF Validate, Goto, TM!LookUp, TM!ResetStop, tmVars
<1>7. ASSUME NEW t \in Threads, Unauthorized(t) PROVE MtxInv'
  BY <1>7 DEF Unauthorized, Return, tmVars
<1>8. ASSUME NEW t \in Threads, Rearm(t) PROVE MtxInv'
  BY <1>8 DEF Rearm, Goto, TM!ResetArm, tmVars
<1>9. ASSUME NEW t \in Threads, LockSession(t) PROVE MtxInv'
  BY <1>9 DEF LockSession, Goto, tmVars
<1>10. ASSUME NEW t \in Threads, Serve(t) PROVE MtxInv'
  BY <1>10 DEF Serve, Return, tmVars
<1>11. ASSUME NEW t \in Threads, Conflict(t) PROVE MtxInv'
  BY <1>11 DEF Conflict, Return, tmVars
<1>12. ASSUME NEW t \in Threads, DeleteEntry(t) PROVE MtxInv'
  BY <1>12 DEF DeleteEntry, Goto, TM!Remove, tmVars
<1>13. ASSUME NEW t \in Threads, DeleteLock(t) PROVE MtxInv'
  BY <1>13 DEF DeleteLock, Goto, tmVars
<1>14. ASSUME NEW t \in Threads, DeleteEnd(t) PROVE MtxInv'
  BY <1>14 DEF DeleteEnd, EndSession, Return, tmVars
<1>15. ASSUME NEW i \in Ids, Fire(i) PROVE MtxInv'
  BY <1>15 DEF Fire, TM!Fire, TimerInv, tmVars
<1>16. ASSUME NEW i \in Ids, Timeout(i) PROVE MtxInv'
  BY <1>16 DEF Timeout, tmVars
<1>17. ASSUME NEW i \in Ids, TimeoutLock(i) PROVE MtxInv'
  BY <1>17 DEF TimeoutLock, tmVars
<1>18. ASSUME NEW i \in Ids, TimeoutEnd(i) PROVE MtxInv'
  BY <1>18 DEF TimeoutEnd, EndSession, tmVars
<1>19. ASSUME NEW i \in Ids, TimeoutRemove(i) PROVE MtxInv'
  BY <1>19 DEF TimeoutRemove, TM!Remove, tmVars
<1>20. ASSUME CloseTimers PROVE MtxInv'
  BY <1>20 DEF CloseTimers, TM!Shutdown, tmVars
<1>21. ASSUME CloseServer PROVE MtxInv'
  BY <1>21 DEF CloseServer, tmVars
<1>22. CASE UNCHANGED vars
  BY <1>22 DEF vars, tmVars
<1> QED
  BY <1>1, <1>2, <1>3, <1>4, <1>5, <1>6, <1>7, <1>8, <1>9, <1>10, <1>11, <1>12, <1>13, <1>14, <1>15, <1>16, <1>17, <1>18, <1>19, <1>20, <1>21, <1>22
  DEF Next, ClientStep, HandlerStep, TimeoutStep

\* A session becomes known when its entry is made.
LEMMA FreshStep ==
  ASSUME IndInv, [Next]_vars
  PROVE  FreshInv'
<1> USE DEF IndInv, TypeOK, TM!TypeOK, FreshInv, Unknown
<1>1. ASSUME NEW t \in Threads, NEW i \in Ids, CreateSession(t, i) PROVE FreshInv'
  BY <1>1 DEF CreateSession, Begin, tmVars
<1>2. ASSUME NEW t \in Threads, NEW i \in Ids, Request(t, i) PROVE FreshInv'
  BY <1>2 DEF Request, Begin, tmVars
<1>3. ASSUME NEW t \in Threads, NEW i \in Ids, DestroySession(t, i) PROVE FreshInv'
  BY <1>3 DEF DestroySession, Begin, tmVars
<1>4. ASSUME NEW t \in Threads, CreateEntry(t) PROVE FreshInv'
  BY <1>4 DEF CreateEntry, Return, TM!Add, tmVars
<1>5. ASSUME NEW t \in Threads, CreatePanics(t) PROVE FreshInv'
  BY <1>5 DEF CreatePanics, Goto, TM!AddToNil, tmVars
<1>6. ASSUME NEW t \in Threads, Validate(t) PROVE FreshInv'
  BY <1>6 DEF Validate, Goto, TM!LookUp, TM!ResetStop, tmVars
<1>7. ASSUME NEW t \in Threads, Unauthorized(t) PROVE FreshInv'
  BY <1>7 DEF Unauthorized, Return, tmVars
<1>8. ASSUME NEW t \in Threads, Rearm(t) PROVE FreshInv'
  BY <1>8 DEF Rearm, Goto, TM!ResetArm, tmVars
<1>9. ASSUME NEW t \in Threads, LockSession(t) PROVE FreshInv'
  BY <1>9 DEF LockSession, Goto, tmVars
<1>10. ASSUME NEW t \in Threads, Serve(t) PROVE FreshInv'
  BY <1>10 DEF Serve, Return, tmVars
<1>11. ASSUME NEW t \in Threads, Conflict(t) PROVE FreshInv'
  BY <1>11 DEF Conflict, Return, tmVars
<1>12. ASSUME NEW t \in Threads, DeleteEntry(t) PROVE FreshInv'
  BY <1>12 DEF DeleteEntry, Goto, TM!Remove, tmVars
<1>13. ASSUME NEW t \in Threads, DeleteLock(t) PROVE FreshInv'
  BY <1>13 DEF DeleteLock, Goto, tmVars
<1>14. ASSUME NEW t \in Threads, DeleteEnd(t) PROVE FreshInv'
  BY <1>14 DEF DeleteEnd, EndSession, Return, tmVars
<1>15. ASSUME NEW i \in Ids, Fire(i) PROVE FreshInv'
  BY <1>15 DEF Fire, TM!Fire, tmVars
<1>16. ASSUME NEW i \in Ids, Timeout(i) PROVE FreshInv'
  BY <1>16 DEF Timeout, tmVars
<1>17. ASSUME NEW i \in Ids, TimeoutLock(i) PROVE FreshInv'
  BY <1>17 DEF TimeoutLock, tmVars
<1>18. ASSUME NEW i \in Ids, TimeoutEnd(i) PROVE FreshInv'
  BY <1>18 DEF TimeoutEnd, EndSession, tmVars
<1>19. ASSUME NEW i \in Ids, TimeoutRemove(i) PROVE FreshInv'
  BY <1>19 DEF TimeoutRemove, TM!Remove, tmVars
<1>20. ASSUME CloseTimers PROVE FreshInv'
  BY <1>20 DEF CloseTimers, TM!Shutdown, tmVars
<1>21. ASSUME CloseServer PROVE FreshInv'
  BY <1>21 DEF CloseServer, tmVars
<1>22. CASE UNCHANGED vars
  BY <1>22 DEF vars, tmVars
<1> QED
  BY <1>1, <1>2, <1>3, <1>4, <1>5, <1>6, <1>7, <1>8, <1>9, <1>10, <1>11, <1>12, <1>13, <1>14, <1>15, <1>16, <1>17, <1>18, <1>19, <1>20, <1>21, <1>22
  DEF Next, ClientStep, HandlerStep, TimeoutStep

\* Sessions and their timers leave the two maps together, or the timeout is
\* under way.
LEMMA TimerStep ==
  ASSUME IndInv, [Next]_vars
  PROVE  TimerInv'
<1> USE DEF IndInv, TypeOK, TM!TypeOK, MtxInv, FreshInv, Unknown, TimerInv
<1>1. ASSUME NEW t \in Threads, NEW i \in Ids, CreateSession(t, i) PROVE TimerInv'
  BY <1>1 DEF CreateSession, Begin, tmVars
<1>2. ASSUME NEW t \in Threads, NEW i \in Ids, Request(t, i) PROVE TimerInv'
  BY <1>2 DEF Request, Begin, tmVars
<1>3. ASSUME NEW t \in Threads, NEW i \in Ids, DestroySession(t, i) PROVE TimerInv'
  BY <1>3 DEF DestroySession, Begin, tmVars
<1>4. ASSUME NEW t \in Threads, CreateEntry(t) PROVE TimerInv'
  BY <1>4 DEF CreateEntry, Return, TM!Add, tmVars
<1>5. ASSUME NEW t \in Threads, CreatePanics(t) PROVE TimerInv'
  BY <1>5 DEF CreatePanics, Goto, TM!AddToNil, tmVars
<1>6. ASSUME NEW t \in Threads, Validate(t) PROVE TimerInv'
  BY <1>6 DEF Validate, Goto, TM!LookUp, TM!ResetStop, tmVars
<1>7. ASSUME NEW t \in Threads, Unauthorized(t) PROVE TimerInv'
  BY <1>7 DEF Unauthorized, Return, tmVars
<1>8. ASSUME NEW t \in Threads, Rearm(t) PROVE TimerInv'
  BY <1>8 DEF Rearm, Goto, TM!ResetArm, LifeInv, tmVars
<1>9. ASSUME NEW t \in Threads, LockSession(t) PROVE TimerInv'
  BY <1>9 DEF LockSession, Goto, tmVars
<1>10. ASSUME NEW t \in Threads, Serve(t) PROVE TimerInv'
  BY <1>10 DEF Serve, Return, tmVars
<1>11. ASSUME NEW t \in Threads, Conflict(t) PROVE TimerInv'
  BY <1>11 DEF Conflict, Return, tmVars
<1>12. ASSUME NEW t \in Threads, DeleteEntry(t) PROVE TimerInv'
  BY <1>12 DEF DeleteEntry, Goto, TM!Remove, tmVars
<1>13. ASSUME NEW t \in Threads, DeleteLock(t) PROVE TimerInv'
  BY <1>13 DEF DeleteLock, Goto, tmVars
<1>14. ASSUME NEW t \in Threads, DeleteEnd(t) PROVE TimerInv'
  BY <1>14 DEF DeleteEnd, EndSession, Return, tmVars
<1>15. ASSUME NEW i \in Ids, Fire(i) PROVE TimerInv'
  BY <1>15 DEF Fire, TM!Fire, tmVars
<1>16. ASSUME NEW i \in Ids, Timeout(i) PROVE TimerInv'
  BY <1>16 DEF Timeout, tmVars
<1>17. ASSUME NEW i \in Ids, TimeoutLock(i) PROVE TimerInv'
  BY <1>17 DEF TimeoutLock, tmVars
<1>18. ASSUME NEW i \in Ids, TimeoutEnd(i) PROVE TimerInv'
  BY <1>18 DEF TimeoutEnd, EndSession, tmVars
<1>19. ASSUME NEW i \in Ids, TimeoutRemove(i) PROVE TimerInv'
  BY <1>19 DEF TimeoutRemove, TM!Remove, tmVars
<1>20. ASSUME CloseTimers PROVE TimerInv'
  BY <1>20 DEF CloseTimers, TM!Shutdown, tmVars
<1>21. ASSUME CloseServer PROVE TimerInv'
  BY <1>21 DEF CloseServer, tmVars
<1>22. CASE UNCHANGED vars
  BY <1>22 DEF vars, tmVars
<1> QED
  BY <1>1, <1>2, <1>3, <1>4, <1>5, <1>6, <1>7, <1>8, <1>9, <1>10, <1>11, <1>12, <1>13, <1>14, <1>15, <1>16, <1>17, <1>18, <1>19, <1>20, <1>21, <1>22
  DEF Next, ClientStep, HandlerStep, TimeoutStep

\* Whoever ends a session has taken it out of the map before and holds its
\* mutex.
LEMMA LifeStep ==
  ASSUME IndInv, [Next]_vars
  PROVE  LifeInv'
<1> USE DEF IndInv, TypeOK, TM!TypeOK, MtxInv, FreshInv, Unknown, TimerInv, LifeInv, Enders
<1>1. ASSUME NEW t \in Threads, NEW i \in Ids, CreateSession(t, i) PROVE LifeInv'
  BY <1>1 DEF CreateSession, Begin, tmVars
<1>2. ASSUME NEW t \in Threads, NEW i \in Ids, Request(t, i) PROVE LifeInv'
  BY <1>2 DEF Request, Begin, tmVars
<1>3. ASSUME NEW t \in Threads, NEW i \in Ids, DestroySession(t, i) PROVE LifeInv'
  BY <1>3 DEF DestroySession, Begin, tmVars
<1>4. ASSUME NEW t \in Threads, CreateEntry(t) PROVE LifeInv'
  BY <1>4 DEF CreateEntry, Return, TM!Add, tmVars
<1>5. ASSUME NEW t \in Threads, CreatePanics(t) PROVE LifeInv'
  BY <1>5 DEF CreatePanics, Goto, TM!AddToNil, tmVars
<1>6. ASSUME NEW t \in Threads, Validate(t) PROVE LifeInv'
  BY <1>6 DEF Validate, Goto, TM!LookUp, TM!ResetStop, tmVars
<1>7. ASSUME NEW t \in Threads, Unauthorized(t) PROVE LifeInv'
  BY <1>7 DEF Unauthorized, Return, tmVars
<1>8. ASSUME NEW t \in Threads, Rearm(t) PROVE LifeInv'
  BY <1>8 DEF Rearm, Goto, TM!ResetArm, tmVars
<1>9. ASSUME NEW t \in Threads, LockSession(t) PROVE LifeInv'
  BY <1>9 DEF LockSession, Goto, tmVars
<1>10. ASSUME NEW t \in Threads, Serve(t) PROVE LifeInv'
  BY <1>10 DEF Serve, Return, tmVars
<1>11. ASSUME NEW t \in Threads, Conflict(t) PROVE LifeInv'
  BY <1>11 DEF Conflict, Return, tmVars
<1>12. ASSUME NEW t \in Threads, DeleteEntry(t) PROVE LifeInv'
  BY <1>12 DEF DeleteEntry, Goto, TM!Remove, tmVars
<1>13. ASSUME NEW t \in Threads, DeleteLock(t) PROVE LifeInv'
  BY <1>13 DEF DeleteLock, Goto, tmVars
<1>14. ASSUME NEW t \in Threads, DeleteEnd(t) PROVE LifeInv'
  BY <1>14 DEF DeleteEnd, EndSession, Return, tmVars
<1>15. ASSUME NEW i \in Ids, Fire(i) PROVE LifeInv'
  BY <1>15 DEF Fire, TM!Fire, tmVars
<1>16. ASSUME NEW i \in Ids, Timeout(i) PROVE LifeInv'
  BY <1>16 DEF Timeout, tmVars
<1>17. ASSUME NEW i \in Ids, TimeoutLock(i) PROVE LifeInv'
  BY <1>17 DEF TimeoutLock, tmVars
<1>18. ASSUME NEW i \in Ids, TimeoutEnd(i) PROVE LifeInv'
  BY <1>18 DEF TimeoutEnd, EndSession, tmVars
<1>19. ASSUME NEW i \in Ids, TimeoutRemove(i) PROVE LifeInv'
  BY <1>19 DEF TimeoutRemove, TM!Remove, tmVars
<1>20. ASSUME CloseTimers PROVE LifeInv'
  BY <1>20 DEF CloseTimers, TM!Shutdown, tmVars
<1>21. ASSUME CloseServer PROVE LifeInv'
  BY <1>21 DEF CloseServer, tmVars
<1>22. CASE UNCHANGED vars
  BY <1>22 DEF vars, tmVars
<1> QED
  BY <1>1, <1>2, <1>3, <1>4, <1>5, <1>6, <1>7, <1>8, <1>9, <1>10, <1>11, <1>12, <1>13, <1>14, <1>15, <1>16, <1>17, <1>18, <1>19, <1>20, <1>21, <1>22
  DEF Next, ClientStep, HandlerStep, TimeoutStep

\* No step loses a session or its timer.
LEMMA EndStep ==
  ASSUME IndInv, [Next]_vars
  PROVE  SessionsWillEnd'
<1> USE DEF IndInv, TypeOK, TM!TypeOK, MtxInv, FreshInv, Unknown, TimerInv, LifeInv, Enders, SessionsWillEnd
<1>1. ASSUME NEW t \in Threads, NEW i \in Ids, CreateSession(t, i) PROVE SessionsWillEnd'
  BY <1>1 DEF CreateSession, Begin, tmVars
<1>2. ASSUME NEW t \in Threads, NEW i \in Ids, Request(t, i) PROVE SessionsWillEnd'
  BY <1>2 DEF Request, Begin, tmVars
<1>3. ASSUME NEW t \in Threads, NEW i \in Ids, DestroySession(t, i) PROVE SessionsWillEnd'
  BY <1>3 DEF DestroySession, Begin, tmVars
<1>4. ASSUME NEW t \in Threads, CreateEntry(t) PROVE SessionsWillEnd'
  BY <1>4 DEF CreateEntry, Return, TM!Add, tmVars
<1>5. ASSUME NEW t \in Threads, CreatePanics(t) PROVE SessionsWillEnd'
  BY <1>5 DEF CreatePanics, Goto, TM!AddToNil, tmVars
<1>6. ASSUME NEW t \in Threads, Validate(t) PROVE SessionsWillEnd'
  BY <1>6 DEF Validate, Goto, TM!LookUp, TM!ResetStop, tmVars
<1>7. ASSUME NEW t \in Threads, Unauthorized(t) PROVE SessionsWillEnd'
  BY <1>7 DEF Unauthorized, Return, tmVars
<1>8. ASSUME NEW t \in Threads, Rearm(t) PROVE SessionsWillEnd'
  BY <1>8 DEF Rearm, Goto, TM!ResetArm, tmVars
<1>9. ASSUME NEW t \in Threads, LockSession(t) PROVE SessionsWillEnd'
  BY <1>9 DEF LockSession, Goto, tmVars
<1>10. ASSUME NEW t \in Threads, Serve(t) PROVE SessionsWillEnd'
  BY <1>10 DEF Serve, Return, tmVars
<1>11. ASSUME NEW t \in Threads, Conflict(t) PROVE SessionsWillEnd'
  BY <1>11 DEF Conflict, Return, tmVars
<1>12. ASSUME NEW t \in Threads, DeleteEntry(t) PROVE SessionsWillEnd'
  BY <1>12 DEF DeleteEntry, Goto, TM!Remove, tmVars
<1>13. ASSUME NEW t \in Threads, DeleteLock(t) PROVE SessionsWillEnd'
  BY <1>13 DEF DeleteLock, Goto, tmVars
<1>14. ASSUME NEW t \in Threads, DeleteEnd(t) PROVE SessionsWillEnd'
  BY <1>14 DEF DeleteEnd, EndSession, Return, tmVars
<1>15. ASSUME NEW i \in Ids, Fire(i) PROVE SessionsWillEnd'
  BY <1>15 DEF Fire, TM!Fire, tmVars
<1>16. ASSUME NEW i \in Ids, Timeout(i) PROVE SessionsWillEnd'
  BY <1>16 DEF Timeout, tmVars
<1>17. ASSUME NEW i \in Ids, TimeoutLock(i) PROVE SessionsWillEnd'
  BY <1>17 DEF TimeoutLock, tmVars
<1>18. ASSUME NEW i \in Ids, TimeoutEnd(i) PROVE SessionsWillEnd'
  BY <1>18 DEF TimeoutEnd, EndSession, tmVars
<1>19. ASSUME NEW i \in Ids, TimeoutRemove(i) PROVE SessionsWillEnd'
  BY <1>19 DEF TimeoutRemove, TM!Remove, tmVars
<1>20. ASSUME CloseTimers PROVE SessionsWillEnd'
  BY <1>20 DEF CloseTimers, TM!Shutdown, tmVars
<1>21. ASSUME CloseServer PROVE SessionsWillEnd'
  BY <1>21 DEF CloseServer, tmVars
<1>22. CASE UNCHANGED vars
  BY <1>22 DEF vars, tmVars
<1> QED
  BY <1>1, <1>2, <1>3, <1>4, <1>5, <1>6, <1>7, <1>8, <1>9, <1>10, <1>11, <1>12, <1>13, <1>14, <1>15, <1>16, <1>17, <1>18, <1>19, <1>20, <1>21, <1>22
  DEF Next, ClientStep, HandlerStep, TimeoutStep

-----------------------------------------------------------------------------
\* No session, no timer and no handler at the start.
LEMMA InitInd == Init => IndInv
  BY DEF Init, IndInv, TypeOK, TM!Init, TM!TypeOK, TM!TimerStates, MtxInv, FreshInv,
         Unknown, TimerInv, LifeInv, Enders, SessionsWillEnd

\* The parts together.
LEMMA NextInd == IndInv /\ [Next]_vars => IndInv'
  BY TypeStep, MtxStep, FreshStep, TimerStep, LifeStep, EndStep DEF IndInv

\* The invariant holds in every reachable state.
THEOREM Inductive == Spec => []IndInv
  BY InitInd, NextInd, PTL DEF Spec

\* Every variable of the gateway keeps its type.
THEOREM TypeCorrect == Spec => []TypeOK
  BY Inductive, PTL DEF IndInv

\* A request that ValidateSession let in finds its session in the map and runs
\* before the session ends (rest.go:150-171).
THEOREM Served == Spec => []ServedInLiveSession
<1>1. IndInv => ServedInLiveSession
  BY DEF IndInv, TypeOK, MtxInv, LifeInv, ServedInLiveSession
<1> QED
  BY Inductive, <1>1, PTL

\* DELETEs and the timeout of a session end it once (rest.go:188-204, 276-293).
THEOREM EndOnce == Spec => []EndsOnce
<1>1. ASSUME IndInv, NEW i \in Ids, Enders(i) # {}
      PROVE  Cardinality(Enders(i)) = 1 /\ grpc[i] = "live" /\ i \notin sessions
  <2>1. PICK e \in Enders(i) : TRUE
    BY <1>1
  <2>2. Enders(i) = {e}
    BY <1>1, <2>1 DEF IndInv, LifeInv
  <2>3. Cardinality({e}) = 1
    BY FS_Singleton
  <2> QED
    BY <1>1, <2>1, <2>2, <2>3 DEF IndInv, LifeInv
<1>2. IndInv => EndsOnce
  BY <1>1 DEF EndsOnce
<1> QED
  BY Inductive, <1>2, PTL

\* A session of the lock server that REST has made is never forgotten, nor left
\* without a timer while the gateway is open.
THEOREM WillEnd == Spec => []SessionsWillEnd
  BY Inductive, PTL DEF IndInv
=============================================================================
