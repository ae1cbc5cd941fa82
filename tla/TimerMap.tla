------------------------------ MODULE TimerMap ------------------------------
(***************************************************************************)
(* The timers of the locks: src/timermap/timermap.go over time.AfterFunc.  *)
(* Each key gets at most one timer object.  Its entry in the map and the   *)
(* object are two things: Reset works on an object that it looked up       *)
(* earlier, whatever has happened to the entry since.                      *)
(*                                                                         *)
(* Time is abstracted: an armed timer may fire at any moment.              *)
(***************************************************************************)
CONSTANT Keys      \* the map's keys: lock name and lock key

VARIABLES timers,  \* the keys in TimerMap.timers
          timer    \* timer[k]: the state of k's timer object

timerVars == <<timers, timer>>

TimerStates == {"none", "armed", "stopped", "fired"}

TypeOK == timers \subseteq Keys /\ timer \in [Keys -> TimerStates]

Init == timers = {} /\ timer = [k \in Keys |-> "none"]

Add(k) ==
  /\ timers' = timers \cup {k}
  /\ timer'  = [timer EXCEPT ![k] = "armed"]

\* What Remove returns: the timer was stopped before it fired, or there is
\* none.  Stop fails on a timer that is stopped already.
Stopped(k) == k \in timers => timer[k] = "armed"

Remove(k) ==
  /\ timers' = timers \ {k}
  /\ timer'  = [timer EXCEPT ![k] = IF k \in timers /\ @ = "armed"
                                      THEN "stopped" ELSE @]

\* Reset in three steps: the look-up under timersMtx, then, with no mutex
\* held, Stop and time.Timer.Reset on the object.
LookUp(k)    == k \in timers
ResetStop(k) == timer' = [timer EXCEPT ![k] = "stopped"] /\ UNCHANGED timers
ResetArm(k)  == timer' = [timer EXCEPT ![k] = "armed"] /\ UNCHANGED timers

\* The runtime starts the timer's function in a goroutine of its own.
Fire(k) ==
  /\ timer[k] = "armed"
  /\ timer' = [timer EXCEPT ![k] = "fired"]
  /\ UNCHANGED timers

\* All timers are stopped and the map is nil from then on.
Shutdown ==
  /\ timers' = {}
  /\ timer'  = [k \in Keys |-> IF k \in timers /\ timer[k] = "armed"
                                 THEN "stopped" ELSE timer[k]]

\* Add with a nil map: the assignment panics when AfterFunc has started the timer.
AddToNil(k) == timer' = [timer EXCEPT ![k] = "armed"] /\ UNCHANGED timers
=============================================================================
