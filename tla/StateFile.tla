----------------------------- MODULE StateFile -----------------------------
(***************************************************************************)
(* What the state file promises to the lock server: a restart finds the    *)
(* table that was saved last.  Only a crash while a table is being saved,  *)
(* or after a save that failed, may find something else: an older table of *)
(* those since the last good save, none, or a file that cannot be read.    *)
(*                                                                         *)
(* SessionStore.tla has the file itself and is checked to implement this.  *)
(***************************************************************************)
CONSTANTS Tables,    \* the tables of sessions and their locks
          Empty      \* the one without sessions

VARIABLES table,     \* the table handed to the file last, or loaded
          durable,   \* the tables that a restart may find
          phase      \* "ready", "saving", "down", "unreadable"

fileVars == <<table, durable, phase>>

Init == table = Empty /\ durable = {Empty} /\ phase = "ready"

Save(t) ==
  /\ phase = "ready" /\ phase' = "saving"
  /\ table' = t
  /\ durable' = durable \cup {t, Empty}

Saved ==
  /\ phase = "saving" /\ phase' = "ready"
  /\ durable' = {table}
  /\ UNCHANGED table

\* The file or the disk fails and the server goes on.
NotSaved ==
  /\ phase = "saving" /\ phase' = "ready"
  /\ UNCHANGED <<table, durable>>

Crash ==
  /\ phase \in {"ready", "saving"} /\ phase' = "down"
  /\ UNCHANGED <<table, durable>>

Recover ==
  /\ phase = "down" /\ phase' = "ready"
  /\ table' \in durable
  /\ UNCHANGED durable

CannotRead ==
  /\ phase = "down" /\ durable # {table}
  /\ phase' = "unreadable"
  /\ UNCHANGED <<table, durable>>

Next == (\E t \in Tables : Save(t)) \/ Saved \/ NotSaved \/ Crash \/ Recover \/ CannotRead

Spec == Init /\ [][Next]_fileVars
=============================================================================
