--------------------------- MODULE SessionManager ---------------------------
(***************************************************************************)
(* The table of the locks that each client session holds, and its copy in  *)
(* the state file: src/server/session/session.go, with src/server/session/ *)
(* store behind it.  Every operation runs under sessionLocksMtx.           *)
(*                                                                         *)
(* The list of a session's locks is abstracted to a set: a lock appears at *)
(* most once in it, and no operation depends on the order.                 *)
(***************************************************************************)
CONSTANTS Sessions, Locks  \* Locks: records of name, key and size

VARIABLES sessionLocks,    \* sessionManager.sessionLocks, a partial function
          file             \* what the state file holds

sessionVars == <<sessionLocks, file>>

IsTable(f) == DOMAIN f \subseteq Sessions /\ f \in [DOMAIN f -> SUBSET Locks]

TypeOK == IsTable(sessionLocks) /\ IsTable(file)

EmptyTable == [s \in {} |-> {}]

Init == sessionLocks = EmptyTable /\ file = EmptyTable

-----------------------------------------------------------------------------
HasEntry(s) == s \in DOMAIN sessionLocks

LocksOf(s) == IF HasEntry(s) THEN sessionLocks[s] ELSE {}

\* The table with the entry of s set to L.
WithEntry(s, L) ==
  [x \in DOMAIN sessionLocks \cup {s} |-> IF x = s THEN L ELSE sessionLocks[x]]

WithoutEntry(s) == [x \in DOMAIN sessionLocks \ {s} |-> sessionLocks[x]]

\* Save writes the whole table.
Save == file' = sessionLocks'

\* The table after a restart.
Load == sessionLocks' = file /\ UNCHANGED file

\* A new session is not saved until it gets its first lock.
CreateSession(s) ==
  /\ sessionLocks' = WithEntry(s, LocksOf(s))
  /\ UNCHANGED file

\* Returns LocksOf(s).
DestroySession(s) ==
  IF HasEntry(s) THEN sessionLocks' = WithoutEntry(s) /\ Save
                 ELSE UNCHANGED sessionVars

\* Fault: the table is not saved.
AddLockUnsaved(s, l) == sessionLocks' = WithEntry(s, LocksOf(s) \cup {l}) /\ UNCHANGED file

\* Makes an entry when the session has none.
AddLock(s, l) == sessionLocks' = WithEntry(s, LocksOf(s) \cup {l}) /\ Save

\* Without an entry RemoveLock panics: callers see to that case.
RemoveLock(s, l) ==
  /\ HasEntry(s)
  /\ IF LocksOf(s) = {} THEN UNCHANGED sessionVars
                        ELSE sessionLocks' = WithEntry(s, LocksOf(s) \ {l}) /\ Save
=============================================================================
