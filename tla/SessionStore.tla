---------------------------- MODULE SessionStore ----------------------------
(***************************************************************************)
(* The session table of SessionManager with the state file below it:       *)
(* src/server/session/store/store.go.  The file is never replaced.  Write  *)
(* truncates it, writes the encoding of the whole table and syncs.  The    *)
(* process may be killed, and the machine may lose power, between any two  *)
(* of these steps and inside the write; the write and the sync may fail.   *)
(*                                                                         *)
(* The file is a sequence of tokens, not of bytes: the number of sessions, *)
(* then for each session its name, the number of its locks and the locks.  *)
(* The file system keeps the order of operations: after a power loss the   *)
(* file is as it was at the last sync or at some moment since.             *)
(***************************************************************************)
EXTENDS Integers, Sequences, FiniteSets, SequencesExt

CONSTANTS Sessions, Locks,
          MaxFaults       \* bound: crashes, failed writes and failed syncs

ASSUME StoreAssumption == MaxFaults \in Nat /\ IsFiniteSet(Sessions) /\ IsFiniteSet(Locks)

VARIABLES
  sessionLocks,  \* the table in memory
  target,        \* the table last handed to Write, or loaded
  pc,            \* "idle", or the next step of Write: "truncate", "write",
                 \* "sync"; "down"; "unreadable": New failed
  data, pos,     \* what Write writes, and how far it has got
  content,       \* the file
  onDisk,        \* what a power loss may leave of the file
  durable,       \* history: the tables that may be found in the file
  faults

vars == <<sessionLocks, target, pc, data, pos, content, onDisk, durable, faults>>
tableVars == <<sessionLocks, target>>

SM == INSTANCE SessionManager WITH file <- target

Tables == UNION {[D -> SUBSET Locks] : D \in SUBSET Sessions}

-----------------------------------------------------------------------------
(* Encoding.  Maps are written in any order.                               *)

EntryTokens(s, L) == {<<s, Cardinality(L)>> \o q : q \in SetToSeqs(L)}

\* One entry for each session of f.
EntryChoices(f) ==
  {e \in [DOMAIN f -> UNION {EntryTokens(s, f[s]) : s \in DOMAIN f}] :
     \A s \in DOMAIN f : e[s] \in EntryTokens(s, f[s])}

\* The entries e of f in the order q of the sessions.
MarshalMap(f, q, e) ==
  <<Cardinality(DOMAIN f)>> \o FlattenSeq([i \in 1..Len(q) |-> e[q[i]]])

marshalLocks(f) ==
  {MarshalMap(f, q, e) : q \in SetToSeqs(DOMAIN f), e \in EntryChoices(f)}

Encodings == [f \in Tables |-> marshalLocks(f)]

\* unmarshalLocks wants one whole encoding and nothing after it.  An empty
\* file is one without locks.
Readable(c) == c = << >> \/ \E f \in Tables : c \in Encodings[f]

TableIn(c) == IF c = << >> THEN SM!EmptyTable
                           ELSE CHOOSE f \in Tables : c \in Encodings[f]

-----------------------------------------------------------------------------
Init ==
  /\ SM!Init
  /\ pc = "idle" /\ data = << >> /\ pos = 0 /\ faults = 0
  /\ content = << >> /\ onDisk = {<< >>}
  /\ durable = {SM!EmptyTable}

\* The operations that save leave sessionLocksMtx locked until Write is over.
BeginWrite ==
  /\ pc' = "truncate"
  /\ data' \in Encodings[target']
  /\ durable' = durable \cup {target', SM!EmptyTable}
  /\ UNCHANGED <<pos, content, onDisk, faults>>

CreateSession(s) ==
  /\ pc = "idle"
  /\ SM!CreateSession(s)
  /\ UNCHANGED <<pc, data, pos, content, onDisk, durable, faults>>

\* A lock has a key of its own and is added once at a time.
AddLock(s, l) ==
  /\ pc = "idle" /\ \A x \in Sessions : l \notin SM!LocksOf(x)
  /\ SM!AddLock(s, l)
  /\ BeginWrite

\* Without locks in the entry nothing happens.
RemoveLock(s, l) ==
  /\ pc = "idle" /\ SM!LocksOf(s) # {}
  /\ SM!RemoveLock(s, l)
  /\ BeginWrite

DestroySession(s) ==
  /\ pc = "idle" /\ SM!HasEntry(s)
  /\ SM!DestroySession(s)
  /\ BeginWrite

-----------------------------------------------------------------------------
(* Write.                                                                  *)

Forget == data' = << >> /\ pos' = 0

FileBecomes(c) == content' = c /\ onDisk' = onDisk \cup {c}

\* Fault: the file is written over without being truncated.
TruncateSkipped ==
  /\ pc = "truncate" /\ pc' = "write"
  /\ UNCHANGED <<tableVars, data, pos, content, onDisk, durable, faults>>

\* The error of Truncate is ignored; the model has none.
Truncate ==
  /\ pc = "truncate" /\ pc' = "write"
  /\ FileBecomes(<< >>)
  /\ UNCHANGED <<tableVars, data, pos, durable, faults>>

\* A write is not atomic.
WriteToken ==
  /\ pc = "write" /\ pos < Len(data)
  /\ pos' = pos + 1
  /\ FileBecomes(SubSeq(data, 1, pos') \o SubSeq(content, pos' + 1, Len(content)))
  /\ UNCHANGED <<tableVars, pc, data, durable, faults>>

WriteDone ==
  /\ pc = "write" /\ pos = Len(data)
  /\ pc' = "sync"
  /\ Forget
  /\ UNCHANGED <<tableVars, content, onDisk, durable, faults>>

Fault == faults < MaxFaults /\ faults' = faults + 1

\* Write panics.  The panic ends the process, unless it is that of a request
\* over REST, which net/http recovers.
WriteFails ==
  /\ pc = "write" /\ Fault
  /\ pc' \in {"idle", "down"}
  /\ Forget
  /\ UNCHANGED <<tableVars, content, onDisk, durable>>

\* Fault: Write returns without a sync.
SyncSkipped ==
  /\ pc = "sync" /\ pc' = "idle"
  /\ durable' = {target}
  /\ UNCHANGED <<tableVars, data, pos, content, onDisk, faults>>

Sync ==
  /\ pc = "sync" /\ pc' = "idle"
  /\ onDisk' = {content}
  /\ durable' = {target}
  /\ UNCHANGED <<tableVars, data, pos, content, faults>>

\* The error of Sync is ignored.
SyncFails ==
  /\ pc = "sync" /\ Fault /\ pc' = "idle"
  /\ Forget
  /\ UNCHANGED <<tableVars, content, onDisk, durable>>

-----------------------------------------------------------------------------
(* Crashes and restarts.                                                   *)

Running == pc \in {"idle", "truncate", "write", "sync"}

\* The process ends; what it has written stays in the file.
Crash ==
  /\ Running /\ Fault
  /\ pc' = "down"
  /\ Forget
  /\ UNCHANGED <<tableVars, content, onDisk, durable>>

PowerLoss ==
  /\ pc # "unreadable" /\ Fault
  /\ pc' = "down"
  /\ content' \in onDisk
  /\ Forget
  /\ UNCHANGED <<tableVars, onDisk, durable>>

Restart ==
  /\ pc = "down" /\ Readable(content)
  /\ pc' = "idle"
  /\ target' = TableIn(content)
  /\ sessionLocks' = target'
  /\ UNCHANGED <<data, pos, content, onDisk, durable, faults>>

\* Load returns an error, and so does New.
RestartFails ==
  /\ pc = "down" /\ ~Readable(content)
  /\ pc' = "unreadable"
  /\ UNCHANGED <<tableVars, data, pos, content, onDisk, durable, faults>>

-----------------------------------------------------------------------------
TableStep ==
  \E s \in Sessions :
    \/ CreateSession(s) \/ DestroySession(s)
    \/ \E l \in Locks : AddLock(s, l) \/ RemoveLock(s, l)

WriteStep == Truncate \/ WriteToken \/ WriteDone \/ WriteFails \/ Sync \/ SyncFails

Next == TableStep \/ WriteStep \/ Crash \/ PowerLoss \/ Restart \/ RestartFails

Spec == Init /\ [][Next]_vars

-----------------------------------------------------------------------------
\* Every variable has its type; the file, whatever has happened to it, is the
\* beginning of an encoding (store.go:66 sees to that).
TypeOK ==
  /\ SM!TypeOK
  /\ pc \in {"idle", "truncate", "write", "sync", "down", "unreadable"}
  /\ content \in onDisk
  /\ \A c \in onDisk : \E f \in Tables : \E e \in Encodings[f] : IsPrefix(c, e)
  /\ durable \subseteq Tables
  /\ faults \in 0..MaxFaults

Records(f) == {r \in (DOMAIN f) \X Locks : r[2] \in f[r[1]]}

\* When no write is in progress and the last one did not fail, the file holds
\* the locks that are in the table in memory, and neither a kill nor a power
\* loss leaves anything else, though sessions come and go without a write and
\* the table was loaded from the file at times.
QuietRestartKeepsAll ==
  pc = "idle" /\ durable = {target} =>
    \A c \in onDisk \cup {content} :
      Readable(c) /\ Records(TableIn(c)) = Records(sessionLocks)

StateFileOf == INSTANCE StateFile WITH
  Empty <- SM!EmptyTable, table <- target,
  phase <- IF pc = "idle" THEN "ready"
           ELSE IF pc \in {"truncate", "write", "sync"} THEN "saving" ELSE pc

\* The file implements StateFile: a restart finds the table saved last, and
\* after a crash inside Write or a failed write or sync one of the tables
\* since the last good save, no locks, or an unreadable file; never a mixture
\* of two tables, nor one older than the last good save.
ImplementsStateFile == StateFileOf!Spec
=============================================================================
