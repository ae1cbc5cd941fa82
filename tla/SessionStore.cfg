SPECIFICATION Spec
CONSTANTS
  Sessions = {s1, s2}
  Locks = {l1}
  MaxFaults = 2
SYMMETRY Symmetry
INVARIANTS TypeOK QuietRestartKeepsAll
PROPERTIES ImplementsStateFile
\* An unreadable file ends everything.
CHECK_DEADLOCK FALSE
