\* Every kind of path with every content, two files side by side, and two
\* changes during the scan.
CONSTANTS
    Repositories <- MCRepositories
    Contents <- MCContents
    Edits <- MCEdits
    MaxChanges = 2
SPECIFICATION Spec
INVARIANTS
    SuccessMeansClean
    FindingsAreReal
    RejectionIsExplained
CHECK_DEADLOCK FALSE
