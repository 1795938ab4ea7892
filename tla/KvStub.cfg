\* Three requests on two keys, with any base from 0 to the last revision two
\* of them can make.  A third PUT then meets every order of the other two.
CONSTANTS
    Keys = {k1, k2}
    Values = {v1, v2}
    Requests = {r1, r2, r3}
    Prevs = {0, 1, 2}
    NoValue = NoValue
    Unconditional = Unconditional
    NoAsk = NoAsk
    NoReply = NoReply
SPECIFICATION Spec
INVARIANTS
    TypeOK
    CasSucceedsOnLastWrite
    EntriesAreLastWrites
    AnswersAreTrue
PROPERTIES
    ImplementsAtomicKv
SYMMETRY Symmetry
CHECK_DEADLOCK FALSE
