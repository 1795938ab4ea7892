CONSTANTS
    alice = alice
    bob = bob
    Record = record
    Keys = {record}
    Clients <- MCClients
    Values <- MCValues
    Requests <- MCRequests
    MaxTries <- MCMaxTries
    MaxTimeouts = 1
    Prevs = {0, 1, 2, 3}
    NoValue = NoValue
    Unconditional = Unconditional
    NoAsk = NoAsk
    NoReply = NoReply
SPECIFICATION ClientSpec
INVARIANTS
    ClientTypeOK
    AcknowledgedUpdatesSurvive
PROPERTIES
    RecordOnlyGrows
    UpdatesGetIn
CHECK_DEADLOCK FALSE
