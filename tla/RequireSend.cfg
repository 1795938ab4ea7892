\* Programs of up to five lines in two blocks below the top, in each language.
CONSTANTS
    Names = {x, y}
    Log = log
    Made = made
    WellKnown = {log}
    Languages <- MCLanguages
    Calls <- MCCalls
    MaxLines = 5
    MaxDepth = 2
    None = None
SPECIFICATION Spec
INVARIANTS
    ScannerReportsLostEvents
    ScannerRaisesNoFalseAlarm
    RuleReportsLostEvents
    RuleRaisesNoFalseAlarm
SYMMETRY Symmetry
CHECK_DEADLOCK FALSE
