\* Two environments.  What is written by hand is the blank file or nothing: no
\* action tells one whole value from another, only Empty has a writer of its own.
CONSTANTS
    Envs = {dev, prod}
    Values = {blank, empty}
    Blank = blank
    Empty = empty
    None = None
    Torn = Torn
    Zeroed = Zeroed
SYMMETRY Symmetry
SPECIFICATION Spec
INVARIANTS
    EncryptedMeansHeld
    RekeyReachesAll
    CleanRemovesListed
PROPERTIES
    WholeCiphertextSurvives
