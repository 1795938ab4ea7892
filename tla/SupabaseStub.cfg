\* The password login of each account and two step-ups; two requests that
\* await a body at the same time, on the seeded factor or an enrolled one.
CONSTANTS
    ann = ann
    ben = ben
    key = key
    Accounts = {ann, ben}
    Factors = {key, new}
    Challenges = {c1, c2}
    Sessions = {s1, s2, s3}
    Requests = {r1, r2}
    Seeded = {key}
    SeededOwner <- MCSeededOwner
    None = None
SPECIFICATION Spec
INVARIANTS
    TypeOK
    ChallengeRedeemedOnce
    StepUpIsOwn
    ActivationNeedsRedemption
    RedemptionGivesSession
SYMMETRY Symmetry
CHECK_DEADLOCK FALSE
