\* Two requests in flight and two signed tokens over three moments in time.
CONSTANTS
    ann = ann
    twin = twin
    bad = bad
    pa = pa
    pb = pb
    Identities = {ann, twin, bad}
    ProviderTokens = {pa, pb}
    TokenOf <- MCTokenOf
    WellFormed = {ann, twin}
    AccessTokens = {t1, t2}
    Requests = {r1, r2}
    Ttl = 1
    MaxTime = 2
    MaxGiven = 2
    None = None
SPECIFICATION Spec
INVARIANTS
    ActiveMeansValidNow
    ExchangeIsUnambiguous
    CountsAreComplete
    IssuedTokensLiveTheirTtl
CHECK_DEADLOCK FALSE
