\* Quota 2 and cooldown 1: an hour of three ticks sees more than the quota.
CONSTANTS
    Codes = {c1, c2, c3, c4, c5}
    Requesters = {r1, r2}
    Verifiers = {v1, v2}
    Quota = 2
    Cooldown = 1
    TTL = 2
    Hour = 3
    MaxAttempts = 2
    NoCode = NoCode
SPECIFICATION Spec
SYMMETRY OtpSymmetry
INVARIANTS TypeOK QuotaHolds CooldownHolds AttemptsHold
PROPERTY UsedCodeIsSpent
