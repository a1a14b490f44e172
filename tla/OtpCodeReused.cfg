\* One code, entered correctly twice at the same time.
CONSTANTS
    Codes = {c1, c2}
    Requesters = {r1}
    Verifiers = {v1, v2}
    Quota = 2
    Cooldown = 1
    TTL = 2
    Hour = 3
    MaxAttempts = 2
    NoCode = NoCode
SPECIFICATION Spec
INVARIANT SingleUse
