SPECIFICATION Spec
CONSTANTS
    Clients = {c1, c2}
    Conversations = {v1, v2}
    Slots = {r1, r2}
    Statuses = {200}
    One = 4
    Burst = 4
    Ttl = 4
    TicksPerSecond = 2
    MaxIdentities = 2
    MaxBody = 1
    Waits = {1, 2, 5}
    MaxTime = 6
SYMMETRY Symmetry
INVARIANTS
    TypeOK
    QuotaBound
    AccountedOnce
PROPERTIES
    RetryAfterKept
