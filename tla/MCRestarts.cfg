SPECIFICATION Spec
CONSTANTS
    Unit = 60
    Pods = {p}
    Containers = {c, d}
    MaxRestarts = 1
    Resync = 2
    Grace = 1
INVARIANTS TypeOK PathsAgree NoInventedRate RatesFade PendingClaimIsFlagged TrackerFollowsPods
SYMMETRY Symmetry
