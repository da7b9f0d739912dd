CONSTANTS
    Surfaces = {s1}
    Count = 2
    MaxCommits = 2
    MaxCopies = 1
    MaxDrops = 1
SPECIFICATION FairSpec
INVARIANTS TypeOK AnsweredInOrder WakeupPending DamageScheduled
PROPERTY EveryoneAnswered
CHECK_DEADLOCK FALSE
