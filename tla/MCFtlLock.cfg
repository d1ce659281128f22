SPECIFICATION FairSpec
CONSTANTS
    Task = {t1, t2, t3}
    NoTask = NoTask
    MaxLeaks = 1
INVARIANTS
    TypeOK
    OneWriter
    SemBalanced
PROPERTIES
    MutexComesBack
