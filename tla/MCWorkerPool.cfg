CONSTANTS
    Worker = {w1, w2, w3}
    Client = {c1, c2}
    Task = {t1, t2, t3}
    NoTask = NoTask
SPECIFICATION Spec
INVARIANTS TypeOK WakeupsCover NoneSleepsAfterStop DrainedWhenJoined
PROPERTIES AcceptedTaskRuns DestructorReturns
