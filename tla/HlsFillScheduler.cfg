SPECIFICATION FairSpec
CONSTANTS
    s1 = s1
    s2 = s2
    t1 = t1
    t2 = t2
    Sessions <- MCSessions
    Tasks <- MCTasks
    TaskOf <- MCTaskOf
    Cancellers = {c1}
    MaxSequence = 3
    MaxCallers = 2
    MaxPanics = 1
INVARIANTS
    TypeOK
    PreemptionIsPrompt
    NoLostWakeup
    StoppedStaysStopped
PROPERTIES
    SchedulerProgress
    ImplementsFillQueue
