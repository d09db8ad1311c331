\* A start, the workflow and a poll; two targets whose builds end differently.
CONSTANTS
    x86 = x86
    arm = arm
    s1 = s1
    s2 = s2
    wf1 = wf1
    wf2 = wf2
    q1 = q1
    Targets = {x86, arm}
    Starters = {s1}
    Workflows = {wf1}
    Pollers = {q1}
    Makers = {d1}
    d1 = d1
    MaxAttempts = 2
    MaxIncidents = 1
CHECK_DEADLOCK FALSE
SPECIFICATION MCSpec
INVARIANTS
    RunIsSound
    NoOrphanBuilds
    DossierAgrees
PROPERTIES
    FinalStays
    RunSettles
