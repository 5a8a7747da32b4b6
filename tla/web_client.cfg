\* Two tabs, two tokens, two logins through a provider, one failure or delay.
SPECIFICATION Spec
CONSTANTS
    t1 = t1
    t2 = t2
    Tabs = {t1, t2}
    Viewers = {t1}
    Calls <- OverlapInFirst
    MaxTokens = 2
    MaxFlows = 2
    MaxFaults = 1
INVARIANT TypeOK
INVARIANT RefusedOnlyWhenOvertakenOrLate
PROPERTY DeadLoginSettles
PROPERTY EndIsShown
CHECK_DEADLOCK FALSE
