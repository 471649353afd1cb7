SPECIFICATION WedgedSpec
CONSTANTS
    r1 = r1
    r2 = r2
    idle1 = idle1
    Requests = {r1, idle1}
    Timed = {r1}
    Capacity = 2
    Password = "right"
    BackoffMin = 1
    BackoffMax = 2
    MaxCuts = 1
INVARIANTS AnswersAreOwn AtMostOnce NoLostWaiter NoticeMatchesSession CapabilitiesKnown
PROPERTIES InOrder ImplementsRequestReply WaitersTimeOut IdleTaskAnswered DeadConnectionNoticed ComesBack
