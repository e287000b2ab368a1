SPECIFICATION FairSpec
CONSTANTS
    Scopes = {call1, call2}
    Tasks = {task1, task2}
    Utterances = {utt1, utt2}
    Questions = {ask1}
    TaskLimit = 2
    PendingLimit = 2
    None = None
CHECK_DEADLOCK FALSE
INVARIANTS
    TurnsOnce
    NoLostWakeup
    NoPoisonedHead
    CallbackAccepted
PROPERTIES
    AnswersWhatWasAsked
    JournalSpec
    
    
    ClaimsResolve
