SPECIFICATION JournalSpec
CONSTANTS
    Scopes = {call1, call2}
    Tasks = {task1, task2}
    Utterances = {utt1, utt2, utt3}
    Questions = {ask1}
    TaskLimit = 2
    PendingLimit = 3
    None = None
SYMMETRY Symmetry
CHECK_DEADLOCK FALSE
INVARIANTS
    QuestionCurrent
    CancelledUnsent
PROPERTIES
    TerminalStays
    UnknownHeld
    ImplementsLedger
