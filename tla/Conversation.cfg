\* Histories of up to four turns, and their remains.
SPECIFICATION Spec
CONSTANTS
    a = a
    b = b
    error = error
    Fragments = {a, b, error}
    ErrorPrefix = error
    ToolIDs = {"call1", "call2"}
    Reasons = {""}
    NameOf <- Names
    SystemTurns <- Systems
    UserTurns <- Users
    AnswerTurns <- AllAnswers
    ResultTurns <- Results
    Settings <- SomeSettings
    MaxTurns = 4
INVARIANTS
    TypeOK
    NothingLost
    NamesFound
    FailuresAgree
    InputsReturn
    SettingsAgree
