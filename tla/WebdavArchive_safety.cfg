SPECIFICATION Spec
CONSTANTS
    Loop = loop
    ApiCallers = {api}
    RowIDs = {1, 2, 3}
    SmsIDs = {1}
    Recordings = {n1}
    RecordingName <- MCRecordingName
    Configs <- SafetyConfigs
    InitialRows <- SafetyRows
    MaxContent = 2
    MaxEvents = 2
    None = None
INVARIANTS RowSurvives RecordingSurvives LedgerHonest StagedRecoverable
CHECK_DEADLOCK FALSE
