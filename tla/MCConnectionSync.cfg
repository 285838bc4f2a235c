SPECIFICATION FairSpec
CONSTANTS
    Sessions = {s1, s2}
    Accounts = {a1}
    None = None
    MaxOps = 2
    MaxClock = 1
    SyncInterval = 0
    RefreshThreshold = 1
CHECK_DEADLOCK FALSE
INVARIANTS
    TypeOK
    HolderIsAlone
    HolderSeesCurrentRow
    WorkIsOwn
    VersionTellsChange
    UserWorkSurvives
    DiagnosisIsSound
PROPERTIES
    StaleFailureIsDropped
    CredentialProblemSticks
    ActsAtomically
    SyncEnds
    MutationEnds
