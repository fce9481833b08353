CONSTANTS
    ReuseHigh = 3
    LegalSuffixes = {"inc", "ltd"}
    FreshnessBudget = 1
    Submissions <- MCSubmissions
    Answers <- MCAnswers
    Usual <- MCUsual
    Neighbours = {0, 1, 3}
    MaxAttempts = 2
    MaxSurprises = 2
    Requests = {"first", "second"}
    NoChallenge = NoChallenge

SPECIFICATION Spec

INVARIANTS
    TypeOK
    CriticalEscalates
    BankruptNeverPreClears
    TiersAgree
    FindingsAreCited
    
    OwnershipWeighsOnce
    
    DeclaredAreScreened
