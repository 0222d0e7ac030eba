SPECIFICATION Spec
CONSTANTS
    Subjects <- OneSubject
    PasswordUsers <- OneSubject
    IDTokens <- SomeIDTokens
    Certificates <- SomeCertificates
    HeaderSubjects <- OneSubject
    h1 = h1
    h2 = h2
    Handlers = {h1, h2}
    Tenants = {"t1", "t2"}
    Actions = {"manage"}
    RequestedTTL = {3}
    DefaultTTL = 1
    MaxTTL = 1
    MaxSessions = 2
    MaxFaults = 3
    MaxClock = 1
    MaxEvents = 3
SYMMETRY HandlerSymmetry
INVARIANTS
    LoggedOutStaysOut
    GivenSessionSurvives
    SessionsAreAudited
CHECK_DEADLOCK FALSE
