SPECIFICATION Spec
CONSTANTS
    User = {va, vm}
    Vratarthi = {va}
    Vratmitra = {vm}
    Admin = {}
    Sentence = {s}
    JourneyId = {j1, j2}
    Req = {r1, r2}
    Interleaved = TRUE
    None = None
SYMMETRY Symmetry
INVARIANTS
    TypeOK
    OneLivePerSentence
    TimestampsAgree
    NoticesAreTrue
PROPERTIES
    ClosureRequestSurvives
    ImplementsOneLiveJourney
