SPECIFICATION FairSpec
CONSTANTS
    User = {va}
    Vratarthi = {va}
    Vratmitra = {}
    Admin = {va}
    Sentence = {s, t}
    JourneyId = {j1, j2}
    Req = {r1}
    Interleaved = TRUE
    None = None
PROPERTIES
    StaleIsSettled
    RequestsEnd
