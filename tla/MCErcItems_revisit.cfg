SPECIFICATION FairSpec
CONSTANTS
    Owner = va
    Vratmitra = {vm}
    Pool = {p}
    ItemId = {i1}
    Req = {r1}
    Interleaved = TRUE
    None = None
PROPERTIES
    ReturnedIsResubmitted
