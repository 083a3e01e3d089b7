SPECIFICATION Spec
CONSTANTS
    Owner = va
    Vratmitra = {vm}
    Pool = {p}
    ItemId = {i1}
    Req = {r1, r2}
    Interleaved = TRUE
    None = None
SYMMETRY Symmetry
INVARIANTS
    TypeOK
    WentTheWay
    NoticesAreTrue
