SPECIFICATION Spec
CONSTANTS
    User = {u1}
    Address = {a}
    Google = {g}
    RowId = {w1}
    Token = {k1}
    Req = {r1}
    None = None
INVARIANTS
    AddressProved
