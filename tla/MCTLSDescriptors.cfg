CONSTANTS
    Conn = {c1, c2}
    MaxFD = 4
    Roles = {"proxy", "proxifier"}
SPECIFICATION Spec
SYMMETRY Symmetry
INVARIANT OwnDescriptors
PROPERTY StraysHaveNoOwner
CHECK_DEADLOCK FALSE
