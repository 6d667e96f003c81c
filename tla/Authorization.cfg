\* Two users, two keys, two nodes, two requests, two changes by the operator.
SPECIFICATION Spec
CONSTANTS
    k1 = k1
    k2 = k2
    n1 = n1
    n2 = n2
    la = la
    lb = lb
    Users = {u1, u2}
    Keys = {k1, k2}
    ClientKeys <- MCClientKeys
    Nodes = {n1, n2}
    Labels = {la, lb}
    LabelsOf <- MCLabelsOf
    Reserved = {scp}
    Pins = {p1, p2}
    Requests = {r1, r2}
    MaxEdits = 2
    None = None
SYMMETRY Symmetry
CHECK_DEADLOCK FALSE
INVARIANTS
    IdentityIsSigned
    OnlyGranted
    RevocationHeeded
    PinUnmoved
