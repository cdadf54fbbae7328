SPECIFICATION Spec
CONSTANTS
    c1 = c1
    c2 = c2
    p1 = p1
    p2 = p2
    Releases = {r1, r2, r3}
    Keys = {k1, k2}
    Callers = {c1, c2}
    Processes = {p1}
    ProcessOf <- OneProcess
    None = None
    Bootstrap = Bootstrap
    MaxEvents = 4
SYMMETRY OneProcessSymmetry
PROPERTY RollbackRestores
