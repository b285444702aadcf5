SPECIFICATION Spec
CONSTANTS
    w1 = w1  w2 = w2
    Window = {w1, w2}
    Reader = {"client"}
    Body <- Bodies
    MaxRestarts = 1
    Put = {p1}
    Stream = {s1, s2}
    MaxFaults = 2
    None = None
INVARIANTS PutsAreServed
