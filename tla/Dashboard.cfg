SPECIFICATION FairSpec
CONSTANTS
    c1 = c1  c2 = c2  m1 = m1  m2 = m2
    Collectors = {c1, c2}
    Meters = {m1, m2}
    Messages <- AllMessages
    MaxPoints = 2
    MaxMessages = 3
    NoMeter = NoMeter
    None = None
INVARIANTS TypeOK FiguresAgree PageHolds
PROPERTIES RunsEnd
