SPECIFICATION FairSpec
CONSTANTS
    c1 = c1  c2 = c2  m1 = m1  m2 = m2
    Collectors = {c1, c2}
    Meters = {m1, m2}
    Messages <- Windows
    MaxPoints = 2
    MaxMessages = 2
    NoMeter = NoMeter
    None = None
PROPERTIES ShowsNewData
