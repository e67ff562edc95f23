SPECIFICATION Spec
CONSTANTS
    MaxQueue = 2
    MaxFrames = 1
INVARIANTS
    TypeOK
    NoRace
    NoCircle
PROPERTY RoundsEnd
