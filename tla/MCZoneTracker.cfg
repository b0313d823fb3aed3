SPECIFICATION Spec
CONSTANTS
    kitchen = kitchen
    den = den
    Zones = {kitchen, den}
    NoZone = NoZone
    Retention = 1
    Period = 1
    Lag = 1
    MaxTime = 5
    MaxPoints = 3
INVARIANTS ServedHighest PointsFresh LastReadingHeld
PROPERTY RecentStay
