SPECIFICATION BondsSpec
CONSTANTS
    Pads = {p1, p2}
    MaxKeys = 4
INVARIANT HandoverUsesIssuedKey
PROPERTY GoodKeyKept
