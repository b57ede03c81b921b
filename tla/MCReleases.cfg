SPECIFICATION FairReleasesSpec
CONSTANTS
    LastRelease = 2
    Keep = 1
    Updates = {u1, u2}
    MaxFaults = 1
    Odds = {}
INVARIANTS AskedIsServed ListIsTrue KeepsTheNewest
PROPERTIES EverythingEnds
