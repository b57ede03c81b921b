CONSTANTS
    Bridges = {b1, b2, b3}
    NoBridge = NoBridge
    MaxClicks = 4
SPECIFICATION FairSpec
INVARIANTS
    NoLeakedHandle
    HeldLinkStaysDown
PROPERTIES
    LinkSettles
