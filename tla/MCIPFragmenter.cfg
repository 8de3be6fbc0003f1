\* Two packets of one or two fragments, header 3 and 2-byte offset units for 20 and 8.
SPECIFICATION FairSpec
CONSTANTS
    B = 4
    Packet = {1, 2}
    NoPacket = 0
    Unit = 2
    Header = 3
    OffMod = 4
    SizeMod = 64
    Lengths = {4, 7}
    Mtus = {2, 6}
    MaxFragments = 2
    Lifetime = 0
INVARIANTS FragmentsTile BytesStayInPlace
PROPERTIES FragmentEnds WholeReassembles
