\* Two limits, a packet within and one above the burst budget of the lower
\* limit, a history of two entries, and a clock that wraps.
CONSTANTS
    Limits = {0, 1, 2}
    PacketBits = {2, 4}
    Window = 3
    Slot = 1
    Capacity = 2
    Mod = 12
    MaxBits = 12
SPECIFICATION Spec
INVARIANTS
    NotHeldBack
PROPERTIES
    KeepsPace
