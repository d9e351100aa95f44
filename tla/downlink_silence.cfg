\* "System telemetry may send on the next available slot immediately": not
\* after a silence of half the range of the clock.
CONSTANTS
    Limits = {0, 1, 2}
    PacketBits = {2, 4}
    Window = 3
    Slot = 1
    Capacity = 2
    Mod = 12
    MaxBits = 12
SPECIFICATION Spec
INVARIANTS
    ResumesAfterSilence
