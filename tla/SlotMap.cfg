SPECIFICATION Spec
CONSTANTS
    Slots = {0, 1, 2, 3}
    Room <- MCRoom
    Offs <- MCOffs
INVARIANTS TypeOK SlotRoundTrip AreasPlaced SectorsTile SectorNamed
