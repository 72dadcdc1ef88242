\* Two slots as in the code; ids wrap around twice before generations run out.
SPECIFICATION Spec
CONSTANTS
    SlotCount = 2
    IdMod = 4
    MaxGen = 7
INVARIANTS
    TypeOK
    HeldIdStable
    IdAlwaysFound
PROPERTIES
    ContractKept
