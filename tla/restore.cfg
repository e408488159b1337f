SPECIFICATION FairSpec
CONSTANT MaxTrees = 4
INVARIANTS
    TypeOK
    ImportedRunsApproved
    SettledHasState
    JournalRecoverable
PROPERTIES
    SwapsOnlyStopped
    ReplacesWhole
    RepairConverges
