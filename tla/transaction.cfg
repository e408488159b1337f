SPECIFICATION FairSpec
CONSTANTS
    MaxVersion = 3
    Autostart = {1, 3}
    Kinds = {"addon", "catalog"}
    Widens <- MCWidens
    MaxWrites = 3
INVARIANTS
    TypeOK
    RollbackCopyUsable
    NeverOldImageOnNewData
    SettledAgreement
PROPERTIES
    ServiceResumes
    ReplacesAtomically
    JobsEnd
    RepairConverges
