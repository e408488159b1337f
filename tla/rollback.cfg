SPECIFICATION Spec
CONSTANTS
    MaxVersion = 2
    Autostart = {1, 2}
    Kinds = {"addon"}
    Widens <- MCNoWidening
    MaxWrites = 1
INVARIANT RollbackRestoresAll
