SPECIFICATION Spec
CONSTANTS
    Daemon = daemon
    Managers = {daemon, cli}
    Nobody = nobody
    Operator = operator
    Actions = {"install", "update"}
    Options = {o1}
    Limit = 1
    MaxPlans = 2
INVARIANTS
    TypeOK
    FinalMeansFree
PROPERTIES
    AppliesApproved
