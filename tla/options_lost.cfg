SPECIFICATION Spec
CONSTANTS
    Daemon = daemon
    Managers = {daemon, cli}
    Nobody = nobody
    Operator = operator
    Actions = {"update", "configure"}
    Options = {o1, o2}
    Limit = 2
    MaxPlans = 2
PROPERTY
    RejectsChangedState
