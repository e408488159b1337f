SPECIFICATION MCSpec
CONSTANTS
    Threads = {h1, h2}
    MaxOut = 2
    Buffer = 1
    MaxFailures = 1
    Screens = {3, 6, 7, 9}
    Collapsed = 2
    Width = 5
    MaxSaved = 10
    Hold = 2
    Hits = 2
    MaxAge = 2
    MaxTime = 6
    BackupIds = {b1}
    Configs = {"c1", "c2"}
    MaxMoments = 1
    MaxFaults = 1
    Handlers = {hr1}
    MaxCommit = 2
    Apps = {a1, a2}
    MaxWrites = 1
    MaxVersion = 3
    Panel <- MCPanel
    pi = pi
    pi2 = pi2
    nas = nas
    Loose = {pi}
    Strangers = {nas}
    Hosts = {pi, pi2}
    Docker = {pi2}
    Contained <- MCContained
    Manifests <- MCManifests
    HostPorts = {20080, 2048}
    Supplies = {"null", "chosen"}
    Features = {"zwave", "mqtt"}
    Hardware = {"zwave"}
    Parts = {"sources"}
INVARIANTS BuildsWhatWasReviewed
CHECK_DEADLOCK FALSE
