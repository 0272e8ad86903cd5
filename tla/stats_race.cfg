\* updateStats against disable: the counters destroyed under the stats thread.
CONSTANTS
    Ports <- MC_Ports
    Vlans <- MC_Vlans
    FabNames = {"fab1/1/1"}
    Default = "DEFAULT"
    MaxSpeed = "TWENTYFIVEG"
    PlatformTechs = {"OPTICAL", "UNKNOWN"}
    InitAsics <- MC_InitAsics
    SflowSupported = TRUE
    NoMirror = NoMirror
    NotSet = NotSet
    NoSettings = NoSettings
    NoCounters = NoCounters
    NoStats = NoStats
SPECIFICATION Spec
INVARIANTS
    NoNullCounter
