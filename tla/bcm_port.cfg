\* One Broadcom port driven by the update thread, the stats thread and
\* linkscan, with config changes, crashes and cold restarts.
CONSTANTS
    Ports <- MC_Ports
    Vlans <- MC_Vlans
    FabNames = {"fab1/1/1"}
    Default = "DEFAULT"
    MaxSpeed = "TWENTYFIVEG"
    PlatformTechs = {"OPTICAL", "UNKNOWN"}
    InitAsics <- MC_InitAsics
    SflowSupported = TRUE
    NoMirror = NoMirror
    NotSet = NotSet
    NoSettings = NoSettings
    NoCounters = NoCounters
    NoStats = NoStats
SPECIFICATION Spec
INVARIANTS
    StatsFollowPort
PROPERTIES
    AsicRefinement
