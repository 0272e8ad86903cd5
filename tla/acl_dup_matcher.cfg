\* An ACL matched by both policies makes every reload of the same config a change.
CONSTANTS
    m1 = m1  m2 = m2  x = x  y = y  z = z  c1 = c1  t1 = t1  v1 = v1
    BadPort = 3
    NotSet = NotSet
    NoMirror = NoMirror
    NoPort = NoPort
    Null = Null
    NoCfg = NoCfg
    MaxL4Port = 65535
    MaxIcmpType = 255
    MaxIcmpCode = 255
    ProtoIcmp = 1
    ProtoIcmpv6 = 58
    AclStartPriority = 100000
    DefaultLacp = DefaultLacp
    NoLacp = NoLacp
    PortIds = {1, 2}
    NumQueues = 2
    InitialMisc <- MC_InitialMisc
    InitialL2Mode = "HARDWARE"
    EmptyName = EmptyName
    DefaultWeight = 1
    Configs <- MC_ConfigsDup
SPECIFICATION Spec
PROPERTIES
    ReloadIdempotent
