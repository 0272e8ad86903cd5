\* A negative exact-match L4 range passes checkAcl and is programmed.
CONSTANTS
    NotSet = NotSet
    MaxL4Port = 65535
    MaxIcmpType = 255
    MaxIcmpCode = 255
    ProtoIcmp = 1
    ProtoIcmpv6 = 58
    RangeVals <- MC_RangeValsNeg
    PortVals <- MC_PortVals
    IcmpVals <- MC_IcmpVals
    ProtoVals = {1, 58, 6}
    TtlVals <- MC_TtlVals
SPECIFICATION Spec
INVARIANTS
    AcceptedAclL4PortsInRange
