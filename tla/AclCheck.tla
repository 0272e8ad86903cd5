------------------------------- MODULE AclCheck -------------------------------
(***************************************************************************)
(* ThriftConfigApplier::checkAcl of src/fboss/agent/ApplyThriftConfig.cpp: *)
(* the range and field validation of one cfg::AclEntry, and the L4 port    *)
(* createAcl programs from it.  The match fields a check looks at form a   *)
(* record; an optional field the config leaves out is NotSet.  L4 port     *)
(* ranges are <<min, max>> pairs, the TTL is <<value, mask>>.              *)
(***************************************************************************)
EXTENDS Integers, Optional

CONSTANTS
    MaxL4Port,      \* AclEntryFields::kMaxL4Port (65535)
    MaxIcmpType,    \* AclEntryFields::kMaxIcmpType
    MaxIcmpCode,    \* AclEntryFields::kMaxIcmpCode
    ProtoIcmp,      \* AclEntryFields::kProtoIcmp
    ProtoIcmpv6     \* AclEntryFields::kProtoIcmpv6

\* The legacy srcL4PortRange / dstL4PortRange checks: bounded above and
\* exact-match only.
L4RangeOk(r) ==
    ~IsSet(r) \/ (r[1] <= MaxL4Port /\ r[2] <= MaxL4Port /\ r[1] = r[2])

\* The l4SrcPort / l4DstPort checks.
L4PortOk(p) == ~IsSet(p) \/ (0 <= p /\ p <= MaxL4Port)

\* Fault variant: the ICMP type is not required to come with an ICMP protocol.
CheckAclNoProto(f) ==
    /\ L4RangeOk(f.srcL4PortRange) /\ L4RangeOk(f.dstL4PortRange)
    /\ L4PortOk(f.l4SrcPort) /\ L4PortOk(f.l4DstPort)
    /\ IsSet(f.icmpCode) => IsSet(f.icmpType)
    /\ IsSet(f.icmpType) => 0 <= f.icmpType /\ f.icmpType <= MaxIcmpType
    /\ IsSet(f.icmpCode) => 0 <= f.icmpCode /\ f.icmpCode <= MaxIcmpCode
    /\ IsSet(f.ttl) => 0 <= f.ttl[1] /\ f.ttl[1] <= 255 /\ 0 <= f.ttl[2] /\ f.ttl[2] <= 255

\* checkAcl: TRUE when none of its throws fires.
CheckAcl(f) ==
    /\ L4RangeOk(f.srcL4PortRange) /\ L4RangeOk(f.dstL4PortRange)
    /\ L4PortOk(f.l4SrcPort) /\ L4PortOk(f.l4DstPort)
    /\ IsSet(f.icmpCode) => IsSet(f.icmpType)
    /\ IsSet(f.icmpType) => 0 <= f.icmpType /\ f.icmpType <= MaxIcmpType
    /\ IsSet(f.icmpCode) => 0 <= f.icmpCode /\ f.icmpCode <= MaxIcmpCode
    /\ IsSet(f.icmpType) => f.proto \in {ProtoIcmp, ProtoIcmpv6}
    /\ IsSet(f.ttl) => 0 <= f.ttl[1] /\ f.ttl[1] <= 255 /\ 0 <= f.ttl[2] /\ f.ttl[2] <= 255

\* createAcl's L4 source (or destination) port: the range's min, then
\* l4SrcPort, which overrides it when both are set.
CreateAclL4Port(range, port) ==
    IF IsSet(port) THEN port ELSE IF IsSet(range) THEN range[1] ELSE NotSet
\* Spec 4.4: an L4 port value lies in [0, 65535].
InPortRange(p) == 0 <= p /\ p <= MaxL4Port
=============================================================================
