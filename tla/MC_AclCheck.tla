------------------------------ MODULE MC_AclCheck ------------------------------
(***************************************************************************)
(* checkAcl over bounded inputs.  The state is one ACL's match fields; a   *)
(* step sets or clears one field, so every combination of the values       *)
(* below, boundaries on both sides of every limit included, is reached and *)
(* checked against the validation rules of spec section 4.4.               *)
(***************************************************************************)
EXTENDS AclCheck

CONSTANTS
    RangeVals,      \* the L4 port range endpoints tried
    PortVals,       \* the l4SrcPort / l4DstPort values tried
    IcmpVals,       \* the ICMP type and code values tried
    ProtoVals,      \* the protocol numbers tried
    TtlVals         \* the TTL values and masks tried

VARIABLE acl

\* Values on both sides of each limit (cfg files cannot write negatives).
MC_RangeValsNeg == {-1, 0}
MC_PortVals == {-1, 0, 65536}
MC_IcmpVals == {-1, 0, 256}
MC_TtlVals == {-1, 255, 256}

Values ==
    [srcL4PortRange |-> {NotSet} \cup (RangeVals \X RangeVals),
     dstL4PortRange |-> {NotSet} \cup (RangeVals \X RangeVals),
     l4SrcPort |-> {NotSet} \cup PortVals, l4DstPort |-> {NotSet} \cup PortVals,
     icmpType |-> {NotSet} \cup IcmpVals, icmpCode |-> {NotSet} \cup IcmpVals,
     proto |-> {NotSet} \cup ProtoVals, ttl |-> {NotSet} \cup (TtlVals \X TtlVals)]

Init == acl = [f \in DOMAIN Values |-> NotSet]

SetField == \E f \in DOMAIN Values : \E v \in Values[f] : acl' = [acl EXCEPT ![f] = v]

Spec == Init /\ [][SetField]_acl

\* An ACL checkAcl accepts gets L4 ports, as createAcl programs them,
\* within [0, kMaxL4Port].
AcceptedAclL4PortsInRange ==
    CheckAcl(acl) =>
       \A p \in {CreateAclL4Port(acl.srcL4PortRange, acl.l4SrcPort),
                 CreateAclL4Port(acl.dstL4PortRange, acl.l4DstPort)} :
           IsSet(p) => InPortRange(p)
=============================================================================
