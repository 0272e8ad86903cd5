----------------------------- MODULE IPv4Handler -----------------------------
(***************************************************************************)
(* IPv4Handler::handlePacket and resolveMac (src/fboss/agent/              *)
(* IPv4Handler.cpp): what the agent does with an IPv4 packet punted to the *)
(* CPU, decided against one snapshot of the committed SwitchState (the     *)
(* sw_->getState() at the start of the handler).  The handler changes no   *)
(* SwitchState: its effects are the packet's verdict, the counters it      *)
(* bumps, an ICMP Time Exceeded and the ARP requests it sends (each        *)
(* reported to the NeighborUpdater).  HandlePacket(st, p) returns them.   *)
(*                                                                         *)
(* The lookups it calls are not in this repository and are taken as       *)
(* their names say: getInterfaceInVlanIf is the lowest-ID interface on the *)
(* VLAN, getInterfaceIf(router, a) the router's interface owning a,        *)
(* longestMatch the route of the router for a's network (the model has no *)
(* shorter prefix), its best entry the client with the lowest admin        *)
(* distance (spec section 3), and getAddressToReach(a) the interface's     *)
(* address in a's network.  A route with next hops is unresolved: the      *)
(* model holds no gateway address that could resolve it.  The VLAN's       *)
(* learned ARP table is not part of the model: ARP requests are the ones   *)
(* sent when it has no entry for the target.                               *)
(***************************************************************************)
EXTENDS ApplyThriftConfig

CONSTANTS
    BroadcastAddr,  \* 255.255.255.255 (isLinkLocalBroadcast)
    MulticastAddr,  \* an address of 224.0.0.0/4 (isMulticast)
    NoRoute         \* longestMatch found no route

\* Destinations of IPv4 packets: the interface addresses (the IPv6
\* link-local ones aside), the limited broadcast and a multicast group.
RxAddrs == {a \in Addrs : ~IsV6LinkLocal(a)} \cup {BroadcastAddr, MulticastAddr}

\* A punted packet: its source VLAN, destination, TTL and whether it is a
\* UDP packet to the DHCP ports (DHCPv4Handler::isDHCPv4Packet).
Packets == [vlan : VlanIds, dst : RxAddrs, ttl : {1, 2}, dhcp : BOOLEAN]

\* InterfaceMap::getInterfaceInVlanIf: the first interface on the VLAN.
GetInterfaceInVlanIf(st, v) ==
    LET on == {i \in DOMAIN st.intfs : st.intfs[i].vlan = v}
    IN  IF on = {} THEN NoIntf ELSE Min(on)

\* InterfaceMap::getInterfaceIf(router, addr).
GetInterfaceIf(st, rtr, a) ==
    LET own == {i \in DOMAIN st.intfs : st.intfs[i].router = rtr /\ a \in st.intfs[i].addrs}
    IN  IF own = {} THEN NoIntf ELSE Min(own)

\* Admin distance of a client's entry: connected routes first, then
\* static ones, then those of routing protocols.
AdminDistance(client) ==
    IF client = InterfaceClient THEN 0 ELSE IF client = StaticClient THEN 1 ELSE 20

\* SwSwitch::longestMatch: the best entry of the router's route for the
\* destination's network, in the table the agent forwards from.
LongestMatch(st, dest, rtr) ==
    LET table   == IF UseRib THEN st.fib ELSE st.routes
        entries == {r \in table : r.rtr = rtr /\ dest \in Addrs /\ r.net = NetOf[dest]}
    IN  IF entries = {} THEN NoRoute
        ELSE CHOOSE r \in entries : \A q \in entries : AdminDistance(r.client) <= AdminDistance(q.client)

\* isResolved: a connected route, or a DROP / TO_CPU one (no next hops).
IsResolved(rt) == rt.nh[1] # "NHOPS"

IsConnected(rt) == rt.nh[1] = "INTF"

\* getForwardInfo().getNextHopSet(): a connected route's one next hop.
NextHops(rt) == IF IsConnected(rt) THEN {[intf |-> rt.nh[2], addr |-> rt.nh[3]]} ELSE {}

\* Interface::getAddressToReach: the interface's addresses in a's network.
AddressesToReach(st, i, a) == {b \in st.intfs[i].addrs : NetOf[b] = NetOf[a]}

NoResolve == [lookupFailure |-> FALSE, arps |-> {}, unreachable |-> {}]

(***************************************************************************)
(* resolveMac, for every next hop of the route: the interface the next     *)
(* hop names (skipped if gone), the source address getAddressToReach       *)
(* gives (its ->first dereferenced: "unreachable" records a next hop for   *)
(* which there is none), the target (the destination for a connected       *)
(* route), skipped when it is the source, and an ARP request on the        *)
(* interface's VLAN if that VLAN exists.                                   *)
(***************************************************************************)
ArpRequests(st, rt, dest) ==
    LET nhs == {nh \in NextHops(rt) : nh.intf \in DOMAIN st.intfs /\ AddressesToReach(st, nh.intf, nh.addr) # {}}
        Src(nh) == CHOOSE b \in AddressesToReach(st, nh.intf, nh.addr) : TRUE
        Tgt(nh) == IF IsConnected(rt) THEN dest ELSE nh.addr
    IN  {[vlan |-> st.intfs[nh.intf].vlan, intf |-> nh.intf, source |-> Src(nh), target |-> Tgt(nh)] :
            nh \in {n \in nhs : st.intfs[n.intf].vlan \in DOMAIN st.vlans}}

ArpTargets(st, rt, dest) ==
    {req \in ArpRequests(st, rt, dest) : req.source # req.target}

ResolveMac(st, dest, ingressVlan) ==
    LET in == GetInterfaceInVlanIf(st, ingressVlan)
        rt == IF in = NoIntf THEN NoRoute ELSE LongestMatch(st, dest, st.intfs[in].router)
    IN  IF in = NoIntf THEN NoResolve
        ELSE IF rt = NoRoute \/ ~IsResolved(rt) THEN [NoResolve EXCEPT !.lookupFailure = TRUE]
        ELSE [lookupFailure |-> FALSE,
              arps          |-> ArpTargets(st, rt, dest),
              unreachable   |-> {nh \in NextHops(rt) : nh.intf \in DOMAIN st.intfs
                                                       /\ AddressesToReach(st, nh.intf, nh.addr) = {}}]

Verdict(kind, intf, res) ==
    [kind |-> kind, intf |-> intf, arps |-> res.arps, unreachable |-> res.unreachable,
     lookupFailure |-> res.lookupFailure]

(***************************************************************************)
(* handlePacket, in the code's order of early returns: no such VLAN        *)
(* (dropped); DHCP (to DHCPv4Handler); for us (to the host through the     *)
(* interface found in router 0, or the VLAN's interface for multicast);    *)
(* TTL expired (dropped, ICMP Time Exceeded); limited broadcast (dropped); *)
(* otherwise resolveMac and the packet dropped.                            *)
(***************************************************************************)
HandlePacket(st, p) ==
    LET mine == IF p.dst = MulticastAddr THEN GetInterfaceInVlanIf(st, p.vlan)
                ELSE GetInterfaceIf(st, 0, p.dst)
    IN  IF p.vlan \notin DOMAIN st.vlans THEN Verdict("NO_VLAN", NoIntf, NoResolve)
        ELSE IF p.dhcp THEN Verdict("DHCP", NoIntf, NoResolve)
        ELSE IF mine # NoIntf THEN Verdict("TO_HOST", mine, NoResolve)
        ELSE IF p.ttl <= 1 THEN Verdict("TTL_EXCEEDED", NoIntf, NoResolve)
        ELSE IF p.dst = BroadcastAddr THEN Verdict("BROADCAST", NoIntf, NoResolve)
        ELSE Verdict("NEXTHOP", NoIntf, ResolveMac(st, p.dst, p.vlan))
=============================================================================
