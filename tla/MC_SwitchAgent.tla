---------------------------- MODULE MC_SwitchAgent ----------------------------
(***************************************************************************)
(* Model of SwitchAgent for TLC: two interfaces, two VLANs, two routers,   *)
(* two networks (n1 holding a1 and a2, n2 holding a3) and two link-local   *)
(* addresses (of the platform MAC and of a configured one); configs built  *)
(* from the interface, VLAN and static-route lists below, in lists of up   *)
(* to two entries so that duplicates and ordering occur.                   *)
(***************************************************************************)
EXTENDS SwitchAgentRx

CONSTANTS a1, a2, a3, ll, ll2, n1, n2

MC_Addrs == {a1, a2, a3, ll, ll2}
MC_NetOf == (a1 :> n1) @@ (a2 :> n1) @@ (a3 :> n2) @@ (ll :> LinkLocalNet) @@ (ll2 :> LinkLocalNet)

\* The link-local addresses of the platform MAC and of the one MAC the
\* configs set.
MC_LinkLocalOf == ("platform-local-mac" :> ll) @@ ("02:00:00:00:00:0a" :> ll2)

IntfWith(id, rtr, vlan, addrs, name, mac, mtu) ==
    [id |-> id, router |-> rtr, vlan |-> vlan, addrs |-> addrs, name |-> name, mac |-> mac, mtu |-> mtu]
Intf(id, rtr, vlan, addrs) == IntfWith(id, rtr, vlan, addrs, <<>>, <<>>, <<>>)
VlanWith(id, intfID, dhcp) == [id |-> id, intfID |-> intfID, dhcpOverrides |-> dhcp]
Vlan(id, intfID) == VlanWith(id, intfID, <<>>)
RK(rtr, net) == [rtr |-> rtr, net |-> net]

\* Interface lists: the same network twice in one interface (the last
\* address wins), networks moving between interfaces and routers, two
\* interfaces on one VLAN, and the three interface errors: a duplicate ID,
\* a network used by two interfaces of a router, a VLAN in two routers;
\* and interface 1 with a jumbo MTU, or with its own MAC and named
\* explicitly with its default name.
IntfLists ==
    { <<>>,
      <<IntfWith(1, 0, 1, <<a1>>, <<>>, <<>>, <<9000>>)>>,
      <<IntfWith(1, 0, 1, <<a1>>, <<"Interface 1">>, <<"02:00:00:00:00:0a">>, <<>>)>>,
      <<Intf(1, 0, 1, <<a1>>)>>,
      <<Intf(1, 0, 1, <<a2, a1>>)>>,
      <<Intf(1, 1, 1, <<a3>>)>>,
      <<Intf(1, 0, 1, <<a1>>), Intf(2, 0, 2, <<a3>>)>>,
      <<Intf(1, 0, 1, <<a1>>), Intf(2, 1, 2, <<a1>>)>>,
      <<Intf(1, 0, 1, <<a1>>), Intf(2, 0, 1, <<>>)>>,
      <<Intf(1, 0, 1, <<a1>>), Intf(1, 0, 1, <<a1>>)>>,
      <<Intf(1, 0, 1, <<a1>>), Intf(2, 0, 2, <<a2>>)>>,
      <<Intf(1, 0, 1, <<a1>>), Intf(2, 1, 1, <<a3>>)>> }

\* VLAN lists without an explicit interface ID, including a duplicate.
VlanListsImplicit ==
    { <<Vlan(1, NoIntf)>>, <<Vlan(1, NoIntf), Vlan(2, NoIntf)>>,
      <<Vlan(2, NoIntf)>>, <<Vlan(1, NoIntf), Vlan(1, NoIntf)>> }

\* The same, plus a VLAN naming interface 1 explicitly.
VlanListsExplicit ==
    VlanListsImplicit \cup { <<Vlan(1, NoIntf), Vlan(2, 1)>> }

\* Static routes: none, to-null in router 0, a prefix both to-CPU and with
\* next hops, and one in router 1.
StaticChoices ==
    { [toNull |-> {}, toCpu |-> {}, withNhops |-> {}],
      [toNull |-> {RK(0, n1)}, toCpu |-> {}, withNhops |-> {}],
      [toNull |-> {}, toCpu |-> {RK(0, n2)}, withNhops |-> {RK(0, n2)}],
      [toNull |-> {RK(1, n2)}, toCpu |-> {}, withNhops |-> {}] }

\* The configs of the given lists with default VLAN 1 or, where the VLAN
\* lists can make it matter, 2.
ConfigsOfDefault(intfLists, vlanLists, statics, dflts) ==
    {[intfs |-> il, vlans |-> vl, defaultVlan |-> d,
      toNull |-> s.toNull, toCpu |-> s.toCpu, withNhops |-> s.withNhops] :
        il \in intfLists, vl \in vlanLists, d \in dflts, s \in statics}

ConfigsOf(intfLists, vlanLists, statics) == ConfigsOfDefault(intfLists, vlanLists, statics, {1, 2})

NoStatics == {[toNull |-> {}, toCpu |-> {}, withNhops |-> {}]}

\* Interfaces and VLANs: every interface and VLAN list, no static routes.
MC_ConfigsL3 == ConfigsOf(IntfLists, VlanListsImplicit, NoStatics)
MC_ConfigsExplicit == ConfigsOf(IntfLists, VlanListsExplicit, NoStatics)

\* DHCP relay overrides: one, a MAC given twice (the last pair wins), two
\* MACs, and an address that is not IPv4 text.
DhcpVlanLists ==
    { <<VlanWith(1, NoIntf, <<<<"m1", a1>>>>)>>,
      <<VlanWith(1, NoIntf, <<<<"m1", a1>>, <<"m1", a2>>>>)>>,
      <<VlanWith(1, NoIntf, <<<<"m1", a2>>, <<"m2", a1>>>>)>>,
      <<VlanWith(1, NoIntf, <<<<"m1", "10.0.0.256">>>>)>> }

\* Static routes: every static choice over one or no interface.
MC_ConfigsStatic ==
    ConfigsOf({<<>>, <<Intf(1, 0, 1, <<a1>>)>>}, {<<Vlan(1, NoIntf)>>}, StaticChoices)

\* Interface 2, with its own MAC, on interface 1's VLAN and claiming
\* interface 1's link-local address: updateVlanInterfaces' MAC check.
MC_ConfigsMacClash ==
    ConfigsOfDefault({<<Intf(1, 0, 1, <<a1>>), IntfWith(2, 0, 1, <<ll>>, <<>>, <<"02:00:00:00:00:0a">>, <<>>)>>},
              {<<Vlan(1, NoIntf)>>}, NoStatics, {1})

\* Both: interface and VLAN reloads interleaved with static-route reloads
\* and route calls.  Default VLAN 2 is tried only with the VLAN lists
\* where it can be found: with VLAN 1 alone it only adds the missing-
\* default-VLAN error, which the lists of MC_ConfigsL3 already reach, and
\* the duplicate VLAN list fails before the default VLAN is looked at.
DupVlanList == <<Vlan(1, NoIntf), Vlan(1, NoIntf)>>

MC_ConfigsL3Static ==
    ConfigsOf(IntfLists, VlanListsImplicit \ {DupVlanList}, NoStatics)
        \cup ConfigsOfDefault(IntfLists, {DupVlanList}, NoStatics, {1})
        \cup ConfigsOfDefault({<<>>, <<Intf(1, 0, 1, <<a1>>)>>}, {<<Vlan(1, NoIntf)>>}, StaticChoices, {1})
        \cup ConfigsOfDefault({<<Intf(1, 0, 1, <<a1>>)>>}, DhcpVlanLists, NoStatics, {1})
        \cup MC_ConfigsMacClash

\* An interface of router 1 with two addresses of one network (the
\* packet path's own-address case).
MC_ConfigsRx == ConfigsOf({<<Intf(1, 1, 1, <<a2, a1>>)>>}, {<<Vlan(1, NoIntf)>>}, NoStatics)

MC_NoClients == {}
MC_RpcClients == {"BGPD", StaticClient}
MC_RpcRoutes == {[net |-> n1, nh |-> ActionNh("NHOPS")], [net |-> n2, nh |-> ActionNh("DROP")]}
=============================================================================
