-------------------------- MODULE ApplyThriftConfig --------------------------
(***************************************************************************)
(* ThriftConfigApplier::run() of src/fboss/agent/ApplyThriftConfig.cpp,    *)
(* restricted to the layer-3 domains: interfaces, VLANs, interface and     *)
(* static routes (or FIB containers and the standalone RIB), the default   *)
(* VLAN and the cross-validation pass.  Run(st, rib, cfg) is one whole     *)
(* reconciliation pass: it returns the new state, which domains were reset *)
(* (replaced by a new node) and whether the pass threw.                    *)
(*                                                                         *)
(* Data abstraction: an interface node is its router, VLAN, address set, *)
(* name, MAC and MTU; a VLAN node is its interface ID, DHCP overrides and  *)
(* neighbour-response table (ARP and NDP merged: a set of <<address, MAC,  *)
(* interface>>).  An address is a model value whose network is NetOf[a],  *)
(* which also fixes its mask.  An interface's auto link-local address is   *)
(* LinkLocalOf[mac]; LinkLocalAddr is that of the platform MAC.           *)
(***************************************************************************)
EXTENDS Integers, SequencesExt, RouteUpdater

CONSTANTS
    IntfIds,        \* interface IDs (positive integers)
    VlanIds,        \* VLAN IDs (positive integers)
    Routers,        \* router (VRF) IDs, 0 is the default router
    Addrs,          \* interface IP addresses
    NetOf,          \* NetOf[a]: the network (CIDR) of address a
    LinkLocalAddr,  \* the fe80:: address generated from the platform MAC
    LinkLocalOf,    \* LinkLocalOf[mac]: IPAddressV6(LINK_LOCAL, mac)
    NoIntf,         \* InterfaceID(0): a VLAN without interface
    NoVlan,         \* VlanID(0): the default VLAN before any config
    UseRib          \* TRUE when a standalone RoutingInformationBase is used

ASSUME LinkLocalAddr \in Addrs /\ NetOf[LinkLocalAddr] = LinkLocalNet
ASSUME \A m \in DOMAIN LinkLocalOf : LinkLocalOf[m] \in Addrs /\ NetOf[LinkLocalOf[m]] = LinkLocalNet
ASSUME LinkLocalOf["platform-local-mac"] = LinkLocalAddr
ASSUME 0 \in Routers

Nets == {NetOf[a] : a \in Addrs}
EmptyFn == [x \in {} |-> 0]
Lookup(f, k, dflt) == IF k \in DOMAIN f THEN f[k] ELSE dflt

\* RouteNextHopEntry, as <<kind, interface, address>>: a forward action
\* (DROP, TO_CPU, unresolved NHOPS) or a resolved next hop via an interface.
ActionNh(kind) == <<kind, 0, LinkLocalAddr>>
\* Fault variant: the next hop names the neighbouring interface ID.
IntfNhOffByOne(i, a) == <<"INTF", i + 1, a>>
IntfNh(i, a) == <<"INTF", i, a>>

\* getInterfaceMac: the configured MAC, else the platform's local MAC.
GetInterfaceMac(ic) == IF ic.mac = <<>> THEN "platform-local-mac" ELSE Head(ic.mac)

\* IPAddressV6::isLinkLocal on an interface address.
IsV6LinkLocal(a) == NetOf[a] = LinkLocalNet

(***************************************************************************)
(* getInterfaceAddresses: the interface's addresses, starting with the     *)
(* link-local one generated from its MAC, and the per-router connected-network table              *)
(* intfRouteTables_ it extends.  A network seen twice in a router is an    *)
(* error unless it is the same interface, whose last address then wins.    *)
(***************************************************************************)
GetInterfaceAddresses(ic, irt) ==
    LET Step(acc, a) ==
          LET tbl == Lookup(acc.irt, ic.router, EmptyFn)
              net == NetOf[a]
          IN  IF a \in acc.addrs THEN [acc EXCEPT !.err = TRUE]
              ELSE IF IsV6LinkLocal(a) THEN [acc EXCEPT !.addrs = @ \cup {a}]
              ELSE IF net \in DOMAIN tbl /\ tbl[net][2] # ic.id
                   THEN [acc EXCEPT !.err = TRUE]
              ELSE [acc EXCEPT !.addrs = @ \cup {a},
                               !.irt = (ic.router :> ((net :> IntfNh(ic.id, a)) @@ tbl)) @@ @]
    IN  FoldLeft(Step, [err |-> FALSE, addrs |-> {LinkLocalOf[GetInterfaceMac(ic)]}, irt |-> irt], ic.addrs)

(***************************************************************************)
(* updateVlanInterfaces: record the interface in vlanInterfaces_ for its   *)
(* VLAN.  A VLAN belongs to one router; an interface is recorded once;     *)
(* every address maps to its VlanIpInfo (interface and MAC), and one       *)
(* already present keeps its first owner but must have the same MAC (the   *)
(* mask is implied by the address here, so the mask check always passes). *)
(***************************************************************************)
NewVlanEntry == [router |-> 0, intfs |-> {}, addrs |-> EmptyFn]

IpInfos(id, node) == [a \in node.addrs |-> [intf |-> id, mac |-> node.mac]]

VlanEntryErr(entry, id, node) ==
    \/ entry.intfs # {} /\ node.router # entry.router
    \/ id \in entry.intfs
    \/ \E a \in node.addrs \cap DOMAIN entry.addrs : entry.addrs[a].mac # node.mac

\* Fault variant: the entry is edited through a copy (auto entry = ...),
\* so vlanInterfaces_ never records the interface.
UpdateVlanInterfacesByCopy(vi, id, node) ==
    LET entry == Lookup(vi, node.vlan, NewVlanEntry)
    IN  [err |-> VlanEntryErr(entry, id, node), vi |-> vi]

\* Fault variant: the VLAN's address map is replaced by the interface's
\* addresses instead of being merged into.
UpdateVlanInterfacesOverwrite(vi, id, node) ==
    LET entry == Lookup(vi, node.vlan, NewVlanEntry)
        new   == [router |-> IF entry.intfs = {} THEN node.router ELSE entry.router,
                  intfs  |-> entry.intfs \cup {id},
                  addrs  |-> IpInfos(id, node)]
    IN  [err |-> VlanEntryErr(entry, id, node), vi |-> (node.vlan :> new) @@ vi]

UpdateVlanInterfaces(vi, id, node) ==
    LET entry == Lookup(vi, node.vlan, NewVlanEntry)
        new   == [router |-> IF entry.intfs = {} THEN node.router ELSE entry.router,
                  intfs  |-> entry.intfs \cup {id},
                  addrs  |-> entry.addrs @@ IpInfos(id, node)]
    IN  [err |-> VlanEntryErr(entry, id, node), vi |-> (node.vlan :> new) @@ vi]

\* Interface::kDefaultMtu.
KDefaultMtu == 1500

\* getInterfaceName: the configured name, else "Interface <intfID>".  An
\* optional config field is a sequence of length 0 (unset) or 1.
GetInterfaceName(ic) == IF ic.name = <<>> THEN "Interface " \o ToString(ic.id) ELSE Head(ic.name)

InterfaceMtu(ic) == IF ic.mtu = <<>> THEN KDefaultMtu ELSE Head(ic.mtu)

\* The node createInterface builds from the config.  The NDP config and
\* the virtual and state-sync flags are left unset by every config of the
\* models.
InterfaceNode(ic, addrs) ==
    [router |-> ic.router, vlan |-> ic.vlan, addrs |-> addrs,
     name |-> GetInterfaceName(ic), mac |-> GetInterfaceMac(ic), mtu |-> InterfaceMtu(ic)]

\* Fault variant: the MTU is left out of the comparison.
UpdateInterfaceNoMtu(orig, node) == IF [orig EXCEPT !.mtu = node.mtu] = node THEN orig ELSE node

\* updateInterface: the original node when every field matches (nullptr,
\* so updateMap keeps it), else a clone with the config's fields.
UpdateInterface(orig, node) == IF orig = node THEN orig ELSE node

(***************************************************************************)
(* updateInterfaces (with updateInterface/createInterface and updateMap):  *)
(* one pass over the configured interfaces; the map is rebuilt when a node *)
(* differs, is new, or an old interface was not matched.                   *)
(***************************************************************************)
UpdateInterfaces(st, cfg) ==
    LET Step(acc, ic) ==
          LET ga   == GetInterfaceAddresses(ic, acc.irt)
              orig == ic.id \in DOMAIN st.intfs
              node == IF orig THEN UpdateInterface(st.intfs[ic.id], InterfaceNode(ic, ga.addrs))
                      ELSE InterfaceNode(ic, ga.addrs)
              vu   == UpdateVlanInterfaces(acc.vi, ic.id, node)
          IN  [err      |-> acc.err \/ ga.err \/ vu.err \/ ic.id \in DOMAIN acc.intfs,
               intfs    |-> (ic.id :> node) @@ acc.intfs,
               existing |-> acc.existing + (IF orig THEN 1 ELSE 0),
               changed  |-> acc.changed \/ ~orig \/ st.intfs[ic.id] # node,
               vi       |-> vu.vi,
               irt      |-> ga.irt]
        r == FoldLeft(Step, [err |-> FALSE, intfs |-> EmptyFn, existing |-> 0,
                             changed |-> FALSE, vi |-> EmptyFn, irt |-> EmptyFn],
                      cfg.intfs)
    IN  [r EXCEPT !.changed = @ \/ r.existing # Cardinality(DOMAIN st.intfs)]

\* updateNeighborResponseTables: the VLAN's ARP/NDP responder entries.
NeighborTable(vid, vi) ==
    IF vid \in DOMAIN vi
    THEN {<<a, vi[vid].addrs[a].mac, vi[vid].addrs[a].intf>> : a \in DOMAIN vi[vid].addrs}
    ELSE {}

(***************************************************************************)
(* updateDhcpOverrides: the VLAN's DHCPv4 relay override map, MAC to relay *)
(* address, built from the config's pairs with operator[] (a later pair   *)
(* for a MAC overwrites an earlier one).  An address IPAddressV4 cannot   *)
(* parse (anything but one of Addrs other than the v6 link-local one)      *)
(* throws.  The DHCPv6 map is built the same way and is left empty by     *)
(* every config of the models.                                             *)
(***************************************************************************)
IsIPv4Text(x) == x \in Addrs /\ ~IsV6LinkLocal(x)

DhcpOverridesErr(vc) == \E i \in DOMAIN vc.dhcpOverrides : ~IsIPv4Text(vc.dhcpOverrides[i][2])

UpdateDhcpOverrides(vc) ==
    LET prs == vc.dhcpOverrides
    IN  [m \in {prs[i][1] : i \in DOMAIN prs} |->
           prs[CHOOSE i \in DOMAIN prs : prs[i][1] = m /\ \A j \in DOMAIN prs : prs[j][1] = m => j <= i][2]]

\* Fault variant: the override maps are left out of the comparison.
UpdateVlanNoDhcp(orig, node) == IF [orig EXCEPT !.dhcp = node.dhcp] = node THEN orig ELSE node

\* updateVlan: the original node (nullptr) when name, interface, ports,
\* relay addresses, neighbor table and override maps all match, else
\* the clone with the config's fields.
UpdateVlan(orig, node) == IF orig = node THEN orig ELSE node

(***************************************************************************)
(* updateVlans (with updateVlan/createVlan).  Without an explicit intfID   *)
(* the VLAN takes the lowest interface ID recorded for it; looking it up   *)
(* with vlanInterfaces_[id] inserts an empty entry for a VLAN that has no  *)
(* interface, which the cross-validation pass later sees.                  *)
(***************************************************************************)
UpdateVlans(st, cfg, vi) ==
    LET Step(acc, vc) ==
          LET entry   == Lookup(acc.vi, vc.id, NewVlanEntry)
              intfID  == IF vc.intfID # NoIntf THEN vc.intfID
                         ELSE IF entry.intfs # {}
                              THEN CHOOSE i \in entry.intfs : \A j \in entry.intfs : i <= j
                              ELSE NoIntf
              new     == [intf |-> intfID, neighbors |-> NeighborTable(vc.id, vi),
                          dhcp |-> UpdateDhcpOverrides(vc)]
              orig    == vc.id \in DOMAIN st.vlans
              node    == IF orig THEN UpdateVlan(st.vlans[vc.id], new) ELSE new
          IN  [err      |-> acc.err \/ vc.id \in DOMAIN acc.vlans \/ DhcpOverridesErr(vc),
               vlans    |-> (vc.id :> node) @@ acc.vlans,
               existing |-> acc.existing + (IF orig THEN 1 ELSE 0),
               changed  |-> acc.changed \/ ~orig \/ st.vlans[vc.id] # node,
               vi       |-> IF vc.intfID # NoIntf THEN acc.vi
                            ELSE (vc.id :> entry) @@ acc.vi]
        r == FoldLeft(Step, [err |-> FALSE, vlans |-> EmptyFn, existing |-> 0,
                             changed |-> FALSE, vi |-> vi], cfg.vlans)
    IN  [r EXCEPT !.changed = @ \/ r.existing # Cardinality(DOMAIN st.vlans)]

\* The connected routes a router's intfRouteTables_ entry stands for.
IntfRouteEntries(irt) ==
    UNION {{[rtr |-> t, net |-> n, client |-> InterfaceClient, nh |-> irt[t][n]] :
               n \in DOMAIN irt[t]} : t \in DOMAIN irt}

AddRoutes(rs, entries) ==
    {r \in rs : Key(r) \notin {Key(e) : e \in entries}} \cup entries

(***************************************************************************)
(* updateInterfaceRoutes: add every connected route, delete the old        *)
(* interfaces' networks that are no longer connected in their router,      *)
(* drop the link-local route of routers left without connected networks   *)
(* and add it to every router that has one.                                *)
(***************************************************************************)
\* The old interfaces' <<router, network>> pairs that irt no longer has.
\* Fault variant: only the networks of routers left with no interface.
StaleIntfRoutesByRouter(st, irt) ==
    {k \in UNION {{<<st.intfs[i].router, NetOf[a]>> : a \in st.intfs[i].addrs} :
                    i \in DOMAIN st.intfs} : k[1] \notin DOMAIN irt}

StaleIntfRoutes(st, irt) ==
    {k \in UNION {{<<st.intfs[i].router, NetOf[a]>> : a \in st.intfs[i].addrs} :
                    i \in DOMAIN st.intfs} :
        k[1] \notin DOMAIN irt \/ k[2] \notin DOMAIN irt[k[1]]}

InterfaceRoutesEdited(st, irt) ==
    LET added   == AddRoutes(st.routes, IntfRouteEntries(irt))
        stale   == StaleIntfRoutes(st, irt)
        deleted == {r \in added : ~(r.client = InterfaceClient /\ <<r.rtr, r.net>> \in stale)}
        oldRtrs == {st.intfs[i].router : i \in DOMAIN st.intfs} \ DOMAIN irt
        noLL    == FoldSet(LAMBDA t, rs : DelLinkLocalRoutes(rs, t), deleted, oldRtrs)
        withLL  == FoldSet(LAMBDA t, rs : AddLinkLocalRoutes(rs, t, ActionNh("TO_CPU")),
                           noLL, DOMAIN irt)
    IN  withLL

\* Fault variant: the edited tables are returned without updateDone().
UpdateInterfaceRoutesNoDone(st, irt) == InterfaceRoutesEdited(st, irt)

UpdateInterfaceRoutes(st, irt) == UpdateDone(st.routes, InterfaceRoutesEdited(st, irt))

\* The routes the three static-route lists of the config stand for.
StaticEntries(keys, nh) ==
    {[rtr |-> k.rtr, net |-> k.net, client |-> StaticClient, nh |-> nh] : k \in keys}

(***************************************************************************)
(* syncStaticRoutes: remove every static route of router 0, then add the   *)
(* to-null, to-CPU and next-hop routes of the config, in that order.       *)
(***************************************************************************)
\* Fault variant: router 0's old static routes are not removed first.
SyncStaticRoutesNoRemove(rs, cfg) ==
    LET r1 == AddRoutes(rs, StaticEntries(cfg.toNull, ActionNh("DROP")))
        r2 == AddRoutes(r1, StaticEntries(cfg.toCpu, ActionNh("TO_CPU")))
        r3 == AddRoutes(r2, StaticEntries(cfg.withNhops, ActionNh("NHOPS")))
    IN  UpdateDone(rs, r3)

\* Fault variant: the edited tables are returned without updateDone().
SyncStaticRoutesNoDone(rs, cfg) ==
    LET r0 == RemoveAllRoutesForClient(rs, 0, StaticClient)
        r1 == AddRoutes(r0, StaticEntries(cfg.toNull, ActionNh("DROP")))
        r2 == AddRoutes(r1, StaticEntries(cfg.toCpu, ActionNh("TO_CPU")))
    IN  AddRoutes(r2, StaticEntries(cfg.withNhops, ActionNh("NHOPS")))

SyncStaticRoutes(rs, cfg) ==
    LET r0 == RemoveAllRoutesForClient(rs, 0, StaticClient)
        r1 == AddRoutes(r0, StaticEntries(cfg.toNull, ActionNh("DROP")))
        r2 == AddRoutes(r1, StaticEntries(cfg.toCpu, ActionNh("TO_CPU")))
        r3 == AddRoutes(r2, StaticEntries(cfg.withNhops, ActionNh("NHOPS")))
    IN  UpdateDone(rs, r3)

(***************************************************************************)
(* updateForwardingInformationBaseContainers: one FIB container per router *)
(* of the configured interfaces.  updateMap() reports every container as   *)
(* new, so any configured interface marks the domain changed.              *)
(***************************************************************************)
UpdateFibContainers(st, cfg) ==
    LET Step(acc, ic) ==
          IF ic.router \in acc.vrfs THEN acc
          ELSE [vrfs     |-> acc.vrfs \cup {ic.router},
                existing |-> acc.existing + (IF ic.router \in st.fibs THEN 1 ELSE 0),
                changed  |-> TRUE]
        r == FoldLeft(Step, [vrfs |-> {}, existing |-> 0, changed |-> FALSE], cfg.intfs)
    IN  [r EXCEPT !.changed = @ \/ r.existing # Cardinality(st.fibs)]

\* The static routes of the config as the RIB receives them.
ConfigStaticRoutes(cfg) ==
    StaticEntries(cfg.toNull, ActionNh("DROP")) \cup StaticEntries(cfg.toCpu, ActionNh("TO_CPU"))
        \cup StaticEntries(cfg.withNhops, ActionNh("NHOPS"))

(***************************************************************************)
(* run(), in stages that take the results of the earlier reconcilers as   *)
(* arguments: interfaces, VLANs, the route step either through the RIB     *)
(* (which is reconfigured, and calls back into new_, in the middle of the  *)
(* pass) or through the embedded route tables, then the default-VLAN check *)
(* and the VLAN/interface cross-validation.  Any throw discards new_; the  *)
(* RIB keeps a reconfiguration it already received.                        *)
(***************************************************************************)
RunValidate(st, rib, cfg, ui, uv, fc, newRib, ir, sr) ==
    LET early  == ui.err \/ uv.err
        rts1   == IF ir = NoChange THEN st.routes ELSE ir
        rts2   == IF sr = NoChange THEN rts1 ELSE sr
        vlans  == IF uv.changed THEN uv.vlans ELSE st.vlans
        dflt   == cfg.defaultVlan
        late   == \/ st.defaultVlan # dflt /\ dflt \notin DOMAIN vlans
                  \/ \E v \in DOMAIN uv.vi :
                        \/ v \notin DOMAIN vlans
                        \/ Cardinality(uv.vi[v].intfs) # 1 /\ v # dflt
        reset  == {d \in {"intfs", "vlans", "routes", "fibs", "defaultVlan"} :
                    CASE d = "intfs"       -> ui.changed
                      [] d = "vlans"       -> uv.changed
                      [] d = "routes"      -> ~UseRib /\ (ir # NoChange \/ sr # NoChange)
                      [] d = "fibs"        -> UseRib /\ fc.changed
                      [] d = "defaultVlan" -> st.defaultVlan # dflt}
        new    == [intfs       |-> IF ui.changed THEN ui.intfs ELSE st.intfs,
                   vlans       |-> vlans,
                   routes      |-> IF UseRib THEN st.routes ELSE rts2,
                   fibs        |-> IF UseRib /\ fc.changed THEN fc.vrfs ELSE st.fibs,
                   fib         |-> IF UseRib
                                   THEN FibFromRib(newRib, IF fc.changed THEN fc.vrfs ELSE st.fibs)
                                   ELSE st.fib,
                   defaultVlan |-> dflt]
    IN  [err   |-> early \/ late,
         rib   |-> IF UseRib /\ ~early THEN newRib ELSE rib,
         reset |-> reset,
         state |-> IF reset = {} THEN st ELSE new]

\* The route step: both branches are computed, Run keeps the one UseRib
\* selects.  Each stage's result is bound once, as the element of a
\* one-element set, so that it is computed once however often the later
\* stages read it.
RunRoutes(st, rib, cfg, ui, uv, ir) ==
    CHOOSE out \in
        {RunValidate(st, rib, cfg, ui, uv,
                     UpdateFibContainers(st, cfg),
                     RibReconfigure(rib, IntfRouteEntries(ui.irt), ConfigStaticRoutes(cfg)),
                     ir, sr) :
            sr \in {SyncStaticRoutes(IF ir = NoChange THEN st.routes ELSE ir, cfg)}} : TRUE

RunVlans(st, rib, cfg, ui) ==
    CHOOSE out \in {RunRoutes(st, rib, cfg, ui, uv, ir) :
                        uv \in {UpdateVlans(st, cfg, ui.vi)},
                        ir \in {UpdateInterfaceRoutes(st, ui.irt)}} : TRUE

Run(st, rib, cfg) == CHOOSE out \in {RunVlans(st, rib, cfg, ui) : ui \in {UpdateInterfaces(st, cfg)}} : TRUE
=============================================================================
