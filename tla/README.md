# TLA+ models of the FBOSS agent

This directory holds TLA+ models of five parts of the FBOSS agent:

- the declarative configuration reconciler `ThriftConfigApplier`
  (`src/fboss/agent/ApplyThriftConfig.cpp`);
- the Thrift calls that change the switch state
  (`src/fboss/agent/ThriftHandler.cpp`);
- the IPv4 packet path for punted packets (`src/fboss/agent/IPv4Handler.cpp`);
- the Broadcom host table (`src/fboss/agent/hw/bcm/BcmHost.cpp`);
- the Broadcom port (`src/fboss/agent/hw/bcm/BcmPort.cpp`).

TLC checks every module. `PROJECT.json` lists the components, the runs, the
mutants, the map from definitions to source lines, the findings and the
hazards.

## 1. The system

| Part | Source | State | Operations |
|---|---|---|---|
| Reconciler `run()` | ApplyThriftConfig.cpp 289-540 | `orig_`, `new_`, `vlanInterfaces_`, `intfRouteTables_`, `vlanPorts_`/`portVlans_` | one pass per config. It returns a new state, or `nullptr` for "unchanged", and throws on conflicts. |
| Interfaces, VLANs, neighbour tables | 567-636, 1110-1207, 1643-1714, 1869-2016, 2098-2174 | InterfaceMap, VlanMap | `updateInterfaces`/`updateInterface`/`createInterface`, `getInterfaceAddresses`, `updateVlanInterfaces`, `updateVlans`/`updateVlan`/`createVlan`, `updateNeighborResponseTables`, `updateDhcpOverrides` |
| Routes | 378-416, 1716-1867, 2326-2365 | RouteTableMap, or FIB containers plus the standalone RIB | `updateInterfaceRoutes`, `syncStaticRoutes`, `updateForwardingInformationBaseContainers`, `rib_->reconfigure` |
| Ports, VLAN membership, mirrors | 542-676, 814-940, 2176-2324 | PortMap, MirrorMap | `processVlanPorts`, `updatePorts`/`updatePort`, `updateMirrors`/`createMirror`/`updateMirror` |
| Queues and QoS | 678-812, 1209-1325; state/PortQueue.cpp | PortQueue, QosPolicyMap | `updatePortQueues`, `checkPortQueueAQMValid`, `updateQosPolicies`, `createQosPolicy`, the default data-plane policy |
| Aggregate ports | 942-1108 | AggregatePortMap | `updateAggregatePorts`, `updateAggPort`, `createAggPort`, `getSubportsSorted`, `computeMinimumLinkCount` |
| ACLs | 1327-1641 | AclMap | `updateAcls` (DENY, CoPP and data-plane bands), `checkAcl`, `createAcl` |
| Switch settings, control plane, sFlow, scalars | 453-515, 1928-1979, 2018-2096 | SwitchSettings, ControlPlane, SflowCollectorMap | `updateSwitchSettings`, `updateControlPlane`, `updateSflowCollectors` and the ARP/NDP/DHCP fields of `run()` |
| Thrift handler | ThriftHandler.cpp 524-738, 976-1001, 1448-1495 | through `SwSwitch`: the state, the RIB, `isFullyConfigured`, `isFibSynced` | `addUnicastRoutes`, `deleteUnicastRoutes`, `syncFib`, `reloadConfig`, `setPortState` |
| Broadcom host table | hw/bcm/BcmHost.cpp | BcmHost entries, the ASIC host table, the warm-boot cache | `refOrEmplace`, `registerNeighbor`/`unregisterNeighbor`, `program`, `programToTrunk`, `setEgressId`, `addToBcmHostTable`, `~BcmHost` |
| Broadcom port | hw/bcm/BcmPort.cpp, BcmPortUtils.cpp | the ASIC port, `programmedSettings_`, `portCounters_`, `lastPortStats_`, `statCollectionEnabled_`, the mirror names, `sampleDest_`, the transmitter-technology cache | `init`, `enable`, `disable`, `program` (`setIngressVlan`, `setSpeed`/`setInterfaceMode`, `updateMirror`, `setupStatsIfNeeded`), `enableStatCollection`/`disableStatCollection`, `set*PortMirror`, `updateStats`, `linkStatusChanged` |

How the parts interact:

- `SwSwitch::updateStateBlocking` serializes `reloadConfig` and the route
  calls. Each one is therefore a single atomic update of the committed state.
- `setPortState` is different. It reads the port on its Thrift thread and only
  later queues its update function. That update can run after other queued
  updates.
- Inside a pass, the reconcilers run in a fixed order:
  1. interfaces, then VLANs, then routes;
  2. ports, then LAGs, then mirrors, then ACLs;
  3. QoS policies, the control plane, and the global settings;
  4. finally the default-VLAN check and the VLAN/interface cross-validation.

  Later steps read what earlier ones left in `vlanInterfaces_`,
  `intfRouteTables_` and `portVlans_`.
- Any throw discards `new_`. The one exception is the standalone RIB, which
  `rib_->reconfigure` has already changed by then.
- The hardware switch programs each state delta. `BcmHostTable` keeps one
  reference-counted `BcmHost` per neighbour or next hop. Each host points at
  a `BcmEgress`, which the egress manager and the ECMP groups track.
- Each `BcmPort` is touched by three threads. The update thread calls
  `enable`, `disable` and `program` with the new state's Port node. The stats
  thread calls `updateStats`, which reads `statCollectionEnabled_` (an atomic)
  and `portCounters_` (a plain map). Linkscan reports link changes; an update
  then sets the port's operState, and the delta calls `linkStatusChanged`.
  `setSpeed` reads that operState to decide whether to touch the speed.

## 2. Modules

| Module | Models | State and actions |
|---|---|---|
| `Optional` | the `NotSet`/`IsSet` convention for optional config fields | none |
| `RouteUpdater` | `RouteUpdater`, `RoutingInformationBase::update/reconfigure` and the FIB updater. This code is not in the repository, so these definitions are modelled from spec §4.6/§6 (`spec_modelled`). | operators on sets of `[rtr, net, client, nh]` route entries |
| `ApplyThriftConfig` | the layer-3 half of `run()` | `Run(st, rib, cfg)` is one whole pass. Each reconciler is a `FoldLeft` over the ordered config list, as the code loops. |
| `SwitchAgent` | the committed state under boot, `reloadConfig` and the VRF-0 route calls | variables `state`, `rib`, `configured`, `fibSynced`, with history in `applied`, `dirty` and `lastOp`. Actions: `BootConfig`, `ReloadConfig`, `AddUnicastRoutes`, `DeleteUnicastRoutes`, and `syncFibInVrf` as its two steps: `SyncFib` (the client's routes replaced and committed) and `SyncFibDone` (`fibSynced()`). `syncing` holds the clients between the two, so other calls interleave in that window. Once the FIB is synced the second step does nothing, and the call is one step. |
| `IPv4Handler` | `IPv4Handler::handlePacket` and `resolveMac` | `HandlePacket(st, p)`: the verdict for a punted packet `[vlan, dst, ttl, dhcp]` in a SwitchState, taken in the code's order of early returns (no VLAN, DHCP, for us in router 0, TTL expired, limited broadcast, next hop). For the next-hop case it gives the ARP requests `resolveMac` sends when the ARP table has no entry, and the next hops whose `getAddressToReach` would be dereferenced empty. |
| `SwitchAgentRx` | the packet path over the reconciled state | `Rx(p)` is `HandlePacket(state, p)` on `SwitchAgent`'s committed state. The handler writes no SwitchState, so its properties are invariants of `SwitchAgent`. |
| `AclCheck` | `checkAcl` and the L4 port `createAcl` programs | operators |
| `AggregatePort` | the LAG reconciler and `computeMinimumLinkCount` (double rounding and `uint8_t`) | operators |
| `PortQueues` | `updatePortQueues`/`updatePortQueue`/`createPortQueue`, `checkPortQueueAQMValid`, `checkSwConfPortQueueMatch` | operators |
| `PolicyConfig` | the ports, mirrors, ACLs, QoS, LAG, control-plane, sFlow, switch-setting and scalar half of `run()`, in the code's order | `RunPolicy(st, cfg)` is one pass |
| `PolicyAgent` | reloads of that half | variables `state`, `applied`, `lastOp`; action `ReloadConfig` |
| `PortStateAgent` | `setPortState` racing reloads | adds `portCall` (the update waiting in `updateStateBlocking`). Actions: `SetPortState` (the Thrift thread's read and its early return), `SetPortStateUpdate` (the update function), `ReloadConfigAgent`. |
| `BcmHost` | `BcmHost.cpp` | variables `neighbors`, `routeRefs`, `host`, `hwHost`, `warmCache`, `resolved`, `egressToPort`, `ecmpMembers`. Actions: `RegisterNeighbor`, `UnregisterNeighbor`, `RefHost`, `UnrefHost` (destroying the host at the last reference), `Program`, `ProgramToTrunk`, `ProgramHostRoute`. |
| `BcmPort` | `BcmPort.cpp` and the mode table of `BcmPortUtils.cpp` | variables `asic` (enable, speed, mode, ingress VLAN, VLAN membership, filtering, counter DMA, sample destination), the `BcmPort` members, the environment (`peer`, `sw`, `operUp`, `platformUp`), `statsPc` (where `updateStats` is), `flapped`, `crashed`. Actions: `Enable`, `Disable`, `Program`, `EnableStatCollection`, `StopStatCollection`, `SetPortMirrors`, `UpdateStatsCheck`/`UpdateStatsCounters`/`UpdateStatsWrite`, `LinkscanUpdate`, `PeerChange`, `ConfigChange`, `Restart`. A call that throws (`Threw`) keeps what it did so far and takes the agent down. |
| `BcmPortAsic` | the contract `BcmPort` gives its caller, seen through the ASIC port's enable, speed and ingress VLAN, the stat-collection flag, `programmedSettings_` and whether the agent is up | `AEnable`, `ADisable`, `AProgram`, `ACollect`, `AFail`, `ACrash`, `ARestart` |
| `MC_*` | the TLC instances | see §3 |

### Data abstraction

- **Interface.** An interface node holds its router, VLAN, address set, name,
  MAC and MTU. The NDP config and the virtual and state-sync flags are left
  unset by every config. Its auto link-local address is `LinkLocalOf[mac]`,
  one model value per MAC, standing for `IPAddressV6(LINK_LOCAL, mac)`. An
  address fixes its network, and with it its mask.
- **VLAN.** A VLAN node holds its interface ID, its ARP/NDP responder table
  (a set of `<<address, MAC, interface>>`) and its DHCPv4 relay overrides.
- **Port.** A port node holds its admin state, its mirrors, its LLDP
  expectations, its queues, its QoS policy, its sample destination and its
  VLAN membership.
- **Broadcom port.** A Port node is `[name, speed, ingressVlan, vlans,
  inMirror, egMirror, sampleDest, queues]`. The counters are abstracted to
  the name and queues they were set up for, and `lastPortStats_` to
  none / zero / sampled.
- **Optional fields** are `NotSet`, or a sequence of length 0 or 1.
- **Addresses and names** are model values or short strings. Each conversion
  the code does on them is kept:
  - `"Interface " \o ToString(id)` for the default name;
  - IPv4 parsing, which throws on anything but an address;
  - the double product in `computeMinimumLinkCount`, in hundredths.

### Correspondence

- The fold steps follow the loop bodies of the code.
- `err` collects each `throw`, under the same conditions.
- `changed` is `changed |= updateMap(...)`, together with the
  `numExistingProcessed` rule.
- `UpdateInterface` and `UpdateVlan` return the original node when the code
  returns `nullptr`.

## 3. Runs

| Run | Expect | Checks | Shows |
|---|---|---|---|
| `agent` | pass | TypeOK, ConnectedRoutesMatchInterfaces, VlansMatchInterfaces, NeighborTablesMatchInterfaces, ReloadIdempotent, StaticRoutesFollowConfig, InterfacesFollowConfig, DhcpOverridesFollowConfig | Passes over about 100 interface, VLAN, DHCP-override and static-route configs, interleaved with route calls. Each pass keeps connected routes, VLANs and neighbour tables consistent with the interfaces. It is idempotent and replaces only domains that changed. Statics of router 0 are exactly the config's. Interfaces carry their config and its defaults. DHCP overrides follow the config, with the last pair for a MAC winning. Neighbour-response entries carry their interface's MAC. Because connected routes always match the interfaces, `resolveMac`'s unchecked `getAddressToReach(...)->first` always finds an address. |
| `policy` | pass | TypeOK, PortsResetToDefault, PortMirrorsValid, AclsFollowConfig | Reloads over port, mirror and ACL lists. Omitted ports return to their defaults. Port/mirror references stay whole. ACLs fall into their priority bands. |
| `lag_queues` | pass | AggPortsFollowConfig, QueuesFollowConfig, QosPoliciesFollowConfig, ControlPlaneFollowsConfig, GlobalSettingsFollowConfig, PortVlansFollowConfig | LAGs, port and CPU queues with the QoS map's traffic classes, QoS policies, VLAN membership, sFlow collectors and the scalars all follow each accepted config. |
| `bcm_host` | pass | TypeOK, HostTableMatches, EgressManagerMatchesHosts, EcmpMembersResolved | Any interleaving of neighbour and route references, programming to a port, the CPU, drop or a trunk, host routes and destruction, from a cold or warm boot. The ASIC table, the egress manager's resolved set and port map, and the ECMP members all stay consistent with the live hosts. |
| `bcm_port` | pass | StatsFollowPort, AsicRefinement | Any sequence of enable, disable, program and stat-collection calls, interleaved with the stats thread, link changes, config changes, throws, crashes and cold restarts, from a cold or a warm boot. The counters are those of the last programmed Port node exactly while collection is on. `BcmPort` implements `BcmPortAsic` (checked as `Asic!ASpec` through a refinement mapping). |
| `static_exact` | violation | StaticRoutesExactlyConfig | A static route of router 1, dropped from the config, survives the reload. |
| `rib_fib` | violation | FibMatchesInterfaces | In RIB mode, a rejected config has already reconfigured the RIB. |
| `qos_default` | violation | DefaultQosFollowsConfig | An edit to only the default QoS policy reports "unchanged". |
| `lldp_stale` | violation | LldpFollowsConfig | An LLDP tag removed from the config stays expected. |
| `lag_members` | violation | LagMembersFollowConfig | A member appended to a LAG is ignored, because `std::equal` reads only the old length. |
| `lag_percent_rounding` | violation | MinLinkCountMatchesSpec | 28% of 25 members gives 8 links, not 7. |
| `port_state_race` | violation | SetPortStateOnlyAdminState | A reload that lands between `setPortState`'s read and its update is undone. |

### Bounds

- **`MC_SwitchAgent`** uses two interfaces, two VLANs and two routers, which
  is the fewest for which "another" exists. Its interface lists make every
  branch of `getInterfaceAddresses`, `updateVlanInterfaces` and
  `updateInterfaceRoutes` happen, including each error. Two more lists change
  only the MTU, or only the MAC and an explicit default name. Four DHCP lists
  cover:
  - a single override;
  - a MAC given twice;
  - two MACs;
  - text that is not IPv4.

  `MC_ConfigsMacClash` adds one more list (with VLAN 1 only). It puts
  interface 2, with its own MAC, on interface 1's VLAN and gives it
  interface 1's link-local address. That reaches the MAC check
  of `updateVlanInterfaces`. The mask check cannot fail here, because an
  address fixes its network and so its mask. `MC_ConfigsRx` is used only
  by `rx_own_addr.cfg`. It gives an interface of router 1 two addresses of
  one network, the case the packet path's own-address check misses.
- **`MC_PolicyAgent`** uses two ports, mirrors `m1`/`m2` and ACL names `x`,
  `y`, `z`. Each group of settings varies from one reload to the next while
  the others keep their defaults. This keeps the runs small while every
  added, dropped or dangling reference still occurs.
- **`MC_BcmHost`** has three keys:
  - a neighbour;
  - an IPv6 link-local key, which is never written to the ASIC;
  - a host-route key.

  It also has three SDK egress IDs, which is enough for every live host, so
  allocation never fails. There are two ports, a trunk, two queue-per-host
  classes, and one ECMP group over two of the egresses. There is a cold boot,
  and a warm boot whose cache holds the neighbour's entry. `MaxRouteRefs = 1`
  already lets a neighbour and a route share a host.
- **`MC_AclCheck`** sets the ACL fields one at a time, each unset or on
  either side of its limits (a negative L4 range minimum included), for
  `acl_l4_range.cfg`. **`MC_MinLinkCount`** enumerates member counts up
  to 256.
- **`MC_BcmPort`** has one port and six Port nodes the config can switch
  between: the default (DEFAULT speed, VLAN 10, one queue); the same at XG and
  at GIGE, which has no optical interface mode and so makes `program` throw;
  one renamed to a backplane `fab` port (copper without asking the
  platform); one with its queue renamed; and one moved to VLAN 20 with
  VLAN 10 tagged, a second queue, an ingress mirror and sFlow to the mirror.
  Together they reach every branch of `setupStatsIfNeeded`, `setSpeed` and
  `getTransmitterTechnology`. The platform answers optical or unknown. The
  ASIC starts enabled at 25G; a cold boot disables it, a warm boot keeps it
  with either saved operState.

All pass runs are exhaustive.

### Fairness

None is assumed. Reloads, route calls, neighbour events, link changes and
restarts come from outside, and the code obliges none of them to happen.
The stats thread of `BcmPort` is periodic, but a crash may stop it at any
point, so no progress property of it is stated. Every checked property is
a safety property: invariants, action properties and the refinement.

### Refinement

`BcmPortAsic` states what a `BcmPort` call does to the ASIC port, one call at
a time. `BcmPort` instantiates it (`Asic == INSTANCE BcmPortAsic WITH ...`),
mapping `enabled`, `speed` and `ingressVlan` to the fields of `asic`,
`collecting` to `statCollectionEnabled`, `programmed` to
`programmedSettings` and `down` to `crashed`. `AsicRefinement` is
`Asic!ASpec`. Stats, link and config steps are stuttering steps of the
abstract spec; a throwing call is `AFail`; the null-counter crash is
`ACrash`.

### Mutants

Each property of a pass run is broken by one plausible bug in the operator it
depends on (see `mutants`). Two examples:

- `UpdateInterfaceNoMtu` leaves the MTU out of `updateInterface`'s
  comparison.
- `ProgramReplaceNever` never replaces the host entry after a class change.

## 4. Findings

See `findings` in PROJECT.json.

1. `syncStaticRoutes` clears only router 0's statics.
2. In RIB mode, `rib_->reconfigure` runs before validation.
3. A new default QoS policy is set without setting `changed`.
4. LLDP expectations are merged rather than replaced.
5. `updateAggPort`'s `std::equal` reads past the old member list.
6. `std::ceil` of a double product rounds 7 up to 8.
7. `setPortState` clones a stale port node, which undoes a concurrent reload.

### Further observations

These are kept as cfgs that TLC still reports violated. They are not in the
run list.

| Cfg | Property | What it shows |
|---|---|---|
| `acl_egress_mirror.cfg` | AclMirrorsValid | `updateAcls` reads the egress mirror with `getIngressMirror()` (line 1417). An egress mirror naming no mirror is committed. The spec lists this as an open question. |
| `acl_dup_matcher.cfg` | ReloadIdempotent | A matcher used by both the CoPP and the data-plane policy is counted twice. Every reload then reports the ACLs changed. |
| `deny_precedence.cfg` | DenyPrecedence | CoPP priorities start below the DENY band (line 1332). |
| `lag_zero_members.cfg` | MinLinkCountMatchesSpec | A percentage over a LAG with no members gives 0 links. |
| `acl_l4_range.cfg` | AcceptedAclL4PortsInRange | The legacy L4 ranges are bounded only from above. A range with a negative minimum passes `checkAcl`, and `createAcl` programs it. |
| `rx_own_addr.cfg` | RxNoArpForOwnAddress | The comment at `IPv4Handler.cpp:277` says no ARP request is sent for the switch's own address. `resolveMac` compares the target only with the first address of the network that `getAddressToReach` returns. Take a router-1 interface with two addresses in one network. A packet to its second address misses the "for us" lookup, which searches router 0 only, so the switch ARPs for its own address. |
| `rib_idem.cfg` | ReloadIdempotent | The FIB containers always report a change. |
| `vlan_card.cfg`, `vlan_ref.cfg` | VlanCardinality, VlanInterfaceRefValid | An explicit VLAN `intfID` is never validated. |
| `default_vlan.cfg` | DefaultVlanExists | The default VLAN is checked only when its ID changes. |
| `stats_race.cfg` | NoNullCounter | `updateStats` checks `statCollectionEnabled_`, then `disable` destroys `portCounters_`, then `updateStat` dereferences a null counter (line 822). The same interleaving saves a sample after `destroyAllPortStats` reset `lastPortStats_`. |
| `port_flap.cfg` | NoFlapAtSpeed | After a warm boot whose saved operState is down while the link is up, `program` calls `speed_set` on the up link at the speed it already runs at, which is the flap the comment in `setSpeed` says the check avoids. |

`HandlePacket` shows one more behaviour. The TTL check comes before the
limited-broadcast check, so a broadcast with TTL 1 gets an ICMP Time
Exceeded, and so does a multicast packet on a VLAN without an interface.
RFC 1812 forbids that; the code states no intent. A packet for the
switch's own address in a router other than 0 is not recognised as ours
(the code's TODO "assume vrf 0 now"). `resolveMac` then skips it only
through its `source == target` check.

Two more observations are recorded as hazards:

- In `updateControlPlane`, an rx-reason map that the config omits resets
  nothing on an existing node, but empties it on a new one.
- The CPU queues take the *first* matching qosMap (line 2070), while the
  comment speaks of the policy's map.

## 5. Assumptions about code outside the repository

- **BcmHost.h, the egress manager and `BcmMultiPathNextHopTable` are absent.**
  The model represents them by what they keep: the set of resolved egresses,
  the egress-to-port map, and the members of one ECMP group.
  - `updatePortToEgressMapping` sets the map entry.
  - `egressResolutionChangedHwLocked` adds an ECMP path on EXPAND and removes
    it on SHRINK.
  - `getEgress()` is null for an egress given by `setEgressId`. `program` on
    such a host would fail its `CHECK`, so the model does not program it.
  - Host routes (`setEgressId` followed by `addToBcmHostTable(isMultipath,
    true)`) use keys that no neighbour uses, because their callers are not in
    this repository.
- **`BcmSwitch` and `BcmPortTable`, the callers of `BcmPort`, are absent.**
  The model lets the update thread call `enable`, `disable`, `program` and
  `disableStatCollection` at any time with the current Port node. It calls
  `enableStatCollection` by itself, and the mirror-name setters, only before
  the first `program`, as a warm boot would. Nothing is assumed to serialise
  `updateStats` with the update thread. An exception from a call, or a null
  dereference, is taken to stop the agent; a cold restart follows.
- **`BcmMirror` is absent.** `applyMirrorAction` is left out; only the
  mirror names and the sample destination that `updateMirror` keeps are
  modelled. `sampleDest_` has no initialiser, so it starts as either
  destination.
- **Which Port node `disable` gets.** `disable` removes the port from the
  VLANs of the node it is passed, not from those `enable` added it to. If
  `BcmSwitch` passes the new node after a VLAN change, the disabled port
  stays in the old VLANs. The model passes the current node and states
  nothing about VLAN membership after a disable, since the caller decides.
- **`Port::modify`** is NodeBase's copy-on-write clone into the new state.
- **`RouteUpdater` and the RIB** are modelled from the spec.
- **`LoadBalancerConfigApplier`** is absent, so it is not modelled.
- **The lookups `IPv4Handler` calls are absent** (`InterfaceMap`,
  `SwSwitch::longestMatch`, `Route`, `Interface::getAddressToReach`, the ARP
  table, the NeighborUpdater). They are taken as their names say.
  `getInterfaceInVlanIf` is the lowest-ID interface on the VLAN.
  `longestMatch` is the best entry of the router's route for the
  destination's network, by admin distance (spec §3): connected, then
  static, then protocol routes. It reads the route tables, or the FIB with
  a standalone RIB. A route with next hops counts as unresolved, because
  the model has no gateway addresses. The learned ARP table is not
  modelled, so the ARP requests are those sent when it has no entry.

## 6. Not modelled

- The load-balancer reconciler: its source is not in the repository.
- The `*InVrf` route calls with a non-zero VRF. They only throw without a RIB.
- The MPLS handlers: the LabelFib semantics are outside the repository.
- In `BcmPort`: FEC, pause, Tx settings, loopback, the QoS-policy attach, the
  port-resource API, sFlow rates, the queue-length stat and the histograms.
  They are SDK calls whose results nothing in the model reads.
- BcmSwitch and port groups: only their headers are in the repository.
- The SAI layer, platforms and qsfp_service: wiring and I/O with little state.
- `MacTable`: L2 entries learned from packets, with a copy-on-write
  `modify()`. No reconciler, handler or hardware model here reads them, so
  a model would have nothing to check them against.
- In `IPv4Handler`: building and serialising the ICMP packet
  (`createICMPv4Pkt`, `sendICMPTimeExceeded`) and the DHCP handler. They
  are packet I/O; the model keeps only the decision to send.
- Formatting, logging and statistics counters: no property depends on them.
- `programToTrunk` with `BcmTrunk::INVALID`: nothing in the repository
  calls `programHostsToTrunk`, so `ProgramToTrunk` takes only valid trunk
  IDs.
