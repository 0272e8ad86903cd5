-------------------------------- MODULE BcmHost --------------------------------
(***************************************************************************)
(* The Broadcom L3 host table (src/fboss/agent/hw/bcm/BcmHost.cpp):        *)
(* reference-counted BcmHost entries, created by refOrEmplace for          *)
(* neighbors (BcmNeighborTable) and routes' next hops, programmed to a     *)
(* port, a trunk, the CPU or drop, given a host route's egress with        *)
(* setEgressId, and destroyed when the last reference goes.                *)
(*                                                                         *)
(* A host is [egress, added, port, action, cls]: egress is NoEgress or     *)
(* [id, owned] (owned: the BcmEgress the host created; not owned: an       *)
(* egress ID given by setEgressId), added is addedInHW_, port is           *)
(* egressPort_ (NoPort, a port number or a trunk), cls the lookup class    *)
(* ID (0 for none).  BcmHost.h, the egress manager and the multipath       *)
(* next-hop table are not in this repository: getEgressId() is the         *)
(* egress's ID (Invalid without one), isPortOrTrunkSet() is egressPort_    *)
(* being set, and the three callees are represented by what they keep:     *)
(* the set of resolved egress IDs, the egress-to-port mapping, and the     *)
(* members programmed in the one ECMP group whose paths are EcmpPaths.     *)
(***************************************************************************)
EXTENDS Integers, FiniteSets

CONSTANTS
    Keys,           \* host keys (VRF and address)
    LinkLocal,      \* the IPv6 link-local keys, never written to the ASIC
    HostRouteKeys,  \* keys a host route programs with setEgressId
    EgressIds,      \* egress IDs the SDK can hand out for a host's BcmEgress
    RouteEgressIds, \* egress IDs of route next-hop groups (setEgressId)
    EcmpPaths,      \* the paths of the ECMP egress (a subset of EgressIds)
    Ports,          \* front-panel ports (non-zero)
    Trunks,         \* valid trunk IDs
    QphClasses,     \* the queue-per-host lookup classes
    NoClass,        \* classID not given
    Invalid,        \* BcmEgressBase::INVALID
    NoEgress,       \* egress_ is null
    NoPort,         \* egressPort_ is std::nullopt / gport of port 0
    NoHost,         \* no entry in the ASIC host table
    MaxRouteRefs,   \* bound on references held by routes per key
    WarmCaches      \* possible warm-boot host caches at startup

ASSUME LinkLocal \subseteq Keys /\ HostRouteKeys \subseteq Keys /\ EcmpPaths \subseteq EgressIds

VARIABLES
    neighbors,      \* BcmNeighborTable::neighborHosts_ (its keys)
    routeRefs,      \* references to each key's BcmHost held by routes
    host,           \* each key's BcmHost (NewHost when there is none)
    hwHost,         \* the ASIC's L3 host table
    warmCache,      \* BcmWarmBootCache host entries not yet programmed
    resolved,       \* the egress manager's resolved egress IDs
    egressToPort,   \* the egress manager's egress -> port mapping
    ecmpMembers     \* egress IDs in the ECMP group's hardware entry

vars == <<neighbors, routeRefs, host, hwHost, warmCache, resolved, egressToPort, ecmpMembers>>

AllEgressIds == EgressIds \cup RouteEgressIds

\* A new BcmHost: no egress, not in the ASIC, no port, lookup class 0.
NewHost == [egress |-> NoEgress, added |-> FALSE, port |-> NoPort, action |-> "DROP", cls |-> 0]

\* hosts_.referenceCount(key) > 0.
Live(k) == k \in neighbors \/ routeRefs[k] > 0

\* getEgress() is the host's own BcmEgress: null for an egress ID given by
\* setEgressId, which program's CHECK(egressPtr) does not allow.
CanProgram(h) == IF h.egress = NoEgress THEN TRUE ELSE h.egress.owned

GetEgressId(h) == IF h.egress = NoEgress THEN Invalid ELSE h.egress.id

IsPortOrTrunkSet(h) == h.port # NoPort

\* Egress IDs held by some host's own BcmEgress: the SDK hands out others.
UsedEgressIds == {host[k].egress.id : k \in {k \in Keys : Live(k) /\ host[k].egress # NoEgress /\ host[k].egress.owned}}

\* egressResolutionChangedHwLocked on the ECMP group.
EcmpAfter(members, eid, act) ==
    IF eid \notin EcmpPaths THEN members
    ELSE CASE act = "EXPAND" -> members \cup {eid}
           [] act = "SHRINK" -> members \ {eid}
           [] OTHER          -> members

(***************************************************************************)
(* addToBcmHostTable(isMultipath, replace): nothing for a link-local key;  *)
(* else the entry [intf, multipath, cls] is written unless the warm-boot   *)
(* cache holds an equivalent one, the cache entry is consumed, and         *)
(* addedInHW_ is set.  Returns the new [hw, cache, added].                 *)
(***************************************************************************)
AddToBcmHostTable(k, eid, cls, isMultipath, added) ==
    LET entry == [intf |-> eid, multipath |-> isMultipath, cls |-> cls]
        inCache == k \in DOMAIN warmCache
    IN  IF k \in LinkLocal THEN [hw |-> hwHost, cache |-> warmCache, added |-> added]
        ELSE [hw    |-> IF inCache /\ warmCache[k] = entry THEN hwHost ELSE [hwHost EXCEPT ![k] = entry],
              cache |-> [j \in DOMAIN warmCache \ {k} |-> warmCache[j]],
              added |-> TRUE]

\* Fault variant: a host that came up is not expanded into ECMP groups.
EcmpActionNoExpand(isSet, port) ==
    IF isSet /\ port = NoPort THEN "SHRINK" ELSE IF isSet THEN "EXPAND" ELSE "SKIP"

\* went down: SHRINK; came up or stayed up: EXPAND; stayed down: SKIP.
EcmpAction(isSet, port) ==
    IF isSet /\ port = NoPort THEN "SHRINK" ELSE IF ~isSet /\ port = NoPort THEN "SKIP" ELSE "EXPAND"

ResolvedAfter(res, eid, isSet, port) ==
    IF isSet /\ port = NoPort THEN res \ {eid}
    ELSE IF ~isSet /\ port # NoPort THEN res \cup {eid} ELSE res

\* The lookup class program() leaves and whether it must replace the entry.
\* Fault variant: no classID is not mapped to the SDK's default 0.
ClassToSetNoDefault(cls) == cls

ClassToSet(cls) == IF cls = NoClass THEN 0 ELSE cls

\* Fault variant: a lookup class change does not replace the entry.
ProgramReplaceNever(h, cls) == FALSE

ProgramReplace(h, cls) == h.cls # ClassToSet(cls) /\ h.added

(***************************************************************************)
(* BcmHost::program (through programHostsToPort / programHostsToCPU): the  *)
(* lookup class, an egress created when there is none, the egress          *)
(* programmed, the host entry added (or replaced when the class changed),  *)
(* then the resolved set, the port mapping and the ECMP group follow the   *)
(* port.  port is NoPort for TO_CPU and DROP.  A host whose egress came    *)
(* from setEgressId is not programmed this way (see the README).           *)
(***************************************************************************)
Program(k, port, action, cls) ==
    LET h   == host[k]
        new == h.egress = NoEgress
    IN  /\ Live(k)
        /\ CanProgram(h)
        /\ \E eid \in IF new THEN EgressIds \ UsedEgressIds ELSE {h.egress.id} :
              LET replace == ProgramReplace(h, cls)
                  add     == AddToBcmHostTable(k, eid, ClassToSet(cls), FALSE, h.added)
                  isSet   == IsPortOrTrunkSet(h)
              IN  /\ IF ~h.added \/ replace THEN hwHost' = add.hw /\ warmCache' = add.cache
                     ELSE UNCHANGED <<hwHost, warmCache>>
                  /\ host' = [host EXCEPT ![k] = [egress |-> [id |-> eid, owned |-> TRUE],
                                                  added |-> IF ~h.added \/ replace THEN add.added ELSE h.added,
                                                  port |-> port, action |-> action, cls |-> ClassToSet(cls)]]
                  /\ resolved' = ResolvedAfter(resolved, eid, isSet, port)
                  /\ egressToPort' = [egressToPort EXCEPT ![eid] = port]
                  /\ ecmpMembers' = EcmpAfter(ecmpMembers, eid, EcmpAction(isSet, port))
        /\ UNCHANGED <<neighbors, routeRefs>>

(***************************************************************************)
(* BcmHost::programToTrunk (programHostsToTrunk): an egress created when   *)
(* there is none, the host entry added if it is not yet, the egress        *)
(* marked resolved, mapped to the trunk and expanded into ECMP groups.     *)
(***************************************************************************)
ProgramToTrunk(k, trunk) ==
    LET h   == host[k]
        new == h.egress = NoEgress
    IN  /\ Live(k)
        /\ CanProgram(h)
        /\ \E eid \in IF new THEN EgressIds \ UsedEgressIds ELSE {h.egress.id} :
              LET add == AddToBcmHostTable(k, eid, h.cls, FALSE, h.added)
              IN  /\ IF ~h.added THEN hwHost' = add.hw /\ warmCache' = add.cache
                     ELSE UNCHANGED <<hwHost, warmCache>>
                  /\ host' = [host EXCEPT ![k] = [h EXCEPT !.egress = [id |-> eid, owned |-> TRUE],
                                                           !.added = IF ~h.added THEN add.added ELSE h.added,
                                                           !.port = trunk, !.action = "NEXTHOPS"]]
                  /\ resolved' = resolved \cup {eid}
                  /\ egressToPort' = [egressToPort EXCEPT ![eid] = trunk]
                  /\ ecmpMembers' = EcmpAfter(ecmpMembers, eid, "EXPAND")
        /\ UNCHANGED <<neighbors, routeRefs>>

(***************************************************************************)
(* A host route on the host table: setEgressId(eid) (nothing when the      *)
(* egress is already eid; else the route's egress replaces the host's and  *)
(* the action becomes DROP), then addToBcmHostTable(isMultipath, true).    *)
(***************************************************************************)
SetEgressId(h, eid) ==
    IF eid = GetEgressId(h) THEN h ELSE [h EXCEPT !.egress = [id |-> eid, owned |-> FALSE], !.action = "DROP"]

ProgramHostRoute(k, eid, isMultipath) ==
    LET h   == SetEgressId(host[k], eid)
        add == AddToBcmHostTable(k, eid, h.cls, isMultipath, h.added)
    IN  /\ Live(k) /\ k \in HostRouteKeys
        /\ host' = [host EXCEPT ![k] = [h EXCEPT !.added = add.added]]
        /\ hwHost' = add.hw
        /\ warmCache' = add.cache
        /\ UNCHANGED <<neighbors, routeRefs, resolved, egressToPort, ecmpMembers>>

(***************************************************************************)
(* ~BcmHost, run when the last reference goes: the ASIC entry deleted if   *)
(* it was added; then, if the host has an egress, the egress unresolved if *)
(* it had a port, mapped to no port, and shrunk from ECMP groups (SKIP     *)
(* without a port).  The host's own BcmEgress is freed with it.            *)
(***************************************************************************)
\* Fault variant: the egress is not unresolved.
DestroyResolvedKeep(h) == resolved

DestroyResolved(h) == IF IsPortOrTrunkSet(h) THEN resolved \ {GetEgressId(h)} ELSE resolved

Destroy(k) ==
    LET h == host[k]
    IN  /\ hwHost' = IF h.added THEN [hwHost EXCEPT ![k] = NoHost] ELSE hwHost
        /\ host' = [host EXCEPT ![k] = NewHost]
        /\ IF h.egress = NoEgress THEN UNCHANGED <<resolved, egressToPort, ecmpMembers>>
           ELSE /\ resolved' = DestroyResolved(h)
                /\ egressToPort' = [egressToPort EXCEPT ![h.egress.id] = NoPort]
                /\ ecmpMembers' = EcmpAfter(ecmpMembers, h.egress.id,
                                            IF IsPortOrTrunkSet(h) THEN "SHRINK" ELSE "SKIP")

\* BcmNeighborTable::registerNeighbor: refOrEmplace and keep the reference
\* (a second registration's emplace fails and drops the extra reference).
RegisterNeighbor(k) ==
    /\ k \notin neighbors
    /\ neighbors' = neighbors \cup {k}
    /\ UNCHANGED <<routeRefs, host, hwHost, warmCache, resolved, egressToPort, ecmpMembers>>

\* BcmNeighborTable::unregisterNeighbor: the reference dropped; the host
\* is destroyed unless a route still refers to it.
UnregisterNeighbor(k) ==
    /\ k \in neighbors
    /\ neighbors' = neighbors \ {k}
    /\ IF routeRefs[k] = 0 THEN Destroy(k) ELSE UNCHANGED <<host, hwHost, resolved, egressToPort, ecmpMembers>>
    /\ UNCHANGED <<routeRefs, warmCache>>

\* BcmHostTable::refOrEmplace for a route's next hop or host route.
RefHost(k) ==
    /\ routeRefs[k] < MaxRouteRefs
    /\ routeRefs' = [routeRefs EXCEPT ![k] = @ + 1]
    /\ UNCHANGED <<neighbors, host, hwHost, warmCache, resolved, egressToPort, ecmpMembers>>

\* A route drops its reference (the shared_ptr released).
UnrefHost(k) ==
    /\ routeRefs[k] > 0
    /\ routeRefs' = [routeRefs EXCEPT ![k] = @ - 1]
    /\ IF routeRefs[k] = 1 /\ k \notin neighbors THEN Destroy(k)
       ELSE UNCHANGED <<host, hwHost, resolved, egressToPort, ecmpMembers>>
    /\ UNCHANGED <<neighbors, warmCache>>

\* A warm boot: the ASIC host table holds what the cache found.
Init ==
    /\ neighbors = {}
    /\ routeRefs = [k \in Keys |-> 0]
    /\ host = [k \in Keys |-> NewHost]
    /\ warmCache \in WarmCaches
    /\ hwHost = [k \in Keys |-> IF k \in DOMAIN warmCache THEN warmCache[k] ELSE NoHost]
    /\ resolved = {}
    /\ egressToPort = [e \in AllEgressIds |-> NoPort]
    /\ ecmpMembers = {}

Next ==
    \/ \E k \in Keys \ HostRouteKeys : RegisterNeighbor(k) \/ UnregisterNeighbor(k)
    \/ \E k \in Keys : RefHost(k) \/ UnrefHost(k)
    \/ \E k \in Keys \ HostRouteKeys, cls \in QphClasses \cup {NoClass} :
          \/ \E p \in Ports : Program(k, p, "NEXTHOPS", cls)
          \/ \E a \in {"TO_CPU", "DROP"} : Program(k, NoPort, a, cls)
    \/ \E k \in Keys \ HostRouteKeys, t \in Trunks : ProgramToTrunk(k, t)
    \/ \E k \in HostRouteKeys, eid \in RouteEgressIds, mp \in BOOLEAN : ProgramHostRoute(k, eid, mp)

Spec == Init /\ [][Next]_vars

-----------------------------------------------------------------------------
(* Properties *)

TypeOK ==
    /\ neighbors \subseteq Keys
    /\ routeRefs \in [Keys -> 0..MaxRouteRefs]
    /\ resolved \subseteq AllEgressIds
    /\ ecmpMembers \subseteq EcmpPaths
    /\ \A k \in Keys : host[k].cls \in QphClasses \cup {0} /\ host[k].added \in BOOLEAN

\* The ASIC host table agrees with the BcmHosts: a host that addedInHW_
\* has its entry pointing at its current egress with its current lookup
\* class (a class change replaces it, a new egress after warm boot
\* replaces the cached one), and every entry belongs to a live added
\* host or is a warm-boot entry no host has claimed yet.
HostTableMatches ==
    \A k \in Keys :
       /\ Live(k) /\ host[k].added =>
             hwHost[k] # NoHost /\ hwHost[k].intf = GetEgressId(host[k]) /\ hwHost[k].cls = host[k].cls
       /\ hwHost[k] # NoHost => (Live(k) /\ host[k].added) \/ k \in DOMAIN warmCache

\* isPortOrTrunkSet() stands in for "the egress is resolved" (the TODO at
\* program's resolution step): the resolved set is exactly the egresses of
\* live hosts with a port or trunk, and the egress-to-port mapping gives
\* each such egress its host's port, and no port to every other egress.
EgressManagerMatchesHosts ==
    LET withPort == {k \in Keys : Live(k) /\ IsPortOrTrunkSet(host[k])}
    IN  /\ resolved = {GetEgressId(host[k]) : k \in withPort}
        /\ \A e \in AllEgressIds :
              egressToPort[e] = IF \E k \in withPort : GetEgressId(host[k]) = e
                                THEN host[CHOOSE k \in withPort : GetEgressId(host[k]) = e].port
                                ELSE NoPort

\* The ECMP group's hardware members are exactly its resolved paths: a
\* path is expanded whenever its host comes up or is re-programmed with a
\* port or trunk, and shrunk when it goes down or its host is destroyed.
EcmpMembersResolved == ecmpMembers = EcmpPaths \cap resolved
=============================================================================
