------------------------------ MODULE PolicyAgent ------------------------------
(***************************************************************************)
(* The agent's committed ports, mirrors and ACLs under config reloads      *)
(* (ThriftHandler::reloadConfig -> SwSwitch::applyConfig): each reload is *)
(* one serialized pass of the ports/mirrors/ACLs reconcilers; a pass that  *)
(* throws leaves the committed state as it was.                            *)
(***************************************************************************)
EXTENDS PolicyConfig

CONSTANTS
    Configs,        \* the configurations that may be applied
    NoCfg,          \* no configuration applied yet
    InitialMisc,    \* the switch state's ARP/NDP/DHCP settings at startup
    InitialL2Mode   \* the switch settings' L2 learning mode at startup

VARIABLES
    state,          \* the committed switch state, one field per domain
    applied,        \* the last config whose pass succeeded (history)
    lastOp          \* the last pass: same config again?, outcome, reset

vars == <<state, applied, lastOp>>

MirrorName == {NoMirror} \cup UNION {{mc.name : mc \in Range(c.mirrors)} : c \in Configs}

TypeOK ==
    /\ DOMAIN state.ports = PortIds
    /\ \A p \in PortIds :
          state.ports[p].enabled \in BOOLEAN
          /\ {state.ports[p].inMirror, state.ports[p].egMirror} \subseteq MirrorName
    /\ \A m \in DOMAIN state.mirrors :
          state.mirrors[m] \in [port : PortIds \cup {NoPort}, tunnel : BOOLEAN]
    /\ \A k \in DOMAIN state.aggPorts :
          state.aggPorts[k].minLink \in 0..255 /\ Range(state.aggPorts[k].subports) \subseteq PortIds \X (0..65535)
    /\ \A a \in DOMAIN state.acls :
          state.acls[a].priority \in Nat /\ state.acls[a].deny \in BOOLEAN
    /\ applied \in Configs \cup {NoCfg}
    /\ lastOp.outcome \in {"none", "error", "unchanged", "changed"}

\* The platform's ports, all at their default (disabled) config, and the
\* CPU port with the platform's queues; no aggregate ports, mirrors, ACLs,
\* QoS policies or sFlow collectors.
Init ==
    /\ state = [ports |-> [p \in PortIds |-> NewPort], aggPorts |-> EmptyMap,
                mirrors |-> EmptyMap, acls |-> EmptyMap, qosPolicies |-> EmptyMap,
                defaultQos |-> Null, l2LearningMode |-> InitialL2Mode, sflowCollectors |-> {},
                controlPlane |-> [queues |-> NewPort.queues, qosPolicy |-> NotSet, rx |-> EmptyMap],
                misc |-> InitialMisc]
    /\ applied = NoCfg
    /\ lastOp = [same |-> FALSE, outcome |-> "none", reset |-> {}]

\* ThriftHandler::reloadConfig: one pass of config c, committed all or
\* nothing.  garbageEq resolves updateAggPort's read past the end of a
\* shorter member list (it only matters when the config has LAGs).
ReloadConfig(c) ==
    \E garbageEq \in IF c.aggPorts = <<>> THEN {FALSE} ELSE BOOLEAN : \E g \in UpdateAggregatePorts(state, c, garbageEq) :
    \E res \in {RunPolicy(state, c, g)} :
       /\ state' = IF res.err THEN state ELSE res.state
       /\ applied' = IF res.err THEN applied ELSE c
       /\ lastOp' = [same |-> (c = applied), reset |-> IF res.err THEN {} ELSE res.reset,
                     outcome |-> IF res.err THEN "error"
                                 ELSE IF res.reset = {} THEN "unchanged" ELSE "changed"]

Next == \E c \in Configs : ReloadConfig(c)

Spec == Init /\ [][Next]_vars

-----------------------------------------------------------------------------
(* Properties *)

\* The ports listed in config c.
Listed(c) == {c.ports[i].id : i \in DOMAIN c.ports}

\* updatePorts resets every port the applied config omits to its default
\* (disabled, unmirrored) config, across any sequence of reloads.
PortsResetToDefault ==
    applied # NoCfg =>
       \A p \in PortIds \ Listed(applied) :
          /\ ~state.ports[p].enabled
          /\ state.ports[p].inMirror = NoMirror /\ state.ports[p].egMirror = NoMirror

\* Every mirror a port names exists, and no mirror's egress port is itself
\* mirrored to that mirror: updatePorts and updateMirrors together keep
\* these references whole across reloads that change either side.
PortMirrorsValid ==
    /\ \A p \in PortIds :
          {state.ports[p].inMirror, state.ports[p].egMirror} \ {NoMirror} \subseteq DOMAIN state.mirrors
    /\ \A m \in DOMAIN state.mirrors :
          state.mirrors[m].port # NoPort =>
             m \notin {state.ports[state.mirrors[m].port].inMirror,
                       state.ports[state.mirrors[m].port].egMirror}

\* Every mirror an ACL's action names, ingress or egress, exists in the
\* committed mirrors (the check of updateAcls after each entry).
AclMirrorsValid ==
    \A a \in DOMAIN state.acls :
       state.acls[a].action # Null =>
          {state.acls[a].action.inMirror, state.acls[a].action.egMirror} \ {NoMirror}
             \subseteq DOMAIN state.mirrors

\* Spec section 4.4's priority bands, as a reference for config c: the
\* DENY entries in config order from kAclStartPriority, the CoPP matchers
\* from 1, the data-plane matchers after the DENY band.
DenySeq(c) == SelectSeq(c.acls, LAMBDA ac : ac.deny)
ActionSeq(c, policy) ==
    SelectSeq(policy, LAMBDA mta : ~\E i \in DOMAIN c.acls : c.acls[i].name = mta.matcher /\ c.acls[i].deny)
IndexIn(s, n) == CHOOSE i \in DOMAIN s : s[i] = n
ExpectedAcls(c) ==
    LET deny == [i \in DOMAIN DenySeq(c) |-> DenySeq(c)[i].name]
        cpu  == [i \in DOMAIN ActionSeq(c, c.cpuPolicy) |-> ActionSeq(c, c.cpuPolicy)[i].matcher]
        data == [i \in DOMAIN ActionSeq(c, c.dataPolicy) |-> ActionSeq(c, c.dataPolicy)[i].matcher]
    IN  [n \in Range(deny) \cup Range(cpu) \cup Range(data) |->
            IF n \in Range(deny) THEN AclStartPriority + IndexIn(deny, n) - 1
            ELSE IF n \in Range(cpu) THEN IndexIn(cpu, n)
            ELSE AclStartPriority + Len(deny) + IndexIn(data, n) - 1]

\* After any sequence of reloads the committed ACLs are exactly the DENY
\* entries and the policy matchers of the applied config, with the band
\* priorities: ACLs dropped from the config are gone, kept ones renumbered.
AclsFollowConfig ==
    applied # NoCfg =>
       [a \in DOMAIN state.acls |-> state.acls[a].priority] = ExpectedAcls(applied)

\* Spec section 6, DENY precedence: every DENY entry has a lower priority
\* number (higher precedence) than every entry with an action.
DenyPrecedence ==
    \A a, b \in DOMAIN state.acls :
       state.acls[a].deny /\ ~state.acls[b].deny => state.acls[a].priority < state.acls[b].priority

\* Spec section 8: applying the config that is already applied again
\* reports "unchanged" and resets no domain.
ReloadIdempotent ==
    [][lastOp'.same /\ lastOp'.outcome # "error" => lastOp'.reset = {}]_vars

\* updatePort sets a port's expected LLDP values to the config's: a tag
\* the config no longer lists is no longer expected.
LldpFollowsConfig ==
    applied # NoCfg =>
       \A i \in DOMAIN applied.ports : state.ports[applied.ports[i].id].lldp = applied.ports[i].lldp
\* The LAGs the applied config lists, by key.
LagCfg(c, k) == c.aggPorts[CHOOSE i \in DOMAIN c.aggPorts : c.aggPorts[i].key = k]

\* After any sequence of reloads the committed aggregate ports are those
\* of the applied config, each with a minimum link count computed from
\* its capacity and member count: a LAG dropped from the config is gone.
AggPortsFollowConfig ==
    applied # NoCfg =>
       /\ DOMAIN state.aggPorts = {applied.aggPorts[i].key : i \in DOMAIN applied.aggPorts}
       /\ \A k \in DOMAIN state.aggPorts :
             state.aggPorts[k].minLink
                \in ComputeMinimumLinkCounts(LagCfg(applied, k).cap, Len(LagCfg(applied, k).members))

\* Every committed aggregate port has exactly the member ports of the
\* applied config.
LagMembersFollowConfig ==
    applied # NoCfg =>
       \A k \in DOMAIN state.aggPorts :
          Range(state.aggPorts[k].subports) = Range(LagCfg(applied, k).members)

\* The config of port p in config c: its entry, or the default config.
PortCfgOf(c, p) ==
    IF p \in Listed(c) THEN c.ports[CHOOSE i \in DOMAIN c.ports : c.ports[i].id = p]
    ELSE DefaultPortCfg(p)

\* A queue carries what its config queue sets: stream type, scheduling,
\* optional attributes, name, the AQM behaviors and the traffic class
\* the port's QoS map gives it; the weight only under WRR scheduling
\* (checkSwConfPortQueueMatch ignores it under strict priority).
QueueAgrees(q, c, tc) ==
    /\ q.streamType = c.streamType /\ q.scheduling = c.scheduling
    /\ q.reserved = c.reserved /\ q.name = c.name /\ q.tc = tc
    /\ DOMAIN q.aqms = {a.behavior : a \in Range(CfgAqms(c))}
    /\ c.scheduling = "WRR" => q.weight = CfgWeight(c)

\* Queues as updatePortQueues should leave them for config queues cq,
\* default queues dq and QoS map qm.
QueuesAgree(queues, cq, dq, qm) ==
    LET nq == NewQueues(cq, dq)
    IN  \A i \in DOMAIN queues :
           IF i \in DOMAIN nq THEN QueueAgrees(queues[i], nq[i], TrafficClassOf(qm, i))
           ELSE queues[i] = DefaultQueue(i, "UNICAST")

\* After any sequence of reloads every queue of every port follows the
\* applied config: the port's queue config (or defaultPortQueues) for the
\* queues it lists, the platform default for the others, with traffic
\* classes from the port's current QoS policy.  updatePortQueue keeps an
\* old queue only when it still matches, so no stale setting survives.
QueuesFollowConfig ==
    applied # NoCfg =>
       \A p \in PortIds :
          /\ state.ports[p].qosPolicy = NewQosPolicy(applied, p)
          /\ QueuesAgree(state.ports[p].queues, CfgPortQueues(applied, PortCfgOf(applied, p)),
                         applied.defaultPortQueues, QosMapOf(applied, NewQosPolicy(applied, p)))

\* After any sequence of reloads the committed QoS policies are exactly the
\* applied config's, but for the default data-plane policy, each as
\* createQosPolicy builds it: dropped policies are gone, edited ones new.
QosPoliciesFollowConfig ==
    applied # NoCfg =>
       /\ DOMAIN state.qosPolicies
             = {applied.qosPolicies[i].name : i \in DOMAIN applied.qosPolicies} \ {DefaultQosName(applied)}
       /\ \A i \in DOMAIN applied.qosPolicies :
             applied.qosPolicies[i].name \in DOMAIN state.qosPolicies =>
                state.qosPolicies[applied.qosPolicies[i].name] = CreateQosPolicy(applied.qosPolicies[i])

\* The committed default data-plane QoS policy is the one the applied
\* config names as defaultQosPolicy (the first policy of that name), or
\* none when it names none.
DefaultQosFollowsConfig ==
    applied # NoCfg =>
       state.defaultQos =
          IF \E i \in DOMAIN applied.qosPolicies : applied.qosPolicies[i].name = DefaultQosName(applied)
          THEN CreateQosPolicy(applied.qosPolicies[CHOOSE i \in DOMAIN applied.qosPolicies :
                  applied.qosPolicies[i].name = DefaultQosName(applied)
                  /\ \A j \in 1..i-1 : applied.qosPolicies[j].name # DefaultQosName(applied)])
          ELSE Null

\* After any sequence of reloads the CPU port has the QoS policy the
\* applied config gives it (cpuTrafficPolicy's, else the data plane's
\* default), its queues follow cpuQueues (else defaultPortQueues) with
\* traffic classes from that policy's map, and it has the config's rx
\* reason map whenever the config lists one.
ControlPlaneFollowsConfig ==
    applied # NoCfg =>
       /\ state.controlPlane.qosPolicy = CpuQosPolicy(applied)
       /\ QueuesAgree(state.controlPlane.queues, applied.cpuQueues, applied.defaultPortQueues,
                      FirstQosMapOf(applied, CpuQosPolicy(applied)))
       /\ applied.cpuTrafficPolicy # NotSet /\ applied.cpuTrafficPolicy.rx # NotSet
             => state.controlPlane.rx = applied.cpuTrafficPolicy.rx

\* After any sequence of reloads the L2 learning mode, the sFlow
\* collectors and the ARP/NDP/DHCP settings are the applied config's (the
\* NDP timeout being the ARP timeout): none is lost when it is the only
\* thing a reload changes.
GlobalSettingsFollowConfig ==
    applied # NoCfg =>
       /\ state.l2LearningMode = applied.l2LearningMode
       /\ state.sflowCollectors = Range(applied.sflowCollectors)
       /\ state.misc = [arpAgerInterval |-> applied.misc.arpAgerInterval, arpTimeout |-> applied.misc.arpTimeout,
                        ndpTimeout |-> applied.misc.arpTimeout, maxNeighborProbes |-> applied.misc.maxNeighborProbes,
                        dhcp |-> CfgDhcp(applied), staleEntryInterval |-> applied.misc.staleEntryInterval]

\* After any sequence of reloads every port is a member of exactly the
\* VLANs the applied config's vlanPorts list for it, with their emitTags.
PortVlansFollowConfig ==
    applied # NoCfg =>
       \A p \in PortIds :
          /\ DOMAIN state.ports[p].vlans = {vp.vlan : vp \in {vp \in Range(applied.vlanPorts) : vp.port = p}}
          /\ \A vp \in Range(applied.vlanPorts) : vp.port = p => state.ports[p].vlans[vp.vlan] = vp.emitTags
=============================================================================
