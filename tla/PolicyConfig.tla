------------------------------ MODULE PolicyConfig ------------------------------
(***************************************************************************)
(* The port, mirror and ACL reconcilers of ThriftConfigApplier::run()      *)
(* (src/fboss/agent/ApplyThriftConfig.cpp): updatePorts/updatePort,        *)
(* updateMirrors/createMirror/updateMirror and updateAcls/updateAcl/       *)
(* createAcl, in run()'s order: ports, aggregate ports (AggregatePort),    *)
(* then mirrors ("mirror needs ports"), then ACLs ("acls may need          *)
(* mirror").                                                               *)
(*                                                                         *)
(* Data abstraction: a port node is its admin state, its ingress and       *)
(* egress mirror, its expected LLDP values (a function tag -> value), its  *)
(* queues (see PortQueues), QoS policy and sample destination; speed, FEC  *)
(* and the other scalar fields are compared and copied the same way and    *)
(* left out; sFlowEgressRate is only compared with 0.  A mirror node is its egress port and        *)
(* whether it has a tunnel destination.  An ACL node is its priority, its  *)
(* action type, its match fields (see AclCheck) and its MatchAction.       *)
(***************************************************************************)
EXTENDS Integers, SequencesExt, AclCheck, AggregatePort, PortQueues

CONSTANTS
    PortIds,        \* the platform's ports (PortID)
    NoMirror,       \* an unset optional mirror name
    NoPort,         \* a mirror destination without egressPort
    Null,           \* nullptr, or an unset optional field (MatchAction, counter)
    AclStartPriority, \* kAclStartPriority
    NumQueues       \* the platform's queues per port

EmptyMap == [x \in {} |-> 0]
Find(f, k) == k \in DOMAIN f

\* Port::initDefaultConfigState: the config of a port the file omits.
DefaultPortCfg(id) ==
    [id |-> id, enabled |-> FALSE, inMirror |-> NoMirror, egMirror |-> NoMirror,
     lldp |-> EmptyMap, queueCfg |-> NotSet, sampleDest |-> NotSet, sflowEgress |-> 0]

\* processVlanPorts: a (port, VLAN) pair listed twice throws.
VlanPortsErr(cfg) ==
    \E i, j \in DOMAIN cfg.vlanPorts :
       i < j /\ cfg.vlanPorts[i].port = cfg.vlanPorts[j].port /\ cfg.vlanPorts[i].vlan = cfg.vlanPorts[j].vlan

\* portVlans_[id]: the VLANs of port id with their emitTags (the first
\* entry of a pair; a second one throws).
PortVlans(cfg, id) ==
    LET is == {i \in DOMAIN cfg.vlanPorts : cfg.vlanPorts[i].port = id}
    IN  [v \in {cfg.vlanPorts[i].vlan : i \in is} |->
           cfg.vlanPorts[CHOOSE i \in is : cfg.vlanPorts[i].vlan = v /\ \A j \in is : cfg.vlanPorts[j].vlan = v => i <= j].emitTags]

\* The queue list of the port's portQueueConfigName (empty when unset).
PortQueueCfgErr(cfg, pc) == pc.queueCfg # NotSet /\ pc.queueCfg \notin DOMAIN cfg.portQueueConfigs
CfgPortQueues(cfg, pc) ==
    IF pc.queueCfg = NotSet \/ PortQueueCfgErr(cfg, pc) THEN <<>> ELSE cfg.portQueueConfigs[pc.queueCfg]

\* newQosPolicy: the data-plane policy's portIdToQosPolicy entry for the
\* port, else its defaultQosPolicy (NotSet when there is none).
NewQosPolicy(cfg, id) ==
    IF cfg.dataPlaneQos = NotSet THEN NotSet
    ELSE IF id \in DOMAIN cfg.dataPlaneQos.perPort THEN cfg.dataPlaneQos.perPort[id]
    ELSE cfg.dataPlaneQos.default

\* The qosMap of the last qosPolicies entry named policy that has one.
QosMapOf(cfg, policy) ==
    LET has == {i \in DOMAIN cfg.qosPolicies :
                  cfg.qosPolicies[i].name = policy /\ cfg.qosPolicies[i].qosMap # NotSet}
    IN  IF policy = NotSet \/ has = {} THEN NotSet ELSE cfg.qosPolicies[Max(has)].qosMap

PortQueuesOf(cfg, orig, pc) ==
    UpdatePortQueues(orig.queues, CfgPortQueues(cfg, pc), cfg.defaultPortQueues,
                     QosMapOf(cfg, NewQosPolicy(cfg, pc.id)))

\* updatePort's throws: an unknown queue config name, a queue error, and
\* egress sampling to a mirror destination.
PortErr(cfg, orig, pc) ==
    \/ PortQueueCfgErr(cfg, pc)
    \/ PortQueuesOf(cfg, orig, pc).err
    \/ pc.sampleDest = "MIRROR" /\ pc.sflowEgress > 0

(***************************************************************************)
(* updatePort: nullptr ("unchanged") when every field equals the config,   *)
(* else a clone with the config's fields.  The expected LLDP values are    *)
(* merged into the old map (lldpmap[tag] = value) rather than replaced.    *)
(***************************************************************************)
\* Fault variant: the VLAN membership is not compared.
PortUnchangedNoVlans(orig, pc, queues, qosPolicy, vlans) ==
    pc.enabled = orig.enabled /\ pc.inMirror = orig.inMirror
    /\ pc.egMirror = orig.egMirror /\ pc.lldp = orig.lldp
    /\ queues = orig.queues /\ qosPolicy = orig.qosPolicy
    /\ pc.sampleDest = orig.sampleDest /\ pc.sflowEgress = orig.sflowEgress

PortUnchanged(orig, pc, queues, qosPolicy, vlans) ==
    vlans = orig.vlans /\ pc.enabled = orig.enabled /\ pc.inMirror = orig.inMirror
    /\ pc.egMirror = orig.egMirror /\ pc.lldp = orig.lldp
    /\ queues = orig.queues /\ qosPolicy = orig.qosPolicy
    /\ pc.sampleDest = orig.sampleDest /\ pc.sflowEgress = orig.sflowEgress

UpdatePortWith(orig, pc, queues, qosPolicy, vlans) ==
    IF PortUnchanged(orig, pc, queues, qosPolicy, vlans) THEN orig
    ELSE [enabled |-> pc.enabled, inMirror |-> pc.inMirror,
          egMirror |-> pc.egMirror, lldp |-> pc.lldp @@ orig.lldp,
          queues |-> queues, qosPolicy |-> qosPolicy,
          sampleDest |-> pc.sampleDest, sflowEgress |-> pc.sflowEgress, vlans |-> vlans]

UpdatePort(cfg, orig, pc) ==
    UpdatePortWith(orig, pc, PortQueuesOf(cfg, orig, pc).queues, NewQosPolicy(cfg, pc.id),
                   PortVlans(cfg, pc.id))

\* A platform port as the hardware reports it: default queues (unicast).
NewPort ==
    [enabled |-> FALSE, inMirror |-> NoMirror, egMirror |-> NoMirror, lldp |-> EmptyMap,
     queues |-> [i \in 0..NumQueues-1 |-> DefaultQueue(i, "UNICAST")],
     qosPolicy |-> NotSet, sampleDest |-> NotSet, sflowEgress |-> 0, vlans |-> EmptyMap]

(***************************************************************************)
(* updatePorts: every listed port, then every old port the config omits    *)
(* reset to its default config.  A port listed twice is updateMap's        *)
(* "duplicate entry".                                                      *)
(***************************************************************************)
\* Fault variant: omitted ports are erased like other domains' entries.
ResetOmittedPortsErase(cfg, origPorts, listed) == [id \in {} |-> NewPort]

\* Fault variant: omitted ports are kept as they are.
ResetOmittedPortsNone(cfg, origPorts, listed) == [id \in DOMAIN origPorts \ listed |-> origPorts[id]]

ResetOmittedPorts(cfg, origPorts, listed) ==
    [id \in DOMAIN origPorts \ listed |->
        UpdatePort(cfg, origPorts[id], DefaultPortCfg(id))]

UpdatePorts(st, cfg) ==
    LET Step(acc, pc) ==
          LET orig == IF Find(st.ports, pc.id) THEN st.ports[pc.id] ELSE NewPort
              node == UpdatePort(cfg, orig, pc)
          IN  [err     |-> acc.err \/ Find(acc.ports, pc.id) \/ PortErr(cfg, orig, pc),
               ports   |-> (pc.id :> node) @@ acc.ports,
               changed |-> acc.changed \/ ~Find(st.ports, pc.id) \/ node # orig]
        r     == FoldLeft(Step, [err |-> FALSE, ports |-> EmptyMap, changed |-> FALSE],
                          cfg.ports)
        reset == ResetOmittedPorts(cfg, st.ports, DOMAIN r.ports)
    IN  [err     |-> r.err \/ \E id \in DOMAIN reset : PortErr(cfg, st.ports[id], DefaultPortCfg(id)),
         ports   |-> r.ports @@ reset,
         changed |-> r.changed \/ \E id \in DOMAIN reset : reset[id] # st.ports[id]]

(***************************************************************************)
(* createMirror: a mirror needs an egress port or a tunnel; an egress port *)
(* (by logical ID) must exist in new_ and must not itself be mirrored to   *)
(* this mirror.  updateMirror keeps the old node when the created one is   *)
(* equal.  (A tunnel mirror is resolved later by the mirror manager, not   *)
(* by the reconciler: nothing resolves one here, so updateMirror's copy of *)
(* the resolved tunnel never applies.)                                     *)
(***************************************************************************)
\* Fault variant: a port mirrored to the mirror may be its egress port.
CreateMirrorErrNoLoop(ports, mc) ==
    \/ mc.port = NoPort /\ ~mc.tunnel
    \/ mc.port # NoPort /\ ~Find(ports, mc.port)

CreateMirrorErr(ports, mc) ==
    \/ mc.port = NoPort /\ ~mc.tunnel
    \/ /\ mc.port # NoPort
       /\ \/ ~Find(ports, mc.port)
          \/ ports[mc.port].inMirror = mc.name
          \/ ports[mc.port].egMirror = mc.name

CreateMirror(mc) == [port |-> mc.port, tunnel |-> mc.tunnel]

\* Fault variant: a new node even when it equals the old one.
UpdateMirrorAlways(orig, mc) == CreateMirror(mc)

\* nullptr when the created mirror equals the old one.
UpdateMirror(orig, mc) == IF CreateMirror(mc) = orig THEN Null ELSE CreateMirror(mc)

\* The names of the mirrors ports point at.
PortMirrorRefs(ports) ==
    {ports[p].inMirror : p \in DOMAIN ports} \cup {ports[p].egMirror : p \in DOMAIN ports}

(***************************************************************************)
(* updateMirrors over new_'s ports: each configured mirror (created, or    *)
(* updated when it exists), the removed ones counted through              *)
(* numExistingProcessed, then every port's ingress and egress mirror must *)
(* be one of the new mirrors.                                              *)
(***************************************************************************)
UpdateMirrors(st, ports, cfg) ==
    LET Step(acc, mc) ==
          LET orig == Find(st.mirrors, mc.name)
              new  == IF orig THEN UpdateMirror(st.mirrors[mc.name], mc) ELSE CreateMirror(mc)
          IN  [err      |-> acc.err \/ CreateMirrorErr(ports, mc) \/ Find(acc.mirrors, mc.name),
               mirrors  |-> (mc.name :> IF new = Null THEN st.mirrors[mc.name] ELSE new)
                               @@ acc.mirrors,
               existing |-> acc.existing + (IF orig THEN 1 ELSE 0),
               changed  |-> acc.changed \/ new # Null]
        r == FoldLeft(Step, [err |-> FALSE, mirrors |-> EmptyMap, existing |-> 0,
                             changed |-> FALSE], cfg.mirrors)
    IN  [err     |-> r.err \/ ~(PortMirrorRefs(ports) \ {NoMirror} \subseteq DOMAIN r.mirrors),
         mirrors |-> r.mirrors,
         changed |-> r.changed \/ r.existing # Cardinality(DOMAIN st.mirrors)]

(***************************************************************************)
(* createAcl (after checkAcl) and updateAcl: the node keeps the old one    *)
(* when equal; every call on an ACL that exists in orig_ counts one        *)
(* numExistingProcessed, and any other outcome sets changed.               *)
(***************************************************************************)
CreateAcl(ac, prio, action) ==
    [priority |-> prio, deny |-> ac.deny, fields |-> ac.fields, action |-> action]

UpdateAcl(st, ac, prio, action, acc) ==
    LET orig == Find(st.acls, ac.name)
        node == CreateAcl(ac, prio, action)
    IN  [acc EXCEPT !.err      = @ \/ ~CheckAcl(ac.fields),
                    !.existing = @ + (IF orig THEN 1 ELSE 0),
                    !.changed  = @ \/ ~orig \/ st.acls[ac.name] # node,
                    !.node     = node]

\* appendTo into the flat_map newAcls: a name already there is not replaced.
AppendAcl(acls, name, node) == IF Find(acls, name) THEN acls ELSE (name :> node) @@ acls

\* The first cfg::AclEntry of each name (aclByName, built by appendTo).
AclByName(cfg) ==
    [n \in {cfg.acls[i].name : i \in DOMAIN cfg.acls} |->
        cfg.acls[CHOOSE i \in DOMAIN cfg.acls :
                    cfg.acls[i].name = n /\ \A j \in 1..i-1 : cfg.acls[j].name # n]]

\* The MatchAction of one matchToAction entry of a policy.
MatchAction(mta, isCopp) ==
    [toQueue  |-> IF mta.queue THEN isCopp ELSE Null, counter |-> mta.counter,
     inMirror |-> mta.inMirror, egMirror |-> mta.egMirror]

\* The mirror references addToAcls validates: the egress one is read with
\* getIngressMirror() (line 1417), so it is the ingress mirror again.
CheckedMirrors(action) == {action.inMirror, action.inMirror} \ {NoMirror}

(***************************************************************************)
(* addToAcls(policy, isCopp): every matcher must name an ACL; DENY ones    *)
(* were already added and are skipped; a counter must exist; the entry     *)
(* gets the next CoPP (cpuPriority) or data-plane (priority) number, and   *)
(* the mirrors its action names must exist in new_'s mirrors.             *)
(***************************************************************************)
AddToAcls(st, mirrors, cfg, byName, policy, isCopp, acc0) ==
    LET Step(acc, mta) ==
          IF ~Find(byName, mta.matcher) THEN [acc EXCEPT !.err = TRUE]
          ELSE IF byName[mta.matcher].deny THEN acc
          ELSE LET action == MatchAction(mta, isCopp)
                   u == UpdateAcl(st, byName[mta.matcher],
                                  IF isCopp THEN acc.cpuPriority ELSE acc.priority, action, acc)
               IN  [u EXCEPT !.err = @ \/ (mta.counter # Null /\ mta.counter \notin cfg.counters)
                                       \/ ~(CheckedMirrors(action) \subseteq DOMAIN mirrors),
                             !.cpuPriority = IF isCopp THEN @ + 1 ELSE @,
                             !.priority = IF isCopp THEN @ ELSE @ + 1,
                             !.acls = AppendAcl(@, mta.matcher, u.node)]
    IN  FoldLeft(Step, acc0, policy)

(***************************************************************************)
(* updateAcls: the DENY entries first, in config order from                *)
(* kAclStartPriority; then the CoPP policy (priorities from 1), then the   *)
(* data-plane policy (continuing the DENY numbering); an old ACL no call   *)
(* counted was removed.                                                    *)
(***************************************************************************)
AddDenyAcls(st, cfg) ==
    LET Step(acc, ac) ==
          IF ~ac.deny THEN acc
          ELSE LET u == UpdateAcl(st, ac, acc.priority, Null, acc)
               IN  [u EXCEPT !.priority = @ + 1, !.acls = AppendAcl(@, ac.name, u.node)]
    IN  FoldLeft(Step, [err |-> FALSE, acls |-> EmptyMap, existing |-> 0, changed |-> FALSE,
                        priority |-> AclStartPriority, cpuPriority |-> 1, node |-> Null],
                 cfg.acls)

\* Fault variant: removed ACLs are not noticed.
AclsRemovedNone(st, r) == r.changed

AclsRemoved(st, r) == r.changed \/ r.existing # Cardinality(DOMAIN st.acls)

UpdateAcls(st, mirrors, cfg) ==
    LET byName == AclByName(cfg)
        cpu    == AddToAcls(st, mirrors, cfg, byName, cfg.cpuPolicy, TRUE, AddDenyAcls(st, cfg))
        r      == AddToAcls(st, mirrors, cfg, byName, cfg.dataPolicy, FALSE, cpu)
    IN  [err |-> r.err, acls |-> r.acls, changed |-> AclsRemoved(st, r)]

(***************************************************************************)
(* createQosPolicy: exactly one of rules and qosMap; every rule has DSCP   *)
(* values, all in [0, 63].  A policy node is its ingress DSCP map (the     *)
(* <<traffic class, DSCP>> entries of the rules, or the qosMap's map) and  *)
(* its trafficClassToQueueId.                                              *)
(***************************************************************************)
QosPolicyErr(qp) ==
    \/ (qp.rules = <<>>) = (qp.qosMap = NotSet)
    \/ \E i \in DOMAIN qp.rules : qp.rules[i].dscp = {} \/ ~(qp.rules[i].dscp \subseteq 0..63)

CreateQosPolicy(qp) ==
    IF qp.qosMap # NotSet THEN [dscp |-> qp.qosMap.dscpMap, tcToQueue |-> qp.qosMap.tcToQueue]
    ELSE [dscp |-> UNION {{<<qp.rules[i].queueId, d>> : d \in qp.rules[i].dscp} : i \in DOMAIN qp.rules},
          tcToQueue |-> EmptyMap]

\* getDefaultDataPlaneQosPolicyName.
DefaultQosName(cfg) == IF cfg.dataPlaneQos = NotSet THEN NotSet ELSE cfg.dataPlaneQos.default

\* Fault variant: removed QoS policies are not noticed.
QosPoliciesRemovedNone(st, r) == r.changed

QosPoliciesRemoved(st, r) == r.changed \/ r.existing # Cardinality(DOMAIN st.qosPolicies)

(***************************************************************************)
(* updateQosPolicies / updateQosPolicy: every configured policy but the    *)
(* default one (kept apart in the switch state); a name twice throws.      *)
(***************************************************************************)
UpdateQosPolicies(st, cfg) ==
    LET Step(acc, qp) ==
          IF qp.name = DefaultQosName(cfg) THEN acc
          ELSE LET orig == Find(st.qosPolicies, qp.name)
                   same == orig /\ st.qosPolicies[qp.name] = CreateQosPolicy(qp)
               IN  [err      |-> acc.err \/ QosPolicyErr(qp) \/ Find(acc.policies, qp.name),
                    policies |-> (qp.name :> IF same THEN st.qosPolicies[qp.name] ELSE CreateQosPolicy(qp))
                                   @@ acc.policies,
                    existing |-> acc.existing + (IF orig THEN 1 ELSE 0),
                    changed  |-> acc.changed \/ ~same]
        r == FoldLeft(Step, [err |-> FALSE, policies |-> EmptyMap, existing |-> 0, changed |-> FALSE],
                      cfg.qosPolicies)
    IN  [r EXCEPT !.changed = QosPoliciesRemoved(st, r)]

\* updateDataplaneDefaultQosPolicy: the first configured policy with the
\* default name (Null when there is none), the old node when equal.
UpdateDataplaneDefaultQosPolicy(st, cfg) ==
    LET name == DefaultQosName(cfg)
        is   == {i \in DOMAIN cfg.qosPolicies : cfg.qosPolicies[i].name = name}
        qp   == cfg.qosPolicies[Min(is)]
    IN  IF name = NotSet \/ is = {} THEN [err |-> FALSE, policy |-> Null]
        ELSE [err |-> QosPolicyErr(qp), policy |-> CreateQosPolicy(qp)]

(***************************************************************************)
(* updateSwitchSettings: a new node when the L2 learning mode differs.     *)
(***************************************************************************)
UpdateSwitchSettings(st, cfg) ==
    [err |-> FALSE, changed |-> st.l2LearningMode # cfg.l2LearningMode, mode |-> cfg.l2LearningMode]

\* The qosMap of the first qosPolicies entry named policy that has one
\* (updateControlPlane breaks at the first match).
FirstQosMapOf(cfg, policy) ==
    LET has == {i \in DOMAIN cfg.qosPolicies :
                  cfg.qosPolicies[i].name = policy /\ cfg.qosPolicies[i].qosMap # NotSet}
    IN  IF policy = NotSet \/ has = {} THEN NotSet ELSE cfg.qosPolicies[Min(has)].qosMap

(***************************************************************************)
(* updateControlPlane: the CPU's QoS policy is the cpuTrafficPolicy's      *)
(* default (or, without a cpuTrafficPolicy, the data plane's); its queues  *)
(* go through updatePortQueues with cpuQueues; its rx-reason map is        *)
(* compared only when the cpuTrafficPolicy lists one.  A new node (with    *)
(* the new rx-reason map, empty if none is listed) when anything compared  *)
(* differs.                                                                *)
(***************************************************************************)
CpuQosPolicy(cfg) ==
    IF cfg.cpuTrafficPolicy # NotSet THEN cfg.cpuTrafficPolicy.qos ELSE DefaultQosName(cfg)

CpuRxReasons(cfg) ==
    IF cfg.cpuTrafficPolicy # NotSet /\ cfg.cpuTrafficPolicy.rx # NotSet THEN cfg.cpuTrafficPolicy.rx
    ELSE EmptyMap

\* Fault variant: the rx-reason map is not compared.
CpuUnchangedNoRx(orig, cfg, queues) == queues = orig.queues /\ CpuQosPolicy(cfg) = orig.qosPolicy

\* queuesUnchanged && qosPolicyUnchanged && rxReasonToQueueUnchanged.
CpuUnchanged(orig, cfg, queues) ==
    /\ queues = orig.queues /\ CpuQosPolicy(cfg) = orig.qosPolicy
    /\ ~(cfg.cpuTrafficPolicy # NotSet /\ cfg.cpuTrafficPolicy.rx # NotSet) \/ CpuRxReasons(cfg) = orig.rx

UpdateControlPlane(st, cfg) ==
    LET q == UpdatePortQueues(st.controlPlane.queues, cfg.cpuQueues, cfg.defaultPortQueues,
                              FirstQosMapOf(cfg, CpuQosPolicy(cfg)))
    IN  [err     |-> q.err,
         changed |-> ~CpuUnchanged(st.controlPlane, cfg, q.queues),
         cpu     |-> [queues |-> q.queues, qosPolicy |-> CpuQosPolicy(cfg), rx |-> CpuRxReasons(cfg)]]

(***************************************************************************)
(* updateSflowCollectors: a collector's ID is its address and port, so an  *)
(* existing one is never replaced (updateSflowCollector compares the       *)
(* address); the same collector twice is updateMap's duplicate entry; an   *)
(* old collector the config no longer lists is noticed through            *)
(* numExistingProcessed.                                                   *)
(***************************************************************************)
\* Fault variant: removed collectors are not noticed.
SflowRemovedNone(st, new, existing) == ~(new \subseteq st.sflowCollectors)

SflowRemoved(st, new, existing) ==
    ~(new \subseteq st.sflowCollectors) \/ existing # Cardinality(st.sflowCollectors)

UpdateSflowCollectors(st, cfg) ==
    LET ids      == cfg.sflowCollectors
        existing == Cardinality({i \in DOMAIN ids : ids[i] \in st.sflowCollectors})
    IN  [err        |-> \E i, j \in DOMAIN ids : i < j /\ ids[i] = ids[j],
         changed    |-> SflowRemoved(st, Range(ids), existing),
         collectors |-> Range(ids)]

(***************************************************************************)
(* run()'s scalar settings: ARP ager interval, ARP timeout (also set as    *)
(* the NDP timeout), neighbour probes, stale-entry interval and the DHCP   *)
(* relay/reply source overrides (abstracted to one value; an unset         *)
(* override is the zero address).  Each one that differs is set and sets  *)
(* changed; the NDP timeout is set only when the ARP timeout differs.      *)
(***************************************************************************)
CfgDhcp(cfg) == IF cfg.misc.dhcp = NotSet THEN "zero" ELSE cfg.misc.dhcp

MiscSettings(st, cfg) ==
    LET arpChanged == cfg.misc.arpTimeout # st.misc.arpTimeout
    IN  [changed |-> \/ cfg.misc.arpAgerInterval # st.misc.arpAgerInterval \/ arpChanged
                     \/ cfg.misc.maxNeighborProbes # st.misc.maxNeighborProbes
                     \/ CfgDhcp(cfg) # st.misc.dhcp
                     \/ cfg.misc.staleEntryInterval # st.misc.staleEntryInterval,
         misc    |-> [arpAgerInterval |-> cfg.misc.arpAgerInterval, arpTimeout |-> cfg.misc.arpTimeout,
                      ndpTimeout |-> IF arpChanged THEN cfg.misc.arpTimeout ELSE st.misc.ndpTimeout,
                      maxNeighborProbes |-> cfg.misc.maxNeighborProbes, dhcp |-> CfgDhcp(cfg),
                      staleEntryInterval |-> cfg.misc.staleEntryInterval]]

(***************************************************************************)
(* run(): a domain whose reconciler reports a change is reset, a throw     *)
(* anywhere discards the pass.  The default data-plane QoS policy is set   *)
(* on new_ when it differs but does not set changed: it is committed only  *)
(* if some domain changed, since run() returns nullptr otherwise.          *)
(***************************************************************************)
RunPolicyResult(st, sw, cp, p, g, m, a, q, dq, sf, ms) ==
    LET parts == [switchSettings |-> sw, controlPlane |-> cp, ports |-> p, aggPorts |-> g,
                  mirrors |-> m, acls |-> a, qosPolicies |-> q, sflowCollectors |-> sf, misc |-> ms]
        reset == {d \in DOMAIN parts : parts[d].changed}
    IN  [err   |-> sw.err \/ cp.err \/ p.err \/ g.err \/ m.err \/ a.err \/ q.err \/ dq.err \/ sf.err,
         state |-> [l2LearningMode  |-> IF sw.changed THEN sw.mode ELSE st.l2LearningMode,
                    controlPlane    |-> IF cp.changed THEN cp.cpu ELSE st.controlPlane,
                    ports           |-> IF p.changed THEN p.ports ELSE st.ports,
                    aggPorts        |-> IF g.changed THEN g.aggPorts ELSE st.aggPorts,
                    mirrors         |-> IF m.changed THEN m.mirrors ELSE st.mirrors,
                    acls            |-> IF a.changed THEN a.acls ELSE st.acls,
                    qosPolicies     |-> IF q.changed THEN q.policies ELSE st.qosPolicies,
                    defaultQos      |-> IF reset # {} THEN dq.policy ELSE st.defaultQos,
                    sflowCollectors |-> IF sf.changed THEN sf.collectors ELSE st.sflowCollectors,
                    misc            |-> IF ms.changed THEN ms.misc ELSE st.misc],
         reset |-> reset]

RunPolicyQos(st, cfg, sw, cp, p, g, m, a) ==
    RunPolicyResult(st, sw, cp, p, g, m, a, UpdateQosPolicies(st, cfg), UpdateDataplaneDefaultQosPolicy(st, cfg),
                    UpdateSflowCollectors(st, cfg), MiscSettings(st, cfg))

RunPolicyAcls(st, cfg, sw, cp, p, g, m) == RunPolicyQos(st, cfg, sw, cp, p, g, m, UpdateAcls(st, m.mirrors, cfg))

RunPolicyMirrors(st, cfg, sw, cp, p, g) ==
    RunPolicyAcls(st, cfg, sw, cp, p, g, UpdateMirrors(st, p.ports, cfg))

\* One pass, given one of the results updateAggregatePorts can produce:
\* switch settings, control plane, VLAN ports, ports, aggregate ports,
\* mirrors, ACLs, QoS policies, the scalars and sFlow collectors, each
\* reconciler seeing what the earlier ones put in new_.  Staged so that
\* each reconciler's result is computed once.
RunPolicyPorts(st, cfg, sw, cp, g) ==
    RunPolicyMirrors(st, cfg, sw, cp, [UpdatePorts(st, cfg) EXCEPT !.err = @ \/ VlanPortsErr(cfg)], g)

RunPolicy(st, cfg, g) ==
    RunPolicyPorts(st, cfg, UpdateSwitchSettings(st, cfg), UpdateControlPlane(st, cfg), g)
=============================================================================
