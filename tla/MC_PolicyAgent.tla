---------------------------- MODULE MC_PolicyAgent ----------------------------
(***************************************************************************)
(* Model of PolicyAgent for TLC: two ports, mirrors m1 and m2, ACL names   *)
(* x, y (and z, named by no ACL), counter c1.  A config combines one port  *)
(* list, one mirror list and one ACL setting below, so that every         *)
(* reference can be added, dropped or left dangling from one reload to    *)
(* the next.                                                               *)
(***************************************************************************)
EXTENDS PolicyAgent

CONSTANTS m1, m2, x, y, z, c1, t1, v1, BadPort

\* Match fields: one set that checkAcl accepts, one it rejects.
OkFields == [srcL4PortRange |-> NotSet, dstL4PortRange |-> NotSet, l4SrcPort |-> 80,
             l4DstPort |-> NotSet, icmpType |-> NotSet, icmpCode |-> NotSet,
             proto |-> 6, ttl |-> NotSet]
BadFields == [OkFields EXCEPT !.icmpCode = 0]

P(id, en, im, em) == [id |-> id, enabled |-> en, inMirror |-> im, egMirror |-> em, lldp |-> EmptyMap,
                      queueCfg |-> NotSet, sampleDest |-> NotSet, sflowEgress |-> 0]
M(n, port, tun) == [name |-> n, port |-> port, tunnel |-> tun]
A(n, deny) == [name |-> n, deny |-> deny, fields |-> OkFields]
MTA(n, q, ctr, im, em) == [matcher |-> n, queue |-> q, counter |-> ctr, inMirror |-> im, egMirror |-> em]
Use(n) == MTA(n, FALSE, Null, NoMirror, NoMirror)
Policy(acls, ctrs, cpu, data) == [acls |-> acls, counters |-> ctrs, cpuPolicy |-> cpu, dataPolicy |-> data]

\* Port lists: none, a port with an ingress or an egress mirror, a port
\* listed twice.
PortLists ==
    { <<>>, <<P(1, TRUE, NoMirror, NoMirror)>>, <<P(1, TRUE, m1, NoMirror)>>,
      <<P(2, TRUE, NoMirror, m1)>>, <<P(1, TRUE, NoMirror, NoMirror), P(1, FALSE, NoMirror, NoMirror)>> }

\* Mirror lists: to port 2, to port 1, to a tunnel, to nothing, to a
\* port the platform lacks, and two mirrors.
MirrorLists ==
    { <<>>, <<M(m1, 2, FALSE)>>, <<M(m1, 1, FALSE)>>, <<M(m1, NoPort, TRUE)>>,
      <<M(m1, NoPort, FALSE)>>, <<M(m2, BadPort, FALSE)>>,
      <<M(m1, 2, FALSE), M(m2, NoPort, TRUE)>> }

\* ACL settings without a duplicated matcher: DENY entries, an action
\* with a counter (defined or not), with a mirror, CoPP and data-plane
\* entries with a skipped DENY matcher, an unknown matcher, fields
\* checkAcl rejects.
AclSettings ==
    { Policy(<<>>, {}, <<>>, <<>>),
      Policy(<<A(x, TRUE), A(y, TRUE)>>, {}, <<>>, <<>>),
      Policy(<<A(x, TRUE)>>, {}, <<>>, <<>>),
      Policy(<<A(x, FALSE)>>, {c1}, <<>>, <<MTA(x, FALSE, c1, NoMirror, NoMirror)>>),
      Policy(<<A(x, FALSE)>>, {}, <<>>, <<MTA(x, FALSE, c1, NoMirror, NoMirror)>>),
      Policy(<<A(x, FALSE)>>, {}, <<>>, <<MTA(x, FALSE, Null, m1, NoMirror)>>),
      Policy(<<A(x, FALSE), A(y, TRUE)>>, {}, <<MTA(x, TRUE, Null, NoMirror, NoMirror)>>, <<Use(y)>>),
      Policy(<<A(y, TRUE), A(x, FALSE)>>, {}, <<>>, <<Use(x), Use(y)>>),
      Policy(<<A(x, FALSE)>>, {}, <<>>, <<Use(z)>>),
      Policy(<<[A(x, FALSE) EXCEPT !.fields = BadFields]>>, {}, <<>>, <<Use(x)>>) }

\* An action whose egress mirror names no mirror.
AclSettingsEgress ==
    { Policy(<<A(x, FALSE)>>, {}, <<>>, <<MTA(x, FALSE, Null, NoMirror, m2)>>) }

\* The same ACL matched by the CoPP and the data-plane policy.
AclSettingsDup ==
    { Policy(<<A(x, FALSE)>>, {}, <<Use(x)>>, <<Use(x)>>) }

\* No queue configs, default queues or QoS policies.
NoQos == [portQueueConfigs |-> EmptyMap, defaultPortQueues |-> <<>>, qosPolicies |-> <<>>,
          dataPlaneQos |-> NotSet]

\* The switch's startup ARP/NDP/DHCP settings, and a config that keeps them.
MC_InitialMisc == [arpAgerInterval |-> 5, arpTimeout |-> 60, ndpTimeout |-> 60, maxNeighborProbes |-> 300,
                   dhcp |-> "zero", staleEntryInterval |-> 10]
KeepMisc == [arpAgerInterval |-> 5, arpTimeout |-> 60, maxNeighborProbes |-> 300, dhcp |-> NotSet,
             staleEntryInterval |-> 10]

\* No VLAN ports, CPU traffic policy, CPU queues or sFlow collectors;
\* hardware learning; the startup scalars.
NoGlobal == [vlanPorts |-> <<>>, cpuTrafficPolicy |-> NotSet, cpuQueues |-> <<>>, sflowCollectors |-> <<>>,
             l2LearningMode |-> "HARDWARE", misc |-> KeepMisc]

ConfigsOf(portLists, mirrorLists, aclSettings) ==
    { [ports |-> pl, mirrors |-> ml, aggPorts |-> <<>>, lacp |-> NoLacp] @@ as @@ NoQos @@ NoGlobal :
         pl \in portLists, ml \in mirrorLists, as \in aclSettings }

L(key, members, cap) == [key |-> key, members |-> members, cap |-> cap]
Count(n) == [type |-> "linkCount", v |-> n]
Pct(n) == [type |-> "linkPercentage", v |-> n]

\* LAG lists: one member, a member appended after it, the same two in the
\* other order with a percentage, a priority out of range, a duplicate
\* key, a LAG without members, a link count of 0, two LAGs.
LagLists ==
    { <<>>, <<L(1, <<<<1, 0>>>>, Count(1))>>,
      <<L(1, <<<<1, 0>>, <<2, 0>>>>, Count(1))>>,
      <<L(1, <<<<2, 0>>, <<1, 0>>>>, Pct(50))>>,
      <<L(1, <<<<1, 65536>>>>, Count(1))>>,
      <<L(1, <<<<1, 0>>>>, Count(1)), L(1, <<>>, Count(1))>>,
      <<L(2, <<>>, Pct(50))>>,
      <<L(1, <<<<1, 0>>>>, Count(0))>>,
      <<L(1, <<<<1, 0>>>>, Count(1)), L(2, <<>>, Pct(50))>> }

LagConfigsOf(lagLists) ==
    { [ports |-> <<>>, mirrors |-> <<>>, aggPorts |-> ll, lacp |-> lacp,
       acls |-> <<>>, counters |-> {}, cpuPolicy |-> <<>>, dataPolicy |-> <<>>] @@ NoQos @@ NoGlobal :
         ll \in lagLists, lacp \in {NoLacp, DefaultLacp, "lacp1"} }

\* All LAG lists except the member appended at the end.
MC_ConfigsLag == LagConfigsOf(LagLists \ {<<L(1, <<<<1, 0>>, <<2, 0>>>>, Count(1))>>})
\* One member, then a second one sorting after it.
MC_ConfigsLagGrow == LagConfigsOf({<<L(1, <<<<1, 0>>>>, Count(1))>>,
                                   <<L(1, <<<<1, 0>>, <<2, 0>>>>, Count(1))>>})

MC_Configs == ConfigsOf(PortLists, MirrorLists, AclSettings)
MC_ConfigsEgress == ConfigsOf({<<>>}, {<<>>, <<M(m1, NoPort, TRUE)>>}, AclSettingsEgress)
MC_ConfigsDup == ConfigsOf({<<>>}, {<<>>}, AclSettingsDup)
MC_ConfigsPrecedence == ConfigsOf({<<>>}, {<<>>}, AclSettings)

\* LLDP: port 1 expecting tag t1, then not.
MC_ConfigsLldp ==
    ConfigsOf({<<[P(1, TRUE, NoMirror, NoMirror) EXCEPT !.lldp = (t1 :> v1)]>>,
               <<P(1, TRUE, NoMirror, NoMirror)>>}, {<<>>}, {Policy(<<>>, {}, <<>>, <<>>)})

\* Queues: Q(id, scheduling, weight, name, aqms) on unicast streams.
Q(id, sch, w, n, aqms) ==
    [id |-> id, streamType |-> "UNICAST", scheduling |-> sch, weight |-> w,
     reserved |-> NotSet, name |-> n, aqms |-> aqms]
AQM(b, d) == [behavior |-> b, detection |-> d]

\* Queue lists: one WRR queue; a strict-priority queue with a name and a
\* WRR queue with an AQM; strict priority with another weight; queue 0
\* listed twice (the first wins); two AQMs of one behavior; an AQM with
\* no detection; a queue the platform does not have.
QueueLists ==
    { <<Q(0, "WRR", 5, NotSet, NotSet)>>,
      <<Q(0, "SP", 7, "n0", NotSet), Q(1, "WRR", 1, NotSet, <<AQM(0, "red")>>)>>,
      <<Q(0, "SP", 9, "n0", NotSet)>>,
      <<Q(0, "WRR", 2, NotSet, NotSet), Q(0, "SP", 2, NotSet, NotSet)>>,
      <<Q(1, "WRR", 2, NotSet, <<AQM(1, "red"), AQM(1, "red")>>)>>,
      <<Q(1, "WRR", 2, NotSet, <<AQM(0, NotSet)>>)>>,
      <<Q(NumQueues, "WRR", 1, NotSet, NotSet)>> }

\* Port 1 with queue config "q1", with an unknown one, with egress
\* sampling to a mirror; or no ports (defaultPortQueues apply).
QueuePortLists ==
    { <<>>, <<[P(1, TRUE, NoMirror, NoMirror) EXCEPT !.queueCfg = "q1"]>>,
      <<[P(1, TRUE, NoMirror, NoMirror) EXCEPT !.queueCfg = "q2"]>>,
      <<[P(1, TRUE, NoMirror, NoMirror) EXCEPT !.sampleDest = "MIRROR", !.sflowEgress = 1]>> }

\* QoS policies: QP(name, rules, qosMap); a rule sends DSCP values to a
\* queue; a qosMap is a DSCP map (its entries) and trafficClassToQueueId.
QP(n, rules, qm) == [name |-> n, rules |-> rules, qosMap |-> qm]
Rule(q, ds) == [queueId |-> q, dscp |-> ds]
QMap(dm, tcq) == [dscpMap |-> dm, tcToQueue |-> tcq]
DP(dflt, perPort) == [default |-> dflt, perPort |-> perPort]

\* No data-plane QoS; policy p1 by default, whose map sends traffic
\* classes 0 and 1 to queue 1; port 2 on policy p2, which has rules.
QosSettings ==
    { [dataPlaneQos |-> NotSet, qosPolicies |-> <<>>],
      [dataPlaneQos |-> DP("p1", EmptyMap),
       qosPolicies |-> <<QP("p1", <<>>, QMap({<<0, 46>>}, 0 :> 1 @@ 1 :> 1))>>],
      [dataPlaneQos |-> DP("p1", 2 :> "p2"),
       qosPolicies |-> <<QP("p1", <<>>, QMap({<<0, 46>>}, 1 :> 0)), QP("p2", <<Rule(0, {10})>>, NotSet)>>] }

MC_ConfigsQueues ==
    { [ports |-> pl, mirrors |-> <<>>, aggPorts |-> <<>>, lacp |-> NoLacp,
       acls |-> <<>>, counters |-> {}, cpuPolicy |-> <<>>, dataPolicy |-> <<>>,
       portQueueConfigs |-> ("q1" :> ql), defaultPortQueues |-> dq] @@ qs @@ NoGlobal :
         pl \in QueuePortLists, ql \in QueueLists, dq \in {<<>>, <<Q(1, "SP", 3, NotSet, NotSet)>>},
         qs \in QosSettings }

\* QoS policy tables: the default policy p1 with one DSCP rule or
\* another, a regular policy p2 by map or by rules, both kinds at once,
\* p2 twice, a DSCP value out of range, no DSCP values.
QosTables ==
    { [dataPlaneQos |-> DP("p1", EmptyMap), qosPolicies |-> <<QP("p1", <<Rule(0, {10})>>, NotSet)>>],
      [dataPlaneQos |-> DP("p1", EmptyMap), qosPolicies |-> <<QP("p1", <<Rule(0, {20})>>, NotSet)>>],
      [dataPlaneQos |-> NotSet, qosPolicies |-> <<QP("p2", <<>>, QMap({<<0, 46>>}, 0 :> 0))>>],
      [dataPlaneQos |-> DP(NotSet, EmptyMap), qosPolicies |-> <<QP("p2", <<Rule(1, {10, 63})>>, NotSet)>>],
      [dataPlaneQos |-> NotSet, qosPolicies |-> <<QP("p2", <<Rule(0, {10})>>, QMap({<<0, 46>>}, 0 :> 0))>>],
      [dataPlaneQos |-> NotSet, qosPolicies |-> <<QP("p2", <<>>, QMap({<<0, 46>>}, 0 :> 0)), QP("p2", <<>>, QMap({<<0, 48>>}, 0 :> 0))>>],
      [dataPlaneQos |-> NotSet, qosPolicies |-> <<QP("p2", <<Rule(0, {64})>>, NotSet)>>],
      [dataPlaneQos |-> DP("p1", EmptyMap), qosPolicies |-> <<QP("p1", <<Rule(0, {})>>, NotSet)>>] }

MC_ConfigsQos ==
    { [ports |-> <<>>, mirrors |-> <<>>, aggPorts |-> <<>>, lacp |-> NoLacp,
       acls |-> <<>>, counters |-> {}, cpuPolicy |-> <<>>, dataPolicy |-> <<>>,
       portQueueConfigs |-> EmptyMap, defaultPortQueues |-> <<>>] @@ qt @@ NoGlobal : qt \in QosTables }

\* The default policy p1 with one DSCP rule, then another.
MC_ConfigsQosDefault ==
    { c \in MC_ConfigsQos : c.dataPlaneQos # NotSet /\ c.dataPlaneQos.default = "p1"
                            /\ c.qosPolicies[1].rules # <<Rule(0, {})>> }

VP(port, vlan, tags) == [port |-> port, vlan |-> vlan, emitTags |-> tags]
CTP(qos, rx) == [qos |-> qos, rx |-> rx]

\* VLAN port lists: port 1 untagged in VLAN 10, then tagged with port 2
\* joining, port 1 twice in VLAN 10, a port the platform lacks.
VlanPortLists ==
    { <<>>, <<VP(1, 10, FALSE)>>, <<VP(1, 10, TRUE), VP(2, 10, FALSE)>>,
      <<VP(1, 10, FALSE), VP(1, 10, TRUE)>>, <<VP(BadPort, 10, FALSE)>> }

\* CPU settings: none; a CPU policy on p1 with an rx-reason map and its
\* own queue 0; the same with another rx-reason map or with none; a CPU
\* policy without a QoS policy; CPU queues taken from
\* defaultPortQueues; a CPU queue the CPU lacks.  Policy p1 sends
\* traffic class 0 to queue 0.
CpuSettings ==
    { [cpuTrafficPolicy |-> NotSet, cpuQueues |-> <<>>, defaultPortQueues |-> <<>>],
      [cpuTrafficPolicy |-> CTP("p1", "arp" :> 0), cpuQueues |-> <<Q(0, "WRR", 5, NotSet, NotSet)>>,
       defaultPortQueues |-> <<>>],
      [cpuTrafficPolicy |-> CTP("p1", NotSet), cpuQueues |-> <<Q(0, "WRR", 5, NotSet, NotSet)>>,
       defaultPortQueues |-> <<>>],
      [cpuTrafficPolicy |-> CTP("p1", "arp" :> 1), cpuQueues |-> <<Q(0, "WRR", 5, NotSet, NotSet)>>,
       defaultPortQueues |-> <<>>],
      [cpuTrafficPolicy |-> CTP(NotSet, "arp" :> 1), cpuQueues |-> <<>>, defaultPortQueues |-> <<>>],
      [cpuTrafficPolicy |-> NotSet, cpuQueues |-> <<>>, defaultPortQueues |-> <<Q(1, "SP", 3, NotSet, NotSet)>>],
      [cpuTrafficPolicy |-> NotSet, cpuQueues |-> <<Q(NumQueues, "WRR", 1, NotSet, NotSet)>>,
       defaultPortQueues |-> <<>>] }

\* sFlow collector lists: one, two, one twice.
SflowLists == { <<>>, <<"s1">>, <<"s1", "s2">>, <<"s1", "s1">> }

\* Scalars: the startup ones, a shorter ARP timeout, a DHCP override.
MiscList == { KeepMisc, [KeepMisc EXCEPT !.arpTimeout = 30], [KeepMisc EXCEPT !.dhcp = "d1"] }

GlobalBase ==
    [ports |-> <<>>, mirrors |-> <<>>, aggPorts |-> <<>>, lacp |-> NoLacp,
     acls |-> <<>>, counters |-> {}, cpuPolicy |-> <<>>, dataPolicy |-> <<>>,
     portQueueConfigs |-> EmptyMap, defaultPortQueues |-> <<>>, dataPlaneQos |-> NotSet,
     qosPolicies |-> <<QP("p1", <<>>, QMap({<<0, 46>>}, 0 :> 0))>>] @@ NoGlobal

\* VLAN membership with the learning mode; CPU settings; sFlow with the
\* scalars: each group varies from one reload to the next while the
\* others keep their defaults.
MC_ConfigsGlobal ==
    { [GlobalBase EXCEPT !.vlanPorts = vl, !.l2LearningMode = l2] :
         vl \in VlanPortLists, l2 \in {"HARDWARE", "SOFTWARE"} }
    \cup { [GlobalBase EXCEPT !.cpuTrafficPolicy = cs.cpuTrafficPolicy, !.cpuQueues = cs.cpuQueues,
                              !.defaultPortQueues = cs.defaultPortQueues] : cs \in CpuSettings }
    \cup { [GlobalBase EXCEPT !.sflowCollectors = sl, !.misc = ms] : sl \in SflowLists, ms \in MiscList }

\* LAG, queue, QoS-policy and switch-wide reloads in one behaviour.
MC_ConfigsLagQueues == MC_ConfigsLag \cup MC_ConfigsQueues \cup MC_ConfigsQos \cup MC_ConfigsGlobal
=============================================================================
