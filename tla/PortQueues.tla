------------------------------ MODULE PortQueues ------------------------------
(***************************************************************************)
(* A port's queues under a config pass: ThriftConfigApplier's              *)
(* updatePortQueues, updatePortQueue, createPortQueue and                  *)
(* checkPortQueueAQMValid (src/fboss/agent/ApplyThriftConfig.cpp), with    *)
(* checkSwConfPortQueueMatch and its helpers (state/PortQueue.cpp).        *)
(*                                                                         *)
(* A queue is [id, streamType, scheduling, weight, reserved, name, aqms,   *)
(* tc]: reserved stands for the optional byte and rate attributes, which   *)
(* are all compared with isPortQueueOptionalAttributeSame; aqms maps a     *)
(* congestion behavior (an integer, in enum order) to its AQM; tc is the   *)
(* traffic class.  A port's queues are a function from 0..n-1.  A cfg      *)
(* queue has the same fields, NotSet where the optional field is unset.    *)
(***************************************************************************)
EXTENDS Integers, SequencesExt, Optional

CONSTANTS
    EmptyName,      \* name_ref().value_unchecked() of an unset name ("")
    DefaultWeight   \* PortQueue's weight before setWeight

\* new PortQueue(i) with the old queue's stream type: the default queue.
DefaultQueue(i, streamType) ==
    [id |-> i, streamType |-> streamType, scheduling |-> "WRR", weight |-> DefaultWeight,
     reserved |-> NotSet, name |-> NotSet, aqms |-> [b \in {} |-> 0], tc |-> NotSet]

\* isPortQueueOptionalAttributeSame.
OptionalSame(sw, conf) == (sw = NotSet /\ conf = NotSet) \/ (sw # NotSet /\ sw = conf)

\* value_unchecked() of an unset weight: the thrift default, taken to be
\* PortQueue's default weight.
CfgWeight(c) == IF c.weight = NotSet THEN DefaultWeight ELSE c.weight

CfgAqms(c) == IF c.aqms = NotSet THEN <<>> ELSE c.aqms

\* comparePortQueueAQMs: the map's AQMs in behavior order against the
\* config's, sorted by behavior; lengths must agree.
ComparePortQueueAQMs(aqmMap, aqms) ==
    LET sorted == SortSeq(aqms, LAMBDA a, b : a.behavior < b.behavior)
        keys   == SetToSortSeq(DOMAIN aqmMap, LAMBDA a, b : a < b)
    IN  Len(sorted) = Len(keys) /\ \A i \in DOMAIN keys : aqmMap[keys[i]] = sorted[i]

\* checkSwConfPortQueueMatch.  The name is std::optional<std::string>
\* compared with the config's value_unchecked(): an unset name on both
\* sides is nullopt against "", which is not equal.
CheckSwConfPortQueueMatch(sw, c) ==
    /\ sw.id = c.id /\ sw.streamType = c.streamType /\ sw.scheduling = c.scheduling
    /\ c.scheduling = "SP" \/ sw.weight = CfgWeight(c)
    /\ OptionalSame(sw.reserved, c.reserved)
    /\ ComparePortQueueAQMs(sw.aqms, CfgAqms(c))
    /\ sw.name = IF c.name = NotSet THEN EmptyName ELSE c.name

\* checkPortQueueAQMValid: every AQM has a detection, no behavior twice.
AqmsErr(aqms) ==
    \E i \in DOMAIN aqms :
       aqms[i].detection = NotSet \/ \E j \in 1..i-1 : aqms[j].behavior = aqms[i].behavior

\* createPortQueue (its AQM check is UpdatePortQueues' err).
CreatePortQueue(c, tc) ==
    [id |-> c.id, streamType |-> c.streamType, scheduling |-> c.scheduling,
     weight |-> CfgWeight(c),
     reserved |-> c.reserved, name |-> c.name,
     aqms |-> [b \in {a.behavior : a \in Range(CfgAqms(c))} |->
                 CfgAqms(c)[CHOOSE i \in DOMAIN CfgAqms(c) : CfgAqms(c)[i].behavior = b]],
     tc |-> tc]

\* The traffic class of queue id: the first (lowest) traffic class the
\* QoS map's trafficClassToQueueId sends to it, if there is a QoS map.
TrafficClassOf(qosMap, id) ==
    IF qosMap = NotSet THEN NotSet
    ELSE LET tcq == qosMap.tcToQueue
         IN  IF \A t \in DOMAIN tcq : tcq[t] # id THEN NotSet
             ELSE CHOOSE t \in DOMAIN tcq : tcq[t] = id /\ \A u \in DOMAIN tcq : tcq[u] = id => t <= u

\* Fault variant: the traffic class is not compared.
QueueMatchedNoTc(orig, c, qosMap) == CheckSwConfPortQueueMatch(orig, c)

\* updatePortQueue keeps the old queue when config and traffic class match.
QueueMatched(orig, c, qosMap) ==
    CheckSwConfPortQueueMatch(orig, c) /\ TrafficClassOf(qosMap, c.id) = orig.tc

\* updatePortQueue: the old queue, or one created from the config.
UpdatePortQueue(orig, c, qosMap) ==
    IF QueueMatched(orig, c, qosMap) THEN orig ELSE CreatePortQueue(c, TrafficClassOf(qosMap, c.id))

\* newQueues: the first cfg queue of each id (flat_map::emplace), from the
\* port's own list, or from defaultPortQueues when that gives none.
NewQueues(cfgQueues, defaultQueues) ==
    LET qs == IF cfgQueues = <<>> THEN defaultQueues ELSE cfgQueues
    IN  [id \in {q.id : q \in Range(qs)} |->
           qs[CHOOSE i \in DOMAIN qs : qs[i].id = id /\ \A j \in 1..i-1 : qs[j].id # id]]

\* Fault variant: a queue the config leaves out keeps its old settings.
UnconfiguredQueueKeep(orig, i) == orig[i]

\* new PortQueue(i) with the old stream type.
UnconfiguredQueue(orig, i) == DefaultQueue(i, orig[i].streamType)

(***************************************************************************)
(* updatePortQueues: every queue the port has is updated from its config   *)
(* queue or reset to a default one; a config queue whose id the port does  *)
(* not have throws, and so does an invalid AQM list of a queue created.    *)
(***************************************************************************)
UpdatePortQueues(orig, cfgQueues, defaultQueues, qosMap) ==
    LET nq == NewQueues(cfgQueues, defaultQueues)
        new == [i \in DOMAIN orig |->
                  IF i \in DOMAIN nq THEN UpdatePortQueue(orig[i], nq[i], qosMap)
                  ELSE UnconfiguredQueue(orig, i)]
    IN  [err    |-> \/ ~(DOMAIN nq \subseteq DOMAIN orig)
                    \/ \E i \in DOMAIN nq \cap DOMAIN orig :
                          ~QueueMatched(orig[i], nq[i], qosMap) /\ nq[i].aqms # NotSet
                          /\ AqmsErr(nq[i].aqms),
         queues |-> new]
=============================================================================
