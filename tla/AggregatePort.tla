----------------------------- MODULE AggregatePort -----------------------------
(***************************************************************************)
(* The aggregate-port (LAG) reconciler of ThriftConfigApplier             *)
(* (src/fboss/agent/ApplyThriftConfig.cpp): updateAggregatePorts,          *)
(* updateAggPort, createAggPort, getSubportsSorted, getSystemLacpConfig    *)
(* and computeMinimumLinkCount.                                            *)
(*                                                                         *)
(* A LAG node is its LACP system (ID and priority, one value), its         *)
(* minimum link count and its sorted subports; a subport is <<port,        *)
(* priority>> (rate and activity are copied the same way and left out).    *)
(* A minimum capacity is [type |-> "linkCount", v |-> count] or            *)
(* [type |-> "linkPercentage", v |-> percent], the percentage in           *)
(* hundredths (the config's double times 100).                             *)
(***************************************************************************)
EXTENDS Integers, SequencesExt

CONSTANTS
    DefaultLacp,    \* platform_->getLocalMac() with kDefaultSystemPriority
    NoLacp          \* cfg_->lacp not set

\* The two CHECKs of computeMinimumLinkCount abort the agent.
Crash == -1

(***************************************************************************)
(* computeMinimumLinkCount: the count, or std::ceil(percentage * members)  *)
(* stored in a uint8_t.  The double product of a percentage that is not a  *)
(* multiple of 1/4 may land just above an exact integer (0.28 * 25 is      *)
(* 7.000000000000001), so its ceiling is that integer or the next: both    *)
(* are possible outcomes.  A linkCount below 1, or a non-zero member count *)
(* with a result of 0, fails a CHECK.                                      *)
(***************************************************************************)
CeilDiv(a, b) == (a + b - 1) \div b

ComputeMinimumLinkCounts(cap, members) ==
    IF cap.type = "linkCount"
    THEN IF cap.v < 1 THEN {Crash} ELSE {cap.v % 256}
    ELSE LET exact  == CeilDiv(cap.v * members, 100)
             ceils  == IF (cap.v * members) % 100 = 0 /\ cap.v % 25 # 0
                       THEN {exact, exact + 1} ELSE {exact}
         IN  {IF members # 0 /\ c % 256 = 0 THEN Crash ELSE c % 256 : c \in ceils}

\* getSystemLacpConfig: the config's LACP parameters, else the platform's.
GetSystemLacpConfig(cfg) == IF cfg.lacp = NoLacp THEN DefaultLacp ELSE cfg.lacp

\* Fault variant: the upper bound off by one (priority <= 2^16 accepted).
SubportsErrOffByOne(lc) == \E i \in DOMAIN lc.members : lc.members[i][2] \notin 0..65536

\* getSubportsSorted: every member priority in [0, 2^16), sorted.
SubportsErr(lc) == \E i \in DOMAIN lc.members : lc.members[i][2] \notin 0..65535
GetSubportsSorted(lc) ==
    SortSeq(lc.members, LAMBDA a, b : a[1] < b[1] \/ (a[1] = b[1] /\ a[2] < b[2]))

\* std::equal(orig.begin(), orig.end(), cfg.begin()): only orig's length
\* is compared; past the end of a shorter cfg vector it reads whatever is
\* there (garbageEq: whether that happens to compare equal).
StdEqual(orig, cfgSubports, garbageEq) ==
    \A i \in DOMAIN orig : IF i <= Len(cfgSubports) THEN orig[i] = cfgSubports[i] ELSE garbageEq

(***************************************************************************)
(* createAggPort / updateAggPort: updateAggPort returns nullptr when the   *)
(* LACP system, the minimum link count and the subports compare equal.     *)
(***************************************************************************)
CreateAggPort(cfg, lc, minLink) ==
    [system |-> GetSystemLacpConfig(cfg), minLink |-> minLink, subports |-> GetSubportsSorted(lc)]

AggPortUnchanged(orig, cfg, lc, minLink, garbageEq) ==
    /\ orig.system = GetSystemLacpConfig(cfg)
    /\ orig.minLink = minLink
    /\ StdEqual(orig.subports, GetSubportsSorted(lc), garbageEq)

\* Fault variant: removed LAGs are not noticed.
AggPortsRemovedNone(st, r) == r.changed

\* numExistingProcessed against the old map's size.
AggPortsRemoved(st, r) == r.changed \/ r.existing # Cardinality(DOMAIN st.aggPorts)

\* updateAggregatePorts: the results it can produce for config cfg, one per
\* choice among the minimum link counts computeMinimumLinkCount can return.

UpdateAggregatePorts(st, cfg, garbageEq) ==
    LET Step(accs, lc) ==
          {LET orig == lc.key \in DOMAIN st.aggPorts
               same == orig /\ AggPortUnchanged(st.aggPorts[lc.key], cfg, lc, m, garbageEq)
           IN  [err      |-> acc.err \/ m = Crash \/ SubportsErr(lc) \/ lc.key \in DOMAIN acc.aggPorts,
                aggPorts |-> (lc.key :> IF same THEN st.aggPorts[lc.key] ELSE CreateAggPort(cfg, lc, m))
                               @@ acc.aggPorts,
                existing |-> acc.existing + (IF orig THEN 1 ELSE 0),
                changed  |-> acc.changed \/ ~same] :
             acc \in accs, m \in ComputeMinimumLinkCounts(lc.cap, Len(lc.members))}
        rs == FoldLeft(Step, {[err |-> FALSE, aggPorts |-> [k \in {} |-> 0], existing |-> 0,
                               changed |-> FALSE]}, cfg.aggPorts)
    IN  {[r EXCEPT !.changed = AggPortsRemoved(st, r)] : r \in rs}
=============================================================================
