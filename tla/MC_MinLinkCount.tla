---------------------------- MODULE MC_MinLinkCount ----------------------------
(***************************************************************************)
(* computeMinimumLinkCount over bounded inputs: a state is one aggregate   *)
(* port's minimum capacity, its member count and a link count the code can *)
(* compute for them; a step adds or removes a member or changes the        *)
(* capacity.                                                               *)
(***************************************************************************)
EXTENDS AggregatePort

CONSTANTS
    Caps,           \* the minimum capacities tried
    MemberCounts    \* the member counts tried (an interval)

VARIABLES cap, members, minLink

vars == <<cap, members, minLink>>

Init ==
    /\ cap \in Caps
    /\ members \in MemberCounts
    /\ minLink \in ComputeMinimumLinkCounts(cap, members)

\* Add or remove one member port, or change the capacity.
Reconfigure ==
    \E c \in Caps, n \in {members - 1, members, members + 1} \cap MemberCounts :
       /\ cap' = c /\ members' = n
       /\ minLink' \in ComputeMinimumLinkCounts(c, n)

Spec == Init /\ [][Reconfigure]_vars

\* Spec section 2: the minimum link count is the explicit count, or the
\* ceiling of the percentage of the configured members, and at least 1;
\* computeMinimumLinkCount returns it for every member count.
SpecMinLinkCount(c, n) ==
    IF c.type = "linkCount" THEN c.v
    ELSE LET e == CeilDiv(c.v * n, 100) IN IF e < 1 THEN 1 ELSE e

MinLinkCountMatchesSpec == minLink = SpecMinLinkCount(cap, members)

\* Percentages 28% and 50%, counts 1 and 3 (cfg files hold no records).
MC_Caps == {[type |-> "linkPercentage", v |-> 28], [type |-> "linkPercentage", v |-> 50],
            [type |-> "linkCount", v |-> 1], [type |-> "linkCount", v |-> 3]}
MC_CapsPercent50 == {[type |-> "linkPercentage", v |-> 50]}
MC_FewMembers == 0..4
MC_ManyMembers == 20..30
=============================================================================
