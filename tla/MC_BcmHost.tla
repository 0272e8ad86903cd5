------------------------------ MODULE MC_BcmHost ------------------------------
(* A small host table: two neighbor keys (one link-local), one host-route  *)
(* key, three SDK egress IDs (enough for every live neighbor host), one    *)
(* route egress ID, two ports, a trunk and two queue-per-host classes.     *)
EXTENDS BcmHost

\* A warm boot that found n1's entry on egress e1 without a lookup class,
\* or a cold boot.
MC_WarmCaches == {[k \in {} |-> NoHost], [k \in {"n1"} |-> [intf |-> "e1", multipath |-> FALSE, cls |-> 0]]}

MC_Keys == {"n1", "ll", "h1"}

MC_Ports == {1, 2}

MC_QphClasses == {1, 2}
====
