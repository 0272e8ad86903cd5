------------------------------ MODULE MC_BcmPort ------------------------------
(* One port whose Port node the config can change among six: the default  *)
(* (DEFAULT speed, VLAN 10 untagged, one queue), the same at XG and at     *)
(* GIGE (which has no optical interface mode), renamed to a backplane      *)
(* "fab" port, with its queue renamed, and moved to VLAN 20 (VLAN 10       *)
(* tagged) with a second queue, an ingress mirror and sFlow to the mirror. *)
EXTENDS BcmPort

MC_Vlans == {10, 20}

MC_Base ==
    [name |-> "eth1/1/1", speed |-> "DEFAULT", ingressVlan |-> 10, vlans |-> (10 :> FALSE),
     inMirror |-> NoMirror, egMirror |-> NoMirror, sampleDest |-> NotSet, queues |-> (0 :> "q0")]

MC_Ports ==
    {MC_Base,
     [MC_Base EXCEPT !.speed = "XG"],
     [MC_Base EXCEPT !.speed = "GIGE"],
     [MC_Base EXCEPT !.name = "fab1/1/1"],
     [MC_Base EXCEPT !.queues = (0 :> "q0b")],
     [MC_Base EXCEPT !.ingressVlan = 20, !.vlans = (10 :> TRUE @@ 20 :> FALSE), !.inMirror = "m1",
                     !.sampleDest = "MIRROR", !.queues = (0 :> "q0" @@ 1 :> "q1")]}

\* The ASIC port as the SDK leaves it: enabled, at its maximum speed, in no VLAN.
MC_InitAsics ==
    {[enabled |-> TRUE, speed |-> "TWENTYFIVEG", mode |-> "CR", ingressVlan |-> 10,
      members |-> [v \in MC_Vlans |-> "none"], vlanFilter |-> FALSE, statDma |-> FALSE, sampleCtl |-> "CPU"]}
====
