--------------------------- MODULE MC_PortStateAgent ---------------------------
(***************************************************************************)
(* setPortState against reloads for TLC: port 1 enabled, in VLAN 10 or     *)
(* not, so that a reload changes a field of the port other than its admin  *)
(* state.                                                                  *)
(***************************************************************************)
EXTENDS MC_PolicyAgent, PortStateAgent

MC_ConfigsPortState ==
    { [GlobalBase EXCEPT !.ports = <<P(1, TRUE, NoMirror, NoMirror)>>, !.vlanPorts = vl] :
         vl \in {<<>>, <<VP(1, 10, FALSE)>>} }
=============================================================================
