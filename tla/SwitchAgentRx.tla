---------------------------- MODULE SwitchAgentRx ----------------------------
(***************************************************************************)
(* The packet path over the reconciled state: every IPv4 packet the ASIC  *)
(* punts is handled by IPv4Handler against the SwitchState that the       *)
(* config passes and route calls of SwitchAgent have committed.  The       *)
(* handler only reads that state, so its properties are invariants of     *)
(* SwitchAgent over every packet.                                          *)
(***************************************************************************)
EXTENDS SwitchAgent, IPv4Handler

\* The handling of packet p in the committed state.
Rx(p) == HandlePacket(state, p)

\* The comment at IPv4Handler.cpp:277: resolveMac sends no ARP request for
\* the switch's own address.  A packet for an address of the ingress
\* interface is never one resolveMac ARPs for: "for us" catches it in
\* router 0, and "source == target" is meant to catch it elsewhere.
RxNoArpForOwnAddress ==
    \A p \in Packets :
       \A req \in Rx(p).arps : req.target \notin state.intfs[req.intf].addrs
=============================================================================
