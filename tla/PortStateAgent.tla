---------------------------- MODULE PortStateAgent ----------------------------
(***************************************************************************)
(* ThriftHandler::setPortState (src/fboss/agent/ThriftHandler.cpp) racing  *)
(* config reloads.  The handler runs on a thrift thread: it reads the port *)
(* node from the current state, returns early if the admin state already   *)
(* matches, and hands SwSwitch::updateStateBlocking a function that        *)
(* captured that node.  The update thread runs the function later, after   *)
(* any update queued before it, such as a reloadConfig from another        *)
(* thrift thread.  The function calls port->modify(&newState) on the       *)
(* captured node; Port::modify (not in this repository, NodeBase's usual   *)
(* copy-on-write) clones that node into the new state's port map, and then *)
(* setAdminState is called on the clone.                                   *)
(***************************************************************************)
EXTENDS PolicyAgent

CONSTANT NoCall     \* no setPortState call waiting in updateStateBlocking

VARIABLE portCall   \* the waiting call: [port, node it read, enable]

agentVars == <<state, applied, lastOp, portCall>>

InitAgent == Init /\ portCall = NoCall

\* setPortState up to updateStateBlocking: ensureConfigured, the port
\* lookup (every platform port exists), the early return when the admin
\* state already matches, and the update function capturing the node.
\* The thrift thread blocks until the update has run.
SetPortState(p, enable) ==
    /\ portCall = NoCall
    /\ applied # NoCfg
    /\ state.ports[p].enabled # enable
    /\ portCall' = [port |-> p, node |-> state.ports[p], enable |-> enable]
    /\ UNCHANGED <<state, applied, lastOp>>

\* The update function on the update thread: port->modify(&newState)
\* clones the captured node into the new state, then setAdminState.
SetPortStateUpdate ==
    /\ portCall # NoCall
    /\ state' = [state EXCEPT !.ports[portCall.port] = [portCall.node EXCEPT !.enabled = portCall.enable]]
    /\ portCall' = NoCall
    /\ UNCHANGED <<applied, lastOp>>

ReloadConfigAgent(c) == ReloadConfig(c) /\ UNCHANGED portCall

NextAgent ==
    \/ \E c \in Configs : ReloadConfigAgent(c)
    \/ \E p \in PortIds, enable \in BOOLEAN : SetPortState(p, enable)
    \/ SetPortStateUpdate

SpecAgent == InitAgent /\ [][NextAgent]_agentVars

-----------------------------------------------------------------------------
(* Properties *)

\* setPortState changes a port's admin state and nothing else: when its
\* update function runs, every other field of the port (queues, VLANs,
\* mirrors, QoS policy, LLDP) is what the state it runs on holds.
SetPortStateOnlyAdminState ==
    [][SetPortStateUpdate =>
          state'.ports[portCall.port] = [state.ports[portCall.port] EXCEPT !.enabled = portCall.enable]]_agentVars
=============================================================================
