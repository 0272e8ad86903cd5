----------------------------- MODULE SwitchAgent -----------------------------
(***************************************************************************)
(* The agent's committed SwitchState under the two kinds of update that    *)
(* the Thrift server serializes through updateStateBlocking(): a whole     *)
(* config pass (applyThriftConfig at boot, ThriftHandler::reloadConfig)    *)
(* and the imperative route calls of ThriftHandler.cpp (addUnicastRoutes,  *)
(* deleteUnicastRoutes, syncFib).  Each is one atomic step: the caller     *)
(* runs one update at a time against the current state.                   *)
(***************************************************************************)
EXTENDS ApplyThriftConfig

CONSTANTS
    Configs,        \* the configurations that may be applied
    RpcClients,     \* client IDs callers pass to the route calls
    RpcRoutes,      \* [net, nh] routes callers may add or sync
    NoCfg           \* no configuration applied yet

VARIABLES
    state,          \* the committed SwitchState
    rib,            \* the standalone RIB's own route table (UseRib)
    configured,     \* SwSwitch::isFullyConfigured()
    fibSynced,      \* SwSwitch::isFibSynced()
    syncing,        \* clients whose syncFib committed its routes but has not yet called fibSynced()
    applied,        \* the last config whose pass succeeded (history)
    dirty,          \* a route call changed the state since then (history)
    lastOp          \* the last step and its outcome (history)

vars == <<state, rib, configured, fibSynced, syncing, applied, dirty, lastOp>>

Route == [rtr : Routers, net : Nets \cup {LinkLocalNet}, client : {InterfaceClient, StaticClient, LinkLocalClient} \cup RpcClients,
          nh : {ActionNh(k) : k \in {"DROP", "TO_CPU", "NHOPS"}} \cup {<<"INTF", i, a>> : i \in IntfIds, a \in Addrs}]

TypeOK ==
    /\ DOMAIN state.intfs \subseteq IntfIds
    /\ \A i \in DOMAIN state.intfs :
          state.intfs[i] \in [router : Routers, vlan : VlanIds, addrs : SUBSET Addrs, name : STRING, mac : STRING, mtu : Nat]
    /\ DOMAIN state.vlans \subseteq VlanIds
    /\ \A v \in DOMAIN state.vlans :
          state.vlans[v] \in [intf : IntfIds \cup {NoIntf}, neighbors : SUBSET (Addrs \X STRING \X IntfIds), dhcp : [DOMAIN state.vlans[v].dhcp -> Addrs]]
    /\ state.routes \subseteq Route /\ state.fib \subseteq Route /\ rib \subseteq Route
    /\ state.fibs \subseteq Routers
    /\ state.defaultVlan \in VlanIds \cup {NoVlan}
    /\ configured \in BOOLEAN /\ fibSynced \in BOOLEAN /\ dirty \in BOOLEAN
    /\ syncing \subseteq RpcClients
    /\ applied \in Configs \cup {NoCfg}
    /\ lastOp.op \in {"none", "boot", "reload", "add", "delete", "sync", "fibSynced"}

\* The platform's initial SwitchState: no interfaces, VLANs or routes.
Init ==
    /\ state = [intfs |-> EmptyFn, vlans |-> EmptyFn, routes |-> {}, fibs |-> {},
                fib |-> {}, defaultVlan |-> NoVlan]
    /\ rib = {}
    /\ configured = FALSE
    /\ fibSynced = FALSE
    /\ syncing = {}
    /\ applied = NoCfg
    /\ dirty = FALSE
    /\ lastOp = [op |-> "none", same |-> FALSE, outcome |-> "none", reset |-> {}]

\* Commit the result res of one config pass of c (all or nothing).
ApplyResult(op, c, res) ==
    /\ state' = IF res.err THEN state ELSE res.state
    /\ rib' = res.rib
    /\ applied' = IF res.err THEN applied ELSE c
    /\ dirty' = (res.err /\ dirty)
    /\ lastOp' = [op |-> op, same |-> (c = applied), reset |-> IF res.err THEN {} ELSE res.reset,
                  outcome |-> IF res.err THEN "error"
                              ELSE IF res.reset = {} THEN "unchanged" ELSE "changed"]
    /\ configured' = (configured \/ ~res.err)

\* The agent applies its config file at start-up; a config it cannot
\* apply stops the agent, so only a successful pass is a step.
BootConfig(c) ==
    /\ ~configured
    /\ \E res \in {Run(state, rib, c)} : ~res.err /\ ApplyResult("boot", c, res)
    /\ UNCHANGED <<fibSynced, syncing>>

\* ThriftHandler::reloadConfig: ensureConfigured, then a config pass.
ReloadConfig(c) ==
    /\ configured
    /\ \E res \in {Run(state, rib, c)} : ApplyResult("reload", c, res)
    /\ UNCHANGED <<fibSynced, syncing>>

\* The FIB callback dynamicFibUpdate: VRF 0's FIB becomes the RIB's.
FibAfterRib(newRib) ==
    {r \in state.fib : r.rtr # 0} \cup FibFromRib(newRib, {0} \cap state.fibs)

(***************************************************************************)
(* updateUnicastRoutesImpl / deleteUnicastRoutesInVrf on VRF 0: through    *)
(* the RIB and its FIB callback, or on the route tables with a new state   *)
(* only when updateDone() reports a change.                                *)
(***************************************************************************)
RouteCall(op, client, toAdd, toDel, reset) ==
    IF UseRib
    THEN LET newRib == RibUpdate(rib, 0, client, toAdd, toDel, reset) IN
         /\ rib' = newRib
         /\ state' = [state EXCEPT !.fib = FibAfterRib(newRib)]
         /\ dirty' = (dirty \/ state' # state)
         /\ lastOp' = [op |-> op, same |-> FALSE, reset |-> {},
                       outcome |-> IF state' = state THEN "unchanged" ELSE "changed"]
    ELSE LET base == IF reset THEN RemoveAllRoutesForClient(state.routes, 0, client)
                     ELSE state.routes
             kept == {r \in base : ~(r.rtr = 0 /\ r.client = client /\ r.net \in toDel)}
             new  == AddRoutes(kept, {[rtr |-> 0, net |-> n, client |-> client,
                                       nh |-> toAdd[n]] : n \in DOMAIN toAdd})
             done == UpdateDone(state.routes, new)
         IN
         /\ state' = IF done = NoChange THEN state ELSE [state EXCEPT !.routes = done]
         /\ dirty' = (dirty \/ done # NoChange)
         /\ lastOp' = [op |-> op, same |-> FALSE, reset |-> {},
                       outcome |-> IF done = NoChange THEN "unchanged" ELSE "changed"]
         /\ UNCHANGED rib

\* An empty next-hop list is added as a DROP (blackhole) route.
AddUnicastRoutes(client, rt) ==
    /\ configured /\ fibSynced
    /\ RouteCall("add", client, rt.net :> rt.nh, {}, FALSE)
    /\ UNCHANGED <<configured, fibSynced, syncing, applied>>

DeleteUnicastRoutes(client, net) ==
    /\ configured /\ fibSynced
    /\ RouteCall("delete", client, EmptyFn, {net}, FALSE)
    /\ UNCHANGED <<configured, fibSynced, syncing, applied>>

\* syncFibInVrf on VRF 0, in its two steps: updateUnicastRoutesImpl
\* replaces all of the client's routes (committed by updateStateBlocking),
\* and only then, on the same Thrift thread, fibSynced() is called if the
\* FIB is not yet marked synced.  Other calls may run in between; once the
\* FIB is synced the second step only reads isFibSynced(), so the call is
\* one step.
SyncFib(client, rts) ==
    /\ configured
    /\ client \notin syncing
    /\ RouteCall("sync", client, [n \in {r.net : r \in rts} |->
                                    (CHOOSE r \in rts : r.net = n).nh], {}, TRUE)
    /\ syncing' = IF fibSynced THEN syncing ELSE syncing \cup {client}
    /\ UNCHANGED <<configured, fibSynced, applied>>

\* The second step: fibSynced().  Every other client still between its two
\* steps then finds isFibSynced() true and does nothing more, so its
\* remaining step is dropped here.
SyncFibDone(client) ==
    /\ client \in syncing
    /\ fibSynced' = TRUE
    /\ syncing' = {}
    /\ lastOp' = [op |-> "fibSynced", same |-> FALSE, reset |-> {}, outcome |-> "unchanged"]
    /\ UNCHANGED <<state, rib, configured, applied, dirty>>

Next ==
    \/ \E c \in Configs : BootConfig(c) \/ ReloadConfig(c)
    \/ \E cl \in RpcClients, rt \in RpcRoutes : AddUnicastRoutes(cl, rt)
    \/ \E cl \in RpcClients, rt \in RpcRoutes : DeleteUnicastRoutes(cl, rt.net)
    \/ \E cl \in RpcClients, rts \in SUBSET RpcRoutes :
          (\A r1, r2 \in rts : r1.net = r2.net => r1 = r2) /\ SyncFib(cl, rts)
    \/ \E cl \in RpcClients : SyncFibDone(cl)

Spec == Init /\ [][Next]_vars

-----------------------------------------------------------------------------
(***************************************************************************)
(* Properties of the committed state.                                     *)
(***************************************************************************)
IntfsOn(v) == {i \in DOMAIN state.intfs : state.intfs[i].vlan = v}

\* The connected networks of the committed interfaces, per router.
Connected == UNION {{<<state.intfs[i].router, NetOf[a]>> :
                        a \in {b \in state.intfs[i].addrs : ~IsV6LinkLocal(b)}} :
                    i \in DOMAIN state.intfs}

\* updateInterfaceRoutes (embedded route tables): the interface routes are
\* exactly the connected networks of the committed interfaces, each through
\* an interface of that router owning an address in it, and a router has
\* its link-local route exactly when it has a connected network.  Breaking
\* it takes an old interface's network that is not deleted when a later
\* config moves or drops it.
ConnectedRoutesMatchInterfaces ==
    ~UseRib =>
      /\ {<<r.rtr, r.net>> : r \in {q \in state.routes : q.client = InterfaceClient}} = Connected
      /\ \A r \in state.routes : r.client = InterfaceClient =>
            /\ r.nh[2] \in DOMAIN state.intfs
            /\ state.intfs[r.nh[2]].router = r.rtr
            /\ r.nh[3] \in state.intfs[r.nh[2]].addrs /\ NetOf[r.nh[3]] = r.net
      /\ {r.rtr : r \in {q \in state.routes : q.client = LinkLocalClient}}
            = {c[1] : c \in Connected}

\* Cross-validation in run(): every committed interface's VLAN exists, and
\* no VLAN other than the default one carries more than one interface.
VlansMatchInterfaces ==
    \A i \in DOMAIN state.intfs : state.intfs[i].vlan \in DOMAIN state.vlans
    /\ \A v \in DOMAIN state.vlans \ {state.defaultVlan} : Cardinality(IntfsOn(v)) <= 1

\* updateNeighborResponseTables, fed by updateInterfaces through
\* vlanInterfaces_: each VLAN answers ARP/NDP for exactly the addresses of
\* the interfaces on it, each on behalf of an interface owning it and with
\* that interface's MAC.  It needs updateInterfaces to run before
\* updateVlans.
NeighborTablesMatchInterfaces ==
    \A v \in DOMAIN state.vlans :
      /\ {e[1] : e \in state.vlans[v].neighbors} = UNION {state.intfs[i].addrs : i \in IntfsOn(v)}
      /\ \A e \in state.vlans[v].neighbors :
            /\ e[3] \in IntfsOn(v)
            /\ e[1] \in state.intfs[e[3]].addrs
            /\ e[2] = state.intfs[e[3]].mac

\* The code's own message "Default VLAN ... does not exist": the committed
\* default VLAN is one of the committed VLANs once a config was applied.
DefaultVlanExists ==
    configured => state.defaultVlan \in DOMAIN state.vlans

\* A VLAN's interface ID names a committed interface on that VLAN.
VlanInterfaceRefValid ==
    \A v \in DOMAIN state.vlans :
      state.vlans[v].intf # NoIntf =>
        state.vlans[v].intf \in DOMAIN state.intfs /\ state.intfs[state.vlans[v].intf].vlan = v

\* Spec section 4.7(c): every committed VLAN other than the default one
\* maps to exactly one interface.  The cross-validation pass only counts
\* the VLANs that vlanInterfaces_ holds, and a VLAN given an explicit
\* intfID is never entered there.
VlanCardinality ==
    \A v \in DOMAIN state.vlans \ {state.defaultVlan} : Cardinality(IntfsOn(v)) = 1

\* With a standalone RIB: the FIB's interface routes are the connected
\* networks of the committed interfaces (in the VRFs that have a FIB).
FibMatchesInterfaces ==
    UseRib =>
      {<<r.rtr, r.net>> : r \in {q \in state.fib : q.client = InterfaceClient}}
        = {c \in Connected : c[1] \in state.fibs}

(***************************************************************************)
(* Properties of steps.                                                    *)
(***************************************************************************)
ConfigPass == lastOp'.op \in {"boot", "reload"} /\ lastOp'.outcome # "error"

\* Section 8, idempotence: re-applying the config of the last successful
\* pass, when no route call changed the state since, reports "unchanged".
ReloadIdempotent ==
    [][lastOp'.op = "reload" /\ lastOp'.same /\ ~dirty
         => lastOp'.outcome = "unchanged"]_vars

\* The next hop a static route of the config must have: the last of the
\* to-null, to-CPU and next-hop lists that lists the prefix.
StaticNh(c, k) ==
    ActionNh(IF k \in c.withNhops THEN "NHOPS" ELSE IF k \in c.toCpu THEN "TO_CPU" ELSE "DROP")

StaticSynced(rtrs) ==
    LET c == applied' IN
    {r \in state'.routes : r.client = StaticClient /\ r.rtr \in rtrs}
      = {[rtr |-> k.rtr, net |-> k.net, client |-> StaticClient, nh |-> StaticNh(c, k)] :
           k \in {q \in c.toNull \cup c.toCpu \cup c.withNhops : q.rtr \in rtrs}}

\* syncStaticRoutes on router 0: after a successful pass the static routes
\* are exactly those of the config, whatever addUnicastRoutes added.
StaticRoutesFollowConfig ==
    [][ConfigPass /\ ~UseRib => StaticSynced({0})]_vars

\* The comment on syncStaticRoutes: "the static routes in our new
\* SwitchState will be exactly what is in the new config, no more no less"
\* in every router.
StaticRoutesExactlyConfig ==
    [][ConfigPass /\ ~UseRib => StaticSynced(Routers)]_vars
\* updateInterfaces with updateInterface and createInterface: after a
\* successful pass every interface is the one its config entry describes,
\* with the defaults (name "Interface <id>", the platform MAC, kDefaultMtu) for what it
\* leaves unset, whatever the interface was before and whatever route
\* calls came between.
InterfacesFollowConfig ==
    [][ConfigPass =>
         LET c == applied' IN
         /\ DOMAIN state'.intfs = {ic.id : ic \in Range(c.intfs)}
         /\ \A i \in DOMAIN c.intfs :
               LET ic == c.intfs[i] IN
               [state'.intfs[ic.id] EXCEPT !.addrs = {}] = InterfaceNode(ic, {})]_vars

\* updateVlans with updateDhcpOverrides: after a successful pass every
\* VLAN's DHCP relay overrides are the config's pairs, the last pair of
\* a MAC winning, whatever overrides the VLAN had before.
DhcpOverridesFollowConfig ==
    [][ConfigPass =>
         \A i \in DOMAIN applied'.vlans :
            LET prs == applied'.vlans[i].dhcpOverrides IN
            /\ DOMAIN state'.vlans[applied'.vlans[i].id].dhcp = {prs[j][1] : j \in DOMAIN prs}
            /\ \A j \in DOMAIN prs :
                  (\A k \in j+1..Len(prs) : prs[k][1] # prs[j][1]) =>
                     state'.vlans[applied'.vlans[i].id].dhcp[prs[j][1]] = prs[j][2]]_vars
=============================================================================
