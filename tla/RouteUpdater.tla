---------------------------- MODULE RouteUpdater ----------------------------
(***************************************************************************)
(* The route-table editing helpers that ApplyThriftConfig.cpp and          *)
(* ThriftHandler.cpp call (RouteUpdater, RoutingInformationBase).  Their   *)
(* source is not part of this repository, so they are modelled from the   *)
(* specification (sections 4.6 and 6): a route table is a set of entries   *)
(* keyed by (router, network, client); adding an entry for a key replaces  *)
(* the previous one; updateDone() reports "no change" when the edited      *)
(* table equals the original one.                                          *)
(***************************************************************************)
EXTENDS FiniteSets

CONSTANTS
    LinkLocalNet,   \* the IPv6 link-local subnet fe80::/64
    NoChange        \* the null RouteTableMap returned by updateDone()

\* Client identifiers of route entries (ClientID).
InterfaceClient == "INTERFACE_ROUTE"
StaticClient    == "STATIC_ROUTE"
LinkLocalClient == "LINKLOCAL_ROUTE"

Key(r) == <<r.rtr, r.net, r.client>>

\* RouteUpdater::addRoute: the (router, network, client) entry now has this
\* next-hop entry.
AddRoute(rs, rtr, net, client, nh) ==
    {r \in rs : Key(r) # <<rtr, net, client>>}
        \cup {[rtr |-> rtr, net |-> net, client |-> client, nh |-> nh]}

\* RouteUpdater::delRoute: drop the client's entry for the network, if any.
DelRoute(rs, rtr, net, client) ==
    {r \in rs : Key(r) # <<rtr, net, client>>}

\* RouteUpdater::removeAllRoutesForClient.
RemoveAllRoutesForClient(rs, rtr, client) ==
    {r \in rs : ~(r.rtr = rtr /\ r.client = client)}

\* RouteUpdater::addLinkLocalRoutes / delLinkLocalRoutes: the router's
\* fe80::/64 route, punted to the CPU (next hop toCpu).
AddLinkLocalRoutes(rs, rtr, toCpu) == AddRoute(rs, rtr, LinkLocalNet, LinkLocalClient, toCpu)
DelLinkLocalRoutes(rs, rtr) == DelRoute(rs, rtr, LinkLocalNet, LinkLocalClient)

\* RouteUpdater::updateDone: the new table, or NoChange when nothing differs.
UpdateDone(orig, rs) == IF rs = orig THEN NoChange ELSE rs

\* RoutingInformationBase::update(router, client, toAdd, toDel, reset):
\* the standalone RIB applies the same edits to its own table.
RibUpdate(rib, rtr, client, toAdd, toDel, reset) ==
    LET base == IF reset THEN RemoveAllRoutesForClient(rib, rtr, client) ELSE rib
        kept == {r \in base : ~(r.rtr = rtr /\ r.client = client /\ r.net \in toDel)}
    IN  {r \in kept : ~(r.rtr = rtr /\ r.client = client /\ r.net \in DOMAIN toAdd)}
          \cup {[rtr |-> rtr, net |-> n, client |-> client, nh |-> toAdd[n]] : n \in DOMAIN toAdd}

\* RoutingInformationBase::reconfigure: the RIB replaces every interface
\* and static route with those of the configuration it is given.
RibReconfigure(rib, intfRoutes, staticRoutes) ==
    {r \in rib : r.client \notin {InterfaceClient, StaticClient}}
        \cup intfRoutes \cup staticRoutes

\* ForwardingInformationBaseUpdater, called back by the RIB for each VRF:
\* the VRF's FIB becomes what the RIB holds for it.
FibFromRib(rib, vrfs) == {r \in rib : r.rtr \in vrfs}
=============================================================================
