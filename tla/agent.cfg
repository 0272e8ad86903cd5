\* Embedded route tables: interfaces, VLANs, connected and static routes of the config against the route calls.
CONSTANTS
    a1 = a1  a2 = a2  a3 = a3  ll = ll  ll2 = ll2  n1 = n1  n2 = n2
    LinkLocalNet = LinkLocalNet
    NoChange = NoChange
    NoIntf = NoIntf
    NoVlan = NoVlan
    NoCfg = NoCfg
    BroadcastAddr = BroadcastAddr
    MulticastAddr = MulticastAddr
    NoRoute = NoRoute
    IntfIds = {1, 2}
    VlanIds = {1, 2}
    Routers = {0, 1}
    Addrs <- MC_Addrs
    NetOf <- MC_NetOf
    LinkLocalAddr = ll
    LinkLocalOf <- MC_LinkLocalOf
    UseRib = FALSE
    Configs <- MC_ConfigsL3Static
    RpcClients <- MC_RpcClients
    RpcRoutes <- MC_RpcRoutes
SPECIFICATION Spec
INVARIANTS
    TypeOK
    ConnectedRoutesMatchInterfaces
    VlansMatchInterfaces
    NeighborTablesMatchInterfaces
PROPERTIES
    ReloadIdempotent
    StaticRoutesFollowConfig
    InterfacesFollowConfig
    DhcpOverridesFollowConfig
