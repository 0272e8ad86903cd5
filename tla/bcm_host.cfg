\* Broadcom host table: neighbors and routes referencing hosts, programming
\* to ports, CPU, drop and trunks, host routes, and destruction.
CONSTANTS
    Keys <- MC_Keys
    LinkLocal = {"ll"}
    HostRouteKeys = {"h1"}
    EgressIds = {"e1", "e2", "e3"}
    RouteEgressIds = {"r1"}
    EcmpPaths = {"e1", "e2"}
    Ports <- MC_Ports
    Trunks = {"t1"}
    QphClasses <- MC_QphClasses
    NoClass = NoClass
    Invalid = Invalid
    NoEgress = NoEgress
    NoPort = NoPort
    NoHost = NoHost
    MaxRouteRefs = 1
    WarmCaches <- MC_WarmCaches
SPECIFICATION Spec
INVARIANTS
    TypeOK
    HostTableMatches
    EgressManagerMatchesHosts
    EcmpMembersResolved
