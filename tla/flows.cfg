SPECIFICATION Spec

CONSTANTS
    all = all
    lan = lan
    web = web
    any = any
    net = net
    fqdn = fqdn
    g1 = g1
    g2 = g2
    g3 = g3
    hosts = hosts
    none = none
    icmp = icmp
    srv = srv
    ssh = ssh
    corp = corp
    h1 = h1
    h2 = h2
    h3 = h3
    geo = geo
    mix = mix
    odd = odd
    grp = grp
    top = top
    allServices = allServices
    blob = blob
    lanPort = lanPort
    wan = wan
    f1 = f1
    f2 = f2
    f3 = f3
    edge = edge
    core = core
    both = both
    old = old
    legacy = legacy
    nest = nest
    grpDst = grpDst
    pkgN = pkgN
    pkgS = pkgS
    wide = wide
    nested = nested
    fwN = fwN
    port1 = port1
    port2 = port2
    port3 = port3

    Leaf = {net, fqdn}
    Kind <- MCKind
    Group <- MCGroup
    Gone = {gone}
    MaxMembers = 2
    Unresolved = Unresolved

    Bits = 2
    Ports = 2
    LookupRule <- MCLookupRule
    LookupName = {all, lan, hosts, none}
    LookupAll = {all}
    NetworksOf <- MCNetworksOf
    RangesOf <- MCRangesOf
    NotSearched = NotSearched
    MaxNetworks = 3
    MaxRanges = 2
    NoLabel = NoLabel

    Zone = {lan, srv, Internet}
    Internet = Internet
    Space = {1, 2, 3}
    Public = {3}
    Subnet = {{1, 2}, {2}}
    Wildcard = any
    ServiceToken = {ssh, web}
    _service_aliases <- MCAliases
    PolicyForm <- MCPolicyForm
    RestoredDb <- MCRestoredDb
    InitialDb <- MCInitialDb
    ZoneAdmin = {a1}
    MaxZonePolicies = 2
    MaxSubnets = 2
    NoDb = NoDb

    AddrName <- MCAddrName
    AddrGroup = {mix, grp, top}
    AddrNets <- MCAddrNets
    AddrMeans <- MCAddrMeans
    Inside <- MCInside
    SvcName = {allServices, web, odd, blob}
    SvcRanges <- MCSvcRanges
    SvcMeans <- MCSvcMeans
    AllAddr = all
    AllSvc = allServices
    Unknown = Unknown
    Host = {1, 2, 3}
    Port = {1, 2, 3}
    SrcPort <- MCSrcPort
    Snapshot <- MCSnapshot
    Connected <- MCConnected
    Routes <- MCRoutes
    NoIface = NoIface
    PlanShape <- MCPlanShape
    Request <- MCRequest
    MaxPolicies = 2

    Firewall = {"fwA", "fwB"}
    BadSpec = BadSpec
    Package = {edge, core, both}
    Scope <- MCScope
    Installed <- MCInstalled
    NoPackage = NoPackage
    Fqdn = {f1, f2, f3}
    NotAName = NotAName
    BaseName <- MCBaseName
    NoFqdn = NoFqdn
    InitialObjects <- MCInitialObjects
    InitialGroups <- MCInitialGroups
    AllServices = AllServices
    AllowRule <- MCAllowRule
    Upload <- MCUpload
    FqdnFault <- MCFqdnFault
    MaxRules = 1

    ReviewAdom <- MCReviewAdom
    ReviewPkg = {pkgN, pkgS}
    AdomOf <- MCAdomOf
    DeviceOf <- MCDeviceOf
    Routing <- MCRouting
    NoDevice = NoDevice
    NoInterface = NoInterface
    AddrObject <- MCAddrObject
    AddrGroupOf <- MCAddrGroupOf
    SvcObject <- MCSvcObject
    SvcGroupOf <- MCSvcGroupOf
    WellKnown <- MCWellKnown
    AddrTrue <- MCAddrTrue
    SvcTrue <- MCSvcTrue
    AnyAddr = all
    AnySvc = all
    AddrLiteral <- MCAddrLiteral
    RangeCap = 2
    FlowAddr = {1, 2, 3}
    PortProto <- MCPortProto
    ReviewRule <- MCReviewRule
    ReviewFlow <- MCReviewFlow
    MaxReviewed = 2

SYMMETRY MCSymmetry
CHECK_DEADLOCK FALSE

INVARIANTS
    ExpansionsAreRight
    LookupIsRight
    InheritedPoliciesApply
    AllowedMeansNoBlock
    CoverageIsReal
    ImplementedPlansCover
    PathIsForwarding

PROPERTIES
    PlanTakesEffect
    ShadowWarningsTrue
    AlternativeExact
    AdviceTakesEffect
