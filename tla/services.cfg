SPECIFICATION MCSpec

CONSTANTS
    all = all
    net = net
    host = host
    srv = srv
    fq = fq
    wan = wan
    dmz = dmz
    staff = staff
    night = night
    Object <- MCObject
    Wild = {all}
    Dangling = {}
    Opaque = Opaque
    Networks <- MCNetworks
    Point = {1, 2}
    Denotes <- MCDenotes
    Interface = {wan, dmz}
    User = {staff}
    Schedule = {night}
    Shape <- MCShape
    Grace = 0
    TagRoom = 1
    MaxRules = 3
    MaxDay = 1

    name1 = name1
    addr1 = addr1
    addr2 = addr2
    SettingsOf <- MCSettingsOf
    ExpectedOf <- MCExpectedOf
    Host <- MCHost
    Name = {name1}
    Answers <- MCAnswers
    Absent = Absent
    InsecureProtocol = {"http"}
    Unresolved = Unresolved

    p1 = p1
    p2 = p2
    root = root
    c1 = c1
    k1 = k1
    k2 = k2
    v1 = v1
    v2 = v2
    v3 = v3
    v4 = v4
    Preview = {p1, p2}
    Adom = {root}
    Container = {c1}
    Package = {k1, k2}
    AdomOf <- MCAdomOf
    HomeOf <- MCHomeOf
    Vdom = {v1, v2, v3, v4}
    VdomsOf <- MCVdomsOf
    PackageOf <- MCPackageOf
    Pending = {v1, v3, v4}
    NoPackage = NoPackage
    NoContext = NoContext
    Free = Free

    hyg = hyg
    nat = nat
    pol = pol
    rev = rev
    bak = bak
    HygieneJobs = {hyg}
    NatJobs = {nat}
    PolicyJobs = {pol}
    ReviewJobs = {rev}
    BackupJobs = {bak}
    MaxParts = 2
    MaxRuns = 2

    leak = leak
    east = east
    west = west
    gate1 = gate1
    gate2 = gate2
    analyst = analyst
    Advisory = {leak}
    AdvisoryText <- MCAdvisoryText
    Page <- MCPage
    KevListed = {}
    PsirtAdom = {east, west}
    SystemAdom = {}
    PsirtDevice = {gate1, gate2}
    DeviceAdom <- MCDeviceAdom
    FirstFirmware <- MCFirstFirmware
    NextFirmware <- MCNextFirmware
    FmgVersion <- MCFmgVersion
    Interfaces <- MCInterfaces
    Admins <- MCAdmins
    Analyst = {analyst}
    AllowedAdoms <- MCAllowedAdoms
    AnyAdom = AnyAdom
    EnrichmentEnabled = TRUE
    NoAdvisory = NoAdvisory
    NoScore = NoScore
    Unread = Unread

    i1 = i1
    t1 = t1
    Writer = {w1, w2}
    Text = {t1, t2}
    NoText = NoText
    Inode = {i1, i2, i3, i4}
    NoInode = NoInode
    Partial = Partial
    Exclusive = TRUE

    pkgA = pkgA
    pkgB = pkgB
    fw1 = fw1
    web = web
    vpn = vpn
    pool = pool
    outer = outer
    inner = inner
    NatPkg = {pkgA, pkgB}
    NatDevice = {fw1}
    PkgScope <- MCPkgScope
    SharedVip = {web}
    DeviceVip <- MCDeviceVip
    Pool = {pool}
    NatGroup = {outer, inner}
    InitialMembers <- MCInitialMembers
    MemberChoice <- MCMemberChoice
    NatRule <- MCNatRule
    Everywhere = Everywhere
    MaxGroupDepth = 2
    PageSize = 1
    MaxNatRules = 2
    MaxAdminEdits = 1

    nets = nets
    subs = subs
    ports = ports
    lan = lan
    http = http
    gateA = gateA
    gateB = gateB
    AddrLeaf = {lan}
    SvcLeaf = {http}
    AddrGroup = {nets, subs}
    SvcGroup = {ports}
    NestChoice <- MCNestChoice
    FirstNest <- MCFirstNest
    RowChoice <- MCRowChoice
    Scope <- MCScope
    ScopeLimit = 10
    MaxLevels = 8
    MaxHits = 1
    MaxChanges = 2
    NoGroup = NoGroup
    NoCount = NoCount
    Leaf = Leaf

CHECK_DEADLOCK FALSE

INVARIANTS
    ShadowedNeverHit
    VerdictsAreRight
    DiffComplete
    StagingEndsClean
    OkRecordsDelivered
    OneRecordPerRun
    InformationalIsSafe
    ReturnedWriteIsThere
    UsesAreReported
    ReportsSayWhatIsThere

PROPERTIES
    FixesKeepDecisions
    ClosedStaysClosed
    WritesAreAtomic
