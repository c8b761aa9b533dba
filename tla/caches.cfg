SPECIFICATION MCSpec

CONSTANTS
    web = web
    collector = collector
    sw1 = sw1
    sw2 = sw2
    sw3 = sw3
    NoRow = NoRow
    Proc = {web, collector}
    SchedulerProc = {collector}
    Sweeper = {sw1, sw2, sw3}
    ProcOf <- MCProcOf
    CachedAdom = {root}
    MaxVersion = 2
    MaxRefresh = 1
    MaxCrashes = 1
    MaxFaults = 1
    root = root

    d1 = d1
    d2 = d2
    hs = hs
    emea = emea
    fw1 = fw1
    DeviceSweeper = {d1, d2}
    HygieneSweeper = {hs}
    FleetAdom = {emea}
    Firewall = {fw1}
    HomeAdom <- MCHomeAdom
    Connected = {fw1}
    Pendings = {}
    NoData = NoData

    paris = paris
    rome = rome
    fw2 = fw2
    CacheThread <- MCCacheThread
    CacheOf <- MCCacheOf
    StartupThread <- MCStartup
    AdomName = {paris, rome}
    Box = {fw2}
    BoxesOf <- MCBoxesOf
    NamedAfter <- MCNamedAfter
    Located <- MCLocated
    Reachable = {}
    RootVdom = {fw2}
    MgtVdom = {}
    Payload <- MCPayload
    Today = 5
    RevisionAge <- MCRevisions
    NoRevision = NoRevision
    NoEntry = NoEntry
    NobodyHolds = NobodyHolds
    MaxFleetVersion = 2
    MaxFleetFaults = 1

CHECK_DEADLOCK FALSE

INVARIANTS
    RunningMeansSweeping
    StatusSettles

PROPERTIES
    ServedDataStays
    SweepsConverge
    PendingNeverGoesBack
    CachesConverge
