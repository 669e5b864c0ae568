SPECIFICATION ServicesSpec
CONSTANTS
    Task = {t1, t2, t3}
    NoTask = NoTask
    CpuCount = 3
    SMP_WORK_CAPACITY = 2
    FB_COPY_MAX_LANES = 3
    Frames = {1, 2}
    E1000_NUM_RX_DESC = 3
    MaxBusy = 2
    h1 = h1
    h2 = h2
    h3 = h3
    m1 = m1
    m2 = m2
    m3 = m3
    Hosts = {h1, h2, h3}
    Macs = {m1, m2, m3}
    MacsOf <- MCMacsOf
    NoHost = NoHost
    NoMac = NoMac
    ARP_CACHE_ENTRIES = 2
    ARP_PENDING_SLOTS = 2
    ARP_ENTRY_TTL = 2
    ARP_MAX_RETRIES = 1
    MaxAge = 2
    queue_mutex = queue_mutex
    log_mutex = log_mutex
    own_mutex = own_mutex
    page1 = page1
    page2 = page2
    Mutexes = {queue_mutex, log_mutex, own_mutex}
    PageOf <- MCPageOf
    NoPage = NoPage
    ThreadCount = 3
    Sigs = {1, 2, 3}
    SIGKILL = 1
    SIGCHLD = 3
    DefaultIgnored = {3}
    Actions <- MCActions
    MaxDepth = 2
INVARIANTS
    GateInv
    SleepersAreKicked
    PresentIsWhole
    RingIsQueue
    PassCoversKick
    FramesFindHost
    
    ParkedHasNoSignal
    HandlerNotReentered
PROPERTIES
    ImplementsFifoLock
    EveryCallerEnters
    PresentReturns
    FramesHandled
    FramesLeave
    
    SignalsAreTaken
CHECK_DEADLOCK FALSE
