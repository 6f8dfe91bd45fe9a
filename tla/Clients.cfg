SPECIFICATION ClientsSpec
CONSTANTS
    Convos = {v1, v2}
    NoConvo = NoConvo
    MaxEvents = 2
    MaxAlerted = 1
    MaxSeen = 2
    MaxLoads = 1
    Unreadable = {"alert"}
    Sites = {s1, s2}
    NoSite = NoSite
    RetryLimit = 2
    MaxActs = 3
    Hosts = {h1, h2}
    MaxRefreshes = 2
    MaxClicks = 4
    MaxPorts = 2
    MaxRequests = 2
    MaxSteps = 3
    Chats = {c1, c2}
    NoChat = NoChat
    MaxTexts = 2
    MaxSends = 2
    HomeBudgets <- HB
    CheckIns = {e1, e2}
    Replies = {r1}
    NoUpdate = NoUpdate
    SeenCap = 3
    QueueCap = 1
    UpdateBudgets <- UB
    LibChats = {b1, b2}
    Projects = {p1}
    Nothing = Nothing
    LibBudgets <- LB
    Talks = {t1, t2}
    MaxTokens = 3
    MaxAsks = 4
    RunChats = {w1, w2}
    RunIds = {u1, u2}
    NoRun = NoRun
    DismissalCap = 1
    MaxShows = 3
    Apps = {a1}
    Mcps = {m1}
    Nobody = Nobody
    MaxTouches = 4
    Cals = {g1, g2}
    Primary = g1
    MaxTicks = 4
    Inboxes = {i1}
    NoInbox = NoInbox
    MaxMoves = 3
    Skills = {k1}
    Linked = {l1}
    CapChats = {x1, x2}
    MaxTurns = 4
    Rooms = {o1, o2}
    MaxGestures = 4
    MaxSays = 4
    SpeechBudgets <- SB
    MaxLeft = 1
    MaxEfforts = 2
    MaxGuideEvents = 7
    Domains = {d1}
    MaxAsked = 2
    MaxOutside = 1
    GoalRooms = {q1, q2}
    MaxCount = 1
    MaxPresses = 3
INVARIANTS
    ClientsTypeOK WatchesGoOn SentOnce BreakdownFits DismissedStaysAway VoiceFollowsThePerson
PROPERTIES
    CheckInsSurfaceOnce ActivityStaysAllowed DraftKept ShowsTheService AnnouncedOnce NothingIsLost
    PanelsNeverGoBack SavedAsShown OnlyTheAskedChanges
CHECK_DEADLOCK FALSE
