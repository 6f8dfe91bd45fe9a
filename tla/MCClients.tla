------------------------------- MODULE MCClients -------------------------------
(* Small instances, for TLC, of everything around the service: the surfaces of the  *)
(* desktop application, the extension and the panels of the page.  These components *)
(* meet only in the service, so a behaviour is about one of them (part), with its   *)
(* own service; the variables of the others are Off.                                *)
EXTENDS Integers, FiniteSets, TLC

CONSTANTS
    Convos, NoConvo, MaxEvents, MaxAlerted, MaxSeen, MaxLoads, Unreadable, Sites, NoSite,
    RetryLimit, MaxActs,
    Hosts, MaxRefreshes, MaxClicks, MaxPorts, MaxRequests, MaxSteps, Chats, NoChat,
    MaxTexts, MaxSends, HomeBudgets, CheckIns, Replies, NoUpdate, SeenCap, QueueCap,
    UpdateBudgets, LibChats, Projects, Nothing, LibBudgets, Talks, MaxTokens, MaxAsks,
    RunChats, RunIds, NoRun, DismissalCap, MaxShows, Apps, Mcps, Nobody, MaxTouches,
    Cals, Primary, MaxTicks, Inboxes, NoInbox, MaxMoves, Skills, Linked, CapChats,
    MaxTurns, Rooms, MaxGestures, MaxSays, SpeechBudgets, MaxLeft, MaxEfforts,
    MaxGuideEvents, Domains, MaxAsked, MaxOutside, GoalRooms, MaxCount, MaxPresses

ASSUME ClientsAssumption ==
    /\ NoConvo \notin Convos /\ NoSite \notin Sites /\ NoChat \notin Chats /\ NoRun \notin RunIds
    /\ NoUpdate \notin CheckIns \cup Replies /\ CheckIns \cap Replies = {}
    /\ Nothing \notin LibChats \cup Projects /\ Nobody \notin Apps \cup Mcps
    /\ NoInbox \notin Inboxes /\ Primary \in Cals /\ Skills \cap Linked = {}
    /\ {} \notin {Chats, Sites, Rooms, RunChats, Convos, Talks}
    /\ {MaxTexts, MaxSends, MaxTokens, MaxAsks} \subseteq Nat
    /\ {MaxEvents, MaxAlerted, MaxSeen} \subseteq Nat /\ MaxAlerted <= MaxEvents
    /\ {RetryLimit, MaxRefreshes, SeenCap, QueueCap, DismissalCap, MaxLeft, MaxCount} \subseteq Nat \ {0}
    /\ HomeBudgets \subseteq [texts : 0 .. MaxTexts, sends : 0 .. MaxSends, flights : Nat,
                              faults : Nat, calms : BOOLEAN]
    /\ UpdateBudgets \subseteq [said : Nat, moves : Nat]
    /\ LibBudgets \subseteq [commands : Nat, others : Nat, faults : Nat, clicks : Nat]
    /\ SpeechBudgets \subseteq [gestures : 0 .. MaxGestures, says : 0 .. MaxSays]

VARIABLES
    part,
    kind, said, convo, eligible, poll, pol, saved, focused, over, loads, alerts, shown,
    old,
    chrome, worker, calls, shared, told, acts,
    granted, stored, popup, waits, clicks,
    lease, posts, page, wire, ports, share, taken, steps,
    srv, late, ui, flight, sent, typed, freed, limit, faults, quiet,
    speech, card, kept, view, heard, closed, room,
    store, lib, libWire, manage, allot,
    usage, detail, contextAsked,
    work, flow, receipts, waved, shows,
    conns, manager, reading, writing, touches,
    google, calendarShown, choice, panel, call, calendarSaved, ticks,
    mail, sources, fetching, posting, moves,
    caps, list, get, put, turns,
    mic, starts, stops, tracks, flights, drafted, cancelled, gestures, voice, ends,
    replies, says,
    world, seen, setupCard, monitor, onScreen, efforts,
    setup, guide, guideTold, post, guideLate, events,
    privacy, known, settings, change, waiting, bounds,
    tasks, goals, drafts, undos, order, presses

Surface == INSTANCE CheckInSurface
Native == INSTANCE NativeBridge
Popup == INSTANCE ExtensionPopup
Link == INSTANCE ActivityLink
Home == INSTANCE HomeClient
Updates == INSTANCE LiveUpdates
Library == INSTANCE ChatLibrary WITH wire <- libWire
Context == INSTANCE ContextPanel WITH asked <- contextAsked
Workflow == INSTANCE WorkflowPanel
Connections == INSTANCE ConnectionsPanel
Calendar == INSTANCE CalendarPanel WITH shown <- calendarShown, saved <- calendarSaved
Mail == INSTANCE MailSources
Capabilities == INSTANCE CapabilitiesPanel
Speech == INSTANCE SpeechControls
Setup == INSTANCE SourceSetup WITH card <- setupCard
Guide == INSTANCE Onboarding WITH told <- guideTold, late <- guideLate, MaxEvents <- MaxGuideEvents
Privacy == INSTANCE Permissions
Goal == INSTANCE GoalControls

Off == "off"

\* The bounds a behaviour of these modules may have.
HB == {[texts |-> 1, sends |-> 2, flights |-> 1, faults |-> 1, calms |-> FALSE],
       [texts |-> 2, sends |-> 1, flights |-> 2, faults |-> 0, calms |-> FALSE],
       [texts |-> 1, sends |-> 1, flights |-> 1, faults |-> 1, calms |-> TRUE],
       [texts |-> 1, sends |-> 1, flights |-> 2, faults |-> 0, calms |-> TRUE]}
UB == {[said |-> 3, moves |-> 0], [said |-> 2, moves |-> 1], [said |-> 1, moves |-> 2]}
LB == {[commands |-> 2, others |-> 0, faults |-> 1, clicks |-> 0],
       [commands |-> 1, others |-> 1, faults |-> 0, clicks |-> 1],
       [commands |-> 1, others |-> 0, faults |-> 0, clicks |-> 3]}
SB == {[gestures |-> 4, says |-> 0], [gestures |-> 0, says |-> 4]}

surfaceState ==
    <<kind, said, convo, eligible, poll, pol, saved, focused, over, loads, alerts, shown,
      old>>
nativeState ==
    <<chrome, worker, calls, shared, told, acts>>
popupState ==
    <<granted, stored, popup, waits, clicks>>
linkState ==
    <<lease, posts, page, wire, ports, share, taken, steps>>
homeState ==
    <<srv, late, ui, flight, sent, typed, freed, limit, faults, quiet>>
updatesState ==
    <<speech, card, kept, view, heard, closed, room>>
libraryState ==
    <<store, lib, libWire, manage, allot>>
contextState ==
    <<usage, detail, contextAsked>>
workflowState ==
    <<work, flow, receipts, waved, shows>>
connectionsState ==
    <<conns, manager, reading, writing, touches>>
calendarState ==
    <<google, calendarShown, choice, panel, call, calendarSaved, ticks>>
mailState ==
    <<mail, sources, fetching, posting, moves>>
capabilitiesState ==
    <<caps, list, get, put, turns>>
speechState ==
    <<mic, starts, stops, tracks, flights, drafted, cancelled, gestures, voice, ends,
      replies, says>>
setupState ==
    <<world, seen, setupCard, monitor, onScreen, efforts>>
onboardingState ==
    <<setup, guide, guideTold, post, guideLate, events>>
permissionsState ==
    <<privacy, known, settings, change, waiting, bounds>>
goalsState ==
    <<tasks, goals, drafts, undos, order, presses>>
allVars ==
    <<part, surfaceState, nativeState, popupState, linkState, homeState, updatesState,
      libraryState, contextState, workflowState, connectionsState, calendarState,
      mailState, capabilitiesState, speechState, setupState, onboardingState,
      permissionsState, goalsState>>

\* One component begins; the others are Off and stay so.
ClientsInit ==
    /\ part \in {"surface", "native", "popup", "link", "home", "updates", "library",
                  "context", "workflow", "connections", "calendar", "mail",
                  "capabilities", "speech", "setup", "onboarding", "permissions",
                  "goals"}
    /\ IF part = "surface" THEN Surface!SurfaceInit
       ELSE kind = Off /\ said = Off /\ convo = Off /\ eligible = Off /\ poll = Off /\ pol = Off /\
            saved = Off /\ focused = Off /\ over = Off /\ loads = Off /\ alerts = Off /\ shown = Off /\
            old = Off
    /\ IF part = "native" THEN Native!NativeInit
       ELSE chrome = Off /\ worker = Off /\ calls = Off /\ shared = Off /\ told = Off /\ acts = Off
    /\ IF part = "popup" THEN Popup!PopupInit
       ELSE granted = Off /\ stored = Off /\ popup = Off /\ waits = Off /\ clicks = Off
    /\ IF part = "link" THEN Link!LinkInit
       ELSE lease = Off /\ posts = Off /\ page = Off /\ wire = Off /\ ports = Off /\ share = Off /\
            taken = Off /\ steps = Off
    /\ IF part = "home" THEN Home!HomeInit
       ELSE srv = Off /\ late = Off /\ ui = Off /\ flight = Off /\ sent = Off /\ typed = Off /\
            freed = Off /\ limit = Off /\ faults = Off /\ quiet = Off
    /\ IF part = "updates" THEN Updates!UpdatesInit
       ELSE speech = Off /\ card = Off /\ kept = Off /\ view = Off /\ heard = Off /\ closed = Off /\
            room = Off
    /\ IF part = "library" THEN Library!LibInit
       ELSE store = Off /\ lib = Off /\ libWire = Off /\ manage = Off /\ allot = Off
    /\ IF part = "context" THEN Context!ContextInit
       ELSE usage = Off /\ detail = Off /\ contextAsked = Off
    /\ IF part = "workflow" THEN Workflow!WorkflowInit
       ELSE work = Off /\ flow = Off /\ receipts = Off /\ waved = Off /\ shows = Off
    /\ IF part = "connections" THEN Connections!ConnectionsInit
       ELSE conns = Off /\ manager = Off /\ reading = Off /\ writing = Off /\ touches = Off
    /\ IF part = "calendar" THEN Calendar!CalendarInit
       ELSE google = Off /\ calendarShown = Off /\ choice = Off /\ panel = Off /\ call = Off /\
            calendarSaved = Off /\ ticks = Off
    /\ IF part = "mail" THEN Mail!MailInit
       ELSE mail = Off /\ sources = Off /\ fetching = Off /\ posting = Off /\ moves = Off
    /\ IF part = "capabilities" THEN Capabilities!CapabilitiesInit
       ELSE caps = Off /\ list = Off /\ get = Off /\ put = Off /\ turns = Off
    /\ IF part = "speech" THEN Speech!SpeechInit
       ELSE mic = Off /\ starts = Off /\ stops = Off /\ tracks = Off /\ flights = Off /\ drafted = Off /\
            cancelled = Off /\ gestures = Off /\ voice = Off /\ ends = Off /\ replies = Off /\ says = Off
    /\ IF part = "setup" THEN Setup!SetupInit
       ELSE world = Off /\ seen = Off /\ setupCard = Off /\ monitor = Off /\ onScreen = Off /\
            efforts = Off
    /\ IF part = "onboarding" THEN Guide!OnboardingInit
       ELSE setup = Off /\ guide = Off /\ guideTold = Off /\ post = Off /\ guideLate = Off /\ events = Off
    /\ IF part = "permissions" THEN Privacy!PermissionsInit
       ELSE privacy = Off /\ known = Off /\ settings = Off /\ change = Off /\ waiting = Off /\
            bounds = Off
    /\ IF part = "goals" THEN Goal!GoalsInit
       ELSE tasks = Off /\ goals = Off /\ drafts = Off /\ undos = Off /\ order = Off /\ presses = Off

Others(p) ==
    /\ UNCHANGED part
    /\ IF p = "surface" THEN TRUE ELSE UNCHANGED surfaceState
    /\ IF p = "native" THEN TRUE ELSE UNCHANGED nativeState
    /\ IF p = "popup" THEN TRUE ELSE UNCHANGED popupState
    /\ IF p = "link" THEN TRUE ELSE UNCHANGED linkState
    /\ IF p = "home" THEN TRUE ELSE UNCHANGED homeState
    /\ IF p = "updates" THEN TRUE ELSE UNCHANGED updatesState
    /\ IF p = "library" THEN TRUE ELSE UNCHANGED libraryState
    /\ IF p = "context" THEN TRUE ELSE UNCHANGED contextState
    /\ IF p = "workflow" THEN TRUE ELSE UNCHANGED workflowState
    /\ IF p = "connections" THEN TRUE ELSE UNCHANGED connectionsState
    /\ IF p = "calendar" THEN TRUE ELSE UNCHANGED calendarState
    /\ IF p = "mail" THEN TRUE ELSE UNCHANGED mailState
    /\ IF p = "capabilities" THEN TRUE ELSE UNCHANGED capabilitiesState
    /\ IF p = "speech" THEN TRUE ELSE UNCHANGED speechState
    /\ IF p = "setup" THEN TRUE ELSE UNCHANGED setupState
    /\ IF p = "onboarding" THEN TRUE ELSE UNCHANGED onboardingState
    /\ IF p = "permissions" THEN TRUE ELSE UNCHANGED permissionsState
    /\ IF p = "goals" THEN TRUE ELSE UNCHANGED goalsState

SurfaceRuns == part = "surface" /\ Surface!SurfaceNext /\ Others("surface")
NativeRuns == part = "native" /\ Native!NativeNext /\ Others("native")
PopupRuns == part = "popup" /\ Popup!PopupNext /\ Others("popup")
LinkRuns == part = "link" /\ Link!LinkNext /\ Others("link")
HomeRuns == part = "home" /\ Home!HomeNext /\ Others("home")
UpdatesRuns == part = "updates" /\ Updates!UpdatesNext /\ Others("updates")
LibraryRuns == part = "library" /\ Library!LibNext /\ Others("library")
ContextRuns == part = "context" /\ Context!ContextNext /\ Others("context")
WorkflowRuns == part = "workflow" /\ Workflow!WorkflowNext /\ Others("workflow")
ConnectionsRuns == part = "connections" /\ Connections!ConnectionsNext /\ Others("connections")
CalendarRuns == part = "calendar" /\ Calendar!CalendarNext /\ Others("calendar")
MailRuns == part = "mail" /\ Mail!MailNext /\ Others("mail")
CapabilitiesRuns == part = "capabilities" /\ Capabilities!CapabilitiesNext /\ Others("capabilities")
SpeechRuns == part = "speech" /\ Speech!SpeechNext /\ Others("speech")
SetupRuns == part = "setup" /\ Setup!SetupNext /\ Others("setup")
GuideRuns == part = "onboarding" /\ Guide!OnboardingNext /\ Others("onboarding")
PrivacyRuns == part = "permissions" /\ Privacy!PermissionsNext /\ Others("permissions")
GoalRuns == part = "goals" /\ Goal!GoalsNext /\ Others("goals")

ClientsNext ==
    \/ SurfaceRuns \/ NativeRuns \/ PopupRuns \/ LinkRuns \/ HomeRuns \/ UpdatesRuns
    \/ LibraryRuns \/ ContextRuns \/ WorkflowRuns \/ ConnectionsRuns \/ CalendarRuns \/ MailRuns
    \/ CapabilitiesRuns \/ SpeechRuns \/ SetupRuns \/ GuideRuns \/ PrivacyRuns \/ GoalRuns

\* HomeClient is fair, as its module says; nothing else needs to go on.
ClientsSpec ==
    /\ ClientsInit /\ [][ClientsNext]_allVars
    /\ WF_homeState(part = "home" /\ Home!TimerFires) /\ WF_homeState(part = "home" /\ Home!Settles)
    /\ WF_homeState(part = "home" /\ \E l \in Home!Lanes : Home!Serves(l))

-----------------------------------------------------------------------------
(* The properties of the parts, stated in their modules. *)

\* Everything has its type.
ClientsTypeOK ==
    CASE part = "surface" -> Surface!SurfaceTypeOK
      [] part = "native" -> Native!NativeTypeOK
      [] part = "popup" -> Popup!PopupTypeOK
      [] part = "link" -> Link!LinkTypeOK
      [] part = "home" -> Home!HomeTypeOK
      [] part = "updates" -> Updates!UpdatesTypeOK
      [] part = "library" -> Library!LibTypeOK
      [] part = "context" -> Context!ContextTypeOK
      [] part = "workflow" -> Workflow!WorkflowTypeOK
      [] part = "connections" -> Connections!ConnectionsTypeOK
      [] part = "calendar" -> Calendar!CalendarTypeOK
      [] part = "mail" -> Mail!MailTypeOK
      [] part = "capabilities" -> Capabilities!CapabilitiesTypeOK
      [] part = "speech" -> Speech!SpeechTypeOK
      [] part = "setup" -> Setup!SetupTypeOK
      [] part = "onboarding" -> Guide!OnboardingTypeOK
      [] part = "permissions" -> Privacy!PermissionsTypeOK
      [] part = "goals" -> Goal!GoalsTypeOK

\* CheckInSurface: no check-in is announced twice; history is never announced; nothing lies
\* over the window that has the focus, nor on screen once alerts are off.
CheckInsSurfaceOnce ==
    /\ [](part = "surface" => Surface!ShownOnce /\ Surface!FocusIsQuiet /\ Surface!OffIsQuiet)
    /\ [][part = "surface" => Surface!OldIsQuiet]_allVars

\* NativeBridge and ActivityLink: what is read from a page is sent only while it is still
\* allowed, and taken only for the request and the connection there are now.
ActivityStaysAllowed ==
    [][/\ part = "native" => Native!SharedIsAllowed
       /\ part = "link" => Link!AnswersAreAllowed /\ Link!TakenIsCurrent]_allVars

\* What is to go on by a timer of its own does: the reconnection of the worker, the one
\* refresh loop of the popup, the polls of the page and of the calendar, the check of a
\* source that is being set up.
WatchesGoOn ==
    /\ part = "native" => Native!LostPortIsRetried
    /\ part = "popup" => Popup!OneRefreshLoop
    /\ part = "home" => Home!PollGoesOn
    /\ part = "calendar" => Calendar!CalendarIsPolled
    /\ part = "setup" => Setup!SetupIsWatched

\* HomeClient: what was typed is not lost.
DraftKept == [][part = "home" => Home!DraftKept]_allVars

\* HomeClient: the service takes a text at most once.
SentOnce == part = "home" => Home!SentOnce

\* HomeClient: once everything is calm the page comes to show the state of the service.
ShowsTheService == (part = "home" /\ Home!Calm) ~> (part = "home" /\ Home!ShowsTheState)

\* LiveUpdates: nothing is announced again.
AnnouncedOnce == [][part = "updates" => Updates!AnnouncedOnce]_allVars

\* LiveUpdates: no update is taken as seen before it was presented.
NothingIsLost == [][part = "updates" => Updates!NothingIsLost]_allVars

\* ChatLibrary, ConnectionsPanel, MailSources, CapabilitiesPanel: whatever order reads,
\* commands and snapshots are answered in, no panel goes back to an older state.
PanelsNeverGoBack ==
    [][/\ part = "library" => Library!FollowsTheCatalog
       /\ part = "connections" => Connections!ConnectionsNeverGoBack
       /\ part = "mail" => Mail!MailNeverGoesBack
       /\ part = "capabilities" => Capabilities!CapabilitiesNeverGoBack]_allVars

\* ContextPanel: the breakdown of the window adds up.
BreakdownFits == part = "context" => Context!BreakdownFits

\* WorkflowPanel: a dismissed run does not return.
DismissedStaysAway == part = "workflow" => Workflow!DismissedStaysAway

\* SpeechControls: a cancelled recording leaves no words, and the voice is what it is shown
\* to be.
VoiceFollowsThePerson == part = "speech" => Speech!TranscriptIsWanted /\ Speech!VoiceIsTrue

\* Onboarding and CalendarPanel: the goals and the calendars that are saved are the ones
\* that were shown, and no answer unticks a calendar.
SavedAsShown ==
    [][/\ part = "onboarding" => Guide!ProposalIsTheOneApproved'
       /\ part = "calendar" => Calendar!ChoiceIsListed]_allVars

\* Permissions and GoalControls: a command changes what its gesture was about, on what it
\* was shown, and an Undo brings back what was there.
OnlyTheAskedChanges ==
    [][/\ part = "permissions" => Privacy!OnlyTheAskedChanges
       /\ part = "goals" => Goal!NothingIsOverwritten]_allVars
=============================================================================
