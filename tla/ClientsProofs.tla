---------------------------- MODULE ClientsProofs ----------------------------
(***************************************************************************)
(* Proofs about the parts around the service (MCClients), for any values   *)
(* of their constants: what the proofs of a part by itself (its lemmas on  *)
(* Init and Next) say of every behaviour of the whole.                     *)
(***************************************************************************)
EXTENDS MCClients, Sequences, TLAPS

H == INSTANCE HomeClientProofs

-----------------------------------------------------------------------------
(* A behaviour of MCClients is about one component: the others stand still. *)

LEMMA PartStays ==
    ASSUME [ClientsNext]_allVars
    PROVE  UNCHANGED part
  BY DEF ClientsNext, allVars, Others, SurfaceRuns, NativeRuns, PopupRuns, LinkRuns, HomeRuns,
         UpdatesRuns, LibraryRuns, ContextRuns, WorkflowRuns, ConnectionsRuns, CalendarRuns,
         MailRuns, CapabilitiesRuns, SpeechRuns, SetupRuns, GuideRuns, PrivacyRuns, GoalRuns

LEMMA HomeRunsAlone ==
    ASSUME [ClientsNext]_allVars, part = "home"
    PROVE  Home!HomeNext \/ UNCHANGED homeState
  BY DEF ClientsNext, allVars, SurfaceRuns, NativeRuns, PopupRuns, LinkRuns, HomeRuns,
         UpdatesRuns, LibraryRuns, ContextRuns, WorkflowRuns, ConnectionsRuns, CalendarRuns,
         MailRuns, CapabilitiesRuns, SpeechRuns, SetupRuns, GuideRuns, PrivacyRuns, GoalRuns

-----------------------------------------------------------------------------
(* HomeClient.                                                             *)

LEMMA HomeConstants == H!HomeAssumption
  BY ClientsAssumption DEF H!HomeAssumption

\* The steps of HomeClient are those its proofs are about: the definitions are the same.
LEMMA HomeInitSame == Home!HomeInit => H!HomeInit
  BY Zenon
  DEF Home!HomeInit, H!HomeInit, Home!Lanes, H!Lanes, Home!NoReq, H!NoReq, Home!NoState,
      H!NoState, Home!NoPend, H!NoPend, Home!NoText, H!NoText, Home!NoRid, H!NoRid,
      Home!Rids, H!Rids

LEMMA HomeNextSame == Home!HomeNext => H!HomeNext
  BY Zenon DEF Home!HomeNext, H!HomeNext, Home!Settles, H!Settles, Home!LibrarySettles,
         H!LibrarySettles, Home!Env, H!Env, Home!NoReq, H!NoReq, Home!NoState, H!NoState,
         Home!NoRid, H!NoRid, Home!Aborted, H!Aborted, Home!Accepted, H!Accepted,
         Home!Reconciled, H!Reconciled, Home!NoPend, H!NoPend, Home!NoText, H!NoText,
         Home!Queued, H!Queued, Home!SideSettles, H!SideSettles, Home!ControlSettles,
         H!ControlSettles, Home!MutateSettles, H!MutateSettles, Home!Mutated, H!Mutated,
         Home!PollSettles, H!PollSettles, Home!TimerFires, H!TimerFires, Home!PollsNow,
         H!PollsNow, Home!CalmsDown, H!CalmsDown, Home!ServiceWorks, H!ServiceWorks,
         Home!TakesLate, H!TakesLate, Home!Takes, H!Takes, Home!Breaks, H!Breaks,
         Home!Serves, H!Serves, Home!Outcomes, H!Outcomes, Home!CanTake, H!CanTake,
         Home!Lanes, H!Lanes, Home!Reloads, H!Reloads, Home!Stops, H!Stops, Home!Starts,
         H!Starts, Home!Refreshes, H!Refreshes, Home!LibraryAsks, H!LibraryAsks,
         Home!CanManage, H!CanManage, Home!Here, H!Here, Home!Active, H!Active,
         Home!Shown, H!Shown, Home!Commands, H!Commands, Home!Asks, H!Asks,
         Home!Controls, H!Controls, Home!ReturnsToDraft, H!ReturnsToDraft, Home!Recovers,
         H!Recovers, Home!Sends, H!Sends, Home!Rids, H!Rids, Home!CanSend, H!CanSend,
         Home!Types, H!Types, Home!Cardinality, H!Cardinality

HomeHolds == part = "home" => H!HomeInv

\* The inductive invariant of HomeClient, along every behaviour of the clients: what
\* waits in an outbox, what is on its way and what the service may still take agree.
THEOREM HomeInvariant == ClientsSpec => []HomeHolds
  <1>1. ClientsInit => HomeHolds
    BY HomeConstants, HomeInitSame, H!HomeBegins DEF ClientsInit, HomeHolds
  <1>2. HomeHolds /\ [ClientsNext]_allVars => HomeHolds'
    <2>1. SUFFICES ASSUME H!HomeInv, part = "home", [ClientsNext]_allVars
                   PROVE  H!HomeInv'
      BY PartStays DEF HomeHolds
    <2>2. H!HomeNext \/ UNCHANGED H!homeVars
      BY <2>1, HomeRunsAlone, HomeNextSame DEF homeState, H!homeVars
    <2>3. QED
      BY <2>1, <2>2, HomeConstants, H!HomeGoesOn
  <1>3. QED
    BY <1>1, <1>2, PTL DEF ClientsSpec

\* The service takes a text at most once, whatever is lost, answered late, sent again
\* or asked for by a page that was loaded again, unless the person took it back
\* (HomeClient, web/chat/client.js): for any number of chats, texts, requests, faults.
THEOREM SentAtMostOnce == ClientsSpec => []SentOnce
  <1>1. HomeHolds => SentOnce
    <2>1. H!SentOnce => Home!SentOnce
      BY Zenon DEF H!SentOnce, Home!SentOnce, H!Texts, Home!Texts, H!Cardinality, Home!Cardinality
    <2>2. QED
      BY <2>1, HomeConstants, H!TakenOnce DEF HomeHolds, SentOnce
  <1>2. QED
    BY <1>1, HomeInvariant, PTL

\* A draft goes only for a newer one, when the service has taken it, or for the message
\* the person takes back (HomeClient): an answer, a switch of chats, a page that is
\* loaded again never lose what was typed.
THEOREM DraftsAreKept == ClientsSpec => DraftKept
  <1>1. HomeHolds /\ [ClientsNext]_allVars => (part = "home" => Home!DraftKept)
    <2>1. SUFFICES ASSUME H!HomeInv, part = "home", [ClientsNext]_allVars
                   PROVE  Home!DraftKept
      BY DEF HomeHolds
    <2>2. CASE H!HomeNext
      BY <2>1, <2>2, HomeConstants, H!DraftsStay DEF H!DraftKept, Home!DraftKept
    <2>3. CASE UNCHANGED homeState
      BY <2>3 DEF homeState, Home!DraftKept
    <2>4. QED
      BY <2>1, <2>2, <2>3, HomeRunsAlone, HomeNextSame
  <1>2. HomeHolds /\ [ClientsNext]_allVars =>
            [part = "home" => Home!DraftKept]_allVars
    BY <1>1
  <1>3. QED
    BY <1>2, HomeInvariant, PTL DEF ClientsSpec, DraftKept
-----------------------------------------------------------------------------
(* The small parts of PartsProofs: their steps are those it is about. *)

P == INSTANCE PartsProofs

LEMMA NativeRunsAlone ==
    ASSUME [ClientsNext]_allVars, part = "native"
    PROVE  Native!NativeNext \/ UNCHANGED nativeState
  BY DEF ClientsNext, allVars, SurfaceRuns, NativeRuns, PopupRuns, LinkRuns, HomeRuns,
         UpdatesRuns, LibraryRuns, ContextRuns, WorkflowRuns, ConnectionsRuns, CalendarRuns,
         MailRuns, CapabilitiesRuns, SpeechRuns, SetupRuns, GuideRuns, PrivacyRuns, GoalRuns

LEMMA NativeInitSame == Native!NativeInit => P!Native!NativeInit
  BY Zenon DEF Native!NativeInit, P!Native!NativeInit, Native!NoEvent,
         P!Native!NoEvent, Native!Idle, P!Native!Idle, Native!NoPolicy,
         P!Native!NoPolicy

LEMMA NativeNextSame == Native!NativeNext => P!Native!NativeNext
  BY Zenon DEF Native!NativeNext, P!Native!NativeNext, Native!Chooses,
         P!Native!Chooses, Native!Acts, P!Native!Acts, Native!SampleThrows,
         P!Native!SampleThrows, Native!Reports, P!Native!Reports,
         Native!SchedulesReconnect, P!Native!SchedulesReconnect, Native!StopsReconnect,
         P!Native!StopsReconnect, Native!Current, P!Native!Current, Native!Idle,
         P!Native!Idle, Native!NoPolicy, P!Native!NoPolicy, Native!Samples,
         P!Native!Samples, Native!Awaits, P!Native!Awaits, Native!GoesOn,
         P!Native!GoesOn, Native!TakesSample, P!Native!TakesSample, Native!Verifies,
         P!Native!Verifies, Native!TakesPolicy, P!Native!TakesPolicy, Native!Policies,
         P!Native!Policies, Native!PortDrops, P!Native!PortDrops, Native!Closed,
         P!Native!Closed, Native!Hears, P!Native!Hears, Native!Invalidated,
         P!Native!Invalidated, Native!AccessOff, P!Native!AccessOff, Native!Asks,
         P!Native!Asks, Native!Reconnects, P!Native!Reconnects, Native!Refreshes,
         P!Native!Refreshes, Native!Connected, P!Native!Connected

LEMMA PopupRunsAlone ==
    ASSUME [ClientsNext]_allVars, part = "popup"
    PROVE  Popup!PopupNext \/ UNCHANGED popupState
  BY DEF ClientsNext, allVars, SurfaceRuns, NativeRuns, PopupRuns, LinkRuns, HomeRuns,
         UpdatesRuns, LibraryRuns, ContextRuns, WorkflowRuns, ConnectionsRuns, CalendarRuns,
         MailRuns, CapabilitiesRuns, SpeechRuns, SetupRuns, GuideRuns, PrivacyRuns, GoalRuns

LEMMA PopupInitSame == Popup!PopupInit => P!Popup!PopupInit
  BY Zenon DEF Popup!PopupInit, P!Popup!PopupInit

LEMMA PopupNextSame == Popup!PopupNext => P!Popup!PopupNext
  BY Zenon DEF Popup!PopupNext, P!Popup!PopupNext, Popup!Hides, P!Popup!Hides,
         Popup!Starts, P!Popup!Starts, Popup!Scheduled, P!Popup!Scheduled,
         Popup!Stopped, P!Popup!Stopped, Popup!Clicks, P!Popup!Clicks, Popup!EditsList,
         P!Popup!EditsList, Popup!RemovesAccess, P!Popup!RemovesAccess, Popup!Retries,
         P!Popup!Retries, Popup!Allowed, P!Popup!Allowed, Popup!Shows, P!Popup!Shows,
         Popup!ClicksAllow, P!Popup!ClicksAllow, Popup!RefreshFires,
         P!Popup!RefreshFires, Popup!EditWrites, P!Popup!EditWrites, Popup!EditReads,
         P!Popup!EditReads, Popup!Refreshed, P!Popup!Refreshed, Popup!Answers,
         P!Popup!Answers

LEMMA LinkRunsAlone ==
    ASSUME [ClientsNext]_allVars, part = "link"
    PROVE  Link!LinkNext \/ UNCHANGED linkState
  BY DEF ClientsNext, allVars, SurfaceRuns, NativeRuns, PopupRuns, LinkRuns, HomeRuns,
         UpdatesRuns, LibraryRuns, ContextRuns, WorkflowRuns, ConnectionsRuns, CalendarRuns,
         MailRuns, CapabilitiesRuns, SpeechRuns, SetupRuns, GuideRuns, PrivacyRuns, GoalRuns

LEMMA LinkInitSame == Link!LinkInit => P!Link!LinkInit
  BY Zenon DEF Link!LinkInit, P!Link!LinkInit, Link!Requests, P!Link!Requests, Link!Closed,
         P!Link!Closed, Link!None, P!Link!None, Link!Ports, P!Link!Ports

LEMMA LinkNextSame == Link!LinkNext => P!Link!LinkNext
  BY Zenon DEF Link!LinkNext, P!Link!LinkNext, Link!Serves, P!Link!Serves, Link!Step,
         P!Link!Step, Link!None, P!Link!None, Link!Fails, P!Link!Fails, Link!Moves, P!Link!Moves,
         Link!Takes, P!Link!Takes, Link!Checks, P!Link!Checks, Link!ServesRenew,
         P!Link!ServesRenew, Link!ServesPause, P!Link!ServesPause, Link!ServesEnable,
         P!Link!ServesEnable, Link!Hears, P!Link!Hears, Link!LetGo, P!Link!LetGo, Link!Forgotten,
         P!Link!Forgotten, Link!Shows, P!Link!Shows, Link!Forwards, P!Link!Forwards, Link!Owns,
         P!Link!Owns, Link!Updated, P!Link!Updated, Link!TakesRequest, P!Link!TakesRequest,
         Link!Observes, P!Link!Observes, Link!Answers, P!Link!Answers, Link!Disconnects,
         P!Link!Disconnects, Link!Closed, P!Link!Closed, Link!EndIsPosted, P!Link!EndIsPosted,
         Link!Post, P!Link!Post, Link!Ended, P!Link!Ended, Link!Looks, P!Link!Looks,
         Link!StillAllowed, P!Link!StillAllowed, Link!Greets, P!Link!Greets, Link!Ports,
         P!Link!Ports, Link!Renews, P!Link!Renews, Link!Pauses, P!Link!Pauses, Link!Emits,
         P!Link!Emits, Link!Polls, P!Link!Polls, Link!State, P!Link!State, Link!Readied,
         P!Link!Readied, Link!Opens, P!Link!Opens

LEMMA CalendarRunsAlone ==
    ASSUME [ClientsNext]_allVars, part = "calendar"
    PROVE  Calendar!CalendarNext \/ UNCHANGED calendarState
  BY DEF ClientsNext, allVars, SurfaceRuns, NativeRuns, PopupRuns, LinkRuns, HomeRuns,
         UpdatesRuns, LibraryRuns, ContextRuns, WorkflowRuns, ConnectionsRuns, CalendarRuns,
         MailRuns, CapabilitiesRuns, SpeechRuns, SetupRuns, GuideRuns, PrivacyRuns, GoalRuns

LEMMA CalendarInitSame == Calendar!CalendarInit => P!Calendar!CalendarInit
  BY Zenon DEF Calendar!CalendarInit, P!Calendar!CalendarInit, Calendar!NoCall,
         P!Calendar!NoCall, Calendar!NoSnapshot, P!Calendar!NoSnapshot,
         Calendar!NoChoice, P!Calendar!NoChoice

LEMMA CalendarNextSame == Calendar!CalendarNext => P!Calendar!CalendarNext
  BY Zenon DEF Calendar!CalendarNext, P!Calendar!CalendarNext, Calendar!GoogleActs,
         P!Calendar!GoogleActs, Calendar!SignInEnds, P!Calendar!SignInEnds,
         Calendar!SignInExpires, P!Calendar!SignInExpires, Calendar!WorkerEnds,
         P!Calendar!WorkerEnds, Calendar!SyncsAgain, P!Calendar!SyncsAgain,
         Calendar!Moved, P!Calendar!Moved, Calendar!Shows, P!Calendar!Shows,
         Calendar!Lapsed, P!Calendar!Lapsed, Calendar!Leaves, P!Calendar!Leaves,
         Calendar!Allowed, P!Calendar!Allowed, Calendar!Syncing, P!Calendar!Syncing,
         Calendar!Effect, P!Calendar!Effect, Calendar!Keeps, P!Calendar!Keeps,
         Calendar!Tick, P!Calendar!Tick, Calendar!Answered, P!Calendar!Answered,
         Calendar!Chooses, P!Calendar!Chooses, Calendar!CommandSettles,
         P!Calendar!CommandSettles, Calendar!NoCall, P!Calendar!NoCall,
         Calendar!NoSnapshot, P!Calendar!NoSnapshot, Calendar!Polling,
         P!Calendar!Polling, Calendar!Accepts, P!Calendar!Accepts,
         Calendar!ChoiceAfter, P!Calendar!ChoiceAfter, Calendar!NoChoice,
         P!Calendar!NoChoice, Calendar!Begun, P!Calendar!Begun, Calendar!Fresh,
         P!Calendar!Fresh, Calendar!Commands, P!Calendar!Commands, Calendar!Offered,
         P!Calendar!Offered, Calendar!ReadSettles, P!Calendar!ReadSettles,
         Calendar!Checks, P!Calendar!Checks, Calendar!Reads, P!Calendar!Reads,
         Calendar!PollFires, P!Calendar!PollFires

LEMMA SetupRunsAlone ==
    ASSUME [ClientsNext]_allVars, part = "setup"
    PROVE  Setup!SetupNext \/ UNCHANGED setupState
  BY DEF ClientsNext, allVars, SurfaceRuns, NativeRuns, PopupRuns, LinkRuns, HomeRuns,
         UpdatesRuns, LibraryRuns, ContextRuns, WorkflowRuns, ConnectionsRuns, CalendarRuns,
         MailRuns, CapabilitiesRuns, SpeechRuns, SetupRuns, GuideRuns, PrivacyRuns, GoalRuns

LEMMA SetupInitSame == Setup!SetupInit => P!Setup!SetupInit
  BY Zenon DEF Setup!SetupInit, P!Setup!SetupInit, Setup!Started, P!Setup!Started,
         Setup!Checked, P!Setup!Checked, Setup!MayCheck, P!Setup!MayCheck,
         Setup!Looked, P!Setup!Looked

LEMMA SetupNextSame == Setup!SetupNext => P!Setup!SetupNext
  BY Zenon DEF Setup!SetupNext, P!Setup!SetupNext, Setup!Navigates, P!Setup!Navigates,
         Setup!Halted, P!Setup!Halted, Setup!Started, P!Setup!Started, Setup!Checked,
         P!Setup!Checked, Setup!MayCheck, P!Setup!MayCheck, Setup!Looked,
         P!Setup!Looked, Setup!Rendered, P!Setup!Rendered, Setup!Settled,
         P!Setup!Settled, Setup!SetupState, P!Setup!SetupState,
         Setup!DesktopSetupState, P!Setup!DesktopSetupState, Setup!Step, P!Setup!Step,
         Setup!BrowserSetupState, P!Setup!BrowserSetupState, Setup!InstallStep,
         P!Setup!InstallStep, Setup!OnOrResume, P!Setup!OnOrResume, Setup!Effort,
         P!Setup!Effort, Setup!ClickEnds, P!Setup!ClickEnds, Setup!Asked,
         P!Setup!Asked, Setup!NextStep, P!Setup!NextStep, Setup!Clicks, P!Setup!Clicks,
         Setup!SnapshotComes, P!Setup!SnapshotComes, Setup!UpdatedMonitor,
         P!Setup!UpdatedMonitor, Setup!CheckEnds, P!Setup!CheckEnds, Setup!AfterCheck,
         P!Setup!AfterCheck, Setup!Queued, P!Setup!Queued, Setup!TimePasses,
         P!Setup!TimePasses, Setup!TimerIsDue, P!Setup!TimerIsDue, Setup!ScreenChanges,
         P!Setup!ScreenChanges, Setup!Woken, P!Setup!Woken, Setup!WorldChanges,
         P!Setup!WorldChanges, Setup!Extensions, P!Setup!Extensions, Setup!Healths,
         P!Setup!Healths
-----------------------------------------------------------------------------
(* The inductive invariants of the small parts, along every behaviour.     *)

NativeHolds == part = "native" => P!NativeInv
PopupHolds == part = "popup" => P!PopupInv
LinkHolds == part = "link" => P!LinkInv
CalendarHolds == part = "calendar" => P!CalendarInv
SetupHolds == part = "setup" => P!SetupInv

PartConstants ==
    /\ RetryLimit \in Nat \ {0} /\ MaxRefreshes \in Nat \ {0} /\ MaxLeft \in Nat
    /\ Sites # {} /\ Primary \in Cals
    /\ DismissalCap \in Nat \ {0} /\ NoRun \notin RunIds /\ RunChats # {}
    /\ {MaxEvents, MaxAlerted, MaxSeen} \subseteq Nat /\ MaxAlerted <= MaxEvents
    /\ NoConvo \notin Convos /\ Convos # {}
    /\ NoUpdate \notin CheckIns \cup Replies /\ CheckIns \cap Replies = {}
    /\ {SeenCap, QueueCap} \subseteq Nat \ {0} /\ UpdateBudgets \subseteq [said : Nat, moves : Nat]
    /\ Talks # {} /\ {MaxTokens, MaxAsks} \subseteq Nat

LEMMA PartsAreBounded == PartConstants
  BY ClientsAssumption DEF PartConstants

\* The worker of the extension: a port that went is being replaced, a message that says so
\* is on its way, and a sample is of a site, a policy and a connection it knew.
THEOREM NativeInvariant == ClientsSpec => []NativeHolds
  <1>1. ClientsInit => NativeHolds
    BY PartsAreBounded, NativeInitSame, P!NativeBegins
    DEF ClientsInit, NativeHolds, PartConstants
  <1>2. NativeHolds /\ [ClientsNext]_allVars => NativeHolds'
    <2>1. SUFFICES ASSUME P!NativeInv, part = "native", [ClientsNext]_allVars
                   PROVE  P!NativeInv'
      BY PartStays DEF NativeHolds
    <2>2. CASE P!Native!NativeNext
      BY <2>1, <2>2, PartsAreBounded, P!NativeGoesOn DEF PartConstants
    <2>3. CASE UNCHANGED nativeState
      BY <2>1, <2>3 DEF nativeState, P!NativeInv, P!WorkerFits, P!RetriesGoOn, P!SampleIsHonest
    <2>4. QED
      BY <2>1, <2>2, <2>3, NativeRunsAlone, NativeNextSame
  <1>3. QED
    BY <1>1, <1>2, PTL DEF ClientsSpec
\* The popup of the extension: at most one refresh of the current generation, and while
\* the window is visible there is one.
THEOREM PopupInvariant == ClientsSpec => []PopupHolds
  <1>1. ClientsInit => PopupHolds
    BY PartsAreBounded, PopupInitSame, P!PopupBegins
    DEF ClientsInit, PopupHolds, PartConstants
  <1>2. PopupHolds /\ [ClientsNext]_allVars => PopupHolds'
    <2>1. SUFFICES ASSUME P!PopupInv, part = "popup", [ClientsNext]_allVars
                   PROVE  P!PopupInv'
      BY PartStays DEF PopupHolds
    <2>2. CASE P!Popup!PopupNext
      BY <2>1, <2>2, PartsAreBounded, P!PopupGoesOn DEF PartConstants
    <2>3. CASE UNCHANGED popupState
      BY <2>1, <2>3 DEF popupState, P!PopupInv, P!Loops
    <2>4. QED
      BY <2>1, <2>2, <2>3, PopupRunsAlone, PopupNextSame
  <1>3. QED
    BY <1>1, <1>2, PTL DEF ClientsSpec


\* The page and the lease of the service: what was taken answered a request that was made and
\* is over, and of the answers the service is checking no two are to one request.
THEOREM LinkInvariant == ClientsSpec => []LinkHolds
  <1>1. ClientsInit => LinkHolds
    BY PartsAreBounded, LinkInitSame, P!LinkBegins
    DEF ClientsInit, LinkHolds, PartConstants
  <1>2. LinkHolds /\ [ClientsNext]_allVars => LinkHolds'
    <2>1. SUFFICES ASSUME P!LinkInv, part = "link", [ClientsNext]_allVars
                   PROVE  P!LinkInv'
      BY PartStays DEF LinkHolds
    <2>2. CASE P!Link!LinkNext
      BY <2>1, <2>2, P!LinkGoesOn
    <2>3. CASE UNCHANGED linkState
      BY <2>1, <2>3 DEF linkState, P!LinkInv, P!BeingChecked
    <2>4. QED
      BY <2>1, <2>2, <2>3, LinkRunsAlone, LinkNextSame
  <1>3. QED
    BY <1>1, <1>2, PTL DEF ClientsSpec


\* The calendar panel: what is shown is no newer than the service, what is saved was
\* listed, and the panel polls while an answer is awaited.
THEOREM CalendarInvariant == ClientsSpec => []CalendarHolds
  <1>1. ClientsInit => CalendarHolds
    BY PartsAreBounded, CalendarInitSame, P!CalendarBegins
    DEF ClientsInit, CalendarHolds, PartConstants
  <1>2. CalendarHolds /\ [ClientsNext]_allVars => CalendarHolds'
    <2>1. SUFFICES ASSUME P!CalendarInv, part = "calendar", [ClientsNext]_allVars
                   PROVE  P!CalendarInv'
      BY PartStays DEF CalendarHolds
    <2>2. CASE P!Calendar!CalendarNext
      BY <2>1, <2>2, P!CalendarGoesOn
    <2>3. CASE UNCHANGED calendarState
      BY <2>1, <2>3 DEF calendarState, P!CalendarInv, P!CalendarTyped, P!CalendarGoes, P!CalendarCalls
    <2>4. QED
      BY <2>1, <2>2, <2>3, CalendarRunsAlone, CalendarNextSame
  <1>3. QED
    BY <1>1, <1>2, PTL DEF ClientsSpec


\* The monitor of a source that is being set up: it checks or will check while it saw its
\* card on screen.
THEOREM SetupInvariant == ClientsSpec => []SetupHolds
  <1>1. ClientsInit => SetupHolds
    BY PartsAreBounded, SetupInitSame, P!SetupBegins
    DEF ClientsInit, SetupHolds, PartConstants
  <1>2. SetupHolds /\ [ClientsNext]_allVars => SetupHolds'
    <2>1. SUFFICES ASSUME P!SetupInv, part = "setup", [ClientsNext]_allVars
                   PROVE  P!SetupInv'
      BY PartStays DEF SetupHolds
    <2>2. CASE P!Setup!SetupNext
      BY <2>1, <2>2, PartsAreBounded, P!SetupGoesOn DEF PartConstants
    <2>3. CASE UNCHANGED setupState
      BY <2>1, <2>3 DEF setupState, P!SetupInv, P!Watches
    <2>4. QED
      BY <2>1, <2>2, <2>3, SetupRunsAlone, SetupNextSame
  <1>3. QED
    BY <1>1, <1>2, PTL DEF ClientsSpec


-----------------------------------------------------------------------------
(* What the invariants say of the properties of MCClients.                 *)

\* What is to go on by a timer of its own does (web/chat/client.js,
\* activity/extension, web/connections/calendar.js, web/activity/setup-state.js): for any number of chats, sites,
\* retries, refreshes, ticks and faults.
THEOREM WatchesGoingOn == ClientsSpec => []WatchesGoOn
  <1>1. NativeHolds => (part = "native" => Native!LostPortIsRetried)
    BY P!Retried DEF NativeHolds, P!Native!LostPortIsRetried, Native!LostPortIsRetried
  <1>2. PopupHolds => (part = "popup" => Popup!OneRefreshLoop)
    BY P!OneLoop DEF PopupHolds, P!Popup!OneRefreshLoop, Popup!OneRefreshLoop
  <1>3. CalendarHolds => (part = "calendar" => Calendar!CalendarIsPolled)
    <2>1. P!Calendar!CalendarIsPolled => Calendar!CalendarIsPolled
      BY Zenon DEF P!Calendar!CalendarIsPolled, Calendar!CalendarIsPolled, P!Calendar!NoSnapshot,
         Calendar!NoSnapshot
    <2>2. QED
      BY <2>1, P!CalendarPolled DEF CalendarHolds
  <1>4. SetupHolds => (part = "setup" => Setup!SetupIsWatched)
    BY P!SetupWatched DEF SetupHolds, P!Setup!SetupIsWatched, Setup!SetupIsWatched
  <1>5. HomeHolds => (part = "home" => Home!PollGoesOn)
    BY Zenon DEF HomeHolds, H!HomeInv, H!PollGoesOn, Home!PollGoesOn
  <1>6. NativeHolds /\ PopupHolds /\ CalendarHolds /\ SetupHolds /\ HomeHolds => WatchesGoOn
    BY <1>1, <1>2, <1>3, <1>4, <1>5 DEF WatchesGoOn
  <1>7. QED
    BY <1>6, NativeInvariant, PopupInvariant, CalendarInvariant, SetupInvariant, HomeInvariant,
       PTL

\* What is read from a page is sent only while it is still allowed, leaves the window only
\* from the connection it has, while it is allowed there, and becomes context at most once,
\* only while a lease is active (activity/extension/native.js, web/activity/bridge.js and
\* session.js, app/proactive.py), whatever is answered, checked or paused late.
THEOREM SharingStaysAllowed == ClientsSpec => ActivityStaysAllowed
  <1> DEFINE Allowed == /\ part = "native" => Native!SharedIsAllowed
                        /\ part = "link" => Link!AnswersAreAllowed /\ Link!TakenIsCurrent
  <1>1. ASSUME NativeHolds, [ClientsNext]_allVars, part = "native"
        PROVE  Native!SharedIsAllowed
    <2>1. CASE Native!NativeNext
      <3>1. P!Native!SharedIsAllowed
        BY <1>1, <2>1, NativeNextSame, PartsAreBounded, P!NativeGoesOn
        DEF NativeHolds, PartConstants
      <3>2. QED
        BY Zenon, <3>1 DEF P!Native!SharedIsAllowed, Native!SharedIsAllowed
    <2>2. CASE UNCHANGED nativeState
      BY <2>2 DEF nativeState, Native!SharedIsAllowed
    <2>3. QED
      BY <1>1, <2>1, <2>2, NativeRunsAlone
  <1>2. ASSUME LinkHolds, [ClientsNext]_allVars, part = "link"
        PROVE  Link!AnswersAreAllowed /\ Link!TakenIsCurrent
    <2>1. CASE Link!LinkNext
      <3>1. P!Link!AnswersAreAllowed /\ P!Link!TakenIsCurrent
        BY <1>2, <2>1, LinkNextSame, P!LinkGoesOn DEF LinkHolds
      <3>2. QED
        BY Zenon, <3>1
        DEF Link!AnswersAreAllowed, P!Link!AnswersAreAllowed, Link!TakenIsCurrent,
            P!Link!TakenIsCurrent, Link!Requests, P!Link!Requests
    <2>2. CASE UNCHANGED linkState
      BY <2>2 DEF linkState, Link!AnswersAreAllowed, Link!TakenIsCurrent
    <2>3. QED
      BY <1>2, <2>1, <2>2, LinkRunsAlone
  <1>3. NativeHolds /\ LinkHolds /\ [ClientsNext]_allVars => [Allowed]_allVars
    BY <1>1, <1>2
  <1>4. QED
    BY <1>3, NativeInvariant, LinkInvariant, PTL DEF ClientsSpec, ActivityStaysAllowed
-----------------------------------------------------------------------------
(* What the person asks for by hand (CommandsProofs). *)

C == INSTANCE CommandsProofs

LEMMA SpeechRunsAlone ==
    ASSUME [ClientsNext]_allVars, part = "speech"
    PROVE  Speech!SpeechNext \/ UNCHANGED speechState
  BY DEF ClientsNext, allVars, SurfaceRuns, NativeRuns, PopupRuns, LinkRuns, HomeRuns,
         UpdatesRuns, LibraryRuns, ContextRuns, WorkflowRuns, ConnectionsRuns, CalendarRuns,
         MailRuns, CapabilitiesRuns, SpeechRuns, SetupRuns, GuideRuns, PrivacyRuns, GoalRuns

LEMMA SpeechInitSame == Speech!SpeechInit => C!Speech!SpeechInit
  BY Zenon DEF Speech!SpeechInit, C!Speech!SpeechInit

LEMMA SpeechNextSame == Speech!SpeechNext => C!Speech!SpeechNext
  BY Zenon DEF Speech!SpeechNext, C!Speech!SpeechNext, Speech!VoiceChanges,
         C!Speech!VoiceChanges, Speech!Silenced, C!Speech!Silenced, Speech!CanSpeak,
         C!Speech!CanSpeak, Speech!SayStep, C!Speech!SayStep, Speech!UtteranceEnds,
         C!Speech!UtteranceEnds, Speech!Finishes, C!Speech!Finishes, Speech!ReplyComes,
         C!Speech!ReplyComes, Speech!Updated, C!Speech!Updated, Speech!Newest,
         C!Speech!Newest, Speech!IdsOf, C!Speech!IdsOf, Speech!ChoosesMode,
         C!Speech!ChoosesMode, Speech!Quiet, C!Speech!Quiet, Speech!Gesture,
         C!Speech!Gesture, Speech!CallsOff, C!Speech!CallsOff, Speech!Underway,
         C!Speech!Underway, Speech!BeginsStop, C!Speech!BeginsStop, Speech!CloseGraph,
         C!Speech!CloseGraph, Speech!QuitsRequest, C!Speech!QuitsRequest,
         Speech!Releases, C!Speech!Releases, Speech!Presses, C!Speech!Presses,
         Speech!BeginsStart, C!Speech!BeginsStart, Speech!TranscriptArrives,
         C!Speech!TranscriptArrives, Speech!Transcribed, C!Speech!Transcribed,
         Speech!GraphClosed, C!Speech!GraphClosed, Speech!Counts, C!Speech!Counts,
         Speech!Flushes, C!Speech!Flushes, Speech!StartFails, C!Speech!StartFails,
         Speech!Abandons, C!Speech!Abandons, Speech!ModuleLoads, C!Speech!ModuleLoads,
         Speech!Granted, C!Speech!Granted,
         Speech!micVars, C!Speech!micVars, Speech!voiceVars, C!Speech!voiceVars

LEMMA GuideRunsAlone ==
    ASSUME [ClientsNext]_allVars, part = "onboarding"
    PROVE  Guide!OnboardingNext \/ UNCHANGED onboardingState
  BY DEF ClientsNext, allVars, SurfaceRuns, NativeRuns, PopupRuns, LinkRuns, HomeRuns,
         UpdatesRuns, LibraryRuns, ContextRuns, WorkflowRuns, ConnectionsRuns, CalendarRuns,
         MailRuns, CapabilitiesRuns, SpeechRuns, SetupRuns, GuideRuns, PrivacyRuns, GoalRuns

LEMMA GuideInitSame == Guide!OnboardingInit => C!Guide!OnboardingInit
  BY Zenon DEF Guide!OnboardingInit, C!Guide!OnboardingInit, Guide!NoPost, C!Guide!NoPost,
         Guide!Public, C!Guide!Public

LEMMA GuideNextSame == Guide!OnboardingNext => C!Guide!OnboardingNext
  BY Zenon DEF Guide!OnboardingNext, C!Guide!OnboardingNext, Guide!ChangesPage,
         C!Guide!ChangesPage, Guide!Shown, C!Guide!Shown, Guide!Happens, C!Guide!Happens,
         Guide!OnboardingUpdates, C!Guide!OnboardingUpdates, Guide!Public, C!Guide!Public,
         Guide!NoPost, C!Guide!NoPost, Guide!LateCommandComes, C!Guide!LateCommandComes,
         Guide!Handled, C!Guide!Handled, Guide!Applied, C!Guide!Applied, Guide!Allowed,
         C!Guide!Allowed, Guide!Active, C!Guide!Active, Guide!Repeated, C!Guide!Repeated,
         Guide!PostLost, C!Guide!PostLost, Guide!PostAnswered, C!Guide!PostAnswered,
         Guide!Answered, C!Guide!Answered, Guide!Commands, C!Guide!Commands, Guide!Offered,
         C!Guide!Offered, Guide!Invited, C!Guide!Invited, Guide!Orders, C!Guide!Orders,
         Guide!Approves, C!Guide!Approves, Guide!Approval, C!Guide!Approval, Guide!CanAccept,
         C!Guide!CanAccept, Guide!Blocked, C!Guide!Blocked, Guide!TurnChanges,
         C!Guide!TurnChanges

LEMMA PrivacyRunsAlone ==
    ASSUME [ClientsNext]_allVars, part = "permissions"
    PROVE  Privacy!PermissionsNext \/ UNCHANGED permissionsState
  BY DEF ClientsNext, allVars, SurfaceRuns, NativeRuns, PopupRuns, LinkRuns, HomeRuns,
         UpdatesRuns, LibraryRuns, ContextRuns, WorkflowRuns, ConnectionsRuns, CalendarRuns,
         MailRuns, CapabilitiesRuns, SpeechRuns, SetupRuns, GuideRuns, PrivacyRuns, GoalRuns

LEMMA PrivacyInitSame == Privacy!PermissionsInit => C!Privacy!PermissionsInit
  BY Zenon DEF Privacy!PermissionsInit, C!Privacy!PermissionsInit, Privacy!NoChange,
         C!Privacy!NoChange, Privacy!Sources, C!Privacy!Sources

LEMMA PrivacyNextSame == Privacy!PermissionsNext => C!Privacy!PermissionsNext
  BY Zenon DEF Privacy!PermissionsNext, C!Privacy!PermissionsNext, Privacy!SnapshotUpdates,
         C!Privacy!SnapshotUpdates, Privacy!Told, C!Privacy!Told, Privacy!ServiceChanges,
         C!Privacy!ServiceChanges, Privacy!Differ, C!Privacy!Differ, Privacy!OthersChange,
         C!Privacy!OthersChange, Privacy!Flag, C!Privacy!Flag, Privacy!Patched,
         C!Privacy!Patched, Privacy!Replaces, C!Privacy!Replaces, Privacy!Flags, C!Privacy!Flags,
         Privacy!ChangeSettles, C!Privacy!ChangeSettles, Privacy!PanelAfter,
         C!Privacy!PanelAfter, Privacy!Follows, C!Privacy!Follows, Privacy!NoChange,
         C!Privacy!NoChange, Privacy!Started, C!Privacy!Started, Privacy!Commanded,
         C!Privacy!Commanded, Privacy!CurrentRevision, C!Privacy!CurrentRevision,
         Privacy!UsesPanel, C!Privacy!UsesPanel, Privacy!On, C!Privacy!On,
         Privacy!ForgetsActivity, C!Privacy!ForgetsActivity, Privacy!Ask, C!Privacy!Ask,
         Privacy!Panel, C!Privacy!Panel, Privacy!CardConfigures, C!Privacy!CardConfigures,
         Privacy!GuideConfigures, C!Privacy!GuideConfigures, Privacy!ExcludesSite,
         C!Privacy!ExcludesSite, Privacy!PausesOrResumes, C!Privacy!PausesOrResumes,
         Privacy!Sources, C!Privacy!Sources, Privacy!TogglesSwitch, C!Privacy!TogglesSwitch,
         Privacy!SourcePolicy, C!Privacy!SourcePolicy

LEMMA GoalRunsAlone ==
    ASSUME [ClientsNext]_allVars, part = "goals"
    PROVE  Goal!GoalsNext \/ UNCHANGED goalsState
  BY DEF ClientsNext, allVars, SurfaceRuns, NativeRuns, PopupRuns, LinkRuns, HomeRuns,
         UpdatesRuns, LibraryRuns, ContextRuns, WorkflowRuns, ConnectionsRuns, CalendarRuns,
         MailRuns, CapabilitiesRuns, SpeechRuns, SetupRuns, GuideRuns, PrivacyRuns, GoalRuns

LEMMA GoalInitSame == Goal!GoalsInit => C!Goal!GoalsInit
  BY Zenon DEF Goal!GoalsInit, C!Goal!GoalsInit, Goal!NoOrder, C!Goal!NoOrder,
         Goal!NoUndo, C!Goal!NoUndo, Goal!Surfaces, C!Goal!Surfaces, Goal!NoDraft,
         C!Goal!NoDraft, Goal!Foci, C!Goal!Foci

\* What the service makes of a command, and the window of an answer.
LEMMA GoalOperatorsSame ==
    /\ \A g, o : Goal!Permitted(g, o) = C!Goal!Permitted(g, o)
    /\ \A g, o : Goal!GoalAfter(g, o) = C!Goal!GoalAfter(g, o)
    /\ \A g, f, o : Goal!FocusAfter(g, f, o) = C!Goal!FocusAfter(g, f, o)
    /\ \A c : Goal!Served(c) = C!Goal!Served(c)
    /\ \A c, ok : Goal!NoticeAfter(c, ok) = C!Goal!NoticeAfter(c, ok)
    /\ \A c, ok, conflict : Goal!DraftAfter(c, ok, conflict) = C!Goal!DraftAfter(c, ok, conflict)
    /\ \A c : Goal!Fits(tasks, c) = C!Goal!Fits(tasks, c)
  <1>1. \A g, o : Goal!Permitted(g, o) = C!Goal!Permitted(g, o)
    BY Zenon DEF Goal!Permitted, C!Goal!Permitted
  <1>2. \A g, o : Goal!GoalAfter(g, o) = C!Goal!GoalAfter(g, o)
    BY Zenon DEF Goal!GoalAfter, C!Goal!GoalAfter, Goal!StatusAfter,
       C!Goal!StatusAfter
  <1>3. \A g, f, o : Goal!FocusAfter(g, f, o) = C!Goal!FocusAfter(g, f, o)
    BY Zenon DEF Goal!FocusAfter, C!Goal!FocusAfter
  <1>4. \A s, o : Goal!AfterOne(s, o) = C!Goal!AfterOne(s, o)
    BY <1>1, <1>2, <1>3, Zenon DEF Goal!AfterOne, C!Goal!AfterOne
  <1>5. ASSUME NEW c
        PROVE  Goal!Served(c) = C!Goal!Served(c)
    <2>1. Goal!Batch(tasks, c.ops) = C!Goal!Batch(tasks, c.ops)
      BY <1>4, Zenon DEF Goal!Batch, C!Goal!Batch
    <2>2. QED
      BY <2>1, Zenon DEF Goal!Served, C!Goal!Served, Goal!Fits, C!Goal!Fits
  <1>6. \A c, ok : Goal!NoticeAfter(c, ok) = C!Goal!NoticeAfter(c, ok)
    BY Zenon DEF Goal!NoticeAfter, C!Goal!NoticeAfter, Goal!UndoOperations,
       C!Goal!UndoOperations, Goal!Op, C!Goal!Op, Goal!Progress, C!Goal!Progress,
       Goal!Focus, C!Goal!Focus, Goal!NoUndo, C!Goal!NoUndo
  <1>7. \A c, ok, conflict : Goal!DraftAfter(c, ok, conflict) = C!Goal!DraftAfter(c, ok, conflict)
    BY Zenon DEF Goal!DraftAfter, C!Goal!DraftAfter, Goal!NoDraft, C!Goal!NoDraft
  <1>8. \A c : Goal!Fits(tasks, c) = C!Goal!Fits(tasks, c)
    BY Zenon DEF Goal!Fits, C!Goal!Fits
  <1>9. QED
    BY <1>1, <1>2, <1>3, <1>5, <1>6, <1>7, <1>8

LEMMA GoalNextSame == Goal!GoalsNext => C!Goal!GoalsNext
  <1>1. Goal!PressesAction => C!Goal!PressesAction
    BY Zenon DEF Goal!PressesAction, C!Goal!PressesAction, Goal!ActionOperations,
       C!Goal!ActionOperations, Goal!Op, C!Goal!Op, Goal!Focus, C!Goal!Focus,
       Goal!Orders, C!Goal!Orders, Goal!NoOrder, C!Goal!NoOrder, Goal!Offers,
       C!Goal!Offers, Goal!Surfaces, C!Goal!Surfaces
  <1>2. Goal!PressesUndo => C!Goal!PressesUndo
    BY Zenon DEF Goal!PressesUndo, C!Goal!PressesUndo, Goal!Orders, C!Goal!Orders,
       Goal!NoOrder, C!Goal!NoOrder, Goal!NoUndo, C!Goal!NoUndo, Goal!Surfaces,
       C!Goal!Surfaces
  <1>3. Goal!OpensEditor => C!Goal!OpensEditor
    BY Zenon DEF Goal!OpensEditor, C!Goal!OpensEditor, Goal!Words, C!Goal!Words,
       Goal!NoDraft, C!Goal!NoDraft
  <1>4. Goal!LeavesEditor => C!Goal!LeavesEditor
    BY Zenon DEF Goal!LeavesEditor, C!Goal!LeavesEditor, Goal!NoDraft, C!Goal!NoDraft
  <1>5. Goal!SavesEdit => C!Goal!SavesEdit
    BY Zenon DEF Goal!SavesEdit, C!Goal!SavesEdit, Goal!Orders, C!Goal!Orders,
       Goal!NoOrder, C!Goal!NoOrder, Goal!NoDraft, C!Goal!NoDraft, Goal!EditOperations,
       C!Goal!EditOperations, Goal!Progress, C!Goal!Progress, Goal!Edit, C!Goal!Edit,
       Goal!FormIsValid, C!Goal!FormIsValid
  <1>6. Goal!OrderSettles => C!Goal!OrderSettles
    BY GoalOperatorsSame, Zenon DEF Goal!OrderSettles, C!Goal!OrderSettles,
       Goal!NoOrder, C!Goal!NoOrder
  <1>7. Goal!OthersEdit => C!Goal!OthersEdit
    <2>1. Goal!OtherOperations = C!Goal!OtherOperations
      BY DEF Goal!OtherOperations, C!Goal!OtherOperations, Goal!Progress, C!Goal!Progress,
         Goal!Words, C!Goal!Words, Goal!Edit, C!Goal!Edit, Goal!Focus, C!Goal!Focus,
         Goal!Op, C!Goal!Op
    <2>2. QED
      BY <2>1, GoalOperatorsSame, Zenon DEF Goal!OthersEdit, C!Goal!OthersEdit
  <1>8. Goal!SnapshotArrives => C!Goal!SnapshotArrives
    BY Zenon DEF Goal!SnapshotArrives, C!Goal!SnapshotArrives, Goal!NoUndo,
       C!Goal!NoUndo, Goal!NoOrder, C!Goal!NoOrder
  <1>9. QED
    BY <1>1, <1>2, <1>3, <1>4, <1>5, <1>6, <1>7, <1>8 DEF Goal!GoalsNext, C!Goal!GoalsNext

SpeechHolds == part = "speech" => C!MicInv /\ C!VoiceInv
GuideHolds == part = "onboarding" => C!GuideInv
PrivacyHolds == part = "permissions" => C!PrivacyInv
GoalHolds == part = "goals" => C!GoalInv

\* The microphone and the voice: what a generation of the recording has gone through, and
\* the replies that were heard, which are a prefix of those that came.
THEOREM SpeechInvariant == ClientsSpec => []SpeechHolds
  <1>1. ClientsInit => SpeechHolds
    BY ClientsAssumption, SpeechInitSame, C!SpeechBegins
    DEF ClientsInit, SpeechHolds
  <1>2. SpeechHolds /\ [ClientsNext]_allVars => SpeechHolds'
    <2>1. SUFFICES ASSUME C!MicInv, C!VoiceInv, part = "speech", [ClientsNext]_allVars
                   PROVE  C!MicInv' /\ C!VoiceInv'
      BY PartStays DEF SpeechHolds
    <2>2. CASE C!Speech!SpeechNext
      BY <2>1, <2>2, C!SpeechGoesOn
    <2>3. CASE UNCHANGED speechState
      BY <2>1, <2>3 DEF speechState, C!MicInv, C!VoiceInv
    <2>4. QED
      BY <2>1, <2>2, <2>3, SpeechRunsAlone, SpeechNextSame
  <1>3. QED
    BY <1>1, <1>2, PTL DEF ClientsSpec


\* The guided setup: an approval that may still be applied is of a proposal that was
\* approved from its card.
THEOREM GuideInvariant == ClientsSpec => []GuideHolds
  <1>1. ClientsInit => GuideHolds
    BY GuideInitSame, C!GuideBegins
    DEF ClientsInit, GuideHolds
  <1>2. GuideHolds /\ [ClientsNext]_allVars => GuideHolds'
    <2>1. SUFFICES ASSUME C!GuideInv, part = "onboarding", [ClientsNext]_allVars
                   PROVE  C!GuideInv'
      BY PartStays DEF GuideHolds
    <2>2. CASE C!Guide!OnboardingNext
      BY <2>1, <2>2, C!GuideGoesOn
    <2>3. CASE UNCHANGED onboardingState
      BY <2>1, <2>3 DEF onboardingState, C!GuideInv
    <2>4. QED
      BY <2>1, <2>2, <2>3, GuideRunsAlone, GuideNextSame
  <1>3. QED
    BY <1>1, <1>2, PTL DEF ClientsSpec


\* The permissions: at one revision the policy of the service, the one the window knows and
\* the one a command was made of differ only in the flags the service changed by itself.
THEOREM PrivacyInvariant == ClientsSpec => []PrivacyHolds
  <1>1. ClientsInit => PrivacyHolds
    BY PrivacyInitSame, C!PrivacyBegins
    DEF ClientsInit, PrivacyHolds
  <1>2. PrivacyHolds /\ [ClientsNext]_allVars => PrivacyHolds'
    <2>1. SUFFICES ASSUME C!PrivacyInv, part = "permissions", [ClientsNext]_allVars
                   PROVE  C!PrivacyInv'
      BY PartStays DEF PrivacyHolds
    <2>2. CASE C!Privacy!PermissionsNext
      BY <2>1, <2>2, C!PrivacyGoesOn
    <2>3. CASE UNCHANGED permissionsState
      BY <2>1, <2>3 DEF permissionsState, C!PrivacyInv
    <2>4. QED
      BY <2>1, <2>2, <2>3, PrivacyRunsAlone, PrivacyNextSame
  <1>3. QED
    BY <1>1, <1>2, PTL DEF ClientsSpec


\* The direct changes of a goal: a revision stands for one goal and one focus, and an Undo
\* that may still be applied is of the change that made its revision.
THEOREM GoalInvariant == ClientsSpec => []GoalHolds
  <1>1. ClientsInit => GoalHolds
    BY GoalInitSame, C!GoalBegins
    DEF ClientsInit, GoalHolds
  <1>2. GoalHolds /\ [ClientsNext]_allVars => GoalHolds'
    <2>1. SUFFICES ASSUME C!GoalInv, part = "goals", [ClientsNext]_allVars
                   PROVE  C!GoalInv'
      BY PartStays DEF GoalHolds
    <2>2. CASE C!Goal!GoalsNext
      BY <2>1, <2>2, C!GoalGoesOn
    <2>3. CASE UNCHANGED goalsState
      BY <2>1, <2>3 DEF goalsState, C!GoalInv
    <2>4. QED
      BY <2>1, <2>2, <2>3, GoalRunsAlone, GoalNextSame
  <1>3. QED
    BY <1>1, <1>2, PTL DEF ClientsSpec
-----------------------------------------------------------------------------

\* A recording that was called off leaves no words in the composer, and the voice is what
\* it is shown to be (SpeechControls, web/speech): for any chats, gestures and replies,
\* whatever answers late.
THEOREM VoiceFollows == ClientsSpec => []VoiceFollowsThePerson
  <1>1. SpeechHolds => VoiceFollowsThePerson
    BY C!SpeechFollows DEF SpeechHolds, VoiceFollowsThePerson, C!Speech!TranscriptIsWanted,
       Speech!TranscriptIsWanted, C!Speech!VoiceIsTrue, Speech!VoiceIsTrue
  <1>2. QED
    BY <1>1, SpeechInvariant, PTL

\* The goal of the card is saved as the person saw it when they agreed, the other goals are
\* those proposed with it then, and the calendars that are read were listed (Onboarding,
\* CalendarPanel), whatever is changed meanwhile.
THEOREM SavedWasShown == ClientsSpec => SavedAsShown
  <1> DEFINE Agreed == part = "onboarding" => Guide!ProposalIsTheOneApproved
             Shown == /\ part = "onboarding" => Guide!ProposalIsTheOneApproved'
                      /\ part = "calendar" => Calendar!ChoiceIsListed
  <1>1. GuideHolds => Agreed
    BY Zenon, C!GuideKeepsGoals DEF GuideHolds, C!Guide!ProposalIsTheOneApproved,
       Guide!ProposalIsTheOneApproved
  <1>2. ASSUME Agreed', [ClientsNext]_allVars, part = "onboarding"
        PROVE  Guide!ProposalIsTheOneApproved'
    BY <1>2, PartStays
  <1>3. ASSUME CalendarHolds, [ClientsNext]_allVars, part = "calendar"
        PROVE  Calendar!ChoiceIsListed
    <2>1. CASE Calendar!CalendarNext
      <3>1. P!Calendar!ChoiceIsListed
        BY <1>3, <2>1, CalendarNextSame, P!CalendarChoiceStays DEF CalendarHolds
      <3>2. QED
        BY Zenon, <3>1 DEF P!Calendar!ChoiceIsListed, Calendar!ChoiceIsListed,
           P!Calendar!NoCall, Calendar!NoCall, P!Calendar!NoSnapshot, Calendar!NoSnapshot
    <2>2. CASE UNCHANGED calendarState
      BY <1>3, <2>2 DEF calendarState, Calendar!ChoiceIsListed, CalendarHolds, P!CalendarInv,
         P!CalendarTyped, P!CalendarGoes
    <2>3. QED
      BY <1>3, <2>1, <2>2, CalendarRunsAlone
  <1>4. Agreed' /\ CalendarHolds /\ [ClientsNext]_allVars => [Shown]_allVars
    BY <1>2, <1>3
  <1>5. QED
    <2> HIDE DEF Agreed
    <2>1. QED
      BY <1>1, <1>4, GuideInvariant, CalendarInvariant, PTL DEF ClientsSpec, SavedAsShown

\* A command changes what its gesture was about, with the exceptions OnlyTheAskedChanges of
\* Permissions states, on what the person was shown, and an Undo
\* brings back what was there (Permissions, GoalControls; app/context_service.py,
\* app/tasks.py): for any domains, goals, other windows and faults.
THEOREM OnlyAsked == ClientsSpec => OnlyTheAskedChanges
  <1> DEFINE Asked == /\ part = "permissions" => Privacy!OnlyTheAskedChanges
                      /\ part = "goals" => Goal!NothingIsOverwritten
  <1>1. ASSUME PrivacyHolds, [ClientsNext]_allVars, part = "permissions"
        PROVE  Privacy!OnlyTheAskedChanges
    <2>1. CASE Privacy!PermissionsNext
      <3>1. C!Privacy!OnlyTheAskedChanges
        BY <1>1, <2>1, PrivacyNextSame, C!PrivacyGoesOn DEF PrivacyHolds
      <3>2. QED
        BY Zenon, <3>1
        DEF Privacy!OnlyTheAskedChanges, C!Privacy!OnlyTheAskedChanges, Privacy!Differ,
            C!Privacy!Differ, Privacy!AppliesChange, C!Privacy!AppliesChange,
            Privacy!ChangeSettles, C!Privacy!ChangeSettles, Privacy!PanelAfter,
            C!Privacy!PanelAfter, Privacy!Follows, C!Privacy!Follows, Privacy!NoChange,
            C!Privacy!NoChange, Privacy!Started, C!Privacy!Started, Privacy!Commanded,
            C!Privacy!Commanded, Privacy!Replaces, C!Privacy!Replaces, Privacy!CurrentRevision,
            C!Privacy!CurrentRevision, Privacy!Told, C!Privacy!Told
    <2>2. CASE UNCHANGED permissionsState
      BY <2>2 DEF permissionsState, Privacy!OnlyTheAskedChanges, Privacy!AppliesChange
    <2>3. QED
      BY <1>1, <2>1, <2>2, PrivacyRunsAlone
  <1>2. ASSUME GoalHolds, [ClientsNext]_allVars, part = "goals"
        PROVE  Goal!NothingIsOverwritten
    <2>1. CASE Goal!GoalsNext
      <3>1. C!Goal!NothingIsOverwritten
        BY <1>2, <2>1, GoalNextSame, C!GoalGoesOn DEF GoalHolds
      <3>2. Goal!OrderSettles => C!Goal!OrderSettles
        BY GoalOperatorsSame, Zenon DEF Goal!OrderSettles, C!Goal!OrderSettles, Goal!NoOrder,
           C!Goal!NoOrder
      <3>3. QED
        BY Zenon, <3>1, <3>2 DEF C!Goal!NothingIsOverwritten, Goal!NothingIsOverwritten,
           C!Goal!Undoes, Goal!Undoes, C!Goal!UndoIsExact, Goal!UndoIsExact, C!Goal!Surfaces,
           Goal!Surfaces
    <2>2. CASE UNCHANGED goalsState
      BY <2>2 DEF goalsState, Goal!NothingIsOverwritten, Goal!Undoes
    <2>3. QED
      BY <1>2, <2>1, <2>2, GoalRunsAlone
  <1>3. PrivacyHolds /\ GoalHolds /\ [ClientsNext]_allVars => [Asked]_allVars
    BY <1>1, <1>2
  <1>4. QED
    BY <1>3, PrivacyInvariant, GoalInvariant, PTL DEF ClientsSpec, OnlyTheAskedChanges
-----------------------------------------------------------------------------
(* The panels that follow a revision (PartsProofs). *)


LEMMA ConnectionsRunsAlone ==
    ASSUME [ClientsNext]_allVars, part = "connections"
    PROVE  Connections!ConnectionsNext \/ UNCHANGED connectionsState
  BY DEF ClientsNext, allVars, SurfaceRuns, NativeRuns, PopupRuns, LinkRuns, HomeRuns,
         UpdatesRuns, LibraryRuns, ContextRuns, WorkflowRuns, ConnectionsRuns, CalendarRuns,
         MailRuns, CapabilitiesRuns, SpeechRuns, SetupRuns, GuideRuns, PrivacyRuns, GoalRuns

LEMMA ConnectionsInitSame == Connections!ConnectionsInit => P!Connections!ConnectionsInit
  BY Zenon DEF Connections!ConnectionsInit, P!Connections!ConnectionsInit, Connections!NoWrite,
         P!Connections!NoWrite, Connections!NotLoaded, P!Connections!NotLoaded,
         Connections!NoRead, P!Connections!NoRead, Connections!Reads, P!Connections!Reads

LEMMA ConnectionsNextSame == Connections!ConnectionsNext => P!Connections!ConnectionsNext
  BY Zenon DEF Connections!ConnectionsNext, P!Connections!ConnectionsNext,
         Connections!ElsewhereAsks, P!Connections!ElsewhereAsks, Connections!Current,
         P!Connections!Current, Connections!Fingerprint, P!Connections!Fingerprint,
         Connections!ElsewhereChanges, P!Connections!ElsewhereChanges, Connections!Touch,
         P!Connections!Touch, Connections!Moves, P!Connections!Moves, Connections!Rendered,
         P!Connections!Rendered, Connections!Chosen, P!Connections!Chosen, Connections!Listed,
         P!Connections!Listed, Connections!Loaded, P!Connections!Loaded, Connections!NotLoaded,
         P!Connections!NotLoaded, Connections!View, P!Connections!View, Connections!Items,
         P!Connections!Items, Connections!Adds, P!Connections!Adds, Connections!Sends,
         P!Connections!Sends, Connections!Writing, P!Connections!Writing, Connections!UsesMcp,
         P!Connections!UsesMcp, Connections!Switches, P!Connections!Switches, Connections!Rows,
         P!Connections!Rows, Connections!SelectsRow, P!Connections!SelectsRow,
         Connections!WriteSettles, P!Connections!WriteSettles, Connections!NoWrite,
         P!Connections!NoWrite, Connections!MayRead, P!Connections!MayRead,
         Connections!NoRequest, P!Connections!NoRequest, Connections!Reads, P!Connections!Reads,
         Connections!Accepted, P!Connections!Accepted, Connections!Released,
         P!Connections!Released, Connections!WriteServed, P!Connections!WriteServed,
         Connections!Applied, P!Connections!Applied, Connections!NeedsSetup,
         P!Connections!NeedsSetup, Connections!Shows, P!Connections!Shows, Connections!Permitted,
         P!Connections!Permitted, Connections!ReadSettles, P!Connections!ReadSettles,
         Connections!NoRead, P!Connections!NoRead, Connections!ReadServed,
         P!Connections!ReadServed, Connections!Rereads, P!Connections!Rereads

LEMMA CapabilitiesRunsAlone ==
    ASSUME [ClientsNext]_allVars, part = "capabilities"
    PROVE  Capabilities!CapabilitiesNext \/ UNCHANGED capabilitiesState
  BY DEF ClientsNext, allVars, SurfaceRuns, NativeRuns, PopupRuns, LinkRuns, HomeRuns,
         UpdatesRuns, LibraryRuns, ContextRuns, WorkflowRuns, ConnectionsRuns, CalendarRuns,
         MailRuns, CapabilitiesRuns, SpeechRuns, SetupRuns, GuideRuns, PrivacyRuns, GoalRuns

LEMMA CapabilitiesInitSame == Capabilities!CapabilitiesInit => P!Capabilities!CapabilitiesInit
  BY Zenon DEF Capabilities!CapabilitiesInit, P!Capabilities!CapabilitiesInit,
         Capabilities!NoPut, P!Capabilities!NoPut, Capabilities!Sent,
         P!Capabilities!Sent, Capabilities!Unread, P!Capabilities!Unread,
         Capabilities!Everything, P!Capabilities!Everything

LEMMA CapabilitiesNextSame == Capabilities!CapabilitiesNext => P!Capabilities!CapabilitiesNext
  BY Zenon DEF Capabilities!CapabilitiesNext, P!Capabilities!CapabilitiesNext,
         Capabilities!OthersSwitch, P!Capabilities!OthersSwitch, Capabilities!With,
         P!Capabilities!With, Capabilities!Everything, P!Capabilities!Everything,
         Capabilities!Turn, P!Capabilities!Turn, Capabilities!GetSettles,
         P!Capabilities!GetSettles, Capabilities!NoGet, P!Capabilities!NoGet,
         Capabilities!Unread, P!Capabilities!Unread, Capabilities!GetIsServed,
         P!Capabilities!GetIsServed, Capabilities!Listed, P!Capabilities!Listed,
         Capabilities!ConflictSettles, P!Capabilities!ConflictSettles,
         Capabilities!NoPut, P!Capabilities!NoPut, Capabilities!PutSettles,
         P!Capabilities!PutSettles, Capabilities!Controlled, P!Capabilities!Controlled,
         Capabilities!Taking, P!Capabilities!Taking, Capabilities!Fitting,
         P!Capabilities!Fitting, Capabilities!LeavesList, P!Capabilities!LeavesList,
         Capabilities!Switches, P!Capabilities!Switches, Capabilities!ReadAfterPost,
         P!Capabilities!ReadAfterPost, Capabilities!Switchable,
         P!Capabilities!Switchable, Capabilities!PicksScope, P!Capabilities!PicksScope,
         Capabilities!Refreshes, P!Capabilities!Refreshes, Capabilities!Sent,
         P!Capabilities!Sent

LEMMA MailRunsAlone ==
    ASSUME [ClientsNext]_allVars, part = "mail"
    PROVE  Mail!MailNext \/ UNCHANGED mailState
  BY DEF ClientsNext, allVars, SurfaceRuns, NativeRuns, PopupRuns, LinkRuns, HomeRuns,
         UpdatesRuns, LibraryRuns, ContextRuns, WorkflowRuns, ConnectionsRuns, CalendarRuns,
         MailRuns, CapabilitiesRuns, SpeechRuns, SetupRuns, GuideRuns, PrivacyRuns, GoalRuns

LEMMA MailInitSame == Mail!MailInit => P!Mail!MailInit
  BY Zenon DEF Mail!MailInit, P!Mail!MailInit, Mail!NoPost, P!Mail!NoPost, Mail!NoMail,
         P!Mail!NoMail, Mail!NotFetching, P!Mail!NotFetching, Mail!Fetches, P!Mail!Fetches

LEMMA MailNextSame == Mail!MailNext => P!Mail!MailNext
  BY Zenon DEF Mail!MailNext, P!Mail!MailNext, Mail!MailChanges, P!Mail!MailChanges,
         Mail!Changed, P!Mail!Changed, Mail!Moved, P!Mail!Moved, Mail!MailVerbs,
         P!Mail!MailVerbs, Mail!Moves1, P!Mail!Moves1, Mail!SignInGoesOn, P!Mail!SignInGoesOn,
         Mail!PostServed, P!Mail!PostServed, Mail!Broken, P!Mail!Broken, Mail!Served,
         P!Mail!Served, Mail!MailClicks, P!Mail!MailClicks, Mail!Consenting, P!Mail!Consenting,
         Mail!NoMail, P!Mail!NoMail, Mail!PostSettles, P!Mail!PostSettles, Mail!NoPost,
         P!Mail!NoPost, Mail!Taken, P!Mail!Taken, Mail!Freed, P!Mail!Freed, Mail!MailCommands,
         P!Mail!MailCommands, Mail!MailOffers, P!Mail!MailOffers, Mail!FetchSettles,
         P!Mail!FetchSettles, Mail!NotFetching, P!Mail!NotFetching, Mail!FetchServed,
         P!Mail!FetchServed, Mail!Fetches, P!Mail!Fetches, Mail!MailPolls, P!Mail!MailPolls,
         Mail!Fetch, P!Mail!Fetch, Mail!Fetching, P!Mail!Fetching

LEMMA LibraryRunsAlone ==
    ASSUME [ClientsNext]_allVars, part = "library"
    PROVE  Library!LibNext \/ UNCHANGED libraryState
  BY DEF ClientsNext, allVars, SurfaceRuns, NativeRuns, PopupRuns, LinkRuns, HomeRuns,
         UpdatesRuns, LibraryRuns, ContextRuns, WorkflowRuns, ConnectionsRuns, CalendarRuns,
         MailRuns, CapabilitiesRuns, SpeechRuns, SetupRuns, GuideRuns, PrivacyRuns, GoalRuns

LEMMA LibraryInitSame == Library!LibInit => P!Library!LibInit
  BY Zenon DEF Library!LibInit, P!Library!LibInit, Library!NoLibReq,
         P!Library!NoLibReq, Library!NoCatalog, P!Library!NoCatalog, Library!NoCommand,
         P!Library!NoCommand, Library!Slots, P!Library!Slots, Library!NoEdit,
         P!Library!NoEdit

LEMMA LibraryNextSame == Library!LibNext => P!Library!LibNext
  BY Zenon DEF Library!LibNext, P!Library!LibNext, Library!MayManage,
         P!Library!MayManage, Library!Spend, P!Library!Spend, Library!OtherCommands,
         P!Library!OtherCommands, Library!Applied, P!Library!Applied, Library!Renames,
         P!Library!Renames, Library!Target, P!Library!Target, Library!FreshProjects,
         P!Library!FreshProjects, Library!Update, P!Library!Update, Library!Rows,
         P!Library!Rows, Library!FreshChats, P!Library!FreshChats, Library!Exists,
         P!Library!Exists, Library!Allowed, P!Library!Allowed, Library!ProjectOpen,
         P!Library!ProjectOpen, Library!Command, P!Library!Command, Library!LibBreaks,
         P!Library!LibBreaks, Library!Slots, P!Library!Slots, Library!LibServes,
         P!Library!LibServes, Library!Clicks, P!Library!Clicks, Library!NoEdit,
         P!Library!NoEdit, Library!OpenProjects, P!Library!OpenProjects,
         Library!Selected, P!Library!Selected, Library!Listed, P!Library!Listed,
         Library!Snapshot, P!Library!Snapshot, Library!Takes, P!Library!Takes,
         Library!LibRefreshes, P!Library!LibRefreshes, Library!Asked, P!Library!Asked,
         Library!NoLibReq, P!Library!NoLibReq, Library!NoCatalog, P!Library!NoCatalog,
         Library!NoCommand, P!Library!NoCommand, Library!CommandSettles,
         P!Library!CommandSettles, Library!Followed, P!Library!Followed, Library!Done,
         P!Library!Done, Library!ReadSettles, P!Library!ReadSettles, Library!Commands,
         P!Library!Commands, Library!Basis, P!Library!Basis, Library!Offers,
         P!Library!Offers, Library!EditorOffers, P!Library!EditorOffers,
         Library!ProjectOffers, P!Library!ProjectOffers, Library!MenuOffers,
         P!Library!MenuOffers, Library!RowOffers, P!Library!RowOffers,
         Library!HeaderOffers, P!Library!HeaderOffers, Library!Loaded,
         P!Library!Loaded

ConnectionsHolds == part = "connections" => P!ConnectionsInv
CapabilitiesHolds == part = "capabilities" => P!CapabilitiesInv
MailHolds == part = "mail" => P!MailInv
LibraryHolds == part = "library" => P!LibraryInv

\* The connections: no command is based on a list newer than the one on screen, and the
\* panel of an app is that of the item chosen.
THEOREM ConnectionsInvariant == ClientsSpec => []ConnectionsHolds
  <1>1. ClientsInit => ConnectionsHolds
    BY ConnectionsInitSame, P!ConnectionsBegin DEF ClientsInit, ConnectionsHolds
  <1>2. ConnectionsHolds /\ [ClientsNext]_allVars => ConnectionsHolds'
    <2>1. SUFFICES ASSUME P!ConnectionsInv, part = "connections", [ClientsNext]_allVars
                   PROVE  P!ConnectionsInv'
      BY PartStays DEF ConnectionsHolds
    <2>2. CASE P!Connections!ConnectionsNext
      BY <2>1, <2>2, P!ConnectionsGoOn
    <2>3. CASE UNCHANGED connectionsState
      BY <2>1, <2>3, P!ConnectionsStandStill DEF connectionsState
    <2>4. QED
      BY <2>1, <2>2, <2>3, ConnectionsRunsAlone, ConnectionsNextSame
  <1>3. QED
    BY <1>1, <1>2, PTL DEF ClientsSpec

\* The capabilities: no read is under way during a change, so an answer is no older than
\* the list on screen, which is no newer than the service.
THEOREM CapabilitiesInvariant == ClientsSpec => []CapabilitiesHolds
  <1>1. ClientsInit => CapabilitiesHolds
    BY CapabilitiesInitSame, P!CapabilitiesBegin DEF ClientsInit, CapabilitiesHolds
  <1>2. CapabilitiesHolds /\ [ClientsNext]_allVars => CapabilitiesHolds'
    <2>1. SUFFICES ASSUME P!CapabilitiesInv, part = "capabilities", [ClientsNext]_allVars
                   PROVE  P!CapabilitiesInv'
      BY PartStays DEF CapabilitiesHolds
    <2>2. CASE P!Capabilities!CapabilitiesNext
      BY <2>1, <2>2, P!CapabilitiesGoOn
    <2>3. CASE UNCHANGED capabilitiesState
      BY <2>1, <2>3, P!CapabilitiesStandStill DEF capabilitiesState
    <2>4. QED
      BY <2>1, <2>2, <2>3, CapabilitiesRunsAlone, CapabilitiesNextSame
  <1>3. QED
    BY <1>1, <1>2, PTL DEF ClientsSpec

\* The inboxes: what is read and shown is a state the service can have answered, and only an
\* inbox is switched on or off.
THEOREM MailInvariant == ClientsSpec => []MailHolds
  <1>1. ClientsInit => MailHolds
    BY MailInitSame, P!MailBegins DEF ClientsInit, MailHolds
  <1>2. MailHolds /\ [ClientsNext]_allVars => MailHolds'
    <2>1. SUFFICES ASSUME P!MailInv, part = "mail", [ClientsNext]_allVars
                   PROVE  P!MailInv'
      BY PartStays DEF MailHolds
    <2>2. CASE P!Mail!MailNext
      BY <2>1, <2>2, P!MailGoesOn
    <2>3. CASE UNCHANGED mailState
      BY <2>1, <2>3, P!MailStandsStill DEF mailState
    <2>4. QED
      BY <2>1, <2>2, <2>3, MailRunsAlone, MailNextSame
  <1>3. QED
    BY <1>1, <1>2, PTL DEF ClientsSpec

\* The catalog of chats: a revision stands for one catalog, in the service, in the page and
\* in every request and answer under way.
THEOREM LibraryInvariant == ClientsSpec => []LibraryHolds
  <1>1. ClientsInit => LibraryHolds
    BY LibraryInitSame, P!LibraryBegins DEF ClientsInit, LibraryHolds
  <1>2. LibraryHolds /\ [ClientsNext]_allVars => LibraryHolds'
    <2>1. SUFFICES ASSUME P!LibraryInv, part = "library", [ClientsNext]_allVars
                   PROVE  P!LibraryInv'
      BY PartStays DEF LibraryHolds
    <2>2. CASE P!Library!LibNext
      BY <2>1, <2>2, P!LibraryGoesOn
    <2>3. CASE UNCHANGED libraryState
      BY <2>1, <2>3, P!LibraryStandsStill DEF libraryState
    <2>4. QED
      BY <2>1, <2>2, <2>3, LibraryRunsAlone, LibraryNextSame
  <1>3. QED
    BY <1>1, <1>2, PTL DEF ClientsSpec

\* Whatever order reads, commands and snapshots are answered in, no panel shows an older
\* state than it has shown, and a command that changes the catalog was based on the catalog
\* of the service (web/chat/library.js, web/connections, web/capabilities): for any
\* number of chats, apps, inboxes, skills and requests.
THEOREM PanelsOnlyGoOn == ClientsSpec => PanelsNeverGoBack
  <1> DEFINE GoOn == /\ part = "library" => Library!FollowsTheCatalog
                     /\ part = "connections" => Connections!ConnectionsNeverGoBack
                     /\ part = "mail" => Mail!MailNeverGoesBack
                     /\ part = "capabilities" => Capabilities!CapabilitiesNeverGoBack
  <1>1. ASSUME ConnectionsHolds, [ClientsNext]_allVars, part = "connections"
        PROVE  Connections!ConnectionsNeverGoBack
    <2>1. P!Connections!ConnectionsNeverGoBack
      BY <1>1, ConnectionsRunsAlone, ConnectionsNextSame, P!ConnectionsGoOn, P!ConnectionsStandStill
      DEF ConnectionsHolds, connectionsState
    <2>2. QED
      BY Zenon, <2>1 DEF P!Connections!ConnectionsNeverGoBack,
           Connections!ConnectionsNeverGoBack
  <1>2. ASSUME CapabilitiesHolds, [ClientsNext]_allVars, part = "capabilities"
        PROVE  Capabilities!CapabilitiesNeverGoBack
    <2>1. P!Capabilities!CapabilitiesNeverGoBack
      BY <1>2, CapabilitiesRunsAlone, CapabilitiesNextSame, P!CapabilitiesGoOn, P!CapabilitiesStandStill
      DEF CapabilitiesHolds, capabilitiesState
    <2>2. QED
      BY Zenon, <2>1 DEF P!Capabilities!CapabilitiesNeverGoBack,
           Capabilities!CapabilitiesNeverGoBack
  <1>3. ASSUME MailHolds, [ClientsNext]_allVars, part = "mail"
        PROVE  Mail!MailNeverGoesBack
    <2>1. P!Mail!MailNeverGoesBack
      BY <1>3, MailRunsAlone, MailNextSame, P!MailGoesOn, P!MailStandsStill
      DEF MailHolds, mailState
    <2>2. QED
      BY Zenon, <2>1 DEF P!Mail!MailNeverGoesBack, Mail!MailNeverGoesBack
  <1>4. ASSUME LibraryHolds, [ClientsNext]_allVars, part = "library"
        PROVE  Library!FollowsTheCatalog
    <2>1. P!Library!FollowsTheCatalog
      BY <1>4, LibraryRunsAlone, LibraryNextSame, P!LibraryGoesOn, P!LibraryStandsStill
      DEF LibraryHolds, libraryState
    <2>2. QED
      BY Zenon, <2>1 DEF P!Library!FollowsTheCatalog, Library!FollowsTheCatalog,
           P!Library!LibServes, Library!LibServes, P!Library!Applied, Library!Applied,
           P!Library!Renames, Library!Renames, P!Library!Target, Library!Target,
           P!Library!FreshProjects, Library!FreshProjects, P!Library!Update,
           Library!Update, P!Library!Rows, Library!Rows, P!Library!FreshChats,
           Library!FreshChats, P!Library!Exists, Library!Exists, P!Library!Allowed,
           Library!Allowed, P!Library!ProjectOpen, Library!ProjectOpen, P!Library!Slots,
           Library!Slots
  <1>5. ConnectionsHolds /\ CapabilitiesHolds /\ MailHolds /\ LibraryHolds
          /\ [ClientsNext]_allVars => [GoOn]_allVars
    BY <1>1, <1>2, <1>3, <1>4
  <1>6. QED
    BY <1>5, ConnectionsInvariant, CapabilitiesInvariant, MailInvariant, LibraryInvariant, PTL
    DEF ClientsSpec, PanelsNeverGoBack
-----------------------------------------------------------------------------
(* The card of the running workflow (PartsProofs). *)

LEMMA WorkflowRunsAlone ==
    ASSUME [ClientsNext]_allVars, part = "workflow"
    PROVE  Workflow!WorkflowNext \/ UNCHANGED workflowState
  BY DEF ClientsNext, allVars, SurfaceRuns, NativeRuns, PopupRuns, LinkRuns, HomeRuns,
         UpdatesRuns, LibraryRuns, ContextRuns, WorkflowRuns, ConnectionsRuns, CalendarRuns,
         MailRuns, CapabilitiesRuns, SpeechRuns, SetupRuns, GuideRuns, PrivacyRuns, GoalRuns

LEMMA WorkflowInitSame == Workflow!WorkflowInit => P!Workflow!WorkflowInit
  BY Zenon DEF Workflow!WorkflowInit, P!Workflow!WorkflowInit, Workflow!EmptyCard,
         P!Workflow!EmptyCard, Workflow!Idle, P!Workflow!Idle

LEMMA WorkflowNextSame == Workflow!WorkflowNext => P!Workflow!WorkflowNext
  BY Zenon DEF Workflow!WorkflowNext, P!Workflow!WorkflowNext, Workflow!OpensChat,
         P!Workflow!OpensChat, Workflow!RunGoesOn, P!Workflow!RunGoesOn,
         Workflow!RunStarts, P!Workflow!RunStarts, Workflow!ReloadsCard,
         P!Workflow!ReloadsCard, Workflow!FromReceipts, P!Workflow!FromReceipts,
         Workflow!EmptyCard, P!Workflow!EmptyCard, Workflow!Idle, P!Workflow!Idle,
         Workflow!Counted, P!Workflow!Counted, Workflow!StopAnswers,
         P!Workflow!StopAnswers, Workflow!StopsRun, P!Workflow!StopsRun,
         Workflow!OffersStop, P!Workflow!OffersStop, Workflow!Expands,
         P!Workflow!Expands, Workflow!OffersDetails, P!Workflow!OffersDetails,
         Workflow!Dismisses, P!Workflow!Dismisses, Workflow!Cleared,
         P!Workflow!Cleared, Workflow!Remembered, P!Workflow!Remembered,
         Workflow!Latest, P!Workflow!Latest, Workflow!Only,
         P!Workflow!Only, Workflow!Range, P!Workflow!Range, Workflow!OffersDismiss,
         P!Workflow!OffersDismiss, Workflow!Ended, P!Workflow!Ended,
         Workflow!CardUpdates, P!Workflow!CardUpdates, Workflow!Placed,
         P!Workflow!Placed, Workflow!Drawn, P!Workflow!Drawn

WorkflowHolds == part = "workflow" => P!WorkflowInv

\* The card: its receipts, in the page and in storage, are the last dismissals the person
\* made, a run has one place, and one that was waved away is not running.
THEOREM WorkflowInvariant == ClientsSpec => []WorkflowHolds
  <1>1. ClientsInit => WorkflowHolds
    BY PartsAreBounded, WorkflowInitSame, P!WorkflowBegins
    DEF ClientsInit, WorkflowHolds, PartConstants
  <1>2. WorkflowHolds /\ [ClientsNext]_allVars => WorkflowHolds'
    <2>1. SUFFICES ASSUME P!WorkflowInv, part = "workflow", [ClientsNext]_allVars
                   PROVE  P!WorkflowInv'
      BY PartStays DEF WorkflowHolds
    <2>2. CASE P!Workflow!WorkflowNext
      BY <2>1, <2>2, PartsAreBounded, P!WorkflowGoesOn DEF PartConstants
    <2>3. CASE UNCHANGED workflowState
      BY <2>1, <2>3, P!WorkflowStandsStill DEF workflowState
    <2>4. QED
      BY <2>1, <2>2, <2>3, WorkflowRunsAlone, WorkflowNextSame
  <1>3. QED
    BY <1>1, <1>2, PTL DEF ClientsSpec

\* A workflow the person has waved away is not shown again, although snapshots go on
\* arriving, the chat is switched, the page reloads and storage may refuse the receipt
\* (web/chat/workflow-progress.js), for any number of chats and runs and any size of the
\* list of receipts.
THEOREM DismissalsHold == ClientsSpec => []DismissedStaysAway
  <1>1. WorkflowHolds => DismissedStaysAway
    <2>1. WorkflowHolds /\ part = "workflow" => P!Workflow!DismissedStaysAway
      BY P!Dismissed, PartsAreBounded DEF WorkflowHolds, PartConstants
    <2>2. QED
      BY Zenon, <2>1 DEF DismissedStaysAway, P!Workflow!DismissedStaysAway, Workflow!DismissedStaysAway,
         P!Workflow!Latest, Workflow!Latest, P!Workflow!Range, Workflow!Range
  <1>2. QED
    BY <1>1, WorkflowInvariant, PTL
-----------------------------------------------------------------------------
(* How a delivered check-in surfaces (PartsProofs). *)

LEMMA SurfaceRunsAlone ==
    ASSUME [ClientsNext]_allVars, part = "surface"
    PROVE  Surface!SurfaceNext \/ UNCHANGED surfaceState
  BY DEF ClientsNext, allVars, SurfaceRuns, NativeRuns, PopupRuns, LinkRuns, HomeRuns,
         UpdatesRuns, LibraryRuns, ContextRuns, WorkflowRuns, ConnectionsRuns, CalendarRuns,
         MailRuns, CapabilitiesRuns, SpeechRuns, SetupRuns, GuideRuns, PrivacyRuns, GoalRuns

LEMMA SurfaceInitSame == Surface!SurfaceInit => P!Surface!SurfaceInit
  BY Zenon DEF Surface!SurfaceInit, P!Surface!SurfaceInit, Surface!Events,
         P!Surface!Events, Surface!NoOver, P!Surface!NoOver, Surface!NeverSaved,
         P!Surface!NeverSaved, Surface!NoPoll, P!Surface!NoPoll

LEMMA SurfaceNextSame == Surface!SurfaceNext => P!Surface!SurfaceNext
  BY Zenon DEF Surface!serviceVars, P!Surface!serviceVars, Surface!Only, P!Surface!Only,
         Surface!Cardinality, P!Surface!Cardinality,
         Surface!SurfaceNext, P!Surface!SurfaceNext, Surface!Relaunches,
         P!Surface!Relaunches, Surface!NoPoll, P!Surface!NoPoll, Surface!NoOver,
         P!Surface!NoOver, Surface!NeverSaved, P!Surface!NeverSaved,
         Surface!OverlayLoads, P!Surface!OverlayLoads, Surface!ClosesOverlay,
         P!Surface!ClosesOverlay, Surface!OverlayEnds, P!Surface!OverlayEnds,
         Surface!ShowsWindow, P!Surface!ShowsWindow, Surface!OverlayReady,
         P!Surface!OverlayReady, Surface!PreviewOverlay, P!Surface!PreviewOverlay,
         Surface!Presents, P!Surface!Presents, Surface!CanPresent,
         P!Surface!CanPresent, Surface!AlertEnds, P!Surface!AlertEnds,
         Surface!AlertTested, P!Surface!AlertTested, Surface!None, P!Surface!None,
         Surface!FocusChanges, P!Surface!FocusChanges, Surface!SetsAlerts,
         P!Surface!SetsAlerts, Surface!PollInspects, P!Surface!PollInspects,
         Surface!Keys, P!Surface!Keys, Surface!Events, P!Surface!Events,
         Surface!Inspected, P!Surface!Inspected, Surface!Marked, P!Surface!Marked,
         Surface!Newest, P!Surface!Newest, Surface!Fresh, P!Surface!Fresh,
         Surface!Baselines, P!Surface!Baselines, Surface!Announced,
         P!Surface!Announced, Surface!PollFails, P!Surface!PollFails,
         Surface!PollBegins, P!Surface!PollBegins, Surface!EligibilityEnds,
         P!Surface!EligibilityEnds, Surface!Delivers, P!Surface!Delivers,
         Surface!Delivered, P!Surface!Delivered

SurfaceHolds == part = "surface" => P!SurfaceInv

\* The announcing of check-ins: whatever was announced, or was there when a policy began to
\* watch its conversation, is in every later poll of that conversation and seen by the
\* policy that watches it.
THEOREM SurfaceInvariant ==
    ASSUME MaxEvents <= MaxSeen
    PROVE  ClientsSpec => []SurfaceHolds
  <1> P!SurfaceBounds
    BY PartsAreBounded DEF PartConstants, P!SurfaceBounds
  <1>1. ClientsInit => SurfaceHolds
    BY SurfaceInitSame, P!SurfaceBegins DEF ClientsInit, SurfaceHolds
  <1>2. SurfaceHolds /\ [ClientsNext]_allVars => SurfaceHolds'
    <2>1. SUFFICES ASSUME P!SurfaceInv, part = "surface", [ClientsNext]_allVars
                   PROVE  P!SurfaceInv'
      BY PartStays DEF SurfaceHolds
    <2>2. CASE P!Surface!SurfaceNext
      BY <2>1, <2>2, P!SurfaceGoesOn
    <2>3. CASE UNCHANGED surfaceState
      BY <2>1, <2>3, P!SurfaceStandsStill DEF surfaceState
    <2>4. QED
      BY <2>1, <2>2, <2>3, SurfaceRunsAlone, SurfaceNextSame
  <1>3. QED
    BY <1>1, <1>2, PTL DEF ClientsSpec

\* No check-in is announced twice, what a policy finds when it begins to watch a
\* conversation is not announced at all, none lies over the window that has the focus, and
\* alerts that were turned off leave nothing on screen (desktop/electron/notifications.cjs,
\* main.cjs): for any number of conversations, polls, restarts and unreadable or unwritable
\* files, while no more check-ins are delivered than a policy remembers.
THEOREM CheckInsOnce ==
    ASSUME MaxEvents <= MaxSeen
    PROVE  ClientsSpec => CheckInsSurfaceOnce
  <1> DEFINE Safe == part = "surface" =>
                       Surface!ShownOnce /\ Surface!FocusIsQuiet /\ Surface!OffIsQuiet
             Quiet == part = "surface" => Surface!OldIsQuiet
  <1>1. SurfaceHolds => Safe
    <2>1. SurfaceHolds /\ part = "surface" =>
            P!Surface!ShownOnce /\ P!Surface!FocusIsQuiet /\ P!Surface!OffIsQuiet
      BY P!SurfaceSafe DEF SurfaceHolds
    <2>2. QED
      BY Zenon, <2>1 DEF P!Surface!ShownOnce, Surface!ShownOnce, P!Surface!Events,
         Surface!Events, P!Surface!FocusIsQuiet, Surface!FocusIsQuiet,
         P!Surface!OffIsQuiet, Surface!OffIsQuiet
  <1>2. SurfaceHolds /\ [ClientsNext]_allVars => [Quiet]_allVars
    <2>1. SurfaceHolds /\ [ClientsNext]_allVars /\ part = "surface" => P!Surface!OldIsQuiet
      <3>1. P!SurfaceBounds
        BY PartsAreBounded DEF PartConstants, P!SurfaceBounds
      <3>2. QED
        BY <3>1, SurfaceRunsAlone, SurfaceNextSame, P!SurfaceGoesOn, P!SurfaceStandsStill
        DEF SurfaceHolds, surfaceState
    <2>2. QED
      BY Zenon, <2>1 DEF P!Surface!OldIsQuiet, Surface!OldIsQuiet, P!Surface!Events,
         Surface!Events
  <1>3. ClientsSpec => []Safe
    BY <1>1, SurfaceInvariant, PTL
  <1>4. ClientsSpec => [][Quiet]_allVars
    BY <1>2, SurfaceInvariant, PTL DEF ClientsSpec
  <1>5. QED
    BY <1>3, <1>4 DEF CheckInsSurfaceOnce

-----------------------------------------------------------------------------
(* What the window of a chat holds (PartsProofs). *)

LEMMA ContextRunsAlone ==
    ASSUME [ClientsNext]_allVars, part = "context"
    PROVE  Context!ContextNext \/ UNCHANGED contextState
  BY DEF ClientsNext, allVars, SurfaceRuns, NativeRuns, PopupRuns, LinkRuns, HomeRuns,
         UpdatesRuns, LibraryRuns, ContextRuns, WorkflowRuns, ConnectionsRuns, CalendarRuns,
         MailRuns, CapabilitiesRuns, SpeechRuns, SetupRuns, GuideRuns, PrivacyRuns, GoalRuns

LEMMA ContextInitSame == Context!ContextInit => P!Context!ContextInit
  <1> DEFINE Shape(N, u) == [window : N \cup {u}, used : N \cup {u}, threshold : N \cup {u},
                             auto : BOOLEAN,
                             categories : {<<>>} \cup {<<a>> : a \in N} \cup
                                          {<<a, b, c>> : a, b, c \in N}]
  <1>1. Context!Tokens = P!Context!Tokens /\ Context!Unknown = P!Context!Unknown
    BY DEF Context!Tokens, P!Context!Tokens, Context!Unknown, P!Context!Unknown
  <1>2. /\ Context!Measures = Shape(Context!Tokens, Context!Unknown)
        /\ P!Context!Measures = Shape(P!Context!Tokens, P!Context!Unknown)
    BY DEF Context!Measures, P!Context!Measures
  <1> HIDE DEF Shape
  <1>3. Context!Measures = P!Context!Measures
    BY <1>1, <1>2
  <1>4. QED
    BY Zenon, <1>3 DEF Context!ContextInit, P!Context!ContextInit

LEMMA ContextNextSame == Context!ContextNext => P!Context!ContextNext
  BY Zenon DEF Context!ContextNext, P!Context!ContextNext, Context!ContextUpdates,
         P!Context!ContextUpdates, Context!Statuses, P!Context!Statuses, Context!Asks,
         P!Context!Asks, Context!SummarizeSettles, P!Context!SummarizeSettles,
         Context!Summarizes, P!Context!Summarizes, Context!CanSummarize,
         P!Context!CanSummarize, Context!OpensDetail, P!Context!OpensDetail

ContextHolds == part = "context" => P!ContextInv

\* The numbers of the service are numbers, or unknown.
THEOREM ContextInvariant == ClientsSpec => []ContextHolds
  <1> P!ContextBounds
    BY PartsAreBounded DEF PartConstants, P!ContextBounds
  <1>1. ClientsInit => ContextHolds
    BY ContextInitSame, P!ContextBegins DEF ClientsInit, ContextHolds
  <1>2. ContextHolds /\ [ClientsNext]_allVars => ContextHolds'
    <2>1. SUFFICES ASSUME P!ContextInv, part = "context", [ClientsNext]_allVars
                   PROVE  P!ContextInv'
      BY PartStays DEF ContextHolds
    <2>2. CASE P!Context!ContextNext
      BY <2>1, <2>2, P!ContextGoesOn
    <2>3. CASE UNCHANGED contextState
      BY <2>1, <2>3, P!ContextStandsStill DEF contextState, P!Context!contextVars
    <2>4. QED
      BY <2>1, <2>2, <2>3, ContextRunsAlone, ContextNextSame
  <1>3. QED
    BY <1>1, <1>2, PTL DEF ClientsSpec

\* The segments of the ring cover exactly the window, or what is used when that is more;
\* none is empty, the rounded categories give exactly what is used, and what is past the
\* threshold is not called available (web/chat/context.js): for every measurement the
\* service can send, of any number of tokens.
THEOREM BreakdownAddsUp == ClientsSpec => []BreakdownFits
  <1>1. ContextHolds => BreakdownFits
    <2>1. ContextHolds /\ part = "context" => P!Context!BreakdownFits
      <3>1. P!ContextBounds
        BY PartsAreBounded DEF PartConstants, P!ContextBounds
      <3>2. QED
        BY <3>1, P!ContextSafe DEF ContextHolds
    <2>2. P!Context!Facts(usage) = Context!Facts(usage)
      BY Zenon DEF P!Context!Facts, Context!Facts, P!Context!Unknown, Context!Unknown,
         P!Context!Least, Context!Least, P!Context!Only, Context!Only
    <2>3. \A s : P!Context!Total(s) = Context!Total(s)
      BY Zenon DEF P!Context!Total, Context!Total
    <2>4. \A f : P!Context!Fitted(f) = Context!Fitted(f)
      BY Zenon DEF P!Context!Fitted, Context!Fitted, P!Context!Total, Context!Total,
         P!Context!AtLeast0, Context!AtLeast0, P!Context!Least, Context!Least,
         P!Context!Round, Context!Round
    <2>5. \A f : /\ P!Context!Limit(f) = Context!Limit(f)
                 /\ P!Context!Available(f) = Context!Available(f)
                 /\ P!Context!Reserve(f) = Context!Reserve(f)
                 /\ P!Context!Known(f) <=> Context!Known(f)
      BY Zenon DEF P!Context!Limit, Context!Limit, P!Context!Unknown, Context!Unknown,
         P!Context!Available, Context!Available, P!Context!Reserve, Context!Reserve,
         P!Context!AtLeast0, Context!AtLeast0, P!Context!Greatest, Context!Greatest,
         P!Context!Known, Context!Known
    <2>6. \A f : P!Context!Breakdown(f) = Context!Breakdown(f)
      <3>1. \A s, S : P!Context!Only(s, S) = Context!Only(s, S)
        BY Zenon DEF P!Context!Only, Context!Only
      <3>2. QED
        BY <2>4, <2>5, <3>1 DEF P!Context!Breakdown, Context!Breakdown
    <2>7. \A a, b : P!Context!Greatest(a, b) = Context!Greatest(a, b)
      BY Zenon DEF P!Context!Greatest, Context!Greatest
    <2>8. P!Context!BreakdownFits => Context!BreakdownFits
      BY Zenon, <2>2, <2>3, <2>4, <2>5, <2>6, <2>7 DEF P!Context!BreakdownFits, Context!BreakdownFits
    <2>9. QED
      BY <2>1, <2>8 DEF BreakdownFits
  <1>2. QED
    BY <1>1, ContextInvariant, PTL

-----------------------------------------------------------------------------
(* What is announced on the page (PartsProofs). *)

LEMMA UpdatesRunsAlone ==
    ASSUME ClientsNext, part = "updates"
    PROVE  Updates!UpdatesNext
  BY DEF ClientsNext, SurfaceRuns, NativeRuns, PopupRuns, LinkRuns, HomeRuns,
         UpdatesRuns, LibraryRuns, ContextRuns, WorkflowRuns, ConnectionsRuns, CalendarRuns,
         MailRuns, CapabilitiesRuns, SpeechRuns, SetupRuns, GuideRuns, PrivacyRuns, GoalRuns

LEMMA UpdatesInitSame == Updates!UpdatesInit => P!Updates!UpdatesInit
  BY Zenon DEF Updates!Only, P!Updates!Only, Updates!Range, P!Updates!Range,
         Updates!UpdatesInit, P!Updates!UpdatesInit, Updates!Unread,
         P!Updates!Unread, Updates!NewCard, P!Updates!NewCard, Updates!NoItem,
         P!Updates!NoItem, Updates!NoFrame, P!Updates!NoFrame

LEMMA UpdatesOperatorsSame ==
    /\ \A k, v : Updates!Drawn(k, v) = P!Updates!Drawn(k, v)
    /\ \A k, v : Updates!Dismissed(k, v) = P!Updates!Dismissed(k, v)
    /\ \A v : Updates!Elsewhere(v) = P!Updates!Elsewhere(v)
    /\ \A k, X : Updates!Becomes(k, X) <=> P!Updates!Becomes(k, X)
  <1>1. \A s, n : Updates!Latest(s, n) = P!Updates!Latest(s, n)
    BY Zenon DEF Updates!Latest, P!Updates!Latest
  <1>2. \A s, i : Updates!Add(s, i) = P!Updates!Add(s, i)
    BY Zenon DEF Updates!Add, P!Updates!Add, Updates!Range, P!Updates!Range
  <1>3. \A X : Updates!Waiting(X) = P!Updates!Waiting(X)
    BY Zenon DEF Updates!Waiting, P!Updates!Waiting, Updates!Item, P!Updates!Item,
       Updates!Updates, P!Updates!Updates
  <1>4. \A s, X : Updates!Only(s, X) = P!Updates!Only(s, X)
    BY Zenon DEF Updates!Only, P!Updates!Only
  <1>5. \A k : Updates!Ids(k) = P!Updates!Ids(k)
    BY Zenon DEF Updates!Ids, P!Updates!Ids
  <1>6. \A k : Updates!Persisted(k) = P!Updates!Persisted(k)
    BY <1>1 DEF Updates!Persisted, P!Updates!Persisted
  <1>7. \A k, i : Updates!Marked(k, i) = P!Updates!Marked(k, i)
    BY <1>6, <1>1, <1>2 DEF Updates!Marked, P!Updates!Marked
  <1>8. \A k, i : Updates!Tombstoned(k, i) = P!Updates!Tombstoned(k, i)
    BY <1>6, <1>1, <1>2 DEF Updates!Tombstoned, P!Updates!Tombstoned
  <1>9. \A k, i : Updates!Forgotten(k, i) = P!Updates!Forgotten(k, i)
    BY <1>4, <1>3 DEF Updates!Forgotten, P!Updates!Forgotten, Updates!NoItem,
       P!Updates!NoItem
  <1>10. \A k, i, s : Updates!Became(k, i, s) = P!Updates!Became(k, i, s)
    BY Zenon DEF Updates!Became, P!Updates!Became
  <1>11. \A k, i, s, b : Updates!Enqueued(k, i, s, b) = P!Updates!Enqueued(k, i, s, b)
    BY <1>5, <1>1 DEF Updates!Enqueued, P!Updates!Enqueued, Updates!Range, P!Updates!Range
  <1>12. \A k, i, s, b : Updates!Told(k, i, s, b) = P!Updates!Told(k, i, s, b)
    BY <1>9, <1>7, <1>5, <1>10, <1>11 DEF Updates!Told, P!Updates!Told
  <1>13. \A k, f : Updates!Streamed(k, f) = P!Updates!Streamed(k, f)
    BY <1>9, <1>7, <1>5, <1>10, <1>11 DEF Updates!Streamed, P!Updates!Streamed,
       Updates!Status, P!Updates!Status, Updates!Range, P!Updates!Range
  <1>14. \A k, c, rows, f : Updates!Switched(k, c, rows, f) = P!Updates!Switched(k, c, rows, f)
    <2>1. Updates!NoItem = P!Updates!NoItem
      BY Zenon DEF Updates!NoItem, P!Updates!NoItem
    <2> SUFFICES ASSUME NEW k, NEW c, NEW rows, NEW f
                 PROVE  Updates!Switched(k, c, rows, f) = P!Updates!Switched(k, c, rows, f)
      OBVIOUS
    <2> DEFINE was == kept[c]
               n == [k EXCEPT !.convo = c, !.active = P!Updates!NoItem, !.queue = <<>>, !.kept = was,
                              !.seen = IF was.read THEN was.seen ELSE rows, !.gone = was.gone]
               p == IF was.read THEN n ELSE Updates!Persisted(n)
               q == IF was.read THEN n ELSE P!Updates!Persisted(n)
               m == IF f.status = "writing" THEN P!Updates!Enqueued(q, f.item, "writing", TRUE) ELSE q
    <2>2. P!Updates!Switched(k, c, rows, f) = m
      BY Zenon DEF P!Updates!Switched
    <2>3. Updates!Switched(k, c, rows, f)
            = IF f.status = "writing" THEN Updates!Enqueued(p, f.item, "writing", TRUE) ELSE p
      BY Zenon, <2>1 DEF Updates!Switched
    <2> HIDE DEF n, was
    <2>4. p = q
      BY <1>6
    <2> HIDE DEF p, q
    <2>5. QED
      BY <1>11, <2>2, <2>3, <2>4
  <1>15. \A k : Updates!Synchronized(k) = P!Updates!Synchronized(k)
    BY Zenon DEF Updates!Synchronized, P!Updates!Synchronized, Updates!Updates,
       P!Updates!Updates, Updates!Item, P!Updates!Item, Updates!NoItem, P!Updates!NoItem,
       Updates!Unread, P!Updates!Unread, Updates!Range, P!Updates!Range, Updates!Only,
       P!Updates!Only, Updates!Latest, P!Updates!Latest, Updates!Add, P!Updates!Add,
       Updates!Ids, P!Updates!Ids, Updates!Waiting, P!Updates!Waiting
  <1>16. \A k, v : Updates!Activated(k, v) = P!Updates!Activated(k, v)
    BY Zenon DEF Updates!Activated, P!Updates!Activated, Updates!NoItem, P!Updates!NoItem
  <1>17. \A c : Updates!First(c) <=> P!Updates!First(c)
    BY Zenon DEF Updates!First, P!Updates!First
  <1>18. \A k, v : Updates!Rendered(k, v) = P!Updates!Rendered(k, v)
    <2>1. Updates!NoItem = P!Updates!NoItem
      BY Zenon DEF Updates!NoItem, P!Updates!NoItem
    <2> SUFFICES ASSUME NEW k, NEW v
                 PROVE  Updates!Rendered(k, v) = P!Updates!Rendered(k, v)
      OBVIOUS
    <2> DEFINE marked == P!Updates!Marked(k, k.active.id)
    <2>2. Updates!Marked(k, k.active.id) = marked
      BY <1>7
    <2> HIDE DEF marked
    <2>3. QED
      BY Zenon, <2>1, <2>2 DEF Updates!Rendered, P!Updates!Rendered, marked
  <1>19. \A k, rows, s, b : Updates!Heeded(k, rows, s, b) = P!Updates!Heeded(k, rows, s, b)
    <2> SUFFICES ASSUME NEW k, NEW rows, NEW s, NEW b
                 PROVE  Updates!Heeded(k, rows, s, b) = P!Updates!Heeded(k, rows, s, b)
      OBVIOUS
    <2> DEFINE F(g) == [n \in 0 .. Len(rows) |->
                          IF n = 0 THEN k ELSE Updates!Told(g[n - 1], rows[n], s, b)]
               G(g) == [n \in 0 .. Len(rows) |->
                          IF n = 0 THEN k ELSE P!Updates!Told(g[n - 1], rows[n], s, b)]
    <2>1. \A g : F(g) = G(g)
      BY <1>12
    <2>2. Updates!Heeded(k, rows, s, b) = (CHOOSE g : g = F(g))[Len(rows)]
      BY Zenon DEF Updates!Heeded
    <2>3. P!Updates!Heeded(k, rows, s, b) = (CHOOSE g : g = G(g))[Len(rows)]
      BY Zenon DEF P!Updates!Heeded
    <2> HIDE DEF F, G
    <2>4. (CHOOSE g : g = F(g)) = (CHOOSE g : g = G(g))
      BY <2>1
    <2>5. QED
      BY <2>2, <2>3, <2>4
  <1>20. \A k, s, v, x, y : Updates!Reconciled(k, s, v, x, y) = P!Updates!Reconciled(k, s, v, x, y)
    BY <1>19, <1>13, <1>14, <1>15, <1>16, <1>17 DEF Updates!Reconciled,
       P!Updates!Reconciled
  <1>21. \A k, v : Updates!Drawn(k, v) = P!Updates!Drawn(k, v)
    BY Zenon, <1>18, <1>20 DEF Updates!Drawn, P!Updates!Drawn, Updates!Deferred,
       P!Updates!Deferred
  <1>22. \A k, v : Updates!Dismissed(k, v) = P!Updates!Dismissed(k, v)
    BY Zenon, <1>18, <1>7, <1>8, <1>16 DEF Updates!Dismissed, P!Updates!Dismissed,
       Updates!NoItem, P!Updates!NoItem
  <1>23. \A v : Updates!Elsewhere(v) = P!Updates!Elsewhere(v)
    BY Zenon, <1>17 DEF Updates!Elsewhere, P!Updates!Elsewhere, Updates!Range,
       P!Updates!Range, Updates!Deferred, P!Updates!Deferred
  <1>24. \A k, X : Updates!Becomes(k, X) <=> P!Updates!Becomes(k, X)
    BY Zenon DEF Updates!Becomes, P!Updates!Becomes, Updates!OnCard, P!Updates!OnCard,
       Updates!Updates, P!Updates!Updates
  <1>25. QED
    BY <1>21, <1>22, <1>23, <1>24

LEMMA UpdatesStepsSame ==
    /\ Updates!Updated <=> P!Updates!Updated
    /\ Updates!Covers <=> P!Updates!Covers
    /\ Updates!Opens <=> P!Updates!Opens
    /\ Updates!UpdatesNext => P!Updates!UpdatesNext
  <1>1. \A k, v : Updates!Shows(k, v) <=> P!Updates!Shows(k, v)
    BY Zenon, UpdatesOperatorsSame DEF Updates!Shows, P!Updates!Shows
  <1>2. Updates!Updated <=> P!Updates!Updated
    BY Zenon, <1>1 DEF Updates!Updated, P!Updates!Updated
  <1>3. Updates!Covers <=> P!Updates!Covers
    BY Zenon, <1>1 DEF Updates!Covers, P!Updates!Covers, Updates!Moves, P!Updates!Moves
  <1>4. Updates!Opens <=> P!Updates!Opens
    BY Zenon, UpdatesOperatorsSame DEF Updates!Opens, P!Updates!Opens
  <1>5. Updates!Dismiss \/ Updates!TimerFires => P!Updates!Dismiss \/ P!Updates!TimerFires
    BY Zenon, UpdatesOperatorsSame DEF Updates!Dismiss, P!Updates!Dismiss,
       Updates!TimerFires, P!Updates!TimerFires, Updates!Visible, P!Updates!Visible,
       Updates!NoItem, P!Updates!NoItem
  <1>6. Updates!Points \/ Updates!OtherShows \/ Updates!Reloaded
          => P!Updates!Points \/ P!Updates!OtherShows \/ P!Updates!Reloaded
    BY Zenon DEF Updates!Points, P!Updates!Points, Updates!OtherShows,
       P!Updates!OtherShows, Updates!Reloaded, P!Updates!Reloaded, Updates!Moves,
       P!Updates!Moves, Updates!Visible, P!Updates!Visible, Updates!Range, P!Updates!Range,
       Updates!NewCard, P!Updates!NewCard, Updates!NoItem, P!Updates!NoItem,
       Updates!Unread, P!Updates!Unread, Updates!OnCard, P!Updates!OnCard, Updates!Updates,
       P!Updates!Updates
  <1>7. Updates!CheckInStarts \/ Updates!CheckInEnds => P!Updates!CheckInStarts \/ P!Updates!CheckInEnds
    BY Zenon DEF Updates!CheckInStarts, P!Updates!CheckInStarts, Updates!CheckInEnds,
       P!Updates!CheckInEnds, Updates!Says, P!Updates!Says, Updates!Speaks,
       P!Updates!Speaks
  <1>8. Updates!ReplyStarts \/ Updates!ReplyStored \/ Updates!ReplyEnds \/ Updates!Selects
          => P!Updates!ReplyStarts \/ P!Updates!ReplyStored \/ P!Updates!ReplyEnds \/ P!Updates!Selects
    BY Zenon DEF Updates!ReplyStarts, P!Updates!ReplyStarts, Updates!ReplyStored,
       P!Updates!ReplyStored, Updates!ReplyEnds, P!Updates!ReplyEnds, Updates!Selects,
       P!Updates!Selects, Updates!Says, P!Updates!Says, Updates!Speaks, P!Updates!Speaks,
       Updates!Said, P!Updates!Said, Updates!Range, P!Updates!Range, Updates!Moves,
       P!Updates!Moves, Updates!NoFrame, P!Updates!NoFrame
  <1>9. QED
    BY Zenon, <1>2, <1>3, <1>4, <1>5, <1>6, <1>7, <1>8 DEF Updates!UpdatesNext,
       P!Updates!UpdatesNext

UpdatesHolds == part = "updates" => P!UpdInv

LEMMA UpdatesAreBounded ==
    ASSUME IsFiniteSet(CheckIns \cup Replies), Cardinality(CheckIns \cup Replies) <= SeenCap
    PROVE  P!UpdatesBounds
  <1>1. P!IsFiniteSet(CheckIns \cup Replies)
    BY Zenon DEF P!IsFiniteSet, IsFiniteSet
  <1>2. P!Cardinality(CheckIns \cup Replies) = Cardinality(CheckIns \cup Replies)
    BY Zenon DEF P!Cardinality, Cardinality, P!IsFiniteSet, IsFiniteSet
  <1>3. QED
    BY <1>1, <1>2, PartsAreBounded DEF PartConstants, P!UpdatesBounds, P!Upds, P!Updates!Updates

\* The card of updates: what it showed, read or dropped is known to it, or will be once the
\* page is loaded again; and what it took as seen was presented.
THEOREM UpdatesInvariant ==
    ASSUME IsFiniteSet(CheckIns \cup Replies), Cardinality(CheckIns \cup Replies) <= SeenCap
    PROVE  ClientsSpec => []UpdatesHolds
  <1> P!UpdatesBounds
    BY UpdatesAreBounded
  <1>1. ClientsInit => UpdatesHolds
    BY UpdatesInitSame, P!UpdatesStarts DEF ClientsInit, UpdatesHolds
  <1>2. UpdatesHolds /\ [ClientsNext]_allVars => UpdatesHolds'
    <2>1. SUFFICES ASSUME P!UpdInv, part = "updates", [ClientsNext]_allVars
                   PROVE  P!UpdInv'
      BY PartStays DEF UpdatesHolds
    <2>2. CASE ClientsNext
      BY <2>1, <2>2, UpdatesRunsAlone, UpdatesStepsSame, P!UpdatesStep
    <2>3. CASE UNCHANGED allVars
      BY <2>1, <2>3, P!UpdatesStandsStill DEF allVars, updatesState, P!Updates!updateVars
    <2>4. QED
      BY <2>1, <2>2, <2>3
  <1>3. QED
    BY <1>1, <1>2, PTL DEF ClientsSpec

\* A step of the card keeps what it promises.
LEMMA UpdatesKeep ==
    ASSUME P!UpdatesBounds, UpdatesHolds, ClientsNext, part = "updates"
    PROVE  Updates!AnnouncedOnce /\ Updates!NothingIsLost
  <1>1. P!Updates!AnnouncedOnce /\ P!Updates!NothingIsLost
    BY UpdatesRunsAlone, UpdatesStepsSame, P!UpdatesStep, P!UpdatesKeepPromise DEF UpdatesHolds
  <1>2. P!Updates!AnnouncedOnce => Updates!AnnouncedOnce
    BY Zenon DEF Updates!AnnouncedOnce, P!Updates!AnnouncedOnce, Updates!Updates,
       P!Updates!Updates
  <1>3. P!Updates!NothingIsLost => Updates!NothingIsLost
    BY Zenon, UpdatesStepsSame DEF Updates!NothingIsLost, P!Updates!NothingIsLost,
       Updates!Range, P!Updates!Range, Updates!Ids, P!Updates!Ids, Updates!Cardinality,
       P!Updates!Cardinality
  <1>4. QED
    BY <1>1, <1>2, <1>3

\* What was dismissed, timed out, read in the chat or shown before the page was loaded again
\* is not announced again (web/chat/update-queue.js, live-updates.js): for any number of
\* conversations, check-ins and replies up to what the page remembers, and any queue.
THEOREM NothingAnnouncedTwice ==
    ASSUME IsFiniteSet(CheckIns \cup Replies), Cardinality(CheckIns \cup Replies) <= SeenCap
    PROVE  ClientsSpec => AnnouncedOnce
  <1> P!UpdatesBounds
    BY UpdatesAreBounded
  <1>1. UpdatesHolds /\ [ClientsNext]_allVars => [part = "updates" => Updates!AnnouncedOnce]_allVars
    BY UpdatesKeep
  <1>2. QED
    BY <1>1, UpdatesInvariant, PTL DEF ClientsSpec, AnnouncedOnce

\* An update that arrives behind a dialog, the chat or a hidden tab waits for the card, and
\* none is taken as seen that was not presented, nor dropped while all that wait fit the
\* queue (web/chat/update-queue.js): under the same bound.
THEOREM NoUpdateGetsLost ==
    ASSUME IsFiniteSet(CheckIns \cup Replies), Cardinality(CheckIns \cup Replies) <= SeenCap
    PROVE  ClientsSpec => NothingIsLost
  <1> P!UpdatesBounds
    BY UpdatesAreBounded
  <1>1. UpdatesHolds /\ [ClientsNext]_allVars => [part = "updates" => Updates!NothingIsLost]_allVars
    BY UpdatesKeep
  <1>2. QED
    BY <1>1, UpdatesInvariant, PTL DEF ClientsSpec, NothingIsLost
=============================================================================
