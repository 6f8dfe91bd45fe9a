--------------------------- MODULE CheckInSurface ---------------------------
(***************************************************************************)
(* How the desktop application announces a delivered check-in:             *)
(* pollCheckIns, the two notification policies of notifications.cjs (the   *)
(* overlay, always on, and the alerts, off until enabled), the alerts on   *)
(* screen and the overlay window.  The policies share only the poll, so    *)
(* `kind` picks the one a behaviour is about.  The service is the          *)
(* environment: it adds check-ins to a conversation, and the person        *)
(* selects another one.                                                    *)
(***************************************************************************)
EXTENDS Integers, Sequences, FiniteSets, Lists

CONSTANTS Convos,      \* conversations
          NoConvo,
          MaxEvents,   \* bound: check-ins delivered
          MaxAlerted,  \* bound: the same, in a behaviour about the alerts
          MaxSeen,     \* keys a policy remembers (256)
          MaxLoads,    \* bound: overlay windows that load at a time
          Unreadable   \* bound: the policies whose file cannot always be read

VARIABLES
    kind,      \* the policy this behaviour is about
    said,      \* the check-ins of each conversation, oldest first
    convo,     \* the selected conversation
    eligible,  \* notification_event_ids
    poll,      \* pollBusy, with the snapshot it was sent
    pol,       \* enabled, seen, needsBaseline, currentConversationId of the policy
    saved,     \* what it has on disk
    focused,   \* the window has the focus
    over,      \* the overlay: what overlayPayload is, and overlayReady
    loads,     \* overlay windows whose loadFile has not settled
    alerts,    \* activeNotifications
    shown,     \* history: how often the policy announced each check-in
    old        \* history: the conversation it watches, what it found in any

surfaceVars ==
    <<kind, said, convo, eligible, poll, pol, saved, focused, over, loads, alerts, shown, old>>
serviceVars == <<kind, said, convo, eligible>>

Events == 1 .. MaxEvents
None == 0
NoOver == [payload |-> "none", ready |-> FALSE]
NeverSaved == [enabled |-> kind = "overlay", seen |-> <<>>]
NoPoll == [busy |-> FALSE, said |-> <<>>, convo |-> NoConvo, eligible |-> {}]

Keys(s) == {s[i] : i \in DOMAIN s}
Newest(n, s) == IF Len(s) <= n THEN s ELSE SubSeq(s, Len(s) - n + 1, Len(s))
Delivered == UNION {Keys(said[c]) : c \in Convos}

SurfaceTypeOK ==
    /\ kind \in {"overlay", "alert"}
    /\ said \in [Convos -> Seq(Events)] /\ convo \in Convos /\ eligible \subseteq Events
    /\ poll.busy \in BOOLEAN /\ poll.convo \in Convos \cup {NoConvo}
    /\ pol.enabled \in BOOLEAN /\ pol.baseline \in BOOLEAN
    /\ pol.convo \in Convos \cup {NoConvo}
    /\ Len(pol.seen) <= MaxSeen /\ Len(saved.seen) <= MaxSeen
    /\ Cardinality(Keys(pol.seen)) = Len(pol.seen)
    /\ focused \in BOOLEAN
    /\ over \in [payload : {"none", "check_in", "preview"}, ready : BOOLEAN]
    /\ loads \in 0 .. MaxLoads /\ alerts \subseteq Events \cup {None}
    /\ shown \in [Events -> Nat]
    /\ old \in [convo : Convos \cup {NoConvo}, found : SUBSET Events]

\* The conversations are alike: which one is open at first makes no difference.
SurfaceInit ==
    /\ kind \in {"overlay", "alert"}
    /\ said = [c \in Convos |-> <<>>] /\ convo = (CHOOSE c \in Convos : TRUE) /\ eligible = {}
    /\ poll = NoPoll
    /\ saved = NeverSaved
    /\ pol = [enabled |-> kind = "overlay", seen |-> <<>>, baseline |-> TRUE, convo |-> NoConvo]
    /\ focused = FALSE /\ over = NoOver /\ loads = 0 /\ alerts = {}
    /\ shown = [e \in Events |-> 0]
    /\ old = [convo |-> NoConvo, found |-> {}]

-----------------------------------------------------------------------------
(* The service. *)

Delivers ==
    /\ Cardinality(Delivered) < IF kind = "overlay" THEN MaxEvents ELSE MaxAlerted
    /\ LET e == Cardinality(Delivered) + 1
       IN /\ said' = [said EXCEPT ![convo] = Append(@, e)]
          /\ eligible' = eligible \cup {e}
    /\ UNCHANGED <<kind, convo, poll, pol, saved, focused, over, loads, alerts, shown, old>>

\* A reply, a changed goal, a pause or the end of its window; another conversation,
\* for as long as that one is selected.
EligibilityEnds ==
    /\ \/ eligible # {} /\ eligible' = {} /\ UNCHANGED convo
       \/ convo' \in Convos \ {convo} /\ UNCHANGED eligible
    /\ UNCHANGED <<kind, said, poll, pol, saved, focused, over, loads, alerts, shown, old>>

-----------------------------------------------------------------------------
(* The overlay, as operators on its variables. *)

\* closeOverlay.  The load of a window that is closed has yet to reject.
ClosesOverlay == over' = NoOver

\* showCheckInOverlay: a new payload for the overlay there is, or a new window.
Presents(e) ==
    IF over.payload # "none" THEN over' = [over EXCEPT !.payload = e] /\ UNCHANGED loads
    ELSE over' = [payload |-> e, ready |-> FALSE] /\ loads' = loads + 1

CanPresent == over.payload # "none" \/ loads < MaxLoads

\* Mutant: focusing the window leaves the overlay.
MutShowsWindow == focused' = TRUE /\ UNCHANGED over

\* showWindow; the focus event closes the overlay.
ShowsWindow == focused' = TRUE /\ ClosesOverlay

-----------------------------------------------------------------------------
(* Polling and the policies. *)

\* The overlay's policy is always enabled, so there is always something to ask.
PollBegins ==
    /\ ~poll.busy
    /\ poll' = [busy |-> TRUE, said |-> Newest(MaxSeen, said[convo]), convo |-> convo,
                eligible |-> eligible \cap Keys(said[convo])]
    /\ UNCHANGED <<serviceVars, pol, saved, focused, over, loads, alerts, shown, old>>

PollFails ==
    /\ poll.busy
    /\ poll' = NoPoll
    /\ UNCHANGED <<serviceVars, pol, saved, focused, over, loads, alerts, shown, old>>

Marked(seen, keys) == Newest(MaxSeen, seen \o Only(keys, Events \ Keys(seen)))
Fresh(q) == Only(poll.said, Events \ Keys(q.seen))

\* Mutant: the baseline is taken once, not for each conversation.
MutBaselines(q) == q.baseline

Baselines(q) == q.baseline \/ q.convo # poll.convo

\* Mutant: only a baseline is remembered.
MutInspected(q) ==
    IF ~q.enabled THEN q
    ELSE [q EXCEPT !.seen = IF Baselines(q) THEN Marked(@, poll.said) ELSE @,
                   !.baseline = FALSE, !.convo = poll.convo]

\* inspect: what a policy remembers afterwards.
Inspected(q) ==
    IF ~q.enabled THEN q
    ELSE [q EXCEPT !.seen = Marked(@, poll.said), !.baseline = FALSE, !.convo = poll.convo]

\* inspect: the check-in it shows, if the keys could be saved first.
Announced(q, ok) ==
    LET wanted == Only(Fresh(q), poll.eligible)
    IN  IF q.enabled /\ ~Baselines(q) /\ ok /\ ~focused /\ wanted # <<>>
        THEN wanted[Len(wanted)] ELSE None

\* ok says whether the policy could save, which it tries when there is something new.
PollInspects ==
    /\ poll.busy
    /\ \E ok \in BOOLEAN :
          LET ann == Announced(pol, ok)
          IN /\ pol' = Inspected(pol)
             /\ saved' = IF ok /\ pol.enabled /\ (Baselines(pol) \/ Fresh(pol) # <<>>)
                         THEN [enabled |-> TRUE, seen |-> Inspected(pol).seen] ELSE saved
             /\ shown' = [e \in Events |-> shown[e] + (IF ann = e THEN 1 ELSE 0)]
             /\ IF ann # None /\ kind = "overlay"
                THEN CanPresent /\ Presents("check_in") /\ UNCHANGED alerts
                ELSE alerts' = alerts \cup ({ann} \ {None}) /\ UNCHANGED <<over, loads>>
    /\ old' = IF ~pol.enabled \/ old.convo = poll.convo THEN old
              ELSE [convo |-> poll.convo, found |-> old.found \cup Keys(poll.said)]
    /\ poll' = NoPoll
    /\ UNCHANGED <<serviceVars, focused>>

\* Mutant: alerts that are on screen stay when alerts are turned off.
MutSetsAlerts ==
    /\ kind = "alert"
    /\ pol' = [pol EXCEPT !.enabled = ~@, !.baseline = TRUE]
    /\ old' = [old EXCEPT !.convo = NoConvo]
    /\ UNCHANGED <<serviceVars, poll, saved, focused, over, loads, alerts, shown>>

\* toggleNotifications, confirmed; its poll is PollBegins.
SetsAlerts ==
    /\ kind = "alert"
    /\ \E ok \in BOOLEAN :
          LET on == ~pol.enabled
          IN /\ pol' = [pol EXCEPT !.enabled = on, !.baseline = TRUE]
             /\ saved' = IF ok THEN [enabled |-> on, seen |-> pol.seen] ELSE saved
             /\ alerts' = IF on THEN alerts ELSE {}
    /\ old' = [old EXCEPT !.convo = NoConvo]
    /\ UNCHANGED <<serviceVars, poll, focused, over, loads, shown>>

-----------------------------------------------------------------------------
(* What the person does. *)

FocusChanges ==
    /\ IF focused THEN focused' = FALSE /\ UNCHANGED over ELSE ShowsWindow
    /\ UNCHANGED <<serviceVars, poll, pol, saved, loads, alerts, shown, old>>

AlertTested ==
    /\ kind = "alert" /\ pol.enabled
    /\ alerts' = alerts \cup {None}
    /\ UNCHANGED <<serviceVars, poll, pol, saved, focused, over, loads, shown, old>>

\* A click opens the check-in; the system may also close the alert or refuse it.
AlertEnds ==
    /\ \E e \in alerts : alerts' = alerts \ {e}
    /\ ShowsWindow \/ UNCHANGED <<focused, over>>
    /\ UNCHANGED <<serviceVars, poll, pol, saved, loads, shown, old>>

PreviewOverlay ==
    /\ kind = "overlay" /\ CanPresent
    /\ Presents("preview")
    /\ UNCHANGED <<serviceVars, poll, pol, saved, focused, alerts, shown, old>>

\* The page of the overlay has its listener; from here on it is visible.
OverlayReady ==
    /\ over.payload # "none" /\ ~over.ready
    /\ over' = [over EXCEPT !.ready = TRUE]
    /\ UNCHANGED <<serviceVars, poll, pol, saved, focused, loads, alerts, shown, old>>

\* Opened, dismissed, or shown for its 45 seconds.
OverlayEnds ==
    /\ over.ready
    /\ ShowsWindow \/ (ClosesOverlay /\ UNCHANGED focused)
    /\ UNCHANGED <<serviceVars, poll, pol, saved, loads, alerts, shown, old>>

\* loadFile settles; when it rejects, closeOverlay takes down whichever overlay
\* there is by then.
OverlayLoads ==
    /\ loads > 0 /\ loads' = loads - 1
    /\ UNCHANGED over \/ ClosesOverlay
    /\ UNCHANGED <<serviceVars, poll, pol, saved, focused, alerts, shown, old>>

\* The application quits and is started again; the file may not be readable then.
Relaunches ==
    /\ \E read \in {saved} \cup (IF kind \in Unreadable THEN {NeverSaved} ELSE {}) :
         pol' = [enabled |-> read.enabled, seen |-> read.seen, baseline |-> TRUE, convo |-> NoConvo]
    /\ focused' = FALSE /\ over' = NoOver /\ loads' = 0 /\ alerts' = {} /\ poll' = NoPoll
    /\ old' = [old EXCEPT !.convo = NoConvo]
    /\ UNCHANGED <<serviceVars, saved, shown>>

SurfaceNext ==
    \/ Delivers \/ EligibilityEnds
    \/ PollBegins \/ PollFails \/ PollInspects \/ SetsAlerts
    \/ FocusChanges \/ AlertTested \/ AlertEnds \/ PreviewOverlay
    \/ OverlayReady \/ OverlayEnds \/ OverlayLoads \/ Relaunches

SurfaceSpec == SurfaceInit /\ [][SurfaceNext]_surfaceVars

-----------------------------------------------------------------------------
(* Properties. *)

\* No policy announces a check-in twice, whatever fails to be saved, whichever
\* conversation is selected in between and however often the application is started.
ShownOnce == \A e \in Events : shown[e] <= 1

\* desktop/electron/README.md, "First adoption, re-enabling and conversation changes
\* baseline existing history quietly": what a policy finds when it begins to watch
\* a conversation it never announces, neither then nor later.
OldIsQuiet ==
    \A e \in Events : shown'[e] > shown[e] => e \notin old'.found

\* While the window has the focus no check-in lies over it, also when the overlay
\* was still loading as the focus came.
FocusIsQuiet == focused => over.payload # "check_in"

\* Alerts that were turned off leave nothing on screen, whatever poll was under way.
OffIsQuiet == ~pol.enabled => alerts = {}
=============================================================================
