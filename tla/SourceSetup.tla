------------------------------ MODULE SourceSetup ------------------------------
(***************************************************************************)
(* web/activity: the card that connects a source of activity, Chrome       *)
(* (setup.js) or the Mac (desktop-setup.js), and the monitor behind it,    *)
(* which checks for a bounded time and only while the card can be seen     *)
(* (setup-monitor.js).  What the card says and offers is a function of     *)
(* what it has seen of the service and the extension (setup-state.js).     *)
(***************************************************************************)
EXTENDS Integers

CONSTANTS MaxLeft,   \* bound: steps of time before the deadline of the monitor
          MaxEfforts \* bound: changes outside, gestures and clicks

VARIABLES
    world,    \* the service and the extension
    seen,     \* what the card has been told of them
    card,     \* the closure of mountChromeSetup or mountDesktopSetup
    monitor,  \* the closure of createSetupMonitor
    onScreen, \* the page is visible and the card is laid out
    efforts   \* bound: what may still happen

setupVars == <<world, seen, card, monitor, onScreen, efforts>>

Healths == {"none", "missing", "reached", "verified", "received", "error"}
Extensions == {"absent", "old", "ungranted", "granted"}
Worlds == [online : BOOLEAN, enabled : BOOLEAN, on : BOOLEAN, health : Healths,
           extension : Extensions]
Clickable == {"retry", "connect", "resume", "done", "reload", "grant", "open",
              "folder", "extensions", "permission"}

SetupTypeOK ==
    /\ world \in Worlds /\ seen \in Worlds
    /\ card \in [source : {"browser", "desktop"}, step : 0 .. 2, inChrome : BOOLEAN,
                 text : BOOLEAN, busy : Clickable \cup {"none"}]
    /\ monitor \in [active : BOOLEAN, flight : BOOLEAN, timer : BOOLEAN, left : 0 .. MaxLeft,
                    was : BOOLEAN, gone : BOOLEAN]
    /\ onScreen \in BOOLEAN /\ efforts \in 0 .. MaxEfforts

-----------------------------------------------------------------------------
(* setup-state.js: the state of the card and the action of its button. *)

Step(id, act) == [id |-> id, act |-> act]
OnOrResume(v) == IF ~v.on THEN "connect" ELSE IF ~v.enabled THEN "resume" ELSE "retry"

\* Outside Chrome the card leads there; inside it the steps follow each other.
InstallStep(c) ==
    CASE ~c.inChrome -> Step("handoff", "open")
      [] c.step = 1 -> Step("install", "folder")
      [] c.step = 2 -> Step("finish", "grant")
      [] OTHER -> Step("extensions", "extensions")

BrowserSetupState(v, c) ==
    CASE ~v.online -> Step("offline", "retry")
      [] v.health = "error" /\ v.enabled /\ v.on -> Step("error", "retry")
      [] v.health \in {"verified", "received"} ->
           IF ~v.on THEN Step("ready", "connect")
           ELSE IF ~v.enabled THEN Step("paused", "resume") ELSE Step("connected", "done")
      [] v.health = "missing" -> Step("repair", "retry")
      [] v.extension = "old" -> Step("update", "reload")
      [] v.extension = "ungranted" -> Step("grant", "grant")
      [] v.extension = "granted" -> Step("pair", OnOrResume(v))
      [] v.health = "reached" -> Step("pair", "retry")
      [] OTHER -> InstallStep(c)

\* For the Mac "reached" is a helper without the permission to read text.
DesktopSetupState(v, c) ==
    CASE c.text /\ v.health \in {"none", "missing", "reached"} -> Step("permission", "permission")
      [] ~v.on -> Step("off", "connect")
      [] ~v.enabled -> Step("paused", "resume")
      [] v.health = "error" -> Step("error", "retry")
      [] v.health \in {"reached", "verified", "received"} -> Step("connected", "done")
      [] OTHER -> Step("checking", "retry")

SetupState(v, c) ==
    IF c.source = "browser" THEN BrowserSetupState(v, c) ELSE DesktopSetupState(v, c)
Settled(v, c) ==
    SetupState(v, c).id \in IF c.source = "browser" THEN {"connected", "ready", "paused"}
                            ELSE {"connected"}

-----------------------------------------------------------------------------
(* setup-monitor.js; s says whether the card can be seen. *)

MayCheck(m, s) == s /\ ~m.gone /\ m.active /\ m.left > 0
Looked(m, s) == [m EXCEPT !.timer = FALSE, !.was = @ /\ s]

Queued(m, s) == [Looked(m, s) EXCEPT !.timer = MayCheck(m, s)]
Checked(m, s) == [Looked(m, s) EXCEPT !.flight = @ \/ MayCheck(m, s)]

Halted(m) == [m EXCEPT !.active = FALSE, !.timer = FALSE]

\* start: a stopped or hidden monitor gets its whole time again.
Started(m, s, restart) ==
    LET renew == ~m.active \/ restart \/ (s /\ ~m.was)
        next == [m EXCEPT !.active = TRUE, !.timer = @ /\ ~restart, !.was = s,
                          !.left = IF renew THEN MaxLeft ELSE @] IN
    IF m.gone THEN m ELSE IF next.flight \/ next.timer THEN next ELSE
    IF MayCheck(next, s) THEN Checked(next, s) ELSE next

\* wake: the window has the focus, or the page was hidden or shown.
Woken(m, s) ==
    IF m.gone \/ ~m.active THEN m
    ELSE IF s THEN Checked([m EXCEPT !.was = TRUE, !.left = IF m.was THEN @ ELSE MaxLeft], s)
    ELSE [m EXCEPT !.was = FALSE, !.timer = FALSE]

-----------------------------------------------------------------------------
(* setup.js and desktop-setup.js. *)

\* render, and update, which also starts the monitor of a card that is not settled.
Rendered(m, v, c) == IF Settled(v, c) THEN Halted(m) ELSE m
UpdatedMonitor(m, v, c) ==
    IF Settled(v, c) THEN Halted(m) ELSE Started(m, onScreen, FALSE)

SetupInit ==
    /\ world \in [online : {TRUE}, enabled : BOOLEAN, on : BOOLEAN,
                  health : {"none", "verified"}, extension : {"absent"}]
    /\ seen = [world EXCEPT !.online = FALSE, !.extension = "absent"]
    /\ card \in [source : {"browser", "desktop"}, step : {0}, inChrome : BOOLEAN,
                 text : BOOLEAN, busy : {"none"}]
    /\ card.source = "desktop" => ~card.inChrome
    /\ onScreen = TRUE /\ efforts = MaxEfforts
    /\ monitor = Started([active |-> FALSE, flight |-> FALSE, timer |-> FALSE, left |-> 0,
                          was |-> FALSE, gone |-> FALSE], TRUE, FALSE)

Effort == efforts > 0 /\ efforts' = efforts - 1

\* The service, its sources or the extension change.
WorldChanges ==
    /\ Effort
    /\ \/ \E h \in Healths : world' = [world EXCEPT !.health = h]
       \/ \E x \in Extensions : world' = [world EXCEPT !.extension = x]
       \/ \E b \in BOOLEAN : world' = [world EXCEPT !.online = b]
       \/ \E e, o \in BOOLEAN : world' = [world EXCEPT !.enabled = e, !.on = o]
    /\ UNCHANGED <<seen, card, monitor, onScreen>>

\* The page is hidden, shown or focused, which wakes the monitor; or the card is laid out
\* or not because another section of the page is selected, which nothing announces.
ScreenChanges ==
    /\ Effort
    /\ onScreen' \in BOOLEAN
    /\ \/ monitor' = Woken(monitor, onScreen')
       \/ onScreen' # onScreen /\ UNCHANGED monitor
    /\ UNCHANGED <<world, seen, card>>

TimerIsDue ==
    /\ monitor.timer
    /\ monitor' = Checked([monitor EXCEPT !.timer = FALSE], onScreen)
    /\ UNCHANGED <<world, seen, card, onScreen, efforts>>

TimePasses ==
    /\ monitor.left > 0 /\ monitor' = [monitor EXCEPT !.left = @ - 1]
    /\ UNCHANGED <<world, seen, card, onScreen, efforts>>

\* Mutant: a check that fails is not followed by another.
MutAfterCheck(m, ok) == IF ok THEN Queued([m EXCEPT !.flight = FALSE], onScreen)
                        ELSE [m EXCEPT !.flight = FALSE]

AfterCheck(m, ok) == Queued([m EXCEPT !.flight = FALSE], onScreen)

\* refresh: the extension is probed, the service asked (which updates the card), and the
\* card rendered; or one of them fails.  Whichever, the next check is queued.
CheckEnds ==
    /\ monitor.flight
    /\ \/ /\ seen' = world
          /\ monitor' = IF monitor.gone THEN [monitor EXCEPT !.flight = FALSE]
                        ELSE AfterCheck(UpdatedMonitor(monitor, world, card), TRUE)
       \/ UNCHANGED seen /\ monitor' = AfterCheck(monitor, FALSE)
    /\ UNCHANGED <<world, card, onScreen, efforts>>

\* A snapshot of the client: it does not know of the extension.
SnapshotComes ==
    /\ Effort /\ ~monitor.gone
    /\ seen' = [world EXCEPT !.extension = seen.extension]
    /\ monitor' = UpdatedMonitor(monitor, seen', card)
    /\ UNCHANGED <<world, card, onScreen>>

\* The button: a check begins at once; a command or a step elsewhere is awaited.
Clicks ==
    /\ Effort /\ ~monitor.gone /\ card.busy = "none"
    /\ LET act == SetupState(seen, card).act IN
       CASE act = "done" -> UNCHANGED <<card, monitor>>
         [] act = "retry" /\ card.source = "browser" ->
              monitor' = Started(monitor, onScreen, TRUE) /\ UNCHANGED card
         [] OTHER -> card' = [card EXCEPT !.busy = act] /\ UNCHANGED monitor
    /\ UNCHANGED <<world, seen, onScreen>>

\* What a click asks of the service: nothing but the source of this card.
Asked(act, w, c) ==
    CASE act = "connect" -> [w EXCEPT !.on = TRUE, !.enabled = TRUE]
      [] act = "resume" -> [w EXCEPT !.enabled = TRUE]
      [] act \in {"grant", "open"} /\ c.source = "browser" /\ ~seen.on ->
           [w EXCEPT !.on = TRUE, !.enabled = TRUE]
      [] OTHER -> w

\* The step the card goes to once Chrome could be opened or an address copied.
NextStep(act, c) ==
    CASE act = "extensions" -> 1 [] act \in {"grant", "open"} -> 2 [] OTHER -> c.step

\* The click is done, or failed: a card for Chrome then starts its monitor anew after a
\* command (and after a step that worked), one for the Mac unless the step failed.
ClickEnds ==
    /\ card.busy # "none"
    /\ \E ok, saved \in BOOLEAN :
         LET act == card.busy
             next == [card EXCEPT !.busy = "none", !.step = IF ok THEN NextStep(act, card) ELSE @]
             again == act # "folder" /\ act # "extensions"
                      /\ (ok \/ (card.source = "browser" /\ act \in {"connect", "resume"})) IN
         /\ world' = IF ok /\ saved THEN Asked(act, world, card) ELSE world
         /\ card' = next
         /\ monitor' = IF again THEN Started(Rendered(monitor, seen, next), onScreen, TRUE)
                       ELSE Rendered(monitor, seen, next)
    /\ UNCHANGED <<seen, onScreen, efforts>>

\* Back, Already installed, I added the extension; the guide of the Mac is paused when
\* another section is selected; the card is destroyed.
Navigates ==
    /\ Effort /\ ~monitor.gone
    /\ \/ /\ card.source = "browser"
          /\ \E n \in {0, 2}, begin \in BOOLEAN :
               /\ card' = [card EXCEPT !.step = IF n = 2 THEN 2 ELSE IF @ = 0 THEN 0 ELSE @ - 1]
               /\ LET m == Rendered(monitor, seen, card') IN
                  monitor' = IF begin /\ n = 2 THEN Started(m, onScreen, TRUE) ELSE m
       \/ card.source = "desktop" /\ monitor' = Halted(monitor) /\ UNCHANGED card
       \/ monitor' = [Halted(monitor) EXCEPT !.gone = TRUE] /\ UNCHANGED card
    /\ UNCHANGED <<world, seen, onScreen>>

SetupNext ==
    \/ WorldChanges \/ ScreenChanges \/ TimerIsDue \/ TimePasses \/ CheckEnds
    \/ SnapshotComes \/ Clicks \/ ClickEnds \/ Navigates

SetupSpec == SetupInit /\ [][SetupNext]_setupVars

-----------------------------------------------------------------------------
(* Properties. *)

\* "A visible, bounded setup check": a monitor that is active, knows that its card can be
\* seen and has time left is checking or will check, whatever failed, was hidden, stopped
\* or clicked before; and it never waits for a timer while a check is under way, so two
\* checks never overlap.
SetupIsWatched ==
    /\ monitor.active /\ ~monitor.gone /\ onScreen /\ monitor.was /\ monitor.left > 0
          => monitor.flight \/ monitor.timer
    /\ ~(monitor.flight /\ monitor.timer)
=============================================================================
