---------------------------- MODULE ExtensionPopup ----------------------------
(***************************************************************************)
(* The popup of the Chrome extension (activity/extension/popup.js): Allow, *)
(* Retry, Exclude this site, Remove and Remove access, with the bounded    *)
(* refresh of the status it asks the service worker for.  The worker's     *)
(* answer is the environment (module NativeBridge).                        *)
(***************************************************************************)
EXTENDS Integers, FiniteSets

CONSTANTS Hosts,          \* sites the person excludes
          MaxRefreshes,   \* MAX_STATUS_REFRESHES (8)
          MaxClicks       \* bound: what the person does

VARIABLES
    granted,   \* Chrome's grant
    stored,    \* excludedHosts, as stored and as the popup lists them
    popup,     \* the module variables of popup.js
    waits,     \* its handlers that wait: refreshes, a request for the grant, edits of the list
    clicks     \* bound: clicks left

popupVars == <<granted, stored, popup, waits, clicks>>

Answers == {"verified", "pending", "access-off"}
\* An edit of the list: the site excluded or listed again, and the list it read.
Edits == [host : Hosts, out : BOOLEAN, read : BOOLEAN, list : SUBSET Hosts]

PopupTypeOK ==
    /\ granted \in BOOLEAN
    /\ stored \in [hosts : SUBSET Hosts, shown : SUBSET Hosts]
    /\ popup.access \in BOOLEAN /\ popup.hidden \in BOOLEAN /\ popup.timer \in BOOLEAN
    /\ popup.tries \in 0 .. MaxRefreshes /\ popup.gen \in Nat
    /\ popup.view \in {"allow", "connected", "pending"}
    /\ waits.refreshes \subseteq Nat /\ waits.allow \in BOOLEAN /\ waits.edits \subseteq Edits
    /\ clicks \in 0 .. MaxClicks

\* The three reads at load are made together: the first status is a refresh of
\* generation 0 that also starts the loop.
PopupInit ==
    /\ granted \in BOOLEAN /\ stored = [hosts |-> {}, shown |-> {}]
    /\ popup = [access |-> granted, hidden |-> FALSE, timer |-> FALSE, tries |-> 0,
                gen |-> 0, view |-> "allow"]
    /\ waits = [refreshes |-> {0}, allow |-> FALSE, edits |-> {}]
    /\ clicks = MaxClicks

Clicks == clicks > 0 /\ clicks' = clicks - 1

-----------------------------------------------------------------------------
(* scheduleStatusRefresh. *)

\* Mutant: a new loop leaves the generation of the old one.
MutStopped(p) == [p EXCEPT !.timer = FALSE]

\* stopStatusRefresh.
Stopped(p) == [p EXCEPT !.gen = @ + 1, !.timer = FALSE]

\* scheduleStatusRefresh, up to the first await of refresh().
Scheduled(p) ==
    LET q == [Stopped(p) EXCEPT !.tries = 0] IN
    IF q.hidden THEN q ELSE [q EXCEPT !.tries = 1]

Starts(p) ==
    /\ popup' = Scheduled(p)
    /\ waits' = [waits EXCEPT !.refreshes = IF p.hidden THEN @ ELSE @ \cup {Scheduled(p).gen},
                              !.allow = FALSE]

\* renderConnectionState: what the popup offers.
Shows(p, a) ==
    LET q == IF a = "access-off" THEN [p EXCEPT !.access = FALSE] ELSE p IN
    [q EXCEPT !.view = IF ~q.access THEN "allow" ELSE IF a = "verified" THEN "connected"
                       ELSE "pending"]

\* refreshNativeStatus answers, in the order it was asked; the loop goes on while
\* its generation is the current one, the popup is visible and the connection is
\* not verified.
Refreshed(g, a) ==
    LET p == Shows(popup, a)
        more == p.access /\ a # "verified" IN
    /\ g \in waits.refreshes /\ \A other \in waits.refreshes : g <= other
    /\ IF g = 0 /\ granted /\ more
       THEN /\ popup' = Scheduled(p)
            /\ waits' = [waits EXCEPT !.refreshes = (@ \ {0}) \cup
                            (IF p.hidden THEN {} ELSE {Scheduled(p).gen})]
       ELSE /\ popup' = [p EXCEPT !.timer = @ \/ (/\ g = popup.gen /\ g # 0 /\ ~p.hidden /\ more
                                                  /\ p.tries < MaxRefreshes)]
            /\ waits' = [waits EXCEPT !.refreshes = @ \ {g}]
    /\ UNCHANGED <<granted, stored, clicks>>

\* The timer of the loop: refresh() again.
RefreshFires ==
    /\ popup.timer
    /\ popup' = [popup EXCEPT !.timer = FALSE, !.tries = IF popup.hidden THEN @ ELSE @ + 1]
    /\ waits' = [waits EXCEPT !.refreshes = IF popup.hidden THEN @ ELSE @ \cup {popup.gen}]
    /\ UNCHANGED <<granted, stored, clicks>>

-----------------------------------------------------------------------------
(* The handlers. *)

\* Allow: Chrome asks the person, who may decline.
ClicksAllow ==
    /\ ~popup.access /\ ~waits.allow /\ Clicks
    /\ waits' = [waits EXCEPT !.allow = TRUE] /\ UNCHANGED <<granted, stored, popup>>

Allowed ==
    /\ waits.allow
    /\ \/ UNCHANGED <<granted, popup>> /\ waits' = [waits EXCEPT !.allow = FALSE]
       \/ granted' = TRUE /\ Starts(Shows([popup EXCEPT !.access = TRUE], "pending"))
    /\ UNCHANGED <<stored, clicks>>

Retries ==
    /\ popup.view = "pending" /\ Clicks
    /\ Starts(popup) /\ UNCHANGED <<granted, stored>>

RemovesAccess ==
    /\ Clicks
    /\ granted' = FALSE /\ popup' = [popup EXCEPT !.access = FALSE]
    /\ UNCHANGED <<stored, waits>>

\* Exclude (the page in front) or Remove (a site of the list): each reads the
\* stored list, then writes the list it computed.
EditsList ==
    /\ Clicks
    /\ \E h \in Hosts, out \in BOOLEAN :
         /\ out \/ h \in stored.shown
         /\ waits' = [waits EXCEPT !.edits = @ \cup
                        {[host |-> h, out |-> out, read |-> FALSE, list |-> {}]}]
    /\ UNCHANGED <<granted, stored, popup>>

EditReads(e) ==
    /\ e \in waits.edits /\ ~e.read
    /\ waits' = [waits EXCEPT !.edits = (@ \ {e}) \cup {[e EXCEPT !.read = TRUE,
                    !.list = IF e.out THEN stored.hosts \cup {e.host}
                             ELSE stored.hosts \ {e.host}]}]
    /\ UNCHANGED <<granted, stored, popup, clicks>>

EditWrites(e) ==
    /\ e \in waits.edits /\ e.read
    /\ stored' = [hosts |-> e.list, shown |-> e.list]
    /\ waits' = [waits EXCEPT !.edits = @ \ {e}]
    /\ UNCHANGED <<granted, popup, clicks>>

\* visibilitychange and pagehide.
Hides ==
    /\ Clicks
    /\ LET p == [popup EXCEPT !.hidden = ~@] IN
       IF p.hidden THEN popup' = Stopped(p) /\ UNCHANGED waits
       ELSE IF p.access THEN Starts(p) ELSE popup' = p /\ UNCHANGED waits
    /\ UNCHANGED <<granted, stored>>

PopupNext ==
    \/ \E g \in waits.refreshes, a \in Answers :
            (a = "access-off" => ~granted) /\ Refreshed(g, a)
    \/ \E e \in waits.edits : EditReads(e) \/ EditWrites(e)
    \/ RefreshFires \/ ClicksAllow \/ Allowed \/ Retries \/ RemovesAccess \/ EditsList \/ Hides

PopupSpec == PopupInit /\ [][PopupNext]_popupVars

-----------------------------------------------------------------------------
(* Properties. *)

\* However often the person clicks, hides the popup or answers Chrome late, at
\* most one refresh loop is alive (popup.js, refreshGeneration), a hidden popup has
\* none, and a popup that still shows the connection as pending goes on asking
\* until it asked MAX_STATUS_REFRESHES times.
OneRefreshLoop ==
    LET loops == waits.refreshes \cap {popup.gen} IN
    /\ popup.timer => loops = {} /\ ~popup.hidden
    /\ popup.hidden => popup.gen \notin waits.refreshes
    /\ popup.view = "pending" /\ popup.access /\ ~popup.hidden /\ ~waits.allow /\ waits.refreshes = {}
         => popup.timer \/ popup.tries = MaxRefreshes
=============================================================================
