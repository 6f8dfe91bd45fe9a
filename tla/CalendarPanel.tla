----------------------------- MODULE CalendarPanel -----------------------------
(***************************************************************************)
(* web/connections/calendar.js: connecting Google Calendar, choosing the   *)
(* calendars that may be read, pausing and disconnecting.  The panel polls *)
(* the service while a sign-in or a sync goes on; a command aborts the     *)
(* poll, and the calendars may change while the person ticks them.         *)
(***************************************************************************)
EXTENDS Integers, FiniteSets

CONSTANTS Cals,      \* calendars of the account
          Primary,   \* the one Google marks as primary
          MaxTicks   \* bound: what the person, Google and the network do

VARIABLES
    google,   \* the service's connection: state, calendars, selection, its worker
    shown,    \* the snapshot the panel shows
    choice,   \* selectionDraft: the calendars ticked, while it is open
    panel,    \* timer, busy, confirmation, the sign-in address
    call,     \* the request in flight
    saved,    \* the last selection submitted
    ticks     \* bound: ticks left

calendarVars == <<google, shown, choice, panel, call, saved, ticks>>

States == {"unavailable", "disconnected", "authorizing", "choosing", "connected", "paused",
           "reauth_required"}
\* What the service keeps: its worker, where a choice that is cancelled returns to, and
\* whether the timer of a sign-in still runs.
Connections == [rev : Nat, state : States, account : BOOLEAN, cals : SUBSET Cals,
                selected : SUBSET Cals, work : {"none", "calendars", "events"},
                back : {"connected", "paused"}, expiring : BOOLEAN]
\* What it tells.
Snapshots == [rev : Int, state : States, cals : SUBSET Cals, selected : SUBSET Cals,
              loading : BOOLEAN]
NoChoice == [open |-> FALSE, ids |-> {}]
NoSnapshot == [rev |-> -1, state |-> "unavailable", cals |-> {}, selected |-> {},
               loading |-> FALSE]
NoCall == [kind |-> "none", at |-> "none", action |-> "none", ids |-> {}, got |-> NoSnapshot]
Verbs == {"begin", "cancel", "calendars", "save_selection", "pause", "resume", "sync", "retry",
          "disconnect"}

CalendarTypeOK ==
    /\ google \in Connections /\ shown \in Snapshots
    /\ choice \in [open : BOOLEAN, ids : SUBSET Cals]
    /\ panel \in [timer : BOOLEAN, busy : BOOLEAN, confirm : BOOLEAN, url : BOOLEAN,
                  error : BOOLEAN]
    /\ call.kind \in {"none", "GET", "POST"} /\ call.at \in {"none", "sent", "served", "failed"}
    /\ call.action \in Verbs \cup {"none"} /\ call.ids \subseteq Cals /\ call.got \in Snapshots
    /\ saved \in [ids : SUBSET Cals, of : SUBSET Cals] /\ ticks \in 0 .. MaxTicks

CalendarInit ==
    /\ google \in {[rev |-> 0, state |-> s, account |-> s = "connected",
                     cals |-> IF s = "connected" THEN Cals ELSE {},
                     selected |-> IF s = "connected" THEN {Primary} ELSE {},
                     work |-> "none", back |-> "paused", expiring |-> FALSE] :
                       s \in {"disconnected", "unavailable", "connected"}}
    /\ shown = NoSnapshot
    /\ choice = NoChoice
    /\ panel = [timer |-> FALSE, busy |-> FALSE, confirm |-> FALSE, url |-> FALSE,
                error |-> FALSE]
    /\ call = [NoCall EXCEPT !.kind = "GET", !.at = "sent"]
    /\ saved = [ids |-> {}, of |-> {}] /\ ticks = MaxTicks

Tick == ticks > 0 /\ ticks' = ticks - 1

-----------------------------------------------------------------------------
(* accept(). *)

Fresh(s) == s.rev >= shown.rev

\* The choice that begins: what is selected, or else the primary calendar.
Begun(s) == [open |-> TRUE,
             ids |-> IF s.selected # {} THEN s.selected ELSE s.cals \cap {Primary}]

\* Mutant: the choice is kept as it was made.
MutChoiceAfter(s) ==
    IF s.state # "choosing" THEN NoChoice
    ELSE IF ~choice.open THEN Begun(s) ELSE choice

\* A choice goes on while the calendars are chosen; one that is no longer listed
\* is dropped, once the list is loaded.
ChoiceAfter(s) ==
    LET c == IF ~choice.open THEN Begun(s) ELSE choice IN
    IF s.state # "choosing" THEN NoChoice
    ELSE IF s.loading THEN c ELSE [c EXCEPT !.ids = @ \cap s.cals]

\* schedule(): the next poll.
Polling(p, s) == [p EXCEPT !.timer = s # NoSnapshot /\ s.state # "unavailable"]

Accepts(s, p) ==
    IF Fresh(s)
    THEN /\ shown' = s /\ choice' = ChoiceAfter(s)
         /\ panel' = Polling([p EXCEPT !.url = s.state = "authorizing"], s)
    ELSE UNCHANGED <<shown, choice>> /\ panel' = p

-----------------------------------------------------------------------------
(* refresh() and its timer. *)

Reads(p) ==
    IF panel.busy \/ call.kind # "none" THEN panel' = p /\ UNCHANGED call
    ELSE panel' = p /\ call' = [NoCall EXCEPT !.kind = "GET", !.at = "sent"]

PollFires ==
    /\ panel.timer /\ Reads([panel EXCEPT !.timer = FALSE])
    /\ UNCHANGED <<google, shown, choice, saved, ticks>>

\* Check connection, and refresh() of the owner.
Checks ==
    /\ Tick /\ Reads(panel) /\ UNCHANGED <<google, shown, choice, saved>>

\* Mutant: a poll that failed is not followed by another.
MutReadSettles ==
    /\ call.kind = "GET" /\ call.at \in {"served", "failed"}
    /\ IF call.at = "served" THEN Accepts(call.got, panel)
       ELSE panel' = [panel EXCEPT !.error = TRUE] /\ UNCHANGED <<shown, choice>>
    /\ call' = NoCall
    /\ UNCHANGED <<google, saved, ticks>>

ReadSettles ==
    /\ call.kind = "GET" /\ call.at \in {"served", "failed"}
    /\ IF call.at = "served" THEN Accepts(call.got, panel)
       ELSE panel' = Polling([panel EXCEPT !.error = TRUE], shown) /\ UNCHANGED <<shown, choice>>
    /\ call' = NoCall
    /\ UNCHANGED <<google, saved, ticks>>

-----------------------------------------------------------------------------
(* mutate() and the controls a state offers. *)

Offered(s, c) ==
    CASE s = NoSnapshot \/ s.state = "unavailable" -> {}
      [] s.state = "disconnected" -> {"begin"}
      [] s.state = "authorizing" -> {"cancel"}
      [] s.state = "choosing" -> {"cancel"} \cup
            (IF s.loading THEN {} ELSE IF s.cals # {} THEN {"save_selection"} ELSE {"calendars"})
      [] s.state \in {"connected", "paused"} ->
            {"calendars", IF s.state = "paused" THEN "resume" ELSE "pause"}
            \cup (IF s.state = "connected" THEN {"sync"} ELSE {})
            \cup (IF c THEN {"disconnect"} ELSE {})
      [] OTHER -> {"begin"} \cup (IF s.selected # {} THEN {"retry"} ELSE {})

\* A poll in flight is aborted; the command carries the revision that is shown.
Commands ==
    /\ ~panel.busy /\ Tick
    /\ \E v \in Offered(shown, panel.confirm) :
         /\ call' = [kind |-> "POST", at |-> "sent", action |-> v, got |-> NoSnapshot,
                     ids |-> IF v = "save_selection" THEN choice.ids ELSE {}]
         /\ saved' = IF v = "save_selection" THEN [ids |-> choice.ids, of |-> shown.cals] ELSE saved
         /\ panel' = [panel EXCEPT !.busy = TRUE,
                                   !.confirm = @ /\ v # "disconnect"]
    /\ UNCHANGED <<google, shown, choice>>

\* The answer; begin opens the sign-in in the browser, which may fail.
CommandSettles ==
    /\ call.kind = "POST" /\ call.at \in {"served", "failed"}
    /\ LET p == [panel EXCEPT !.busy = FALSE] IN
       IF call.at = "served"
       THEN \/ Accepts(call.got, Polling(p, shown))
            \/ /\ call.action = "begin"
               /\ Accepts(call.got, Polling([p EXCEPT !.error = TRUE], shown))
       ELSE /\ panel' = Polling([p EXCEPT !.error = TRUE], shown)
            /\ UNCHANGED <<shown, choice>>
    /\ call' = NoCall
    /\ UNCHANGED <<google, saved, ticks>>

\* The checkboxes, and Disconnect with its confirmation.
Chooses ==
    /\ Tick
    /\ \/ /\ shown.state = "choosing" /\ ~shown.loading
          /\ \E c \in shown.cals :
               choice' = [choice EXCEPT !.ids = IF c \in @ THEN @ \ {c} ELSE @ \cup {c}]
          /\ UNCHANGED panel
       \/ /\ shown.state \in {"connected", "paused"} /\ ~panel.busy
          /\ panel' = [panel EXCEPT !.confirm = ~@] /\ UNCHANGED choice
    /\ UNCHANGED <<google, shown, call, saved>>

-----------------------------------------------------------------------------
(* google_calendar.py: the commands, the sign-in, and the worker that reads the list of     *)
(* calendars and the events.  A new worker, or a command that ends it, makes whatever the   *)
(* old one still brings worthless (epoch).                                                  *)

\* _commit().
Moved(g, s, w) == [g EXCEPT !.rev = @ + 1, !.state = s, !.work = w]

Shows(g) == [rev |-> g.rev, state |-> g.state, cals |-> g.cals, selected |-> g.selected,
             loading |-> g.work = "calendars"]

\* Where a sign-in that came to nothing leaves the connection.
Lapsed(g) == IF g.account THEN "reauth_required" ELSE "disconnected"

\* Cancelling the first choice of an account disconnects it.
Leaves(g, v) == \/ v = "disconnect"
                \/ v = "cancel" /\ g.state = "choosing" /\ g.account /\ g.selected = {}

Allowed(g, v, ids) ==
    CASE v = "begin" -> g.state \notin {"unavailable", "connected", "paused"}
      [] v \in {"cancel", "disconnect"} -> TRUE
      [] v = "retry" -> g.state = "reauth_required" /\ g.account /\ g.selected # {}
      [] OTHER ->
            /\ g.account /\ g.state \notin {"authorizing", "reauth_required"}
            /\ v = "save_selection" => g.work # "calendars" /\ ids # {} /\ ids \subseteq g.cals
            /\ v = "sync" => g.state = "connected"
            /\ v \in {"sync", "resume"} => g.selected # {}

\* _launch("events"), unless a worker runs.
Syncing(g) == IF g.work = "none" THEN "events" ELSE g.work

Effect(g, v, ids) ==
    CASE v = "begin" -> [Moved(g, "authorizing", "none") EXCEPT !.expiring = TRUE]
      [] Leaves(g, v) -> [g EXCEPT !.rev = @ + 2, !.state = "disconnected", !.work = "none",
                                   !.account = FALSE, !.cals = {}, !.selected = {},
                                   !.expiring = FALSE]
      [] v = "cancel" /\ ~Leaves(g, v) ->
            [Moved(g, IF g.state = "authorizing" THEN Lapsed(g)
                      ELSE IF g.selected # {} THEN g.back
                      ELSE IF g.account THEN "choosing" ELSE "disconnected", "none")
               EXCEPT !.expiring = FALSE]
      [] v = "calendars" -> [Moved(g, "choosing", "calendars")
                               EXCEPT !.back = IF g.state = "connected" THEN "connected"
                                                                        ELSE "paused"]
      [] v = "save_selection" -> [Moved(g, "connected", "events") EXCEPT !.selected = ids]
      [] v = "pause" -> Moved(g, "paused", "none")
      [] v = "resume" -> Moved(g, "connected", Syncing(g))
      [] OTHER -> [g EXCEPT !.work = Syncing(g)]

\* disconnect commits the pause before it asks the keychain to forget the sign-in; the
\* keychain may refuse.
Keeps(g) == [Moved(g, IF g.account THEN "paused" ELSE "disconnected", "none")
               EXCEPT !.expiring = FALSE]

\* The revision a command carries is the one shown, and nothing is taken over while it is
\* out.  An answer that takes too long is lost, whether or not the command was applied.
Answered ==
    /\ call.at = "sent"
    /\ LET allowed == /\ call.kind = "POST" /\ shown.rev = google.rev
                      /\ Allowed(google, call.action, call.ids)
           lost    == call' = [call EXCEPT !.at = "failed"]
       IN
       \/ /\ call.kind = "GET" /\ call' = [call EXCEPT !.at = "served", !.got = Shows(google)]
          /\ UNCHANGED <<google, ticks>>
       \/ /\ allowed /\ google' = Effect(google, call.action, call.ids)
          /\ \/ call' = [call EXCEPT !.at = "served", !.got = Shows(google')] /\ UNCHANGED ticks
             \/ Tick /\ lost
       \/ allowed /\ Leaves(google, call.action) /\ Tick /\ google' = Keeps(google) /\ lost
       \/ call.kind = "POST" /\ ~allowed /\ lost /\ UNCHANGED <<google, ticks>>
       \/ Tick /\ lost /\ UNCHANGED google
    /\ UNCHANGED <<shown, choice, panel, saved>>

\* _callback(): the person signs in, to the same account or to another one, or the sign-in
\* fails; the timer of a failed one goes on until the browser has shown the outcome.
SignInEnds ==
    /\ google.state = "authorizing" /\ Tick
    /\ \/ \E same \in {google.account, FALSE} :
            google' = [Moved(google, "choosing", "calendars")
                         EXCEPT !.account = TRUE, !.expiring = FALSE,
                                !.cals = IF same THEN @ ELSE {},
                                !.selected = IF same THEN @ ELSE {}]
       \/ \E e \in BOOLEAN :
            google' = [Moved(google, Lapsed(google), "none") EXCEPT !.expiring = e]

\* _expire_flow().
SignInExpires ==
    /\ google.expiring /\ Tick
    /\ google' = [Moved(google, Lapsed(google), google.work) EXCEPT !.expiring = FALSE]

\* _run(): the list of calendars or the events arrive, or Google refuses them.
WorkerEnds ==
    \/ /\ google.work = "calendars" /\ UNCHANGED ticks
       /\ \E c \in SUBSET Cals : google' = [Moved(google, google.state, "none")
                                                EXCEPT !.cals = c, !.selected = @ \cap c]
    \/ google.work = "events" /\ UNCHANGED ticks /\ google' = Moved(google, "connected", "none")
    \/ /\ google.work # "none" /\ Tick
       /\ google' \in {Moved(google, s, "none") : s \in {"reauth_required", google.state}}

\* _loop().
SyncsAgain ==
    /\ google.state = "connected" /\ google.selected # {} /\ google.work = "none" /\ Tick
    /\ google' = [google EXCEPT !.work = "events"]

GoogleActs ==
    /\ SignInEnds \/ SignInExpires \/ WorkerEnds \/ SyncsAgain
    /\ UNCHANGED <<shown, choice, panel, call, saved>>

CalendarNext ==
    PollFires \/ Checks \/ ReadSettles \/ Commands \/ CommandSettles \/ Chooses \/ Answered
    \/ GoogleActs

CalendarSpec == CalendarInit /\ [][CalendarNext]_calendarVars

-----------------------------------------------------------------------------
(* Properties. *)

\* "Keep every still-present local choice, but never submit an id no longer shown"
\* (calendar.js): what Save sends is what is ticked among the calendars listed, and
\* an answer that arrives while the person chooses removes no tick of a calendar
\* that is still there.
ChoiceIsListed ==
    /\ saved'.ids \subseteq saved'.of
    /\ choice.open /\ choice'.open /\ call # NoCall /\ call' = NoCall
         => choice.ids \cap shown'.cals \subseteq choice'.ids

\* The panel of a connection that is available never stops asking: whatever fails,
\* is refused or is aborted, a poll is due, or a request is in flight whose end
\* makes one due (calendar.js, schedule).
CalendarIsPolled ==
    shown # NoSnapshot /\ shown.state # "unavailable" => panel.timer \/ call.kind # "none"
=============================================================================
