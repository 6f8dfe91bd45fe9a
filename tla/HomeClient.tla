----------------------------- MODULE HomeClient -----------------------------
(***************************************************************************)
(* createHomeClient of web/chat/client.js: the one connection of the page  *)
(* to the local service.  It polls the state, sends messages from an       *)
(* outbox kept for each chat, and runs the control commands of the other   *)
(* panels; every answer carries a whole snapshot and replaces the one      *)
(* shown.  The service, the network and the person are the environment.    *)
(***************************************************************************)
EXTENDS Integers, FiniteSets

CONSTANTS Chats,       \* chats of the catalog
          NoChat,
          MaxTexts,    \* bound: drafts the person writes
          MaxSends,    \* bound: request ids used for messages
          HomeBudgets  \* bounds of a behaviour: texts, sends, commands on their way at
                       \* a time, faults, and whether it calms down

\* What the constants are assumed to be.
HomeAssumption ==
    /\ NoChat \notin Chats /\ Chats # {} /\ {MaxTexts, MaxSends} \subseteq Nat
    /\ HomeBudgets \subseteq [texts : 0 .. MaxTexts, sends : 0 .. MaxSends, flights : Nat,
                              faults : Nat, calms : BOOLEAN]

VARIABLES
    srv,     \* what the service would answer
    late,    \* messages the service may still take after the client gave up
    ui,      \* the closure of createHomeClient
    flight,  \* its requests, by lane
    sent,    \* history: the text of each request id
    typed,   \* history: how many texts the person wrote
    freed,   \* history: texts the person may send again
    limit,   \* bound: the budget of this behaviour
    faults,  \* bound: broken connections, reloads and times the page was hidden
    quiet    \* bound: the person, the service's own work and the faults are over

homeVars == <<srv, late, ui, flight, sent, typed, freed, limit, faults, quiet>>

Texts == 1 .. MaxTexts
NoText == 0
Rids == 1 .. MaxSends
NoRid == 0

State == [active : Chats, accepted : SUBSET Rids, busy : BOOLEAN, recovery : BOOLEAN]
NoState == [active |-> NoChat, accepted |-> {}, busy |-> FALSE, recovery |-> FALSE]

NoPend == [rid |-> NoRid, text |-> NoText, status |-> "none"]
Pend == {NoPend} \cup
    [rid : Rids, text : Texts, status : {"sending", "unconfirmed", "rejected"}]
Box == [draft : Texts \cup {NoText}, pend : Pend]

\* mutate; control; and the commands outside the conversation lane; the library
\* has a request of its own and hands its answer to acceptWorkspace.
Lanes == {"poll", "mutate", "control", "side", "library"}
NoReq == [st |-> "none", op |-> "none", chat |-> NoChat, rid |-> NoRid, answer |-> NoState]
Req == [st : {"none", "sent", "answered", "refused", "lost"}, op : {"none", "message", "recover"},
        chat : Chats \cup {NoChat}, rid : Rids \cup {NoRid}, answer : State \cup {NoState}]

HomeTypeOK ==
    /\ srv \in State /\ late \subseteq Rids
    /\ ui \in [snap : State \cup {NoState}, connection : {"loading", "connected", "offline"},
               sending : BOOLEAN, changing : BOOLEAN, boxes : [Chats -> Box],
               timer : BOOLEAN, stopped : BOOLEAN]
    /\ flight \in [Lanes -> Req]
    /\ typed \in 0 .. MaxTexts
    /\ sent \in [Rids -> Texts \cup {NoText}] /\ freed \subseteq Texts
    /\ limit \in HomeBudgets /\ faults \in 0 .. limit.faults /\ quiet \in BOOLEAN

\* The chats are alike: which one is open at first makes no difference.
HomeInit ==
    /\ srv \in [active : {CHOOSE c \in Chats : TRUE}, accepted : {{}}, busy : {FALSE}, recovery : BOOLEAN]
    /\ late = {}
    /\ ui = [snap |-> NoState, connection |-> "loading", sending |-> FALSE, changing |-> FALSE,
             boxes |-> [c \in Chats |-> [draft |-> NoText, pend |-> NoPend]],
             timer |-> FALSE, stopped |-> TRUE]
    /\ flight = [l \in Lanes |-> NoReq]
    /\ sent = [r \in Rids |-> NoText] /\ typed = 0 /\ freed = {}
    /\ limit \in HomeBudgets /\ faults = 0 /\ quiet = FALSE

-----------------------------------------------------------------------------
(* Operators on the closure.  The chat in view is that of the snapshot, and *)
(* the outbox in storage is always the one in memory: persist follows every *)
(* change of it.                                                            *)

Active == ui.snap.active
Shown == ui.snap # NoState
Here == ui.boxes[Active]

\* Mutant: the draft is cleared with the message, whatever was typed since.
MutReconciled(boxes, chat, accepted) ==
    IF boxes[chat].pend.rid \in accepted
    THEN [boxes EXCEPT ![chat] = [draft |-> NoText, pend |-> NoPend]]
    ELSE boxes

Reconciled(boxes, chat, accepted) ==
    IF boxes[chat].pend.rid \in accepted
    THEN [boxes EXCEPT ![chat] =
            [draft |-> IF @.draft = @.pend.text THEN NoText ELSE @.draft, pend |-> NoPend]]
    ELSE boxes

Accepted(u, s) ==
    [u EXCEPT !.snap = s, !.connection = "connected",
              !.boxes = Reconciled(@, s.active, s.accepted)]

\* queue(): a poll is scheduled unless the page is hidden.
Queued(u) == [u EXCEPT !.timer = ~u.stopped]

\* abortPoll: the generation moves on, so the answer of a poll is not used.
Aborted(f) == [f EXCEPT !["poll"] = NoReq]

\* abortPoll and the start of a request.
Asks(lane, req, u) ==
    /\ Cardinality({l \in Lanes \ {"poll"} : flight[l].st # "none"}) < limit.flights
    /\ flight[lane].st = "none"
    /\ flight' = [Aborted(flight) EXCEPT ![lane] = [req EXCEPT !.st = "sent"]]
    /\ ui' = [u EXCEPT !.timer = FALSE]

\* The poll that start and refresh run at once, and the timer after a while.
PollsNow(u) ==
    IF u.stopped \/ u.sending \/ u.changing
    THEN ui' = [u EXCEPT !.timer = FALSE] /\ flight' = Aborted(flight)
    ELSE /\ ui' = [u EXCEPT !.timer = FALSE]
         /\ flight' = [flight EXCEPT !["poll"] = [NoReq EXCEPT !.st = "sent"]]

CanManage ==
    /\ ui.connection = "connected" /\ ~ui.snap.busy /\ ~ui.snap.recovery
    /\ ~ui.sending /\ ~ui.changing /\ Here.pend = NoPend

\* Mutant: a message whose delivery is unknown does not hold up the next.
MutCanSend ==
    /\ ui.connection = "connected" /\ ~ui.snap.busy /\ ~ui.snap.recovery
    /\ ~ui.sending /\ ~ui.changing
    /\ Here.draft # NoText

CanSend ==
    /\ ui.connection = "connected" /\ ~ui.snap.busy /\ ~ui.snap.recovery
    /\ ~ui.sending /\ ~ui.changing
    /\ Here.pend.status # "unconfirmed" /\ Here.draft # NoText

-----------------------------------------------------------------------------
(* What the person and the page do. *)

Env == UNCHANGED <<srv, late, limit, faults, quiet>>

Types ==
    /\ ~quiet /\ Shown
    /\ typed < limit.texts /\ typed' = typed + 1
    /\ ui' = [ui EXCEPT !.boxes[Active].draft = typed',
                        !.boxes[Active].pend = IF @.status = "rejected" THEN NoPend ELSE @]
    /\ UNCHANGED <<flight, sent, freed>> /\ Env

Sends ==
    /\ ~quiet /\ CanSend
    /\ \E r \in Rids :
          /\ r <= limit.sends /\ sent[r] = NoText /\ \A s \in Rids : s < r => sent[s] # NoText
          /\ sent' = [sent EXCEPT ![r] = Here.draft]
          /\ Asks("mutate", [NoReq EXCEPT !.op = "message", !.chat = Active, !.rid = r],
                  [ui EXCEPT !.sending = TRUE,
                             !.boxes[Active].pend =
                                [rid |-> r, text |-> Here.draft, status |-> "sending"]])
    /\ UNCHANGED <<typed, freed>> /\ Env

Recovers ==
    /\ ~quiet /\ ui.connection = "connected" /\ ui.snap.recovery /\ ~ui.snap.busy /\ ~ui.sending
    /\ Asks("mutate", [NoReq EXCEPT !.op = "recover", !.chat = Active],
            [ui EXCEPT !.sending = TRUE])
    /\ UNCHANGED <<sent, typed, freed>> /\ Env

\* The person decides that an unconfirmed message may be sent again.
ReturnsToDraft ==
    /\ ~quiet /\ Shown /\ Here.pend.status = "unconfirmed"
    /\ ui.connection = "connected" /\ ~ui.snap.busy /\ ~ui.sending
    /\ ui' = [ui EXCEPT !.boxes[Active] = [draft |-> @.pend.text, pend |-> NoPend]]
    /\ freed' = freed \cup {Here.pend.text}
    /\ UNCHANGED <<flight, sent, typed>> /\ Env

\* The setup commands need less than canManage.
Controls ==
    /\ ~quiet
    /\ CanManage \/ (ui.connection = "connected" /\ ~ui.sending /\ ~ui.changing
                       /\ ~ui.snap.busy /\ ~ui.snap.recovery)
    /\ Asks("control", NoReq, [ui EXCEPT !.changing = TRUE])
    /\ UNCHANGED <<sent, typed, freed>> /\ Env

\* requestReturn, contextCommand and homeCommand, activityControl.
Commands ==
    /\ ~quiet
    /\ \/ ui.connection = "connected" /\ ~ui.snap.busy /\ ~ui.sending /\ ~ui.changing
       \/ ui.connection = "connected"
       \/ ~ui.sending /\ ~ui.changing
    /\ Asks("side", NoReq, ui)
    /\ UNCHANGED <<sent, typed, freed>> /\ Env

\* The chat library asks the service itself; no poll is aborted before its answer.
LibraryAsks ==
    /\ ~quiet /\ Shown /\ CanManage /\ flight["library"].st = "none"
    /\ flight' = [flight EXCEPT !["library"] = [NoReq EXCEPT !.st = "sent"]]
    /\ UNCHANGED <<ui, sent, typed, freed>> /\ Env

Refreshes ==
    /\ ~quiet /\ ~ui.sending /\ ~ui.changing /\ ~ui.stopped
    /\ PollsNow(ui)
    /\ UNCHANGED <<sent, typed, freed>> /\ Env

\* pageshow and pagehide.
Starts ==
    /\ ui.stopped
    /\ PollsNow([ui EXCEPT !.stopped = FALSE])
    /\ UNCHANGED <<sent, typed, freed>> /\ Env

Stops ==
    /\ ~quiet /\ ~ui.stopped
    /\ faults < limit.faults /\ faults' = faults + 1
    /\ ui' = [ui EXCEPT !.stopped = TRUE, !.timer = FALSE]
    /\ flight' = Aborted(flight)
    /\ UNCHANGED <<srv, late, sent, typed, freed, limit, quiet>>

\* The page is loaded again: what it asked for may still reach the service.
Reloads ==
    /\ ~quiet
    /\ late' = late \cup ({flight[l].rid : l \in {k \in Lanes : flight[k].st = "sent"}} \ {NoRid})
    /\ flight' = [l \in Lanes |-> NoReq]
    /\ ui' = [snap |-> NoState, connection |-> "loading", sending |-> FALSE, changing |-> FALSE,
              boxes |-> [c \in Chats |->
                  [ui.boxes[c] EXCEPT !.pend = IF @ = NoPend THEN @
                                               ELSE [@ EXCEPT !.status = "unconfirmed"]]],
              timer |-> FALSE, stopped |-> TRUE]
    /\ UNCHANGED <<srv, sent, typed, freed, limit, quiet>>
    /\ faults < limit.faults /\ faults' = faults + 1

-----------------------------------------------------------------------------
(* The service and the network. *)

\* send().  A journal write that fails after it leaves the message taken with no turn, and an
\* answer the client cannot tell from a lost one: the same as one taken late whose turn is over.
Takes(s, r) == [s EXCEPT !.accepted = @ \cup {r}, !.busy = TRUE]
CanTake(q) == srv.active = q.chat /\ ~srv.busy /\ ~srv.recovery

\* The states a request may leave the service in, and whether it is refused.
Outcomes(l) ==
    LET q == flight[l] IN
    CASE q.op = "message" -> IF q.rid \in srv.accepted THEN {<<srv, "answered">>}
                             ELSE IF CanTake(q) THEN {<<Takes(srv, q.rid), "answered">>}
                             ELSE {<<srv, "refused">>}
      [] q.op = "recover" -> IF srv.recovery /\ ~srv.busy
                             THEN {<<[srv EXCEPT !.recovery = FALSE], "answered">>}
                             ELSE {<<srv, "refused">>}
      [] l \in {"control", "library"} ->
            IF srv.busy \/ srv.recovery THEN {<<srv, "refused">>}
            ELSE {<<[srv EXCEPT !.active = c], "answered">> : c \in Chats}
      [] OTHER -> {<<srv, "answered">>} \cup (IF l = "poll" THEN {} ELSE {<<srv, "refused">>})

Serves(l) ==
    /\ flight[l].st = "sent"
    /\ \E o \in Outcomes(l) :
          /\ srv' = o[1]
          /\ flight' = [flight EXCEPT ![l].st = o[2],
                                      ![l].answer = IF o[2] = "answered" THEN o[1] ELSE NoState]
    /\ UNCHANGED <<late, ui, sent, typed, freed, limit, faults, quiet>>

\* The connection breaks, or the deadline passes: before or after the service
\* took the request.
Breaks(l) ==
    /\ ~quiet /\ flight[l].st \in {"sent", "answered", "refused"}
    /\ flight' = [flight EXCEPT ![l].st = "lost", ![l].answer = NoState]
    /\ late' = late \cup (IF flight[l].st = "sent" THEN {flight[l].rid} \ {NoRid} ELSE {})
    /\ UNCHANGED <<srv, ui, sent, typed, freed, limit, quiet>>
    /\ faults < limit.faults /\ faults' = faults + 1

TakesLate ==
    /\ \E r \in late :
          /\ late' = late \ {r}
          /\ srv' = IF r \notin srv.accepted /\ ~srv.busy /\ ~srv.recovery
                    THEN Takes(srv, r) ELSE srv
    /\ UNCHANGED <<ui, flight, sent, typed, freed, limit, faults, quiet>>

\* The turn of a message ends.
ServiceWorks ==
    /\ ~quiet /\ srv.busy
    /\ srv' = [srv EXCEPT !.busy = FALSE]
    /\ UNCHANGED <<late, ui, flight, sent, typed, freed, limit, faults, quiet>>

CalmsDown == limit.calms /\ ~quiet /\ quiet' = TRUE /\ UNCHANGED <<srv, late, ui, flight, sent, typed, freed, limit, faults>>

-----------------------------------------------------------------------------
(* What the client does with an answer. *)

TimerFires ==
    /\ ui.timer
    /\ PollsNow(ui)
    /\ UNCHANGED <<sent, typed, freed>> /\ Env

\* Mutant: a poll that fails is the last one.
MutPollSettles ==
    /\ flight["poll"].st \in {"answered", "lost"}
    /\ ui' = IF flight["poll"].st = "answered" THEN Queued(Accepted(ui, flight["poll"].answer))
             ELSE [ui EXCEPT !.connection = "offline"]
    /\ flight' = Aborted(flight)
    /\ UNCHANGED <<sent, typed, freed>> /\ Env

PollSettles ==
    /\ flight["poll"].st \in {"answered", "lost"}
    /\ ui' = Queued(IF flight["poll"].st = "answered" THEN Accepted(ui, flight["poll"].answer)
                    ELSE [ui EXCEPT !.connection = "offline"])
    /\ flight' = Aborted(flight)
    /\ UNCHANGED <<sent, typed, freed>> /\ Env

\* mutate, try and catch: its message belongs to the chat it was sent from.  A
\* failed recovery marks the message that waits there as well.
Mutated(u, q) ==
    IF q.st = "answered"
    THEN IF q.chat = u.snap.active THEN Accepted(u, q.answer)
         ELSE [u EXCEPT !.boxes = Reconciled(@, q.chat, q.answer.accepted)]
    ELSE [u EXCEPT !.boxes[q.chat].pend =
            IF @ = NoPend THEN @
            ELSE [@ EXCEPT !.status = IF q.st = "refused" THEN "rejected" ELSE "unconfirmed"]]

MutateSettles ==
    LET q == flight["mutate"] IN
    /\ q.st \notin {"none", "sent"}
    /\ ui' = Queued([Mutated(ui, q) EXCEPT !.sending = FALSE])
    /\ flight' = [flight EXCEPT !["mutate"] = NoReq]
    /\ freed' = IF q.op = "recover" /\ q.st = "refused"
                THEN freed \cup ({ui.boxes[q.chat].pend.text} \ {NoText}) ELSE freed
    /\ UNCHANGED <<sent, typed>> /\ Env

\* Mutant: only an answer schedules the next poll.
MutSideSettles ==
    /\ flight["side"].st \notin {"none", "sent"}
    /\ ui' = IF flight["side"].st = "answered" THEN Queued(Accepted(ui, flight["side"].answer)) ELSE ui
    /\ flight' = [flight EXCEPT !["side"] = NoReq]
    /\ UNCHANGED <<sent, typed, freed>> /\ Env

\* The commands: the answer is accepted, and a poll follows in any case.
SideSettles ==
    /\ flight["side"].st \notin {"none", "sent"}
    /\ ui' = Queued(IF flight["side"].st = "answered" THEN Accepted(ui, flight["side"].answer) ELSE ui)
    /\ flight' = [flight EXCEPT !["side"] = NoReq]
    /\ UNCHANGED <<sent, typed, freed>> /\ Env

ControlSettles ==
    LET q == flight["control"] IN
    /\ q.st \notin {"none", "sent"}
    /\ ui' = Queued([(IF q.st = "answered" THEN Accepted(ui, q.answer) ELSE ui)
                        EXCEPT !.changing = FALSE])
    /\ flight' = [flight EXCEPT !["control"] = NoReq]
    /\ UNCHANGED <<sent, typed, freed>> /\ Env

\* acceptWorkspace; a failure concerns the library only.
LibrarySettles ==
    LET q == flight["library"] IN
    /\ q.st \notin {"none", "sent"}
    /\ IF q.st = "answered"
       THEN /\ ui' = Queued(Accepted(ui, q.answer))
            /\ flight' = [Aborted(flight) EXCEPT !["library"] = NoReq]
       ELSE UNCHANGED ui /\ flight' = [flight EXCEPT !["library"] = NoReq]
    /\ UNCHANGED <<sent, typed, freed>> /\ Env

-----------------------------------------------------------------------------

Settles ==
    \/ PollSettles \/ MutateSettles \/ ControlSettles \/ SideSettles \/ LibrarySettles

HomeNext ==
    \/ Types \/ Sends \/ Recovers \/ ReturnsToDraft \/ Controls \/ Commands \/ LibraryAsks
    \/ Refreshes \/ Starts \/ Stops \/ Reloads
    \/ \E l \in Lanes : Serves(l) \/ Breaks(l)
    \/ TakesLate \/ ServiceWorks \/ CalmsDown
    \/ TimerFires \/ Settles

HomeSpec == HomeInit /\ [][HomeNext]_homeVars

\* The event loop runs what is due, and the service answers what it was asked.
HomeFair ==
    /\ WF_homeVars(TimerFires) /\ WF_homeVars(Settles)
    /\ WF_homeVars(\E l \in Lanes : Serves(l))

HomeFairSpec == HomeSpec /\ HomeFair

-----------------------------------------------------------------------------
(* Properties. *)

\* Unless the page is hidden, the next poll is on its way: in flight, scheduled,
\* or due when a command settles, whatever was aborted, refused or answered late.
PollGoesOn ==
    ui.stopped \/ ui.timer \/ flight["poll"].st # "none"
    \/ \E l \in {"mutate", "control", "side"} : flight[l].st # "none"

\* What was typed is not lost when chats are switched, answers come late or the page
\* is loaded again: a draft only goes for a newer one, once the service has taken it,
\* or for the unconfirmed message the person takes back.
DraftKept ==
    \A c \in Chats : LET b == ui.boxes[c]
                         n == ui'.boxes[c].draft IN
      n # b.draft => \/ n > b.draft
                     \/ \E r \in srv.accepted : sent[r] = b.draft
                     \/ b.pend.status = "unconfirmed" /\ n = b.pend.text

\* The service takes a text at most once, through lost answers, reloads and
\* requests that arrive late, unless the person took it back to the draft (or a
\* recovery was refused while its delivery was unknown: client.js 249).
SentOnce ==
    \A t \in Texts \ freed : Cardinality({r \in srv.accepted : sent[r] = t}) <= 1

\* When everything has calmed down the page comes to show the state of the service, and
\* no message it has accepted is left as unconfirmed (Calm ~> ShowsTheState).
Calm == quiet /\ ~ui.stopped
ShowsTheState == ui.snap = srv /\ ui.boxes[Active].pend.rid \notin srv.accepted
=============================================================================
