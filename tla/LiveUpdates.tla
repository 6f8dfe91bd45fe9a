----------------------------- MODULE LiveUpdates -----------------------------
(***************************************************************************)
(* The small card that announces a reply or a check-in: the queue of       *)
(* web/chat/update-queue.js and its host web/chat/live-updates.js.  The    *)
(* page learns of an update from the rows of a conversation and from the   *)
(* stream of the check-in being written, in whatever state the next        *)
(* snapshot finds them.  Rows and frames of a check-in both carry its      *)
(* event id (runtime_contract.py 215, proactive.py 738), so all the keys   *)
(* of an update join to one: the update itself.                            *)
(***************************************************************************)
EXTENDS Integers, FiniteSets, Sequences, Functions, Lists

CONSTANTS Convos, CheckIns, Replies,
          NoConvo, NoUpdate,
          SeenCap,      \* keys of seen updates kept (200 in the code)
          QueueCap,     \* updates that wait (20 in the code)
          UpdateBudgets \* bound: updates said, and times the page, the chat or the window changes

VARIABLES
    speech,  \* the service: rows of each conversation, the stream, the open chat
    card,    \* the closures of createUpdateQueue and createLiveUpdates
    kept,    \* localStorage: what each conversation has seen
    view,    \* what covers the card
    heard,   \* history: updates that were shown, read in the chat, old, or withdrawn
    closed,  \* history: updates that were shown and taken off the card, or presented elsewhere
    room     \* bound: what is left of the budget of this behaviour

updateVars == <<speech, card, kept, view, heard, closed, room>>

Updates == CheckIns \cup Replies
Frame == [item : CheckIns \cup {NoUpdate}, status : {"none", "writing", "complete", "interrupted"}]
NoFrame == [item |-> NoUpdate, status |-> "none"]
Item == [id : Updates, status : {"writing", "complete"}]
NoItem == [id |-> NoUpdate, status |-> "none"]
Unread == [read |-> FALSE, seen |-> <<>>, gone |-> <<>>]

Said == UNION {Range(speech.rows[c]) : c \in Convos}
Visible == ~view.away /\ ~view.chat

UpdatesTypeOK ==
    /\ speech \in [rows : [Convos -> Seq(Updates)], stream : Frame, open : Convos,
                   begun : SUBSET CheckIns, reply : BOOLEAN]
    /\ card.convo \in Convos \cup {NoConvo}
    /\ Range(card.seen) \cup Range(card.gone) \subseteq Updates
    /\ card.active \in Item \cup {NoItem} /\ card.queue \in Seq(Item)
    /\ {card.shown, card.ended} \subseteq Updates \cup {NoUpdate}
    /\ {card.hidden, card.timer, card.paused} \subseteq BOOLEAN
    /\ \A c \in Convos : Range(kept[c].seen) \cup Range(kept[c].gone) \subseteq Updates
    /\ view \in [away : BOOLEAN, chat : BOOLEAN]
    /\ heard \subseteq Updates /\ closed \subseteq Updates
    /\ Len(card.queue) <= QueueCap /\ room \in [said : Nat, moves : Nat]

NewCard == [convo |-> NoConvo, seen |-> <<>>, gone |-> <<>>, active |-> NoItem, queue |-> <<>>,
            kept |-> Unread, shown |-> NoUpdate, ended |-> NoUpdate,
            hidden |-> TRUE, timer |-> FALSE, paused |-> FALSE]

\* The conversations are alike: which one is open at first makes no difference.
UpdatesInit ==
    /\ \E old \in {<<>>} \cup {<<r>> : r \in Replies}, c \in {CHOOSE d \in Convos : TRUE} :
         speech = [rows |-> [d \in Convos |-> IF d = c THEN old ELSE <<>>],
                   stream |-> NoFrame, begun |-> {}, open |-> c, reply |-> FALSE]
    /\ card = NewCard
    /\ kept = [c \in Convos |-> Unread]
    /\ view = [away |-> FALSE, chat |-> FALSE]
    /\ heard = {} /\ closed = {} /\ room \in UpdateBudgets

-----------------------------------------------------------------------------
(* update-queue.js, on a card k. *)

Latest(s, n) == SubSeq(s, IF Len(s) > n THEN Len(s) - n + 1 ELSE 1, Len(s))
Add(s, x) == IF x \in Range(s) THEN s ELSE Append(s, x)
Ids(k) == {k.queue[i].id : i \in DOMAIN k.queue}
Waiting(not) == {q \in Item : q.id \notin not}

Persisted(k) ==
    [k EXCEPT !.kept = [read |-> TRUE, seen |-> Latest(k.seen, SeenCap), gone |-> Latest(k.gone, SeenCap)]]

Marked(k, i) == Persisted([k EXCEPT !.seen = Latest(Add(@, i), SeenCap)])

\* Mutant: dismissing what is being written only marks it seen.
MutTombstoned(k, i) == Persisted([k EXCEPT !.seen = Add(@, i)])

Tombstoned(k, i) ==
    Persisted([k EXCEPT !.seen = Add(@, i), !.gone = Latest(Add(@, i), SeenCap)])

Forgotten(k, i) ==
    [k EXCEPT !.active = IF @.id = i THEN NoItem ELSE @,
              !.queue = Only(@, Waiting({i}))]

Enqueued(k, i, status, allowSeen) ==
    IF \/ i \in Range(k.gone) \/ (~allowSeen /\ i \in Range(k.seen))
       \/ k.active.id = i \/ i \in Ids(k)
    THEN k
    ELSE [k EXCEPT !.queue = Latest(Append(@, [id |-> i, status |-> status]), QueueCap)]

Activated(k, visible) ==
    IF visible /\ k.active = NoItem /\ k.queue # <<>>
    THEN [k EXCEPT !.active = Head(k.queue), !.queue = Tail(k.queue)]
    ELSE k

\* The status of an update that waits or is shown.
Became(k, i, status) ==
    [k EXCEPT !.active = IF @.id = i THEN [@ EXCEPT !.status = status] ELSE @,
              !.queue = [q \in DOMAIN @ |->
                            IF @[q].id = i THEN [@[q] EXCEPT !.status = status] ELSE @[q]]]

\* Mutant: an existing conversation is not taken as read when it is first opened.
MutSwitched(k, c, rows, frame) ==
    LET saved == kept[c]
        n == [k EXCEPT !.convo = c, !.active = NoItem, !.queue = <<>>,
                       !.kept = saved, !.seen = saved.seen, !.gone = saved.gone]
        p == IF saved.read THEN n ELSE Persisted(n)
    IN  IF frame.status = "writing" THEN Enqueued(p, frame.item, "writing", TRUE) ELSE p

Switched(k, c, rows, frame) ==
    LET saved == kept[c]
        n == [k EXCEPT !.convo = c, !.active = NoItem, !.queue = <<>>, !.kept = saved,
                       !.seen = IF saved.read THEN saved.seen ELSE rows,
                       !.gone = saved.gone]
        p == IF saved.read THEN n ELSE Persisted(n)
    IN  IF frame.status = "writing" THEN Enqueued(p, frame.item, "writing", TRUE) ELSE p

\* synchronizeSeen: what another window of the page has shown since.
Synchronized(k) ==
    LET saved == kept[k.convo]
        external == Range(saved.seen) \ Range(k.seen) IN
    [k EXCEPT !.kept = saved,
              !.seen = @ \o Only(saved.seen, external),
              !.queue = Only(@, Waiting(external)),
              !.active = IF @.status # "writing" /\ @.id \in external THEN NoItem ELSE @]

\* One row: a reply read in the open chat is seen; the row is the final word.
Told(k, i, suppress, defer) ==
    IF i \in Replies /\ suppress /\ ~defer THEN Forgotten(Marked(k, i), i)
    ELSE IF k.active.id = i \/ i \in Ids(k) THEN Became(k, i, "complete")
    ELSE Enqueued(k, i, "complete", FALSE)

Status(k, i) ==
    IF k.active.id = i THEN k.active.status
    ELSE IF i \in Ids(k) THEN "waits" ELSE "none"

Streamed(k, frame) ==
    CASE frame.status = "none" -> k
      [] frame.status = "interrupted" -> Forgotten(Marked(k, frame.item), frame.item)
      [] OTHER ->
           LET final == \/ k.active = [id |-> frame.item, status |-> "complete"]
                        \/ [id |-> frame.item, status |-> "complete"] \in Range(k.queue) IN
           IF Status(k, frame.item) # "none" /\ ~(final /\ frame.status = "writing")
           THEN Became(k, frame.item, frame.status)
           ELSE Enqueued(k, frame.item, frame.status, frame.status = "writing")

\* The rows, one after the other.
Heeded(k, rows, suppress, defer) ==
    LET after[n \in 0 .. Len(rows)] ==
          IF n = 0 THEN k ELSE Told(after[n - 1], rows[n], suppress, defer)
    IN  after[Len(rows)]

First(c) == card.convo # c /\ ~kept[c].read

\* reconcile: the snapshot s of the service, with the card visible or covered.
Reconciled(k, s, visible, suppress, defer) ==
    LET c == s.open
        rows == s.rows[c]
        start == IF k.convo # c THEN Switched(k, c, rows, s.stream) ELSE Synchronized(k)
        told == IF First(c) THEN start
                ELSE Heeded(start, rows, suppress, defer)
    IN  Activated(Streamed(told, s.stream), visible)

-----------------------------------------------------------------------------
(* live-updates.js. *)

\* Mutant: what is next is acknowledged even while the card is covered.
MutRendered(k, visible) ==
    IF k.active = NoItem THEN [k EXCEPT !.hidden = TRUE, !.timer = FALSE]
    ELSE [Marked(k, k.active.id) EXCEPT !.hidden = ~visible, !.shown = k.active.id,
                                        !.timer = FALSE]

Rendered(k, visible) ==
    IF k.active = NoItem \/ ~visible THEN [k EXCEPT !.hidden = TRUE, !.timer = FALSE]
    ELSE LET new == k.shown # k.active.id
             p == IF new THEN [Marked(k, k.active.id) EXCEPT !.shown = k.active.id,
                                                             !.ended = NoUpdate]
                  ELSE k
             done == k.active.status = "complete"
         IN  [p EXCEPT !.hidden = FALSE,
                       !.ended = IF done THEN k.active.id ELSE @,
                       !.timer = IF done /\ (p.ended # k.active.id \/ k.hidden)
                                 THEN ~k.paused ELSE @]

\* What is on the card, and was seen there.
OnCard == {card.active.id} \cap {card.shown} \cap Updates

\* The card after a step that presents more elsewhere: its seen list is stored, and what it
\* shows is heard.
Becomes(k, more) ==
    /\ card' = k
    /\ kept' = IF k.convo = NoConvo THEN kept ELSE [kept EXCEPT ![k.convo] = k.kept]
    /\ heard' = heard \cup more \cup (IF k.hidden THEN {} ELSE {k.active.id})
    /\ closed' = closed \cup more \cup (OnCard \ {k.active.id})

\* update: the snapshot the page has is reconciled and the card drawn again.
Deferred(v) == v.chat /\ speech.reply
Drawn(k, v) ==
    LET visible == ~v.away /\ ~v.chat
    IN  Rendered(Reconciled(k, speech, visible, v.chat, Deferred(v)), visible)

\* What that presents elsewhere: old rows, replies read in the chat, a withdrawn draft.
Elsewhere(v) ==
    LET rows == Range(speech.rows[speech.open]) IN
    (IF First(speech.open) THEN rows ELSE {})
    \cup (IF v.chat /\ ~Deferred(v) THEN rows \cap Replies ELSE {})
    \cup (IF speech.stream.status = "interrupted" THEN {speech.stream.item} ELSE {})

Shows(k, v) == Becomes(Drawn(k, v), Elsewhere(v))

\* A snapshot arrives, or the storage event of another window.
Updated == Shows(card, view) /\ UNCHANGED <<speech, view, room>>

\* dismiss: by the button, by Open, or by the timer.
Dismissed(k, visible) ==
    LET m == IF k.active.status = "writing" THEN Tombstoned(k, k.active.id)
             ELSE Marked(k, k.active.id)
        n == IF k.active = NoItem THEN k ELSE Activated([m EXCEPT !.active = NoItem], TRUE)
    IN  Rendered([n EXCEPT !.timer = FALSE, !.shown = NoUpdate, !.ended = NoUpdate], visible)

Dismiss ==
    /\ ~card.hidden /\ Becomes(Dismissed(card, Visible), {})
    /\ UNCHANGED <<speech, view, room>>

TimerFires ==
    /\ card.timer /\ card.active # NoItem /\ Becomes(Dismissed(card, Visible), {})
    /\ UNCHANGED <<speech, view, room>>

\* The Open button: the chat opens, and what is then on the card is dismissed.
Opens ==
    LET v == [view EXCEPT !.chat = TRUE] IN
    /\ ~card.hidden /\ view' = v
    /\ Becomes(Dismissed(Drawn(card, v), FALSE), Elsewhere(v))
    /\ UNCHANGED <<speech, room>>

Moves == room.moves > 0 /\ room' = [room EXCEPT !.moves = @ - 1]

\* The pointer or the keyboard enters and leaves the card.
Points ==
    /\ ~card.hidden \/ card.paused
    /\ card' = [card EXCEPT !.paused = ~@,
                            !.timer = card.paused /\ Visible /\ card.active.status = "complete"]
    /\ Moves /\ UNCHANGED <<speech, kept, view, heard, closed>>

\* The chat is opened or closed, a dialog or the tab covers the page: each updates
\* the card, and coming back restarts its timer.
Covers ==
    /\ \E v \in [away : BOOLEAN, chat : BOOLEAN] :
         /\ v # view /\ view' = v
         /\ IF card.convo = NoConvo THEN UNCHANGED <<card, kept, heard, closed>>
            ELSE Shows(card, v)
    /\ Moves /\ UNCHANGED speech

\* Another window of the page shows an update, at the same snapshot.
OtherShows ==
    /\ \E i \in Range(speech.rows[speech.open]) \ Range(kept[speech.open].seen) :
         /\ kept[speech.open].read
         /\ kept' = [kept EXCEPT ![speech.open].seen = Append(@, i)]
         /\ heard' = heard \cup {i}
    /\ Moves /\ UNCHANGED <<speech, card, view, closed>>

\* The page is loaded again.
Reloaded ==
    /\ card' = NewCard
    /\ closed' = closed \cup (IF card.active.status = "complete" THEN OnCard ELSE {})
    /\ Moves /\ UNCHANGED <<speech, kept, view, heard>>

-----------------------------------------------------------------------------
(* The service (proactive.py, chat_service.py): what it says, and when. *)

Speaks(s) == speech' = s /\ UNCHANGED <<card, kept, view, heard, closed>>

Says == room.said > 0 /\ room' = [room EXCEPT !.said = @ - 1]

CheckInStarts ==
    \E i \in CheckIns \ speech.begun :
        /\ speech.stream.status # "writing"
        /\ Says /\ Speaks([speech EXCEPT !.stream = [item |-> i, status |-> "writing"],
                                         !.begun = @ \cup {i}])

\* The row and the last frame become visible in one step of the service's loop.
CheckInEnds ==
    /\ speech.stream.status = "writing" /\ UNCHANGED room
    /\ \/ Speaks([speech EXCEPT !.stream.status = "complete",
                                !.rows[speech.open] = Append(@, speech.stream.item)])
       \/ Speaks([speech EXCEPT !.stream.status = "interrupted"])

ReplyStarts == ~speech.reply /\ UNCHANGED room /\ Speaks([speech EXCEPT !.reply = TRUE])

ReplyStored ==
    \E i \in Replies \ Said :
        /\ speech.reply
        /\ Says /\ Speaks([speech EXCEPT !.rows[speech.open] = Append(@, i)])

ReplyEnds == speech.reply /\ UNCHANGED room /\ Speaks([speech EXCEPT !.reply = FALSE])

\* Selecting a chat ends the stream (chat_service.py 1136-1170).
Selects ==
    \E c \in Convos \ {speech.open} :
        /\ ~speech.reply
        /\ speech' = [speech EXCEPT !.open = c, !.stream = NoFrame]
        /\ Moves /\ UNCHANGED <<card, kept, view, heard, closed>>

UpdatesNext ==
    \/ CheckInStarts \/ CheckInEnds \/ ReplyStarts \/ ReplyStored \/ ReplyEnds \/ Selects
    \/ Updated \/ Dismiss \/ Opens \/ TimerFires \/ Points \/ Covers \/ OtherShows \/ Reloaded

UpdatesSpec == UpdatesInit /\ [][UpdatesNext]_updateVars

-----------------------------------------------------------------------------
(* Properties. *)

\* Opening a conversation never announces what it already held, and what was
\* dismissed, timed out, read in the chat or shown before the page was loaded again
\* is not announced again, in whatever order rows, frames and windows report it.
\* (A check-in still being written is taken up again after a reload.)
AnnouncedOnce ==
    \A i \in Updates :
      card'.active.id = i /\ card.active.id # i /\ ~card'.hidden
        => i \notin closed

\* An update of the conversation the page shows waits for the card unless it has
\* been presented: none is taken as seen, or dropped, while a dialog, the chat or
\* the tab covers the card.  A queue that was full drops the oldest, and takes it
\* back once there is room for all that wait.
NothingIsLost ==
    LET rows == Range(speech.rows[speech.open])
        unseen == rows \ Range(card'.seen) IN
    /\ Range(card'.seen) \subseteq heard'
    /\ /\ (Updated \/ Covers \/ Opens) /\ card'.convo = speech.open
       /\ Cardinality((rows \ Range(card.seen)) \cup Ids(card) \cup {speech.stream.item}) <= QueueCap
       => unseen \subseteq Ids(card') \cup {card'.active.id}
=============================================================================
