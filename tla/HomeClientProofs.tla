-------------------------- MODULE HomeClientProofs --------------------------
(***************************************************************************)
(* Proofs about HomeClient, for any number of chats, texts, requests and   *)
(* commands: it sends nothing twice, loses no draft and goes on polling.   *)
(* The lemmas on steps are used where HomeClient is one of several parts   *)
(* (ClientsProofs).                                                        *)
(***************************************************************************)
EXTENDS HomeClient, FiniteSetTheorems, TLAPS

-----------------------------------------------------------------------------
(* HomeClient: the outboxes.                                               *)

\* The requests that carry a message the service has taken or may still take.
Mutate == flight["mutate"]
Sending == Mutate.op = "message" /\ Mutate.st = "sent"
AliveRids == srv.accepted \cup late \cup (IF Sending THEN {Mutate.rid} ELSE {})

\* A text belongs to one chat: it is the draft there, or waits there, or both.
Belongs(bs) ==
    \A c, d \in Chats : c # d =>
        /\ bs[c].draft # NoText => bs[c].draft # bs[d].draft /\ bs[c].draft # bs[d].pend.text
        /\ bs[c].pend.text # NoText => bs[c].pend.text # bs[d].pend.text

\* What waits is what was sent, and neither it nor the draft is yet to be written.
Waits(bs, texts, last) ==
    \A c \in Chats :
        /\ bs[c].draft <= last /\ bs[c].pend.text <= last
        /\ bs[c].pend # NoPend => texts[bs[c].pend.rid] = bs[c].pend.text

\* What was rejected is lost to the service; a draft that it may have is the one
\* that waits; and it may have no text twice.  A text the person took back is free.
RejectedIsDead(bs, again, alive) ==
    \A c \in Chats : bs[c].pend.status = "rejected" =>
        bs[c].pend.text \in again \/ bs[c].pend.rid \notin alive
DraftWaits(bs, texts, again, alive) ==
    \A c \in Chats, r \in alive :
        texts[r] = bs[c].draft => bs[c].draft \in again \/ bs[c].pend.rid = r
AliveOnce(texts, again, alive) ==
    \A r, s \in alive : texts[r] = texts[s] => texts[r] \in again \/ r = s

Boxed(bs, texts, last, again, alive) ==
    /\ Belongs(bs) /\ Waits(bs, texts, last)
    /\ RejectedIsDead(bs, again, alive)
    /\ DraftWaits(bs, texts, again, alive)
    /\ AliveOnce(texts, again, alive)

\* What an answer may do to the outbox of a chat: nothing, take what waits as
\* accepted, or say what became of it.
MovesBox(b, n, again, alive) ==
    \/ n = b
    \/ /\ n.pend = NoPend
       /\ n.draft = IF b.draft = b.pend.text THEN NoText ELSE b.draft
    \/ /\ n.draft = b.draft /\ n.pend.rid = b.pend.rid /\ n.pend.text = b.pend.text
       /\ n.pend # NoPend => b.pend # NoPend
       /\ n.pend.status = "rejected" => n.pend.text \in again \/ n.pend.rid \notin alive

LEMMA BoxTyped ==
    ASSUME HomeAssumption, NEW b \in Box
    PROVE  /\ b.draft \in 0 .. MaxTexts /\ b.pend.text \in 0 .. MaxTexts
           /\ b.pend.rid \in 0 .. MaxSends /\ b.pend \in Pend
           /\ b.pend # NoPend => b.pend.rid \in Rids /\ b.pend.text \in Texts
           /\ b.pend = NoPend <=> b.pend.rid = NoRid
           /\ b.pend = NoPend <=> b.pend.text = NoText
           /\ b.pend = NoPend => b.pend.status = "none"
  BY DEF Box, Pend, NoPend, Texts, NoText, Rids, NoRid, HomeAssumption

LEMMA MovesKeepBoxed ==
    ASSUME HomeAssumption, NEW bs \in [Chats -> Box], NEW ns \in [Chats -> Box],
           NEW texts, NEW last, NEW again, NEW alive, NEW again2, NEW alive2,
           texts \in [Rids -> Texts \cup {NoText}], last \in Nat,
           Boxed(bs, texts, last, again, alive),
           again \subseteq again2, alive2 \subseteq alive, alive \subseteq Rids,
           \A r \in alive : texts[r] # NoText,
           \A c \in Chats : MovesBox(bs[c], ns[c], again2, alive2)
    PROVE  Boxed(ns, texts, last, again2, alive2)
  <1>1. ASSUME NEW c \in Chats
        PROVE  /\ ns[c].draft \in {bs[c].draft, NoText}
               /\ ns[c].pend.text \in {bs[c].pend.text, NoText}
               /\ ns[c].pend # NoPend => /\ ns[c].pend.rid = bs[c].pend.rid
                                              /\ ns[c].pend.text = bs[c].pend.text
                                              /\ bs[c].pend # NoPend
    BY <1>1, BoxTyped DEF MovesBox, NoPend
  <1>2. Belongs(ns)
    BY <1>1 DEF Belongs, Boxed
  <1>3. Waits(ns, texts, last)
    <2>1. ASSUME NEW c \in Chats
          PROVE  ns[c].draft <= last /\ ns[c].pend.text <= last
      BY <1>1, <2>1, BoxTyped DEF Waits, Boxed, NoText
    <2>2. ASSUME NEW c \in Chats, ns[c].pend # NoPend
          PROVE  texts[ns[c].pend.rid] = ns[c].pend.text
      BY <1>1, <2>2 DEF Waits, Boxed
    <2>3. QED
      BY <2>1, <2>2 DEF Waits
  <1>4. RejectedIsDead(ns, again2, alive2)
    BY BoxTyped DEF RejectedIsDead, Boxed, MovesBox
  <1>5. DraftWaits(ns, texts, again2, alive2)
    <2>1. SUFFICES ASSUME NEW c \in Chats, NEW r \in alive2, texts[r] = ns[c].draft,
                          ns[c].draft \notin again2
                   PROVE  ns[c].pend.rid = r
      BY DEF DraftWaits
    <2>2. ns[c].draft = bs[c].draft /\ ns[c].draft # NoText /\ bs[c].pend.rid = r
      BY <1>1, <2>1 DEF DraftWaits, Boxed
    <2>3. bs[c].pend # NoPend /\ texts[r] = bs[c].pend.text
      BY <2>2, BoxTyped DEF Waits, Boxed, Rids, NoRid
    <2>4. QED
      BY <2>1, <2>2, <2>3 DEF MovesBox
  <1>6. AliveOnce(texts, again2, alive2)
    BY DEF AliveOnce, Boxed
  <1>7. QED
    BY <1>2, <1>3, <1>4, <1>5, <1>6 DEF Boxed
\* The requests on their way: each lane has its own, an answer is a state the
\* service was in, and one to a message has that message.
LanesHold ==
    /\ ui.sending <=> Mutate.st # "none"
    /\ ui.changing => flight["control"].st # "none"
    /\ ui.connection = "connected" => Shown
    /\ \A l \in Lanes \ {"mutate"} : flight[l].op = "none" /\ flight[l].rid = NoRid
    /\ IF Mutate.op = "message" THEN Mutate.rid \in Rids ELSE Mutate.rid = NoRid
    /\ Mutate.op # "none" => Mutate.chat \in Chats
    /\ Mutate.op = "none" <=> Mutate.st = "none"

AnswersHold ==
    /\ \A l \in Lanes : flight[l].st = "answered" =>
            flight[l].answer \in State /\ flight[l].answer.accepted \subseteq srv.accepted
    /\ Mutate.op = "message" /\ Mutate.st \in {"sent", "refused"} =>
            Mutate.rid \notin srv.accepted \cup late
    /\ Mutate.op = "message" /\ Mutate.st = "answered" =>
            Mutate.answer.active = Mutate.chat /\ Mutate.rid \in Mutate.answer.accepted

\* What is sent was written, and what is being sent waits in its chat.
SentWaits ==
    /\ \A r \in Rids : sent[r] <= typed
    /\ \A r \in AliveRids : sent[r] # NoText
    /\ Mutate.op = "message" =>
            /\ sent[Mutate.rid] # NoText
            /\ ui.boxes[Mutate.chat].pend.rid \in {NoRid, Mutate.rid}
    /\ \A c \in Chats : ui.boxes[c].pend.status = "sending" =>
            Mutate.op = "message" /\ Mutate.chat = c

HomeInv ==
    /\ HomeTypeOK
    /\ LanesHold /\ AnswersHold /\ SentWaits
    /\ Boxed(ui.boxes, sent, typed, freed, AliveRids)
    /\ PollGoesOn
-----------------------------------------------------------------------------
(* The operators of the client. *)

Ui == [snap : State \cup {NoState}, connection : {"loading", "connected", "offline"},
       sending : BOOLEAN, changing : BOOLEAN, boxes : [Chats -> Box],
       timer : BOOLEAN, stopped : BOOLEAN]

LEMMA NoStateIsNone ==
    ASSUME HomeAssumption
    PROVE  NoState \notin State
  BY DEF NoState, State, HomeAssumption

\* What waited and was accepted is gone, and with it the draft it was.
Clears(b, n, accepted) ==
    /\ b.pend.rid \in accepted /\ n.pend = NoPend
    /\ n.draft = IF b.draft = b.pend.text THEN NoText ELSE b.draft

LEMMA ReconciledClears ==
    ASSUME HomeAssumption, NEW bs \in [Chats -> Box], NEW chat \in Chats, NEW accepted,
           NEW ns, ns = Reconciled(bs, chat, accepted)
    PROVE  /\ ns \in [Chats -> Box]
           /\ \A c \in Chats : ns[c] = bs[c] \/ (c = chat /\ Clears(bs[c], ns[c], accepted))
           /\ bs[chat].pend.rid \in accepted => ns[chat].pend = NoPend
           /\ bs[chat].pend.rid \notin accepted => ns = bs
  <1>1. CASE bs[chat].pend.rid \notin accepted
    BY <1>1 DEF Reconciled
  <1>2. CASE bs[chat].pend.rid \in accepted
    <2>1. PICK n : n = [draft |-> IF bs[chat].draft = bs[chat].pend.text
                                  THEN NoText ELSE bs[chat].draft,
                        pend |-> NoPend]
      OBVIOUS
    <2>2. ns = [bs EXCEPT ![chat] = n]
      BY <1>2, <2>1 DEF Reconciled
    <2>3. n \in Box /\ Clears(bs[chat], n, accepted)
      BY <1>2, <2>1, bs[chat] \in Box, BoxTyped
      DEF Clears, Box, Pend, Texts, NoText
    <2>4. QED
      BY <1>2, <2>2, <2>3 DEF Clears
  <1>3. QED
    BY <1>1, <1>2

LEMMA AcceptedTyped ==
    ASSUME HomeAssumption, NEW u \in Ui, NEW s \in State, NEW n, n = Accepted(u, s)
    PROVE  /\ n \in Ui /\ n.snap = s /\ n.connection = "connected"
           /\ n.sending = u.sending /\ n.changing = u.changing
           /\ n.timer = u.timer /\ n.stopped = u.stopped
           /\ n.boxes = Reconciled(u.boxes, s.active, s.accepted)
  <1>1. PICK ns : ns = Reconciled(u.boxes, s.active, s.accepted)
    OBVIOUS
  <1>2. u.boxes \in [Chats -> Box] /\ s.active \in Chats
    BY DEF Ui, State
  <1>3. ns \in [Chats -> Box]
    BY <1>1, <1>2, ReconciledClears
  <1>4. n = [u EXCEPT !.snap = s, !.connection = "connected", !.boxes = ns]
    BY <1>1 DEF Accepted
  <1>5. QED
    BY <1>1, <1>3, <1>4 DEF Ui

LEMMA QueuedTyped ==
    ASSUME NEW u \in Ui, NEW n, n = Queued(u)
    PROVE  /\ n \in Ui /\ n.snap = u.snap /\ n.connection = u.connection
           /\ n.sending = u.sending /\ n.changing = u.changing
           /\ n.timer = ~u.stopped /\ n.stopped = u.stopped /\ n.boxes = u.boxes
  BY DEF Queued, Ui

LEMMA NoReqTyped ==
    /\ NoReq \in Req
    /\ NoReq.st = "none" /\ NoReq.op = "none" /\ NoReq.rid = NoRid
  BY DEF NoReq, Req

LEMMA AbortedTyped ==
    ASSUME NEW f \in [Lanes -> Req], NEW n, n = Aborted(f)
    PROVE  /\ n \in [Lanes -> Req] /\ n["poll"] = NoReq
           /\ \A l \in Lanes \ {"poll"} : n[l] = f[l]
  BY NoReqTyped DEF Aborted, Lanes

\* A request that starts.
LEMMA AsksTyped ==
    ASSUME NEW lane \in Lanes \ {"poll"}, NEW req \in Req, NEW u \in Ui,
           flight \in [Lanes -> Req], Asks(lane, req, u)
    PROVE  /\ flight' \in [Lanes -> Req]
           /\ flight[lane].st = "none"
           /\ flight'[lane].st = "sent" /\ flight'[lane].op = req.op
           /\ flight'[lane].rid = req.rid /\ flight'[lane].chat = req.chat
           /\ flight'["poll"] = NoReq
           /\ \A l \in Lanes \ {lane, "poll"} : flight'[l] = flight[l]
           /\ ui' \in Ui /\ ui'.snap = u.snap /\ ui'.connection = u.connection
           /\ ui'.sending = u.sending /\ ui'.changing = u.changing
           /\ ui'.stopped = u.stopped /\ ui'.boxes = u.boxes
  <1>1. PICK f, q : f = Aborted(flight) /\ q = [req EXCEPT !.st = "sent"]
    OBVIOUS
  <1>2. q \in Req /\ q.st = "sent" /\ q.op = req.op /\ q.rid = req.rid /\ q.chat = req.chat
    BY <1>1 DEF Req
  <1>3. flight' = [f EXCEPT ![lane] = q] /\ ui' = [u EXCEPT !.timer = FALSE]
        /\ flight[lane].st = "none"
    BY <1>1 DEF Asks
  <1>4. /\ f \in [Lanes -> Req] /\ f["poll"] = NoReq
        /\ \A l \in Lanes \ {"poll"} : f[l] = flight[l]
    BY <1>1, AbortedTyped
  <1>5. QED
    BY <1>2, <1>3, <1>4 DEF Ui, Lanes

\* The poll that runs at once, if it may.
LEMMA PollsTyped ==
    ASSUME NEW u \in Ui, flight \in [Lanes -> Req], PollsNow(u)
    PROVE  /\ flight' \in [Lanes -> Req]
           /\ flight'["poll"].st \in {"none", "sent"}
           /\ flight'["poll"].op = "none" /\ flight'["poll"].rid = NoRid
           /\ flight'["poll"].st = "none" => u.stopped \/ u.sending \/ u.changing
           /\ \A l \in Lanes \ {"poll"} : flight'[l] = flight[l]
           /\ ui' \in Ui /\ ui'.snap = u.snap /\ ui'.connection = u.connection
           /\ ui'.sending = u.sending /\ ui'.changing = u.changing
           /\ ui'.stopped = u.stopped /\ ui'.boxes = u.boxes
  <1>1. ui' = [u EXCEPT !.timer = FALSE]
    BY DEF PollsNow
  <1>2. CASE u.stopped \/ u.sending \/ u.changing
    <2>1. flight' = Aborted(flight)
      BY <1>2 DEF PollsNow
    <2>2. /\ flight' \in [Lanes -> Req] /\ flight'["poll"] = NoReq
          /\ \A l \in Lanes \ {"poll"} : flight'[l] = flight[l]
      BY <2>1, AbortedTyped
    <2>3. QED
      BY <1>1, <1>2, <2>2, NoReqTyped DEF Ui
  <1>3. CASE ~(u.stopped \/ u.sending \/ u.changing)
    <2>1. PICK q : q = [NoReq EXCEPT !.st = "sent"]
      OBVIOUS
    <2>2. q \in Req /\ q.st = "sent" /\ q.op = "none" /\ q.rid = NoRid
      BY <2>1 DEF NoReq, Req
    <2>3. flight' = [flight EXCEPT !["poll"] = q]
      BY <1>3, <2>1 DEF PollsNow
    <2>4. QED
      BY <1>1, <2>2, <2>3 DEF Ui, Lanes
  <1>4. QED
    BY <1>2, <1>3
-----------------------------------------------------------------------------
(* Steps that leave the message on its way alone: the answers of the other  *)
(* lanes, and what starts them.                                             *)

LEMMA HomeTyped ==
    ASSUME HomeAssumption, HomeTypeOK
    PROVE  /\ ui \in Ui /\ ui.boxes \in [Chats -> Box]
           /\ flight \in [Lanes -> Req]
           /\ sent \in [Rids -> Texts \cup {NoText}]
           /\ typed \in Nat /\ srv.accepted \subseteq Rids /\ late \subseteq Rids
           /\ MaxTexts \in Nat /\ MaxSends \in Nat
  BY DEF HomeTypeOK, Ui, State, HomeAssumption

LEMMA AliveTyped ==
    ASSUME HomeAssumption, HomeInv
    PROVE  AliveRids \subseteq Rids
  BY HomeTyped DEF HomeInv, LanesHold, AliveRids, Sending

\* What the requests of the other lanes may be.
OthersHold(f, s) ==
    \A l \in Lanes \ {"mutate"} :
        /\ f[l].op = "none" /\ f[l].rid = NoRid
        /\ f[l].st = "answered" => f[l].answer \in State /\ f[l].answer.accepted \subseteq s.accepted

LEMMA InvOthers ==
    ASSUME HomeInv
    PROVE  OthersHold(flight, srv)
  BY DEF HomeInv, LanesHold, AnswersHold, OthersHold

\* What acceptedClears makes of an outbox is a move of it.
LEMMA ClearsMoves ==
    ASSUME NEW b, NEW n, NEW accepted, Clears(b, n, accepted), NEW again, NEW alive
    PROVE  MovesBox(b, n, again, alive)
  BY DEF Clears, MovesBox

Same == UNCHANGED <<srv, late, sent, typed, freed, limit>>

LEMMA ClientStep ==
    ASSUME HomeAssumption, HomeInv, Same, faults' \in 0 .. limit.faults, quiet' \in BOOLEAN,
           flight' \in [Lanes -> Req], flight'["mutate"] = flight["mutate"],
           OthersHold(flight', srv),
           ui' \in Ui, ui'.sending = ui.sending,
           ui'.changing => flight'["control"].st # "none",
           ui'.connection = "connected" => ui'.snap # NoState,
           \A c \in Chats : ui'.boxes[c] = ui.boxes[c]
                            \/ Clears(ui.boxes[c], ui'.boxes[c], srv.accepted),
           PollGoesOn'
    PROVE  HomeInv'
  <1>1. /\ ui.boxes \in [Chats -> Box] /\ typed \in Nat
        /\ sent \in [Rids -> Texts \cup {NoText}]
    BY HomeTyped DEF HomeInv
  <1>2. HomeTypeOK'
    BY DEF HomeInv, HomeTypeOK, Same, Ui
  <1>3. Mutate' = Mutate /\ AliveRids' = AliveRids /\ "mutate" \in Lanes
    BY DEF Mutate, AliveRids, Sending, Same, Lanes
  <1>4. LanesHold'
    BY <1>3 DEF HomeInv, LanesHold, OthersHold, Mutate, Shown
  <1>5. AnswersHold'
    BY <1>3 DEF HomeInv, AnswersHold, OthersHold, Mutate, Same
  <1>6. SentWaits'
    <2>1. ASSUME NEW c \in Chats
          PROVE  /\ ui'.boxes[c].pend.rid \in {NoRid, ui.boxes[c].pend.rid}
                 /\ ui'.boxes[c].pend.status = "sending" => ui.boxes[c].pend.status = "sending"
      BY DEF Clears, NoPend
    <2>2. Mutate.op = "message" => Mutate.chat \in Chats
      BY DEF HomeInv, LanesHold
    <2>3. QED
      BY <1>3, <2>1, <2>2 DEF HomeInv, SentWaits, Same
  <1>7. Boxed(ui'.boxes, sent, typed, freed, AliveRids)
    <2>1. \A c \in Chats : MovesBox(ui.boxes[c], ui'.boxes[c], freed, AliveRids)
      BY ClearsMoves DEF MovesBox
    <2>2. ui'.boxes \in [Chats -> Box]
      BY DEF Ui
    <2>3. \A r \in AliveRids : sent[r] # NoText
      BY DEF HomeInv, SentWaits
    <2>4. AliveRids \subseteq Rids /\ Boxed(ui.boxes, sent, typed, freed, AliveRids)
      BY AliveTyped DEF HomeInv
    <2>5. QED
      BY <1>1, <2>1, <2>2, <2>3, <2>4, MovesKeepBoxed
  <1>8. QED
    BY <1>2, <1>3, <1>4, <1>5, <1>6, <1>7 DEF HomeInv, Same
LEMMA InvBasics ==
    ASSUME HomeAssumption, HomeInv
    PROVE  /\ ui \in Ui /\ flight \in [Lanes -> Req] /\ OthersHold(flight, srv)
           /\ faults \in 0 .. limit.faults /\ quiet \in BOOLEAN
           /\ ui.sending <=> flight["mutate"].st # "none"
           /\ ui.changing => flight["control"].st # "none"
           /\ ui.connection = "connected" => ui.snap # NoState
           /\ PollGoesOn
  BY HomeTyped, InvOthers DEF HomeInv, HomeTypeOK, LanesHold, Mutate, Shown

LEMMA AskingKeeps ==
    ASSUME HomeAssumption, HomeInv, Controls \/ Commands
    PROVE  HomeInv'
  <1>1. CASE Controls
    <2>1. PICK u : u = [ui EXCEPT !.changing = TRUE]
      OBVIOUS
    <2>2. /\ u \in Ui /\ u.snap = ui.snap /\ u.connection = ui.connection
          /\ u.sending = ui.sending /\ u.boxes = ui.boxes
      BY <2>1, InvBasics DEF Ui
    <2>3. Asks("control", NoReq, u) /\ Same /\ faults' = faults /\ quiet' = quiet
      BY <1>1, <2>1 DEF Controls, Same, Env
    <2>4. /\ flight' \in [Lanes -> Req] /\ flight'["control"].st = "sent"
          /\ flight'["control"].op = "none" /\ flight'["control"].rid = NoRid
          /\ flight'["poll"] = NoReq
          /\ \A l \in Lanes \ {"control", "poll"} : flight'[l] = flight[l]
          /\ ui' \in Ui /\ ui'.snap = ui.snap /\ ui'.connection = ui.connection
          /\ ui'.sending = ui.sending /\ ui'.boxes = ui.boxes
      BY <2>2, <2>3, AsksTyped, NoReqTyped, InvBasics DEF Lanes
    <2>5. OthersHold(flight', srv)
      BY <2>4, InvBasics, NoReqTyped DEF OthersHold
    <2>6. QED
      BY <2>3, <2>4, <2>5, InvBasics, ClientStep DEF PollGoesOn, Lanes
  <1>2. CASE Commands
    <2>1. Asks("side", NoReq, ui) /\ Same /\ faults' = faults /\ quiet' = quiet
      BY <1>2 DEF Commands, Same, Env
    <2>2. /\ flight' \in [Lanes -> Req] /\ flight'["side"].st = "sent"
          /\ flight'["side"].op = "none" /\ flight'["side"].rid = NoRid
          /\ flight'["poll"] = NoReq
          /\ \A l \in Lanes \ {"side", "poll"} : flight'[l] = flight[l]
          /\ ui' \in Ui /\ ui'.snap = ui.snap /\ ui'.connection = ui.connection
          /\ ui'.sending = ui.sending /\ ui'.boxes = ui.boxes /\ ui'.changing = ui.changing
      BY <2>1, AsksTyped, NoReqTyped, InvBasics DEF Lanes
    <2>3. OthersHold(flight', srv)
      BY <2>2, InvBasics, NoReqTyped DEF OthersHold
    <2>4. QED
      BY <2>1, <2>2, <2>3, InvBasics, ClientStep DEF PollGoesOn, Lanes
  <1>3. QED
    BY <1>1, <1>2

LEMMA LibraryAskingKeeps ==
    ASSUME HomeAssumption, HomeInv, LibraryAsks
    PROVE  HomeInv'
  <1>1. PICK q : q = [NoReq EXCEPT !.st = "sent"]
    OBVIOUS
  <1>2. q \in Req /\ q.st = "sent" /\ q.op = "none" /\ q.rid = NoRid
    BY <1>1 DEF NoReq, Req
  <1>3. /\ flight' = [flight EXCEPT !["library"] = q] /\ UNCHANGED ui /\ Same
        /\ faults' = faults /\ quiet' = quiet
    BY <1>1 DEF LibraryAsks, Same, Env
  <1>4. /\ flight' \in [Lanes -> Req] /\ flight'["library"] = q
        /\ \A l \in Lanes \ {"library"} : flight'[l] = flight[l]
    BY <1>2, <1>3, InvBasics DEF Lanes
  <1>5. OthersHold(flight', srv)
    BY <1>2, <1>4, InvBasics DEF OthersHold
  <1>6. PollGoesOn'
    BY <1>3, <1>4, InvBasics DEF PollGoesOn, Lanes
  <1>7. QED
    BY <1>3, <1>4, <1>5, <1>6, InvBasics, ClientStep DEF Lanes

LEMMA PollingKeeps ==
    ASSUME HomeAssumption, HomeInv, NEW u \in Ui, PollsNow(u), Same,
           faults' = faults, quiet' = quiet,
           u.snap = ui.snap, u.connection = ui.connection, u.sending = ui.sending,
           u.changing = ui.changing, u.boxes = ui.boxes
    PROVE  HomeInv'
  <1>1. /\ flight' \in [Lanes -> Req]
        /\ flight'["poll"].st \in {"none", "sent"}
        /\ flight'["poll"].op = "none" /\ flight'["poll"].rid = NoRid
        /\ flight'["poll"].st = "none" => u.stopped \/ u.sending \/ u.changing
        /\ \A l \in Lanes \ {"poll"} : flight'[l] = flight[l]
        /\ ui' \in Ui /\ ui'.snap = ui.snap /\ ui'.connection = ui.connection
        /\ ui'.sending = ui.sending /\ ui'.changing = ui.changing
        /\ ui'.stopped = u.stopped /\ ui'.boxes = ui.boxes
    BY PollsTyped, InvBasics
  <1>2. OthersHold(flight', srv)
    BY <1>1, InvBasics DEF OthersHold
  <1>3. PollGoesOn'
    BY <1>1, InvBasics DEF PollGoesOn, Lanes
  <1>4. QED
    BY <1>1, <1>2, <1>3, InvBasics, ClientStep DEF Lanes

LEMMA PollsKeep ==
    ASSUME HomeAssumption, HomeInv, Refreshes \/ Starts \/ TimerFires
    PROVE  HomeInv'
  <1>1. Same /\ faults' = faults /\ quiet' = quiet
    BY DEF Refreshes, Starts, TimerFires, Same, Env
  <1>2. CASE Refreshes \/ TimerFires
    BY <1>1, <1>2, InvBasics, PollingKeeps DEF Refreshes, TimerFires
  <1>3. CASE Starts
    <2>1. PICK u : u = [ui EXCEPT !.stopped = FALSE]
      OBVIOUS
    <2>2. /\ u \in Ui /\ u.snap = ui.snap /\ u.connection = ui.connection
          /\ u.sending = ui.sending /\ u.changing = ui.changing /\ u.boxes = ui.boxes
      BY <2>1, InvBasics DEF Ui
    <2>3. PollsNow(u)
      BY <1>3, <2>1 DEF Starts
    <2>4. QED
      BY <1>1, <2>2, <2>3, PollingKeeps
  <1>4. QED
    BY <1>2, <1>3

LEMMA StopsKeep ==
    ASSUME HomeAssumption, HomeInv, Stops \/ CalmsDown
    PROVE  HomeInv'
  <1>1. CASE Stops
    <2>1. /\ ui' \in Ui /\ ui'.snap = ui.snap /\ ui'.connection = ui.connection /\ ui'.stopped
          /\ ui'.sending = ui.sending /\ ui'.changing = ui.changing /\ ui'.boxes = ui.boxes
      BY <1>1, InvBasics DEF Stops, Ui
    <2>2. /\ flight' \in [Lanes -> Req] /\ flight'["poll"] = NoReq
          /\ \A l \in Lanes \ {"poll"} : flight'[l] = flight[l]
      BY <1>1, InvBasics, AbortedTyped DEF Stops
    <2>3. OthersHold(flight', srv)
      BY <2>2, InvBasics, NoReqTyped DEF OthersHold
    <2>4. Same /\ faults' \in 0 .. limit.faults /\ quiet' \in BOOLEAN
      <3>1. limit.faults \in Nat
        BY DEF HomeInv, HomeTypeOK, HomeAssumption
      <3>2. QED
        BY <1>1, <3>1, InvBasics DEF Stops, Same
    <2>5. QED
      BY <2>1, <2>2, <2>3, <2>4, InvBasics, ClientStep DEF PollGoesOn, Lanes
  <1>2. CASE CalmsDown
    <2>1. Same /\ UNCHANGED <<ui, flight, faults>> /\ quiet' = TRUE
      BY <1>2 DEF CalmsDown, Same
    <2>2. QED
      BY <2>1, InvBasics, ClientStep DEF PollGoesOn
  <1>3. QED
    BY <1>1, <1>2
\* What a client may come to show by an answer, whatever lane it is of.
Shows(u) ==
    /\ u \in Ui /\ u.sending = ui.sending /\ u.changing = ui.changing /\ u.stopped = ui.stopped
    /\ u.connection = "connected" => u.snap # NoState
    /\ \A c \in Chats : u.boxes[c] = ui.boxes[c]
                        \/ Clears(ui.boxes[c], u.boxes[c], srv.accepted)

LEMMA AnswerShows ==
    ASSUME HomeAssumption, HomeInv, NEW s \in State, s.accepted \subseteq srv.accepted,
           NEW u, u = Accepted(ui, s)
    PROVE  Shows(u)
  <1>1. /\ u \in Ui /\ u.snap = s /\ u.connection = "connected"
        /\ u.sending = ui.sending /\ u.changing = ui.changing /\ u.stopped = ui.stopped
        /\ u.boxes = Reconciled(ui.boxes, s.active, s.accepted)
    BY InvBasics, AcceptedTyped
  <1>2. ui.boxes \in [Chats -> Box] /\ s.active \in Chats
    BY InvBasics DEF Ui, State
  <1>3. \A c \in Chats : u.boxes[c] = ui.boxes[c] \/ Clears(ui.boxes[c], u.boxes[c], s.accepted)
    BY <1>1, <1>2, ReconciledClears
  <1>4. QED
    BY <1>1, <1>3, NoStateIsNone DEF Shows, Clears

LEMMA NowShows ==
    ASSUME HomeAssumption, HomeInv
    PROVE  Shows(ui) /\ Shows([ui EXCEPT !.connection = "offline"])
  BY InvBasics DEF Shows, Ui

LEMMA SettlingKeeps ==
    ASSUME HomeAssumption, HomeInv, NEW lane \in Lanes \ {"mutate"}, NEW u, Shows(u),
           ui' = Queued(u) \/ (lane = "control" /\ ui' = Queued([u EXCEPT !.changing = FALSE])),
           lane = "control" => ui'.changing = FALSE,
           flight' \in [Lanes -> Req], flight'[lane] = NoReq,
           \A l \in Lanes \ {lane} : flight'[l] = flight[l] \/ (l = "poll" /\ flight'[l] = NoReq),
           Same, faults' = faults, quiet' = quiet
    PROVE  HomeInv'
  <1>1. PICK v : v = [u EXCEPT !.changing = FALSE]
    OBVIOUS
  <1>2. /\ v \in Ui /\ v.sending = u.sending /\ v.boxes = u.boxes /\ v.snap = u.snap
        /\ v.stopped = u.stopped /\ v.changing = FALSE /\ v.connection = u.connection
    BY <1>1 DEF Shows, Ui
  <1>3. /\ ui' \in Ui /\ ui'.sending = u.sending /\ ui'.boxes = u.boxes /\ ui'.snap = u.snap
        /\ ui'.connection = u.connection /\ ui'.timer = ~u.stopped /\ ui'.stopped = u.stopped
        /\ lane # "control" => ui'.changing = u.changing
    <2>1. CASE ui' = Queued(u)
      BY <2>1, QueuedTyped, u \in Ui DEF Shows
    <2>2. CASE ui' = Queued(v) /\ lane = "control"
      BY <1>2, <2>2, QueuedTyped
    <2>3. QED
      BY <1>1, <2>1, <2>2
  <1>4. OthersHold(flight', srv)
    BY InvBasics, NoReqTyped DEF OthersHold
  <1>5. flight'["mutate"] = flight["mutate"] /\ (ui'.changing => flight'["control"].st # "none")
    BY <1>3, InvBasics DEF Shows, Lanes
  <1>6. PollGoesOn'
    BY <1>3 DEF PollGoesOn, Ui
  <1>7. QED
    BY <1>3, <1>4, <1>5, <1>6, InvBasics, ClientStep DEF Shows

LEMMA SettlesKeep ==
    ASSUME HomeAssumption, HomeInv,
           PollSettles \/ SideSettles \/ ControlSettles \/ LibrarySettles
    PROVE  HomeInv'
  <1>1. Same /\ faults' = faults /\ quiet' = quiet
    BY DEF PollSettles, SideSettles, ControlSettles, LibrarySettles, Same,
           Env
  <1>2. ASSUME NEW l \in Lanes \ {"mutate"}, flight[l].st = "answered"
        PROVE  Shows(Accepted(ui, flight[l].answer))
    BY <1>2, InvBasics, AnswerShows DEF OthersHold
  <1>3. ASSUME NEW l \in Lanes, flight' = [flight EXCEPT ![l] = NoReq]
        PROVE  /\ flight' \in [Lanes -> Req] /\ flight'[l] = NoReq
               /\ \A k \in Lanes \ {l} : flight'[k] = flight[k]
    BY <1>3, InvBasics, NoReqTyped
  <1>4. CASE PollSettles
    <2>1. PICK u : /\ Shows(u) /\ ui' = Queued(u)
      BY <1>2, <1>4, NowShows DEF PollSettles, Lanes
    <2>2. flight' = [flight EXCEPT !["poll"] = NoReq]
      BY <1>4 DEF PollSettles, Aborted
    <2>3. QED
      BY <1>1, <1>3, <2>1, <2>2, SettlingKeeps DEF Lanes
  <1>5. CASE SideSettles
    <2>1. PICK u : /\ Shows(u) /\ ui' = Queued(u)
      BY <1>2, <1>5, NowShows DEF SideSettles, Lanes
    <2>2. flight' = [flight EXCEPT !["side"] = NoReq]
      BY <1>5 DEF SideSettles
    <2>3. QED
      BY <1>1, <1>3, <2>1, <2>2, SettlingKeeps DEF Lanes
  <1>6. CASE ControlSettles
    <2>1. PICK u : /\ Shows(u) /\ ui' = Queued([u EXCEPT !.changing = FALSE])
      BY <1>2, <1>6, NowShows DEF ControlSettles, Lanes
    <2>2. flight' = [flight EXCEPT !["control"] = NoReq]
      BY <1>6 DEF ControlSettles
    <2>3. ui'.changing = FALSE
      BY <2>1 DEF Queued, Shows, Ui
    <2>4. QED
      BY <1>1, <1>3, <2>1, <2>2, <2>3, SettlingKeeps DEF Lanes
  <1>7. CASE LibrarySettles /\ flight["library"].st = "answered"
    <2>1. PICK u : /\ Shows(u) /\ ui' = Queued(u)
      BY <1>2, <1>7 DEF LibrarySettles, Lanes
    <2>2. PICK f : f = Aborted(flight)
      OBVIOUS
    <2>3. /\ f \in [Lanes -> Req] /\ f["poll"] = NoReq
          /\ \A l \in Lanes \ {"poll"} : f[l] = flight[l]
      BY <2>2, InvBasics, AbortedTyped
    <2>4. flight' = [f EXCEPT !["library"] = NoReq]
      BY <1>7, <2>2 DEF LibrarySettles
    <2>5. /\ flight' \in [Lanes -> Req] /\ flight'["library"] = NoReq
          /\ \A l \in Lanes \ {"library"} : flight'[l] = f[l]
      BY <2>3, <2>4, NoReqTyped DEF Lanes
    <2>6. QED
      BY <1>1, <2>1, <2>3, <2>5, SettlingKeeps DEF Lanes
  <1>8. CASE LibrarySettles /\ flight["library"].st # "answered"
    <2>1. UNCHANGED ui /\ flight' = [flight EXCEPT !["library"] = NoReq]
      BY <1>8 DEF LibrarySettles
    <2>2. /\ flight' \in [Lanes -> Req] /\ flight'["library"] = NoReq
          /\ \A l \in Lanes \ {"library"} : flight'[l] = flight[l]
      BY <1>3, <2>1 DEF Lanes
    <2>3. OthersHold(flight', srv)
      BY <2>2, InvBasics, NoReqTyped DEF OthersHold
    <2>4. PollGoesOn'
      BY <2>1, <2>2, InvBasics DEF PollGoesOn, Lanes
    <2>5. QED
      BY <1>1, <2>1, <2>2, <2>3, <2>4, InvBasics, ClientStep DEF Lanes
  <1>9. QED
    BY <1>4, <1>5, <1>6, <1>7, <1>8
-----------------------------------------------------------------------------
(* Steps of the service and of the network. *)

Answering(f, l, how, answer) == [f EXCEPT ![l].st = how, ![l].answer = answer]

LEMMA AnswerGiven ==
    ASSUME NEW f \in [Lanes -> Req], NEW l \in Lanes, NEW a, NEW b, NEW g,
           g = Answering(f, l, a, b),
           a \in {"answered", "refused", "lost"}, b \in State \cup {NoState}
    PROVE  /\ g \in [Lanes -> Req]
           /\ g[l].st = a /\ g[l].answer = b
           /\ g[l].op = f[l].op /\ g[l].rid = f[l].rid /\ g[l].chat = f[l].chat
           /\ \A k \in Lanes \ {l} : g[k] = f[k]
  <1>1. PICK r : r = [f[l] EXCEPT !.st = a, !.answer = b]
    OBVIOUS
  <1>2. Answering(f, l, a, b) = [f EXCEPT ![l] = [f[l] EXCEPT !.st = a, !.answer = b]]
    BY DEF Answering
  <1>3. g = [f EXCEPT ![l] = r]
    BY <1>1, <1>2
  <1>4. f[l] \in Req
    OBVIOUS
  <1>5. /\ r \in Req /\ r.st = a /\ r.answer = b
        /\ r.op = f[l].op /\ r.rid = f[l].rid /\ r.chat = f[l].chat
    BY <1>1, <1>4 DEF Req
  <1>6. QED
    BY <1>3, <1>5

LEMMA ServiceStep ==
    ASSUME HomeAssumption, HomeInv, UNCHANGED <<ui, sent, typed, freed, limit, quiet>>,
           faults' \in 0 .. limit.faults,
           srv' \in State, srv.accepted \subseteq srv'.accepted, late' \subseteq Rids,
           flight' \in [Lanes -> Req],
           \A l \in Lanes :
              /\ flight'[l].op = flight[l].op /\ flight'[l].rid = flight[l].rid
              /\ flight'[l].chat = flight[l].chat
              /\ flight'[l].st = "none" <=> flight[l].st = "none",
           AnswersHold', AliveRids' \subseteq AliveRids
    PROVE  HomeInv'
  <1>1. HomeTypeOK'
    BY DEF HomeInv, HomeTypeOK
  <1>2. LanesHold'
    BY DEF HomeInv, LanesHold, Mutate, Lanes, Shown
  <1>3. SentWaits'
    BY DEF HomeInv, SentWaits, Mutate, Lanes
  <1>4. Boxed(ui.boxes, sent, typed, freed, AliveRids')
    <2>1. /\ ui.boxes \in [Chats -> Box] /\ typed \in Nat
          /\ sent \in [Rids -> Texts \cup {NoText}]
      BY HomeTyped DEF HomeInv
    <2>2. AliveRids \subseteq Rids /\ Boxed(ui.boxes, sent, typed, freed, AliveRids)
      BY AliveTyped DEF HomeInv
    <2>3. \A r \in AliveRids : sent[r] # NoText
      BY DEF HomeInv, SentWaits
    <2>4. \A c \in Chats : MovesBox(ui.boxes[c], ui.boxes[c], freed, AliveRids')
      BY DEF MovesBox
    <2>5. QED
      BY <2>1, <2>2, <2>3, <2>4, MovesKeepBoxed
  <1>5. PollGoesOn'
    BY InvBasics DEF PollGoesOn, Lanes
  <1>6. QED
    BY <1>1, <1>2, <1>3, <1>4, <1>5 DEF HomeInv

\* What the service makes of a request: it takes one message more, or none.
LEMMA OutcomesTyped ==
    ASSUME HomeInv, NEW l \in Lanes, flight[l].st = "sent", NEW o \in Outcomes(l)
    PROVE  /\ o[1] \in State /\ srv.accepted \subseteq o[1].accepted
           /\ o[2] \in {"answered", "refused"}
           /\ o[1].accepted \subseteq srv.accepted
              \/ /\ l = "mutate" /\ Mutate.op = "message" /\ o[2] = "answered"
                 /\ o[1].accepted = srv.accepted \cup {Mutate.rid} /\ o[1].active = Mutate.chat
           /\ l = "mutate" /\ Mutate.op = "message" =>
                \/ o[2] = "refused"
                \/ /\ o[2] = "answered"
                   /\ o[1].accepted = srv.accepted \cup {Mutate.rid} /\ o[1].active = Mutate.chat
  <1>1. srv \in State
    BY DEF HomeInv, HomeTypeOK
  <1>2. CASE flight[l].op = "message"
    <2>1. l = "mutate" /\ flight[l] = Mutate
      BY <1>2 DEF HomeInv, LanesHold, Mutate
    <2>2. Mutate.rid \in Rids /\ Mutate.rid \notin srv.accepted /\ Mutate.chat \in Chats
      BY <1>2, <2>1 DEF HomeInv, LanesHold, AnswersHold
    <2>3. CASE o = <<Takes(srv, Mutate.rid), "answered">> /\ CanTake(Mutate)
      BY <1>1, <1>2, <2>1, <2>2, <2>3 DEF Takes, CanTake, State
    <2>4. CASE o = <<srv, "refused">>
      BY <1>1, <2>4
    <2>5. QED
      BY <1>2, <2>1, <2>2, <2>3, <2>4 DEF Outcomes
  <1>3. CASE flight[l].op # "message"
    <2>1. l = "mutate" => Mutate.op # "message"
      BY <1>3 DEF Mutate
    <2>2. \/ o = <<srv, "answered">> \/ o = <<srv, "refused">>
          \/ o = <<[srv EXCEPT !.recovery = FALSE], "answered">>
          \/ \E c \in Chats : o = <<[srv EXCEPT !.active = c], "answered">>
      BY <1>3 DEF Outcomes
    <2>3. PICK t, how : o = <<t, how>> /\ how \in {"answered", "refused"}
                        /\ \/ t = srv \/ t = [srv EXCEPT !.recovery = FALSE]
                           \/ \E c \in Chats : t = [srv EXCEPT !.active = c]
      BY <2>2
    <2>4. t \in State /\ t.accepted = srv.accepted
      BY <1>1, <2>3 DEF State
    <2>5. QED
      BY <2>1, <2>3, <2>4
  <1>4. QED
    BY <1>2, <1>3

LEMMA ServesKeeps ==
    ASSUME HomeAssumption, HomeInv, NEW l \in Lanes, Serves(l)
    PROVE  HomeInv'
  <1>1. PICK o \in Outcomes(l) :
            /\ srv' = o[1]
            /\ flight' = Answering(flight, l, o[2],
                                   IF o[2] = "answered" THEN o[1] ELSE NoState)
    BY DEF Serves, Answering
  <1>2. flight[l].st = "sent" /\ UNCHANGED <<late, ui, sent, typed, freed, limit, faults, quiet>>
    BY DEF Serves
  <1>3. PICK a, b : a = o[2] /\ b = IF o[2] = "answered" THEN o[1] ELSE NoState
    OBVIOUS
  <1>4. a \in {"answered", "refused", "lost"} /\ b \in State \cup {NoState}
    BY <1>2, <1>3, OutcomesTyped
  <1>5. flight' = Answering(flight, l, a, b)
    BY <1>1, <1>3
  <1>6. /\ flight' \in [Lanes -> Req]
        /\ flight'[l].st = a /\ flight'[l].answer = b
        /\ flight'[l].op = flight[l].op /\ flight'[l].rid = flight[l].rid
        /\ flight'[l].chat = flight[l].chat
        /\ \A k \in Lanes \ {l} : flight'[k] = flight[k]
    <2>1. flight \in [Lanes -> Req]
      BY InvBasics
    <2>2. QED
      BY <1>4, <1>5, <2>1, AnswerGiven
  <1>7. srv' \in State /\ srv.accepted \subseteq srv'.accepted /\ a \in {"answered", "refused"}
    BY <1>1, <1>2, <1>3, OutcomesTyped
  <1>8. AnswersHold'
    <2>1. ASSUME NEW k \in Lanes, flight'[k].st = "answered"
          PROVE  flight'[k].answer \in State /\ flight'[k].answer.accepted \subseteq srv'.accepted
      <3>1. CASE k = l
        BY <1>1, <1>3, <1>6, <1>7, <2>1, <3>1
      <3>2. CASE k # l
        BY <1>6, <1>7, <2>1, <3>2 DEF HomeInv, AnswersHold
      <3>3. QED
        BY <3>1, <3>2
    <2>2. CASE l = "mutate" /\ Mutate.op = "message"
      <3>1. Mutate'.op = "message" /\ Mutate'.st = a /\ Mutate'.answer = b
            /\ Mutate'.rid = Mutate.rid /\ Mutate'.chat = Mutate.chat
        BY <1>6, <2>2 DEF Mutate
      <3>2. Mutate.rid \notin srv.accepted \cup late
        BY <1>2, <2>2 DEF HomeInv, AnswersHold, Mutate
      <3>3. a = "refused" => srv'.accepted = srv.accepted
        BY <1>1, <1>2, <1>3, <1>7, <2>2, OutcomesTyped
      <3>4. a = "answered" => b.active = Mutate.chat /\ Mutate.rid \in b.accepted
        <4>1. o[2] = "answered" => o[1].accepted = srv.accepted \cup {Mutate.rid}
                                   /\ o[1].active = Mutate.chat
          BY <1>2, <2>2, OutcomesTyped
        <4>2. QED
          BY <1>3, <4>1
      <3>5. QED
        BY <1>2, <1>7, <2>1, <3>1, <3>2, <3>3, <3>4 DEF AnswersHold
    <2>3. CASE l # "mutate"
      <3>1. Mutate' = Mutate
        BY <1>6, <2>3 DEF Mutate, Lanes
      <3>2. srv'.accepted = srv.accepted
        BY <1>1, <1>2, <1>7, <2>3, OutcomesTyped
      <3>3. QED
        BY <1>2, <2>1, <3>1, <3>2 DEF HomeInv, AnswersHold
    <2>4. CASE l = "mutate" /\ Mutate.op # "message"
      <3>1. Mutate'.op # "message"
        BY <1>6, <2>4 DEF Mutate
      <3>2. QED
        BY <2>1, <3>1 DEF AnswersHold
    <2>5. QED
      BY <2>2, <2>3, <2>4
  <1>9. AliveRids' \subseteq AliveRids
    <2>1. srv'.accepted \subseteq srv.accepted
          \/ (Sending /\ srv'.accepted = srv.accepted \cup {Mutate.rid})
      BY <1>1, <1>2, OutcomesTyped DEF Sending, Mutate
    <2>2. Sending' => Sending /\ Mutate'.rid = Mutate.rid
      BY <1>6, <1>7 DEF Sending, Mutate, Lanes
    <2>3. QED
      BY <1>2, <2>1, <2>2 DEF AliveRids
  <1>10. late' \subseteq Rids /\ faults' \in 0 .. limit.faults
    BY <1>2, HomeTyped, InvBasics DEF HomeInv
  <1>11. \A k \in Lanes : flight'[k].st = "none" <=> flight[k].st = "none"
    BY <1>2, <1>6, <1>7
  <1>12. QED
    BY <1>2, <1>6, <1>7, <1>8, <1>9, <1>10, <1>11, ServiceStep

LEMMA BreaksKeeps ==
    ASSUME HomeAssumption, HomeInv, NEW l \in Lanes, Breaks(l)
    PROVE  HomeInv'
  <1>1. /\ flight[l].st \in {"sent", "answered", "refused"}
        /\ flight' = Answering(flight, l, "lost", NoState)
        /\ late' = late \cup (IF flight[l].st = "sent" THEN {flight[l].rid} \ {NoRid} ELSE {})
        /\ UNCHANGED <<srv, ui, sent, typed, freed, limit, quiet>>
        /\ faults < limit.faults /\ faults' = faults + 1
    BY DEF Breaks, Answering
  <1>2. /\ flight' \in [Lanes -> Req]
        /\ flight'[l].st = "lost"
        /\ flight'[l].op = flight[l].op /\ flight'[l].rid = flight[l].rid
        /\ flight'[l].chat = flight[l].chat
        /\ \A k \in Lanes \ {l} : flight'[k] = flight[k]
    <2>1. flight \in [Lanes -> Req]
      BY InvBasics
    <2>2. NoState \in State \cup {NoState}
      OBVIOUS
    <2>3. QED
      BY <1>1, <2>1, <2>2, AnswerGiven
  <1>3. flight[l].rid # NoRid => l = "mutate" /\ Mutate.op = "message"
    BY DEF HomeInv, LanesHold, Mutate
  <1>4. late' = late \/ (l = "mutate" /\ Sending /\ late' = late \cup {Mutate.rid})
    <2>1. CASE flight[l].st = "sent" /\ flight[l].rid # NoRid
      BY <1>1, <1>3, <2>1 DEF Sending, Mutate
    <2>2. CASE flight[l].st # "sent" \/ flight[l].rid = NoRid
      BY <1>1, <2>2
    <2>3. QED
      BY <2>1, <2>2
  <1>5. AliveRids' \subseteq AliveRids
    <2>1. Sending' => Sending /\ Mutate'.rid = Mutate.rid
      BY <1>2 DEF Sending, Mutate, Lanes
    <2>2. QED
      BY <1>1, <1>4, <2>1 DEF AliveRids
  <1>6. AnswersHold'
    <2>1. CASE l = "mutate"
      <3>1. Mutate'.st = "lost"
        BY <1>2, <2>1 DEF Mutate
      <3>2. QED
        BY <1>1, <1>2, <2>1, <3>1 DEF HomeInv, AnswersHold
    <2>2. CASE l # "mutate"
      <3>1. Mutate' = Mutate /\ late' = late
        BY <1>2, <1>4, <2>2 DEF Mutate, Lanes
      <3>2. QED
        BY <1>1, <1>2, <2>2, <3>1 DEF HomeInv, AnswersHold
    <2>3. QED
      BY <2>1, <2>2
  <1>7. late' \subseteq Rids /\ srv' \in State
    BY <1>1, <1>4, HomeTyped, AliveTyped DEF HomeInv, AliveRids, HomeTypeOK
  <1>8. faults' \in 0 .. limit.faults
    <2>1. limit.faults \in Nat
      BY DEF HomeInv, HomeTypeOK, HomeAssumption
    <2>2. QED
      BY <1>1, <2>1, InvBasics
  <1>9. \A k \in Lanes : flight'[k].st = "none" <=> flight[k].st = "none"
    BY <1>1, <1>2
  <1>10. QED
    BY <1>1, <1>2, <1>5, <1>6, <1>7, <1>8, <1>9, ServiceStep

LEMMA ServiceKeeps ==
    ASSUME HomeAssumption, HomeInv, TakesLate \/ ServiceWorks
    PROVE  HomeInv'
  <1>1. srv \in State /\ late \subseteq Rids
    BY DEF HomeInv, HomeTypeOK
  <1>2. UNCHANGED <<ui, flight, sent, typed, freed, limit, faults, quiet>>
    BY DEF TakesLate, ServiceWorks
  <1>3. /\ srv' \in State /\ srv.accepted \subseteq srv'.accepted
        /\ late' \subseteq late /\ srv'.accepted \subseteq srv.accepted \cup late
    <2>1. CASE ServiceWorks
      BY <1>1, <2>1 DEF ServiceWorks, State
    <2>2. CASE TakesLate
      <3>1. PICK r \in late : /\ late' = late \ {r}
                              /\ srv' = srv \/ srv' = Takes(srv, r)
        BY <2>2 DEF TakesLate
      <3>2. CASE srv' = srv
        BY <1>1, <3>1, <3>2
      <3>3. CASE srv' = Takes(srv, r)
        <4>1. r \in Rids
          BY <1>1
        <4>2. srv' = [srv EXCEPT !.accepted = srv.accepted \cup {r}, !.busy = TRUE]
          BY <3>3 DEF Takes
        <4>3. srv' \in State /\ srv'.accepted = srv.accepted \cup {r}
          BY <1>1, <4>1, <4>2 DEF State
        <4>4. QED
          BY <3>1, <4>3
      <3>4. QED
        BY <3>1, <3>2, <3>3
    <2>3. QED
      BY <2>1, <2>2
  <1>4. AliveRids' \subseteq AliveRids
    BY <1>2, <1>3 DEF AliveRids, Sending, Mutate
  <1>5. AnswersHold'
    BY <1>2, <1>3 DEF HomeInv, AnswersHold, Mutate
  <1>6. QED
    BY <1>1, <1>2, <1>3, <1>4, <1>5, InvBasics, ServiceStep
-----------------------------------------------------------------------------
(* The message on its way, and what the person writes. *)

\* The client with another outbox in a chat.
InBox(u, c, b) == [u EXCEPT !.boxes[c] = b]

LEMMA InBoxTyped ==
    ASSUME NEW u \in Ui, NEW c \in Chats, NEW b \in Box, NEW n, n = InBox(u, c, b)
    PROVE  /\ n \in Ui /\ n.snap = u.snap /\ n.connection = u.connection
           /\ n.sending = u.sending /\ n.changing = u.changing
           /\ n.timer = u.timer /\ n.stopped = u.stopped
           /\ n.boxes \in [Chats -> Box] /\ n.boxes[c] = b
           /\ \A d \in Chats \ {c} : n.boxes[d] = u.boxes[d]
  <1>1. PICK m : m = [u.boxes EXCEPT ![c] = b]
    OBVIOUS
  <1>2. n = [u EXCEPT !.boxes = m]
    BY <1>1 DEF InBox
  <1>3. m \in [Chats -> Box] /\ m[c] = b /\ \A d \in Chats \ {c} : m[d] = u.boxes[d]
    BY <1>1 DEF Ui
  <1>4. QED
    BY <1>2, <1>3 DEF Ui

LEMMA PendInBox ==
    ASSUME NEW u, NEW c, NEW p, NEW b, b = [u.boxes[c] EXCEPT !.pend = p]
    PROVE  [u EXCEPT !.boxes[c].pend = p] = InBox(u, c, b)
  BY DEF InBox

\* Typing: a new draft, and what was rejected no longer waits.
Writing(u, c, t) ==
    [u EXCEPT !.boxes[c].draft = t,
              !.boxes[c].pend = IF @.status = "rejected" THEN NoPend ELSE @]

LEMMA WritingTyped ==
    ASSUME NEW u \in Ui, NEW c \in Chats, NEW t \in Texts, NEW n, n = Writing(u, c, t)
    PROVE  /\ n \in Ui /\ n.snap = u.snap /\ n.connection = u.connection
           /\ n.sending = u.sending /\ n.changing = u.changing
           /\ n.timer = u.timer /\ n.stopped = u.stopped
           /\ n.boxes \in [Chats -> Box]
           /\ n.boxes[c].draft = t
           /\ n.boxes[c].pend = IF u.boxes[c].pend.status = "rejected" THEN NoPend
                                ELSE u.boxes[c].pend
           /\ \A d \in Chats \ {c} : n.boxes[d] = u.boxes[d]
  <1>1. PICK b1 : b1 = [u.boxes[c] EXCEPT !.draft = t]
    OBVIOUS
  <1>2. PICK u1 : u1 = InBox(u, c, b1)
    OBVIOUS
  <1>3. PICK b2 : b2 = [u1.boxes[c] EXCEPT
                          !.pend = IF u1.boxes[c].pend.status = "rejected" THEN NoPend
                                   ELSE u1.boxes[c].pend]
    OBVIOUS
  <1>4. u1 = [u EXCEPT !.boxes[c].draft = t]
    BY <1>1, <1>2 DEF InBox
  <1>5. n = InBox(u1, c, b2)
    BY <1>3, <1>4 DEF Writing, InBox
  <1>6. u.boxes[c] \in Box
    BY DEF Ui
  <1>7. b1 \in Box /\ b1.draft = t /\ b1.pend = u.boxes[c].pend
    BY <1>1, <1>6 DEF Box
  <1>8. /\ u1 \in Ui /\ u1.snap = u.snap /\ u1.connection = u.connection
        /\ u1.sending = u.sending /\ u1.changing = u.changing
        /\ u1.timer = u.timer /\ u1.stopped = u.stopped
        /\ u1.boxes[c] = b1 /\ \A d \in Chats \ {c} : u1.boxes[d] = u.boxes[d]
    BY <1>2, <1>7, InBoxTyped
  <1>9. /\ b2 \in Box /\ b2.draft = t
        /\ b2.pend = IF u.boxes[c].pend.status = "rejected" THEN NoPend ELSE u.boxes[c].pend
    BY <1>3, <1>7, <1>8 DEF Box, Pend
  <1>10. QED
    BY <1>5, <1>8, <1>9, InBoxTyped

LEMMA TypesKeeps ==
    ASSUME HomeAssumption, HomeInv, Types
    PROVE  HomeInv'
  <1> DEFINE c == Active
             t == typed + 1
  <1>1. /\ ui' = Writing(ui, c, t) /\ typed' = t /\ typed < limit.texts
        /\ UNCHANGED <<flight, sent, freed, srv, late, limit, faults, quiet>>
        /\ ui.snap # NoState
    BY DEF Types, Env, Writing, Shown
  <1>2. c \in Chats
    BY <1>1, InvBasics DEF Ui, State, Active
  <1>3. t \in Texts /\ t \in 0 .. MaxTexts /\ typed \in Nat
    <2>1. limit.texts \in 0 .. MaxTexts /\ typed \in Nat
      BY HomeTyped DEF HomeInv, HomeTypeOK, HomeAssumption
    <2>2. QED
      BY <1>1, <2>1 DEF Texts, HomeAssumption
  <1> HIDE DEF c, t
  <1>4. /\ ui' \in Ui /\ ui'.snap = ui.snap /\ ui'.connection = ui.connection
        /\ ui'.sending = ui.sending /\ ui'.changing = ui.changing
        /\ ui'.timer = ui.timer /\ ui'.stopped = ui.stopped
        /\ ui'.boxes[c].draft = t
        /\ ui'.boxes[c].pend = IF ui.boxes[c].pend.status = "rejected" THEN NoPend
                               ELSE ui.boxes[c].pend
        /\ \A d \in Chats \ {c} : ui'.boxes[d] = ui.boxes[d]
    BY <1>1, <1>2, <1>3, InvBasics, WritingTyped
  <1>5. HomeTypeOK'
    BY <1>1, <1>3, <1>4 DEF HomeInv, HomeTypeOK, Ui
  <1>6. Mutate' = Mutate /\ AliveRids' = AliveRids
    BY <1>1 DEF Mutate, AliveRids, Sending
  <1>7. LanesHold'
    BY <1>1, <1>4, <1>6 DEF HomeInv, LanesHold, Shown
  <1>8. AnswersHold'
    BY <1>1, <1>6 DEF HomeInv, AnswersHold
  <1>9. ASSUME NEW d \in Chats
        PROVE  /\ ui'.boxes[d].pend \in {ui.boxes[d].pend, NoPend}
               /\ ui'.boxes[d].draft = IF d = c THEN t ELSE ui.boxes[d].draft
    BY <1>4
  <1>10. ui.boxes \in [Chats -> Box]
         /\ sent \in [Rids -> Texts \cup {NoText}]
    BY HomeTyped DEF HomeInv
  <1>11. SentWaits'
    <2>1. \A r \in Rids : sent[r] <= t
      <3>1. ASSUME NEW r \in Rids
            PROVE  sent[r] <= t
        <4>1. sent[r] \in Int /\ sent[r] <= typed
          BY <1>10 DEF HomeInv, SentWaits, Texts, NoText
        <4>2. QED
          BY <1>3, <4>1 DEF t
      <3>2. QED
        BY <3>1
    <2>2. Mutate.op = "message" => Mutate.chat \in Chats
      BY DEF HomeInv, LanesHold
    <2>3. QED
      BY <1>1, <1>6, <1>9, <2>1, <2>2 DEF HomeInv, SentWaits, NoPend
  <1>12. Boxed(ui'.boxes, sent, t, freed, AliveRids)
    <2>1. Boxed(ui.boxes, sent, typed, freed, AliveRids)
      BY DEF HomeInv
    <2>2. ASSUME NEW d \in Chats
          PROVE  /\ ui.boxes[d].draft < t /\ ui.boxes[d].pend.text < t
                 /\ ui'.boxes[d].pend.text \in {ui.boxes[d].pend.text, NoText}
      <3>1. ui.boxes[d].draft <= typed /\ ui.boxes[d].pend.text <= typed
        BY <2>1 DEF Boxed, Waits
      <3>2. ui.boxes[d] \in Box
        BY <1>10
      <3>3. QED
        BY <1>3, <1>9, <3>1, <3>2, BoxTyped DEF t, NoPend
    <2>3. ASSUME NEW r \in AliveRids
          PROVE  sent[r] # t
      <3>1. r \in Rids /\ sent[r] \in Int /\ sent[r] <= typed
        BY <1>10, AliveTyped DEF HomeInv, SentWaits, Texts, NoText
      <3>2. QED
        BY <1>3, <3>1 DEF t
    <2>4. Belongs(ui'.boxes)
      <3>1. ASSUME NEW d \in Chats, NEW e \in Chats, d # e
            PROVE  /\ ui'.boxes[d].draft # NoText =>
                        ui'.boxes[d].draft # ui'.boxes[e].draft
                        /\ ui'.boxes[d].draft # ui'.boxes[e].pend.text
                   /\ ui'.boxes[d].pend.text # NoText =>
                        ui'.boxes[d].pend.text # ui'.boxes[e].pend.text
        <4>1. /\ ui.boxes[d].draft # NoText =>
                        ui.boxes[d].draft # ui.boxes[e].draft
                        /\ ui.boxes[d].draft # ui.boxes[e].pend.text
              /\ ui.boxes[d].pend.text # NoText =>
                        ui.boxes[d].pend.text # ui.boxes[e].pend.text
          BY <2>1, <3>1 DEF Boxed, Belongs
        <4>2. t # NoText /\ t \in Nat
          BY <1>3 DEF Texts, NoText
        <4>3. ui.boxes[d] \in Box /\ ui.boxes[e] \in Box
          BY <1>10
        <4>4. /\ ui.boxes[d].draft \in Nat /\ ui.boxes[e].draft \in Nat
              /\ ui.boxes[d].pend.text \in Nat /\ ui.boxes[e].pend.text \in Nat
          BY <4>3, BoxTyped
        <4>5. /\ ui'.boxes[d].pend.text \in {ui.boxes[d].pend.text, NoText}
              /\ ui'.boxes[e].pend.text \in {ui.boxes[e].pend.text, NoText}
          BY <2>2
        <4>6. /\ ui.boxes[d].draft # t /\ ui.boxes[d].pend.text # t
              /\ ui.boxes[e].draft # t /\ ui.boxes[e].pend.text # t
          BY <2>2, <4>2, <4>4
        <4>7. /\ ui'.boxes[d].draft = IF d = c THEN t ELSE ui.boxes[d].draft
              /\ ui'.boxes[e].draft = IF e = c THEN t ELSE ui.boxes[e].draft
          BY <1>9
        <4>8. QED
          BY <3>1, <4>1, <4>2, <4>5, <4>6, <4>7
      <3>2. QED
        BY <3>1 DEF Belongs
    <2>5. Waits(ui'.boxes, sent, t)
      <3>1. ASSUME NEW d \in Chats
            PROVE  ui'.boxes[d].draft <= t /\ ui'.boxes[d].pend.text <= t
        <4>1. ui.boxes[d] \in Box
          BY <1>10
        <4>2. ui.boxes[d].draft \in Nat /\ ui.boxes[d].pend.text \in Nat /\ t \in Nat
          BY <1>3, <4>1, BoxTyped
        <4>3. QED
          BY <1>9, <2>2, <4>2 DEF NoText
      <3>2. \A d \in Chats : ui'.boxes[d].pend # NoPend =>
                                sent[ui'.boxes[d].pend.rid] = ui'.boxes[d].pend.text
        BY <1>9, <2>1 DEF Boxed, Waits
      <3>3. QED
        BY <3>1, <3>2 DEF Waits
    <2>6. RejectedIsDead(ui'.boxes, freed, AliveRids)
      BY <1>9, <2>1 DEF Boxed, RejectedIsDead, NoPend
    <2>7. DraftWaits(ui'.boxes, sent, freed, AliveRids)
      <3>1. SUFFICES ASSUME NEW d \in Chats, NEW r \in AliveRids,
                            sent[r] = ui'.boxes[d].draft, ui'.boxes[d].draft \notin freed
                     PROVE  ui'.boxes[d].pend.rid = r
        BY DEF DraftWaits
      <3>2. d # c /\ ui'.boxes[d] = ui.boxes[d]
        BY <1>4, <2>3, <3>1
      <3>3. QED
        BY <2>1, <3>1, <3>2 DEF Boxed, DraftWaits
    <2>8. QED
      BY <2>1, <2>4, <2>5, <2>6, <2>7 DEF Boxed
  <1>13. PollGoesOn'
    BY <1>1, <1>4, InvBasics DEF PollGoesOn
  <1>14. QED
    BY <1>1, <1>5, <1>6, <1>7, <1>8, <1>11, <1>12, <1>13 DEF HomeInv
\* A message is sent: its text is the draft, which no message on its way has.
LEMMA SendsKeeps ==
    ASSUME HomeAssumption, HomeInv, Sends
    PROVE  HomeInv'
  <1> DEFINE c == Active
             t == Here.draft
  <1>1. PICK r \in Rids :
            /\ sent[r] = NoText /\ sent' = [sent EXCEPT ![r] = t]
            /\ Asks("mutate", [NoReq EXCEPT !.op = "message", !.chat = c, !.rid = r],
                         [ui EXCEPT !.sending = TRUE,
                             !.boxes[c].pend = [rid |-> r, text |-> t, status |-> "sending"]])
    BY DEF Sends
  <1>2. PICK p : p = [rid |-> r, text |-> t, status |-> "sending"]
    OBVIOUS
  <1>3. PICK v : v = [ui EXCEPT !.sending = TRUE]
    OBVIOUS
  <1>4. PICK b : b = [v.boxes[c] EXCEPT !.pend = p]
    OBVIOUS
  <1>5. PICK u : u = InBox(v, c, b)
    OBVIOUS
  <1>6. PICK q : q = [NoReq EXCEPT !.op = "message", !.chat = c, !.rid = r]
    OBVIOUS
  <1>7. Asks("mutate", q, u)
    <2>1. u = [v EXCEPT !.boxes[c].pend = p]
      BY <1>4, <1>5 DEF InBox
    <2>2. u = [ui EXCEPT !.sending = TRUE,
                         !.boxes[c].pend = [rid |-> r, text |-> t, status |-> "sending"]]
      BY <1>2, <1>3, <2>1
    <2>3. QED
      BY <1>1, <1>6, <2>2
  <1>8. /\ UNCHANGED <<typed, freed, srv, late, limit, faults, quiet>>
        /\ ui.connection = "connected"
        /\ ui.boxes[c].pend.status # "unconfirmed" /\ t # NoText /\ t = ui.boxes[c].draft
    BY DEF Sends, Env, CanSend, Here
  <1>9. c \in Chats
    BY <1>8, InvBasics DEF Ui, State, Active
  <1> HIDE DEF c, t
  <1>10. /\ ui \in Ui /\ ui.boxes \in [Chats -> Box] /\ flight \in [Lanes -> Req]
         /\ sent \in [Rids -> Texts \cup {NoText}] /\ typed \in Nat
         /\ AliveRids \subseteq Rids /\ Boxed(ui.boxes, sent, typed, freed, AliveRids)
    BY HomeTyped, AliveTyped DEF HomeInv
  <1>11. /\ v \in Ui /\ v.snap = ui.snap /\ v.connection = ui.connection /\ v.sending = TRUE
         /\ v.changing = ui.changing /\ v.timer = ui.timer /\ v.stopped = ui.stopped
         /\ v.boxes = ui.boxes
    BY <1>3, <1>10 DEF Ui
  <1>12. t \in Texts
    <2>1. ui.boxes[c] \in Box
      BY <1>9, <1>10
    <2>2. QED
      BY <1>8, <2>1 DEF Box
  <1>13. p \in Pend /\ p.rid = r /\ p.text = t /\ p.status = "sending" /\ p # NoPend
    BY <1>2, <1>12 DEF Pend, NoPend
  <1>14. b \in Box /\ b.draft = t /\ b.pend = p
    <2>1. v.boxes[c] = ui.boxes[c] /\ ui.boxes[c] \in Box
      BY <1>9, <1>10, <1>11
    <2>2. QED
      BY <1>4, <1>8, <1>13, <2>1 DEF Box
  <1>15. q \in Req /\ q.op = "message" /\ q.chat = c /\ q.rid = r
    BY <1>6, <1>9 DEF NoReq, Req
  <1>16. /\ u \in Ui /\ u.snap = ui.snap /\ u.connection = ui.connection /\ u.sending = TRUE
         /\ u.changing = ui.changing /\ u.stopped = ui.stopped
         /\ u.boxes \in [Chats -> Box] /\ u.boxes[c] = b
         /\ \A d \in Chats \ {c} : u.boxes[d] = ui.boxes[d]
    BY <1>5, <1>9, <1>11, <1>14, InBoxTyped
  <1>17. /\ flight' \in [Lanes -> Req]
         /\ flight["mutate"].st = "none"
         /\ flight'["mutate"].st = "sent" /\ flight'["mutate"].op = "message"
         /\ flight'["mutate"].rid = r /\ flight'["mutate"].chat = c
         /\ flight'["poll"] = NoReq
         /\ \A l \in Lanes \ {"mutate", "poll"} : flight'[l] = flight[l]
    BY <1>7, <1>10, <1>15, <1>16, AsksTyped DEF Lanes
  <1>18. /\ ui' \in Ui /\ ui'.snap = ui.snap /\ ui'.connection = ui.connection
         /\ ui'.sending = TRUE /\ ui'.changing = ui.changing /\ ui'.stopped = ui.stopped
         /\ ui'.boxes = u.boxes
    BY <1>7, <1>10, <1>15, <1>16, AsksTyped DEF Lanes
  <1>19. /\ sent' \in [Rids -> Texts \cup {NoText}] /\ sent'[r] = t
         /\ \A s \in Rids \ {r} : sent'[s] = sent[s]
    BY <1>1, <1>10, <1>12
  <1>20. /\ Mutate.op = "none" /\ Mutate'.op = "message" /\ Mutate'.st = "sent"
         /\ Mutate'.rid = r /\ Mutate'.chat = c
    BY <1>17 DEF Mutate, HomeInv, LanesHold
  <1>21. AliveRids = srv.accepted \cup late /\ AliveRids' = srv.accepted \cup late \cup {r}
    BY <1>8, <1>20 DEF AliveRids, Sending
  <1>22. r \notin AliveRids
    BY <1>1 DEF HomeInv, SentWaits
  <1>23. HomeTypeOK'
    BY <1>8, <1>17, <1>18, <1>19 DEF HomeInv, HomeTypeOK, Ui
  <1>24. LanesHold'
    BY <1>8, <1>9, <1>17, <1>18, <1>20, NoReqTyped, InvBasics
    DEF HomeInv, LanesHold, Shown, Mutate, Lanes
  <1>25. AnswersHold'
    BY <1>8, <1>17, <1>20, <1>21, <1>22, NoReqTyped, InvBasics
    DEF HomeInv, AnswersHold, Lanes
  <1>26. SentWaits'
    <2>1. t <= typed
      BY <1>8, <1>9, <1>10 DEF Boxed, Waits
    <2>2. \A d \in Chats : ui'.boxes[d].pend.status = "sending" => d = c
      BY <1>16, <1>18, <1>20 DEF HomeInv, SentWaits
    <2>3. ui'.boxes[c].pend.rid = r
      BY <1>13, <1>14, <1>16, <1>18
    <2>4. \A s \in AliveRids' : sent'[s] # NoText
      BY <1>8, <1>10, <1>19, <1>21 DEF HomeInv, SentWaits
    <2>5. \A s \in Rids : sent'[s] <= typed'
      BY <1>8, <1>19, <2>1 DEF HomeInv, SentWaits
    <2>6. QED
      BY <1>8, <1>19, <1>20, <2>2, <2>3, <2>4, <2>5 DEF SentWaits
  <1>27. Boxed(ui'.boxes, sent', typed, freed, AliveRids')
    <2>1. \A d \in Chats : ui'.boxes[d].draft = ui.boxes[d].draft
      BY <1>8, <1>14, <1>16, <1>18
    <2>2. ui'.boxes[c].pend = p /\ \A d \in Chats \ {c} : ui'.boxes[d].pend = ui.boxes[d].pend
      BY <1>14, <1>16, <1>18
    <2>3. \A s \in AliveRids : sent[s] = t => t \in freed
      <3>1. SUFFICES ASSUME NEW s \in AliveRids, sent[s] = t, t \notin freed
                     PROVE  FALSE
        OBVIOUS
      <3>2. ui.boxes[c].pend.rid = s
        BY <1>8, <1>9, <1>10, <3>1 DEF Boxed, DraftWaits
      <3>3. ui.boxes[c] \in Box /\ s \in Rids
        BY <1>9, <1>10
      <3>4. ui.boxes[c].pend # NoPend
        BY <3>2, <3>3, BoxTyped DEF Rids, NoRid
      <3>5. ui.boxes[c].pend.status # "sending"
        BY <1>9, <1>20 DEF HomeInv, SentWaits
      <3>6. ui.boxes[c].pend.status = "rejected"
        BY <1>8, <3>3, <3>4, <3>5 DEF Box, Pend
      <3>7. sent[s] = ui.boxes[c].pend.text
        BY <1>9, <1>10, <3>2, <3>4 DEF Boxed, Waits
      <3>8. QED
        BY <1>9, <1>10, <3>1, <3>2, <3>6, <3>7 DEF Boxed, RejectedIsDead
    <2>4. Belongs(ui'.boxes)
      <3>1. ASSUME NEW d \in Chats, NEW e \in Chats, d # e
            PROVE  /\ ui'.boxes[d].draft # NoText =>
                        ui'.boxes[d].draft # ui'.boxes[e].draft
                        /\ ui'.boxes[d].draft # ui'.boxes[e].pend.text
                   /\ ui'.boxes[d].pend.text # NoText =>
                        ui'.boxes[d].pend.text # ui'.boxes[e].pend.text
        <4>1. \A x, y \in Chats : x # y =>
                   /\ ui.boxes[x].draft # NoText =>
                        ui.boxes[x].draft # ui.boxes[y].draft
                        /\ ui.boxes[x].draft # ui.boxes[y].pend.text
                   /\ ui.boxes[x].pend.text # NoText =>
                        ui.boxes[x].pend.text # ui.boxes[y].pend.text
          BY <1>10 DEF Boxed, Belongs
        <4>2. QED
          BY <1>8, <1>9, <1>13, <2>1, <2>2, <3>1, <4>1
      <3>2. QED
        BY <3>1 DEF Belongs
    <2>5. Waits(ui'.boxes, sent', typed)
      <3>1. ASSUME NEW d \in Chats
            PROVE  /\ ui'.boxes[d].draft <= typed /\ ui'.boxes[d].pend.text <= typed
                   /\ ui'.boxes[d].pend # NoPend =>
                        sent'[ui'.boxes[d].pend.rid] = ui'.boxes[d].pend.text
        <4>1. CASE d = c
          BY <1>8, <1>9, <1>10, <1>13, <1>19, <2>1, <2>2, <4>1 DEF Boxed, Waits
        <4>2. CASE d # c
          <5>1. /\ ui.boxes[d].draft <= typed /\ ui.boxes[d].pend.text <= typed
                /\ ui.boxes[d].pend # NoPend =>
                        sent[ui.boxes[d].pend.rid] = ui.boxes[d].pend.text
            BY <1>10 DEF Boxed, Waits
          <5>2. ui.boxes[d] \in Box
            BY <1>10
          <5>3. ui.boxes[d].pend # NoPend =>
                   ui.boxes[d].pend.rid \in Rids /\ ui.boxes[d].pend.text # NoText
            BY <5>2, BoxTyped DEF Texts, NoText
          <5>4. QED
            BY <1>1, <1>19, <2>1, <2>2, <4>2, <5>1, <5>3
        <4>3. QED
          BY <4>1, <4>2
      <3>2. QED
        BY <3>1 DEF Waits
    <2>6. RejectedIsDead(ui'.boxes, freed, AliveRids')
      <3>1. SUFFICES ASSUME NEW d \in Chats, ui'.boxes[d].pend.status = "rejected",
                            ui'.boxes[d].pend.text \notin freed
                     PROVE  ui'.boxes[d].pend.rid \notin AliveRids'
        BY DEF RejectedIsDead
      <3>2. d # c /\ ui'.boxes[d].pend = ui.boxes[d].pend
        BY <1>13, <2>2, <3>1
      <3>3. ui.boxes[d].pend.rid \notin AliveRids
        BY <1>10, <3>1, <3>2 DEF Boxed, RejectedIsDead
      <3>4. ui.boxes[d].pend.rid # r
        <4>1. ui.boxes[d] \in Box
          BY <1>10
        <4>2. ui.boxes[d].pend # NoPend
          BY <3>1, <3>2 DEF NoPend
        <4>3. sent[ui.boxes[d].pend.rid] = ui.boxes[d].pend.text
              /\ ui.boxes[d].pend.text # NoText
          BY <1>10, <4>1, <4>2, BoxTyped DEF Boxed, Waits, Texts, NoText
        <4>4. QED
          BY <1>1, <4>3
      <3>5. QED
        BY <1>21, <3>2, <3>3, <3>4
    <2>7. DraftWaits(ui'.boxes, sent', freed, AliveRids')
      <3>1. SUFFICES ASSUME NEW d \in Chats, NEW s \in AliveRids',
                            sent'[s] = ui'.boxes[d].draft, ui'.boxes[d].draft \notin freed
                     PROVE  ui'.boxes[d].pend.rid = s
        BY DEF DraftWaits
      <3>2. CASE s = r
        <4>1. ui.boxes[d].draft = t
          BY <1>19, <2>1, <3>1, <3>2
        <4>2. d = c
          BY <1>8, <1>9, <1>10, <4>1 DEF Boxed, Belongs
        <4>3. QED
          BY <1>13, <2>2, <3>2, <4>2
      <3>3. CASE s # r
        <4>1. s \in AliveRids /\ s \in Rids /\ sent[s] = ui.boxes[d].draft
          BY <1>10, <1>19, <1>21, <2>1, <3>1, <3>3
        <4>2. d # c
          BY <1>8, <2>1, <2>3, <3>1, <4>1
        <4>3. QED
          BY <1>10, <2>1, <2>2, <3>1, <4>1, <4>2 DEF Boxed, DraftWaits
      <3>4. QED
        BY <3>2, <3>3
    <2>8. AliveOnce(sent', freed, AliveRids')
      <3>1. \A s \in AliveRids : sent'[s] = sent[s] /\ s # r
        BY <1>10, <1>19, <1>22
      <3>2. AliveOnce(sent, freed, AliveRids)
        BY <1>10 DEF Boxed
      <3>3. QED
        BY <1>19, <1>21, <2>3, <3>1, <3>2 DEF AliveOnce
    <2>9. QED
      BY <2>4, <2>5, <2>6, <2>7, <2>8 DEF Boxed
  <1>28. PollGoesOn'
    BY <1>17 DEF PollGoesOn, Lanes
  <1>29. QED
    BY <1>8, <1>23, <1>24, <1>25, <1>26, <1>27, <1>28 DEF HomeInv
\* A recovery starts; nothing waits anew.
LEMMA RecoversKeeps ==
    ASSUME HomeAssumption, HomeInv, Recovers
    PROVE  HomeInv'
  <1> DEFINE c == Active
  <1>1. PICK q : q = [NoReq EXCEPT !.op = "recover", !.chat = c]
    OBVIOUS
  <1>2. PICK u : u = [ui EXCEPT !.sending = TRUE]
    OBVIOUS
  <1>3. /\ Asks("mutate", q, u) /\ ui.snap.recovery /\ ui.connection = "connected"
        /\ UNCHANGED <<sent, typed, freed, srv, late, limit, faults, quiet>>
    BY <1>1, <1>2 DEF Recovers, Env
  <1>4. c \in Chats
    BY <1>3, InvBasics DEF Ui, State, Active
  <1> HIDE DEF c
  <1>5. q \in Req /\ q.op = "recover" /\ q.chat = c /\ q.rid = NoRid
    BY <1>1, <1>4 DEF NoReq, Req
  <1>6. /\ u \in Ui /\ u.snap = ui.snap /\ u.connection = ui.connection /\ u.sending = TRUE
        /\ u.changing = ui.changing /\ u.stopped = ui.stopped /\ u.boxes = ui.boxes
    BY <1>2, InvBasics DEF Ui
  <1>7. flight \in [Lanes -> Req]
    BY InvBasics
  <1>8. /\ flight' \in [Lanes -> Req]
        /\ flight["mutate"].st = "none"
        /\ flight'["mutate"].st = "sent" /\ flight'["mutate"].op = "recover"
        /\ flight'["mutate"].rid = NoRid /\ flight'["mutate"].chat = c
        /\ flight'["poll"] = NoReq
        /\ \A l \in Lanes \ {"mutate", "poll"} : flight'[l] = flight[l]
        /\ ui' \in Ui /\ ui'.snap = ui.snap /\ ui'.connection = ui.connection
        /\ ui'.sending = TRUE /\ ui'.changing = ui.changing /\ ui'.stopped = ui.stopped
        /\ ui'.boxes = ui.boxes
    BY <1>3, <1>5, <1>6, <1>7, AsksTyped DEF Lanes
  <1>9. /\ Mutate.op = "none" /\ Mutate'.op = "recover" /\ Mutate'.st = "sent"
        /\ Mutate'.rid = NoRid /\ Mutate'.chat = c
    BY <1>8 DEF Mutate, HomeInv, LanesHold
  <1>10. AliveRids' = AliveRids
    BY <1>3, <1>9 DEF AliveRids, Sending
  <1>11. HomeTypeOK'
    BY <1>3, <1>8 DEF HomeInv, HomeTypeOK, Ui
  <1>12. LanesHold'
    BY <1>3, <1>4, <1>8, <1>9, NoReqTyped, InvBasics
    DEF HomeInv, LanesHold, Shown, Mutate, Lanes
  <1>13. AnswersHold'
    BY <1>3, <1>8, <1>9, NoReqTyped, InvBasics DEF HomeInv, AnswersHold, Lanes
  <1>14. SentWaits'
    BY <1>3, <1>8, <1>9, <1>10 DEF HomeInv, SentWaits
  <1>15. PollGoesOn'
    BY <1>8 DEF PollGoesOn, Lanes
  <1>16. QED
    BY <1>3, <1>8, <1>10, <1>11, <1>12, <1>13, <1>14, <1>15 DEF HomeInv

\* What waits and is unconfirmed becomes the draft again, and is free.
LEMMA ReturnsKeep ==
    ASSUME HomeAssumption, HomeInv, ReturnsToDraft
    PROVE  HomeInv'
  <1> DEFINE c == Active
             t == Here.pend.text
  <1>1. PICK b : b = [draft |-> t, pend |-> NoPend]
    OBVIOUS
  <1>2. /\ ui' = InBox(ui, c, b) /\ freed' = freed \cup {t}
        /\ ui.snap # NoState /\ t = ui.boxes[c].pend.text
        /\ ui.boxes[c].pend.status = "unconfirmed"
        /\ UNCHANGED <<flight, sent, typed, srv, late, limit, faults, quiet>>
    BY <1>1 DEF ReturnsToDraft, Env, InBox, Here, Shown
  <1>3. c \in Chats
    BY <1>2, InvBasics DEF Ui, State, Active
  <1> HIDE DEF c, t
  <1>4. /\ ui \in Ui /\ ui.boxes \in [Chats -> Box]
        /\ sent \in [Rids -> Texts \cup {NoText}] /\ typed \in Nat
        /\ AliveRids \subseteq Rids /\ Boxed(ui.boxes, sent, typed, freed, AliveRids)
    BY HomeTyped, AliveTyped DEF HomeInv
  <1>5. t \in Texts
    <2>1. ui.boxes[c] \in Box /\ ui.boxes[c].pend # NoPend
      BY <1>2, <1>3, <1>4 DEF NoPend
    <2>2. QED
      BY <1>2, <2>1, BoxTyped
  <1>6. b \in Box /\ b.draft = t /\ b.pend = NoPend
    BY <1>1, <1>5 DEF Box, Pend
  <1>7. /\ ui' \in Ui /\ ui'.snap = ui.snap /\ ui'.connection = ui.connection
        /\ ui'.sending = ui.sending /\ ui'.changing = ui.changing
        /\ ui'.timer = ui.timer /\ ui'.stopped = ui.stopped
        /\ ui'.boxes[c] = b /\ \A d \in Chats \ {c} : ui'.boxes[d] = ui.boxes[d]
    <2>1. ui \in Ui /\ b \in Box /\ ui' = InBox(ui, c, b)
      BY <1>2, <1>4, <1>6
    <2>2. PICK n : n = ui'
      OBVIOUS
    <2>3. /\ n \in Ui /\ n.snap = ui.snap /\ n.connection = ui.connection
          /\ n.sending = ui.sending /\ n.changing = ui.changing
          /\ n.timer = ui.timer /\ n.stopped = ui.stopped
          /\ n.boxes[c] = b /\ \A d \in Chats \ {c} : n.boxes[d] = ui.boxes[d]
      BY <1>3, <2>1, <2>2, InBoxTyped
    <2>4. QED
      BY <2>2, <2>3
  <1>8. HomeTypeOK'
    BY <1>2, <1>5, <1>7 DEF HomeInv, HomeTypeOK, Ui
  <1>9. Mutate' = Mutate /\ AliveRids' = AliveRids
    BY <1>2 DEF Mutate, AliveRids, Sending
  <1>10. LanesHold'
    BY <1>2, <1>7, <1>9 DEF HomeInv, LanesHold, Shown
  <1>11. AnswersHold'
    BY <1>2, <1>9 DEF HomeInv, AnswersHold
  <1>12. SentWaits'
    <2>1. \A d \in Chats : ui'.boxes[d].pend = ui.boxes[d].pend \/ ui'.boxes[d].pend = NoPend
      BY <1>6, <1>7
    <2>2. Mutate.op = "message" => Mutate.chat \in Chats
      BY DEF HomeInv, LanesHold
    <2>3. QED
      BY <1>2, <1>9, <2>1, <2>2 DEF HomeInv, SentWaits, NoPend
  <1>13. Boxed(ui'.boxes, sent, typed, freed', AliveRids)
    <2>1. ASSUME NEW d \in Chats
          PROVE  /\ ui'.boxes[d].draft = IF d = c THEN t ELSE ui.boxes[d].draft
                 /\ ui'.boxes[d].pend = IF d = c THEN NoPend ELSE ui.boxes[d].pend
      BY <1>6, <1>7
    <2>2. Belongs(ui'.boxes)
      <3>1. ASSUME NEW d \in Chats, NEW e \in Chats, d # e
            PROVE  /\ ui'.boxes[d].draft # NoText =>
                        ui'.boxes[d].draft # ui'.boxes[e].draft
                        /\ ui'.boxes[d].draft # ui'.boxes[e].pend.text
                   /\ ui'.boxes[d].pend.text # NoText =>
                        ui'.boxes[d].pend.text # ui'.boxes[e].pend.text
        <4>1. \A x, y \in Chats : x # y =>
                   /\ ui.boxes[x].draft # NoText =>
                        ui.boxes[x].draft # ui.boxes[y].draft
                        /\ ui.boxes[x].draft # ui.boxes[y].pend.text
                   /\ ui.boxes[x].pend.text # NoText =>
                        ui.boxes[x].pend.text # ui.boxes[y].pend.text
          BY <1>4 DEF Boxed, Belongs
        <4>2. NoPend.text = NoText /\ t # NoText
          BY <1>5 DEF NoPend, NoText, Texts
        <4>3. QED
          BY <1>2, <1>3, <2>1, <3>1, <4>1, <4>2
      <3>2. QED
        BY <3>1 DEF Belongs
    <2>3. Waits(ui'.boxes, sent, typed)
      <3>1. \A d \in Chats : /\ ui.boxes[d].draft <= typed /\ ui.boxes[d].pend.text <= typed
                             /\ ui.boxes[d].pend # NoPend =>
                                  sent[ui.boxes[d].pend.rid] = ui.boxes[d].pend.text
        BY <1>4 DEF Boxed, Waits
      <3>2. NoPend.text <= typed
        BY <1>4 DEF NoPend, NoText
      <3>3. QED
        BY <1>2, <2>1, <3>1, <3>2 DEF Waits
    <2>4. RejectedIsDead(ui'.boxes, freed', AliveRids)
      BY <1>2, <1>4, <2>1 DEF Boxed, RejectedIsDead, NoPend
    <2>5. DraftWaits(ui'.boxes, sent, freed', AliveRids)
      BY <1>2, <1>4, <2>1 DEF Boxed, DraftWaits
    <2>6. AliveOnce(sent, freed', AliveRids)
      BY <1>2, <1>4 DEF Boxed, AliveOnce
    <2>7. QED
      BY <2>2, <2>3, <2>4, <2>5, <2>6 DEF Boxed
  <1>14. PollGoesOn'
    BY <1>2, <1>7, InvBasics DEF PollGoesOn
  <1>15. QED
    BY <1>2, <1>8, <1>9, <1>10, <1>11, <1>12, <1>13, <1>14 DEF HomeInv

\* The page is loaded again: what was being sent may still arrive, and what
\* waits is unconfirmed.
LEMMA ReloadsKeep ==
    ASSUME HomeAssumption, HomeInv, Reloads
    PROVE  HomeInv'
  <1> DEFINE Again(b) == [b EXCEPT !.pend = IF @ = NoPend THEN @
                                            ELSE [@ EXCEPT !.status = "unconfirmed"]]
  <1>1. PICK bs : bs = [c \in Chats |-> Again(ui.boxes[c])]
    OBVIOUS
  <1>2. /\ late' = late \cup ({flight[l].rid : l \in {k \in Lanes : flight[k].st = "sent"}}
                                \ {NoRid})
        /\ flight' = [l \in Lanes |-> NoReq]
        /\ ui' = [snap |-> NoState, connection |-> "loading", sending |-> FALSE,
                  changing |-> FALSE, boxes |-> bs, timer |-> FALSE, stopped |-> TRUE]
        /\ UNCHANGED <<srv, sent, typed, freed, limit, quiet>>
        /\ faults < limit.faults /\ faults' = faults + 1
    BY <1>1 DEF Reloads
  <1>3. /\ ui.boxes \in [Chats -> Box] /\ typed \in Nat
        /\ sent \in [Rids -> Texts \cup {NoText}]
        /\ AliveRids \subseteq Rids /\ Boxed(ui.boxes, sent, typed, freed, AliveRids)
        /\ \A r \in AliveRids : sent[r] # NoText
    BY HomeTyped, AliveTyped DEF HomeInv, SentWaits
  <1>4. ASSUME NEW b \in Box
        PROVE  /\ Again(b) \in Box /\ Again(b).draft = b.draft
               /\ Again(b).pend.rid = b.pend.rid /\ Again(b).pend.text = b.pend.text
               /\ Again(b).pend # NoPend => b.pend # NoPend
               /\ Again(b).pend.status \notin {"rejected", "sending"}
    <2>1. CASE b.pend = NoPend
      <3>1. Again(b) = b
        BY <2>1 DEF Box
      <3>2. QED
        BY <2>1, <3>1 DEF NoPend
    <2>2. CASE b.pend # NoPend
      <3>1. PICK p : p = [b.pend EXCEPT !.status = "unconfirmed"]
        OBVIOUS
      <3>2. Again(b) = [b EXCEPT !.pend = p]
        BY <2>2, <3>1
      <3>3. p \in Pend /\ p.rid = b.pend.rid /\ p.text = b.pend.text
            /\ p.status = "unconfirmed"
        BY <2>2, <3>1 DEF Box, Pend
      <3>4. QED
        BY <2>2, <3>2, <3>3 DEF Box
    <2>3. QED
      BY <2>1, <2>2
  <1>5. bs \in [Chats -> Box] /\ \A c \in Chats : bs[c] = Again(ui.boxes[c])
    BY <1>1, <1>3, <1>4
  <1>6. late' \subseteq AliveRids /\ late' \subseteq Rids
    <2>1. ASSUME NEW l \in Lanes, flight[l].st = "sent", flight[l].rid # NoRid
          PROVE  l = "mutate" /\ Sending
      BY <2>1 DEF HomeInv, LanesHold, Sending, Mutate
    <2>2. late' \subseteq AliveRids
      BY <1>2, <2>1 DEF AliveRids, Mutate
    <2>3. QED
      BY <1>3, <2>2
  <1>7. /\ flight' \in [Lanes -> Req] /\ Mutate' = NoReq
        /\ \A l \in Lanes : flight'[l] = NoReq
    BY <1>2, NoReqTyped DEF Mutate, Lanes
  <1>8. AliveRids' \subseteq AliveRids
    BY <1>2, <1>6, <1>7, NoReqTyped DEF AliveRids, Sending
  <1>9. ui' \in Ui /\ ui'.boxes = bs /\ ui'.connection = "loading" /\ ui'.stopped
        /\ ~ui'.sending /\ ~ui'.changing
    BY <1>2, <1>5 DEF Ui
  <1>10. HomeTypeOK'
    <2>1. limit.faults \in Nat
      BY DEF HomeInv, HomeTypeOK, HomeAssumption
    <2>2. faults' \in 0 .. limit.faults
      BY <1>2, <2>1, InvBasics
    <2>3. QED
      BY <1>2, <1>6, <1>7, <1>9, <2>2 DEF HomeInv, HomeTypeOK, Ui
  <1>11. LanesHold'
    BY <1>7, <1>9, NoReqTyped DEF LanesHold, Shown
  <1>12. AnswersHold'
    BY <1>7, NoReqTyped DEF AnswersHold
  <1>13. SentWaits'
    <2>1. ASSUME NEW c \in Chats
          PROVE  ui'.boxes[c].pend.status # "sending"
      <3>1. ui.boxes[c] \in Box
        BY <1>3
      <3>2. Again(ui.boxes[c]).pend.status \notin {"rejected", "sending"}
        BY <1>4, <3>1
      <3>3. ui'.boxes[c] = Again(ui.boxes[c])
        BY <1>5, <1>9
      <3>4. QED
        BY <3>2, <3>3
    <2>2. Mutate'.op = "none"
      BY <1>7, NoReqTyped
    <2>3. \A r \in AliveRids' : sent'[r] # NoText
      BY <1>2, <1>3, <1>8
    <2>4. \A r \in Rids : sent'[r] <= typed'
      BY <1>2 DEF HomeInv, SentWaits
    <2>5. QED
      BY <2>1, <2>2, <2>3, <2>4 DEF SentWaits
  <1>14. Boxed(bs, sent, typed, freed, AliveRids')
    <2>1. \A c \in Chats : MovesBox(ui.boxes[c], bs[c], freed, AliveRids')
      BY <1>3, <1>4, <1>5 DEF MovesBox
    <2>2. QED
      BY <1>3, <1>5, <1>8, <2>1, MovesKeepBoxed
  <1>15. PollGoesOn'
    BY <1>9 DEF PollGoesOn
  <1>16. QED
    BY <1>2, <1>9, <1>10, <1>11, <1>12, <1>13, <1>14, <1>15 DEF HomeInv
-----------------------------------------------------------------------------
(* The answer to the message on its way.                                   *)

LEMMA SettledStep ==
    ASSUME HomeAssumption, HomeInv, NEW m \in Ui,
           ui' = Queued([m EXCEPT !.sending = FALSE]),
           flight' = [flight EXCEPT !["mutate"] = NoReq],
           freed \subseteq freed', freed' \subseteq Texts,
           UNCHANGED <<srv, late, sent, typed, limit, faults, quiet>>,
           m.changing = ui.changing,
           m.connection = "connected" => m.snap # NoState,
           \A c \in Chats : /\ MovesBox(ui.boxes[c], m.boxes[c], freed', srv.accepted \cup late)
                            /\ m.boxes[c].pend.status # "sending"
    PROVE  HomeInv'
  <1>1. PICK v : v = [m EXCEPT !.sending = FALSE]
    OBVIOUS
  <1>2. /\ v \in Ui /\ v.snap = m.snap /\ v.connection = m.connection /\ v.boxes = m.boxes
        /\ v.sending = FALSE /\ v.changing = m.changing /\ v.stopped = m.stopped
    BY <1>1 DEF Ui
  <1>3. /\ ui' \in Ui /\ ui'.snap = m.snap /\ ui'.connection = m.connection
        /\ ui'.boxes = m.boxes /\ ui'.sending = FALSE /\ ui'.changing = ui.changing
        /\ ui'.timer = ~m.stopped /\ ui'.stopped = m.stopped
    BY <1>1, <1>2, QueuedTyped
  <1>4. /\ flight' \in [Lanes -> Req] /\ Mutate' = NoReq
        /\ \A l \in Lanes \ {"mutate"} : flight'[l] = flight[l]
    BY InvBasics, NoReqTyped DEF Mutate, Lanes
  <1>5. HomeTypeOK'
    BY <1>3, <1>4 DEF HomeInv, HomeTypeOK, Ui
  <1>6. LanesHold'
    <2>1. ui'.changing => flight'["control"].st # "none"
      BY <1>3, <1>4, InvBasics DEF Lanes
    <2>2. \A l \in Lanes \ {"mutate"} : flight'[l].op = "none" /\ flight'[l].rid = NoRid
      BY <1>4 DEF HomeInv, LanesHold
    <2>3. QED
      BY <1>3, <1>4, <2>1, <2>2, NoReqTyped DEF LanesHold, Shown
  <1>7. AliveRids' = srv.accepted \cup late /\ AliveRids' \subseteq AliveRids
    BY <1>4, NoReqTyped DEF AliveRids, Sending
  <1>8. AnswersHold'
    <2>1. ASSUME NEW l \in Lanes, flight'[l].st = "answered"
          PROVE  flight'[l].answer \in State /\ flight'[l].answer.accepted \subseteq srv'.accepted
      <3>1. l # "mutate"
        BY <1>4, <2>1, NoReqTyped DEF Mutate
      <3>2. QED
        BY <1>4, <2>1, <3>1 DEF HomeInv, AnswersHold
    <2>2. QED
      BY <1>4, <2>1, NoReqTyped DEF AnswersHold
  <1>9. SentWaits'
    <2>1. \A r \in Rids : sent'[r] <= typed'
      BY DEF HomeInv, SentWaits
    <2>2. \A r \in AliveRids' : sent'[r] # NoText
      BY <1>7 DEF HomeInv, SentWaits
    <2>3. QED
      BY <1>3, <1>4, <2>1, <2>2, NoReqTyped DEF SentWaits
  <1>10. Boxed(m.boxes, sent, typed, freed', AliveRids')
    <2>1. ui.boxes \in [Chats -> Box] /\ m.boxes \in [Chats -> Box]
      BY InvBasics DEF Ui
    <2>2. /\ sent \in [Rids -> Texts \cup {NoText}] /\ typed \in Nat
      BY HomeTyped DEF HomeInv
    <2>3. /\ AliveRids \subseteq Rids /\ \A r \in AliveRids : sent[r] # NoText
          /\ Boxed(ui.boxes, sent, typed, freed, AliveRids)
      BY AliveTyped DEF HomeInv, SentWaits
    <2>4. \A c \in Chats : MovesBox(ui.boxes[c], m.boxes[c], freed', AliveRids')
      BY <1>7
    <2>5. QED
      BY <1>7, <2>1, <2>2, <2>3, <2>4, MovesKeepBoxed
  <1>11. PollGoesOn'
    BY <1>3 DEF PollGoesOn, Ui
  <1>12. QED
    BY <1>3, <1>5, <1>6, <1>8, <1>9, <1>10, <1>11 DEF HomeInv

\* What an answer makes of the message that waits for it.
LEMMA AnsweredBoxes ==
    ASSUME HomeAssumption, HomeInv, NEW chat \in Chats,
           NEW accepted, accepted \subseteq srv.accepted,
           Mutate.op = "message" => chat = Mutate.chat /\ Mutate.rid \in accepted,
           NEW ns, ns = Reconciled(ui.boxes, chat, accepted), NEW again, NEW alive
    PROVE  \A c \in Chats : /\ MovesBox(ui.boxes[c], ns[c], again, alive)
                            /\ ns[c].pend.status # "sending"
  <1>1. ui.boxes \in [Chats -> Box]
    BY InvBasics DEF Ui
  <1>2. /\ \A c \in Chats : ns[c] = ui.boxes[c] \/ (c = chat /\ Clears(ui.boxes[c], ns[c], accepted))
        /\ ui.boxes[chat].pend.rid \in accepted => ns[chat].pend = NoPend
    BY <1>1, ReconciledClears
  <1>3. ASSUME NEW c \in Chats
        PROVE  MovesBox(ui.boxes[c], ns[c], again, alive)
    BY <1>2, ClearsMoves DEF MovesBox
  <1>4. ASSUME NEW c \in Chats, ns[c].pend.status = "sending"
        PROVE  FALSE
    <2>1. NoPend.status # "sending"
      BY DEF NoPend
    <2>2. ns[c] = ui.boxes[c]
      BY <1>2, <1>4, <2>1 DEF Clears
    <2>3. Mutate.op = "message" /\ Mutate.chat = c /\ c = chat /\ Mutate.rid \in accepted
          /\ ui.boxes[c].pend.rid \in {NoRid, Mutate.rid}
      BY <1>4, <2>2 DEF HomeInv, SentWaits
    <2>4. ui.boxes[c].pend # NoPend /\ ui.boxes[c] \in Box
      BY <1>1, <1>4, <2>1, <2>2
    <2>5. ui.boxes[c].pend.rid = Mutate.rid
      BY <2>3, <2>4, BoxTyped
    <2>6. QED
      BY <1>2, <1>4, <2>1, <2>3, <2>5
  <1>5. QED
    BY <1>3, <1>4

LEMMA MutateSettlesKeeps ==
    ASSUME HomeAssumption, HomeInv, MutateSettles
    PROVE  HomeInv'
  <1>1. PICK m : m = Mutated(ui, Mutate)
    OBVIOUS
  <1>2. /\ Mutate.st \notin {"none", "sent"}
        /\ ui' = Queued([m EXCEPT !.sending = FALSE])
        /\ flight' = [flight EXCEPT !["mutate"] = NoReq]
        /\ freed' = IF Mutate.op = "recover" /\ Mutate.st = "refused"
                    THEN freed \cup ({ui.boxes[Mutate.chat].pend.text} \ {NoText}) ELSE freed
        /\ UNCHANGED <<srv, late, sent, typed, limit, faults, quiet>>
    BY <1>1 DEF MutateSettles, Env, Mutate
  <1>3. ui \in Ui /\ ui.boxes \in [Chats -> Box] /\ freed \subseteq Texts
        /\ Mutate \in Req
    BY InvBasics DEF Ui, HomeInv, HomeTypeOK, Mutate, Lanes
  <1>4. Mutate.chat \in Chats /\ Mutate.op \in {"message", "recover"}
    BY <1>2, <1>3 DEF HomeInv, LanesHold, Req
  <1>5. freed \subseteq freed' /\ freed' \subseteq Texts
    <2>1. ui.boxes[Mutate.chat].pend.text \in Texts \cup {NoText}
      <3>1. ui.boxes[Mutate.chat] \in Box
        BY <1>3, <1>4
      <3>2. QED
        BY <3>1, BoxTyped DEF NoPend
    <2>2. QED
      BY <1>2, <1>3, <2>1
  <1>6. CASE Mutate.st = "answered"
    <2>1. /\ Mutate.answer \in State /\ Mutate.answer.accepted \subseteq srv.accepted
          /\ Mutate.op = "message" => Mutate.answer.active = Mutate.chat
                                      /\ Mutate.rid \in Mutate.answer.accepted
      BY <1>6 DEF HomeInv, AnswersHold, Mutate, Lanes
    <2>2. CASE Mutate.chat = ui.snap.active
      <3>1. m = Accepted(ui, Mutate.answer)
        BY <1>1, <1>6, <2>2 DEF Mutated
      <3>2. /\ m \in Ui /\ m.snap = Mutate.answer /\ m.changing = ui.changing
            /\ m.boxes = Reconciled(ui.boxes, Mutate.answer.active, Mutate.answer.accepted)
        BY <1>3, <2>1, <3>1, AcceptedTyped
      <3>3. Mutate.answer.active \in Chats
        BY <2>1 DEF State
      <3>4. \A c \in Chats :
                /\ MovesBox(ui.boxes[c], m.boxes[c], freed', srv.accepted \cup late)
                /\ m.boxes[c].pend.status # "sending"
        BY <2>1, <3>2, <3>3, AnsweredBoxes
      <3>5. QED
        BY <1>2, <1>5, <2>1, <3>2, <3>4, NoStateIsNone, SettledStep
    <2>3. CASE Mutate.chat # ui.snap.active
      <3>1. PICK ns : ns = Reconciled(ui.boxes, Mutate.chat, Mutate.answer.accepted)
        OBVIOUS
      <3>2. m = [ui EXCEPT !.boxes = ns]
        BY <1>1, <1>6, <2>3, <3>1 DEF Mutated
      <3>3. ns \in [Chats -> Box]
        BY <1>3, <1>4, <3>1, ReconciledClears
      <3>4. /\ m \in Ui /\ m.snap = ui.snap /\ m.changing = ui.changing
            /\ m.connection = ui.connection /\ m.boxes = ns
        BY <1>3, <3>2, <3>3 DEF Ui
      <3>5. \A c \in Chats :
                /\ MovesBox(ui.boxes[c], ns[c], freed', srv.accepted \cup late)
                /\ ns[c].pend.status # "sending"
        BY <1>4, <2>1, <3>1, AnsweredBoxes
      <3>6. m.connection = "connected" => m.snap # NoState
        BY <3>4, InvBasics
      <3>7. QED
        BY <1>2, <1>5, <3>4, <3>5, <3>6, SettledStep
    <2>4. QED
      BY <2>2, <2>3
  <1>7. CASE Mutate.st # "answered"
    <2>1. PICK how : how = IF Mutate.st = "refused" THEN "rejected" ELSE "unconfirmed"
      OBVIOUS
    <2>2. PICK old : old = ui.boxes[Mutate.chat]
      OBVIOUS
    <2>3. PICK p : p = IF old.pend = NoPend THEN old.pend ELSE [old.pend EXCEPT !.status = how]
      OBVIOUS
    <2>4. PICK b : b = [old EXCEPT !.pend = p]
      OBVIOUS
    <2>5. m = InBox(ui, Mutate.chat, b)
      <3>1. m = [ui EXCEPT !.boxes[Mutate.chat].pend = p]
        BY <1>1, <1>7, <2>1, <2>2, <2>3 DEF Mutated
      <3>2. b = [ui.boxes[Mutate.chat] EXCEPT !.pend = p]
        BY <2>2, <2>4
      <3>3. QED
        BY <3>1, <3>2, PendInBox
    <2>6. old \in Box
      BY <1>3, <1>4, <2>2
    <2>7. /\ p \in Pend /\ p.rid = old.pend.rid /\ p.text = old.pend.text
          /\ p # NoPend => old.pend # NoPend /\ p.status = how
          /\ p = NoPend => p.status = "none"
      <3>1. CASE old.pend = NoPend
        BY <2>3, <2>6, <3>1, BoxTyped
      <3>2. CASE old.pend # NoPend
        <4>1. p = [old.pend EXCEPT !.status = how]
          BY <2>3, <3>2
        <4>2. old.pend \in [rid : Rids, text : Texts,
                            status : {"sending", "unconfirmed", "rejected"}]
          BY <2>6, <3>2 DEF Box, Pend
        <4>3. p \in [rid : Rids, text : Texts,
                     status : {"sending", "unconfirmed", "rejected"}]
          BY <2>1, <4>1, <4>2
        <4>4. p.rid = old.pend.rid /\ p.text = old.pend.text /\ p.status = how
          BY <4>1, <4>2
        <4>5. QED
          BY <2>1, <3>2, <4>3, <4>4 DEF Pend, NoPend
      <3>3. QED
        BY <3>1, <3>2
    <2>8. b \in Box /\ b.draft = old.draft /\ b.pend = p
      BY <2>4, <2>6, <2>7 DEF Box
    <2>9. /\ m \in Ui /\ m.snap = ui.snap /\ m.connection = ui.connection
          /\ m.changing = ui.changing /\ m.boxes[Mutate.chat] = b
          /\ \A d \in Chats \ {Mutate.chat} : m.boxes[d] = ui.boxes[d]
      <3>1. PICK d, n : d = Mutate.chat /\ n = ui
        OBVIOUS
      <3>2. d \in Chats /\ n \in Ui /\ b \in Box /\ m = InBox(n, d, b)
        BY <1>3, <1>4, <2>5, <2>8, <3>1
      <3>3. /\ m \in Ui /\ m.snap = n.snap /\ m.connection = n.connection
            /\ m.changing = n.changing /\ m.boxes[d] = b
            /\ \A e \in Chats \ {d} : m.boxes[e] = n.boxes[e]
        BY <3>2, InBoxTyped
      <3>4. QED
        BY <3>1, <3>3
    <2>10. p.status = "rejected" => p.text \in freed' \/ p.rid \notin srv.accepted \cup late
      <3>1. SUFFICES ASSUME p.status = "rejected"
                     PROVE  p.text \in freed' \/ p.rid \notin srv.accepted \cup late
        OBVIOUS
      <3>2. Mutate.st = "refused" /\ old.pend # NoPend
        BY <2>1, <2>7, <3>1
      <3>3. CASE Mutate.op = "message"
        <4>1. old.pend.rid \in {NoRid, Mutate.rid}
          BY <2>2, <3>3 DEF HomeInv, SentWaits
        <4>2. p.rid = Mutate.rid
          BY <2>6, <2>7, <3>2, <4>1, BoxTyped
        <4>3. Mutate.rid \notin srv.accepted \cup late
          BY <3>2, <3>3 DEF HomeInv, AnswersHold
        <4>4. QED
          BY <4>2, <4>3
      <3>4. CASE Mutate.op = "recover"
        <4>1. p.text # NoText
          BY <2>6, <2>7, <3>2, BoxTyped
        <4>2. QED
          BY <1>2, <2>2, <2>7, <3>2, <3>4, <4>1
      <3>5. QED
        BY <1>4, <3>3, <3>4
    <2>11. ASSUME NEW c \in Chats
           PROVE  /\ MovesBox(ui.boxes[c], m.boxes[c], freed', srv.accepted \cup late)
                  /\ m.boxes[c].pend.status # "sending"
      <3>1. CASE c = Mutate.chat
        BY <2>1, <2>2, <2>7, <2>8, <2>9, <2>10, <3>1 DEF MovesBox
      <3>2. CASE c # Mutate.chat
        BY <2>9, <3>2 DEF MovesBox, HomeInv, SentWaits
      <3>3. QED
        BY <3>1, <3>2
    <2>12. m.connection = "connected" => m.snap # NoState
      BY <2>9, InvBasics
    <2>13. QED
      BY <1>2, <1>5, <2>9, <2>11, <2>12, SettledStep
  <1>8. QED
    BY <1>6, <1>7
-----------------------------------------------------------------------------
(* The client by itself: the invariant, and what a step does to the drafts. *)

LEMMA HomeBegins ==
    ASSUME HomeAssumption, HomeInit
    PROVE  HomeInv
  <1>1. PICK bs : bs = [c \in Chats |-> [draft |-> NoText, pend |-> NoPend]]
    OBVIOUS
  <1>2. /\ srv.active = CHOOSE c \in Chats : TRUE
        /\ srv.accepted = {} /\ srv \in [active : {CHOOSE c \in Chats : TRUE}, accepted : {{}},
                                         busy : {FALSE}, recovery : BOOLEAN]
        /\ late = {} /\ sent = [r \in Rids |-> NoText] /\ typed = 0 /\ freed = {}
        /\ flight = [l \in Lanes |-> NoReq]
        /\ ui = [snap |-> NoState, connection |-> "loading", sending |-> FALSE,
                 changing |-> FALSE, boxes |-> bs, timer |-> FALSE, stopped |-> TRUE]
        /\ limit \in HomeBudgets /\ faults = 0 /\ quiet = FALSE
    BY <1>1 DEF HomeInit
  <1>3. bs \in [Chats -> Box] /\ \A c \in Chats : bs[c].draft = NoText
                                                      /\ bs[c].pend = NoPend
    BY <1>1 DEF Box, Pend
  <1>4. /\ ui \in Ui /\ ui.boxes = bs /\ ui.connection = "loading" /\ ui.stopped
        /\ ~ui.sending /\ ~ui.changing
    BY <1>2, <1>3 DEF Ui
  <1>5. /\ flight \in [Lanes -> Req] /\ Mutate = NoReq
        /\ \A l \in Lanes : flight[l] = NoReq
    BY <1>2, NoReqTyped DEF Mutate, Lanes
  <1>6. AliveRids = {}
    BY <1>2, <1>5, NoReqTyped DEF AliveRids, Sending
  <1>7. HomeTypeOK
    <2>1. srv \in State
      <3>1. (CHOOSE c \in Chats : TRUE) \in Chats
        BY DEF HomeAssumption
      <3>2. QED
        BY <1>2, <3>1 DEF State
    <2>2. typed \in 0 .. MaxTexts
      BY <1>2 DEF HomeAssumption
    <2>3. limit.faults \in Nat
      BY <1>2 DEF HomeAssumption
    <2>4. sent \in [Rids -> Texts \cup {NoText}]
      BY <1>2
    <2>5. late \subseteq Rids /\ freed \subseteq Texts /\ limit \in HomeBudgets
      BY <1>2
    <2>6. faults \in 0 .. limit.faults
      BY <1>2, <2>3
    <2>7. quiet \in BOOLEAN
      BY <1>2
    <2>8. QED
      BY <1>4, <1>5, <2>1, <2>2, <2>4, <2>5, <2>6, <2>7 DEF HomeTypeOK, Ui
  <1>8. LanesHold
    BY <1>4, <1>5, NoReqTyped DEF LanesHold
  <1>9. AnswersHold
    BY <1>5, NoReqTyped DEF AnswersHold
  <1>10. SentWaits
    <2>1. NoPend.status # "sending" /\ NoText <= 0
      BY DEF NoPend, NoText
    <2>2. QED
      BY <1>2, <1>3, <1>4, <1>5, <1>6, <2>1, NoReqTyped DEF SentWaits
  <1>11. Boxed(bs, sent, typed, freed, AliveRids)
    <2>1. NoPend.status # "rejected" /\ NoPend.text = NoText /\ NoText <= 0
      BY DEF NoPend, NoText
    <2>2. Belongs(bs) /\ Waits(bs, sent, typed)
      BY <1>2, <1>3, <2>1 DEF Belongs, Waits
    <2>3. QED
      BY <1>3, <1>6, <2>1, <2>2 DEF Boxed, RejectedIsDead, DraftWaits, AliveOnce
  <1>12. PollGoesOn
    BY <1>4 DEF PollGoesOn
  <1>13. QED
    BY <1>4, <1>7, <1>8, <1>9, <1>10, <1>11, <1>12 DEF HomeInv

LEMMA HomeGoesOn ==
    ASSUME HomeAssumption, HomeInv, HomeNext \/ UNCHANGED homeVars
    PROVE  HomeInv'
  <1>1. CASE HomeNext
    BY <1>1, TypesKeeps, SendsKeeps, RecoversKeeps, ReturnsKeep, AskingKeeps, LibraryAskingKeeps,
       PollsKeep, StopsKeep, ReloadsKeep, ServesKeeps, BreaksKeeps, ServiceKeeps, SettlesKeep,
       MutateSettlesKeeps
    DEF HomeNext, Settles
  <1>2. CASE UNCHANGED homeVars
    BY <1>2 DEF homeVars, HomeInv, HomeTypeOK, LanesHold, AnswersHold, SentWaits, Mutate,
                Sending, AliveRids, Boxed, Belongs, Waits, RejectedIsDead, DraftWaits, AliveOnce,
                PollGoesOn, Shown
  <1>3. QED
    BY <1>1, <1>2

\* A text is taken once: all the requests that carry it are one.
LEMMA TakenOnce ==
    ASSUME HomeInv
    PROVE  SentOnce
  <1>1. SUFFICES ASSUME NEW t \in Texts \ freed
                 PROVE  Cardinality({r \in srv.accepted : sent[r] = t}) <= 1
    BY DEF SentOnce
  <1>2. PICK S : S = {r \in srv.accepted : sent[r] = t}
    OBVIOUS
  <1>3. \A r, s \in S : r = s
    BY <1>2 DEF HomeInv, Boxed, AliveOnce, AliveRids
  <1>4. S = {} \/ \E r : S = {r}
    BY <1>3
  <1>5. Cardinality(S) \in {0, 1}
    BY <1>4, FS_EmptySet, FS_Singleton
  <1>6. QED
    BY <1>2, <1>5
\* The drafts of the steps that start a request, or show what came of one.
LEMMA AskingLeavesDrafts ==
    ASSUME HomeAssumption, HomeInv,
           Sends \/ Recovers \/ Controls \/ Commands \/ Reloads,
           NEW c \in Chats
    PROVE  ui'.boxes[c].draft = ui.boxes[c].draft
  <1>1. ui \in Ui /\ ui.boxes \in [Chats -> Box] /\ ui.boxes[c] \in Box
    BY InvBasics DEF Ui
  <1>2. ASSUME NEW lane, NEW req, NEW u, Asks(lane, req, u), u \in Ui
        PROVE  ui'.boxes = u.boxes
    BY <1>2 DEF Asks, Ui
  <1>3. CASE Sends
    <2>1. PICK r \in Rids :
              Asks("mutate",
                        [NoReq EXCEPT !.op = "message", !.chat = Active, !.rid = r],
                        [ui EXCEPT !.sending = TRUE,
                                   !.boxes[Active].pend =
                                      [rid |-> r, text |-> Here.draft, status |-> "sending"]])
      BY <1>3 DEF Sends
    <2>2. PICK p : p = [rid |-> r, text |-> Here.draft, status |-> "sending"]
      OBVIOUS
    <2>3. PICK u : u = [ui EXCEPT !.sending = TRUE, !.boxes[Active].pend = p]
      OBVIOUS
    <2>4. PICK a : a = Active
      OBVIOUS
    <2>5. PICK b : b = [ui.boxes[a] EXCEPT !.pend = p]
      OBVIOUS
    <2>6. PICK m : m = [ui.boxes EXCEPT ![a] = b]
      OBVIOUS
    <2>7. u = [ui EXCEPT !.sending = TRUE, !.boxes = m]
      BY <2>3, <2>4, <2>5, <2>6
    <2>8. ui' = [u EXCEPT !.timer = FALSE]
      BY <2>1, <2>2, <2>3 DEF Asks
    <2>9. ui'.boxes = m
      BY <1>1, <2>7, <2>8 DEF Ui
    <2>10. a = c => ui.boxes[a] \in Box
      BY <1>1
    <2>11. m[c].draft = ui.boxes[c].draft
      BY <1>1, <2>5, <2>6, <2>10 DEF Box
    <2>12. QED
      BY <2>9, <2>11
  <1>4. CASE Recovers
    <2>1. [ui EXCEPT !.sending = TRUE] \in Ui /\ [ui EXCEPT !.sending = TRUE].boxes = ui.boxes
      BY <1>1 DEF Ui
    <2>2. QED
      BY <1>2, <1>4, <2>1 DEF Recovers
  <1>5. CASE Controls
    <2>1. [ui EXCEPT !.changing = TRUE] \in Ui /\ [ui EXCEPT !.changing = TRUE].boxes = ui.boxes
      BY <1>1 DEF Ui
    <2>2. QED
      BY <1>2, <1>5, <2>1 DEF Controls
  <1>6. CASE Commands
    BY <1>1, <1>2, <1>6 DEF Commands
  <1>7. CASE Reloads
    <2>1. ui'.boxes[c] = [ui.boxes[c] EXCEPT !.pend = IF @ = NoPend THEN @
                                                      ELSE [@ EXCEPT !.status = "unconfirmed"]]
      BY <1>7 DEF Reloads
    <2>2. QED
      BY <1>1, <2>1 DEF Box
  <1>8. QED
    BY <1>3, <1>4, <1>5, <1>6, <1>7

LEMMA ShowingMovesDrafts ==
    ASSUME HomeInv, NEW u, Shows(u),
           ui' = Queued(u) \/ ui' = Queued([u EXCEPT !.changing = FALSE]),
           NEW c \in Chats
    PROVE  \/ ui'.boxes[c] = ui.boxes[c]
           \/ Clears(ui.boxes[c], ui'.boxes[c], srv.accepted)
  <1>1. u \in Ui /\ [u EXCEPT !.changing = FALSE] \in Ui
        /\ [u EXCEPT !.changing = FALSE].boxes = u.boxes
    BY DEF Shows, Ui
  <1>2. ui'.boxes = u.boxes
    BY <1>1, QueuedTyped
  <1>3. QED
    BY <1>2 DEF Shows

LEMMA AnswersMoveDrafts ==
    ASSUME HomeAssumption, HomeInv, Settles, NEW c \in Chats
    PROVE  \/ ui'.boxes[c].draft = ui.boxes[c].draft
           \/ Clears(ui.boxes[c], ui'.boxes[c], srv.accepted)
  <1>1. ASSUME NEW l \in Lanes \ {"mutate"}, flight[l].st = "answered"
        PROVE  Shows(Accepted(ui, flight[l].answer))
    BY <1>1, InvBasics, AnswerShows DEF OthersHold
  <1>2. CASE PollSettles \/ SideSettles
    <2>1. PICK u : /\ Shows(u) /\ ui' = Queued(u)
      BY <1>1, <1>2, NowShows DEF PollSettles, SideSettles, Lanes
    <2>2. QED
      BY <2>1, ShowingMovesDrafts
  <1>3. CASE ControlSettles
    <2>1. PICK u : /\ Shows(u) /\ ui' = Queued([u EXCEPT !.changing = FALSE])
      BY <1>1, <1>3, NowShows DEF ControlSettles, Lanes
    <2>2. QED
      BY <2>1, ShowingMovesDrafts
  <1>4. CASE LibrarySettles
    <2>1. CASE flight["library"].st = "answered"
      <3>1. PICK u : /\ Shows(u) /\ ui' = Queued(u)
        BY <1>1, <1>4, <2>1 DEF LibrarySettles, Lanes
      <3>2. QED
        BY <3>1, ShowingMovesDrafts
    <2>2. CASE flight["library"].st # "answered"
      BY <1>4, <2>2 DEF LibrarySettles
    <2>3. QED
      BY <2>1, <2>2
  <1>5. CASE MutateSettles
    <2>1. PICK m : m = Mutated(ui, Mutate)
      OBVIOUS
    <2>2. Mutate.st \notin {"none", "sent"} /\ ui' = Queued([m EXCEPT !.sending = FALSE])
      BY <1>5, <2>1 DEF MutateSettles, Mutate
    <2>3. ui \in Ui /\ ui.boxes \in [Chats -> Box] /\ Mutate \in Req
      BY InvBasics DEF Ui, Mutate, Lanes
    <2>4. Mutate.chat \in Chats
      BY <2>2, <2>3 DEF HomeInv, LanesHold, Req
    <2>5. ASSUME m \in Ui
          PROVE  ui'.boxes = m.boxes
      <3>1. [m EXCEPT !.sending = FALSE] \in Ui /\ [m EXCEPT !.sending = FALSE].boxes = m.boxes
        BY <2>5 DEF Ui
      <3>2. QED
        BY <2>2, <3>1, QueuedTyped
    <2>6. CASE Mutate.st = "answered"
      <3>1. /\ Mutate.answer \in State /\ Mutate.answer.accepted \subseteq srv.accepted
        BY <2>6 DEF HomeInv, AnswersHold, Mutate, Lanes
      <3>2. CASE Mutate.chat = ui.snap.active
        <4>1. m = Accepted(ui, Mutate.answer)
          BY <2>1, <2>6, <3>2 DEF Mutated
        <4>2. Shows(m)
          BY <3>1, <4>1, AnswerShows
        <4>3. QED
          BY <2>5, <4>2 DEF Shows
      <3>3. CASE Mutate.chat # ui.snap.active
        <4>1. PICK ns : ns = Reconciled(ui.boxes, Mutate.chat, Mutate.answer.accepted)
          OBVIOUS
        <4>2. m = [ui EXCEPT !.boxes = ns]
          BY <2>1, <2>6, <3>3, <4>1 DEF Mutated
        <4>3. /\ ns \in [Chats -> Box]
              /\ ns[c] = ui.boxes[c] \/ Clears(ui.boxes[c], ns[c], Mutate.answer.accepted)
          BY <2>3, <2>4, <4>1, ReconciledClears
        <4>4. m \in Ui /\ m.boxes = ns
          BY <2>3, <4>2, <4>3 DEF Ui
        <4>5. QED
          BY <2>5, <3>1, <4>3, <4>4 DEF Clears
      <3>4. QED
        BY <3>2, <3>3
    <2>7. CASE Mutate.st # "answered"
      <3>1. PICK a, old : a = Mutate.chat /\ old = ui.boxes[a]
        OBVIOUS
      <3>2. PICK how : how = IF Mutate.st = "refused" THEN "rejected" ELSE "unconfirmed"
        OBVIOUS
      <3>3. PICK p : p = IF old.pend = NoPend THEN old.pend
                         ELSE [old.pend EXCEPT !.status = how]
        OBVIOUS
      <3>4. PICK b : b = [old EXCEPT !.pend = p]
        OBVIOUS
      <3>5. PICK ns : ns = [ui.boxes EXCEPT ![a] = b]
        OBVIOUS
      <3>6. m = [ui EXCEPT !.boxes = ns]
        BY <2>1, <2>7, <3>1, <3>2, <3>3, <3>4, <3>5 DEF Mutated
      <3>7. old \in Box
        BY <2>3, <2>4, <3>1
      <3>8. b.draft = old.draft
        BY <3>4, <3>7 DEF Box
      <3>9. ns[c].draft = ui.boxes[c].draft
        BY <2>3, <3>1, <3>5, <3>8
      <3>10. [m EXCEPT !.sending = FALSE] = [ui EXCEPT !.boxes = ns, !.sending = FALSE]
        BY <2>3, <3>6 DEF Ui
      <3>11. ui' = [ui EXCEPT !.boxes = ns, !.sending = FALSE, !.timer = ~ui.stopped]
        BY <2>2, <2>3, <3>10 DEF Queued, Ui
      <3>12. QED
        BY <2>3, <3>9, <3>11 DEF Ui
    <2>8. QED
      BY <2>6, <2>7
  <1>6. QED
    BY <1>2, <1>3, <1>4, <1>5 DEF Settles

\* What became of a draft: a newer one, taken by the service, or the message taken back.
LEMMA DraftsStay ==
    ASSUME HomeAssumption, HomeInv, HomeNext
    PROVE  DraftKept
  <1>1. SUFFICES ASSUME NEW c \in Chats
                 PROVE  ui'.boxes[c].draft # ui.boxes[c].draft =>
                          \/ ui'.boxes[c].draft > ui.boxes[c].draft
                          \/ \E r \in srv.accepted : sent[r] = ui.boxes[c].draft
                          \/ /\ ui.boxes[c].pend.status = "unconfirmed"
                             /\ ui'.boxes[c].draft = ui.boxes[c].pend.text
    BY DEF DraftKept
  <1>2. /\ ui \in Ui /\ ui.boxes \in [Chats -> Box] /\ srv.accepted \subseteq Rids
        /\ typed \in Nat /\ Boxed(ui.boxes, sent, typed, freed, AliveRids)
    BY HomeTyped DEF HomeInv
  <1>3. ui.boxes[c] \in Box
    BY <1>2
  <1>4. ASSUME Clears(ui.boxes[c], ui'.boxes[c], srv.accepted),
               ui'.boxes[c].draft # ui.boxes[c].draft
        PROVE  \E r \in srv.accepted : sent[r] = ui.boxes[c].draft
    <2>1. /\ ui.boxes[c].pend.rid \in srv.accepted
          /\ ui.boxes[c].draft = ui.boxes[c].pend.text
      BY <1>4 DEF Clears
    <2>2. ui.boxes[c].pend # NoPend
      BY <1>2, <1>3, <2>1, BoxTyped DEF Rids, NoRid
    <2>3. sent[ui.boxes[c].pend.rid] = ui.boxes[c].pend.text
      BY <1>2, <2>2 DEF Boxed, Waits
    <2>4. QED
      BY <2>1, <2>3
  <1>5. CASE Types
    <2>1. PICK a : a = Active
      OBVIOUS
    <2>2. /\ ui' = Writing(ui, a, typed + 1) /\ ui.snap # NoState /\ typed < limit.texts
      BY <1>5, <2>1 DEF Types, Shown, Writing
    <2>3. a \in Chats
      BY <1>2, <2>1, <2>2 DEF Ui, State, Active
    <2>4. typed + 1 \in Texts
      <3>1. limit.texts \in 0 .. MaxTexts
        BY DEF HomeInv, HomeTypeOK, HomeAssumption
      <3>2. QED
        BY <1>2, <2>2, <3>1 DEF Texts, HomeAssumption
    <2>5. PICK n : n = ui'
      OBVIOUS
    <2>6. n.boxes[a].draft = typed + 1 /\ \A d \in Chats \ {a} : n.boxes[d] = ui.boxes[d]
      BY <1>2, <2>2, <2>3, <2>4, <2>5, WritingTyped
    <2>7. ui.boxes[c].draft <= typed /\ ui.boxes[c].draft \in Int
      BY <1>2, <1>3, BoxTyped DEF Boxed, Waits
    <2>8. QED
      BY <1>2, <2>5, <2>6, <2>7
  <1>6. CASE ReturnsToDraft
    <2>1. PICK a : a = Active
      OBVIOUS
    <2>2. PICK b : b = [draft |-> ui.boxes[a].pend.text, pend |-> NoPend]
      OBVIOUS
    <2>3. ui' = [ui EXCEPT !.boxes = [@ EXCEPT ![a] = b]] /\ ui.boxes[a].pend.status = "unconfirmed"
      BY <1>6, <2>1, <2>2 DEF ReturnsToDraft, Here
    <2>4. ui'.boxes = [ui.boxes EXCEPT ![a] = b]
      BY <1>2, <2>3 DEF Ui
    <2>5. QED
      BY <1>2, <2>2, <2>3, <2>4
  <1>7. CASE Sends \/ Recovers \/ Controls \/ Commands \/ Reloads
    BY <1>7, AskingLeavesDrafts
  <1>8. CASE LibraryAsks \/ TakesLate \/ ServiceWorks \/ CalmsDown
             \/ \E l \in Lanes : Serves(l) \/ Breaks(l)
    BY <1>8 DEF LibraryAsks, TakesLate, ServiceWorks, CalmsDown, Serves,
                Breaks
  <1>9. CASE Refreshes \/ TimerFires \/ Starts \/ Stops
    <2>1. ui'.boxes = ui.boxes
      BY <1>2, <1>9
      DEF Refreshes, TimerFires, Starts, Stops, PollsNow, Ui
    <2>2. QED
      BY <2>1
  <1>10. CASE Settles
    BY <1>4, <1>10, AnswersMoveDrafts
  <1>11. QED
    BY <1>5, <1>6, <1>7, <1>8, <1>9, <1>10 DEF HomeNext
=============================================================================
