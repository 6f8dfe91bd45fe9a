------------------------------ MODULE ChatTurn ------------------------------
(***************************************************************************)
(* The human turn of the felis service: LocalChat (app/chat_service.py),   *)
(* the private journal it writes (app/persistence.py), the native process  *)
(* that stores a message and its proposal (app/human_driver.py), and the   *)
(* routes that send, stop, recover and edit tasks directly.                *)
(*                                                                         *)
(* The service is one event loop: between two awaits nothing interleaves,  *)
(* but it can be killed between two writes. Native processes run beside it *)
(* and may outlive it. One chat, past onboarding, is modelled.             *)
(***************************************************************************)
EXTENDS Naturals, Sequences, FiniteSets

CONSTANTS
    Requests,        \* request ids of messages sent by the person
    Controls,        \* request ids of direct task edits
    NoReq,           \* "no request": Python's None
    Texts,           \* what the messages say; two messages may say the same
    AcceptedCap,     \* how many accepted ids the journal keeps (100 in the code)
    OrphanSurvives,  \* may a native process outlive a killed service?
    MaxRows,         \* bound: no message is sent once history has this many rows
    MaxFaults,       \* bound on failed journal writes
    MaxCrashes       \* bound on stops of the service

ASSUME RequestAssumption ==
    /\ NoReq \notin Requests \cup Controls
    /\ Requests \cap Controls = {}
ASSUME BoundAssumption ==
    /\ AcceptedCap \in Nat \ {0}
    /\ MaxRows \in Nat
    /\ MaxFaults \in Nat
    /\ MaxCrashes \in Nat
    /\ OrphanSurvives \in BOOLEAN

VARIABLES
    text,       \* what the message of each request says; a retry repeats it
    up,         \* the service process is running
    mem,        \* self.meta: the journal in memory
    disk,       \* the journal file
    seen,       \* how many native rows the last read found: self.messages
    current,    \* the request whose source turn is open: Briefing.current
    native,     \* the rows of the native conversation, in order
    proc,       \* the native process started for each request
    job,        \* who is between two awaits: a turn, a route, the startup
    pc,         \* where it is
    plan,       \* the task list a direct edit computed before its awaits
    error,      \* self.error is set
    blocked,    \* self.blocked
    acked,      \* requests whose caller was told they are accepted
    sourced,    \* turns whose model was given source data
    stopped,    \* turns the journal forgot because they were stopped
    faults, crashes

service == <<up, mem, seen, current, job, pc, plan, error, blocked>>
history == <<acked, sourced, stopped>>
vars == <<text, up, mem, disk, seen, current, native, proc, job, pc, plan, error,
          blocked, acked, sourced, stopped, faults, crashes>>

-----------------------------------------------------------------------------
(* Data *)

Change == Requests \cup Controls
ReqOrNone == Requests \cup {NoReq}
Kinds == {"update", "chat", "invalid"}
Dispositions == {"none", "committed", "chat", "rejected"}
Phases == {"none", "running", "heard", "answered", "tagged", "gone"}
Alive == {"running", "heard", "answered", "tagged"}

Turn == [req : ReqOrNone, base : Nat, source : BOOLEAN]
Publication == [req : ReqOrNone, row : Nat, disp : Dispositions]
Receipt == [req : ReqOrNone, after : Nat]
Journal == [pending : BOOLEAN, request : ReqOrNone, turn : Turn,
            pub : Publication, msg : Receipt,
            accepted : Seq(Requests), tasks : Seq(Change)]
Row == [role : {"user", "assistant"}, by : Requests, tag : ReqOrNone,
        base : Nat, kind : Kinds \cup {"none"}, disp : Dispositions]
Process == [phase : Phases, base : Nat, row : Nat]

NoTurn == [req |-> NoReq, base |-> 0, source |-> FALSE]
NoPub == [req |-> NoReq, row |-> 0, disp |-> "none"]
NoMsg == [req |-> NoReq, after |-> 0]
FreshJournal == [pending |-> FALSE, request |-> NoReq, turn |-> NoTurn,
                 pub |-> NoPub, msg |-> NoMsg, accepted |-> <<>>, tasks |-> <<>>]

Elems(s) == {s[i] : i \in DOMAIN s}
\* tasks["revision"]: one per applied batch; Applied: tasks["applied_requests"].
Revision(j) == Len(j.tasks)
Applied(j) == Elems(j.tasks)
Accepted(j) == Elems(j.accepted)

UserRows(r) == {i \in DOMAIN native :
                  native[i].role = "user" /\ native[i].by = r}
ProposalRows(r) == {i \in DOMAIN native :
                      native[i].role = "assistant" /\ native[i].tag = r}
AssistantRows == {i \in DOMAIN native : native[i].role = "assistant"}

-----------------------------------------------------------------------------
(* Writing the journal *)

\* write_private: the whole file is replaced, or the write fails before the
\* replacement ("lost") or after it, at the directory sync ("unsynced").
Outcomes == {"ok", "lost", "unsynced"}
Write(j, w) ==
    /\ w = "ok" \/ faults < MaxFaults
    /\ disk' = IF w = "lost" THEN disk ELSE j
    /\ faults' = IF w = "ok" THEN faults ELSE faults + 1

\* commit_meta: memory follows only a successful write.
Commit(j, w) ==
    /\ Write(j, w)
    /\ mem' = IF w = "ok" THEN j ELSE mem

\* save_meta after an assignment into self.meta: memory changes in any case.
InPlace(j, w) ==
    /\ Write(j, w)
    /\ mem' = j

\* A user row past the receipt's anchor says what the message says. Nothing compares
\* the requests: it may be the row of another message with the same words.
Confirmed(m) ==
    \E i \in DOMAIN native :
        /\ i > m.after
        /\ native[i].role = "user" /\ text[native[i].by] = text[m.req]

\* Mutated: the receipt is dropped without looking for the row.
MutReconciled(j) == [j EXCEPT !.msg = NoMsg]

\* reconcile_pending: the display receipt goes once native history has its words.
Reconciled(j) ==
    IF j.msg # NoMsg /\ Confirmed(j.msg) THEN [j EXCEPT !.msg = NoMsg] ELSE j

-----------------------------------------------------------------------------
(* How a job ends or fails *)

Idle == up /\ job = "none"
LockFree == up /\ job \in {"none", "turn"}
Await(p) == pc' = p /\ UNCHANGED <<up, job, plan, error, blocked>>
ReadHistory == seen' = Len(native)

\* An exception of class x leaves the step of a job. The handlers of run_turn
\* keep the task until its clean-up; a route answers 5xx; initialize keeps the
\* service up only for a ChatError.
Raise(x) ==
    /\ UNCHANGED plan
    /\ \/ /\ job = "turn"
          /\ pc' = "closing" /\ error' = TRUE
          /\ blocked' = IF x = "chat" THEN mem.pub = NoPub ELSE blocked
          /\ UNCHANGED <<up, job>>
       \/ /\ job = "recover"
          /\ job' = "none" /\ pc' = "idle"
          /\ UNCHANGED <<up, error, blocked>>
       \/ /\ job = "boot"
          /\ job' = "none" /\ pc' = "idle"
          /\ up' = (x = "chat")
          /\ error' = (x = "chat") /\ blocked' = (x = "chat")

-----------------------------------------------------------------------------
(* Accepting a message *)

\* Mutated: the window is one id too short.
MutRecent(s) ==
    IF Len(s) < AcceptedCap THEN s
    ELSE SubSeq(s, Len(s) - AcceptedCap + 2, Len(s))

\* [-100:]
Recent(s) ==
    IF Len(s) <= AcceptedCap THEN s
    ELSE SubSeq(s, Len(s) - AcceptedCap + 1, Len(s))

\* send: a request id that was accepted before is acknowledged, not run again.
SendRetry(r) ==
    /\ LockFree
    /\ r \in Accepted(mem)
    /\ acked' = acked \cup {r}
    /\ UNCHANGED <<service, disk, native, proc, sourced, stopped, faults, crashes>>

\* send: check_config refuses the runtime.
SendConfigFails(r) ==
    /\ Idle
    /\ r \notin Accepted(mem)
    /\ error' = TRUE /\ blocked' = TRUE
    /\ UNCHANGED <<seen, current, up, mem, disk, native, proc, job, pc, plan,
                   history, faults, crashes>>

\* send: the turn is recorded in self.meta, then written; the task and the
\* answer to the caller come after the write.
Send(r, w) ==
    /\ Idle
    /\ r \notin Accepted(mem)
    /\ ~blocked
    /\ mem.pub = NoPub
    /\ Len(native) < MaxRows
    /\ InPlace([mem EXCEPT
           !.pending = TRUE, !.request = r, !.msg = [req |-> r, after |-> seen],
           !.turn = [req |-> r, base |-> Revision(mem), source |-> FALSE],
           !.accepted = Recent(Append(mem.accepted, r))], w)
    /\ error' = FALSE
    /\ IF w = "ok"
         THEN job' = "turn" /\ pc' = "queued" /\ acked' = acked \cup {r}
         ELSE UNCHANGED <<job, pc, acked>>
    /\ UNCHANGED <<seen, current, up, native, proc, plan, blocked, sourced,
                   stopped, crashes>>

-----------------------------------------------------------------------------
(* The native process of one message (human_driver.run_human) *)

Advance(r, from, to) ==
    /\ proc[r].phase = from
    /\ proc' = [proc EXCEPT ![r].phase = to]

NativeOnly == UNCHANGED <<service, disk, history, faults, crashes>>

\* The user row is stored with the request id and the revision it was sent at.
StoreUser(r) ==
    /\ Advance(r, "running", "heard")
    /\ native' = Append(native, [role |-> "user", by |-> r, tag |-> r,
                   base |-> proc[r].base, kind |-> "none", disp |-> "none"])
    /\ NativeOnly

\* The model's raw proposal is stored; it carries no correlation of its own.
StoreProposal(r, k) ==
    /\ Advance(r, "heard", "answered")
    /\ native' = Append(native, [role |-> "assistant", by |-> r, tag |-> NoReq,
                   base |-> 0, kind |-> k, disp |-> "none"])
    /\ NativeOnly

\* The latest assistant row is tagged as this request's proposal; the new
\* metadata replaces whatever the row carried.
TagProposal(r) ==
    /\ proc[r].phase = "answered"
    /\ \E i \in AssistantRows :
         /\ \A j \in AssistantRows : j <= i
         /\ native' = [native EXCEPT ![i].tag = r, ![i].base = proc[r].base,
                                     ![i].disp = "none"]
         /\ proc' = [proc EXCEPT ![r].phase = "tagged", ![r].row = i]
    /\ NativeOnly

\* The process fails or is killed on its own at any point.
ProcessDies(r) ==
    /\ proc[r].phase \in Alive
    /\ proc' = [proc EXCEPT ![r].phase = "gone"]
    /\ UNCHANGED native
    /\ NativeOnly

-----------------------------------------------------------------------------
(* The turn: serial_human_turn and run_turn *)

At(j, p) == up /\ job = j /\ pc = p
Current == mem.turn.req
Kill(r) == proc' = [proc EXCEPT ![r].phase = IF @ \in Alive THEN "gone" ELSE @]

\* Preempted check-ins are over and the native lock is held: the bridge to the
\* person's sources opens, and the turn can be stopped by its id from here on.
OpenSources ==
    /\ At("turn", "queued")
    /\ current' = Current
    /\ Await("opening")
    /\ UNCHANGED <<mem, disk, seen, native, proc, history, faults, crashes>>

\* The bridge is open and the input file is written: start the process.
Launch ==
    /\ At("turn", "opening")
    /\ proc' = [proc EXCEPT ![Current] =
                  [phase |-> "running", base |-> Revision(mem), row |-> 0]]
    /\ Await("infer")
    /\ UNCHANGED <<seen, current, mem, disk, native, history, faults, crashes>>

\* The clean-up of a preempted check-in could not be written: its error comes
\* out of the wait, and ends the task before run_turn has begun.
WaitFails ==
    /\ At("turn", "queued")
    /\ faults < MaxFaults /\ faults' = faults + 1
    /\ job' = "none" /\ pc' = "idle"
    /\ UNCHANGED <<seen, current, up, mem, disk, native, proc, plan, error,
                   blocked, history, crashes>>

\* The bridge could not be opened and is closed again, or the input file could not
\* be written.
LaunchFails ==
    /\ At("turn", "opening")
    /\ Raise("other")
    /\ current' \in {current, NoReq}
    /\ UNCHANGED <<mem, disk, seen, native, proc, history, faults, crashes>>

\* Mutated: the mark stays in memory.
MutReadSource(w) ==
    /\ At("turn", "infer")
    /\ proc[Current].phase = "heard" /\ w = "ok"
    /\ mem' = [mem EXCEPT !.turn.source = TRUE]
    /\ sourced' = sourced \cup {Current}
    /\ UNCHANGED <<seen, current, up, job, pc, plan, error, blocked, native, proc,
                   acked,
                   stopped, crashes, disk, faults>>

\* SourceTurn.read: the turn is marked and saved before the data is returned.
ReadSource(w) ==
    /\ At("turn", "infer")
    /\ proc[Current].phase = "heard"
    /\ InPlace([mem EXCEPT !.turn.source = TRUE], w)
    /\ sourced' = IF w = "ok" THEN sourced \cup {Current} ELSE sourced
    /\ UNCHANGED <<seen, current, up, job, pc, plan, error, blocked, native, proc,
                   acked,
                   stopped, crashes>>

\* Exit code 0 and an audited receipt.
InferenceEnds ==
    /\ At("turn", "infer")
    /\ proc[Current].phase = "tagged"
    /\ Await("receipt")
    /\ UNCHANGED <<seen, current, mem, disk, native, proc, history, faults, crashes>>

\* A non-zero exit code: read what was stored and try to recover from it.
InferenceFails ==
    /\ At("turn", "infer")
    /\ proc[Current].phase = "gone"
    /\ Await("read")
    /\ UNCHANGED <<seen, current, mem, disk, native, proc, history, faults, crashes>>

\* Mutated: no time limit.
MutInferenceAborts(x) == x = "never" /\ UNCHANGED vars

\* The 210 s limit, an undecodable reply frame, or a receipt that fails the
\* audit: the process is killed and nothing is recovered now.
InferenceAborts(x) ==
    /\ At("turn", "infer")
    /\ Kill(Current)
    /\ Raise(x)
    /\ UNCHANGED <<seen, current, mem, disk, native, history, faults, crashes>>

-----------------------------------------------------------------------------
(* Reading native history back: refresh *)

NextOf(p) == IF p = "receipt" THEN "stageReceipt"
             ELSE IF p = "read" THEN "stageStored" ELSE "clear"

Refresh(w) ==
    /\ up /\ pc \in {"receipt", "read", "published"}
    /\ InPlace(Reconciled(mem), w) /\ ReadHistory
    /\ IF w = "ok" THEN Await(NextOf(pc)) ELSE Raise("other")
    /\ UNCHANGED <<current, native, proc, history, crashes>>

\* Check-ins, returns and context summaries read the history back too, while they
\* hold the native lock; a journal that never started has nothing to read.
OthersRefresh(w) ==
    /\ up
    /\ \/ pc \in {"idle", "queued", "commit"}
       \/ job \in {"boot", "recover"} /\ pc = "closing"
    /\ mem.request # NoReq
    /\ InPlace(Reconciled(mem), w) /\ ReadHistory
    /\ UNCHANGED <<up, job, pc, plan, error, blocked, current, native, proc,
                   history, crashes>>

\* The history cannot be read or fails its audit (ChatError), or the read
\* times out. A journal that never started has nothing to read.
RefreshFails(x) ==
    /\ up /\ pc \in {"receipt", "read", "published"}
    /\ mem.request # NoReq
    /\ UNCHANGED mem
    /\ Raise(x)
    /\ UNCHANGED <<seen, current, disk, native, proc, history, faults, crashes>>

-----------------------------------------------------------------------------
(* Deciding a proposal: stage_publication *)

\* Mutated: the proposal's own word for it is recorded as the outcome.
MutDispositionKind(j, i) == native[i].kind

\* Mutated: the revision the model saw is not compared with the list.
MutDispositionStale(j, i) ==
    LET row == native[i]
        t == j.turn
    IN  IF row.kind = "invalid" \/ row.base # t.base
           \/ (row.kind = "update" /\ t.source) THEN "rejected"
        ELSE IF row.kind = "chat" THEN "chat"
        ELSE "committed"

\* What the stored proposal i makes of the journal's turn: validate_proposal,
\* the source rule, then apply_operations on the current task list.
Disposition(j, i) ==
    LET row == native[i]
        t == j.turn
    IN  IF row.kind = "invalid" \/ row.base # t.base
           \/ (row.kind = "update" /\ t.source) THEN "rejected"
        ELSE IF row.kind = "chat" THEN "chat"
        ELSE IF t.req \in Applied(j) \/ t.base = Revision(j) THEN "committed"
        ELSE "rejected"

\* Mutated: applied_requests is not looked up.
MutApplyBatch(tasks, r) == Append(tasks, r)

\* apply_operations on a valid batch; a repeated request changes nothing.
ApplyBatch(tasks, r) == IF r \in Elems(tasks) THEN tasks ELSE Append(tasks, r)

\* Mutated: the receipt is saved without the change it announces.
MutStaged(j, i) ==
    [j EXCEPT !.pub = [req |-> j.turn.req, row |-> i, disp |-> Disposition(j, i)]]

\* The task change and the receipt of its publication are one journal.
Staged(j, i) ==
    [j EXCEPT
        !.tasks = IF Disposition(j, i) = "committed" THEN ApplyBatch(@, j.turn.req)
                  ELSE @,
        !.pub = [req |-> j.turn.req, row |-> i, disp |-> Disposition(j, i)]]

StageProposal(i, w) ==
    /\ Commit(Staged(mem, i), w)
    /\ IF w = "ok" THEN Await("finalize") ELSE Raise("other")
    /\ UNCHANGED <<seen, current, native, proc, history, crashes>>

\* run_turn after a verified receipt; a turn that touched a source checks its
\* permission and time limit first.
StageReceipt(w) ==
    /\ At("turn", "stageReceipt")
    /\ StageProposal(proc[Current].row, w)

SourceCheckFails ==
    /\ At("turn", "stageReceipt")
    /\ mem.turn.source
    /\ Raise("other")
    /\ UNCHANGED <<seen, current, mem, disk, native, proc, history, faults, crashes>>

\* recover_publication: an interrupted turn that used a source is dropped.
DropSourceTurn(w) ==
    /\ up /\ pc = "stageStored"
    /\ mem.turn.source
    /\ InPlace([mem EXCEPT !.pub = NoPub, !.turn = NoTurn, !.pending = FALSE], w)
    /\ IF w = "ok"
         THEN pc' = "closing" /\ error' = TRUE /\ UNCHANGED <<up, job, plan, blocked>>
         ELSE Raise("other")
    /\ UNCHANGED <<seen, current, native, proc, history, crashes>>

\* recover_publication: exactly one stored pair carries the recorded request.
Recoverable(i) ==
    /\ ProposalRows(Current) = {i}
    /\ Cardinality(UserRows(Current)) = 1

RecoverStage(w) ==
    /\ up /\ pc = "stageStored"
    /\ ~mem.turn.source /\ mem.pub = NoPub /\ mem.turn # NoTurn
    /\ \E i \in DOMAIN native :
         /\ Recoverable(i)
         /\ IF \A k \in UserRows(Current) \cup {i} : native[k].base = mem.turn.base
              THEN StageProposal(i, w)
              ELSE /\ w = "ok"
                   /\ UNCHANGED <<seen, current, mem, disk, native, proc, history,
                                  faults, crashes>>
                   /\ Raise("chat")

\* Mutated: a failed process leaves no error behind.
MutRecoverNothing ==
    /\ up /\ pc = "stageStored"
    /\ ~mem.turn.source
    /\ mem.pub # NoPub \/ mem.turn = NoTurn \/ ~\E i \in DOMAIN native : Recoverable(i)
    /\ pc' = IF mem.pub # NoPub THEN "finalize" ELSE "closing"
    /\ UNCHANGED <<seen, current, up, mem, disk, native, proc, job, plan, blocked,
                   error,
                   history, faults, crashes>>

\* recover_publication: a saved receipt is published as it is; with neither a
\* receipt nor a stored pair there is nothing to do.
RecoverNothing ==
    /\ up /\ pc = "stageStored"
    /\ ~mem.turn.source
    /\ mem.pub # NoPub \/ mem.turn = NoTurn \/ ~\E i \in DOMAIN native : Recoverable(i)
    /\ pc' = IF mem.pub # NoPub THEN "finalize" ELSE "closing"
    \* run_turn: a failed process whose turn could not be recovered.
    /\ error' = (error \/ (job = "turn" /\ mem.pub = NoPub /\ mem.turn # NoTurn))
    /\ UNCHANGED <<seen, current, up, mem, disk, native, proc, job, plan, blocked,
                   history, faults, crashes>>

-----------------------------------------------------------------------------
(* Publishing the staged reply: publish_staged_reply, finalize_response *)

\* finalize_response accepts the row it is told, once, and repeats only itself.
Publishable(p) ==
    /\ native[p.row].tag = p.req
    /\ native[p.row].disp \in {"none", p.disp}

\* Mutated: every published reply claims a saved change.
MutPublishRow == native' = [native EXCEPT ![mem.pub.row].disp = "committed"]

\* The exact row gets the reply and its disposition.
PublishRow == native' = [native EXCEPT ![mem.pub.row].disp = mem.pub.disp]

FinalizeSucceeds ==
    /\ up /\ pc = "finalize"
    /\ Publishable(mem.pub)
    /\ PublishRow
    /\ Await("published")
    /\ UNCHANGED <<seen, current, mem, disk, proc, history, faults, crashes>>

\* The helper fails, is refused, or runs out of its 30 s, before or after the
\* row was changed.
FinalizeFails(x) ==
    /\ up /\ pc = "finalize"
    /\ UNCHANGED native \/ (Publishable(mem.pub) /\ PublishRow)
    /\ UNCHANGED mem
    /\ Raise(x)
    /\ UNCHANGED <<seen, current, disk, proc, history, faults, crashes>>

\* After the re-read, the receipt and the turn leave the journal.
ClearReceipt(w) ==
    /\ up /\ pc = "clear"
    /\ Commit([mem EXCEPT !.pub = NoPub, !.turn = NoTurn, !.pending = FALSE], w)
    /\ IF w = "ok" THEN Await("closing") ELSE Raise("other")
    /\ UNCHANGED <<seen, current, native, proc, history, crashes>>

-----------------------------------------------------------------------------
(* The end of each job *)

\* Mutated: the last write drops the receipt too.
MutFinishTurn(w) ==
    /\ At("turn", "closing")
    /\ InPlace([mem EXCEPT !.pending = FALSE, !.pub = NoPub], w)
    /\ job' = "none" /\ pc' = "idle" /\ current' = NoReq
    /\ UNCHANGED <<up, seen, native, proc, plan, error, blocked, history, crashes>>

\* run_turn after its clean-up: the source turn is closed, and the journal is written
\* with the turn no longer pending. The task ends whether or not that write succeeds.
FinishTurn(w) ==
    /\ At("turn", "closing")
    /\ InPlace([mem EXCEPT !.pending = FALSE], w)
    /\ job' = "none" /\ pc' = "idle" /\ current' = NoReq
    /\ UNCHANGED <<up, seen, native, proc, plan, error, blocked, history, crashes>>

\* The recovery route: whatever was found, the conversation is usable again.
FinishRecover ==
    /\ At("recover", "closing")
    /\ job' = "none" /\ pc' = "idle"
    /\ error' = FALSE /\ blocked' = FALSE
    /\ UNCHANGED <<seen, current, up, mem, disk, native, proc, plan, history,
                   faults, crashes>>

\* initialize: an unresolved turn is reported as interrupted.
FinishBoot(w) ==
    /\ At("boot", "closing")
    /\ IF mem.pending \/ mem.turn # NoTurn
         THEN /\ InPlace([mem EXCEPT !.pending = FALSE], w)
              /\ up' = (w = "ok")
              /\ error' = TRUE
         ELSE w = "ok" /\ UNCHANGED <<up, mem, disk, error, faults>>
    /\ job' = "none" /\ pc' = "idle"
    /\ UNCHANGED <<seen, current, native, proc, plan, blocked, history, crashes>>

-----------------------------------------------------------------------------
(* Stopping a turn: Briefing.cancel, Briefing.sources_changed *)

\* The stop reaches a task that has no source turn of its own yet: it waits for the
\* native lock while the source turn of an earlier task was never closed, or it is
\* opening the bridge. The cancellation ends the task and no handler takes it.
StopUnopened ==
    /\ up /\ job = "turn" /\ current # NoReq
    /\ pc \in {"queued", "opening"}
    /\ job' = "none" /\ pc' = "idle"
    /\ UNCHANGED <<seen, current, up, mem, disk, native, proc, plan, error, blocked,
                   history, faults, crashes>>

\* The cancellation lands at any later await of run_turn; its handler forgets the
\* turn and its receipt in memory. The running child is killed.
Stop ==
    /\ up /\ job = "turn" /\ current # NoReq
    /\ pc \in {"infer", "read", "receipt", "finalize", "published"}
    /\ mem' = [mem EXCEPT !.pending = FALSE, !.turn = NoTurn, !.pub = NoPub]
    /\ stopped' = stopped \cup {mem.request}
    /\ Kill(mem.request)
    /\ pc' = "stopping" /\ error' = TRUE
    /\ UNCHANGED <<seen, current, up, disk, native, job, plan, blocked, acked, sourced,
                   faults, crashes>>

\* The handler's refresh; that it failed to read or to write is suppressed.
RefreshStopped(w) ==
    /\ At("turn", "stopping")
    /\ \/ InPlace(Reconciled(mem), w) /\ ReadHistory
       \/ UNCHANGED <<mem, disk, seen, faults>>
    /\ Await("closing")
    /\ UNCHANGED <<current, native, proc, history, crashes>>

\* A cancellation that lands in the handler or the clean-up, or a failed write
\* of the source check's own record there, ends the task before its last write and
\* before its source turn is closed.
StopWhileClosing ==
    /\ up /\ job = "turn" /\ current # NoReq /\ pc \in {"stopping", "closing"}
    /\ job' = "none" /\ pc' = "idle"
    /\ UNCHANGED <<seen, current, up, mem, disk, native, proc, plan, error, blocked,
                   history, faults, crashes>>

-----------------------------------------------------------------------------
(* The other routes *)

\* /api/recover: under the chat lock, and only when no turn runs.
Recover ==
    /\ Idle
    /\ job' = "recover" /\ pc' = "read"
    /\ UNCHANGED <<seen, current, up, mem, disk, native, proc, plan, error, blocked,
                   history, faults, crashes>>

\* control_tasks: a repeated edit is acknowledged.
ControlRetry(c) ==
    /\ LockFree
    /\ c \in Applied(mem)
    /\ acked' = acked \cup {c}
    /\ UNCHANGED <<service, disk, native, proc, sourced, stopped, faults, crashes>>

\* control_tasks: the new list is computed from the revision the caller saw,
\* then the preempted check-in is awaited with the lock held.
ControlPlan(c, b) ==
    /\ Idle
    /\ c \notin Applied(mem)
    /\ mem.pub = NoPub
    /\ b = Revision(mem)
    /\ plan' = ApplyBatch(mem.tasks, c)
    /\ job' = "control" /\ pc' = "commit"
    /\ UNCHANGED <<seen, current, up, mem, disk, native, proc, error, blocked,
                   history, faults, crashes>>

\* Mutated: memory changes before the write is known to have succeeded.
MutControlCommit(w) ==
    /\ At("control", "commit")
    /\ InPlace([mem EXCEPT !.tasks = plan], w)
    /\ error' = (error /\ w # "ok")
    /\ acked' = IF w = "ok" THEN acked \cup {plan[Len(plan)]} ELSE acked
    /\ job' = "none" /\ pc' = "idle" /\ plan' = <<>>
    /\ UNCHANGED <<seen, current, up, native, proc, blocked, sourced, stopped, crashes>>

\* control_tasks: the planned list is committed over the latest journal.
ControlCommit(w) ==
    /\ At("control", "commit")
    /\ Commit([mem EXCEPT !.tasks = plan], w)
    /\ error' = (error /\ w # "ok")
    /\ acked' = IF w = "ok" THEN acked \cup {plan[Len(plan)]} ELSE acked
    /\ job' = "none" /\ pc' = "idle" /\ plan' = <<>>
    /\ UNCHANGED <<seen, current, up, native, proc, blocked, sourced, stopped, crashes>>

\* save_meta: the sampler, the check-ins, the briefings and the record of a
\* source check write the whole journal for reasons of their own, at any time.
SaveMeta(w) ==
    /\ up
    /\ InPlace(mem, w)
    /\ UNCHANGED <<seen, current, up, native, proc, job, pc, plan, error, blocked,
                   history, crashes>>

-----------------------------------------------------------------------------
(* Stops and starts of the service *)

Down ==
    /\ up' = FALSE /\ job' = "none" /\ pc' = "idle" /\ plan' = <<>>
    /\ seen' = 0 /\ current' = NoReq
    /\ UNCHANGED <<mem, error, blocked, native, history, faults>>

\* The service is killed. Native processes run in their own session: they may
\* go on, unless the machine stops with the service.
Crash(survive) ==
    /\ up /\ crashes < MaxCrashes
    /\ crashes' = crashes + 1
    /\ survive => OrphanSurvives
    /\ proc' = IF survive THEN proc
               ELSE [r \in Requests |-> [proc[r] EXCEPT
                       !.phase = IF @ \in Alive THEN "gone" ELSE @]]
    /\ Down
    /\ UNCHANGED disk

\* LocalChat.close: the turn keeps its receipt, its child is stopped. A turn
\* that read a source saves the end of its run.
Shutdown ==
    /\ up /\ crashes < MaxCrashes
    /\ crashes' = crashes + 1
    /\ proc' = IF job = "turn" /\ mem.turn # NoTurn
               THEN [proc EXCEPT ![Current].phase = IF @ \in Alive THEN "gone" ELSE @]
               ELSE proc
    /\ disk' = IF job = "turn" /\ mem.turn.source THEN mem ELSE disk
    /\ Down

\* LocalChat.__init__ reads the journal; initialize starts.
Start ==
    /\ ~up
    /\ up' = TRUE /\ mem' = disk
    /\ job' = "boot" /\ pc' = "read"
    /\ error' = FALSE /\ blocked' = FALSE
    /\ UNCHANGED <<seen, current, disk, native, proc, plan, history, faults, crashes>>

-----------------------------------------------------------------------------
Init ==
    /\ text \in [Requests -> Texts]
    /\ up = FALSE /\ seen = 0 /\ current = NoReq
    /\ mem = FreshJournal /\ disk = FreshJournal
    /\ native = <<>>
    /\ proc = [r \in Requests |-> [phase |-> "none", base |-> 0, row |-> 0]]
    /\ job = "none" /\ pc = "idle" /\ plan = <<>>
    /\ error = FALSE /\ blocked = FALSE
    /\ acked = {} /\ sourced = {} /\ stopped = {}
    /\ faults = 0 /\ crashes = 0

Failures == {"chat", "other"}

\* What the native process of a request does.
NativeStep ==
    \E r \in Requests :
        \/ StoreUser(r) \/ TagProposal(r) \/ ProcessDies(r)
        \/ \E k \in Kinds : StoreProposal(r, k)

\* What the event loop does by itself once a job has begun. Every native
\* command has a time limit, so these need no help from outside.
JobStep ==
    \/ OpenSources \/ Launch \/ WaitFails \/ LaunchFails \/ InferenceEnds \/ InferenceFails
    \/ \E x \in Failures : InferenceAborts(x) \/ RefreshFails(x) \/ FinalizeFails(x)
    \/ \E w \in Outcomes : \/ Refresh(w) \/ StageReceipt(w) \/ DropSourceTurn(w)
                           \/ RecoverStage(w) \/ ClearReceipt(w) \/ FinishTurn(w)
                           \/ FinishBoot(w) \/ RefreshStopped(w) \/ ControlCommit(w)
    \/ SourceCheckFails \/ RecoverNothing \/ FinalizeSucceeds \/ FinishRecover

\* What callers, the model's tools and the machine do.
Outside ==
    \/ \E r \in Requests : SendRetry(r) \/ SendConfigFails(r)
    \/ \E r \in Requests, w \in Outcomes : Send(r, w)
    \/ \E w \in Outcomes : ReadSource(w) \/ SaveMeta(w) \/ OthersRefresh(w)
    \/ \E c \in Controls : ControlRetry(c) \/ \E b \in 0..Revision(mem) : ControlPlan(c, b)
    \/ StopUnopened \/ Stop \/ StopWhileClosing \/ Recover
    \/ Start \/ Shutdown \/ \E survive \in BOOLEAN : Crash(survive)

Next == (NativeStep \/ JobStep \/ Outside) /\ UNCHANGED text

Spec == Init /\ [][Next]_vars
FairSpec == Spec /\ WF_vars(JobStep /\ UNCHANGED text)

-----------------------------------------------------------------------------
(* Properties *)

TypeOK ==
    /\ text \in [Requests -> Texts]
    /\ seen \in Nat /\ current \in ReqOrNone
    /\ up \in BOOLEAN /\ error \in BOOLEAN /\ blocked \in BOOLEAN
    /\ mem \in Journal /\ disk \in Journal
    /\ native \in Seq(Row)
    /\ proc \in [Requests -> Process]
    /\ job \in {"none", "boot", "turn", "recover", "control"}
    /\ pc \in {"idle", "queued", "opening", "infer", "receipt", "stageReceipt", "read",
               "stageStored", "finalize", "published", "clear", "stopping",
               "closing", "commit"}
    /\ plan \in Seq(Change)
    /\ acked \subseteq Change
    /\ sourced \subseteq Requests /\ stopped \subseteq Requests
    /\ faults \in 0..MaxFaults /\ crashes \in 0..MaxCrashes

\* A reply published as "committed" is backed by the change in the journal
\* file, whatever was killed or failed to be written since.
PublishedIsDurable ==
    \A i \in DOMAIN native :
        native[i].disp = "committed" => native[i].tag \in Applied(disk)

NoRepeats(s) == \A i, k \in DOMAIN s : s[i] = s[k] => i = k

\* No request changes the task list twice, through retries, recovery and
\* restarts.
AppliedOnce == NoRepeats(disk.tasks) /\ NoRepeats(mem.tasks)

\* A batch was applied to the very list its model was shown, and comes from
\* the model's answer to that request.
AppliedAsProposed ==
    \A n \in DOMAIN disk.tasks :
        disk.tasks[n] \in Requests =>
            \E i \in ProposalRows(disk.tasks[n]) :
                /\ native[i].by = disk.tasks[n]
                /\ native[i].kind = "update" /\ native[i].base = n - 1

\* A direct edit that was acknowledged stays in the journal file.
AckedControlStays == acked \cap Controls \subseteq Applied(disk)

\* A turn whose model was given source data never changes the task list.
SourceNeverCommits == sourced \cap Applied(disk) = {}

Answered(r) == \E i \in ProposalRows(r) : native[i].disp = "committed"

\* A durable change is public, or its receipt is still saved so that recovery
\* can publish it.
CommittedIsRecoverable ==
    \A r \in Requests \cap Applied(disk) : Answered(r) \/ disk.pub.req = r

\* The same, for every turn that nobody stopped.
UnstoppedIsRecoverable ==
    \A r \in (Requests \cap Applied(disk)) \ stopped : Answered(r) \/ disk.pub.req = r

\* The model is run at most once for a request id.
OneModelTurn == \A r \in Requests : Cardinality(UserRows(r)) <= 1

\* What the person said last is on screen: as the receipt of that message, or in a
\* native row with those words, which is its own unless another message said the same.
MessageKept == up /\ mem.request # NoReq =>
    \/ mem.msg.req = mem.request
    \/ \E i \in DOMAIN native :
         native[i].role = "user" /\ text[native[i].by] = text[mem.request]

\* A request the caller was told is accepted is in the journal file.
AckedIsDurable == acked \cap Requests \subseteq Accepted(disk)

\* A turn whose source bridge was opened, so that its process may have run, and that
\* ends with its outcome unknown is never shown as a quiet success.
UnresolvedIsShown ==
    [][job = "turn" /\ pc \notin {"queued", "opening"}
         /\ up' /\ job' = "none" /\ mem'.turn # NoTurn => error']_vars

\* Every turn ends: each of its awaits has a limit.
TurnEnds == job = "turn" ~> job # "turn"

-----------------------------------------------------------------------------
(* The promise, read off the journal file and the native rows *)

Promise == INSTANCE TurnPromise WITH
    list <- disk.tasks,
    receipt <- [req |-> disk.pub.req, disp |-> disk.pub.disp],
    public <- [r \in Requests |->
                 {native[i].disp : i \in ProposalRows(r)} \ {"none"}],
    told <- acked \cap Controls

\* The turn, its retries, its recovery and the direct edits implement the
\* promise, through every failed write, stop and restart.
PromiseKept == Promise!Spec
=============================================================================
