------------------------------ MODULE Outreach ------------------------------
(***************************************************************************)
(* What the felis service says on its own initiative: check-ins            *)
(* (app/proactive.py) and automatic returns (app/return_loop.py), beside   *)
(* the person's turn, the direct routes and the recovery that share the    *)
(* native lock and the journal with them (app/chat_service.py).            *)
(*                                                                         *)
(* Each of the two loops runs at most one task at a time. A task holds on  *)
(* to the record of its event; commit_meta replaces the whole journal by a *)
(* copy, and the task then goes on writing in the record that was replaced *)
(* (attached = FALSE).                                                     *)
(***************************************************************************)
EXTENDS Naturals, Sequences, FiniteSets

CONSTANTS
    CheckIns, Returns,  \* bound: events of each loop
    Keys, NoKey,        \* return keys: conversation, day and reason
    KeepEvents,         \* how many events are always kept (100 in the code)
    Routes,             \* bound: the requests that come in beside messages
    MaxEpoch,           \* bound on messages and edits of the person
    MaxRev,             \* bound on changes of the task list
    MaxFaults,          \* bound on failed journal writes
    MaxCrashes          \* bound on kills of the service

ASSUME OutreachAssumption ==
    /\ CheckIns \in Nat /\ Returns \in Nat /\ KeepEvents \in Nat \ {0}
    /\ NoKey \notin Keys
    /\ Routes \subseteq {"control", "switch", "setup", "recover", "compress", "rename"}
    /\ MaxEpoch \in Nat /\ MaxRev \in Nat /\ MaxFaults \in Nat /\ MaxCrashes \in Nat

VARIABLES
    up,       \* the service process is running
    mem,      \* self.meta
    disk,     \* the journal file
    rows,     \* native rows of what was said unasked; kept: in a live record
    task,     \* the task of each loop
    lock,     \* who holds chat.native_lock
    human,    \* the person's turn, or a context summary: LocalChat.task
    route,    \* the request that holds chat.lock across awaits
    made,     \* events ever created, per loop
    faults, crashes

vars == <<up, mem, disk, rows, task, lock, human, route, made, faults, crashes>>

-----------------------------------------------------------------------------
(* Data *)

Loops == {"checkin", "return"}
Bound(l) == IF l = "checkin" THEN CheckIns ELSE Returns
Statuses == {"none", "running", "publishing", "delivered", "quiet", "stale",
             "failed_quiet"}
Event == [status : Statuses, key : Keys \cup {NoKey}]
NoEvent == [status |-> "none", key |-> NoKey]

\* unresolved: pending, pending_turn or pending_publication is set.
Journal == [ev : [Loops -> Seq(Event)], epoch : Nat, rev : Nat, unresolved : BOOLEAN]
FreshJournal == [ev |-> [l \in Loops |-> [n \in 1..Bound(l) |-> NoEvent]],
                 epoch |-> 0, rev |-> 0, unresolved |-> FALSE]

Task == [pc : {"idle", "start", "open", "lock", "infer", "kill", "append",
               "record", "refresh", "closing"},
         n : Nat, attached : BOOLEAN, cancel : BOOLEAN,
         why : Statuses, publishing : BOOLEAN,
         epoch : Nat, rev : Nat, wanted : BOOLEAN]
NoTask == [pc |-> "idle", n |-> 0, attached |-> TRUE,
           cancel |-> FALSE, why |-> "none", publishing |-> FALSE,
           epoch |-> 0, rev |-> 0, wanted |-> TRUE]

NoRoute == [kind |-> "none", at |-> "none"]
At(k, a) == route = [kind |-> k, at |-> a]
Going(k, a) == route' = [kind |-> k, at |-> a]

\* Mutated: the event's number is stored in the place of the return's key.
MutEventRow(l) == [by |-> l, n |-> task[l].n, key |-> task[l].n, kept |-> task[l].attached]
EventRow(l) == [by |-> l, n |-> task[l].n, key |-> mem.ev[l][task[l].n].key,
                kept |-> task[l].attached]
\* The event of l's row is no longer known to have been said.
Unkept(l) ==
    rows' = [i \in DOMAIN rows |->
               [rows[i] EXCEPT !.kept = @ /\ <<rows[i].by, rows[i].n>> # <<l, task[l].n>>]]
Said(l, n) == \E i \in DOMAIN rows : rows[i].by = l /\ rows[i].n = n

\* Every coroutine is at an await. Between its acceptance and the record of the
\* appended row a task has none, nor has the end of a check-in.
Yielding ==
    /\ up
    /\ task["checkin"].pc \notin {"append", "record", "closing"}
    /\ task["return"].pc \notin {"append", "record"}

-----------------------------------------------------------------------------
(* Writing the journal: write_private, save_meta, commit_meta *)

Outcomes == {"ok", "lost", "unsynced"}
Write(j, w) ==
    /\ w = "ok" \/ faults < MaxFaults
    /\ disk' = IF w = "lost" THEN disk ELSE j
    /\ faults' = IF w = "ok" THEN faults ELSE faults + 1
InPlace(j, w) == Write(j, w) /\ mem' = j

\* A task writes its event's status into the record it holds on to.
Told(l, s) == IF task[l].attached THEN [mem EXCEPT !.ev[l][task[l].n].status = s] ELSE mem
Goes(l, p) == task' = [task EXCEPT ![l].pc = p]
Finishes(l) == task' = [task EXCEPT ![l] = [NoTask EXCEPT !.pc = "closing", !.n = task[l].n,
                                              !.publishing = task[l].publishing]]

\* The journal is replaced by a copy: running tasks keep the old records.
Detached(t) == [l \in Loops |-> [t[l] EXCEPT !.attached = @ /\ t[l].pc = "idle"]]
Commit(j, w) ==
    /\ Write(j, w)
    /\ mem' = IF w = "ok" THEN j ELSE mem

-----------------------------------------------------------------------------
(* Preemption: invalidate *)

Live(l) == task[l].pc # "idle" /\ ~task[l].publishing
Marked(l) == Live(l) /\ (l = "checkin" \/ mem.ev[l][task[l].n].status = "running")

\* The tasks of S are cancelled, the events they work on become stale in j.
StaleIn(j, S) ==
    [j EXCEPT !.ev = [l \in Loops |-> [n \in 1..Bound(l) |->
        IF l \in S /\ Marked(l) /\ n = task[l].n
        THEN [j.ev[l][n] EXCEPT !.status = "stale"] ELSE j.ev[l][n]]]]
Preempted(t, S) == [l \in Loops |-> [t[l] EXCEPT !.cancel = @ \/ (l \in S /\ Live(l))]]

\* The loops of S are preempted. ReturnLoop.invalidate saves the journal itself.
PreemptSave(j, S, w) ==
    /\ mem' = StaleIn(j, S) /\ task' = Preempted(task, S)
    /\ IF "return" \in S /\ Live("return") THEN Write(StaleIn(j, S), w)
                                            ELSE w = "ok" /\ UNCHANGED <<disk, faults>>

-----------------------------------------------------------------------------
(* Admission: maybe_decide and request *)

\* Discarded attempts beyond the last ones are forgotten; what was said is not.
Kept(ev) ==
    [k \in DOMAIN ev |->
        IF /\ ev[k].status \notin {"publishing", "delivered"}
           /\ Cardinality({m \in DOMAIN ev : m > k /\ ev[m] # NoEvent}) >= KeepEvents
        THEN NoEvent ELSE ev[k]]

\* The check-in's timing gates (stability, cooldown, budget) may hold at any time.
\* The grace period after the person's own action outlasts a route's waits.
CheckInAdmitted ==
    /\ route.kind \notin {"boot", "control", "switch"}
    /\ \A n \in 1..CheckIns : mem.ev["checkin"][n].status # "publishing"

\* Mutated: only returns that were delivered count against their key.
MutReturnAdmitted(r) ==
    /\ route = NoRoute
    /\ ~mem.unresolved
    /\ r \in Keys
    /\ \A n \in 1..Returns : mem.ev["return"][n].key = r =>
                                mem.ev["return"][n].status # "delivered"

\* One return per conversation, day and reason, whatever became of it.
ReturnAdmitted(r) ==
    /\ route = NoRoute
    /\ ~mem.unresolved
    /\ r \in Keys
    /\ \A n \in 1..Returns : mem.ev["return"][n].key # r

Begin(l, r, w) ==
    LET n == made[l] + 1
        ev == [mem.ev[l] EXCEPT ![n] = [status |-> "running", key |-> r]]
    IN  /\ Yielding
        /\ human = "none" /\ task[l].pc = "idle"
        /\ made[l] < Bound(l)
        /\ IF l = "checkin" THEN r = NoKey /\ CheckInAdmitted ELSE ReturnAdmitted(r)
        /\ made' = [made EXCEPT ![l] = n]
        /\ InPlace([mem EXCEPT !.ev[l] = Kept(ev)], w)
        /\ task' = IF w # "ok" THEN task ELSE
              [task EXCEPT ![l] = [NoTask EXCEPT !.pc = "start", !.n = n,
                  !.epoch = mem.epoch, !.rev = mem.rev]]
        /\ UNCHANGED <<up, rows, lock, human, route, crashes>>

-----------------------------------------------------------------------------
(* The task of a loop: decide *)

\* current: the person has not acted since and the permission still holds.
Current(l) ==
    /\ human = "none" /\ route.kind # "switch"
    /\ task[l].wanted
    /\ task[l].rev = mem.rev
    /\ task[l].epoch = mem.epoch
    /\ l = "return" => ~mem.unresolved

Runs(l, p) == Yielding /\ task[l].pc = p /\ ~task[l].cancel
\* Mutated: the lock is not given back.
MutRelease(l) == lock' = lock
Release(l) == lock' = IF lock = l THEN "free" ELSE lock

\* The event gets status s and the lock is free for others.
Leaves(l, s) ==
    /\ Finishes(l) /\ mem' = Told(l, s) /\ Release(l)
    /\ UNCHANGED <<up, disk, rows, human, route, made, faults, crashes>>
Proceeds(l, p) ==
    /\ Goes(l, p)
    /\ UNCHANGED <<up, mem, disk, rows, human, route, made, faults, crashes>>

\* The private input is written; a return first checks that it is still wanted.
Start(l) ==
    /\ Runs(l, "start")
    /\ IF l = "return" /\ ~Current(l)
         THEN Leaves(l, "stale")
         ELSE Proceeds(l, IF l = "return" THEN "open" ELSE "lock") /\ UNCHANGED lock

\* The source bridge of a return is open.
Opens ==
    /\ Runs("return", "open")
    /\ Proceeds("return", "lock") /\ UNCHANGED lock

\* The input cannot be written or the bridge cannot be opened; the process fails
\* or its answer cannot be verified.
Fails(l) ==
    /\ Runs(l, "start") \/ Runs(l, "open") \/ Runs(l, "infer")
    /\ Leaves(l, "failed_quiet")

Acquire(l) ==
    /\ Runs(l, "lock") /\ lock = "free"
    /\ IF Current(l) THEN Proceeds(l, "infer") /\ lock' = l
                     ELSE Leaves(l, "stale")

\* 120 s or 180 s are over: the process is stopped with the lock still held.
TimesOut(l) ==
    /\ Runs(l, "infer")
    /\ task' = [task EXCEPT ![l].pc = "kill", ![l].why = "failed_quiet"]
    /\ UNCHANGED <<up, mem, disk, rows, lock, human, route, made, faults, crashes>>

\* Mutated: stopping the process waits for the lock that is held.
MutKilled(l) ==
    /\ Runs(l, "kill") /\ lock = "free"
    /\ Leaves(l, task[l].why)

Killed(l) ==
    /\ Runs(l, "kill")
    /\ Leaves(l, task[l].why)

\* The answer comes too late, or asks for silence.
StaysQuiet(l) ==
    /\ Runs(l, "infer")
    /\ Goes(l, "refresh")
    /\ mem' = Told(l, IF Current(l) THEN "quiet" ELSE "stale")
    /\ UNCHANGED <<up, disk, rows, lock, human, route, made, faults, crashes>>

\* Mutated: what happened since the inference began is not looked at again.
MutAccept(l, w) ==
    /\ Runs(l, "infer")
    /\ InPlace(Told(l, "publishing"), w)
    /\ IF w = "ok"
         THEN task' = [task EXCEPT ![l].pc = "append", ![l].publishing = TRUE] /\ UNCHANGED lock
         ELSE Finishes(l) /\ Release(l)
    /\ UNCHANGED <<up, rows, human, route, made, crashes>>

\* The publication is accepted: written before anything is said.
Accept(l, w) ==
    /\ Runs(l, "infer")
    /\ Current(l)
    /\ InPlace(Told(l, "publishing"), w)
    /\ IF w = "ok"
         THEN task' = [task EXCEPT ![l].pc = "append", ![l].publishing = TRUE] /\ UNCHANGED lock
         ELSE Finishes(l) /\ Release(l)
    /\ UNCHANGED <<up, rows, human, route, made, crashes>>

\* publish: one row, unless this event's row is there.
AppendRow(l) ==
    rows' = IF Said(l, task[l].n) THEN rows ELSE Append(rows, EventRow(l))

Appends(l) ==
    /\ up /\ task[l].pc = "append"
    /\ AppendRow(l)
    /\ Goes(l, "record")
    /\ UNCHANGED <<up, mem, disk, lock, human, route, made, faults, crashes>>

\* It fails before the row is stored, or cannot be verified after. The event
\* stays accepted, for a recovery to look it up.
AppendFails(l) ==
    /\ up /\ task[l].pc = "append"
    /\ UNCHANGED rows \/ AppendRow(l)
    /\ Finishes(l) /\ Release(l)
    /\ UNCHANGED <<up, mem, disk, human, route, made, faults, crashes>>

\* The row is recorded. A check-in saves that; if it cannot, its handler takes
\* the event for one that failed.
Records(l, w) ==
    /\ up /\ task[l].pc = "record"
    /\ IF l = "checkin" THEN Write(Told(l, "delivered"), w)
                        ELSE w = "ok" /\ UNCHANGED <<disk, faults>>
    /\ IF w = "ok"
         THEN /\ Goes(l, "refresh") /\ mem' = Told(l, "delivered")
              /\ UNCHANGED <<lock, rows>>
         ELSE /\ Finishes(l) /\ mem' = Told(l, "failed_quiet")
              /\ Release(l) /\ Unkept(l)
    /\ UNCHANGED <<up, human, route, made, crashes>>

\* The conversation is read back and the journal written.
Refreshes(l) ==
    /\ Runs(l, "refresh")
    /\ InPlace(mem, "ok")
    /\ Finishes(l) /\ Release(l)
    /\ UNCHANGED <<up, rows, human, route, made, crashes>>

\* Reading back, or writing, fails: whatever it was, the event failed quietly.
RefreshFails(l, w) ==
    /\ Runs(l, "refresh")
    /\ IF w = "ok" THEN UNCHANGED <<disk, faults>> ELSE Write(mem, w)
    /\ Finishes(l) /\ mem' = Told(l, "failed_quiet")
    /\ Release(l)
    /\ Unkept(l)
    /\ UNCHANGED <<up, human, route, made, crashes>>

\* A cancellation arrives at the await where the task is. A task that has not
\* begun never does; a running process is stopped first, unless a second
\* cancellation cuts that short; the end of a return is cut short as well.
Cancelled(l) ==
    /\ Yielding /\ task[l].cancel
    /\ \/ /\ task[l].pc \in {"open", "lock", "kill"}
          /\ Finishes(l) /\ mem' = Told(l, "stale") /\ Release(l)
       \/ /\ task[l].pc \in {"infer", "refresh"}
          /\ task' = [task EXCEPT ![l].pc = "kill", ![l].cancel = FALSE,
                                  ![l].why = "stale"]
          /\ UNCHANGED <<mem, lock>>
       \/ /\ task[l].pc \in {"start", "closing"}
          /\ task' = [task EXCEPT ![l] = NoTask]
          /\ UNCHANGED <<mem, lock>>
    /\ UNCHANGED <<up, disk, rows, human, route, made, faults, crashes>>

\* Whoever waits for the task of l.
AwaitOf(l) == IF l = "return" THEN "wait_return" ELSE "wait_checkin"

\* The end of the task: the journal is written once more. If that fails, the
\* error reaches whoever waits for the task, and ends the turn or the route.
Closes(l, w) ==
    /\ up /\ task[l].pc = "closing" /\ ~task[l].cancel
    /\ l = "checkin" \/ Yielding
    /\ InPlace(mem, w)
    /\ task' = [task EXCEPT ![l] = NoTask]
    /\ human' = IF w # "ok" /\ human = AwaitOf(l) THEN "none" ELSE human
    /\ route' = IF w # "ok" /\ route.at = AwaitOf(l) THEN NoRoute ELSE route
    /\ UNCHANGED <<up, rows, lock, made, crashes>>

-----------------------------------------------------------------------------
(* The person's turn, as far as the two loops can tell *)

\* Nobody holds chat.lock and LocalChat is not busy.
Free == Yielding /\ route = NoRoute /\ human = "none"

\* send. Invalidating a return saves the journal, and that may fail first.
Send(w) ==
    LET j == StaleIn([mem EXCEPT !.epoch = @ + 1], Loops)
        k == [j EXCEPT !.unresolved = TRUE]
    IN  /\ Free /\ mem.epoch < MaxEpoch
        /\ task' = Preempted(task, Loops)
        /\ \/ w # "ok" /\ Live("return") /\ InPlace(j, w)
           \/ /\ w = "ok" \/ faults < MaxFaults
              /\ mem' = k
              /\ disk' = IF w # "lost" THEN k ELSE IF Live("return") THEN j ELSE disk
              /\ faults' = IF w = "ok" THEN faults ELSE faults + 1
        /\ human' = IF w = "ok" THEN "wait_return" ELSE "none"
        /\ UNCHANGED <<up, rows, lock, route, made, crashes>>

\* The journal is committed first (w), and the loops are preempted after; saving
\* that (v) may fail on its own.
CommitThenPreempt(w, v) ==
    LET j == StaleIn(mem, Loops)
    IN  IF w # "ok" THEN v = "ok" /\ Commit(mem, w) /\ UNCHANGED task
        ELSE /\ v = "ok" \/ (Live("return") /\ faults < MaxFaults)
             /\ mem' = j
             /\ disk' = IF Live("return") /\ v # "lost" THEN j ELSE mem
             /\ faults' = IF v = "ok" THEN faults ELSE faults + 1
             /\ task' = Preempted(Detached(task), Loops)

\* compress_context. Its task waits and locks as a turn does, and is taken for one.
Compress(w, v) ==
    /\ Free /\ "compress" \in Routes /\ ~mem.unresolved
    /\ CommitThenPreempt(w, v)
    /\ human' = IF w = "ok" /\ v = "ok" THEN "wait_return" ELSE human
    /\ UNCHANGED <<up, rows, lock, route, made, crashes>>

HumanOnly == UNCHANGED <<up, mem, disk, rows, task, route, made, faults, crashes>>

\* serial_human_turn waits for the preempted return, then for the check-in.
HumanWaits(l) ==
    /\ Yielding /\ human = AwaitOf(l) /\ task[l].pc = "idle"
    /\ human' = IF l = "return" THEN "wait_checkin" ELSE "lock"
    /\ UNCHANGED lock /\ HumanOnly

HumanLocks ==
    /\ Yielding /\ human = "lock" /\ lock = "free"
    /\ human' = "turn" /\ lock' = "human"
    /\ HumanOnly

\* stage_publication and publish_staged_reply replace the journal.
NextRev == {mem.rev} \cup (IF mem.rev < MaxRev THEN {mem.rev + 1} ELSE {})
HumanCommits(r, w) ==
    /\ Yielding /\ human = "turn"
    /\ Commit([mem EXCEPT !.rev = r], w)
    /\ task' = IF w = "ok" THEN Detached(task) ELSE task
    /\ UNCHANGED <<up, rows, lock, human, route, made, crashes>>

\* The turn ends, resolved or not.
HumanEnds(u, w) ==
    /\ Yielding /\ human = "turn"
    /\ InPlace([mem EXCEPT !.unresolved = u], w)
    /\ human' = "none" /\ lock' = "free"
    /\ UNCHANGED <<up, rows, task, route, made, crashes>>

-----------------------------------------------------------------------------
(* Routes that hold chat.lock while they wait *)

\* control_tasks, control_activity_records: an act of the person (e = 1);
\* a switch of chats in control_catalog is none (e = 0).
RouteBegins(k, e, w) ==
    /\ Free /\ k \in Routes /\ mem.epoch + e <= MaxEpoch
    /\ k = "switch" => ~mem.unresolved
    /\ PreemptSave([mem EXCEPT !.epoch = @ + e], Loops, w)
    /\ route' = IF w = "ok" THEN [kind |-> k, at |-> "wait_return"] ELSE route
    /\ UNCHANGED <<up, rows, lock, human, made, crashes>>

\* control_onboarding commits first, and waits for the return only.
SetupBegins(w, v) ==
    /\ Free /\ "setup" \in Routes
    /\ CommitThenPreempt(w, v)
    /\ route' = IF w = "ok" /\ v = "ok" THEN [kind |-> "setup", at |-> "wait_return"]
                ELSE route
    /\ UNCHANGED <<up, rows, lock, human, made, crashes>>

RouteOnly == UNCHANGED <<up, mem, disk, rows, task, human, made, faults, crashes>>

RouteWaits(l) ==
    /\ Yielding /\ route.at = AwaitOf(l) /\ task[l].pc = "idle"
    /\ ~At("control", "wait_checkin")
    /\ route' = IF route.kind = "setup" THEN NoRoute
                ELSE [route EXCEPT !.at = IF l = "return" THEN "wait_checkin" ELSE "lock"]
    /\ UNCHANGED lock /\ RouteOnly

\* The planned change replaces the journal as soon as the check-in is over.
ControlCommits(r, w) ==
    /\ Yielding /\ At("control", "wait_checkin") /\ task["checkin"].pc = "idle"
    /\ Commit([mem EXCEPT !.rev = r], w)
    /\ task' = IF w = "ok" THEN Detached(task) ELSE task
    /\ route' = NoRoute
    /\ UNCHANGED <<up, rows, lock, human, made, crashes>>

RecoverBegins == Free /\ "recover" \in Routes /\ Going("recover", "lock") /\ UNCHANGED lock /\ RouteOnly

RouteLocks ==
    /\ Yielding /\ route.at = "lock" /\ lock = "free"
    /\ route' = [route EXCEPT !.at = "read"] /\ lock' = "route"
    /\ RouteOnly

\* A switch reads the other conversation and takes over its flags.
SwitchCommits(u, w) ==
    /\ Yielding /\ At("switch", "read")
    /\ Commit([mem EXCEPT !.unresolved = u], w)
    /\ task' = IF w = "ok" THEN Detached(task) ELSE task
    /\ route' = NoRoute /\ lock' = "free"
    /\ UNCHANGED <<up, rows, human, made, crashes>>

\* The conversation cannot be read, or a later step fails. A failed start keeps
\* the service up only for a ChatError.
RouteFails ==
    /\ Yielding /\ route.at \in {"read", "publish"}
    /\ route' = NoRoute /\ lock' = IF lock = "route" THEN "free" ELSE lock
    /\ up' \in IF route.kind = "boot" THEN BOOLEAN ELSE {TRUE}
    /\ UNCHANGED <<mem, disk, rows, task, human, made, faults, crashes>>

\* A plain catalog change (a new name, a pin, a project) commits at once.
Rename(w) ==
    /\ Free /\ "rename" \in Routes /\ ~mem.unresolved
    /\ Commit(mem, w)
    /\ task' = IF w = "ok" THEN Detached(task) ELSE task
    /\ UNCHANGED <<up, rows, lock, human, route, made, crashes>>

-----------------------------------------------------------------------------
(* Recovery: the route, and the start of the service *)

\* recover_publication stages a stored proposal; a change of the list
\* preempts the check-in.
RecoverStages(r, w) ==
    LET j == [mem EXCEPT !.rev = r]
        S == IF r # mem.rev THEN {"checkin"} ELSE {}
    IN  /\ Yielding /\ route.kind \in {"recover", "boot"} /\ route.at = "read"
        /\ mem.unresolved
        /\ Write(j, w)
        /\ mem' = IF w = "ok" THEN StaleIn(j, S) ELSE mem
        /\ task' = IF w = "ok" THEN Preempted(Detached(task), S) ELSE task
        /\ route' = IF w = "ok" THEN [route EXCEPT !.at = "publish"] ELSE NoRoute
        /\ lock' = IF w # "ok" /\ lock = "route" THEN "free" ELSE lock
        /\ up' \in IF w # "ok" /\ route.kind = "boot" THEN {FALSE} ELSE {TRUE}
        /\ UNCHANGED <<rows, human, made, crashes>>

\* The recovered reply is public, and its receipt leaves the journal; a turn that
\* had read sources is given up in place.
RecoverClears(w) ==
    /\ Yielding /\ route.kind \in {"recover", "boot"} /\ route.at \in {"read", "publish"}
    /\ mem.unresolved
    /\ LET j == [mem EXCEPT !.unresolved = FALSE]
       IN  \/ InPlace(j, w) /\ UNCHANGED task
           \/ Commit(j, w) /\ task' = IF w = "ok" THEN Detached(task) ELSE task
    /\ route' = IF w = "ok" THEN [route EXCEPT !.at = "events"] ELSE NoRoute
    /\ lock' = IF w # "ok" /\ lock = "route" THEN "free" ELSE lock
    /\ up' = (w = "ok" \/ route.kind # "boot")
    /\ UNCHANGED <<rows, human, made, crashes>>

\* Mutated: an uncertain append counts as done.
MutResolved(l, n) == "delivered"

\* Mutated: an accepted event is given up without a look.
MutResolvedStale(l, n) == "stale"

\* What the exact native lookup makes of an accepted event.
Resolved(l, n) == IF Said(l, n) THEN "delivered" ELSE "stale"

\* recover_publications, for check-ins and returns: accepted events are looked up,
\* once; those of the loops in F cannot be and stay as they are.
RecoverEnds(F, w) ==
    LET j == [mem EXCEPT !.ev = [l \in Loops |-> [n \in 1..Bound(l) |->
                IF mem.ev[l][n].status = "publishing" /\ l \notin F
                THEN [mem.ev[l][n] EXCEPT !.status = Resolved(l, n)]
                ELSE mem.ev[l][n]]]]
    IN  /\ Yielding /\ route.kind \in {"recover", "boot"} /\ route.at \in {"read", "events"}
        /\ IF j = mem THEN w = "ok" /\ UNCHANGED <<disk, faults>> ELSE Write(j, w)
        /\ mem' = j
        /\ route' = NoRoute /\ lock' = IF lock = "route" THEN "free" ELSE lock
        /\ up' \in IF route.kind = "boot" /\ w # "ok" THEN BOOLEAN ELSE {TRUE}
        /\ UNCHANGED <<rows, task, human, made, crashes>>

-----------------------------------------------------------------------------
(* What happens around them *)

\* Consent, context, sources or the break change and the loops of S hear of it:
\* context_changed, update_context, stop, sources_changed. Some of them save.
ContextChanges(S, w) ==
    /\ Yielding /\ route.kind # "boot" /\ \E l \in S : Live(l)
    /\ \/ PreemptSave(mem, S, w)
       \/ InPlace(StaleIn(mem, S), w) /\ task' = Preempted(task, S)
    /\ UNCHANGED <<up, rows, lock, human, route, made, crashes>>

\* A lease runs out or is renewed, what is observed ages or changes, the day ends:
\* the task is not told. It looks again before it accepts.
Lapses(l) ==
    /\ Yielding /\ task[l].pc \in {"start", "open", "lock", "infer"} /\ ~task[l].cancel
    /\ task' = [task EXCEPT ![l].wanted = ~@]
    /\ UNCHANGED <<up, mem, disk, rows, lock, human, route, made, faults, crashes>>

\* Any other component writes the journal from memory.
SaveMeta(w) ==
    /\ Yielding
    /\ InPlace(mem, w)
    /\ UNCHANGED <<up, rows, task, lock, human, route, made, crashes>>

\* The service is killed, between two awaits or between two writes.
Crash ==
    /\ up /\ crashes < MaxCrashes
    /\ crashes' = crashes + 1
    /\ up' = FALSE
    /\ task' = [l \in Loops |-> NoTask]
    /\ lock' = "free" /\ human' = "none" /\ route' = NoRoute
    /\ mem' = FreshJournal
    /\ UNCHANGED <<disk, rows, made, faults>>

\* A task does not survive: an event that was running is stale.
StartService ==
    /\ ~up
    /\ up' = TRUE
    /\ mem' = [disk EXCEPT !.ev = [l \in Loops |-> [n \in 1..Bound(l) |->
                 IF disk.ev[l][n].status = "running"
                 THEN [disk.ev[l][n] EXCEPT !.status = "stale"] ELSE disk.ev[l][n]]]]
    /\ Going("boot", "read")
    /\ task' = [l \in Loops |-> NoTask]
    /\ lock' = "free" /\ human' = "none"
    /\ UNCHANGED <<disk, rows, made, faults, crashes>>

-----------------------------------------------------------------------------
Init ==
    /\ up = FALSE
    /\ mem = FreshJournal /\ disk = FreshJournal
    /\ rows = <<>>
    /\ task = [l \in Loops |-> NoTask]
    /\ lock = "free" /\ human = "none" /\ route = NoRoute
    /\ made = [l \in Loops |-> 0]
    /\ faults = 0 /\ crashes = 0

\* The tasks of the loops go on by themselves: their processes, bridges and
\* re-reads have time limits.
TaskStep(l) ==
    \/ Start(l) \/ Fails(l) \/ Acquire(l) \/ TimesOut(l) \/ Killed(l) \/ StaysQuiet(l)
    \/ Appends(l) \/ AppendFails(l) \/ Refreshes(l) \/ Cancelled(l)
    \/ l = "return" /\ Opens
    \/ \E w \in Outcomes : Accept(l, w) \/ Records(l, w) \/ RefreshFails(l, w) \/ Closes(l, w)

\* So do the turn, up to its end, and the routes.
HumanStep ==
    \/ \E l \in Loops : HumanWaits(l)
    \/ HumanLocks \/ \E u \in BOOLEAN, w \in Outcomes : HumanEnds(u, w)
RouteStep ==
    \/ \E l \in Loops : RouteWaits(l)
    \/ RouteLocks \/ RouteFails
    \/ \E w \in Outcomes :
        \/ \E r \in NextRev : ControlCommits(r, w)
        \/ \E u \in BOOLEAN : SwitchCommits(u, w)
        \/ \E F \in SUBSET Loops : RecoverEnds(F, w)

Outside ==
    \/ \E w \in Outcomes :
        \/ Send(w) \/ Rename(w) \/ SaveMeta(w) \/ RecoverClears(w)
        \/ \E v \in Outcomes : Compress(w, v) \/ SetupBegins(w, v)
        \/ \E r \in NextRev : HumanCommits(r, w) \/ RecoverStages(r, w)
        \/ RouteBegins("control", 1, w) \/ RouteBegins("switch", 0, w)
        \/ \E l \in Loops, k \in Keys \cup {NoKey} : Begin(l, k, w)
        \/ \E S \in SUBSET Loops : ContextChanges(S, w)
    \/ RecoverBegins \/ Crash \/ StartService
    \/ \E l \in Loops : Lapses(l)

Next == (\E l \in Loops : TaskStep(l)) \/ HumanStep \/ RouteStep \/ Outside

Spec == Init /\ [][Next]_vars
FairSpec ==
    /\ Spec
    /\ \A l \in Loops : WF_vars(TaskStep(l))
    /\ WF_vars(HumanStep) /\ WF_vars(RouteStep)

-----------------------------------------------------------------------------
(* Properties *)

TypeOK ==
    /\ up \in BOOLEAN
    /\ mem \in Journal /\ disk \in Journal
    /\ rows \in Seq([by : Loops, n : Nat, key : Keys \cup {NoKey}, kept : BOOLEAN])
    /\ task \in [Loops -> Task]
    /\ lock \in Loops \cup {"free", "human", "route"}
    /\ human \in {"none", "wait_return", "wait_checkin", "lock", "turn"}
    /\ route.kind \in {"none", "boot", "control", "switch", "setup", "recover"}
    /\ route.at \in {"none", "wait_return", "wait_checkin", "lock", "read", "publish", "events"}
    /\ made \in [Loops -> Nat]
    /\ faults \in 0..MaxFaults /\ crashes \in 0..MaxCrashes

\* No event is said twice, and no two rows have the same return key: publish looks
\* for the event's row, request for the key, through failed writes, kills, restarts
\* and recoveries.
SaidOnce ==
    \A i, k \in DOMAIN rows :
        /\ rows[i].by = rows[k].by
        /\ rows[i].n = rows[k].n \/ (rows[i].key = rows[k].key /\ rows[i].key # NoKey)
        => i = k

Speaks(l) == Len(rows') > Len(rows) /\ rows'[Len(rows')].by = l

\* Nothing is said on the service's own initiative while the person's turn is on,
\* nor on the ground of a message, a list or a permission that is no longer current:
\* what decide reads before its inference still holds when publish stores the row.
SaidWhileWanted ==
    [][\A l \in Loops : Speaks(l) =>
         /\ human = "none" /\ task[l].wanted
         /\ task[l].rev = mem.rev /\ task[l].epoch = mem.epoch]_vars

OnDisk(l, n) == disk.ev[l][n].status

\* What was said stays in the conversation, which shows a row only if its event is
\* delivered: in the journal file it is that, or accepted and to be looked up by
\* recover_publications. Rows that are not kept are those of the two findings.
SaidIsKept ==
    \A i \in DOMAIN rows :
        \/ OnDisk(rows[i].by, rows[i].n) \in {"publishing", "delivered"}
        \/ ~rows[i].kept

\* An event that counts as delivered has its row: neither the append nor the
\* recovery of an uncertain one takes for said what was not.
DeliveredWasSaid ==
    \A l \in Loops : \A n \in DOMAIN mem.ev[l] :
        OnDisk(l, n) = "delivered" \/ mem.ev[l][n].status = "delivered" => Said(l, n)

\* The acceptance is the linearization point (proactive.py 791): what was said is
\* accepted, or more, in the journal file.
AcceptedIsDurable ==
    \A i \in DOMAIN rows :
        OnDisk(rows[i].by, rows[i].n) \in {"publishing", "delivered", "failed_quiet"}

\* A check-in of which the person is told "No check-in was delivered" (proactive.py
\* 832) has no row.
FailedWasNotSaid ==
    \A n \in 1..CheckIns : mem.ev["checkin"][n].status = "failed_quiet" => ~Said("checkin", n)

\* serial_human_turn and run_compaction never wait for ever for what they preempted,
\* nor for the native lock: the turn begins, or the wait fails.
TurnBegins == human \in {"wait_return", "wait_checkin", "lock"} ~> human \in {"turn", "none"}

\* No route keeps chat.lock for ever, waiting for a preempted task or the native lock.
RouteEnds == route # NoRoute ~> route = NoRoute
=============================================================================
