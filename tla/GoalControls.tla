----------------------------- MODULE GoalControls -----------------------------
(***************************************************************************)
(* Direct changes of one goal: the menus, the editor and the notices of    *)
(* web/workspace/item-controls.js, the buttons of Home                     *)
(* (unified-workspace.js, changeGoal), the operations they send            *)
(* (web/goals/editor.js) and the transaction of the service                *)
(* (app/tasks.py, control_tasks).  Every change names the revision and the *)
(* chat it was made on; an Undo names the revision its change produced.    *)
(***************************************************************************)
EXTENDS Integers, Sequences

CONSTANTS GoalRooms,  \* conversations
          MaxCount,   \* bound: the target and the progress of the goal
          MaxPresses  \* bound: gestures, other changes and faults

VARIABLES
    tasks,    \* the service: the goal, the focus, the revision and the open chat
    goals,    \* the snapshot of this window
    drafts,   \* the editor and its draft, kept while another goal is looked at
    undos,    \* the notice of each surface that offers Undo
    order,    \* the command under way
    presses   \* bound: what may still happen

goalVars == <<tasks, goals, drafts, undos, order, presses>>

Statuses == {"open", "completed", "cancelled", "deleted"}
Surfaces == {"goals", "home"}
Words == {"w0", "w1"}   \* name, due date, timing note and unit
Foci == {"here", "elsewhere", "none"}
NoUndo == [of |-> "none"]
NoOrder == [by |-> "none"]
NoDraft == [open |-> FALSE]
MaxOperations == 3   \* of one command of these controls

Goals == [status : Statuses, prior : Statuses, target : 0 .. MaxCount, count : 0 .. MaxCount,
          words : Words]   \* target 0: no target

GoalsTypeOK ==
    /\ \A s \in {tasks, goals} :
         /\ s.goal \in Goals /\ s.focus \in Foci /\ s.revision \in Nat /\ s.room \in GoalRooms
    /\ drafts # NoDraft =>
         /\ drafts.task \in Goals
         /\ \A f \in {"saving", "shown", "kept", "conflict"} : drafts[f] \in BOOLEAN
    /\ \A s \in Surfaces : undos[s] = NoUndo \/ undos[s].before.goal \in Goals
    /\ order # NoOrder => order.revision \in Nat /\ Len(order.ops) <= MaxOperations
    /\ presses \in 0 .. MaxPresses

\* The chats are alike: which one is open at first makes no difference.
GoalsInit ==
    /\ \E t \in 0 .. MaxCount, r \in {CHOOSE q \in GoalRooms : TRUE}, f \in Foci :
         tasks = [goal |-> [status |-> "open", prior |-> "open", target |-> t, count |-> 0,
                            words |-> "w0"],
                  focus |-> f, revision |-> 0, room |-> r]
    /\ goals = tasks
    /\ drafts = NoDraft
    /\ undos = [s \in Surfaces |-> NoUndo]
    /\ order = NoOrder
    /\ presses = MaxPresses

-----------------------------------------------------------------------------
(* apply_operations, for the operations these controls send. *)

Op(name) == [op |-> name]
Edit(words, target) == [op |-> "edit", words |-> words, target |-> target]
Progress(n) == [op |-> "progress", count |-> n]
Focus(f) == [op |-> "focus", to |-> f]

\* What an operation needs of the goal.
Permitted(g, o) ==
    /\ o.op \in {"complete", "cancel", "reopen", "edit", "progress"} => g.status # "deleted"
    /\ o.op = "restore" => g.status = "deleted"
    /\ o.op = "focus" => (o.to = "here" => g.status = "open")
    /\ o.op = "progress" => g.status = "open" /\ g.target # 0 /\ o.count <= g.target
    /\ o.op = "edit" => o.target = 0 \/ g.count <= o.target

StatusAfter == [complete |-> "completed", cancel |-> "cancelled", reopen |-> "open"]

GoalAfter(g, o) ==
    CASE o.op \in DOMAIN StatusAfter ->
           [g EXCEPT !.status = StatusAfter[o.op],
                     !.count = IF o.op = "complete" /\ g.target # 0 THEN g.target ELSE @]
      [] o.op = "delete" /\ g.status # "deleted" -> [g EXCEPT !.status = "deleted", !.prior = g.status]
      [] o.op = "restore"  -> [g EXCEPT !.status = g.prior, !.prior = "open"]
      [] o.op = "progress" -> [g EXCEPT !.count = o.count]
      [] o.op = "edit"     -> [g EXCEPT !.words = o.words, !.target = o.target]
      [] OTHER -> g

FocusAfter(g, f, o) ==
    IF o.op = "focus" THEN o.to
    ELSE IF o.op \in {"complete", "cancel", "delete"} /\ f = "here" THEN "none" ELSE f

\* One batch: every operation, or none.  These controls send three at the most.
AfterOne(acc, o) ==
    [goal |-> GoalAfter(acc.goal, o), focus |-> FocusAfter(acc.goal, acc.focus, o),
     ok |-> acc.ok /\ Permitted(acc.goal, o)]
Batch(s, ops) ==
    LET Upto(acc, i) == IF i <= Len(ops) THEN AfterOne(acc, ops[i]) ELSE acc
    IN Upto(Upto(Upto([goal |-> s.goal, focus |-> s.focus, ok |-> TRUE], 1), 2), 3)

\* Mutant: the revision of the change is not compared.
MutFits(s, c) == c.room = s.room

Fits(s, c) == c.room = s.room /\ c.revision = s.revision

-----------------------------------------------------------------------------
(* goals/editor.js. *)

\* taskEditOperations: lower the progress before the target, raise it after.
EditOperations(task, v) ==
    LET changes == v.words # task.words \/ v.target # task.target
        edit == IF changes THEN <<Edit(v.words, v.target)>> ELSE << >>
        counted == v.target # 0 /\ task.status = "open" /\ v.count # task.count
        progress == IF counted THEN <<Progress(v.count)>> ELSE << >>
    IN IF v.target # 0 /\ v.target < task.count THEN progress \o edit ELSE edit \o progress

\* What the form refuses before it sends anything.
FormIsValid(task, v) ==
    /\ task.status # "deleted"
    /\ v.target # 0 => (IF task.status = "open" THEN v.count ELSE task.count) <= v.target

\* goalActionOperations.
ActionOperations(action, focus) ==
    IF action = "focus" THEN <<Focus(IF focus = "here" THEN "none" ELSE "here")>> ELSE <<Op(action)>>

\* Mutant: the progress is not put back.
MutUndoOperations(g, action, focus) ==
    CASE action = "delete" -> <<Op("restore")>>
      [] action = "focus" -> <<Focus(focus)>>
      [] action \in {"complete", "cancel"} -> <<Op("reopen")>>
      [] action = "reopen" -> <<Op(IF g.status = "completed" THEN "complete" ELSE "cancel")>>
      [] OTHER -> << >>

\* undoGoalOperations.
UndoOperations(g, action, focus) ==
    LET refocus == IF focus = "here" THEN <<Focus("here")>> ELSE << >> IN
    CASE action = "delete" -> <<Op("restore")>> \o refocus
      [] action = "focus" -> <<Focus(focus)>>
      [] action \in {"complete", "cancel"} ->
           <<Op("reopen")>> \o (IF g.target # 0 THEN <<Progress(g.count)>> ELSE << >>) \o refocus
      [] action = "reopen" -> <<Op(IF g.status = "completed" THEN "complete" ELSE "cancel")>>
      [] OTHER -> << >>

-----------------------------------------------------------------------------
(* The surfaces. *)

\* control() of the client: one command at a time.
Orders(c) ==
    /\ order = NoOrder /\ presses > 0 /\ presses' = presses - 1
    /\ order' = c

\* The buttons a goal has, by its status (goalPrimary, goalFocus, goalOptions).
Offers(g) ==
    CASE g.status = "open" -> {"complete", "focus", "cancel", "delete"}
      [] g.status = "deleted" -> {"restore"}
      [] OTHER -> {"reopen", "delete"}

\* runGoal, and changeGoal of Home, which completes or drops the goal.
PressesAction ==
    \E s \in Surfaces, a \in Offers(goals.goal) :
      /\ s = "home" => a \in {"complete", "cancel"}
      /\ Orders([by |-> s, action |-> a, ops |-> ActionOperations(a, goals.focus),
                 revision |-> goals.revision, room |-> goals.room,
                 before |-> [goal |-> goals.goal, focus |-> goals.focus]])
      /\ UNCHANGED <<tasks, goals, drafts, undos>>

\* Undo, under the revision of the change and in its chat.
PressesUndo ==
    \E s \in Surfaces :
      /\ undos[s] # NoUndo /\ undos[s].room = goals.room
      /\ Orders([by |-> s, action |-> "undo", ops |-> undos[s].ops, revision |-> undos[s].revision,
                 room |-> undos[s].room, before |-> undos[s].before, of |-> undos[s].of])
      /\ UNCHANGED <<tasks, goals, drafts, undos>>

\* beginEdit: a draft that was left is shown again, as it was left.
OpensEditor ==
    /\ presses > 0 /\ presses' = presses - 1
    /\ IF drafts = NoDraft
       THEN /\ goals.goal.status # "deleted"
            /\ \E v \in [words : Words, target : 0 .. MaxCount, count : 0 .. MaxCount] :
                 /\ goals.goal.status # "open" => v.count = goals.goal.count
                 /\ drafts' = [open |-> TRUE, shown |-> TRUE, task |-> goals.goal, values |-> v,
                               revision |-> goals.revision, room |-> goals.room,
                               saving |-> FALSE, conflict |-> FALSE, kept |-> TRUE]
       ELSE ~drafts.shown /\ drafts' = [drafts EXCEPT !.shown = TRUE]
    /\ UNCHANGED <<tasks, goals, undos, order>>

\* Cancel or Load current details, even while the draft is being saved; or another goal is
\* selected, which keeps a draft that is still in the map.
LeavesEditor ==
    /\ drafts # NoDraft /\ drafts.shown
    /\ \/ drafts' = NoDraft
       \/ drafts' = IF drafts.kept THEN [drafts EXCEPT !.shown = FALSE] ELSE NoDraft
    /\ UNCHANGED <<tasks, goals, undos, order, presses>>

\* Save: nothing is sent when the form is refused, the chat is another one or nothing changed.
SavesEdit ==
    /\ drafts # NoDraft /\ drafts.shown /\ ~drafts.saving
    /\ drafts.room = goals.room /\ FormIsValid(drafts.task, drafts.values)
    /\ LET ops == EditOperations(drafts.task, drafts.values) IN
       IF ops = << >> THEN drafts' = NoDraft /\ UNCHANGED <<order, presses>>
       ELSE /\ Orders([by |-> "editor", ops |-> ops, revision |-> drafts.revision,
                       room |-> drafts.room, before |-> drafts.task])
            /\ drafts' = [drafts EXCEPT !.saving = TRUE, !.conflict = FALSE]
    /\ UNCHANGED <<tasks, goals, undos>>

-----------------------------------------------------------------------------
(* The service, and what comes back. *)

Served(c) ==
    IF Fits(tasks, c) /\ Batch(tasks, c.ops).ok
    THEN [tasks EXCEPT !.goal = Batch(tasks, c.ops).goal, !.focus = Batch(tasks, c.ops).focus,
                       !.revision = @ + 1]
    ELSE tasks

\* The notice after a change that was saved: Undo when there is something to undo.
NoticeAfter(c, ok) ==
    IF c.by = "editor" THEN [undos EXCEPT !["goals"] = IF ok THEN NoUndo ELSE @]
    ELSE IF ~ok \/ c.action = "undo" THEN [undos EXCEPT ![c.by] = NoUndo]
    ELSE [undos EXCEPT ![c.by] =
            IF UndoOperations(c.before.goal, c.action, c.before.focus) = << >> THEN NoUndo
            ELSE [of |-> c.action, revision |-> tasks'.revision, room |-> c.room,
                  ops |-> UndoOperations(c.before.goal, c.action, c.before.focus),
                  before |-> c.before]]

\* A saved edit takes its draft along, and out of the map the one opened since; an edit
\* that was refused keeps it and, for a conflict, offers Load current details.
DraftAfter(c, ok, conflict) ==
    IF c.by # "editor" \/ drafts = NoDraft THEN drafts
    ELSE IF ~drafts.saving THEN [drafts EXCEPT !.kept = @ /\ ~ok]
    ELSE IF ok THEN NoDraft
    ELSE [drafts EXCEPT !.saving = FALSE, !.conflict = conflict]

OrderSettles ==
    /\ order # NoOrder /\ order' = NoOrder
    /\ \/ /\ tasks' = Served(order)
          /\ LET ok == tasks' # tasks IN
             /\ goals' = IF ok THEN tasks' ELSE goals
             /\ undos' = NoticeAfter(order, ok)
             /\ drafts' = DraftAfter(order, ok, ~Fits(tasks, order))
          /\ UNCHANGED presses
       \/ \* no answer: applied or not
          /\ presses > 0 /\ presses' = presses - 1
          /\ \/ tasks' = Served(order)
             \/ UNCHANGED tasks
          /\ undos' = NoticeAfter(order, FALSE) /\ drafts' = DraftAfter(order, FALSE, FALSE)
          /\ UNCHANGED goals

\* A reply or another window changes the goal, or the chat is switched.
OtherOperations ==
    {Op("complete"), Op("reopen"), Focus("elsewhere")}
      \cup {Edit(w, t) : w \in Words, t \in 0 .. MaxCount}
      \cup {Progress(n) : n \in 0 .. MaxCount}
OthersEdit ==
    /\ presses > 0 /\ presses' = presses - 1
    /\ \/ \E o \in OtherOperations :
            /\ Permitted(tasks.goal, o)
            /\ tasks' = [tasks EXCEPT !.goal = GoalAfter(@, o),
                                      !.focus = FocusAfter(tasks.goal, tasks.focus, o),
                                      !.revision = @ + 1]
       \/ \E r \in GoalRooms \ {tasks.room} : tasks' = [tasks EXCEPT !.room = r]
    /\ UNCHANGED <<goals, drafts, undos, order>>

\* A poll; Home takes its Undo away once the revision or the chat is another one.
SnapshotArrives ==
    /\ order = NoOrder /\ goals # tasks
    /\ goals' = tasks
    /\ undos' = [undos EXCEPT !["home"] =
                   IF undos["home"] # NoUndo
                   THEN (IF undos["home"].revision # tasks.revision \/ tasks.room # goals.room
                         THEN NoUndo ELSE @)
                   ELSE @]
    /\ UNCHANGED <<tasks, drafts, order, presses>>

GoalsNext ==
    \/ PressesAction \/ PressesUndo \/ OpensEditor \/ LeavesEditor \/ SavesEdit
    \/ OrderSettles \/ OthersEdit \/ SnapshotArrives

GoalsSpec == GoalsInit /\ [][GoalsNext]_goalVars

-----------------------------------------------------------------------------
(* Properties. *)

Undoes == OrderSettles /\ tasks' # tasks /\ order.by \in Surfaces /\ order.action = "undo"
UndoIsExact == tasks'.goal = order.before.goal /\ tasks'.focus = order.before.focus

\* Direct controls overwrite nothing that was changed since: an edit is saved only on the
\* goal it was opened on, whoever changed it and however long the draft was left, and an
\* Undo of a completion, a cancellation, a deletion or a change of focus brings the
\* status, the progress, the words and the focus back exactly.
NothingIsOverwritten ==
    /\ OrderSettles /\ tasks' # tasks /\ order.by = "editor" => tasks.goal = order.before
    /\ Undoes /\ order.of # "reopen" => UndoIsExact

\* "Change undone." (item-controls.js:47), said of every action.
UndoRestores == [][Undoes => UndoIsExact]_goalVars
=============================================================================
