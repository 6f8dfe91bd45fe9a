# A TLA+ model of the felis service

This directory holds a formal model of the parts of this repository that decide
what the person is told and what is saved. The service (`src/app`) is a
single-process asyncio server with a private JSON journal; it starts *native*
processes (Hermes, with its own conversation database) for every model call, and
is used by a web client (`src/web`) inside an Electron shell (`src/desktop`).

Everything below was written from the source. Where the model leaves something
out, the section "Abstractions and limits" says so.

## Inventory

| component | state it keeps | operations | what is hard | what makes it correct |
|---|---|---|---|---|
| human turn, `chat_service.py` `LocalChat` | `meta` in memory, the task of the turn, `error`, `blocked` | `send`, `serial_human_turn`, `run_turn`, `stage_publication`, `recover_publication`, `publish_staged_reply`, `control_tasks`, `initialize`, `close` | awaits between reading and using `meta`; a write that fails; a kill between two writes; a stop anywhere | a published reply says what happened, nothing is applied twice, nothing decided is lost |
| private journal, `persistence.py` | one JSON file | `write_private`, `load_private` | a write can fail before or after the file is replaced | memory and file never disagree about what was said |
| native driver, `human_driver.py` | the rows of a conversation | store the message, store the proposal, tag it, finalize it | a process may outlive the service that started it | exactly one user row and one proposal per request |
| task transactions, `tasks.py` | goals, `revision`, `applied_requests`, `receipts` | `apply_operations`, `apply_control` | a proposal based on an old revision, a repeated request | at most once, on the list the model saw |
| source turns and stop, `briefing.py` | the turn's `source_used` mark, the current `SourceTurn` | `SourceTurn.read`, `cancel`, `sources_changed` | the mark must be durable before the data is used | a turn that has read a source changes no task |
| check-ins, `proactive.py` | events, human epoch, cooldowns | `maybe_decide`, `decide`, `recover`, `wait`, preemption | authority lapses during inference; a kill around the native append | a check-in is delivered at most once and only while it is still wanted |
| automatic returns, `return_loop.py` | return events | `request`, `decide`, `invalidate`, `recover` | retries and trimming of old events | at most one return per session, day and reason |
| activity ledger, `activity_ledger.py` | sessions, observed time | observe, correct, delete | gaps, day boundaries, restarts | observed intervals do not overlap and are not counted twice |
| onboarding, `onboarding.py`, `web/onboarding` | staged setup, receipts; what is shown | stage, answer, accept | lost, late and repeated answers while the conversation changes the proposal | the goal under the card is saved as it was shown, the rest as proposed with it; the goal is started once |
| chat catalog, `chat_catalog.py` | chats, the selected chat | create, switch, import | an export is awaited in the middle of a switch | global state that moved meanwhile survives |
| context and compaction, `chat_context.py` | compaction status | compact | compaction inside a turn | the turn's identity survives a new native session id |
| adaptive context, `context_service.py`, `context_store.py`, `web/adaptive` | policy and its revision, generation, stored events | change the policy, capture, analyse, delete | every surface sends the whole policy it was shown, some without its revision; commands wait for each other; late results | a change changes what it was given for; nothing is accepted under a policy that has gone |
| connections, capabilities, calendar, mail: `connections.py`, `capabilities.py`, `google_*.py`, `web/connections`, `web/capabilities` | lists with a revision, tokens; panels with what they were last shown | connect, choose, refresh, disconnect, enable | a read and a command cross, a sign-in is polled, other windows | a panel never goes back; no choice is lost; a disconnect is final |
| client, `web/chat/client.js` | snapshot, an outbox per chat, requests in flight | poll, send, retry, switch, control commands | lost and late answers, reloads, aborted polls | nothing typed is lost, nothing sent twice, the page comes to show the state |
| live updates, `update-queue.js`, `live-updates.js` | seen, dismissed and waiting updates, the card | enqueue, present, cover, dismiss, expire | one message arriving three ways, in any order; covers and reloads | shown once, never lost, never after it was dismissed |
| chat library, context and workflow panels, `library.js`, `context.js`, `workflow-progress.js` | catalog, measurements, receipts of runs | read, command, dismiss | answers that cross; optional numbers; many chats | the newest catalog; a breakdown that adds up; dismissed runs stay away |
| direct controls, `item-controls.js`, `goals/editor.js` | open editors, undo notices | menus, save, undo | changes by the conversation and other windows meanwhile | nothing is overwritten; an Undo brings back what was there |
| speech, `web/speech` | generations, tracks, utterances | start, stop, cancel, speak | asynchronous calls that overlap | a cancelled recording leaves no words |
| source setup, `web/activity/setup*.js`, `connect.js` | what was seen of a source, a bounded monitor | check, connect, resume, hide | visibility, time, failures | the monitor goes on while it should |
| browser activity, `activity/extension`, `web/activity/session.js`, `bridge.js` | grant, exclusions, ports, policies, leases | connect, retry, sample, exclude, revoke | Chrome tells of changes later than they happen; ports die; the service awaits between checking an observation and using it | nothing leaves a page that is not allowed |
| supervisor, `backend-supervisor.cjs` | the child process, `startPromise`, `stopPromise` | start, attach, stop | a stop during a start, exits, error events, children that ignore signals | no child is lost; a stop is final |
| desktop shell, `main.cjs`, `notifications.cjs`, `overlay.js` | windows, startup, notification policies | open, reconnect, quit, announce | a quit during a start; dialogs that wait; focus while an overlay loads | quitting ends; a check-in is announced once |

The conversation routes (`http_api/conversations.py`) call `LocalChat` under its
lock; the check-ins, the returns and the turn share one *native lock*, and a
message from the person preempts the other two; `Briefing` cancels the turn's
task; every component saves by writing the *whole* journal from memory. The last
fact matters most below: whatever memory holds, any write makes durable.
The parts around the service meet each other only through it: a page, the extension
and the desktop application each hold a copy of some of its state, change it with
commands that name the revision they were given on, and live with answers that
are late, lost or crossed.

## Modules

| module | what it is |
|---|---|
| `ChatTurn` | the turn, the journal, the native process and the routes, as one state machine |
| `TurnPromise` | the abstract specification: what is promised about the durable list and the visible replies |
| `Outreach` | check-ins and automatic returns, and everything that shares the native lock, the chat lock and the journal with them |
| `Supervisor`, `DesktopLife` | starting, attaching to and stopping the service; the life of the application over it (`DesktopLife` EXTENDS `Supervisor`) |
| `CheckInSurface` | announcing check-ins: the poll, the two notification policies, alerts and overlay |
| `NativeBridge`, `ExtensionPopup`, `ActivityLink` | the extension's worker, its popup, and the older port of the page |
| `HomeClient` | the connection of the page to the service: polls, outbox, commands |
| `LiveUpdates` | the update queue and its card |
| `ChatLibrary`, `ContextPanel`, `WorkflowPanel` | the chat list, the context window, the card of a source run |
| `ConnectionsPanel`, `CapabilitiesPanel`, `CalendarPanel`, `MailSources` | the panels of connections, capabilities, calendar and mail |
| `SourceSetup`, `Onboarding`, `Permissions` | the source cards with their monitor, the guided setup, the policy and the surfaces that change it |
| `SpeechControls` | recording, transcription, reading aloud |
| `GoalControls` | menus, editor and Undo of one goal, with the service's transaction |
| `Lists` | a filter and a sum as recursive functions, for the modules that are reasoned about |
| `MCChatTurn`, `MCOutreach` | what the small instances need beside their modules |
| `MCEnds` | what must end: `Outreach`, `Supervisor` and `DesktopLife` in one instance |
| `MCClients` | the other modules around the service in one instance |
| `ChatTurnProofs` | theorems of `ChatTurn`; that it runs a request once and implements `TurnPromise` |
| `OutreachProofs` | theorems of `Outreach` |
| `EndsProofs` | theorems of `Supervisor`, `DesktopLife` and `MCEnds` |
| `HomeClientProofs`, `LiveUpdatesProofs`, `PartsProofs`, `CommandsProofs` | invariants of the parts around the service, each for itself: the page's connection; its updates, and lemmas on lists; what else runs on its own; what the person commands |
| `ClientsProofs` | carries these to `MCClients` and proves its properties from them |

### ChatTurn and the code

| variable | in the code |
|---|---|
| `text` | what the message of each request says: two messages may say the same |
| `up` | the process runs; `Start` is `LocalChat.__init__` and the beginning of `initialize` |
| `mem` | the fields of `self.meta` the turn decides with: `pending`, `request_id`, `pending_turn` (request, base revision, `source_used`), `pending_publication`, the display receipt `pending_message`, `accepted_requests`, and the task list |
| `disk` | the same fields in the journal file |
| `seen` | how many rows the last read of the history found (`self.messages`): where a new receipt starts to look |
| `current` | the request whose source turn is open (`Briefing.current`): what a stop names |
| `native` | the user and assistant rows of the Hermes conversation with their metadata: request id, base revision, disposition |
| `proc` | for each request, how far its native process has got |
| `job`, `pc` | which coroutine is between two awaits, and at which one |
| `plan` | the list `control_tasks` computes before it awaits |
| `error`, `blocked` | the attributes of those names |
| `acked`, `sourced`, `stopped` | history: what callers were told, whose model saw source data, whose turn was stopped |

The task list is the sequence of requests whose batch was applied: `revision` is
its length (each applied batch adds one) and `applied_requests` its elements.

A step of the model runs from one await to the next, or to a journal write if
there is one: this is where the single-threaded event loop can be left, and where
a kill can separate two effects. Each write has three outcomes, read off
`write_private`: done; failed with the old file in place; failed at the
directory sync with the *new* file in place. `Commit` (`commit_meta`) changes
memory only after a success. `InPlace` is `save_meta` after an assignment into
`self.meta`: memory has changed whatever becomes of the write.

| step | code |
|---|---|
| `Send`, `SendRetry`, `SendConfigFails` | `send` |
| `OpenSources`, `Launch`, `WaitFails`, `LaunchFails` | `serial_human_turn` and the beginning of `run_turn`, with its await of `briefing.open()` |
| `StoreUser`, `StoreProposal`, `TagProposal`, `ProcessDies` | `run_human` in the native process |
| `ReadSource` | `SourceTurn.read` |
| `InferenceEnds`, `InferenceFails`, `InferenceAborts` | the end of the native process in `run_turn` |
| `Refresh`, `RefreshFails` | `refresh`, with `reconcile_pending` |
| `OthersRefresh` | the same, by a check-in, a return or a summary |
| `StageReceipt`, `RecoverStage`, `RecoverNothing`, `SourceCheckFails`, `DropSourceTurn` | `stage_publication`, `recover_publication`, `finish_source_turn` |
| `FinalizeSucceeds`, `FinalizeFails`, `ClearReceipt` | `publish_staged_reply` and `finalize_response` |
| `FinishTurn`, `Recover`, `FinishRecover`, `FinishBoot` | the recovery route; the ends of `run_turn`, of the recovery route and of `initialize` |
| `StopUnopened`, `Stop`, `RefreshStopped`, `StopWhileClosing` | `Briefing.cancel` while the bridge opens, later, and in the cancellation handler of `run_turn` |
| `ControlPlan`, `ControlCommit`, `ControlRetry` | `control_tasks` |
| `SaveMeta` | any other component writing the journal |
| `Crash`, `Shutdown`, `Start` | a kill, `LocalChat.close`, a start |

`PROJECT.json` gives the exact lines of every definition.

### Outreach and the code

`Outreach` is the other half of the service: what it says without being asked.
Its two loops are the same machine with a few differences (a return opens a
source bridge, saves in `invalidate`, and does not save when its row is
recorded), so most actions take the loop `l` as a parameter. Of the turn it keeps
what the loops can tell: that it preempts them, waits for them, takes the
native lock, replaces the journal and ends.

| variable | in the code |
|---|---|
| `mem`, `disk` | `accountability` (events, `human_epoch`), `return_briefing` (events), the task revision, and whether a turn or a publication is pending (`unresolved`) |
| `task[l]` | `event_task` / `ReturnLoop.task`: the await where it is, a cancellation on its way, `publishing`, what it was begun with, and whether its observation, lease, day and sources are still those (`wanted`) |
| `task[l].attached` | the task's `event` is the one in `self.meta`, not one that `commit_meta` replaced |
| `lock` | `chat.native_lock` |
| `human` | `LocalChat.task`: a turn or a summary, and what it waits for |
| `route` | a request that keeps `chat.lock` over awaits, or the start of the service |
| `rows` | native rows of check-ins and returns; `kept` is history: the row's event could be recorded |
| `made` | ids handed out (`uuid4` in the code) |

| step | code |
|---|---|
| `Begin` | `maybe_decide`, `admit`; `request`, `_can_begin` |
| `Start`, `Opens`, `Acquire`, `TimesOut`, `Killed`, `Fails`, `StaysQuiet`, `Accept`, `Refreshes`, `RefreshFails`, `Closes` | `decide` of either loop, await by await |
| `Appends`, `AppendFails`, `Records` | `publish_check_in`, `publish_return` and what follows without an await: only a kill can come in between |
| `Cancelled` | the `CancelledError` handler, at each await |
| `Send`, `Compress`, `HumanWaits`, `HumanLocks`, `HumanCommits`, `HumanEnds` | `send`, `compress_context`, `serial_human_turn`, `run_compaction`, the commits and the end of a turn |
| `RouteBegins`, `SetupBegins`, `RouteWaits`, `RouteLocks`, `ControlCommits`, `SwitchCommits`, `RouteFails`, `Rename` | `control_tasks`, `control_activity_records`, `control_onboarding`, `control_catalog` |
| `RecoverBegins`, `RecoverStages`, `RecoverClears`, `RecoverEnds` | the recovery route and `initialize`: `recover_publication`, then `recover_publications` of both loops |
| `ContextChanges`, `Lapses` | withdrawn permission that the loops hear of, and a lapse they do not |
| `SaveMeta`, `Crash`, `StartService` | any other save, a kill, a start |

A shutdown (`LocalChat.close`) cancels the tasks, waits for them and exits:
`ContextChanges`, the ends of the tasks, `Crash`.

### The desktop application

`Supervisor` has one variable for the closure of `createBackendSupervisor`
(`sup`: child, phase, at which await `start` and `stop` are, the answer of the probe, the
signal `stopOwnedChild` waits on) and two for the operating system: its
processes (`proc`) and who else listens on the port (`other`). What settling a promise runs in the same
turn of the event loop is one step, so operators take a state of `sup` to the set
of possible next ones (`Begun`, `StartEnds`, `StopEnds`, `StopsOwned`, `CleansUp`).
`CallStart` and `CallStop` are any caller; `Exits(i)` is the exit event and whoever awaits it;
`TimesOut` the limits of `stopOwnedChild`. `ChildErrors(i)` is the `error` event of a process that runs
(a signal that could not be sent, for one): the watcher forgets the child and whoever awaits its end fails,
although the process goes on. The test of the supervisor expects this (`ownsChild: false`), so `Owes(i)`, a
process the supervisor must answer for, leaves out those in `sup.errored`. `DesktopLife` adds `life`: where
`openWorkspace` and the quit are, with the dialogs that are open. Its actions are
`openWorkspace` with its retry (`OpenWorkspace`, `StartReturns`, `Loads`, `DialogAnswered`),
the menu item (`Reconnect`) and the quit (`BeforeQuit`, `StopReturns`, `BoxClosed`, `Exit`). The error box of a
stop that failed is synchronous: while it is open the supervisor does not run (`Running`).
`CheckInSurface` is about one policy per behaviour (`kind`): `pol` and `saved` are
what it remembers and what it has on disk, `over`, `loads` and `alerts` what is on screen;
`PollInspects` is `inspect` of `notifications.cjs` with what `pollCheckIns` does with it.

### The page and the extension

Every module has the state of its component in one record or a few, the part of
the service it talks to as a variable of its own, and the requests in flight:
an action sends (`PressesAction`, `Posts...`), another is the service taking it
(`...Serves`), a third the answer reaching the page (`...Settles`), so
answers can cross, come late or be lost. Other windows and the person's
conversation change the service's variable at any time. What the panel shows and offers is
an operator of its state (`Offers`, `Drawn`, `Offered`, `MailOffers`), the
translation of its render function down to which controls are enabled; the
actions of the person take only what is offered. `PROJECT.json` has the lines of each definition.

Where the service decides something, its side is translated from `src/app` too: the revisions and conflicts
of `connections.py`, `capabilities.py` and `chat_catalog.py`; sign-ins that end, fail or expire and the worker of
`google_calendar.py` and `google_mail.py`; the record, the receipts and the commands of `onboarding.py`; the policy of
`context_service.py`; the lease and `observe` of `proactive.py`. Four of these need a word:

* `ActivityLink`: what the page asks of the service are its `posts` (`Post`, `Hears`). `observe` of
  `proactive.py` is two steps, `Checks` and `Takes`: it checks the lease and the request and closes the request, awaits
  which application is in front, and then looks for a lease again, but not for whose. An observation asked
  for under one lease can so become context under the next; `TakenIsCurrent` says what is left, that it does so at most
  once and only while some lease is active. A connection that ends while it is allowed runs the status callback of
  `enable` (`Ended`), and the page posts a pause (`EndIsPosted`), which `activityControl` refuses while a message is sent.
* `Permissions`: `change` is the command that runs and `waiting` the one behind it (`adaptiveQueue` of `client.js`). A command
  of the panel carries the revision of the policy it copied; one of the Chrome card or of Home gets its revision when it
  starts to run (`Started`), so `shown`, what it copied, may be older than `revision`. The service changes flags without a new
  revision when it cannot read its memory (`ServiceChanges`, kept in `own`).
* `Onboarding`: a proposal is the goal of the card and the `rest`. The card renders the focus or the first goal; an
  approval saves all of them.
* `CalendarPanel`, `MailSources`: the service of each is a state machine of its own, beside the panel. A
  disconnect that the keychain refuses leaves the calendar paused; an answer may be lost with the command applied.

### TurnPromise

The promise has four variables: the durable `list`, the saved `receipt` of a
reply that is decided and not known to be public, the outcomes that `public`
replies state, and the edits whose caller was `told` they are saved. Its steps
say that a change and the receipt of its reply become durable together
(`Decide`); that a reply is published only from its receipt, with the outcome
decided there, and once (`Publish`); that a receipt whose removal was lost
may come back only with the outcome already published (`Remember`); and that a
change may disappear only if nothing was ever said about it (`Standing`) - it
was written by a call that reported a failure, and memory never had it.
`ChatTurn` implements it under the mapping `list <- disk.tasks`,
`receipt <- disk.pub`, `public <-` the dispositions on the rows tagged with a
request, `told <-` the acknowledged direct edits (`PromiseKept`).

## Model checking

| run | instance | what it asks |
|---|---|---|
| `chat_turn` | two messages with different texts, one failed write, one stop of the service, no direct edits; or two messages with the same text, without faults, in a journal that remembers one accepted id | is a published "committed" always backed by the file; does a turn that saw source data never commit; can every decided change of an unstopped turn still be published; does a remembered request id start the model once, and does an id that was forgotten, and so accepted again, change the list once; are the words of the latest message always on screen; is an unresolved turn always shown, once its process may have run |
| `chat_turn_promise` | one message, two direct edits, one failed write, two stops, surviving native processes | does the code implement `TurnPromise`; was every batch applied to the list its model saw; does an acknowledged edit stay; does every turn end |
| `outreach` | two requests for a return with one key or two, or two check-ins; one message, every route, one change of the list outside a turn, one failed write, one kill | is a return given twice; is a check-in or a return said only while nothing has moved on since it was decided; does what was said stay in the conversation; does recovery take for said what was not |
| `ends` | one check-in and one return together, against a message, a summary, direct edits, setup, chat switches and renames, no failures; or the supervisor with two processes, called in any order; or the desktop application over it | does every turn begin and every route end, whatever they preempted; does every start settle; does every quit exit, unless it waits for a page or a person; is a running child always owned (but for its own error event), does a resolved stop leave nothing running, and an exit nothing unless it was opened again |
| `clients` | one behaviour for each of eighteen modules around the service, with two chats, conversations or sites and one or two items each | the fifteen properties below |
| `acked_not_durable` | one message, one failed write | violation, see findings |
| `stop_drops_receipt` | one message, a stop | violation |
| `orphan_mixing` | two messages, one kill after which the native process lives on | violation |
| `accepted_is_durable` | one check-in, every route | violation |
| `failed_was_not_said` | one check-in | violation |
| `undo_restores` | one goal, four gestures or outside changes | violation |
| `quit_stops_backend` | the desktop application, two processes | violation |

| property of `clients` | what it asks |
|---|---|
| `CheckInsSurfaceOnce` | no check-in is announced twice by a policy, whatever is not saved, switched or restarted; history is never announced; nothing lies over the focused window; turned-off alerts are gone |
| `ActivityStaysAllowed` | what was read from a page leaves only if no change of policy, grant, port, lease or exclusion the code was told of came since it was asked for; the page passes it on only for the request and connection there are now; the service takes the answer to a request at most once, while a lease is active |
| `WatchesGoOn` | no retry, refresh, poll or monitor that should go on stops for ever, and none runs twice |
| `DraftKept`, `SentOnce` | what was typed goes only for something newer or once it is accepted; the service takes a text once, through lost answers, reloads and late requests |
| `ShowsTheService` | once everything is calm the page comes to show the service's state |
| `AnnouncedOnce`, `NothingIsLost` | an update that was dismissed, timed out, read, withdrawn or there before is not announced again, and none is taken as seen before it was presented, for any order of rows, frames and covers |
| `PanelsNeverGoBack` | the chat list, connections, mail and capabilities never show an older state after a newer one, and a command is decided on what was on screen |
| `SavedAsShown` | the goal under the card is saved as it was shown at the approval and the goals the card does not show as they were proposed with it; the calendars that are saved were listed, and no answer unticks one |
| `OnlyTheAskedChanges` | a policy command under the revision it was given on changes only what its gesture was about, apart from flags the service changed itself; an edit is saved only on the goal it was opened on; an Undo (but of reopening, see findings) restores exactly |
| `DismissedStaysAway`, `BreakdownFits`, `VoiceFollowsThePerson` | dismissed runs do not return; the breakdown of the window adds up for every measurement; a cancelled recording leaves no words and the voice is what it is shown to be |
| `ClientsTypeOK` | the types |

The components in `ends` and `clients` share no state, so a behaviour of these
instances is about one of them (`part`), with the variables of the others set to
`Off`; nothing is lost by it, since in the code they meet only in the service,
which each module has as its own environment.

Bounds. A second message is what is needed for the turn's state to be reused and
for the accepted window to overflow at `AcceptedCap = 1` (100 in the code; `MCChatTurn` chooses it together with no faults
and with messages of one text, the case in which the receipt of the second is dropped for the row of the first). The one
failed write can be any write of the instance, and a stop of the service can come before or after it;
two stops, in `chat_turn_promise`, let a recovery be interrupted and recovered again. `MaxRows` only
stops *new* messages when history has that many rows; three rows let a
first message with its answer be followed by a second with its own.
Resending a forgotten id is the only thing the second part of `chat_turn` adds, so it
leaves faults and stops out. In the runs of two messages native processes end
with the service (`OrphanSurvives = FALSE`): what a survivor does to another
turn is the finding of `orphan_mixing`.
In `Outreach` two events per loop let one be trimmed, recovered or repeated while
the other is under way; `KeepEvents = 1` stands for 100. `SaidOnce` depends on that
window: a return that was said and whose read-back then failed is `failed_quiet`,
which later returns may trim, and its key is then free again. With three returns at
`KeepEvents = 1` TLC shows it; in the code it takes a hundred later returns in one
session on one day, so the instance has two. The failed write and the
kill are in `outreach`, with one loop in a behaviour, where they matter; both loops together, which
is what waiting is about, run in `ends` without. `MaxRev = 1` lets a recovery change the list
without a message; otherwise the revision moves only with the human epoch.
In `clients` two of everything lets one be old, closed or elsewhere while the other is
new; the bounds on gestures, outside changes and lost answers (`Max...` and the
budgets, in the comments of each module) are the least at which every mutant of
the module is found. A budget record trades one kind of event for another, because
all at once is too much: in `HomeClient` lost answers come with one text, two requests of a kind
in flight without losses. `Attempts = 2` stands for 120 probes, `RetryLimit = 2`,
`SeenCap = 3`, `QueueCap = 1` and `DismissalCap = 1` for the caps of the code; the alerts,
which differ from the overlay only in being switched on and off, have one check-in, and only they
(`Unreadable`) may find at a restart that their file cannot be read, which is treated alike for both.
Deadlock is checked wherever the service is part of the instance: it can always be started or asked
something. In `ends`, `clients`, `undo_restores` and `quit_stops_backend` a behaviour may
stop: the application exits, or a budget is used up.

Fairness. `FairSpec` assumes weak fairness of `JobStep`: what the event loop
does by itself once a job has begun. It does not assume that a native process
makes progress. The code justifies it with a limit on each await of a turn:
210 s for the inference, 30 s for the read-back and the finalize helper, and
`stop_child`, which sends SIGTERM and after 5 s SIGKILL. Callers, the native
process and the machine get no fairness.

In `Outreach` it assumes weak fairness of each loop's task (`TaskStep`), of the
turn (`HumanStep`) and of the requests that wait (`RouteStep`). The tasks have
limits of 120 s and 180 s and `stop_child`; `asyncio.Lock` serves in the order of
arrival, and while a turn or a direct edit waits no new task is admitted. A recovery may wait
behind a check-in that is admitted meanwhile; there are finitely many in an
instance and one per cooldown in the code. Nothing is assumed of `Cancelled`
beyond being one of the task's steps, nor of the start of the service.

The supervisor is fair in its own continuations (`SupStep`: probes with their 1.2 s
limit, polls, and the limits on both signals), and so is the application in
what `start` and `stop` settle (`StartReturns`, `StopReturns`) and in the exit that
follows. The processes, the port, the page and the person get none: a child may
ignore SIGKILL, `loadURL` is awaited without a limit (`Loads` is not fair), and a person may leave the
error dialog or the error box of a failed stop open. `QuitEnds` therefore ends at those three too: what it
says is that nothing else keeps the application from exiting. `HomeClient` assumes weak fairness of its due timer
(`TimerFires`), of an answer that has arrived or timed out (`Settles`, the request has an
abort limit) and of the service answering what it was asked (`Serves`); `ShowsTheService` is asked only
once nothing else happens any more (`Calm`). No other part of `clients` is assumed to go on: that
something is due is an invariant (`WatchesGoOn`).

### Findings

* `acked_not_durable`: `send` records the turn in `self.meta` and then writes.
  If the write fails the caller gets an error, but the id stays in the accepted
  list in memory: a retry is answered as accepted although no turn runs and the
  file does not have it. `docs/architecture.md` says that a failed write must
  leave the prior durable state authoritative.
* `stop_drops_receipt`: a stop that lands after the commit of a change and before
  the publication of its reply forgets the receipt. The change is saved and no
  reply ever says so, while `docs/security.md` has every committed reply
  recoverable from its receipt. `UnstoppedIsRecoverable` is what remains true.
* `orphan_mixing`: a native process that survives a kill and the process of the
  next turn write into one conversation, and the answer is recognised as the
  last assistant row. A batch can be applied that another request's model wrote.
* `accepted_is_durable`: `commit_meta` replaces the whole journal by a copy. A
  rename does that while a check-in infers, and so does a recovered turn to a
  check-in that waits for the lock. The task goes on in its old event record: its acceptance never
  reaches the file, the row is stored, and after a restart the event is stale and
  the conversation hides a message the person has seen. `SaidIsKept` is what
  holds of rows whose event was not replaced.
* `failed_was_not_said`: after the row of a check-in is stored, a failed write or a
  failed read-back goes to the handler that sets `failed_quiet` and reports
  "No check-in was delivered".

* `undo_restores`: the Undo of reopening a goal completes it again, and completing fills
  `completed_count` up to the target. A goal that was given a target after it was completed comes
  back as full, while the notice says "Change undone.". All other Undos are exact
  (`OnlyTheAskedChanges`).
* `quit_stops_backend`: while the application quits, "Reconnect to workspace" is still
  enabled; `supervisor.start` waits behind the stop and then starts a service, and the
  application exits with it running, while `desktop/electron/README.md` has Quit stop
  what the process started. `ExitIsClean` is what remains true.

## Proofs

The theorems hold for every value of the constants that the named `ASSUME`s allow; none
needs a constant to be small, or a set of messages, sites, texts or processes to be finite, unless
a hypothesis below says so. TLC checks each property on the small instances of the runs as well.

### The turn: `ChatTurnProofs`

| theorem | statement |
|---|---|
| `TypeCorrect` | `Spec => []TypeOK` |
| `PublishedDurable` | `Spec => []PublishedIsDurable` |
| `AppliedAtMostOnce` | `Spec => []AppliedOnce` |
| `AckedControlDurable` | `Spec => []AckedControlStays` |
| `MessageStays` | `Spec => []MessageKept` |
| `UnresolvedShown` | `Spec => UnresolvedIsShown` |
| `Recoverability` | `NoOrphans` implies `Spec => []UnstoppedIsRecoverable` |
| `BatchAsProposed` | `NoOrphans` implies `Spec => []AppliedAsProposed` |
| `ModelRunsOnce` | `Remembered` implies `EitherSpec => []KnownIsRunOnce` |
| `SourceChangesNothing` | `Remembered` implies `EitherSpec => []SourceTurnNeverCommits` |
| `KeepsPromise` | `Spec /\ []OneWriter /\ [][Fresh]_vars => PromiseKept`: `ChatTurn` implements `TurnPromise` |
| `KeepsPromiseAlone` | `Remembered` and `NoOrphans` imply `Spec => PromiseKept` |

The assumptions are the two `ASSUME`s of `ChatTurn`: ids of messages and edits
differ from each other and from `NoReq`, and the bounds are naturals. Two hypotheses are
named where they are needed. `NoOrphans` says that no native process outlives the
service (`OrphanSurvives = FALSE`); without it `AppliedAsProposed` is false, which is what
`orphan_mixing` shows. `Remembered` says that no more ids are sent than the journal
remembers (`AcceptedCap`, 100 in the code, per session): an older id that comes again is run again,
which is the limit the code sets itself.

The code gives every native process a session of its own, so after a kill there may be orphans, and `KeepsPromise`
allows them: what it excludes is two processes that *write at once* (`OneWriter`: an orphan is done, with its answer tagged
or itself dead, before the next turn starts its own), and that a message is accepted again whose process has run
(`Fresh`). The first cannot be dropped: an orphan that still writes is what `orphan_mixing` shows.
`OneAtATime` and `KnownIsNotAccepted` derive the two from `NoOrphans` and `Remembered`,
which gives `KeepsPromiseAlone`, whose hypotheses are about constants only. TLC checks `PromiseKept` with orphans
(`chat_turn_promise`), in an instance of one message, where both hypotheses hold.

`MessageStays` and `UnresolvedShown` are as strong as the code. The service recognises a stored message by its
words, so a message that repeats an earlier one may lose its receipt before its own row is there, and then only the
words are on screen; `Reconciled` does so and `MessageKept` says so. A stop, or a failed wait, before
the bridge to the sources is open ends the turn unresolved and without an error (`StopUnopened`, `WaitFails`), so
`UnresolvedIsShown` begins after that, when the process may have run.

None of the first four is inductive. A row may be published as committed while the
change is in the file, but then memory is written over the file, or the service
restarts from it. So the invariant `IInv` calls what was *said* - the tags of the
rows published as committed, and the acknowledged edits - and says of **both**
journals that they contain everything said (`Sound(mem)`, `Sound(disk)`), that a
receipt saying "committed" is backed in the journal that holds it, that
neither list repeats a request, and that whatever memory has applied the file has
too (`Applied(mem) \subseteq Applied(disk)`). The last conjunct is why commit
before assignment matters: a list that was in memory only could be announced and
then lost. Two conjuncts tie the program counter to the data: at a publication
there is a receipt in memory (`TurnInv`), and between the two halves of a direct
edit the plan is the current list with one new request (`PlanInv`), although
the lock is held across an await.

The later theorems need more of the history. `TurnIInv` says where a turn is when
(`FlowInv`, `KindInv`) and which journals there can be: memory and file differ by at most one
failed write (`JournalInv`). `HistoryInv` adds what the native process of a request has written so far
and that rows of the transcript only gain, so that a batch found in the file can be traced to the answer it came
from (`ProcessInv`, `RowInv`, `PublicInv`). `RunInv` says that a request whose process has ever run is remembered
in the file, hence refused when it is sent again. The refinement is by steps: each
action of `ChatTurn` is a step of `TurnPromise` or leaves `proposed`, `durable` and `published`
alone, where `HistoryInv` supplies the guards of the abstract step.

### Check-ins and returns: `OutreachProofs`

| theorem | statement |
|---|---|
| `OutreachInvariant` | `Spec => []OutInv` |
| `OutreachTyped` | `Spec => []TypeOK` |
| `RowsAreKept` | `Spec => []SaidIsKept` |
| `NothingUnsaid` | `Spec => []DeliveredWasSaid` |
| `SpokenWhileWanted` | `Spec => SaidWhileWanted` |
| `NothingTwice` | `FewReturns` implies `Spec => []SaidOnce` |

`OutInv` is a table of where a task is and what it may hold there (`TaskInv`, `Alone`): who has
the native lock, whether its event is still the record the journal saves, whether it may have a row.
`AcceptInv` is the heart of `SpokenWhileWanted`: from the acceptance to the append nothing may have
moved, because both happen without an await. `RowInv` and `KeptInv` say of every row that its
event is public in both journals, so that neither a failed write nor a restart forgets what was said.
`NothingTwice` needs `KeyInv` (a key belongs to one event, and no row has another event's key) and
`FewReturns`: no more returns than the journal keeps beside the last one (100). With one more, the record
of a return that was said is dropped under way and its key may be asked for again on the same day.

### The desktop: `EndsProofs`

| theorem | statement |
|---|---|
| `SupervisorTyped`, `ChildNeverLost`, `StopLeavesNothing` | `SupSpec` implies `[]SupTypeOK`, `[]NoLostChild`, `StopIsFinal` |
| `ApplicationIsACaller` | `LifeSpec => SupSpec` |
| `LifeTyped` | `LifeSpec => []LifeTypeOK` |
| `ChildrenOwned`, `ExitsClean`, `StopsFinal` | `EndsSpec` implies `[]ChildrenAreOwned`, `[]ExitIsClean`, `StopsAreFinal` |
| `EndsTyped` | `EndsSpec => []EndsTypeOK` |

from the `ASSUME` of `Supervisor` (the bound is a natural, the probes are at least one) and, for
`EndsTyped`, from what `Outreach` assumes of its constants (`EndsAssumption`): it carries `OutInv`, the
invariant of `OutreachProofs`, to the behaviours of `MCEnds` that are about check-ins and returns. A running
process is the child because only `Spawns` makes one, and only where the probe
of `start` found no child: the invariant (`Consistent`) says that while `start` is at its probe there
is none that it owes (one given up by its error event may run on, in the code too), although
stops, exits and other starts may come in between, and that polls are left while it polls. One lemma for each operator says that it keeps the child and that a
stop which ends well ends without one (`Keeps`). The application is a caller like any other
(`ApplicationIsACaller`, a step simulation), so what holds of the supervisor holds under it; `LifeInv` adds that
its starts and its one stop are awaited (`StartIsAwaited`, `StopIsAQuit`), that a quit that is stopping
the service has it to itself unless the person reconnects (`QuitIsAlone`), and that from the
end of that stop to the exit nothing runs (`StoppedIsClean`).

### Around the service: `HomeClientProofs`, `LiveUpdatesProofs`, `PartsProofs`, `CommandsProofs`, `ClientsProofs`

| theorem (`ClientsSpec => ...`) | statement |
|---|---|
| `SentAtMostOnce` | `[]SentOnce` |
| `DraftsAreKept` | `DraftKept` |
| `WatchesGoingOn` | `[]WatchesGoOn` |
| `SharingStaysAllowed` | `ActivityStaysAllowed` |
| `VoiceFollows` | `[]VoiceFollowsThePerson` |
| `SavedWasShown` | `SavedAsShown` |
| `OnlyAsked` | `OnlyTheAskedChanges` |
| `PanelsOnlyGoOn` | `PanelsNeverGoBack` |
| `DismissalsHold` | `[]DismissedStaysAway` |
| `CheckInsOnce` | `CheckInsSurfaceOnce`, if `MaxEvents <= MaxSeen` |
| `BreakdownAddsUp` | `[]BreakdownFits` |
| `NothingAnnouncedTwice` | `AnnouncedOnce`, if there are no more updates than `SeenCap` |
| `NoUpdateGetsLost` | `NothingIsLost`, under the same hypothesis |

`MCClients` has eighteen parts in one specification. The invariant of a part is proved of its module alone
- `X Begins` from its `Init`, `X GoesOn` over its `Next` - and `ClientsProofs` carries it to `ClientsSpec`
(`HomeInvariant`, `NativeInvariant`, `SpeechInvariant` and so on): a behaviour is about one part, whose steps are the part's steps,
and in the others nothing happens. The invariants, and what they are needed for:

* `HomeInv`: a text belongs to one chat, being the draft there, or waiting there, or both; what waits is what
  was sent; every request the service may still take is one the page knows. A text sent again under a new
  request is the danger, and each retry, reload and late answer has to give up the old request first.
  Polling goes on because each lane that is busy will ask for the next poll when it settles.
* `NativeInv`: a worker without a port has a retry waiting or news that will bring one; a sample that is being read
  was allowed under the policy it carries. `LinkInv`: no request that was taken is open, and one answer to it at most is
  being checked, so that it cannot be taken again; numbers only grow. `PopupInv`: one refresh loop. `CalendarInv`: the
  order of revisions between service, answer and panel, and a poll or a request that makes one due.
  `SetupInv`: the states of the monitor.
* `PrivacyInv`, `GuideInv`, `GoalInv`: a revision stands for one policy (up to the flags the service changed by
  itself), one plan, one state of the goal. A command that copied the policy of the current revision was therefore given on the
  current content, wherever it waited; an approval that still applies is of the
  plan whose goal was shown; an Undo that still applies is of the very change that made its revision, and what it puts
  back is what that change took away (`UndoingIsExact`, from what each of the three operations of a batch does). The exception
  that `undo_restores` shows is a conjunct of the statement, not of the hypotheses.
* `LibraryInv`: a revision stands for one catalog, so the catalog a command was based on is the service's
  when the revisions agree. `CapabilitiesInv`: no read is under way during a change, and what is
  shown is no newer than the service: this is what stands in for a comparison of revisions, which
  that panel does not make. `ConnectionsInv`: a command was given on a list that was on screen; a panel that
  is open is of the item that is chosen. `MailInv` is about the shape of the state: the panel compares revisions
  itself. None of the four needs an assumption on a constant.
* `WorkflowInv`: the dismissed runs in memory are the last `DismissalCap` of all that the page knows dismissed, those in the
  storage the last of all that were stored; the run on the card is none of them, and one that was dismissed does not
  run again. Nothing is assumed of the storage: each save may fail.
* `SurfaceInv`: what was announced, or counts as history, is in every later poll of its conversation, and among the keys
  of the policy that watches the conversation. A restart reads the file or finds none, and then takes everything
  there is for history. The hypothesis of `CheckInsOnce` says that there are no more check-ins than keys are
  remembered (`MaxSeen`, 256 in the code); with one more, an old check-in may be announced again.
* `ContextInv`: the numbers shown are ones the service gave, naturals or unknown. That a breakdown adds up is then a lemma
  about sums (`TotalOfPositive`: leaving out the zeros leaves the sum), for lists of any length.
* `UpdInv`: an update that was shown (`MetInv`) is the one on the card, or seen by it, or, while it is still being
  written, among those that are gone; and what the card knows is stored in its conversation (`Stored`), so that it stays
  so when the page is loaded again or another conversation is opened. Both are needed at once: a reconciliation that
  trims, drops or presents an update has to leave each that was shown known, in memory and in the storage. An
  update is in one conversation only (`SaidInv`, `HomeOf`), so what another one stores does not matter. That nothing waits in vain
  is an argument on sets: whatever can come into the queue during one reconciliation is in a set no larger than the queue
  (`Room`), and a list of distinct members of a set is no longer than it. The hypothesis of the two
  theorems says that there are no more updates than keys are remembered (`SeenCap`, 200 in the code).
* `SpeechInv`: what a generation of the microphone has gone through, so that a transcript in flight of a generation that
  was cancelled is refused when it arrives; the known replies are a beginning of the replies.

The constants of `MCClients` are assumed to be naturals and sets as `ClientsAssumption` and the parts' own
assumptions say; chats, sites and rooms are not empty. The bounds the proofs use are naturals. `GoalControls` applies the operations of a batch one after
the other, at most three of them (`MaxOperations`, the longest batch the direct controls send), and not with a fold, so that
a step of it can be reasoned about. For the same reason filters and sums are `Only` and `Total` of
`Lists`, recursive functions: `Induct`, induction over the naturals, is proved from the library's theorem
that a well-founded relation has minimal elements (`WFMin`, on sets), and with it what `Only` keeps
(`OnlyFacts`), what `Total` adds up to (`TotalFacts`), and that a function with the steps of a recursion exists
(`Iterates`).

### Only model-checked

* `ClientsTypeOK`: the types of the parts and the bounds of their counters. The invariants above contain the types they
  need.
* The liveness properties (`TurnEnds`, `TurnBegins`, `RouteEnds`, `CallsSettle`, `QuitEnds`, `ShowsTheService`): liveness
  under fairness is out of the prover's reach.

Every other safety property of the passing runs is stated by a theorem.

## Abstractions and limits

* One chat, past onboarding. The session id, context compaction, activity
  records, streamed text and wording are left out.
* A proposal is one of three kinds: a batch of task operations that is valid by itself,
  a reply without operations, or something `validate_proposal` refuses.
  A batch that is well formed but fails in `apply_operations` for its content ends
  as a rejection, like an invalid one.
* `finalize_response` compares the stored content and metadata of a finished row
  with the request; here the row number and the disposition stand for them.
* What other components save is `SaveMeta`: the whole journal, at any time,
  with every outcome, their own fields being outside the model.
* The wait for a preempted check-in is assumed to end; its failure is
  `WaitFails`. It ends the turn before `run_turn` has set anything, as a stop does before `briefing.open()` is
  back (`StopUnopened`), so `UnresolvedIsShown` starts after both; no document says what should be shown.
* One process per request id is followed: an id that is run again starts from the beginning in `proc`.
* Wall-clock time is absent: a limit may be reached at any moment.
* `MessageKept` is about the receipt and the native rows, not about the browser.
* In `Outreach` the timing gates of `admit` (stability, cooldown, budget) may hold at
  any time, except that the grace period after the person's own action outlasts
  the few seconds a route waits. Whether a decision is wanted is one Boolean that
  may change at any moment before the acceptance.
* The native processes of check-ins and returns write no rows (the service does),
  so they are not followed; a second cancellation that cuts `stop_child` short, and
  so gives the lock back early, is in the model, the process that goes on is not.
* A summary (`Compress`) is taken for a turn, which it resembles in waiting and locking.
* `recover_publications` of both loops is one step with one write; the loops of `F`
  are those that could not be looked up, or were not yet.

Of the parts around the service:

* Wording, layout, focus of controls, animation and sizes are left out; identities,
  sites, texts and snapshots are members of small sets. A snapshot is compared by its revision and the few fields
  the panel decides with.
* `HomeClient`: a recovery that is refused while a message is unconfirmed relabels that message
  as rejected (client.js 221-228), and taking a message back overwrites a newer draft;
  both are in the model and are the exceptions of `SentOnce` and `DraftKept`. A `send` whose journal write fails has taken the
  text in memory and answers with an error: for the page this is a message taken late whose turn is over, which the model
  has. The outbox of the
  first version and a storage that fails are not modelled.
* `LiveUpdates`, `CheckInSurface`: with more keys than the list of seen ones keeps (`SeenCap`,
  200 in the code; `MaxSeen`, 256), old replies can be announced again; the instances stay below.
* `AnnouncedOnce` is about updates that were shown and then taken off the card, or presented elsewhere (`closed`). What
  `Opens` brings up behind the chat has not been shown: if another chat is selected then, it comes up again later.
* `LiveUpdates` leaves out a check-in whose refresh fails after its row was appended (the row comes with a later
  read, its stream having been interrupted).
* `ChatLibrary`: a rename always changes the name.
* `WorkflowPanel` is one window: two windows overwrite each other's receipts. The text of a failed run is left out.
* `ActivityLink`: the delay with which Chrome tells of a change is in `NativeBridge` only.
* `Permissions`: at most one command waits behind the one that runs.
* `NativeBridge` reads a page in one step (the code reads by tab id twice), and merges two
  waiting refreshes of the same kind.
* `ConnectionsPanel`, `MailSources`: after a refused command the panel asks for the newest state,
  and that request may be refused or fail while the message says that the state below is
  the latest; `MailSources` shows that its own request after a 409 is never sent.
  Of the services, failed writes of the state file, a revision that a revocation moves in addition, restarts, and
  the awaits inside a token exchange are left out.
  `CalendarPanel` does not preselect the primary calendar if its first choice comes with a list still loading.
* `Onboarding`: that the goals the card does not render are saved unseen is in the model.
  An approval whose answer is lost is saved, and its goal is not started by the page.
* `GoalControls` is about one goal; the menus of activity records are not modelled. Its `UndoOperations` leave out
  the Undo of completing a goal that is not open (editor.js 76), which no button offers, and `Words` stands for
  title, unit and due together, so that the service's refusal of a unit without a target (tasks.py 221), which the form
  never sends, is left out.

## Not modelled

* The activity ledger (date arithmetic over a log), the budget's and cooldown's arithmetic,
  the parsing of provider data and of streamed JSON, request validation.
* Capture, analysis and deletion in `context_service.py`, what is fetched in a synchronization or exchanged for a token in the
  Google modules, the files of `connections.py` and `capabilities.py`: of these the
  modules have the states, commands, conflicts and revisions, not the content.
* The contents of chats: import, export, the plan of a switch.
* `account.js`, `router.js`, `storage.js`, `support.js`, `switcher.js`, `commands.js`, the permission
  and authorization handlers of `main.cjs`: small or without state across awaits.
* Rendering (`views.js`, most of `workspace.js` and `unified-workspace.js`, the day map, the orb), build
  scripts, tests, prototypes.

## Plan

1. **Core** (done): `ChatTurn`, `TurnPromise`, their runs and proofs.
2. **Check-ins and returns** (modelled, checked and proved): `Outreach`.
3. **Clients and shell** (modelled and checked): `MCEnds`, `MCClients` and their modules.
4. **Proofs** (see above): every safety property of the runs is proved, but for the types of `MCClients`.
5. **Service side of the context and connections**: what the panels and the activity link decide with is translated
   from `src/app` (done); the generations of the adaptive context, deletion, two-file commits and restarts of the Google
   services are left.
