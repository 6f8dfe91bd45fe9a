---------------------------- MODULE DesktopLife ----------------------------
(***************************************************************************)
(* The life of the desktop application, main.cjs: opening the workspace    *)
(* (openWorkspace, with its error dialog and its retry), reconnecting, and *)
(* quitting, on top of the supervisor whose only caller it is.             *)
(***************************************************************************)
EXTENDS Supervisor

VARIABLE life   \* startup, window, quitting and stopped of runDesktop

lifeVars == <<proc, other, sup, life>>

LifeType ==
    [startup : {"none", "starting", "loading", "dialog"},  \* where startup awaits
     window : BOOLEAN,                                     \* the window was created
     quit : {"no", "startup", "stopping", "errorbox", "stopped", "exited"},
     reopened : BOOLEAN]  \* history: the workspace was opened while quitting

LifeTypeOK == SupTypeOK /\ life \in LifeType

LifeInit ==
    /\ SupInit
    /\ life = [startup |-> "none", window |-> FALSE, quit |-> "no", reopened |-> FALSE]

Quitting == life.quit # "no"
Running == life.quit \notin {"errorbox", "exited"}   \* the error box blocks the process

-----------------------------------------------------------------------------

\* openWorkspace while no other opening is under way; supervisor.start runs up
\* to its first await, or waits for a stop.
Opens(l) ==
    /\ Spare
    /\ sup' \in StartCalls(sup)
    /\ life' = [l EXCEPT !.startup = "starting", !.reopened = @ \/ l.quit # "no"]

\* startup settles; a quit that awaited it stops the service.
StartupEnds(l) ==
    LET e == [l EXCEPT !.startup = "none"]
    IN  IF e.quit = "startup"
        THEN sup' \in StopCalls(sup) /\ life' = [e EXCEPT !.quit = "stopping"]
        ELSE sup' = sup /\ life' = e

\* The catch block: the person is asked, unless the application is quitting.
OpenFails(l) ==
    IF l.quit # "no" THEN StartupEnds(l)
    ELSE sup' = sup /\ life' = [l EXCEPT !.startup = "dialog"]

\* At launch, from the tray or the dock, or by a second instance: showWindow.
OpenWorkspace ==
    /\ ~Quitting /\ life.startup = "none" /\ ~life.window
    /\ Opens(life)
    /\ UNCHANGED <<proc, other>>

\* The menu item, enabled while there is no startup and not disabled by a quit;
\* once the service has stopped only what is under way goes on.
Reconnect ==
    /\ life.quit = "no" \/ (life.quit = "stopping" /\ sup.stop # "none")
    /\ life.startup = "none"
    /\ Opens(life)
    /\ UNCHANGED <<proc, other>>

\* supervisor.start settles.
StartReturns ==
    /\ Running /\ life.startup = "starting" /\ sup.start = "none" /\ ~sup.queued
    /\ IF sup.result = "error" THEN OpenFails(life)
       ELSE IF Quitting THEN StartupEnds(life)
       ELSE sup' = sup /\ life' = [life EXCEPT !.startup = "loading", !.window = TRUE]
    /\ UNCHANGED <<proc, other>>

\* loadURL of the home page settles; nothing limits how long it takes.
Loads ==
    /\ Running /\ life.startup = "loading"
    /\ StartupEnds(life) \/ OpenFails(life)
    /\ UNCHANGED <<proc, other>>

DialogAnswered ==
    /\ Running /\ life.startup = "dialog"
    /\ \/ ~Quitting /\ Opens(life)                             \* Retry
       \/ ~Quitting /\ sup' \in StopCalls(sup)                 \* Quit
                    /\ life' = [life EXCEPT !.startup = "none", !.quit = "stopping"]
       \/ Quitting /\ StartupEnds(life)
    /\ UNCHANGED <<proc, other>>

\* before-quit: startup is awaited, then the service is stopped.
BeforeQuit ==
    /\ ~Quitting
    /\ IF life.startup = "none"
       THEN sup' \in StopCalls(sup) /\ life' = [life EXCEPT !.quit = "stopping"]
       ELSE sup' = sup /\ life' = [life EXCEPT !.quit = "startup"]
    /\ UNCHANGED <<proc, other>>

\* Mutant: the application exits while the service is still being stopped.
MutStopReturns ==
    /\ life.quit = "stopping"
    /\ life' = [life EXCEPT !.quit = "stopped"]
    /\ UNCHANGED <<proc, other, sup>>

\* Mutant: a stop that fails ends the quit where it is.
MutStopRejects ==
    /\ life.quit = "stopping" /\ sup.stop = "none" /\ sup.stopped = "ok"
    /\ life' = [life EXCEPT !.quit = "stopped"]
    /\ UNCHANGED <<proc, other, sup>>

\* supervisor.stop settles; one that failed is told in an error box.
StopReturns ==
    /\ life.quit = "stopping" /\ sup.stop = "none"
    /\ life' = [life EXCEPT !.quit = IF sup.stopped = "ok" THEN "stopped" ELSE "errorbox"]
    /\ UNCHANGED <<proc, other, sup>>

BoxClosed ==
    /\ life.quit = "errorbox"
    /\ life' = [life EXCEPT !.quit = "stopped"]
    /\ UNCHANGED <<proc, other, sup>>

\* The second app.quit is not prevented.
Exit ==
    /\ life.quit = "stopped"
    /\ life' = [life EXCEPT !.quit = "exited"]
    /\ UNCHANGED <<proc, other, sup>>

SupRuns == Running /\ SupStep /\ UNCHANGED life
SystemRuns == System /\ UNCHANGED life
ErrorRuns == Running /\ ChildFails /\ UNCHANGED life

LifeNext ==
    \/ SystemRuns \/ ErrorRuns \/ SupRuns
    \/ OpenWorkspace \/ Reconnect \/ StartReturns \/ Loads \/ DialogAnswered
    \/ BeforeQuit \/ StopReturns \/ BoxClosed \/ Exit

LifeSpec == LifeInit /\ [][LifeNext]_lifeVars

LifeFairSpec ==
    /\ LifeSpec
    /\ WF_lifeVars(SupRuns)
    /\ WF_lifeVars(StartReturns) /\ WF_lifeVars(StopReturns) /\ WF_lifeVars(Exit)

-----------------------------------------------------------------------------
(* Properties. *)

\* An application that quits exits in the end, whatever the service does, unless it
\* waits for a page that does not load or for the person to close a dialog, which
\* nothing in it limits (Quitting ~> QuitEnded).
QuitEnded == life.quit \in {"errorbox", "exited"} \/ life.startup \in {"loading", "dialog"}

\* What an exit leaves: nothing the supervisor answers for is running, unless the
\* stop reported that it failed or the workspace was opened again after Quit.
ExitLeavesNothing ==
    life.quit = "exited" /\ sup.stopped # "error" /\ ~life.reopened => \A i \in Procs : ~Owes(i)

\* desktop/electron/README.md:21: Quit "stops a backend started by this desktop
\* process, waits for its bounded cleanup and exits".
QuitStopsBackend ==
    life.quit = "exited" /\ sup.stopped # "error" => \A i \in Procs : ~Owes(i)
=============================================================================
