----------------------------- MODULE Supervisor -----------------------------
(***************************************************************************)
(* createBackendSupervisor of backend-supervisor.cjs: the part of the      *)
(* desktop application that starts the local service, finds one that is    *)
(* already there, and stops only what it started.  start and stop may be   *)
(* called at any time; each is one shared operation with awaits in it, and *)
(* `sup` is what the closures keep between them.  The operating system     *)
(* (the processes, who listens on the port) is the environment.            *)
(***************************************************************************)
EXTENDS Integers

CONSTANTS MaxSpawns,  \* bound: processes an instance may start
          Attempts    \* probes of a service that was just started (120)

ASSUME SupervisorAssumption ==
    /\ MaxSpawns \in Nat
    /\ Attempts \in Nat \ {0}

VARIABLES
    proc,   \* the processes spawned so far, as the operating system has them
    other,  \* who else listens on the port
    sup     \* the supervisor's child, phase, startPromise and stopPromise

supVars == <<proc, other, sup>>

Procs == 1 .. MaxSpawns
NoProc == 0
Phases == {"idle", "checking", "attached", "starting", "ready", "stopping", "stopped", "failed"}
Found == {"none", "matching", "unavailable", "foreign"}

SupType ==
    [child : Procs \cup {NoProc},
     phase : Phases,
     start : {"none", "recheck", "probe", "poll", "cleanup"},  \* where startInternal awaits
     found : Found,                      \* the answer of inspectService, not yet used
     left : 0 .. Attempts,
     result : {"none", "ok", "error"},   \* how the last start settled
     stop : {"none", "waiting", "stopping"},
     term : {"none", "term", "kill"},    \* stopOwnedChild: the signal it waits on
     stopped : {"none", "ok", "error"},  \* how the last stop settled
     queued : BOOLEAN,                   \* start() called during a stop
     errored : SUBSET Procs]             \* history: the children that reported an error

SupTypeOK ==
    /\ proc \in [Procs -> {"unborn", "booting", "serving", "ended", "gone"}]
    /\ other \in {"none", "felis", "foreign"}
    /\ sup \in SupType

SupInit ==
    /\ proc = [i \in Procs |-> "unborn"]
    /\ other \in {"none", "felis", "foreign"}
    /\ sup = [child |-> NoProc, phase |-> "idle", start |-> "none", found |-> "none",
              left |-> 0, result |-> "none", stop |-> "none", term |-> "none",
              stopped |-> "none", queued |-> FALSE, errored |-> {}]

Alive(i) == proc[i] \in {"booting", "serving"}
Listening == other # "none" \/ \E i \in Procs : proc[i] = "serving"
Spare == \E i \in Procs : proc[i] = "unborn"

-----------------------------------------------------------------------------
(* The operating system. *)

Serves(i) ==
    /\ proc[i] = "booting" /\ ~Listening
    /\ proc' = [proc EXCEPT ![i] = "serving"]
    /\ UNCHANGED <<other, sup>>

\* A crash, a port already taken, or the effect of a signal.
Dies(i) ==
    /\ Alive(i)
    /\ proc' = [proc EXCEPT ![i] = "ended"]
    /\ UNCHANGED <<other, sup>>

OtherChanges ==
    /\ other' \in {"none", "felis", "foreign"} \ {other}
    /\ other = "none" => ~Listening
    /\ UNCHANGED <<proc, sup>>

-----------------------------------------------------------------------------
(* Operators from one state of the supervisor to the next.  What a promise *)
(* settles runs in the same turn of the event loop, so it is one step.     *)

\* startInternal up to its first await: validateCheckout may throw before
\* anything is reported.
Begun(s) ==
    {[s EXCEPT !.queued = FALSE, !.result = "error"],
     [s EXCEPT !.queued = FALSE, !.result = "none", !.found = "none", !.phase = "checking",
               !.start = IF s.child = NoProc THEN "probe" ELSE "recheck"]}

\* Mutant: a child that did not end in time is given up.
MutStopEnds(s, how) ==
    {[s EXCEPT !.stop = "none", !.term = "none", !.stopped = how, !.child = NoProc,
               !.queued = FALSE]}

\* stopPromise settles; a start that was called meanwhile runs now, or
\* rejects with the stop.
StopEnds(s, how) ==
    LET e == [s EXCEPT !.stop = "none", !.term = "none", !.stopped = how]
    IN  IF ~e.queued THEN {e}
        ELSE IF how = "ok" THEN Begun(e)
        ELSE {[e EXCEPT !.queued = FALSE, !.result = "error"]}

\* stopOwnedChild as stop calls it.
StopsOwned(s) ==
    IF s.child = NoProc THEN StopEnds(s, "ok")
    ELSE {[s EXCEPT !.phase = "stopping", !.stop = "stopping", !.term = "term"]}

\* Mutant: a stop that waited for the start takes that for the end.
MutStartEnds(s, how) ==
    LET e == [s EXCEPT !.start = "none", !.found = "none", !.left = 0,
                       !.term = "none", !.result = how]
    IN  IF e.stop = "waiting" THEN StopEnds(e, "ok") ELSE {e}

\* startPromise settles: a stop that waited for it goes on.
StartEnds(s, how) ==
    LET e == [s EXCEPT !.start = "none", !.found = "none", !.left = 0,
                       !.term = "none", !.result = how]
    IN  IF e.stop = "waiting" THEN StopsOwned(e) ELSE {e}

\* The end of startInternal after its loop: the child it started is stopped.
CleansUp(s) ==
    IF s.child = NoProc THEN StartEnds([s EXCEPT !.phase = "failed"], "error")
    ELSE {[s EXCEPT !.phase = "stopping", !.start = "cleanup", !.found = "none", !.term = "term"]}

StartCalls(s) ==
    IF s.stop = "none" THEN Begun(s) ELSE {[s EXCEPT !.queued = TRUE]}

StopCalls(s) ==
    IF s.start # "none" THEN {[s EXCEPT !.stop = "waiting"]} ELSE StopsOwned(s)

-----------------------------------------------------------------------------
(* The awaits. *)

\* inspectService: with somebody listening, a slow or broken answer counts
\* as foreign.
Answers ==
    IF ~Listening THEN {"unavailable"}
    ELSE IF other = "foreign" THEN {"foreign"} ELSE {"matching", "foreign"}

Inspects ==
    /\ sup.start \in {"recheck", "probe", "poll"} /\ sup.found = "none"
    /\ \E a \in Answers : sup' = [sup EXCEPT !.found = a]
    /\ UNCHANGED <<proc, other>>

\* There is a child already: start only looks whether the service answers.
Rechecks ==
    /\ sup.start = "recheck" /\ sup.found # "none"
    /\ sup' \in IF sup.found = "matching"
                THEN StartEnds([sup EXCEPT !.phase = "ready"], "ok")
                ELSE StartEnds([sup EXCEPT !.phase = "failed"], "error")
    /\ UNCHANGED <<proc, other>>

Attaches ==
    /\ sup.start = "probe" /\ sup.found \in {"matching", "foreign"}
    /\ sup' \in IF sup.found = "matching"
                THEN StartEnds([sup EXCEPT !.phase = "attached"], "ok")
                ELSE StartEnds([sup EXCEPT !.phase = "failed"], "error")
    /\ UNCHANGED <<proc, other>>

\* spawn throws, reports an error on the next tick, or gives a process.
Spawns ==
    /\ sup.start = "probe" /\ sup.found = "unavailable"
    /\ LET polling == [sup EXCEPT !.start = "poll", !.found = "none", !.left = Attempts]
       IN \/ /\ sup' \in StartEnds([sup EXCEPT !.phase = "failed"], "error")
             /\ UNCHANGED proc
          \/ /\ sup' = [polling EXCEPT !.phase = "failed"]
             /\ UNCHANGED proc
          \/ \E i \in Procs :
                /\ proc[i] = "unborn" /\ \A j \in 1 .. i - 1 : proc[j] # "unborn"
                /\ proc' = [proc EXCEPT ![i] = "booting"]
                /\ sup' = [polling EXCEPT !.phase = "starting", !.child = i]
    /\ UNCHANGED other

Polls ==
    /\ sup.start = "poll" /\ sup.found # "none"
    /\ sup' \in IF sup.found = "matching" /\ sup.child # NoProc
                THEN StartEnds([sup EXCEPT !.phase = "ready"], "ok")
                ELSE IF sup.found = "foreign" \/ sup.child = NoProc \/ sup.left = 1
                     THEN CleansUp(sup)
                     ELSE {[sup EXCEPT !.found = "none", !.left = @ - 1]}
    /\ UNCHANGED <<proc, other>>

\* The exit event: the watcher of the child, then whoever awaits its end.
Exits(i) ==
    /\ proc[i] = "ended"
    /\ proc' = [proc EXCEPT ![i] = "gone"]
    /\ LET s == [sup EXCEPT !.child = NoProc,
                            !.phase = IF @ \in {"stopping", "stopped"} THEN @ ELSE "failed"]
       IN sup' \in IF sup.child # i THEN {sup}
                   ELSE IF sup.term = "none" THEN {s}
                   ELSE IF sup.start = "cleanup"
                        THEN StartEnds([s EXCEPT !.phase = "failed"], "error")
                        ELSE StopEnds([s EXCEPT !.phase = "stopped"], "ok")
    /\ UNCHANGED other

\* The error event of a process that runs, a signal it could not be sent for one:
\* the watcher gives the child up, and whoever awaits its end fails.
ChildErrors(i) ==
    /\ sup.child = i
    /\ LET s == [sup EXCEPT !.child = NoProc, !.phase = "failed", !.errored = @ \cup {i}]
       IN sup' \in IF sup.term = "none" THEN {s}
                   ELSE IF sup.start = "cleanup" THEN StartEnds(s, "error")
                   ELSE StopEnds(s, "error")
    /\ UNCHANGED <<proc, other>>

\* Mutant: the wait for the killed child has no limit.
MutTimesOut ==
    /\ sup.term = "term"
    /\ sup' = [sup EXCEPT !.term = "kill"]
    /\ UNCHANGED <<proc, other>>

\* SIGKILL follows a SIGTERM that is not answered; a child that survives even
\* that stays owned.
TimesOut ==
    /\ sup.term # "none"
    /\ sup' \in IF sup.term = "term" THEN {[sup EXCEPT !.term = "kill"]}
                ELSE IF sup.start = "cleanup"
                     THEN StartEnds([sup EXCEPT !.phase = "failed"], "error")
                     ELSE StopEnds([sup EXCEPT !.phase = "failed"], "error")
    /\ UNCHANGED <<proc, other>>

\* A second start shares the operation that is under way, as does a second stop.
CallStart ==
    /\ sup.start = "none" /\ ~sup.queued /\ Spare
    /\ sup' \in StartCalls(sup)
    /\ UNCHANGED <<proc, other>>

CallStop ==
    /\ sup.stop = "none"
    /\ sup' \in StopCalls(sup)
    /\ UNCHANGED <<proc, other>>

System == OtherChanges \/ \E i \in Procs : Serves(i) \/ Dies(i)
SupStep ==
    \/ Inspects \/ Rechecks \/ Attaches \/ Spawns \/ Polls \/ TimesOut
    \/ \E i \in Procs : Exits(i)

ChildFails == \E i \in Procs : ChildErrors(i)

SupNext == System \/ ChildFails \/ SupStep \/ CallStart \/ CallStop

SupSpec == SupInit /\ [][SupNext]_supVars
SupFairSpec == SupSpec /\ WF_supVars(SupStep)

-----------------------------------------------------------------------------
(* Properties. *)

\* A process that runs and that the supervisor must answer for: it started it, and
\* no error event made it give the process up.
Owes(i) == Alive(i) /\ i \notin sup.errored

\* Such a process is its child, whatever timed out, exited, reported an error or was
\* called meanwhile: it can always be stopped, and there is at most one.
NoLostChild == \A i \in Procs : Owes(i) => sup.child = i

\* When a stop resolves, nothing the supervisor must answer for is running, even if a
\* start was between its probe and its spawn when stop was called.
StopSettlesClean ==
    sup.stop # "none" /\ sup'.stop = "none" /\ sup'.stopped = "ok" => \A i \in Procs : ~Owes(i)'
StopIsFinal == [][StopSettlesClean]_supVars

=============================================================================
