------------------------------ MODULE EndsProofs ------------------------------
(***************************************************************************)
(* Proofs about how the desktop application ends (MCEnds, DesktopLife), on *)
(* top of those about its supervisor: with the application as its caller   *)
(* or under any calls, no process is lost and a stop that resolves leaves  *)
(* none; and an application that has exited leaves nothing running.        *)
(***************************************************************************)
EXTENDS MCEnds, TLAPS

USE SupervisorAssumption

\* A start only spawns when it has no child, and only polls while it has
\* probes left.
Consistent(s) ==
    /\ s \in SupType
    /\ s.start = "probe" => s.child = NoProc
    /\ s.start = "poll" => s.left # 0

IInv == SupTypeOK /\ Consistent(sup) /\ NoLostChild

\* How the operators take one state of the supervisor to the next: the child is
\* kept, and a stop that ends well ends without one.
EndsClean(s, t) == s.stop # "none" /\ t.stop = "none" /\ t.stopped = "ok" => t.child = NoProc

\* The child and the errors that were reported stay.
Same(s, t) == t.child = s.child /\ t.errored = s.errored

USE DEF Same

Keeps(s, t) == Consistent(t) /\ Same(s, t) /\ EndsClean(s, t)

LEMMA BegunKeeps ==
    ASSUME NEW s, Consistent(s), NEW t \in Begun(s)
    PROVE  Consistent(t) /\ Same(s, t) /\ t.stop = s.stop /\ t.stopped = s.stopped
  <1>1. CASE t = [s EXCEPT !.queued = FALSE, !.result = "error"]
    BY <1>1 DEF Consistent, SupType
  <1>2. CASE t = [s EXCEPT !.queued = FALSE, !.result = "none", !.found = "none",
                           !.phase = "checking",
                           !.start = IF s.child = NoProc THEN "probe" ELSE "recheck"]
    <2>1. CASE s.child = NoProc
      <3>1. t = [s EXCEPT !.queued = FALSE, !.result = "none", !.found = "none",
                          !.phase = "checking", !.start = "probe"]
        BY <1>2, <2>1
      <3>2. s \in SupType
        BY DEF Consistent
      <3>3. t \in SupType
        BY <3>1, <3>2 DEF SupType, Phases, Found
      <3>4. t.start = "probe" /\ Same(s, t) /\ t.stop = s.stop /\ t.stopped = s.stopped
        BY <3>1, <3>2 DEF SupType
      <3>5. QED
        BY <2>1, <3>3, <3>4 DEF Consistent
    <2>2. CASE s.child # NoProc
      <3>1. t = [s EXCEPT !.queued = FALSE, !.result = "none", !.found = "none",
                          !.phase = "checking", !.start = "recheck"]
        BY <1>2, <2>2
      <3>2. QED
        BY <3>1 DEF Consistent, SupType, Phases, Found
    <2>3. QED
      BY <2>1, <2>2
  <1>3. QED
    BY <1>1, <1>2 DEF Begun

LEMMA StopEndsKeeps ==
    ASSUME NEW s, Consistent(s), NEW how \in {"ok", "error"}, NEW t \in StopEnds(s, how)
    PROVE  Consistent(t) /\ Same(s, t) /\ t.stop = "none" /\ t.stopped = how
  <1> DEFINE e == [s EXCEPT !.stop = "none", !.term = "none", !.stopped = how]
  <1>1. Consistent(e) /\ Same(s, e) /\ e.stop = "none" /\ e.stopped = how
    BY DEF Consistent, SupType
  <1>2. CASE ~e.queued
    BY <1>1, <1>2 DEF StopEnds
  <1>3. CASE e.queued /\ how = "ok"
    <2>1. t \in Begun(e)
      BY <1>3 DEF StopEnds
    <2> HIDE DEF e
    <2>2. QED
      BY <1>1, <2>1, BegunKeeps
  <1>4. CASE e.queued /\ how = "error"
    <2>1. t = [e EXCEPT !.queued = FALSE, !.result = "error"]
      BY <1>4 DEF StopEnds
    <2> HIDE DEF e
    <2>2. QED
      BY <1>1, <2>1 DEF Consistent, SupType
  <1>5. QED
    BY <1>2, <1>3, <1>4

LEMMA StopsOwnedKeeps ==
    ASSUME NEW s, Consistent(s), NEW t \in StopsOwned(s)
    PROVE  Consistent(t) /\ Same(s, t) /\ (t.stop = "none" => t.child = NoProc)
  <1>1. CASE s.child = NoProc
    BY <1>1, StopEndsKeeps DEF StopsOwned
  <1>2. CASE s.child # NoProc
    <2>1. t = [s EXCEPT !.phase = "stopping", !.stop = "stopping", !.term = "term"]
      BY <1>2 DEF StopsOwned
    <2>2. QED
      BY <2>1 DEF Consistent, SupType, Phases
  <1>3. QED
    BY <1>1, <1>2

LEMMA StartEndsKeeps ==
    ASSUME NEW s, Consistent(s), NEW how \in {"ok", "error"}, NEW t \in StartEnds(s, how)
    PROVE  Keeps(s, t)
  <1> DEFINE e == [s EXCEPT !.start = "none", !.found = "none", !.left = 0,
                            !.term = "none", !.result = how]
  <1>1. Consistent(e) /\ Same(s, e) /\ e.stop = s.stop
    <2>1. s \in SupType /\ 0 \in 0 .. Attempts
      BY DEF Consistent
    <2>2. e \in SupType
      BY <2>1 DEF SupType, Found
    <2>3. e.start = "none" /\ Same(s, e) /\ e.stop = s.stop
      BY <2>1 DEF SupType
    <2>4. QED
      BY <2>2, <2>3 DEF Consistent
  <1>2. t \in IF e.stop = "waiting" THEN StopsOwned(e) ELSE {e}
    BY DEF StartEnds
  <1> HIDE DEF e
  <1>3. QED
    BY <1>1, <1>2, StopsOwnedKeeps DEF Keeps, EndsClean

LEMMA CleansUpKeeps ==
    ASSUME NEW s, Consistent(s), NEW t \in CleansUp(s)
    PROVE  Keeps(s, t)
  <1>1. CASE s.child = NoProc
    <2> DEFINE f == [s EXCEPT !.phase = "failed"]
    <2>1. Consistent(f) /\ Same(s, f) /\ f.stop = s.stop
      BY DEF Consistent, SupType, Phases
    <2>2. t \in StartEnds(f, "error")
      BY <1>1 DEF CleansUp
    <2> HIDE DEF f
    <2>3. QED
      BY <2>1, <2>2, StartEndsKeeps DEF Keeps, EndsClean
  <1>2. CASE s.child # NoProc
    <2>1. t = [s EXCEPT !.phase = "stopping", !.start = "cleanup", !.found = "none",
                        !.term = "term"]
      BY <1>2 DEF CleansUp
    <2>2. Consistent(t) /\ Same(s, t) /\ t.stop = s.stop
      BY <2>1 DEF Consistent, SupType, Phases, Found
    <2>3. QED
      BY <2>1, <2>2 DEF Keeps, EndsClean
  <1>3. QED
    BY <1>1, <1>2

-----------------------------------------------------------------------------
(* The invariant, one lemma for each group of steps. *)

LEMMA SystemKeeps ==
    ASSUME IInv, System
    PROVE  IInv' /\ StopSettlesClean
  <1>1. CASE OtherChanges
    BY <1>1 DEF IInv, OtherChanges, SupTypeOK, NoLostChild, Owes, Alive, StopSettlesClean,
                Consistent
  <1>2. ASSUME NEW i \in Procs, Serves(i) \/ Dies(i)
        PROVE  IInv' /\ StopSettlesClean
    <2>1. sup' = sup /\ other' = other /\ Alive(i)
      BY <1>2 DEF Serves, Dies, Alive
    <2>2. proc' \in [Procs -> {"unborn", "booting", "serving", "ended", "gone"}]
      BY <1>2 DEF IInv, SupTypeOK, Serves, Dies
    <2>3. \A j \in Procs : Alive(j)' => Alive(j)
      BY <1>2, <2>1 DEF IInv, SupTypeOK, Serves, Dies, Alive
    <2>4. QED
      BY <2>1, <2>2, <2>3 DEF IInv, SupTypeOK, NoLostChild, Owes, StopSettlesClean, Consistent
  <1>3. QED
    BY <1>1, <1>2 DEF System

\* A step that leaves the processes alone and goes by the operators above.
LEMMA KeptIsInv ==
    ASSUME IInv, UNCHANGED <<proc, other>>, Keeps(sup, sup')
    PROVE  IInv' /\ StopSettlesClean
  BY DEF IInv, Keeps, EndsClean, Consistent, SupTypeOK, NoLostChild, Owes, Alive, StopSettlesClean,
         NoProc, Procs

LEMMA AwaitsKeep ==
    ASSUME IInv, Inspects \/ Rechecks \/ Attaches \/ Polls \/ TimesOut \/ CallStart \/ CallStop
    PROVE  UNCHANGED <<proc, other>> /\ Keeps(sup, sup')
  <1>1. CASE Inspects
    BY <1>1 DEF Inspects, IInv, Keeps, EndsClean, Consistent, SupType, Answers, Found
  <1>2. CASE Rechecks
    <2> DEFINE r == [sup EXCEPT !.phase = "ready"]
               f == [sup EXCEPT !.phase = "failed"]
    <2>1. Consistent(r) /\ Same(sup, r) /\ r.stop = sup.stop
      BY DEF IInv, Consistent, SupType, Phases
    <2>2. Consistent(f) /\ Same(sup, f) /\ f.stop = sup.stop
      BY DEF IInv, Consistent, SupType, Phases
    <2>3. sup' \in StartEnds(r, "ok") \/ sup' \in StartEnds(f, "error")
      BY <1>2 DEF Rechecks
    <2>4. UNCHANGED <<proc, other>>
      BY <1>2 DEF Rechecks
    <2> HIDE DEF r, f
    <2>5. QED
      BY <2>1, <2>2, <2>3, <2>4, StartEndsKeeps DEF Keeps, EndsClean
  <1>3. CASE Attaches
    <2> DEFINE r == [sup EXCEPT !.phase = "attached"]
               f == [sup EXCEPT !.phase = "failed"]
    <2>1. Consistent(r) /\ Same(sup, r) /\ r.stop = sup.stop
      BY DEF IInv, Consistent, SupType, Phases
    <2>2. Consistent(f) /\ Same(sup, f) /\ f.stop = sup.stop
      BY DEF IInv, Consistent, SupType, Phases
    <2>3. sup' \in StartEnds(r, "ok") \/ sup' \in StartEnds(f, "error")
      BY <1>3 DEF Attaches
    <2>4. UNCHANGED <<proc, other>>
      BY <1>3 DEF Attaches
    <2> HIDE DEF r, f
    <2>5. QED
      BY <2>1, <2>2, <2>3, <2>4, StartEndsKeeps DEF Keeps, EndsClean
  <1>4. CASE Polls
    <2> DEFINE r == [sup EXCEPT !.phase = "ready"]
    <2>1. Consistent(r) /\ Same(sup, r) /\ r.stop = sup.stop
      BY DEF IInv, Consistent, SupType, Phases
    <2>2. UNCHANGED <<proc, other>>
      BY <1>4 DEF Polls
    <2>3. CASE sup' \in StartEnds(r, "ok")
      <3> HIDE DEF r
      <3>1. QED
        BY <2>1, <2>2, <2>3, StartEndsKeeps DEF Keeps, EndsClean
    <2>4. CASE sup' \in CleansUp(sup)
      BY <2>2, <2>4, CleansUpKeeps DEF IInv
    <2>5. CASE sup.left # 1 /\ sup' = [sup EXCEPT !.found = "none", !.left = @ - 1]
      <3>1. sup.left - 1 \in 0 .. Attempts /\ sup.left - 1 # 0
        BY <1>4, <2>5 DEF Polls, IInv, Consistent, SupType
      <3>2. QED
        BY <2>2, <2>5, <3>1 DEF IInv, Keeps, EndsClean, Consistent, SupType, Found, Polls
    <2>6. QED
      BY <1>4, <2>3, <2>4, <2>5 DEF Polls
  <1>5. CASE TimesOut
    <2> DEFINE f == [sup EXCEPT !.phase = "failed"]
    <2>1. Consistent(f) /\ Same(sup, f) /\ f.stop = sup.stop
      BY DEF IInv, Consistent, SupType, Phases
    <2>2. UNCHANGED <<proc, other>>
      BY <1>5 DEF TimesOut
    <2>3. CASE sup' = [sup EXCEPT !.term = "kill"]
      BY <2>2, <2>3 DEF IInv, Keeps, EndsClean, Consistent, SupType
    <2>4. CASE sup' \in StartEnds(f, "error") \/ sup' \in StopEnds(f, "error")
      <3> HIDE DEF f
      <3>1. QED
        BY <2>1, <2>2, <2>4, StartEndsKeeps, StopEndsKeeps DEF Keeps, EndsClean
    <2>5. QED
      BY <1>5, <2>3, <2>4 DEF TimesOut
  <1>6. CASE CallStart
    <2>1. CASE sup' \in Begun(sup) /\ sup.stop = "none"
      BY <1>6, <2>1, BegunKeeps DEF CallStart, IInv, Keeps, EndsClean
    <2>2. CASE sup' = [sup EXCEPT !.queued = TRUE] /\ sup.stop # "none"
      BY <1>6, <2>2 DEF CallStart, IInv, Keeps, EndsClean, Consistent, SupType
    <2>3. QED
      BY <1>6, <2>1, <2>2 DEF CallStart, StartCalls
  <1>7. CASE CallStop
    <2>1. CASE sup' = [sup EXCEPT !.stop = "waiting"]
      BY <1>7, <2>1 DEF CallStop, IInv, Keeps, EndsClean, Consistent, SupType
    <2>2. CASE sup' \in StopsOwned(sup)
      BY <1>7, <2>2, StopsOwnedKeeps DEF CallStop, IInv, Keeps, EndsClean
    <2>3. QED
      BY <1>7, <2>1, <2>2 DEF CallStop, StopCalls
  <1>8. QED
    BY <1>1, <1>2, <1>3, <1>4, <1>5, <1>6, <1>7

LEMMA SpawnsKeep ==
    ASSUME IInv, Spawns
    PROVE  IInv' /\ StopSettlesClean
  <1> DEFINE f == [sup EXCEPT !.phase = "failed"]
             p == [sup EXCEPT !.start = "poll", !.found = "none", !.left = Attempts]
  <1>1. sup.child = NoProc /\ \A j \in Procs : ~Owes(j)
    <2>1. sup.start = "probe"
      BY DEF Spawns
    <2>2. sup.child = NoProc
      BY <2>1 DEF IInv, Consistent
    <2>3. QED
      BY <2>2 DEF IInv, NoLostChild, NoProc, Procs
  <1>2. Attempts \in 0 .. Attempts /\ Attempts # 0
    OBVIOUS
  <1>3. p \in SupType /\ p.start = "poll" /\ p.left # 0 /\ p.child = NoProc
        /\ p.errored = sup.errored /\ p.stop = sup.stop
    BY <1>1, <1>2 DEF IInv, Consistent, SupType, Found
  <1>4. CASE sup' \in StartEnds(f, "error") /\ UNCHANGED <<proc, other>>
    <2>1. Consistent(f) /\ Same(sup, f) /\ f.stop = sup.stop
      BY DEF IInv, Consistent, SupType, Phases
    <2> HIDE DEF f
    <2>2. QED
      BY <1>4, <2>1, StartEndsKeeps, KeptIsInv DEF Keeps, EndsClean
  <1>5. CASE sup' = [p EXCEPT !.phase = "failed"] /\ UNCHANGED <<proc, other>>
    <2> HIDE DEF p
    <2>1. Keeps(sup, sup')
      BY <1>1, <1>3, <1>5 DEF Keeps, EndsClean, Consistent, SupType, Phases
    <2>2. QED
      BY <1>5, <2>1, KeptIsInv
  <1>6. ASSUME NEW i \in Procs,
               proc' = [proc EXCEPT ![i] = "booting"], UNCHANGED other,
               sup' = [p EXCEPT !.phase = "starting", !.child = i]
        PROVE  IInv' /\ StopSettlesClean
    <2> HIDE DEF p
    <2>1. sup' \in SupType /\ sup'.start = "poll" /\ sup'.left # 0 /\ sup'.child = i
          /\ sup'.errored = sup.errored /\ sup'.stop = sup.stop
      BY <1>3, <1>6 DEF SupType, Phases
    <2>2. SupTypeOK' /\ Consistent(sup)'
      BY <1>6, <2>1 DEF IInv, SupTypeOK, Consistent
    <2>3. \A j \in Procs : Owes(j)' => j = i
      BY <1>1, <1>6, <2>1 DEF IInv, SupTypeOK, Owes, Alive
    <2>4. QED
      BY <2>1, <2>2, <2>3 DEF IInv, NoLostChild, StopSettlesClean
  <1>7. QED
    BY <1>4, <1>5, <1>6 DEF Spawns

LEMMA ExitsKeep ==
    ASSUME IInv, NEW i \in Procs, Exits(i)
    PROVE  IInv' /\ StopSettlesClean
  <1> DEFINE s == [sup EXCEPT !.child = NoProc,
                              !.phase = IF @ \in {"stopping", "stopped"} THEN @ ELSE "failed"]
             f == [s EXCEPT !.phase = "failed"]
             e == [s EXCEPT !.phase = "stopped"]
  <1>1. \A j \in Procs : Alive(j)' => Alive(j) /\ j # i
    BY DEF Exits, IInv, SupTypeOK, Alive
  <1>2. UNCHANGED other /\ proc' \in [Procs -> {"unborn", "booting", "serving", "ended", "gone"}]
    BY DEF Exits, IInv, SupTypeOK
  <1>3. sup.child = i /\ sup'.errored = sup.errored => \A j \in Procs : ~Owes(j)'
    BY <1>1 DEF IInv, NoLostChild, Owes
  <1>4. Consistent(s) /\ s.child = NoProc /\ s.stop = sup.stop /\ s.errored = sup.errored
    BY DEF IInv, Consistent, SupType, Phases
  <1>5. Consistent(f) /\ f.child = NoProc /\ f.stop = sup.stop /\ f.errored = sup.errored
    <2> HIDE DEF s
    <2>1. QED
      BY <1>4 DEF Consistent, SupType, Phases
  <1>6. Consistent(e) /\ e.child = NoProc /\ e.stop = sup.stop /\ e.errored = sup.errored
    <2> HIDE DEF s
    <2>1. QED
      BY <1>4 DEF Consistent, SupType, Phases
  <1>7. CASE sup.child # i /\ sup' = sup
    BY <1>1, <1>2, <1>7 DEF IInv, SupTypeOK, Consistent, NoLostChild, Owes, StopSettlesClean
  <1>8. CASE /\ sup.child = i
             /\ sup' = s \/ sup' \in StartEnds(f, "error") \/ sup' \in StopEnds(e, "ok")
    <2> HIDE DEF s, f, e
    <2>1. Consistent(sup') /\ sup'.errored = sup.errored
      BY <1>4, <1>5, <1>6, <1>8, StartEndsKeeps, StopEndsKeeps DEF Keeps
    <2>2. QED
      BY <1>2, <1>3, <1>8, <2>1 DEF IInv, SupTypeOK, Consistent, NoLostChild, StopSettlesClean
  <1>9. QED
    BY <1>7, <1>8 DEF Exits

LEMMA ErrorsKeep ==
    ASSUME IInv, NEW i \in Procs, ChildErrors(i)
    PROVE  IInv' /\ StopSettlesClean
  <1> DEFINE s == [sup EXCEPT !.child = NoProc, !.phase = "failed", !.errored = @ \cup {i}]
  <1>1. /\ Consistent(s) /\ s.child = NoProc /\ s.stop = sup.stop
        /\ s.errored = sup.errored \cup {i}
    BY DEF IInv, Consistent, SupType, Phases
  <1>2. sup.child = i /\ UNCHANGED <<proc, other>>
    BY DEF ChildErrors
  <1>3. sup' = s \/ sup' \in StartEnds(s, "error") \/ sup' \in StopEnds(s, "error")
    BY DEF ChildErrors
  <1> HIDE DEF s
  <1>4. Consistent(sup') /\ sup'.errored = sup.errored \cup {i}
    BY <1>1, <1>3, StartEndsKeeps, StopEndsKeeps DEF Keeps
  <1>5. \A j \in Procs : ~Owes(j)'
    BY <1>2, <1>4 DEF IInv, NoLostChild, Owes, Alive
  <1>6. QED
    BY <1>2, <1>4, <1>5 DEF IInv, SupTypeOK, Consistent, NoLostChild, StopSettlesClean

LEMMA NextKeeps ==
    ASSUME IInv, [SupNext]_supVars
    PROVE  IInv' /\ StopSettlesClean
  <1>1. CASE System
    BY <1>1, SystemKeeps
  <1>2. CASE Inspects \/ Rechecks \/ Attaches \/ Polls \/ TimesOut \/ CallStart \/ CallStop
    BY <1>2, AwaitsKeep, KeptIsInv
  <1>3. CASE Spawns
    BY <1>3, SpawnsKeep
  <1>4. CASE \E i \in Procs : Exits(i)
    BY <1>4, ExitsKeep
  <1>5. CASE UNCHANGED supVars
    BY <1>5 DEF supVars, IInv, SupTypeOK, Consistent, NoLostChild, Owes, Alive, StopSettlesClean
  <1>6. CASE ChildFails
    BY <1>6, ErrorsKeep DEF ChildFails
  <1>7. QED
    BY <1>1, <1>2, <1>3, <1>4, <1>5, <1>6 DEF SupNext, SupStep

LEMMA InitInv ==
    ASSUME SupInit
    PROVE  IInv
  BY DEF SupInit, IInv, SupTypeOK, SupType, Consistent, NoLostChild, Owes, Alive, Phases, Found

-----------------------------------------------------------------------------
(* The theorems. *)

\* The state of the supervisor and of its processes is always well typed.
THEOREM SupervisorTyped == SupSpec => []SupTypeOK
  <1>1. SupInit => IInv
    BY InitInv
  <1>2. IInv /\ [SupNext]_supVars => IInv'
    BY NextKeeps
  <1>3. IInv => SupTypeOK
    BY DEF IInv
  <1>4. QED
    BY <1>1, <1>2, <1>3, PTL DEF SupSpec

\* Whatever starts, stops, exits, errors and timeouts there are, a process the supervisor
\* started and that still runs is its child, unless an error event of that very process
\* made it give the process up (backend-supervisor.cjs, child and watchOwnedChild).
THEOREM ChildNeverLost == SupSpec => []NoLostChild
  <1>1. SupInit => IInv
    BY InitInv
  <1>2. IInv /\ [SupNext]_supVars => IInv'
    BY NextKeeps
  <1>3. IInv => NoLostChild
    BY DEF IInv
  <1>4. QED
    BY <1>1, <1>2, <1>3, PTL DEF SupSpec

\* A stop that resolves leaves nothing running that the supervisor started and did not
\* give up after an error event, also when it overtook a start
\* (backend-supervisor.cjs, stop).
THEOREM StopLeavesNothing == SupSpec => StopIsFinal
  <1>1. SupInit => IInv
    BY InitInv
  <1>2. IInv /\ [SupNext]_supVars => IInv'
    BY NextKeeps
  <1>3. IInv /\ [SupNext]_supVars => [StopSettlesClean]_supVars
    BY NextKeeps
  <1>4. QED
    BY <1>1, <1>2, <1>3, PTL DEF SupSpec, StopIsFinal

-----------------------------------------------------------------------------
(* The application over it.                                                  *)

NoneOwed == \A i \in Procs : ~Owes(i)

\* The supervisor is only under way with a start while the application awaits it.
StartIsAwaited == life.startup # "starting" => sup.start = "none" /\ ~sup.queued

\* Only a quit stops the service.
StopIsAQuit == sup.stop # "none" => life.quit = "stopping"

\* The service is stopped when no opening is under way, and from then on one
\* only begins through the menu item Reconnect.
QuitIsAlone ==
    life.quit \in {"stopping", "errorbox", "stopped", "exited"} /\ ~life.reopened => life.startup = "none"

\* Once the stop has settled, and well, nothing runs.
StoppedIsClean ==
    /\ life.quit \in {"stopping", "errorbox", "stopped", "exited"} /\ ~life.reopened
    /\ sup.stop = "none" /\ sup.stopped # "error"
    => NoneOwed

LifeInv ==
    /\ IInv
    /\ life \in LifeType
    /\ StartIsAwaited /\ StopIsAQuit /\ QuitIsAlone /\ StoppedIsClean

-----------------------------------------------------------------------------
(* The steps of the supervisor itself, when nobody starts it. *)

Idle(s) == s.start = "none" /\ ~s.queued

\* A stop begins only when it is called, and settles well or badly.
StopGoes(s, t) ==
    /\ s.stop = "none" => t.stop = "none"
    /\ s.stop # "none" /\ t.stop = "none" => t.stopped # "none"

LEMMA BegunStops ==
    ASSUME NEW s \in SupType, NEW t \in Begun(s)
    PROVE  t.stop = s.stop /\ t.stopped = s.stopped
  BY DEF Begun, SupType

LEMMA StopEndsStops ==
    ASSUME NEW s \in SupType, NEW how \in {"ok", "error"}, NEW t \in StopEnds(s, how)
    PROVE  t.stop = "none" /\ t.stopped = how
  <1> DEFINE e == [s EXCEPT !.stop = "none", !.term = "none", !.stopped = how]
  <1>1. e \in SupType /\ e.stop = "none" /\ e.stopped = how
    BY DEF SupType
  <1>2. t = e \/ t \in Begun(e) \/ t = [e EXCEPT !.queued = FALSE, !.result = "error"]
    BY DEF StopEnds
  <1> HIDE DEF e
  <1>3. QED
    BY <1>1, <1>2, BegunStops DEF SupType

LEMMA StartEndsStops ==
    ASSUME NEW s \in SupType, NEW how \in {"ok", "error"}, NEW t \in StartEnds(s, how)
    PROVE  StopGoes(s, t)
  <1> DEFINE e == [s EXCEPT !.start = "none", !.found = "none", !.left = 0,
                            !.term = "none", !.result = how]
  <1>1. e \in SupType /\ e.stop = s.stop
    <2>1. 0 \in 0 .. Attempts
      BY SupervisorAssumption
    <2>2. QED
      BY <2>1 DEF SupType, Found
  <1>2. t \in IF e.stop = "waiting" THEN StopsOwned(e) ELSE {e}
    BY DEF StartEnds
  <1> HIDE DEF e
  <1>3. CASE e.stop # "waiting"
    BY <1>1, <1>2, <1>3 DEF StopGoes
  <1>4. CASE e.stop = "waiting" /\ e.child = NoProc
    BY <1>1, <1>2, <1>4, StopEndsStops DEF StopsOwned, StopGoes
  <1>5. CASE e.stop = "waiting" /\ e.child # NoProc
    BY <1>1, <1>2, <1>5 DEF StopsOwned, StopGoes, SupType
  <1>6. QED
    BY <1>3, <1>4, <1>5

LEMMA StopEndsIdle ==
    ASSUME NEW s \in SupType, NEW how, NEW t \in StopEnds(s, how), Idle(s)
    PROVE  Idle(t) /\ t.stop = "none" /\ t.stopped = how /\ t.errored = s.errored
  BY DEF StopEnds, SupType, Idle

LEMMA StopsStay ==
    ASSUME IInv, SupStep \/ ChildFails
    PROVE  StopGoes(sup, sup')
  <1> DEFINE With(p) == [sup EXCEPT !.phase = p]
  <1>1. sup \in SupType
    BY DEF IInv, Consistent
  <1>2. ASSUME NEW p \in Phases
        PROVE  With(p) \in SupType /\ With(p).stop = sup.stop
    BY <1>1, <1>2 DEF SupType, StopGoes
  <1>3. {"ready", "failed", "attached", "stopped"} \subseteq Phases
    BY DEF Phases
  <1>4. CASE \E p \in Phases, how \in {"ok", "error"} : sup' \in StartEnds(With(p), how)
    <2> HIDE DEF With
    <2>1. QED
      BY <1>2, <1>4, StartEndsStops DEF StopGoes
  <1>5. CASE Inspects
    BY <1>1, <1>5 DEF Inspects, SupType, StopGoes
  <1>6. CASE Rechecks
    BY <1>3, <1>4, <1>6 DEF Rechecks
  <1>7. CASE Attaches
    BY <1>3, <1>4, <1>7 DEF Attaches
  <1>8. CASE Spawns
    <2> DEFINE q == [sup EXCEPT !.start = "poll", !.found = "none", !.left = Attempts]
    <2>1. \/ sup' \in StartEnds(With("failed"), "error")
          \/ sup' = [q EXCEPT !.phase = "failed"]
          \/ \E i \in Procs : sup' = [q EXCEPT !.phase = "starting", !.child = i]
      BY <1>8 DEF Spawns
    <2>2. q \in SupType /\ q.stop = sup.stop
      <3>1. Attempts \in 0 .. Attempts
        BY SupervisorAssumption
      <3>2. QED
        BY <1>1, <3>1 DEF SupType, Found
    <2> HIDE DEF q
    <2>3. QED
      BY <1>3, <1>4, <2>1, <2>2 DEF SupType, StopGoes
  <1>9. CASE Polls
    <2>1. CASE sup' \in CleansUp(sup)
      <3>1. CASE sup' \in StartEnds(With("failed"), "error")
        BY <1>3, <1>4, <3>1
      <3>2. CASE sup' = [sup EXCEPT !.phase = "stopping", !.start = "cleanup",
                                    !.found = "none", !.term = "term"]
        BY <1>1, <3>2 DEF SupType, StopGoes
      <3>3. QED
        BY <2>1, <3>1, <3>2 DEF CleansUp
    <2>2. CASE sup' = [sup EXCEPT !.found = "none", !.left = @ - 1]
      BY <1>1, <2>2 DEF SupType, StopGoes
    <2>3. CASE sup' \in StartEnds(With("ready"), "ok")
      BY <1>3, <1>4, <2>3
    <2>4. QED
      BY <1>9, <2>1, <2>2, <2>3 DEF Polls
  <1>10. ASSUME NEW s, s \in SupType, s.stop = sup.stop, NEW how \in {"ok", "error"}, sup' \in StopEnds(s, how)
         PROVE  StopGoes(sup, sup')
    BY <1>10, StopEndsStops DEF StopGoes
  <1>11. CASE TimesOut
    <2>1. CASE sup' = [sup EXCEPT !.term = "kill"]
      BY <1>1, <2>1 DEF SupType, StopGoes
    <2>2. CASE sup' \in StartEnds(With("failed"), "error")
      BY <1>3, <1>4, <2>2
    <2>3. CASE sup' \in StopEnds(With("failed"), "error")
      <3>1. With("failed") \in SupType /\ With("failed").stop = sup.stop
        BY <1>2, <1>3
      <3> HIDE DEF With
      <3>2. QED
        BY <1>10, <2>3, <3>1
    <2>4. QED
      BY <1>11, <2>1, <2>2, <2>3 DEF TimesOut
  <1>12. ASSUME NEW i \in Procs, Exits(i)
         PROVE  StopGoes(sup, sup')
    <2> DEFINE s == [sup EXCEPT !.child = NoProc,
                                !.phase = IF @ \in {"stopping", "stopped"} THEN @ ELSE "failed"]
               f == [s EXCEPT !.phase = "failed"]
               e == [s EXCEPT !.phase = "stopped"]
    <2>1. s \in SupType /\ s.stop = sup.stop
      BY <1>1 DEF SupType, Phases
    <2>2. f \in SupType /\ f.stop = sup.stop /\ e \in SupType /\ e.stop = sup.stop
      <3> HIDE DEF s
      <3>1. QED
        BY <2>1 DEF SupType, Phases
    <2>3. sup' = sup \/ sup' = s \/ sup' \in StartEnds(f, "error") \/ sup' \in StopEnds(e, "ok")
      BY <1>12 DEF Exits
    <2> HIDE DEF s, f, e
    <2>4. QED
      BY <1>10, <2>1, <2>2, <2>3, StartEndsStops DEF StopGoes
  <1>13. ASSUME NEW i \in Procs, ChildErrors(i)
         PROVE  StopGoes(sup, sup')
    <2> DEFINE s == [sup EXCEPT !.child = NoProc, !.phase = "failed", !.errored = @ \cup {i}]
    <2>1. s \in SupType /\ s.stop = sup.stop
      BY <1>1 DEF SupType, Phases
    <2>2. sup' = s \/ sup' \in StartEnds(s, "error") \/ sup' \in StopEnds(s, "error")
      BY <1>13 DEF ChildErrors
    <2> HIDE DEF s
    <2>3. QED
      BY <1>10, <2>1, <2>2, StartEndsStops DEF StopGoes
  <1>14. QED
    BY <1>5, <1>6, <1>7, <1>8, <1>9, <1>11, <1>12, <1>13 DEF SupStep, ChildFails

\* With no start under way the supervisor can only see its child exit or fail, or
\* give up waiting for it.
LEMMA IdleStays ==
    ASSUME IInv, SupStep \/ ChildFails, Idle(sup)
    PROVE  /\ Idle(sup')
           /\ NoneOwed => NoneOwed'
           /\ sup'.stopped \in {sup.stopped, "error"} \/ NoneOwed'
  <1>1. sup \in SupType
    BY DEF IInv, Consistent
  <1>2. CASE TimesOut
    <2>1. UNCHANGED proc
      BY <1>2 DEF TimesOut
    <2>2. CASE sup' = [sup EXCEPT !.term = "kill"]
      BY <1>1, <2>1, <2>2 DEF SupType, Idle, NoneOwed, Owes, Alive
    <2>3. CASE sup' \in StopEnds([sup EXCEPT !.phase = "failed"], "error")
      <3> DEFINE f == [sup EXCEPT !.phase = "failed"]
      <3>1. f \in SupType /\ Idle(f) /\ f.errored = sup.errored
        BY <1>1 DEF SupType, Phases, Idle
      <3>2. sup' \in StopEnds(f, "error")
        BY <2>3
      <3> HIDE DEF f
      <3>3. Idle(sup') /\ sup'.stopped = "error" /\ sup'.errored = sup.errored
        BY <3>1, <3>2, StopEndsIdle
      <3>4. QED
        BY <2>1, <3>3 DEF NoneOwed, Owes, Alive
    <2>4. QED
      BY <1>2, <2>2, <2>3 DEF TimesOut, Idle
  <1>3. ASSUME NEW i \in Procs, Exits(i)
        PROVE  /\ Idle(sup')
               /\ NoneOwed => NoneOwed'
               /\ sup'.stopped \in {sup.stopped, "error"} \/ NoneOwed'
    <2> DEFINE s == [sup EXCEPT !.child = NoProc,
                                !.phase = IF @ \in {"stopping", "stopped"} THEN @ ELSE "failed"]
               e == [s EXCEPT !.phase = "stopped"]
    <2>1. s \in SupType /\ Idle(s) /\ s.stopped = sup.stopped /\ s.errored = sup.errored
      BY <1>1 DEF SupType, Phases, Idle
    <2>2. e \in SupType /\ Idle(e) /\ e.errored = sup.errored
      <3> HIDE DEF s
      <3>1. QED
        BY <2>1 DEF SupType, Phases, Idle
    <2>3. sup' = sup \/ (sup.child = i /\ (sup' = s \/ sup' \in StopEnds(e, "ok")))
      BY <1>3 DEF Exits, Idle
    <2>4. \A j \in Procs : Alive(j)' => Alive(j) /\ j # i
      BY <1>3 DEF Exits, IInv, SupTypeOK, Alive
    <2> HIDE DEF s, e
    <2>5. Idle(sup') /\ sup'.errored = sup.errored
      BY <2>1, <2>2, <2>3, StopEndsIdle
    <2>6. NoneOwed => NoneOwed'
      BY <2>4, <2>5 DEF NoneOwed, Owes
    <2>7. sup.child = i => NoneOwed'
      BY <2>4, <2>5 DEF NoneOwed, Owes, IInv, NoLostChild
    <2>8. QED
      BY <2>3, <2>5, <2>6, <2>7
  <1>4. CASE Inspects \/ Rechecks \/ Attaches \/ Spawns \/ Polls
    BY <1>4 DEF Inspects, Rechecks, Attaches, Spawns, Polls, Idle
  <1>5. ASSUME NEW i \in Procs, ChildErrors(i)
        PROVE  /\ Idle(sup')
               /\ NoneOwed => NoneOwed'
               /\ sup'.stopped \in {sup.stopped, "error"} \/ NoneOwed'
    <2> DEFINE s == [sup EXCEPT !.child = NoProc, !.phase = "failed", !.errored = @ \cup {i}]
    <2>1. /\ s \in SupType /\ Idle(s) /\ s.stopped = sup.stopped
          /\ s.errored = sup.errored \cup {i}
      BY <1>1 DEF SupType, Phases, Idle
    <2>2. UNCHANGED proc /\ (sup' = s \/ sup' \in StopEnds(s, "error"))
      BY <1>5 DEF ChildErrors, Idle
    <2> HIDE DEF s
    <2>3. Idle(sup') /\ sup'.errored = sup.errored \cup {i} /\ sup'.stopped \in {sup.stopped, "error"}
      BY <2>1, <2>2, StopEndsIdle
    <2>4. QED
      BY <2>2, <2>3 DEF NoneOwed, Owes, Alive
  <1>6. QED
    BY <1>2, <1>3, <1>4, <1>5 DEF SupStep, ChildFails

-----------------------------------------------------------------------------
(* The steps of the application. *)

Opening == OpenWorkspace \/ Reconnect
Stays == /\ StartIsAwaited /\ StopIsAQuit /\ QuitIsAlone /\ StoppedIsClean

\* The operators by which the application calls its supervisor, as it stands.
LEMMA OpensIsACall ==
    ASSUME LifeInv, Opens(life), life.startup # "starting", UNCHANGED <<proc, other>>
    PROVE  CallStart
  BY DEF LifeInv, StartIsAwaited, Opens, CallStart

LEMMA StopIsACall ==
    ASSUME LifeInv, ~Quitting \/ life.quit = "startup", sup' \in StopCalls(sup),
           UNCHANGED <<proc, other>>
    PROVE  CallStop
  BY DEF LifeInv, StopIsAQuit, CallStop, Quitting

\* Every step of the application is one of its supervisor, a call of it, or
\* none of its business.
LEMMA LifeStepMaps ==
    ASSUME LifeInv, LifeNext
    PROVE  SupNext \/ UNCHANGED supVars
  <1>1. ASSUME StartupEnds(life), life.startup # "none", UNCHANGED <<proc, other>>
        PROVE  CallStop \/ UNCHANGED supVars
    <2>1. CASE [life EXCEPT !.startup = "none"].quit = "startup"
      <3>1. life.quit = "startup"
        BY <2>1 DEF LifeInv, LifeType
      <3>2. QED
        BY <1>1, <2>1, <3>1, StopIsACall DEF StartupEnds
    <2>2. CASE [life EXCEPT !.startup = "none"].quit # "startup"
      BY <1>1, <2>2 DEF StartupEnds, supVars
    <2>3. QED
      BY <2>1, <2>2
  <1>2. ASSUME OpenFails(life), life.startup # "none", UNCHANGED <<proc, other>>
        PROVE  CallStop \/ UNCHANGED supVars
    BY <1>1, <1>2 DEF OpenFails, supVars
  <1>3. CASE SystemRuns
    BY <1>3 DEF SystemRuns, SupNext
  <1>4. CASE SupRuns \/ ErrorRuns
    BY <1>4 DEF SupRuns, ErrorRuns, SupNext
  <1>5. CASE Opening
    BY <1>5, OpensIsACall DEF Opening, OpenWorkspace, Reconnect, SupNext
  <1>6. CASE StartReturns
    BY <1>1, <1>2, <1>6 DEF StartReturns, SupNext, supVars
  <1>7. CASE Loads
    BY <1>1, <1>2, <1>7 DEF Loads, SupNext
  <1>8. CASE DialogAnswered
    BY <1>1, <1>8, OpensIsACall, StopIsACall DEF DialogAnswered, SupNext
  <1>9. CASE BeforeQuit
    BY <1>9, StopIsACall DEF BeforeQuit, SupNext, supVars
  <1>10. CASE StopReturns \/ BoxClosed \/ Exit
    BY <1>10 DEF StopReturns, BoxClosed, Exit, supVars
  <1>11. QED
    BY <1>3, <1>4, <1>5, <1>6, <1>7, <1>8, <1>9, <1>10 DEF LifeNext, Opening

\* What StopCalls settles at once, it settles well, and with nothing running.
LEMMA StopCallsSettles ==
    ASSUME IInv, sup' \in StopCalls(sup), UNCHANGED <<proc, other>>
    PROVE  /\ sup'.stop = "none" => NoneOwed'
           /\ Idle(sup) => Idle(sup')
  <1>1. sup \in SupType
    BY DEF IInv, Consistent
  <1>2. CASE sup.start # "none"
    <2>1. sup' = [sup EXCEPT !.stop = "waiting"]
      BY <1>2 DEF StopCalls
    <2>2. QED
      BY <1>1, <1>2, <2>1 DEF SupType, Idle
  <1>3. CASE sup.start = "none" /\ sup.child = NoProc
    <2>1. sup' \in StopEnds(sup, "ok")
      BY <1>3 DEF StopCalls, StopsOwned
    <2>2. sup'.errored = sup.errored
      BY <2>1, StopEndsKeeps DEF IInv
    <2>3. NoneOwed'
      BY <1>3, <2>2 DEF IInv, NoLostChild, NoneOwed, Owes, Alive, NoProc, Procs
    <2>4. QED
      BY <1>1, <2>1, <2>3, StopEndsIdle
  <1>4. CASE sup.start = "none" /\ sup.child # NoProc
    <2>1. sup' = [sup EXCEPT !.phase = "stopping", !.stop = "stopping", !.term = "term"]
      BY <1>4 DEF StopCalls, StopsOwned
    <2>2. QED
      BY <1>1, <2>1 DEF SupType, Idle
  <1>5. QED
    BY <1>2, <1>3, <1>4

\* What a call of start leaves: no stop that there was not.
LEMMA StartCallsStops ==
    ASSUME sup \in SupType, sup' \in StartCalls(sup)
    PROVE  sup'.stop = sup.stop
  BY DEF StartCalls, Begun, SupType

LEMMA OpensKeep ==
    ASSUME LifeInv, Opens(life), UNCHANGED <<proc, other>>
    PROVE  life' \in LifeType /\ life'.startup = "starting" /\ life'.quit = life.quit
           /\ life'.reopened = (life.reopened \/ life.quit # "no") /\ sup'.stop = sup.stop
  <1>1. sup \in SupType /\ life \in LifeType
    BY DEF LifeInv, IInv, Consistent
  <1>2. sup'.stop = sup.stop
    BY <1>1, StartCallsStops DEF Opens
  <1>3. QED
    BY <1>1, <1>2 DEF Opens, LifeType

\* A startup that settles in a supervisor at rest.
LEMMA StartupEndsKeeps ==
    ASSUME LifeInv, StartupEnds(life), UNCHANGED <<proc, other>>, Idle(sup),
           life.quit = "startup" \/ life.quit = "no" \/ life.startup # "none"
    PROVE  life' \in LifeType /\ Stays'
  <1>1. sup \in SupType /\ life \in LifeType /\ IInv
    BY DEF LifeInv, IInv, Consistent
  <1>2. CASE life.quit = "startup"
    <2>1. /\ life' \in LifeType /\ life'.startup = "none" /\ life'.quit = "stopping"
          /\ life'.reopened = life.reopened
          /\ sup' \in StopCalls(sup)
      BY <1>1, <1>2 DEF StartupEnds, LifeType
    <2>2. Idle(sup') /\ (sup'.stop = "none" => NoneOwed')
      BY <1>1, <2>1, StopCallsSettles
    <2>3. QED
      BY <2>1, <2>2 DEF Stays, StartIsAwaited, StopIsAQuit, QuitIsAlone, StoppedIsClean, Idle
  <1>3. CASE life.quit # "startup"
    <2>1. /\ life' \in LifeType /\ life'.startup = "none" /\ life'.quit = life.quit
          /\ life'.reopened = life.reopened /\ sup' = sup
      BY <1>1, <1>3 DEF StartupEnds, LifeType
    <2>2. NoneOwed => NoneOwed'
      BY <2>1 DEF NoneOwed, Owes, Alive
    <2>3. QED
      BY <2>1, <2>2
      DEF LifeInv, Stays, StartIsAwaited, StopIsAQuit, QuitIsAlone, StoppedIsClean, Idle
  <1>4. QED
    BY <1>2, <1>3

LEMMA LifeStepStays ==
    ASSUME LifeInv, LifeNext
    PROVE  life' \in LifeType /\ Stays'
  <1>1. sup \in SupType /\ life \in LifeType /\ IInv
    BY DEF LifeInv, IInv, Consistent
  <1>2. UNCHANGED <<proc, sup>> => (NoneOwed => NoneOwed')
    BY DEF NoneOwed, Owes, Alive
  <1>3. CASE SystemRuns
    <2>1. UNCHANGED <<sup, life>> /\ (NoneOwed => NoneOwed')
      BY <1>1, <1>3 DEF SystemRuns, System, OtherChanges, Serves, Dies, NoneOwed, Owes, Alive,
                        IInv, SupTypeOK
    <2>2. QED
      BY <1>1, <2>1 DEF LifeInv, Stays, StartIsAwaited, StopIsAQuit, QuitIsAlone, StoppedIsClean
  <1>4. CASE SupRuns \/ ErrorRuns
    <2>1. (SupStep \/ ChildFails) /\ UNCHANGED life
      BY <1>4 DEF SupRuns, ErrorRuns
    <2>2. SupNext
      BY <2>1 DEF SupNext
    <2>3. StopSettlesClean
      BY <1>1, <2>2, NextKeeps
    <2>4. StartIsAwaited' /\ StopIsAQuit' /\ QuitIsAlone'
      BY <1>1, <2>1, IdleStays, StopsStay
      DEF StopGoes, LifeInv, StartIsAwaited, StopIsAQuit, QuitIsAlone, Idle
    <2>5. StoppedIsClean'
      <3>1. SUFFICES ASSUME life.quit \in {"stopping", "errorbox", "stopped", "exited"}, ~life.reopened,
                            sup'.stop = "none", sup'.stopped # "error"
                     PROVE  NoneOwed'
        BY <2>1 DEF StoppedIsClean
      <3>2. CASE sup.stop # "none"
        <4>1. sup'.stopped # "none" /\ sup' \in SupType
          BY <1>1, <2>1, <2>2, <3>1, <3>2, StopsStay, NextKeeps
          DEF StopGoes, IInv, Consistent
        <4>2. sup'.stopped = "ok"
          BY <3>1, <4>1 DEF SupType
        <4>3. QED
          BY <2>3, <3>1, <3>2, <4>2 DEF StopSettlesClean, NoneOwed
      <3>3. CASE sup.stop = "none"
        <4>1. Idle(sup)
          BY <3>1 DEF LifeInv, QuitIsAlone, StartIsAwaited, Idle
        <4>2. QED
          BY <1>1, <2>1, <3>1, <3>3, <4>1, IdleStays DEF LifeInv, StoppedIsClean
      <3>4. QED
        BY <3>2, <3>3
    <2>6. QED
      BY <1>1, <2>1, <2>4, <2>5 DEF Stays
  <1>5. ASSUME Opens(life), UNCHANGED <<proc, other>>, life.quit \notin {"errorbox", "stopped", "exited"},
               life.quit = "stopping" => sup.stop # "none"
        PROVE  life' \in LifeType /\ Stays'
    BY <1>5, OpensKeep DEF LifeInv, Stays, StartIsAwaited, StopIsAQuit, QuitIsAlone, StoppedIsClean,
                           LifeType
  <1>6. ASSUME OpenFails(life), UNCHANGED <<proc, other>>, Idle(sup), life.startup # "none"
        PROVE  life' \in LifeType /\ Stays'
    <2>1. CASE life.quit # "no"
      BY <1>6, <2>1, StartupEndsKeeps DEF OpenFails
    <2>2. CASE life.quit = "no"
      <3>1. life' \in LifeType /\ life'.startup = "dialog" /\ life'.quit = "no" /\ sup' = sup
        BY <1>1, <1>6, <2>2 DEF OpenFails, LifeType
      <3>2. QED
        BY <1>6, <2>2, <3>1 DEF LifeInv, Stays, StartIsAwaited, StopIsAQuit, QuitIsAlone,
                                StoppedIsClean, Idle
    <2>3. QED
      BY <2>1, <2>2
  <1>7. ASSUME life' \in LifeType, life'.quit = "stopping", life'.startup = "none",
               life.startup \in {"none", "dialog"},
               sup' \in StopCalls(sup), UNCHANGED <<proc, other>>
        PROVE  Stays'
    <2>1. Idle(sup)
      BY <1>7 DEF LifeInv, StartIsAwaited, Idle
    <2>2. QED
      BY <1>1, <1>7, <2>1, StopCallsSettles
      DEF Stays, StartIsAwaited, StopIsAQuit, QuitIsAlone, StoppedIsClean, Idle
  <1>8. CASE Opening
    BY <1>5, <1>8 DEF Opening, OpenWorkspace, Reconnect, Quitting
  <1>9. CASE StartReturns
    <2>1. Idle(sup) /\ life.startup = "starting" /\ UNCHANGED <<proc, other>>
      BY <1>9 DEF StartReturns, Idle
    <2>2. CASE StartupEnds(life) \/ OpenFails(life)
      BY <1>6, <2>1, <2>2, StartupEndsKeeps
    <2>3. CASE sup' = sup /\ life' = [life EXCEPT !.startup = "loading", !.window = TRUE] /\ ~Quitting
      <3>1. life' \in LifeType /\ life'.quit = life.quit /\ life'.reopened = life.reopened
        BY <1>1, <2>3 DEF LifeType
      <3>2. QED
        BY <1>2, <2>1, <2>3, <3>1
        DEF LifeInv, Stays, StartIsAwaited, StopIsAQuit, QuitIsAlone, StoppedIsClean, Idle, Quitting
    <2>4. QED
      BY <1>9, <2>2, <2>3 DEF StartReturns
  <1>10. CASE Loads
    <2>1. Idle(sup) /\ life.startup = "loading"
      BY <1>10 DEF Loads, LifeInv, StartIsAwaited, Idle
    <2>2. QED
      BY <1>6, <1>10, <2>1, StartupEndsKeeps DEF Loads
  <1>11. CASE DialogAnswered
    <2>1. Idle(sup) /\ life.startup = "dialog" /\ UNCHANGED <<proc, other>>
      BY <1>11 DEF DialogAnswered, LifeInv, StartIsAwaited, Idle
    <2>2. CASE ~Quitting /\ Opens(life)
      BY <1>5, <2>1, <2>2 DEF Quitting
    <2>3. CASE /\ ~Quitting /\ sup' \in StopCalls(sup)
               /\ life' = [life EXCEPT !.startup = "none", !.quit = "stopping"]
      <3>1. life' \in LifeType /\ life'.quit = "stopping" /\ life'.startup = "none"
        BY <1>1, <2>3 DEF LifeType
      <3>2. QED
        BY <1>7, <2>1, <2>3, <3>1
    <2>4. CASE StartupEnds(life)
      BY <2>1, <2>4, StartupEndsKeeps
    <2>5. QED
      BY <1>11, <2>2, <2>3, <2>4 DEF DialogAnswered
  <1>12. CASE BeforeQuit
    <2>1. CASE life.startup = "none"
      <3>1. life' \in LifeType /\ life'.quit = "stopping" /\ life'.startup = "none"
        BY <1>1, <1>12, <2>1 DEF BeforeQuit, LifeType
      <3>2. QED
        BY <1>7, <1>12, <2>1, <3>1 DEF BeforeQuit
    <2>2. CASE life.startup # "none"
      <3>1. /\ life' \in LifeType /\ life'.quit = "startup" /\ life'.startup = life.startup
            /\ sup' = sup /\ ~Quitting
        BY <1>1, <1>12, <2>2 DEF BeforeQuit, LifeType
      <3>2. QED
        BY <3>1
        DEF LifeInv, Stays, StartIsAwaited, StopIsAQuit, QuitIsAlone, StoppedIsClean, Quitting
    <2>3. QED
      BY <2>1, <2>2
  <1>13. CASE StopReturns \/ BoxClosed \/ Exit
    <2>1. /\ life' \in LifeType /\ life'.quit \in {"errorbox", "stopped", "exited"} /\ sup' = sup
          /\ life'.startup = life.startup /\ life'.reopened = life.reopened /\ UNCHANGED proc
          /\ life.quit \in {"stopping", "errorbox", "stopped"} /\ sup.stop = "none"
      BY <1>1, <1>13 DEF StopReturns, BoxClosed, Exit, LifeType, LifeInv, StopIsAQuit
    <2>2. QED
      BY <1>2, <2>1 DEF LifeInv, Stays, StartIsAwaited, StopIsAQuit, QuitIsAlone, StoppedIsClean
  <1>14. QED
    BY <1>3, <1>4, <1>8, <1>9, <1>10, <1>11, <1>12, <1>13 DEF LifeNext, Opening

-----------------------------------------------------------------------------
(* The invariant. *)

LEMMA LifeKeeps ==
    ASSUME LifeInv, [LifeNext]_lifeVars
    PROVE  LifeInv' /\ StopSettlesClean /\ [SupNext]_supVars
  <1>1. CASE LifeNext
    <2>1. [SupNext]_supVars
      BY <1>1, LifeStepMaps
    <2>2. IInv' /\ StopSettlesClean
      BY <2>1, NextKeeps DEF LifeInv
    <2>3. QED
      BY <1>1, <2>1, <2>2, LifeStepStays DEF LifeInv, Stays
  <1>2. CASE UNCHANGED lifeVars
    <2>1. UNCHANGED supVars /\ UNCHANGED life
      BY <1>2 DEF lifeVars, supVars
    <2>2. IInv' /\ StopSettlesClean
      BY <2>1, NextKeeps DEF LifeInv
    <2>3. QED
      BY <2>1, <2>2 DEF supVars, LifeInv, StartIsAwaited, StopIsAQuit, QuitIsAlone, StoppedIsClean,
                        NoneOwed, Owes, Alive
  <1>3. QED
    BY <1>1, <1>2

LEMMA LifeInitInv ==
    ASSUME LifeInit
    PROVE  LifeInv
  <1>1. IInv /\ SupInit
    BY InitInv DEF LifeInit
  <1>2. QED
    BY <1>1 DEF LifeInit, LifeInv, LifeType, SupInit, StartIsAwaited, StopIsAQuit, QuitIsAlone,
                StoppedIsClean

LEMMA LifeInvMeans ==
    ASSUME LifeInv
    PROVE  LifeTypeOK /\ NoLostChild /\ ExitLeavesNothing
  <1>1. life.quit = "exited" => sup.stop = "none"
    BY DEF LifeInv, StopIsAQuit
  <1>2. QED
    BY <1>1 DEF LifeInv, IInv, LifeTypeOK, ExitLeavesNothing, StoppedIsClean, NoneOwed

\* The supervisor and the application of the behaviours that are about them.
EndsInv ==
    /\ part \in {"outreach", "supervisor", "desktop"}
    /\ part = "supervisor" => IInv
    /\ part = "desktop" => LifeInv

LEMMA EndsInvInit ==
    ASSUME EndsInit
    PROVE  EndsInv
  BY InitInv, LifeInitInv DEF EndsInit, EndsInv

LEMMA EndsInvNext ==
    ASSUME EndsInv, [EndsNext]_allVars
    PROVE  EndsInv' /\ [part # "outreach" => StopSettlesClean]_allVars
  <1>1. CASE OutreachRuns
    BY <1>1 DEF OutreachRuns, EndsInv
  <1>2. CASE SupervisorRuns
    BY <1>2, NextKeeps DEF SupervisorRuns, EndsInv
  <1>3. CASE DesktopRuns
    BY <1>3, LifeKeeps DEF DesktopRuns, EndsInv
  <1>4. CASE UNCHANGED allVars
    <2>1. UNCHANGED part /\ UNCHANGED lifeVars /\ UNCHANGED supVars
      BY <1>4 DEF allVars, lifeVars, supVars
    <2>2. QED
      BY <1>4, <2>1, NextKeeps, LifeKeeps DEF EndsInv
  <1>5. QED
    BY <1>1, <1>2, <1>3, <1>4 DEF EndsNext

-----------------------------------------------------------------------------
(* Check-ins, returns and routes: what OutreachProofs says of Outreach holds in the *)
(* behaviours that are about it.                                                    *)

O == INSTANCE OutreachProofs

LEMMA OutreachConstants == O!OutreachAssumption
  BY EndsAssumption DEF O!OutreachAssumption

LEMMA OutreachInitSame == Out!Init => O!Init
  BY Zenon DEF Out!Init, O!Init, Out!Loops, O!Loops, Out!NoRoute, O!NoRoute,
         Out!NoTask, O!NoTask, Out!FreshJournal, O!FreshJournal, Out!NoEvent,
         O!NoEvent, Out!Bound, O!Bound

LEMMA OutreachNextSame == Out!Next => O!Next
  BY Zenon DEF Out!Next, O!Next, Out!Cardinality, O!Cardinality, Out!Outside, O!Outside, Out!Lapses, O!Lapses,
         Out!Yielding, O!Yielding, Out!Loops, O!Loops, Out!StartService,
         O!StartService, Out!NoTask, O!NoTask, Out!Going, O!Going, Out!Bound, O!Bound,
         Out!Crash, O!Crash, Out!FreshJournal, O!FreshJournal, Out!NoEvent, O!NoEvent,
         Out!NoRoute, O!NoRoute, Out!RecoverBegins, O!RecoverBegins, Out!RouteOnly,
         O!RouteOnly, Out!Free, O!Free, Out!ContextChanges, O!ContextChanges,
         Out!Preempted, O!Preempted, Out!Live, O!Live, Out!StaleIn, O!StaleIn,
         Out!Marked, O!Marked, Out!InPlace, O!InPlace, Out!Write, O!Write,
         Out!PreemptSave, O!PreemptSave, Out!Begin, O!Begin, Out!Kept, O!Kept,
         Out!ReturnAdmitted, O!ReturnAdmitted, Out!CheckInAdmitted, O!CheckInAdmitted,
         Out!RouteBegins, O!RouteBegins, Out!RecoverStages, O!RecoverStages,
         Out!Detached, O!Detached, Out!HumanCommits, O!HumanCommits, Out!Commit,
         O!Commit, Out!NextRev, O!NextRev, Out!SetupBegins, O!SetupBegins,
         Out!CommitThenPreempt, O!CommitThenPreempt, Out!Compress, O!Compress,
         Out!Outcomes, O!Outcomes, Out!RecoverClears, O!RecoverClears, Out!SaveMeta,
         O!SaveMeta, Out!Rename, O!Rename, Out!Send, O!Send, Out!RouteStep,
         O!RouteStep, Out!RecoverEnds, O!RecoverEnds, Out!Resolved, O!Resolved,
         Out!Said, O!Said, Out!SwitchCommits, O!SwitchCommits, Out!At, O!At,
         Out!ControlCommits, O!ControlCommits, Out!RouteFails, O!RouteFails,
         Out!RouteLocks, O!RouteLocks, Out!RouteWaits, O!RouteWaits, Out!AwaitOf,
         O!AwaitOf, Out!HumanStep, O!HumanStep, Out!HumanEnds, O!HumanEnds,
         Out!HumanLocks, O!HumanLocks, Out!HumanOnly, O!HumanOnly, Out!HumanWaits,
         O!HumanWaits, Out!TaskStep, O!TaskStep, Out!Closes, O!Closes,
         Out!RefreshFails, O!RefreshFails, Out!Unkept, O!Unkept, Out!Release,
         O!Release, Out!Told, O!Told, Out!Finishes, O!Finishes, Out!Runs, O!Runs,
         Out!Records, O!Records, Out!Goes, O!Goes, Out!Accept, O!Accept, Out!Current,
         O!Current, Out!Opens, O!Opens, Out!Proceeds, O!Proceeds, Out!Cancelled,
         O!Cancelled, Out!Refreshes, O!Refreshes, Out!AppendFails, O!AppendFails,
         Out!AppendRow, O!AppendRow, Out!EventRow, O!EventRow, Out!Appends, O!Appends,
         Out!StaysQuiet, O!StaysQuiet, Out!Killed, O!Killed, Out!Leaves, O!Leaves,
         Out!TimesOut, O!TimesOut, Out!Acquire, O!Acquire, Out!Fails, O!Fails,
         Out!Start, O!Start

LEMMA OutreachTypesSame == O!TypeOK => Out!TypeOK
  BY Zenon DEF Out!TypeOK, O!TypeOK, Out!Loops, O!Loops, Out!Task, O!Task,
         Out!Statuses, O!Statuses, Out!Journal, O!Journal, Out!Event, O!Event

OutreachHolds == part = "outreach" => O!OutInv

LEMMA OutreachHoldsFirst ==
    ASSUME EndsInit
    PROVE  OutreachHolds
  BY OutreachConstants, OutreachInitSame, O!InitKeeps DEF EndsInit, OutreachHolds

LEMMA OutreachHoldsOn ==
    ASSUME OutreachHolds, [EndsNext]_allVars
    PROVE  OutreachHolds'
  <1>1. CASE OutreachRuns
    BY <1>1, OutreachConstants, OutreachNextSame, O!NextKeeps DEF OutreachRuns, OutreachHolds
  <1>2. CASE SupervisorRuns \/ DesktopRuns
    BY <1>2 DEF SupervisorRuns, DesktopRuns, OutreachHolds
  <1>3. CASE UNCHANGED allVars
    <2>1. UNCHANGED part /\ UNCHANGED O!vars
      BY <1>3 DEF allVars, outVars, O!vars
    <2>2. QED
      BY <2>1, OutreachConstants, O!StillKeeps DEF OutreachHolds
  <1>4. QED
    BY <1>1, <1>2, <1>3 DEF EndsNext

-----------------------------------------------------------------------------
(* The theorems. *)

\* The application calls its supervisor only as the supervisor may be called: what is
\* proved of the supervisor under any calls holds of it in the application.
THEOREM ApplicationIsACaller == LifeSpec => SupSpec
  <1>1. LifeInit => LifeInv /\ SupInit
    BY LifeInitInv DEF LifeInit
  <1>2. LifeInv /\ [LifeNext]_lifeVars => LifeInv' /\ [SupNext]_supVars
    BY LifeKeeps
  <1>3. QED
    BY <1>1, <1>2, PTL DEF LifeSpec, SupSpec

\* The state of the application, its supervisor and its processes is well typed.
THEOREM LifeTyped == LifeSpec => []LifeTypeOK
  <1>1. LifeInit => LifeInv
    BY LifeInitInv
  <1>2. LifeInv /\ [LifeNext]_lifeVars => LifeInv'
    BY LifeKeeps
  <1>3. LifeInv => LifeTypeOK
    BY LifeInvMeans
  <1>4. QED
    BY <1>1, <1>2, <1>3, PTL DEF LifeSpec

\* With the application as its caller or under any calls, a process the supervisor
\* started and that still runs is its child, unless an error event of that very process
\* made it give the process up (backend-supervisor.cjs, main.cjs).
THEOREM ChildrenOwned == EndsSpec => []ChildrenAreOwned
  <1>1. EndsInit => EndsInv
    BY EndsInvInit
  <1>2. EndsInv /\ [EndsNext]_allVars => EndsInv'
    BY EndsInvNext
  <1>3. EndsInv => ChildrenAreOwned
    BY LifeInvMeans DEF EndsInv, IInv, ChildrenAreOwned
  <1>4. QED
    BY <1>1, <1>2, <1>3, PTL DEF EndsSpec

\* An application that has exited leaves nothing running that its supervisor answers for,
\* unless its stop reported an error or the workspace was opened again while it was
\* quitting (main.cjs, before-quit).
THEOREM ExitsClean == EndsSpec => []ExitIsClean
  <1>1. EndsInit => EndsInv
    BY EndsInvInit
  <1>2. EndsInv /\ [EndsNext]_allVars => EndsInv'
    BY EndsInvNext
  <1>3. EndsInv => ExitIsClean
    BY LifeInvMeans DEF EndsInv, ExitIsClean
  <1>4. QED
    BY <1>1, <1>2, <1>3, PTL DEF EndsSpec

\* A stop that resolves, also one the application called on its way out, leaves nothing
\* running that the supervisor answers for (backend-supervisor.cjs, stop).
THEOREM StopsFinal == EndsSpec => StopsAreFinal
  <1>1. EndsInit => EndsInv
    BY EndsInvInit
  <1>2. EndsInv /\ [EndsNext]_allVars => EndsInv' /\ [part # "outreach" => StopSettlesClean]_allVars
    BY EndsInvNext
  <1>3. QED
    BY <1>1, <1>2, PTL DEF EndsSpec, StopsAreFinal

\* Everything the service, the supervisor and the application keep has its type, in every
\* behaviour of the three (MCEnds).
THEOREM EndsTyped == EndsSpec => []EndsTypeOK
  <1>1. EndsInit => EndsInv /\ OutreachHolds
    BY EndsInvInit, OutreachHoldsFirst
  <1>2. EndsInv /\ OutreachHolds /\ [EndsNext]_allVars => (EndsInv /\ OutreachHolds)'
    BY EndsInvNext, OutreachHoldsOn
  <1>3. EndsInv /\ OutreachHolds => EndsTypeOK
    <2>1. ASSUME OutreachHolds, part = "outreach" PROVE Out!TypeOK
      BY <2>1, OutreachConstants, OutreachTypesSame, O!OutInvIsTyped DEF OutreachHolds
    <2>2. ASSUME EndsInv, part = "supervisor" PROVE SupTypeOK
      BY <2>2 DEF EndsInv, IInv
    <2>3. ASSUME EndsInv, part = "desktop" PROVE LifeTypeOK
      BY <2>3, LifeInvMeans DEF EndsInv
    <2>4. QED
      BY <2>1, <2>2, <2>3 DEF EndsTypeOK, EndsInv
  <1>4. QED
    BY <1>1, <1>2, <1>3, PTL DEF EndsSpec
=============================================================================
