-------------------------------- MODULE MCEnds --------------------------------
(* What must end does end, in three independent parts of felis for TLC, one to a *)
(* behaviour: check-ins, returns and the routes beside them (Outreach), the      *)
(* supervisor under any calls (Supervisor), and the desktop application over it  *)
(* (DesktopLife).  The variables of the parts a behaviour is not about are Off.  *)
EXTENDS DesktopLife, TLC

CONSTANTS CheckIns, Returns, Keys, NoKey, KeepEvents, Routes, MaxEpoch, MaxRev, MaxFaults, MaxCrashes

\* What Outreach assumes of its constants.
ASSUME EndsAssumption ==
    /\ CheckIns \in Nat /\ Returns \in Nat /\ KeepEvents \in Nat \ {0}
    /\ NoKey \notin Keys
    /\ Routes \subseteq {"control", "switch", "setup", "recover", "compress", "rename"}
    /\ {MaxEpoch, MaxRev, MaxFaults, MaxCrashes} \subseteq Nat

VARIABLES part, up, mem, disk, rows, task, lock, human, route, made, faults, crashes

Out == INSTANCE Outreach

Off == "off"
outVars == <<up, mem, disk, rows, task, lock, human, route, made, faults, crashes>>
allVars == <<part, lifeVars, outVars>>


DesktopOff == proc = Off /\ other = Off /\ sup = Off /\ life = Off
OutreachOff ==
    /\ up = Off /\ mem = Off /\ disk = Off /\ rows = Off /\ task = Off /\ lock = Off
    /\ human = Off /\ route = Off /\ made = Off /\ faults = Off /\ crashes = Off

EndsInit ==
    \/ part = "outreach" /\ Out!Init /\ DesktopOff
    \/ part = "supervisor" /\ SupInit /\ life = Off /\ OutreachOff
    \/ part = "desktop" /\ LifeInit /\ OutreachOff

OutreachRuns == part = "outreach" /\ Out!Next /\ UNCHANGED <<part, lifeVars>>
SupervisorRuns == part = "supervisor" /\ SupNext /\ UNCHANGED <<part, life, outVars>>
DesktopRuns == part = "desktop" /\ LifeNext /\ UNCHANGED <<part, outVars>>

EndsNext == OutreachRuns \/ SupervisorRuns \/ DesktopRuns

\* The fairness of each part (FairSpec, SupFairSpec and LifeFairSpec), in its behaviours.
EndsSpec ==
    /\ EndsInit /\ [][EndsNext]_allVars
    /\ \A l \in {"checkin", "return"} : WF_outVars(part = "outreach" /\ Out!TaskStep(l))
    /\ WF_outVars(part = "outreach" /\ Out!HumanStep)
    /\ WF_outVars(part = "outreach" /\ Out!RouteStep)
    /\ WF_supVars(part = "supervisor" /\ SupStep)
    /\ WF_lifeVars(part = "desktop" /\ SupRuns)
    /\ WF_lifeVars(part = "desktop" /\ StartReturns)
    /\ WF_lifeVars(part = "desktop" /\ StopReturns) /\ WF_lifeVars(part = "desktop" /\ Exit)

-----------------------------------------------------------------------------
(* The properties of the parts. *)

\* Everything has its type.
EndsTypeOK ==
    CASE part = "outreach" -> Out!TypeOK
      [] part = "supervisor" -> SupTypeOK
      [] OTHER -> LifeTypeOK

\* Outreach!TurnBegins: the person's turn never waits for ever for what it preempted.
TurnBegins ==
    (part = "outreach" /\ human \in {"wait_return", "wait_checkin", "lock"})
        ~> (part = "outreach" /\ human \in {"turn", "none"})

\* Outreach!RouteEnds: no route keeps chat.lock for ever.
RouteEnds == (part = "outreach" /\ route # Out!NoRoute) ~> (part = "outreach" /\ route = Out!NoRoute)

\* A start of the supervisor settles, whatever the processes, the port and other calls do:
\* with the stop it waits for, which gives up on a child that ignores both signals.
CallsSettle ==
    (part = "supervisor" /\ (sup.start # "none" \/ sup.queued))
        ~> (part = "supervisor" /\ sup.start = "none" /\ ~sup.queued)

\* An application that quits exits in the end, whatever the service does, unless it waits
\* for a page that does not load or for the person to close a dialog.
QuitEnds == (part = "desktop" /\ Quitting) ~> (part = "desktop" /\ QuitEnded)

\* Supervisor!NoLostChild and Supervisor!StopIsFinal, with and without the application.
ChildrenAreOwned == part # "outreach" => NoLostChild
StopsAreFinal == [][part # "outreach" => StopSettlesClean]_allVars

\* DesktopLife!ExitLeavesNothing.
ExitIsClean == part = "desktop" => ExitLeavesNothing
=============================================================================
