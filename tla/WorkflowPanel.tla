---------------------------- MODULE WorkflowPanel ----------------------------
(***************************************************************************)
(* The card that shows a source run of the open chat:                      *)
(* web/chat/workflow-progress.js and its host in workspace.js.  Each chat  *)
(* keeps its last run (app/chat_catalog.py 26); a finished one stays on    *)
(* the card until the person dismisses it.                                 *)
(***************************************************************************)
EXTENDS Integers, Sequences, Functions, Lists

CONSTANTS RunChats, RunIds, NoRun,
          DismissalCap,  \* dismissals kept (100 in the code)
          MaxShows       \* bound: clicks and reloads

VARIABLES
    work,     \* the service: the last run of each chat, and the open chat
    flow,    \* the panel and the set of dismissed runs in memory
    receipts, \* localStorage: the dismissed runs
    waved,    \* history: the runs dismissed, the newest last, and those of them that were stored
    shows     \* bound

workflowVars == <<work, flow, receipts, waved, shows>>

Ended == {"completed", "partial", "failed", "cancelled", "interrupted"}
Run == [id : RunIds, status : {"running"} \cup Ended, steps : {"none", "running", "done"}]
Idle == [id |-> NoRun, status |-> "none", steps |-> "none"]

WorkflowTypeOK ==
    /\ work.open \in RunChats /\ work.runs \in [RunChats -> Run \cup {Idle}]
    /\ flow.run \in Run \cup {Idle} /\ {flow.expanded, flow.said} \subseteq BOOLEAN
    /\ flow.cancelling \in RunIds \cup {NoRun}
    /\ \A s \in {flow.dismissed, receipts} : Range(s) \subseteq RunIds /\ Len(s) <= DismissalCap
    /\ waved \in [now : Seq(RunIds), stored : Seq(RunIds)] /\ shows \in 0 .. MaxShows

EmptyCard == [run |-> Idle, expanded |-> FALSE, said |-> FALSE, cancelling |-> NoRun,
              dismissed |-> <<>>]

WorkflowInit ==
    /\ work = [open |-> CHOOSE c \in RunChats : TRUE, runs |-> [c \in RunChats |-> Idle]]
    /\ flow = EmptyCard /\ receipts = <<>> /\ waved = [now |-> <<>>, stored |-> <<>>]
    /\ shows = 0

-----------------------------------------------------------------------------
(* workflow-progress.js. *)

\* The last ones, as many as are kept.
Latest(s) == SubSeq(s, IF Len(s) > DismissalCap THEN Len(s) - DismissalCap + 1 ELSE 1, Len(s))

\* rememberWorkflowDismissal: the newest last, the oldest dropped.
Remembered(s, r) == Latest(Append(Only(s, RunIds \ {r}), r))

\* Mutant: the receipts are not read when the page is loaded.
MutFromReceipts(s) == <<>>

\* loadWorkflowDismissals.
FromReceipts(s) == s

\* workflowTransition and render: the end of a run is said once, and closes its details.
Drawn(p, r) ==
    LET ends == p.run # Idle /\ p.run.status # r.status /\ r.status \in Ended IN
    IF r = p.run THEN p
    ELSE [p EXCEPT !.run = r, !.said = ends, !.expanded = IF ends THEN FALSE ELSE @]

\* renderWorkflow and clearWorkflow of workspace.js.
Cleared(p) == [p EXCEPT !.run = Idle, !.expanded = FALSE, !.said = FALSE]
Placed(p, r) == IF r = Idle \/ r.id \in Range(p.dismissed) THEN Cleared(p) ELSE Drawn(p, r)

\* The controls the card offers; that which opens Connections changes nothing here.
OffersDetails(r) == r.steps # "none"
OffersStop(r) == r.status = "running"
OffersDismiss(r) == r.status \in Ended

Counted == shows < MaxShows /\ shows' = shows + 1

\* A snapshot.
CardUpdates ==
    /\ flow' = Placed(flow, work.runs[work.open]) /\ flow' # flow
    /\ UNCHANGED <<work, receipts, waved, shows>>

\* ok: the storage takes the receipts.  When it refuses, the page still knows them.
Dismisses ==
    /\ OffersDismiss(flow.run) /\ Counted
    /\ \E ok \in BOOLEAN :
         LET n == Remembered(flow.dismissed, flow.run.id)
             w == Append(waved.now, flow.run.id)
         IN  /\ flow' = [Cleared(flow) EXCEPT !.dismissed = n]
             /\ receipts' = IF ok THEN n ELSE receipts
             /\ waved' = [now |-> w, stored |-> IF ok THEN w ELSE waved.stored]
    /\ UNCHANGED work

Expands ==
    /\ OffersDetails(flow.run) /\ Counted /\ flow' = [flow EXCEPT !.expanded = ~@]
    /\ UNCHANGED <<work, receipts, waved>>

\* cancelWorkflow: the service cancels the run it names, or refuses; either is shown.
StopsRun ==
    /\ OffersStop(flow.run) /\ flow.cancelling = NoRun /\ Counted
    /\ flow' = [flow EXCEPT !.cancelling = flow.run.id]
    /\ UNCHANGED <<work, receipts, waved>>

StopAnswers ==
    /\ flow.cancelling # NoRun
    /\ \/ \E c \in RunChats :
            /\ work.runs[c].id = flow.cancelling /\ work.runs[c].status = "running"
            /\ work' = [work EXCEPT !.runs[c].status = "cancelled"]
            /\ flow' = [flow EXCEPT !.cancelling = NoRun]
       \/ work' = work /\ flow' = [flow EXCEPT !.cancelling = NoRun]
    /\ UNCHANGED <<receipts, waved, shows>>

ReloadsCard ==
    /\ Counted /\ flow' = [EmptyCard EXCEPT !.dismissed = FromReceipts(receipts)]
    /\ waved' = [waved EXCEPT !.now = waved.stored]
    /\ UNCHANGED <<work, receipts>>

-----------------------------------------------------------------------------
(* The service. *)

RunStarts ==
    /\ work.runs[work.open].status # "running"
    /\ \E r \in RunIds :
         /\ \A c \in RunChats : work.runs[c].id # r
         /\ r \notin Range(waved.now) \cup Range(waved.stored) /\ flow.run.id # r
         /\ work' = [work EXCEPT !.runs[work.open] =
                        [id |-> r, status |-> "running", steps |-> "none"]]
    /\ UNCHANGED <<flow, receipts, waved, shows>>

RunGoesOn ==
    LET r == work.runs[work.open] IN
    /\ r.status = "running"
    /\ \E s \in {"running", "done"} \ {r.steps}, t \in {"running", "completed", "failed"} :
         work' = [work EXCEPT !.runs[work.open].steps = s, !.runs[work.open].status = t]
    /\ UNCHANGED <<flow, receipts, waved, shows>>

\* Another chat is opened; a run of its own waits there.
OpensChat ==
    /\ \E c \in RunChats \ {work.open} :
         work.runs[work.open].status # "running" /\ work' = [work EXCEPT !.open = c]
    /\ UNCHANGED <<flow, receipts, waved, shows>>

WorkflowNext ==
    \/ CardUpdates \/ Dismisses \/ Expands \/ StopsRun \/ StopAnswers \/ ReloadsCard
    \/ RunStarts \/ RunGoesOn \/ OpensChat

WorkflowSpec == WorkflowInit /\ [][WorkflowNext]_workflowVars

-----------------------------------------------------------------------------
(* Properties. *)

\* "Presentation-only receipts keep completed source runs from returning after
\* restart" (workflow-progress.js 17): a dismissed run is not on the card again,
\* in this or another chat, before the page is loaded again and, if the storage took
\* the receipt or that of a later one, after it, as long as fewer runs than the cap were
\* dismissed since; and only a run that is over is ever dismissed.
DismissedStaysAway ==
    /\ flow.run.id \notin Range(Latest(waved.now))
    /\ \A c \in RunChats : work.runs[c].id \in Range(waved.now) => work.runs[c].status # "running"
=============================================================================
