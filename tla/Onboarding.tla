------------------------------- MODULE Onboarding -------------------------------
(***************************************************************************)
(* The guided setup: what the person is shown and approves                 *)
(* (web/onboarding/onboarding.js) and the record the service keeps of it   *)
(* (app/onboarding.py, chat_service.py control_onboarding).  An answer may *)
(* be lost or come late; an approval that could not be confirmed is tried  *)
(* again under the same request.  The card shows one goal of the proposal, *)
(* the focus or the first; an approval saves all of its goals.             *)
(***************************************************************************)
EXTENDS Integers

CONSTANT MaxEvents   \* bound: turns, clicks, snapshots and faults

VARIABLES
    setup,   \* the onboarding record of the service, and whether a turn is running
    guide,   \* the closure of mountOnboarding
    told,    \* the last snapshot of the client
    post,    \* the command of this window
    late,    \* a command whose caller gave up, still on its way
    events   \* bound: what may still happen

onboardingVars == <<setup, guide, told, post, late, events>>

NoPost == [action |-> "none", request |-> 0, revision |-> 0]
Orders == {"accept", "skip", "dismiss", "finish"}
Revisions == 0 .. MaxEvents + 2
Requests == 0 .. MaxEvents
SetupStatuses == {"draft", "proposed", "complete", "skipped"}

\* A proposal: the goal of the card, and the other goals, each as a revision made it.
Plans == [goal : Revisions, rest : Revisions]

Posts == [action : Orders \cup {"none"}, request : Requests, revision : Revisions]
Setups == [status : SetupStatuses, revision : Revisions, plan : Plans, kept : Plans,
           support : {"pending", "dismissed", "complete"}, busy : BOOLEAN, moved : BOOLEAN,
           receipts : SUBSET Posts]
Tellings == [status : SetupStatuses, revision : Revisions, plan : Plans,
             support : {"pending", "dismissed", "complete"}, busy : BOOLEAN,
             connected : BOOLEAN]

OnboardingTypeOK ==
    /\ setup.status \in SetupStatuses /\ setup.revision \in Revisions
    /\ setup.plan \in Plans /\ setup.kept \in Plans /\ setup.receipts \subseteq Posts
    /\ told \in Tellings /\ post \in Posts /\ late \in Posts
    /\ guide \in [mounted : BOOLEAN, home : BOOLEAN, pending : Posts, busy : BOOLEAN,
                  error : BOOLEAN, applied : Revisions, started : 0 .. 2,
                  next : Requests, shown : SUBSET Revisions, meant : SUBSET Plans]
    /\ events \in 0 .. MaxEvents

Public(s, connected) ==
    [status |-> s.status, revision |-> s.revision, plan |-> s.plan, support |-> s.support,
     busy |-> s.busy, connected |-> connected]

OnboardingInit ==
    /\ setup = [status |-> "draft", revision |-> 0, plan |-> [goal |-> 0, rest |-> 0],
                kept |-> [goal |-> 0, rest |-> 0], support |-> "pending", busy |-> FALSE,
                moved |-> FALSE, receipts |-> {}]
    /\ told = Public(setup, TRUE)
    /\ guide = [mounted |-> TRUE, home |-> TRUE, pending |-> NoPost, busy |-> FALSE,
                error |-> FALSE, applied |-> 0, started |-> 0, next |-> 0, shown |-> {},
                meant |-> {}]
    /\ post = NoPost /\ late = NoPost /\ events = MaxEvents

-----------------------------------------------------------------------------
(* onboarding.py and control_onboarding. *)

Happens == events > 0 /\ events' = events - 1
Active(s) == s.status \in {"draft", "proposed"}

Repeated(s, c) == c \in s.receipts

\* Mutant: the revision a command was based on is not compared.
MutAllowed(s, c) ==
    /\ ~s.busy
    /\ CASE c.action = "accept" -> s.status = "proposed" /\ ~s.moved
         [] c.action = "skip" -> Active(s)
         [] OTHER -> s.status = "complete"

\* A command is applied to the revision it is based on; an approval also needs a goal,
\* and goals that have not moved since the setup began.
Allowed(s, c) ==
    /\ ~s.busy /\ c.revision = s.revision
    /\ CASE c.action = "accept" -> s.status = "proposed" /\ ~s.moved
         [] c.action = "skip" -> Active(s)
         [] OTHER -> s.status = "complete"

Applied(s, c) ==
    LET done == [s EXCEPT !.revision = @ + 1, !.receipts = @ \cup {c}] IN
    CASE c.action = "accept" -> [done EXCEPT !.status = "complete", !.kept = s.plan]
      [] c.action = "skip" -> [done EXCEPT !.status = "skipped"]
      [] OTHER -> [done EXCEPT !.support = IF c.action = "finish" THEN "complete" ELSE "dismissed"]

\* A repeated request answers with the state there is, a refused one with an error.
Handled(s, c) == IF ~s.busy /\ Repeated(s, c) THEN s ELSE IF Allowed(s, c) THEN Applied(s, c) ELSE s
Answered(s, c) == ~s.busy /\ (Repeated(s, c) \/ Allowed(s, c))

\* The conversation changes the goal of the card, other goals, or only the arrangement of the
\* workspace; it ends without a change, or another window uses or changes the goals,
\* which ends the setup when it is open.
TurnChanges ==
    /\ Happens
    /\ \/ setup.busy /\ setup' = [setup EXCEPT !.busy = FALSE]
       \/ ~setup.busy /\ setup' = [setup EXCEPT !.busy = TRUE]
       \/ /\ setup.busy /\ Active(setup)
          /\ \E st \in {"draft", "proposed"}, g \in {setup.plan.goal, setup.revision + 1},
                r \in {setup.plan.rest, setup.revision + 1} :
               setup' = [setup EXCEPT !.busy = FALSE, !.revision = @ + 1, !.status = st,
                                      !.plan = [goal |-> g, rest |-> r]]
       \/ ~setup.busy /\ Active(setup)
            /\ setup' = [setup EXCEPT !.status = "skipped", !.revision = @ + 1]
       \/ setup' = [setup EXCEPT !.moved = TRUE]
    /\ UNCHANGED <<guide, told, post, late>>

-----------------------------------------------------------------------------
(* onboarding.js. *)

\* render: the shell is mounted on Home while the setup is open; a finished setup is
\* applied once for each revision.
Shown(g, t) ==
    [g EXCEPT !.mounted = g.home /\ t.status \in {"draft", "proposed"},
              !.applied = IF t.status = "complete" THEN t.revision ELSE @]

Blocked == guide.busy \/ told.busy \/ ~told.connected
CanAccept == guide.mounted /\ told.status = "proposed" /\ ~Blocked

\* The invitation to connect optional support, shown on Home once the setup is complete.
Invited == guide.home /\ told.status = "complete" /\ told.support = "pending"

\* acceptWorkspace: an approval that was not confirmed keeps its request and its revision.
Approval ==
    IF guide.pending # NoPost THEN guide.pending
    ELSE [action |-> "accept", request |-> guide.next + 1, revision |-> told.revision]

\* "Save goal & start": the person sees the goal of the card and not the others.
Approves ==
    /\ Happens /\ CanAccept /\ post = NoPost /\ guide.next < MaxEvents
    /\ guide' = [guide EXCEPT !.pending = Approval, !.busy = TRUE, !.error = FALSE,
                              !.next = IF guide.pending = NoPost THEN @ + 1 ELSE @,
                              !.shown = @ \cup {told.plan.goal}, !.meant = @ \cup {told.plan}]
    /\ post' = Approval
    /\ UNCHANGED <<setup, told, late>>

\* command: Skip setup, and Later or Finish of the invitation.
Offered == {o \in Orders : CASE o = "accept" -> FALSE
                             [] o = "skip" -> guide.mounted
                             [] OTHER -> Invited}
Commands ==
    /\ Happens /\ ~guide.busy /\ post = NoPost /\ guide.next < MaxEvents
    /\ \E o \in Offered :
         /\ post' = [action |-> o, request |-> guide.next + 1, revision |-> told.revision]
         /\ guide' = [guide EXCEPT !.busy = TRUE, !.error = FALSE, !.next = @ + 1]
    /\ UNCHANGED <<setup, told, late>>

\* The service answers.  A confirmed approval starts the goal; one that is refused, or
\* answered by another state, is dropped and the person reviews the proposal again.
PostAnswered ==
    /\ post # NoPost
    /\ setup' = Handled(setup, post)
    /\ LET ok == Answered(setup, post)
           accept == post.action = "accept"
           won == ok /\ accept /\ setup'.status = "complete"
           next == [guide EXCEPT !.busy = FALSE,
                                 !.error = ~ok \/ (accept /\ ~won),
                                 !.pending = IF accept THEN NoPost ELSE @,
                                 !.started = IF won /\ @ < 2 THEN @ + 1 ELSE @]
       IN  /\ told' = IF ok THEN Public(setup', TRUE) ELSE told
           /\ guide' = Shown(next, told')
    /\ post' = NoPost
    /\ UNCHANGED <<late, events>>

\* No answer in 15 seconds: the command may be lost, be applied already, or come later.
PostLost ==
    /\ post # NoPost /\ Happens
    /\ \/ setup' = Handled(setup, post) /\ UNCHANGED late
       \/ UNCHANGED <<setup, late>>
       \/ late = NoPost /\ late' = post /\ UNCHANGED setup
    /\ guide' = [guide EXCEPT !.busy = FALSE, !.error = TRUE]
    /\ post' = NoPost /\ UNCHANGED told

LateCommandComes ==
    /\ late # NoPost
    /\ setup' = Handled(setup, late) /\ late' = NoPost
    /\ UNCHANGED <<guide, told, post, events>>

\* A snapshot of the poll (which waits for a command of this window), or none: offline.
OnboardingUpdates ==
    /\ Happens /\ post = NoPost
    /\ \E c \in BOOLEAN :
         told' = IF c THEN Public(setup, TRUE) ELSE [told EXCEPT !.connected = FALSE]
    /\ guide' = Shown(guide, told')
    /\ UNCHANGED <<setup, post, late>>

ChangesPage ==
    /\ Happens
    /\ guide' = Shown([guide EXCEPT !.home = ~@], told)
    /\ UNCHANGED <<setup, told, post, late>>

OnboardingNext ==
    \/ TurnChanges \/ Approves \/ Commands \/ PostAnswered \/ PostLost
    \/ LateCommandComes \/ OnboardingUpdates \/ ChangesPage

OnboardingSpec == OnboardingInit /\ [][OnboardingNext]_onboardingVars

-----------------------------------------------------------------------------
(* Properties. *)

\* The goal under the card is saved as the person saw it when they chose "Save goal & start",
\* and the goals the card does not show are those that were proposed with it then, however
\* approvals are lost, late or repeated while the conversation changes either; the goal is
\* started at most once.
ProposalIsTheOneApproved ==
    /\ setup.status = "complete" => setup.kept.goal \in guide.shown /\ setup.kept \in guide.meant
    /\ guide.started <= 1
=============================================================================
