------------------------------ MODULE MailSources ------------------------------
(***************************************************************************)
(* web/connections/briefing-sources.js and app/google_mail.py: which       *)
(* inboxes and calendars may be used in answers.  Connecting an inbox      *)
(* needs the person's consent first; the sign-in happens in the browser    *)
(* while the panel polls.  Commands carry the revision they were decided   *)
(* on.                                                                     *)
(***************************************************************************)
EXTENDS Integers, FiniteSets

CONSTANTS Inboxes,   \* Gmail accounts
          NoInbox,
          MaxMoves   \* bound: what the person, Google and the network do

VARIABLES
    mail,      \* GmailService: revision, accounts, what may be used, the sign-in
    sources,   \* the closure of mountBriefingSources
    fetching,  \* the reads in flight
    posting,   \* the command in flight
    moves      \* bound: moves left

mailVars == <<mail, sources, fetching, posting, moves>>

MailSnapshots == [rev : Int, accounts : SUBSET Inboxes, used : SUBSET Inboxes,
                  broken : SUBSET Inboxes, calendar : BOOLEAN, signing : BOOLEAN]
NoMail == [rev |-> -1, accounts |-> {}, used |-> {}, broken |-> {}, calendar |-> FALSE,
           signing |-> FALSE]
NoPost == [at |-> "none", action |-> "none", inbox |-> NoInbox, on |-> FALSE, base |-> -1,
           got |-> NoMail]
Fetches == 1 .. 2
NotFetching == [at |-> "none", got |-> NoMail]
MailVerbs == {"connect_gmail", "cancel_gmail", "set_mail_enabled", "remove_gmail",
              "set_calendar_enabled"}

\* flow: no sign-in, one that waits for the browser, one whose answer is being
\* exchanged.  late: a command has moved the epoch since the sign-in began.
MailServices == [rev : Int, accounts : SUBSET Inboxes, used : SUBSET Inboxes,
                 broken : SUBSET Inboxes, calendar : BOOLEAN,
                 flow : {"none", "open", "used"}, late : BOOLEAN]

\* snapshot(): a sign-in whose answer has come is not shown.
Served(m) == [rev |-> m.rev, accounts |-> m.accounts, used |-> m.used, broken |-> m.broken,
              calendar |-> m.calendar, signing |-> m.flow = "open"]

MailTypeOK ==
    /\ mail \in MailServices
    /\ sources \in [shown : MailSnapshots, timer : BOOLEAN, request : Fetches \cup {-1, 0},
                    busy : BOOLEAN, consent : BOOLEAN,
                    connect : {"no", "add"} \cup Inboxes, remove : Inboxes \cup {NoInbox}]
    /\ fetching \in [Fetches -> [at : {"none", "sent", "served", "failed"}, got : MailSnapshots]]
    /\ posting.at \in {"none", "sent", "served", "failed"}
    /\ posting.action \in MailVerbs \cup {"none"} /\ posting.got \in MailSnapshots
    /\ posting.inbox \in Inboxes \cup {NoInbox} /\ posting.on \in BOOLEAN
    /\ moves \in 0 .. MaxMoves

MailInit ==
    /\ \E known \in {{}, Inboxes} :
          mail = [rev |-> 0, accounts |-> known, used |-> known, broken |-> {},
                  calendar |-> FALSE, flow |-> "none", late |-> FALSE]
    /\ sources = [shown |-> NoMail, timer |-> FALSE, request |-> 1, busy |-> FALSE,
                  consent |-> FALSE, connect |-> "no", remove |-> NoInbox]
    /\ fetching = [f \in Fetches |-> IF f = 1 THEN [NotFetching EXCEPT !.at = "sent"]
                                     ELSE NotFetching]
    /\ posting = NoPost /\ moves = MaxMoves

Moves1 == moves > 0 /\ moves' = moves - 1

-----------------------------------------------------------------------------
(* accept() and refresh(). *)

\* Mutant: an older answer replaces a newer one.
MutTaken(b, s) == [b EXCEPT !.shown = s, !.timer = s.signing]

\* The panel polls only while a sign-in goes on.
Taken(b, s) == IF s.rev < b.shown.rev THEN b ELSE [b EXCEPT !.shown = s, !.timer = s.signing]

Freed(b, x) == [b EXCEPT !.request = IF @ = x THEN -1 ELSE @]

\* refresh(): refused while a request or a command is in flight.
Fetching(b, f) == ~b.busy /\ b.request = -1 /\ fetching[f].at = "none"

Fetch(b) ==
    IF \E f \in Fetches : Fetching(b, f)
    THEN LET f == CHOOSE f \in Fetches : Fetching(b, f) IN
         sources' = [b EXCEPT !.request = f] /\ fetching' = [fetching EXCEPT ![f].at = "sent"]
    ELSE sources' = b /\ UNCHANGED fetching

\* The poll of the sign-in, and Check connection.
MailPolls ==
    /\ \/ sources.timer /\ Fetch([sources EXCEPT !.timer = FALSE]) /\ UNCHANGED moves
       \/ sources.shown = NoMail /\ Moves1 /\ Fetch(sources)
    /\ UNCHANGED <<mail, posting>>

FetchServed(f) ==
    /\ fetching[f].at = "sent"
    /\ \/ fetching' = [fetching EXCEPT ![f].at = "served", ![f].got = Served(mail)]
          /\ UNCHANGED moves
       \/ Moves1 /\ fetching' = [fetching EXCEPT ![f].at = "failed"]
    /\ UNCHANGED <<mail, sources, posting>>

\* A poll that fails is not followed by another one.
FetchSettles(f) ==
    /\ fetching[f].at \in {"served", "failed"}
    /\ sources' = IF fetching[f].at = "served" THEN Taken(Freed(sources, f), fetching[f].got)
                  ELSE Freed(sources, f)
    /\ fetching' = [fetching EXCEPT ![f] = NotFetching]
    /\ UNCHANGED <<mail, posting, moves>>

-----------------------------------------------------------------------------
(* mutate() and the controls. *)

\* What the panel offers: a sign-in to cancel, the consent and Connect, or the
\* accounts with their switches.
Consenting(b) == ~b.shown.signing /\ (b.shown.accounts = {} \/ b.connect # "no")

MailOffers(b) ==
    LET press(a, i, on) == [action |-> a, inbox |-> i, on |-> on] IN
    IF b.shown = NoMail THEN {}
    ELSE {press("set_calendar_enabled", NoInbox, ~b.shown.calendar)}
         \cup (IF b.shown.signing THEN {press("cancel_gmail", NoInbox, FALSE)}
               ELSE IF Consenting(b)
               THEN IF b.consent THEN {press("connect_gmail", NoInbox, FALSE)} ELSE {}
               ELSE {press("set_mail_enabled", i, i \notin b.shown.used) : i \in b.shown.accounts}
                    \cup {press("remove_gmail", i, FALSE) : i \in b.shown.accounts \cap {b.remove}})

\* Consent is asked again for every inbox.
MailCommands ==
    /\ ~sources.busy /\ Moves1
    /\ \E o \in MailOffers(sources) :
         /\ posting' = [at |-> "sent", action |-> o.action, inbox |-> o.inbox, on |-> o.on,
                        base |-> sources.shown.rev, got |-> NoMail]
         /\ sources' = [sources EXCEPT !.busy = TRUE, !.request = 0,
                            !.consent = @ /\ o.action # "connect_gmail",
                            !.remove = IF o.action = "remove_gmail" THEN NoInbox ELSE @]
    /\ UNCHANGED <<mail, fetching>>

\* The answer.  After a conflict refresh() is called while busy is still set, which
\* refuses it: after any failure the panel goes on showing what it had.
PostSettles ==
    /\ posting.at \in {"served", "failed"}
    /\ LET b == Freed(sources, 0)
           done == [Taken(b, posting.got) EXCEPT
                        !.connect = IF posting.action = "connect_gmail" THEN "no" ELSE @]
       IN  sources' = [(IF posting.at = "served" THEN done ELSE b) EXCEPT !.busy = FALSE]
    /\ posting' = NoPost
    /\ UNCHANGED <<mail, fetching, moves>>

\* The consent, Add another inbox, Reconnect, Remove inbox, and their Cancel.
MailClicks ==
    /\ sources.shown # NoMail
    /\ \/ Consenting(sources) /\ sources' = [sources EXCEPT !.consent = ~@]
       \/ /\ Consenting(sources) /\ sources.shown.accounts # {}
          /\ sources' = [sources EXCEPT !.connect = "no", !.consent = FALSE]
       \/ /\ ~sources.shown.signing /\ ~Consenting(sources)
          /\ \/ \E c \in {"add"} \cup (sources.shown.broken \cap sources.shown.accounts) :
                    sources' = [sources EXCEPT !.connect = c, !.consent = FALSE]
             \/ \E i \in sources.shown.accounts \cup {NoInbox} :
                    sources' = [sources EXCEPT !.remove = i]
    /\ UNCHANGED <<mail, fetching, posting, moves>>

-----------------------------------------------------------------------------
(* GmailService, other windows and Google. *)

Moved(m) == [m EXCEPT !.rev = @ + 1]

\* control(): every command moves the epoch; one that waits on no sign-in loses none.
Changed(m, a, i, on) ==
    LET r == [Moved(m) EXCEPT !.late = TRUE] IN
    CASE a = "connect_gmail" -> [r EXCEPT !.flow = "open", !.late = FALSE]
      [] a = "cancel_gmail" -> [r EXCEPT !.flow = "none"]
      [] a = "set_mail_enabled" -> [r EXCEPT !.used = IF on THEN @ \cup {i} ELSE @ \ {i}]
      [] a = "remove_gmail" -> [r EXCEPT !.accounts = @ \ {i}, !.used = @ \ {i}, !.broken = @ \ {i}]
      [] OTHER -> [r EXCEPT !.calendar = on]

\* What a command that fails may leave: nothing, the epoch it moved, or the sign-in it ended.
Broken(m, a) ==
    {m, [m EXCEPT !.late = TRUE]}
    \cup (IF a \in {"connect_gmail", "cancel_gmail"}
          THEN {[m EXCEPT !.late = TRUE, !.flow = "none"]} ELSE {})

\* A command decided on another revision is refused.  One that fails, or whose answer
\* is lost or late, is an error to the panel, applied or not.
PostServed ==
    /\ posting.at = "sent"
    /\ LET new == Changed(mail, posting.action, posting.inbox, posting.on) IN
       \/ /\ posting.base = mail.rev /\ mail' = new
          /\ posting' = [posting EXCEPT !.at = "served", !.got = Served(new)]
          /\ UNCHANGED moves
       \/ /\ posting.base # mail.rev /\ posting' = [posting EXCEPT !.at = "failed"]
          /\ UNCHANGED <<mail, moves>>
       \/ /\ Moves1 /\ posting' = [posting EXCEPT !.at = "failed"]
          /\ mail' \in {mail} \cup (IF posting.base # mail.rev THEN {}
                                   ELSE {new} \cup Broken(mail, posting.action))
    /\ UNCHANGED <<sources, fetching>>

\* callback(): the sign-in is used up, then the account is saved unless the epoch moved;
\* or it fails, or it expires.
SignInGoesOn ==
    /\ Moves1
    /\ \/ mail.flow = "open" /\ mail' = [mail EXCEPT !.flow = "used"]
       \/ /\ mail.flow = "used" /\ ~mail.late
          /\ \E i \in Inboxes :
                mail' = [Moved(mail) EXCEPT !.flow = "none", !.accounts = @ \cup {i},
                                            !.used = @ \cup {i}, !.broken = @ \ {i}]
       \/ mail.flow = "used" /\ mail.late /\ mail' = [mail EXCEPT !.flow = "none"]
       \/ mail.flow # "none" /\ mail' = [Moved(mail) EXCEPT !.flow = "none"]
    /\ UNCHANGED <<sources, fetching, posting>>

\* An access that Google ended, a check, the calendar's own connection, which moves no
\* revision here, its disconnection, and another window's command.
MailChanges ==
    /\ Moves1
    /\ \/ \E i \in mail.accounts : mail' = [Moved(mail) EXCEPT !.broken = @ \cup {i}]
       \/ mail' = Moved(mail)
       \/ mail' = [mail EXCEPT !.calendar = ~@]
       \/ \E B \in SUBSET mail.accounts :
             mail' = [Moved(mail) EXCEPT !.broken = @ \cup B, !.calendar = FALSE, !.late = TRUE]
       \/ \E a \in MailVerbs, i \in mail.accounts \cup {NoInbox}, on \in BOOLEAN :
             /\ a \in {"set_mail_enabled", "remove_gmail"} <=> i # NoInbox
             /\ mail' = Changed(mail, a, i, on)
    /\ UNCHANGED <<sources, fetching, posting>>

MailNext ==
    \/ MailPolls \/ (\E f \in Fetches : FetchServed(f) \/ FetchSettles(f))
    \/ MailCommands \/ PostSettles \/ MailClicks \/ PostServed \/ SignInGoesOn
    \/ MailChanges

MailSpec == MailInit /\ [][MailNext]_mailVars

-----------------------------------------------------------------------------
(* Properties. *)

\* A read sent before a command and answered after it never brings the old state
\* back, and an inbox is connected only with a consent given since the last one
\* (briefing-sources.js, accept and connect).
MailNeverGoesBack ==
    /\ sources'.shown.rev >= sources.shown.rev
    /\ posting'.action = "connect_gmail" /\ posting.action # "connect_gmail"
         => sources.consent /\ ~sources'.consent
=============================================================================
