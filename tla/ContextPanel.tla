----------------------------- MODULE ContextPanel -----------------------------
(***************************************************************************)
(* web/chat/context.js: how full the context window of the open chat is,   *)
(* and the command that summarizes its older messages.  The numbers of the *)
(* service are optional: one that is missing or unsafe is Unknown.         *)
(***************************************************************************)
EXTENDS Integers, Sequences, Lists

CONSTANTS Talks,      \* conversations
          MaxTokens,  \* bound: tokens in a number of the service
          MaxAsks     \* bound: times the person, the connection or the chat does something

VARIABLES
    usage,   \* the chat context of the last snapshot, its chat and the connection
    detail,  \* the closure of mountChatContext
    asked    \* bound: what may still happen

contextVars == <<usage, detail, asked>>

Unknown == -1
Tokens == 0 .. MaxTokens
Measures == [window : Tokens \cup {Unknown}, used : Tokens \cup {Unknown},
             threshold : Tokens \cup {Unknown}, auto : BOOLEAN,
             categories : {<<>>} \cup {<<a>> : a \in Tokens} \cup
                          {<<a, b, c>> : a, b, c \in Tokens}]
Statuses == {"idle", "compressing", "compressed", "failed"}

ContextTypeOK ==
    /\ usage \in [talk : Talks, connected : BOOLEAN, measures : Measures,
                  status : Statuses, may : BOOLEAN, manage : BOOLEAN]
    /\ detail \in [expanded : BOOLEAN, mode : {"context", "usage"}, error : BOOLEAN,
                   flight : {"none", "sent"}]
    /\ asked \in 0 .. MaxAsks

\* Every measurement is shown once; one of them is followed through the controls.
ContextInit ==
    /\ usage \in [talk : {CHOOSE t \in Talks : TRUE}, connected : {TRUE}, measures : Measures,
                  status : {"idle"}, may : {TRUE}, manage : {TRUE}]
    /\ detail = [expanded |-> FALSE, mode |-> "context", error |-> FALSE, flight |-> "none"]
    /\ asked = IF usage.measures = [window |-> MaxTokens, used |-> MaxTokens,
                                   threshold |-> MaxTokens, auto |-> TRUE, categories |-> <<>>]
               THEN MaxAsks ELSE 0

-----------------------------------------------------------------------------
(* contextPresentation and contextBreakdownModel. *)

AtLeast0(n) == IF n < 0 THEN 0 ELSE n
Least(a, b) == IF a < b THEN a ELSE b
Greatest(a, b) == IF a < b THEN b ELSE a

\* The facts shown: nothing while offline, and a window of 0 is not a window.
Facts(u) ==
    LET m == u.measures
        window == IF u.connected /\ m.window > 0 THEN m.window ELSE Unknown IN
    [window |-> window,
     used |-> IF u.connected THEN m.used ELSE Unknown,
     threshold |-> IF u.connected /\ m.threshold > 0
                   THEN (IF window = Unknown THEN m.threshold ELSE Least(m.threshold, window))
                   ELSE Unknown,
     auto |-> m.auto,
     categories |-> IF u.connected THEN Only(m.categories, Nat \ {0}) ELSE <<>>]

Known(f) == f.window # Unknown /\ f.used # Unknown

\* Math.round(a / b).
Round(a, b) == (2 * a + b) \div (2 * b)

\* Mutant: the last category is rounded like the others.
MutFitted(f) ==
    LET weight == Total(f.categories) IN
    IF weight = 0 THEN IF f.used > 0 THEN <<f.used>> ELSE <<>>
    ELSE [i \in DOMAIN f.categories |-> Round(f.used * f.categories[i], weight)]

\* Each category gets its share of what is used, the last one what is left.
Fitted(f) ==
    LET weight == Total(f.categories)
        n == Len(f.categories)
        left(parts) == AtLeast0(f.used - Total(parts))
        fit[i \in 0 .. n] ==
          IF i = 0 THEN <<>>
          ELSE Append(fit[i - 1],
                 IF i = n THEN left(fit[i - 1])
                 ELSE Least(left(fit[i - 1]), Round(f.used * f.categories[i], weight)))
    IN  IF weight = 0 THEN IF f.used > 0 THEN <<f.used>> ELSE <<>> ELSE fit[n]

Limit(f) == IF f.auto /\ f.threshold # Unknown THEN f.threshold ELSE f.window
Available(f) == AtLeast0(Limit(f) - f.used)
Reserve(f) == AtLeast0(f.window - Greatest(Limit(f), f.used))

\* The segments of the ring: categories, what is available, and the reserve.
Breakdown(f) ==
    Only(Fitted(f), Nat \ {0})
    \o (IF Available(f) > 0 THEN <<Available(f)>> ELSE <<>>)
    \o (IF Reserve(f) > 0 THEN <<Reserve(f)>> ELSE <<>>)

-----------------------------------------------------------------------------
(* mountChatContext. *)

CanSummarize ==
    /\ detail.expanded /\ detail.mode = "context"
    /\ usage.connected /\ usage.may /\ usage.manage /\ usage.status # "compressing"

Asks == asked > 0 /\ asked' = asked - 1

\* open, close and the two buttons that change the panel.
OpensDetail ==
    /\ Asks /\ UNCHANGED usage
    /\ \/ ~detail.expanded /\ \E m \in {"context", "usage"} :
            detail' = [detail EXCEPT !.expanded = TRUE, !.mode = m, !.error = FALSE]
       \/ detail.expanded /\ detail' = [detail EXCEPT !.expanded = FALSE]
       \/ detail.expanded /\ detail' = [detail EXCEPT
                                            !.mode = IF @ = "usage" THEN "context" ELSE "usage"]

\* Summarize; the client refuses other commands until it answers.
Summarizes ==
    /\ CanSummarize /\ detail.flight = "none" /\ Asks
    /\ detail' = [detail EXCEPT !.error = FALSE, !.flight = "sent"]
    /\ usage' = [usage EXCEPT !.manage = FALSE]

\* compressContext answers with a snapshot, or throws.
SummarizeSettles ==
    /\ detail.flight = "sent"
    /\ \/ /\ detail' = [detail EXCEPT !.flight = "none"]
          /\ usage' = [usage EXCEPT !.manage = TRUE, !.status = "compressing"]
       \/ /\ detail' = [detail EXCEPT !.flight = "none", !.error = TRUE]
          /\ usage' = [usage EXCEPT !.manage = TRUE]
    /\ UNCHANGED asked

\* A snapshot: the chat it shows may be another, which closes the panel.
ContextUpdates ==
    /\ Asks
    /\ \E t \in Talks, c \in BOOLEAN, s \in Statuses :
         /\ t # usage.talk => detail.flight = "none"
         /\ usage' = [usage EXCEPT !.talk = t, !.connected = c, !.status = s]
         /\ detail' = [detail EXCEPT !.expanded = @ /\ t = usage.talk]

ContextNext == OpensDetail \/ Summarizes \/ SummarizeSettles \/ ContextUpdates

ContextSpec == ContextInit /\ [][ContextNext]_contextVars

-----------------------------------------------------------------------------
(* Properties. *)

\* "Fits estimated category weights to the measured total and names all remaining
\* space" (context.js 72): for every measurement the segments shown cover exactly
\* the window, or what is used when that is more; none is negative, the rounded
\* categories give exactly what is used, and what is past the threshold is not
\* called available.
BreakdownFits ==
    LET f == Facts(usage)
        b == Breakdown(f) IN
    Known(f) =>
        /\ Total(b) = Greatest(f.window, f.used) /\ \A i \in DOMAIN b : b[i] > 0
        /\ Total(Fitted(f)) = f.used
        /\ f.used + Available(f) <= Greatest(f.used, Limit(f))
=============================================================================
