----------------------------- MODULE TurnPromise -----------------------------
(***************************************************************************)
(* What LocalChat promises about the durable task list and the replies the *)
(* person can see, without saying how: a decision and the receipt of its   *)
(* reply become durable together, the reply is only ever published from    *)
(* its receipt, and a published reply is final.                            *)
(***************************************************************************)
EXTENDS Naturals, Sequences

CONSTANTS Requests, Controls, NoReq

VARIABLES
    list,     \* the requests whose change is in the journal file, in order
    receipt,  \* the reply that is decided and not known to be public
    public,   \* for each request, the outcomes its published replies state
    told      \* the direct edits whose caller was told they are saved

vars == <<list, receipt, public, told>>

Outcomes == {"committed", "chat", "rejected"}
NoReceipt == [req |-> NoReq, disp |-> "none"]
Decision(r, d) == [req |-> r, disp |-> d]
In(r, s) == \E i \in DOMAIN s : s[i] = r

Init ==
    /\ list = <<>>
    /\ receipt = NoReceipt
    /\ public = [r \in Requests |-> {}]
    /\ told = {}

\* Nothing was said about a change that is neither published nor acknowledged.
Unsaid(x) == IF x \in Requests THEN public[x] = {} ELSE x \notin told

\* What the service may take for the durable state. A receipt may be dropped: its
\* reply is public, or the person stopped the turn. The last change may be gone,
\* its write having been reported as failed, if nothing was said about it.
Standing ==
    {[list |-> list, receipt |-> rc] : rc \in {receipt, NoReceipt}}
    \cup {[list |-> SubSeq(list, 1, n - 1), receipt |-> NoReceipt] :
            n \in {k \in {Len(list)} : k > 0 /\ Unsaid(list[k])}}

\* The service overwrites the file with what it takes for the durable state.
Settle ==
    /\ UNCHANGED <<public, told>>
    /\ \E s \in Standing : list' = s.list /\ receipt' = s.receipt

\* A reply is decided; its change and its receipt are one step.
Decide(r, d) ==
    /\ receipt' = Decision(r, d)
    /\ public[r] = {}
    /\ \E s \in Standing :
         /\ s.receipt = NoReceipt
         /\ d = "committed" => ~In(r, s.list)
         /\ list' = IF d = "committed" THEN Append(s.list, r) ELSE s.list
    /\ UNCHANGED <<public, told>>

\* The decided reply becomes public, with the outcome that was decided.
Publish ==
    /\ receipt # NoReceipt
    /\ public[receipt.req] = {}
    /\ public' = [public EXCEPT ![receipt.req] = {receipt.disp}]
    /\ UNCHANGED <<list, receipt, told>>

\* A receipt whose removal was not durable is found again.
Remember(r, d) ==
    /\ receipt' = Decision(r, d)
    /\ receipt = NoReceipt
    /\ public[r] = {d}
    /\ UNCHANGED <<list, public, told>>

\* A direct edit; its caller is told once it is durable, if the write succeeds.
Edit(c) ==
    /\ receipt' = NoReceipt
    /\ UNCHANGED public
    /\ told' \in {told, told \cup {c}}
    /\ \E s \in Standing :
         /\ s.receipt = NoReceipt
         /\ ~In(c, s.list)
         /\ list' = Append(s.list, c)

\* A repeated edit is acknowledged.
Tell(c) ==
    /\ In(c, list)
    /\ told' = told \cup {c}
    /\ UNCHANGED <<list, receipt, public>>

Next ==
    \/ Settle \/ Publish
    \/ \E r \in Requests, d \in Outcomes : Decide(r, d) \/ Remember(r, d)
    \/ \E c \in Controls : Edit(c) \/ Tell(c)

Spec == Init /\ [][Next]_vars
=============================================================================
