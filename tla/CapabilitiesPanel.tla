--------------------------- MODULE CapabilitiesPanel ---------------------------
(***************************************************************************)
(* Which connectors, skills, MCPs and plugins the open chat may use: the   *)
(* panel of web/capabilities/manager.js and the commands of                *)
(* app/capabilities.py.  A new request of the panel aborts the one before, *)
(* and a change names the revision and the chat of the list it was made on.*)
(***************************************************************************)
EXTENDS Integers

CONSTANTS Skills,     \* capabilities a chat chooses and this Mac may disable
          Linked,     \* connectors and MCPs, managed globally elsewhere
          CapChats,   \* chats
          MaxTurns    \* bound: what the person, other windows and the network do

VARIABLES
    caps,    \* the service: the open chat, each chat's choice, what this Mac allows
    list,    \* the closure of mountCapabilitiesManager
    get,     \* the refresh in flight, if any
    put,     \* the change in flight and, after a conflict, the read that follows it
    turns    \* bound: what may still happen

capabilityVars == <<caps, list, get, put, turns>>

Everything == Skills \cup Linked
Unread == [revision |-> -1]
NoPut == [stage |-> "none"]
NoGet == [stage |-> "none", quiet |-> FALSE, got |-> Unread]
Sent(quiet) == [stage |-> "sent", quiet |-> quiet, got |-> Unread]
Notes == {"", "done", "changed elsewhere", "failed"}

CapabilitiesTypeOK ==
    /\ caps \in [revision : Nat, chat : CapChats, chosen : [CapChats -> SUBSET Everything],
                 allowed : SUBSET Everything]
    /\ list.shown.revision \in Nat \cup {-1} /\ list.scope \in {"chat", "global"}
    /\ list.busy \in BOOLEAN /\ list.note \in Notes /\ list.gone \in BOOLEAN
    /\ get.stage \in {"none", "sent", "served"} /\ get.quiet \in BOOLEAN
    /\ put.stage \in {"none", "posted", "reading"}
    /\ turns \in 0 .. MaxTurns

\* What a read answers.
Listed == [revision |-> caps.revision, chat |-> caps.chat, chosen |-> caps.chosen[caps.chat],
           allowed |-> caps.allowed]

CapabilitiesInit ==
    /\ \E c \in CapChats :
         caps = [revision |-> 0, chat |-> c, chosen |-> [x \in CapChats |-> {}], allowed |-> Everything]
    /\ list = [shown |-> Unread, scope |-> "chat", busy |-> FALSE, note |-> "", gone |-> FALSE]
    /\ get = Sent(FALSE) /\ put = NoPut   \* the panel reads as it is mounted
    /\ turns = MaxTurns

Turn == turns > 0 /\ turns' = turns - 1

-----------------------------------------------------------------------------
(* The service: control() checks the chat and the revision, then the capability. *)

With(S, i, on) == IF on THEN S \cup {i} ELSE S \ {i}

Fitting(p) == p.chat = caps.chat /\ p.revision = caps.revision
Taking(p) == Fitting(p) /\ (p.scope = "chat" => ~p.on \/ p.item \in caps.allowed)
Controlled(p) ==
    IF ~Taking(p) THEN caps
    ELSE IF p.scope = "global"
         THEN [caps EXCEPT !.allowed = With(@, p.item, p.on), !.revision = @ + 1]
         ELSE [caps EXCEPT !.chosen[p.chat] = With(@, p.item, p.on), !.revision = @ + 1]

-----------------------------------------------------------------------------
(* The panel. *)

\* refresh(), from a signal or as the panel is shown again, which selects this chat.
Refreshes ==
    /\ Turn /\ ~list.gone
    /\ \E shows \in BOOLEAN :
         /\ list' = [list EXCEPT !.scope = IF shows THEN "chat" ELSE @]
         /\ IF list.busy \/ get # NoGet THEN UNCHANGED get ELSE get' = Sent(shows)
    /\ UNCHANGED <<caps, put>>

\* The scope buttons clear the message.
PicksScope ==
    /\ Turn /\ ~list.gone
    /\ \E s \in {"chat", "global"} \ {list.scope} :
         list' = [list EXCEPT !.scope = s, !.note = ""]
    /\ UNCHANGED <<caps, get, put>>

\* Whose switch the row shows: what may be changed in this scope.
Switchable == IF list.scope = "global" THEN Skills ELSE list.shown.allowed

\* Mutant: a change leaves the read before it in flight.
MutReadAfterPost == get

ReadAfterPost == NoGet

\* mutate(): the change aborts the read in flight.
Switches ==
    /\ Turn /\ ~list.gone /\ ~list.busy /\ list.shown # Unread
    /\ \E i \in Switchable :
         put' = [stage |-> "posted", item |-> i, revision |-> list.shown.revision,
                 chat |-> list.shown.chat, scope |-> list.scope,
                 on |-> i \notin (IF list.scope = "global" THEN list.shown.allowed
                                  ELSE list.shown.chosen)]
    /\ list' = [list EXCEPT !.busy = TRUE, !.note = ""]
    /\ get' = ReadAfterPost
    /\ UNCHANGED caps

\* destroy() aborts what is in flight.
LeavesList ==
    /\ Turn /\ ~list.gone
    /\ list' = [list EXCEPT !.gone = TRUE]
    /\ get' = NoGet /\ put' = NoPut
    /\ \/ put.stage = "posted" /\ caps' = Controlled(put)
       \/ UNCHANGED caps

-----------------------------------------------------------------------------
(* What comes back. *)

PutSettles ==
    /\ put.stage = "posted"
    /\ \/ \* the change is in the answer
          /\ Taking(put) /\ caps' = Controlled(put) /\ put' = NoPut
          /\ list' = [list EXCEPT !.shown = Listed', !.busy = FALSE, !.note = "done"]
          /\ UNCHANGED turns
       \/ \* 409, and the list is read again
          /\ ~Taking(put) /\ put' = [put EXCEPT !.stage = "reading"]
          /\ list' = [list EXCEPT !.note = "changed elsewhere"] /\ UNCHANGED <<caps, turns>>
       \/ \* no answer in time: applied or not
          /\ Turn /\ put' = NoPut
          /\ \/ caps' = Controlled(put)
             \/ UNCHANGED caps
          /\ list' = [list EXCEPT !.busy = FALSE, !.note = "failed"]
    /\ UNCHANGED get

\* The read after a conflict; it may fail, and the message stays.
ConflictSettles ==
    /\ put.stage = "reading" /\ put' = NoPut
    /\ \/ list' = [list EXCEPT !.shown = Listed, !.busy = FALSE] /\ UNCHANGED turns
       \/ list' = [list EXCEPT !.busy = FALSE] /\ Turn
    /\ UNCHANGED <<caps, get>>

\* A refresh is served, and later its answer is there; or there is none.
GetIsServed ==
    /\ get.stage = "sent" /\ get' = [get EXCEPT !.stage = "served", !.got = Listed]
    /\ UNCHANGED <<caps, list, put, turns>>

GetSettles ==
    /\ get' = NoGet
    /\ \/ /\ get.stage = "served" /\ UNCHANGED turns
          /\ list' = [list EXCEPT !.shown = get.got, !.note = ""]
       \/ /\ get.stage = "sent" /\ Turn
          /\ list' = [list EXCEPT !.note = IF get.quiet THEN @ ELSE "failed"]
    /\ UNCHANGED <<caps, put>>

\* Another window changes a capability, or opens another chat.
OthersSwitch ==
    /\ Turn
    /\ \/ \E i \in Everything, on \in BOOLEAN :
            caps' = [caps EXCEPT !.chosen[caps.chat] = With(@, i, on), !.revision = @ + 1]
       \/ \E c \in CapChats \ {caps.chat} : caps' = [caps EXCEPT !.chat = c]
    /\ UNCHANGED <<list, get, put>>

CapabilitiesNext ==
    \/ Refreshes \/ PicksScope \/ Switches \/ LeavesList \/ PutSettles \/ ConflictSettles
    \/ GetIsServed \/ GetSettles \/ OthersSwitch

CapabilitiesSpec == CapabilitiesInit /\ [][CapabilitiesNext]_capabilityVars

-----------------------------------------------------------------------------
(* Properties. *)

\* However reads, changes and their answers cross, the panel never replaces what it shows
\* by an older state of the service.
CapabilitiesNeverGoBack ==
    list'.shown.revision >= list.shown.revision
=============================================================================
