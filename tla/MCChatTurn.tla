---------------------------- MODULE MCChatTurn ----------------------------
(* Small instances of ChatTurn for TLC, two in one run: a journal that     *)
(* remembers every accepted id, with a failed write and a restart, and     *)
(* messages that all say something else; and one that remembers the last   *)
(* id only, so that an id is accepted again, and messages that say the     *)
(* same.                                                                   *)
EXTENDS ChatTurn, TLC

VARIABLE memory

Forgetting == INSTANCE ChatTurn WITH AcceptedCap <- 1, MaxFaults <- 0, MaxCrashes <- 0

Different == \A r, q \in Requests : text[r] = text[q] => r = q
Alike == \A r, q \in Requests : text[r] = text[q]

Remembers == memory = "all" /\ Next /\ UNCHANGED memory
Forgets == memory = "last" /\ Forgetting!Next /\ UNCHANGED memory

EitherSpec ==
    /\ \/ memory = "all" /\ Init /\ Different
       \/ memory = "last" /\ Forgetting!Init /\ Alike
    /\ [][Remembers \/ Forgets]_<<vars, memory>>

\* ChatTurn!OneModelTurn: an id that is still remembered is never run again.
KnownIsRunOnce == memory = "all" => OneModelTurn

\* ChatTurn!SourceNeverCommits: a turn that was given source data never changes the tasks
\* (of an id that is run again, sourced does not say which of its turns was).
SourceTurnNeverCommits == memory = "all" => SourceNeverCommits

Symmetry == Permutations(Requests) \cup Permutations(Texts)
=============================================================================
