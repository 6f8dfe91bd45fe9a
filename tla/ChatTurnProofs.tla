--------------------------- MODULE ChatTurnProofs ---------------------------
(***************************************************************************)
(* Proofs about the human turn, for every set of requests and edits, every *)
(* number of failed writes and restarts, and whether or not a native       *)
(* process outlives the service.  The second half shows that a request     *)
(* that is remembered is run once, that a turn that was given source data  *)
(* changes nothing, and that the turn as a whole implements TurnPromise    *)
(* while one native process writes at a time.                              *)
(***************************************************************************)
EXTENDS MCChatTurn, SequenceTheorems, FiniteSetTheorems, TLAPS

USE RequestAssumption, BoundAssumption

-----------------------------------------------------------------------------
(* Type correctness needs to know where the request of a turn comes from and *)
(* what a direct edit has planned.                                           *)

TurnInv ==
    /\ job = "turn" => mem.request \in Requests
    /\ job = "turn" /\ pc \in {"queued", "opening", "infer", "receipt", "stageReceipt"}
         => mem.turn.req \in Requests

PlanInv ==
    job = "control" =>
        /\ pc = "commit"
        /\ \E c \in Controls \ Applied(mem) : plan = Append(mem.tasks, c)

TypeInv == TypeOK /\ TurnInv /\ PlanInv

-----------------------------------------------------------------------------
(* What was said in public - by a published row or by the answer to a direct *)
(* edit - must survive the next write of memory as well as a restart from    *)
(* the file, so the invariant speaks of both journals, of the receipts that  *)
(* are still to be published, and of memory never running ahead of the file. *)

CommittedRows == {i \in DOMAIN native : native[i].disp = "committed"}
Said == {native[i].tag : i \in CommittedRows} \cup (acked \cap Controls)

Backed(j) == j.pub.disp = "committed" => j.pub.req \in Applied(j)
Sound(j) == NoRepeats(j.tasks) /\ Backed(j) /\ Said \subseteq Applied(j)

SaidInv ==
    /\ Sound(mem) /\ Sound(disk)
    /\ Applied(mem) \subseteq Applied(disk)

IInv == TypeInv /\ SaidInv

LEMMA ReconciledJournal ==
    ASSUME NEW j \in Journal
    PROVE  /\ Reconciled(j) \in Journal
           /\ Reconciled(j).tasks = j.tasks /\ Reconciled(j).pub = j.pub
           /\ Reconciled(j).turn = j.turn /\ Reconciled(j).request = j.request
  BY DEF Reconciled, Journal, Receipt, NoMsg, ReqOrNone

LEMMA RecentSeq ==
    ASSUME NEW s \in Seq(Requests)
    PROVE  Recent(s) \in Seq(Requests)
  <1>1. CASE Len(s) <= AcceptedCap
    BY <1>1 DEF Recent
  <1>2. CASE ~(Len(s) <= AcceptedCap)
    <2>1. \A i \in (Len(s) - AcceptedCap + 1)..Len(s) : s[i] \in Requests
      BY <1>2, ElementOfSeq
    <2>2. SubSeq(s, Len(s) - AcceptedCap + 1, Len(s)) \in Seq(Requests)
      BY <2>1, SubSeqProperties
    <2> QED
      BY <1>2, <2>2 DEF Recent
  <1> QED
    BY <1>1, <1>2

LEMMA StagedJournal ==
    ASSUME NEW j \in Journal, NEW i \in Nat, j.turn.req \in Requests
    PROVE  /\ Staged(j, i) \in Journal
           /\ Staged(j, i).turn = j.turn /\ Staged(j, i).request = j.request
  <1>1. Disposition(j, i) \in Dispositions
    BY DEF Disposition, Dispositions
  <1>2. ApplyBatch(j.tasks, j.turn.req) \in Seq(Change)
    BY AppendProperties DEF ApplyBatch, Change, Journal
  <1> QED
    BY <1>1, <1>2 DEF Staged, Journal, Publication, ReqOrNone

-----------------------------------------------------------------------------
(* What a write, an await and an exception leave behind.                     *)

Jobs == {"none", "boot", "turn", "recover", "control"}
Places == {"idle", "queued", "opening", "infer", "receipt", "stageReceipt", "read",
           "stageStored", "finalize", "published", "clear", "stopping",
           "closing", "commit"}
EarlyPlaces == {"queued", "opening", "infer", "receipt", "stageReceipt"}

LEMMA CommitTypes ==
    ASSUME TypeOK, NEW j \in Journal, NEW w, Commit(j, w)
    PROVE  mem' \in Journal /\ disk' \in Journal /\ faults' \in 0..MaxFaults
  BY DEF TypeOK, Commit, Write

LEMMA InPlaceTypes ==
    ASSUME TypeOK, NEW j \in Journal, NEW w, InPlace(j, w)
    PROVE  mem' \in Journal /\ disk' \in Journal /\ faults' \in 0..MaxFaults
  BY DEF TypeOK, InPlace, Write

LEMMA AwaitTypes ==
    ASSUME TypeOK, NEW p \in Places, Await(p)
    PROVE  /\ up' \in BOOLEAN /\ error' \in BOOLEAN /\ blocked' \in BOOLEAN
           /\ job' \in Jobs /\ pc' \in Places /\ plan' \in Seq(Change)
           /\ job' = job /\ pc' = p
  BY DEF TypeOK, Await, Jobs, Places

LEMMA RaiseTypes ==
    ASSUME TypeOK, NEW x, Raise(x)
    PROVE  /\ up' \in BOOLEAN /\ error' \in BOOLEAN /\ blocked' \in BOOLEAN
           /\ job' \in Jobs /\ pc' \in Places /\ plan' \in Seq(Change)
           /\ job' # "control" /\ (job' = "turn" => job = "turn")
           /\ pc' \notin EarlyPlaces
  <1>1. (x = "chat") \in BOOLEAN /\ (mem.pub = NoPub) \in BOOLEAN
    OBVIOUS
  <1> QED
    BY <1>1 DEF TypeOK, Raise, Jobs, Places, EarlyPlaces

LEMMA ProcTypes ==
    ASSUME TypeOK, NEW r, NEW p \in Phases
    PROVE  /\ [proc EXCEPT ![r].phase = p] \in [Requests -> Process]
           /\ [proc EXCEPT ![r].phase = IF @ \in Alive THEN "gone" ELSE @]
                \in [Requests -> Process]
  BY DEF TypeOK, Process, Phases

LEMMA JournalUpdates ==
    ASSUME NEW j \in Journal
    PROVE  /\ [j EXCEPT !.pending = FALSE] \in Journal
           /\ [j EXCEPT !.turn.source = TRUE] \in Journal
           /\ [j EXCEPT !.pub = NoPub, !.turn = NoTurn, !.pending = FALSE] \in Journal
           /\ [j EXCEPT !.pending = FALSE, !.turn = NoTurn, !.pub = NoPub] \in Journal
           /\ \A s \in Seq(Change) : [j EXCEPT !.tasks = s] \in Journal
  BY DEF Journal, Turn, Publication, NoPub, NoTurn, ReqOrNone, Dispositions

LEMMA SentJournal ==
    ASSUME NEW j \in Journal, NEW r \in Requests, NEW n \in Nat
    PROVE  [j EXCEPT !.pending = TRUE, !.request = r, !.msg = [req |-> r, after |-> n],
              !.turn = [req |-> r, base |-> Revision(j), source |-> FALSE],
              !.accepted = Recent(Append(j.accepted, r))] \in Journal
  <1>1. Append(j.accepted, r) \in Seq(Requests)
    BY AppendProperties DEF Journal
  <1>2. Recent(Append(j.accepted, r)) \in Seq(Requests)
    BY <1>1, RecentSeq
  <1>3. Revision(j) \in Nat
    BY LenProperties DEF Revision, Journal
  <1> QED
    BY <1>2, <1>3 DEF Journal, Turn, Receipt, ReqOrNone

-----------------------------------------------------------------------------
(* The steps of the native process.                                          *)

LEMMA NativeTypes ==
    ASSUME TypeInv, UNCHANGED text, NativeStep
    PROVE  TypeInv'
  <1> USE DEF TypeInv, NativeOnly, service, history
  <1>1. ASSUME NEW r \in Requests, StoreUser(r) PROVE TypeInv'
    <2>1. [role |-> "user", by |-> r, tag |-> r, base |-> proc[r].base,
           kind |-> "none", disp |-> "none"] \in Row
      BY DEF TypeOK, Row, Process, ReqOrNone, Dispositions
    <2>2. native' \in Seq(Row) /\ proc' \in [Requests -> Process]
      BY <1>1, <2>1, AppendProperties, ProcTypes DEF TypeOK, StoreUser, Advance, Phases
    <2> QED
      BY <1>1, <2>2 DEF TypeOK, TurnInv, PlanInv, StoreUser, Applied, Elems
  <1>2. ASSUME NEW r \in Requests, NEW k \in Kinds, StoreProposal(r, k) PROVE TypeInv'
    <2>1. [role |-> "assistant", by |-> r, tag |-> NoReq, base |-> 0,
           kind |-> k, disp |-> "none"] \in Row
      BY DEF Row, ReqOrNone, Dispositions
    <2>2. native' \in Seq(Row) /\ proc' \in [Requests -> Process]
      BY <1>2, <2>1, AppendProperties, ProcTypes DEF TypeOK, StoreProposal, Advance, Phases
    <2> QED
      BY <1>2, <2>2 DEF TypeOK, TurnInv, PlanInv, StoreProposal, Applied, Elems
  <1>3. ASSUME NEW r \in Requests, TagProposal(r) PROVE TypeInv'
    <2>1. PICK i \in AssistantRows :
            /\ native' = [native EXCEPT ![i].tag = r, ![i].base = proc[r].base,
                                       ![i].disp = "none"]
            /\ proc' = [proc EXCEPT ![r].phase = "tagged", ![r].row = i]
      BY <1>3 DEF TagProposal
    <2>2. i \in 1..Len(native) /\ native[i] \in Row
      BY ElementOfSeq, LenProperties DEF AssistantRows, TypeOK
    <2>3. [native[i] EXCEPT !.tag = r, !.base = proc[r].base, !.disp = "none"] \in Row
      BY <2>2 DEF TypeOK, Row, Process, ReqOrNone, Dispositions
    <2>4. native' \in Seq(Row)
      <3>1. native' = [native EXCEPT ![i] =
               [native[i] EXCEPT !.tag = r, !.base = proc[r].base, !.disp = "none"]]
        BY <2>1, <2>2 DEF TypeOK
      <3> QED
        BY <3>1, <2>2, <2>3, ExceptSeq DEF TypeOK
    <2>5. proc' \in [Requests -> Process]
      <3>1. i \in Nat
        BY <2>2, LenProperties DEF TypeOK
      <3>2. proc' = [proc EXCEPT ![r] = [proc[r] EXCEPT !.phase = "tagged", !.row = i]]
        BY <2>1 DEF TypeOK
      <3> QED
        BY <3>1, <3>2 DEF TypeOK, Process, Phases
    <2> QED
      BY <1>3, <2>4, <2>5 DEF TypeOK, TurnInv, PlanInv, TagProposal, Applied, Elems
  <1>4. ASSUME NEW r \in Requests, ProcessDies(r) PROVE TypeInv'
    <2>1. proc' \in [Requests -> Process]
      BY <1>4, ProcTypes DEF ProcessDies, TypeOK, Phases
    <2> QED
      BY <1>4, <2>1 DEF TypeOK, TurnInv, PlanInv, ProcessDies, Applied, Elems
  <1> QED
    BY <1>1, <1>2, <1>3, <1>4 DEF NativeStep

-----------------------------------------------------------------------------
(* The steps of a job.                                                       *)

LEMMA InferenceTypes ==
    ASSUME TypeInv, UNCHANGED text,
           \/ OpenSources \/ Launch \/ WaitFails \/ LaunchFails
           \/ InferenceEnds \/ InferenceFails
           \/ \E x \in Failures : InferenceAborts(x)
    PROVE  TypeInv'
  <1> USE DEF TypeInv, At, history, Jobs, Places, EarlyPlaces
  <1>1. CASE Launch
    <2>1. Revision(mem) \in Nat
      BY LenProperties DEF Revision, TypeOK, Journal
    <2>2. proc' \in [Requests -> Process]
      BY <1>1, <2>1 DEF Launch, TypeOK, Process, Phases
    <2> QED
      BY <1>1, <2>2 DEF Launch, Await, TypeOK, TurnInv, PlanInv
  <1>2. CASE LaunchFails
    <2>1. current' \in ReqOrNone
      BY <1>2 DEF LaunchFails, TypeOK, ReqOrNone
    <2> QED
      BY <1>2, <2>1, RaiseTypes DEF LaunchFails, TypeOK, TurnInv, PlanInv
  <1>3. CASE InferenceEnds
    BY <1>3 DEF InferenceEnds, Await, TypeOK, TurnInv, PlanInv
  <1>4. CASE InferenceFails
    BY <1>4 DEF InferenceFails, Await, TypeOK, TurnInv, PlanInv
  <1>5. ASSUME NEW x \in Failures, InferenceAborts(x) PROVE TypeInv'
    <2>1. proc' \in [Requests -> Process]
      BY <1>5, ProcTypes DEF InferenceAborts, Kill, Phases
    <2> QED
      BY <1>5, <2>1, RaiseTypes DEF InferenceAborts, TypeOK, TurnInv, PlanInv
  <1>6. CASE WaitFails
    <2>1. faults' \in 0..MaxFaults
      BY <1>6 DEF WaitFails, TypeOK
    <2> QED
      BY <1>6, <2>1 DEF WaitFails, TypeOK, TurnInv, PlanInv
  <1>7. CASE OpenSources
    <2>1. current' \in ReqOrNone
      BY <1>7 DEF OpenSources, TurnInv, Current, ReqOrNone
    <2> QED
      BY <1>7, <2>1 DEF OpenSources, Await, TypeOK, TurnInv, PlanInv
  <1> QED
    BY <1>1, <1>2, <1>3, <1>4, <1>5, <1>6, <1>7

LEMMA RefreshTypes ==
    ASSUME TypeInv, UNCHANGED text,
           \/ \E w \in Outcomes : Refresh(w) \/ RefreshStopped(w)
           \/ \E x \in Failures : RefreshFails(x)
    PROVE  TypeInv'
  <1> USE DEF TypeInv, At, history, Jobs, Places, EarlyPlaces
  <1>0. /\ Reconciled(mem) \in Journal /\ Reconciled(mem).tasks = mem.tasks
        /\ Reconciled(mem).turn = mem.turn /\ Reconciled(mem).request = mem.request
    BY ReconciledJournal DEF TypeOK
  <1>n. Len(native) \in Nat
    BY LenProperties DEF TypeOK
  <1>1. ASSUME NEW w \in Outcomes, Refresh(w) PROVE TypeInv'
    <2>1. /\ mem' \in Journal /\ disk' \in Journal /\ faults' \in 0..MaxFaults
          /\ mem' = Reconciled(mem) /\ seen' \in Nat
      BY <1>0, <1>n, <1>1, InPlaceTypes DEF Refresh, InPlace, ReadHistory
    <2>2. CASE w = "ok"
      <3>1. NextOf(pc) \in Places
        BY DEF NextOf
      <3>2. pc' \in EarlyPlaces => pc = "receipt"
        BY <1>1, <2>2 DEF Refresh, Await, NextOf
      <3>3. job # "control"
        BY <1>1 DEF Refresh, PlanInv
      <3> QED
        BY <1>0, <1>1, <2>1, <2>2, <3>1, <3>2, <3>3, AwaitTypes
        DEF Refresh, Await, TypeOK, TurnInv, PlanInv
    <2>3. CASE w # "ok"
      BY <1>0, <1>1, <2>1, <2>3, RaiseTypes DEF Refresh, TypeOK, TurnInv, PlanInv
    <2> QED
      BY <2>2, <2>3
  <1>2. ASSUME NEW w \in Outcomes, RefreshStopped(w) PROVE TypeInv'
    <2>1. /\ mem' \in Journal /\ disk' \in Journal /\ faults' \in 0..MaxFaults
          /\ mem' \in {mem, Reconciled(mem)} /\ seen' \in Nat
      BY <1>0, <1>n, <1>2, InPlaceTypes DEF RefreshStopped, InPlace, TypeOK, ReadHistory
    <2> QED
      BY <1>0, <1>2, <2>1 DEF RefreshStopped, Await, TypeOK, TurnInv, PlanInv
  <1>3. ASSUME NEW x \in Failures, RefreshFails(x) PROVE TypeInv'
    BY <1>3, RaiseTypes DEF RefreshFails, TypeOK, TurnInv, PlanInv
  <1> QED
    BY <1>1, <1>2, <1>3

LEMMA StageTypes ==
    ASSUME TypeInv, UNCHANGED text, mem.turn.req \in Requests, NEW i \in Nat, NEW w,
           StageProposal(i, w), job # "control"
    PROVE  TypeInv'
  <1>1. /\ Staged(mem, i) \in Journal
        /\ Staged(mem, i).turn = mem.turn /\ Staged(mem, i).request = mem.request
    BY StagedJournal DEF TypeInv, TypeOK
  <1>2. /\ mem' \in Journal /\ disk' \in Journal /\ faults' \in 0..MaxFaults
        /\ mem'.request = mem.request /\ mem'.turn = mem.turn
    BY <1>1, CommitTypes DEF StageProposal, TypeInv, Commit
  <1>3. CASE w = "ok"
    BY <1>2, <1>3 DEF StageProposal, Await, history, TypeInv, TypeOK, TurnInv, PlanInv
  <1>4. CASE w # "ok"
    BY <1>2, <1>4, RaiseTypes
    DEF StageProposal, history, TypeInv, TypeOK, TurnInv, PlanInv, Jobs, Places, EarlyPlaces
  <1> QED
    BY <1>3, <1>4

\* A stored pair is found only for a turn whose request is known.
LEMMA RecoverableKnown ==
    ASSUME TypeInv, NEW i, Recoverable(i)
    PROVE  mem.turn.req \in Requests
  <1>1. SUFFICES ASSUME mem.turn.req \notin Requests PROVE FALSE
    OBVIOUS
  <1>2. \A k \in DOMAIN native : native[k] \in Row
    BY ElementOfSeq, LenProperties DEF TypeInv, TypeOK
  <1>3. \A k \in DOMAIN native : native[k].by # mem.turn.req
    BY <1>1, <1>2 DEF Row
  <1>4. UserRows(Current) = {}
    BY <1>3 DEF UserRows, Current
  <1> QED
    BY <1>4, FS_EmptySet DEF Recoverable

LEMMA RecoveryTypes ==
    ASSUME TypeInv, UNCHANGED text,
           \/ \E w \in Outcomes : StageReceipt(w) \/ DropSourceTurn(w) \/ RecoverStage(w)
           \/ SourceCheckFails \/ RecoverNothing
    PROVE  TypeInv'
  <1> USE DEF TypeInv, At, history, Jobs, Places, EarlyPlaces
  <1>1. ASSUME NEW w \in Outcomes, StageReceipt(w) PROVE TypeInv'
    <2>1. mem.turn.req \in Requests /\ job # "control"
      BY <1>1 DEF StageReceipt, TurnInv
    <2>2. proc[Current].row \in Nat
      BY <2>1 DEF TypeOK, Process, Current
    <2> QED
      BY <1>1, <2>1, <2>2, StageTypes DEF StageReceipt
  <1>2. ASSUME NEW w \in Outcomes, DropSourceTurn(w) PROVE TypeInv'
    <2>1. /\ mem' \in Journal /\ disk' \in Journal /\ faults' \in 0..MaxFaults
          /\ mem'.request = mem.request
      BY <1>2, JournalUpdates, InPlaceTypes DEF DropSourceTurn, InPlace, TypeOK, Journal
    <2>2. CASE w = "ok"
      BY <1>2, <2>1, <2>2 DEF DropSourceTurn, TypeOK, TurnInv, PlanInv
    <2>3. CASE w # "ok"
      BY <1>2, <2>1, <2>3, RaiseTypes DEF DropSourceTurn, TypeOK, TurnInv, PlanInv
    <2> QED
      BY <2>2, <2>3
  <1>3. ASSUME NEW w \in Outcomes, RecoverStage(w) PROVE TypeInv'
    <2>1. PICK i \in DOMAIN native :
            /\ Recoverable(i)
            /\ \/ StageProposal(i, w)
               \/ /\ UNCHANGED <<seen, current, mem, disk, native, proc, history,
                                  faults, crashes>>
                  /\ Raise("chat")
      BY <1>3 DEF RecoverStage
    <2>2. mem.turn.req \in Requests
      BY <2>1, RecoverableKnown
    <2>3. i \in Nat
      BY LenProperties DEF TypeOK
    <2>4. job # "control"
      BY <1>3 DEF RecoverStage, PlanInv
    <2>5. CASE StageProposal(i, w)
      BY <2>2, <2>3, <2>4, <2>5, StageTypes
    <2>6. CASE ~StageProposal(i, w)
      BY <2>1, <2>6, RaiseTypes DEF TypeOK, TurnInv, PlanInv
    <2> QED
      BY <2>5, <2>6
  <1>4. CASE SourceCheckFails
    BY <1>4, RaiseTypes DEF SourceCheckFails, TypeOK, TurnInv, PlanInv
  <1>5. CASE RecoverNothing
    <2>1. error' \in BOOLEAN
      BY <1>5 DEF RecoverNothing, TypeOK
    <2> QED
      BY <1>5, <2>1 DEF RecoverNothing, TypeOK, TurnInv, PlanInv
  <1> QED
    BY <1>1, <1>2, <1>3, <1>4, <1>5

LEMMA PublishTypes ==
    ASSUME TypeInv, PublishRow
    PROVE  native' \in Seq(Row)
  <1>1. CASE mem.pub.row \in 1..Len(native)
    <2>1. native[mem.pub.row] \in Row
      BY <1>1, ElementOfSeq DEF TypeInv, TypeOK
    <2>2. [native[mem.pub.row] EXCEPT !.disp = mem.pub.disp] \in Row
      BY <2>1 DEF TypeInv, TypeOK, Row, Journal, Publication
    <2>3. native' = [native EXCEPT ![mem.pub.row] =
                       [native[mem.pub.row] EXCEPT !.disp = mem.pub.disp]]
      BY <1>1 DEF PublishRow, TypeInv, TypeOK
    <2> QED
      BY <1>1, <2>2, <2>3, ExceptSeq DEF TypeInv, TypeOK
  <1>2. CASE mem.pub.row \notin 1..Len(native)
    <2>1. native' = native
      BY <1>2, LenProperties DEF PublishRow, TypeInv, TypeOK
    <2> QED
      BY <2>1 DEF TypeInv, TypeOK
  <1> QED
    BY <1>1, <1>2

LEMMA FinalizeTypes ==
    ASSUME TypeInv, UNCHANGED text,
           \/ FinalizeSucceeds \/ FinishRecover
           \/ \E x \in Failures : FinalizeFails(x)
           \/ \E w \in Outcomes : ClearReceipt(w) \/ FinishTurn(w) \/ FinishBoot(w)
    PROVE  TypeInv'
  <1> USE DEF TypeInv, At, history, Jobs, Places, EarlyPlaces
  <1>1. CASE FinalizeSucceeds
    BY <1>1, PublishTypes DEF FinalizeSucceeds, Await, TypeOK, TurnInv, PlanInv
  <1>2. CASE FinishRecover
    BY <1>2 DEF FinishRecover, TypeOK, TurnInv, PlanInv
  <1>3. ASSUME NEW x \in Failures, FinalizeFails(x) PROVE TypeInv'
    <2>1. native' \in Seq(Row)
      BY <1>3, PublishTypes DEF FinalizeFails, TypeOK
    <2> QED
      BY <1>3, <2>1, RaiseTypes DEF FinalizeFails, TypeOK, TurnInv, PlanInv
  <1>4. ASSUME NEW w \in Outcomes, ClearReceipt(w) PROVE TypeInv'
    <2>1. /\ mem' \in Journal /\ disk' \in Journal /\ faults' \in 0..MaxFaults
          /\ mem'.request = mem.request
      BY <1>4, JournalUpdates, CommitTypes DEF ClearReceipt, Commit, TypeOK, Journal
    <2>2. CASE w = "ok"
      BY <1>4, <2>1, <2>2 DEF ClearReceipt, Await, TypeOK, TurnInv, PlanInv
    <2>3. CASE w # "ok"
      BY <1>4, <2>1, <2>3, RaiseTypes DEF ClearReceipt, TypeOK, TurnInv, PlanInv
    <2> QED
      BY <2>2, <2>3
  <1>5. ASSUME NEW w \in Outcomes, FinishTurn(w) PROVE TypeInv'
    <2>1. mem' \in Journal /\ disk' \in Journal /\ faults' \in 0..MaxFaults
      BY <1>5, JournalUpdates, InPlaceTypes DEF FinishTurn, TypeOK
    <2> QED
      BY <1>5, <2>1 DEF FinishTurn, TypeOK, TurnInv, PlanInv, ReqOrNone
  <1>6. ASSUME NEW w \in Outcomes, FinishBoot(w) PROVE TypeInv'
    <2>1. mem' \in Journal /\ disk' \in Journal /\ faults' \in 0..MaxFaults
      BY <1>6, JournalUpdates, InPlaceTypes DEF FinishBoot, TypeOK
    <2>2. up' \in BOOLEAN /\ error' \in BOOLEAN
      BY <1>6 DEF FinishBoot, TypeOK
    <2> QED
      BY <1>6, <2>1, <2>2 DEF FinishBoot, TypeOK, TurnInv, PlanInv
  <1> QED
    BY <1>1, <1>2, <1>3, <1>4, <1>5, <1>6

-----------------------------------------------------------------------------
(* What callers and the machine do.                                          *)

LEMMA SendTypes ==
    ASSUME TypeInv, UNCHANGED text, NEW r \in Requests,
           SendRetry(r) \/ SendConfigFails(r) \/ \E w \in Outcomes : Send(r, w)
    PROVE  TypeInv'
  <1> USE DEF TypeInv, history, service
  <1>1. CASE SendRetry(r)
    BY <1>1 DEF SendRetry, TypeOK, TurnInv, PlanInv, Change, Applied, Elems
  <1>2. CASE SendConfigFails(r)
    BY <1>2 DEF SendConfigFails, Idle, TypeOK, TurnInv, PlanInv
  <1>3. ASSUME NEW w \in Outcomes, Send(r, w) PROVE TypeInv'
    <2>1. /\ mem' \in Journal /\ disk' \in Journal /\ faults' \in 0..MaxFaults
          /\ mem'.request = r /\ mem'.turn.req = r
      <3>1. /\ mem' \in Journal /\ disk' \in Journal /\ faults' \in 0..MaxFaults
        BY <1>3, SentJournal, InPlaceTypes DEF Send, TypeOK
      <3> QED
        BY <1>3, <3>1 DEF Send, InPlace, TypeOK, Journal
    <2>2. /\ job' \in Jobs /\ pc' \in Places /\ acked' \subseteq Change
          /\ job' # "control" /\ (job' = "turn" => pc' = "queued")
      BY <1>3 DEF Send, Idle, TypeOK, Jobs, Places, Change
    <2> QED
      BY <1>3, <2>1, <2>2 DEF Send, TypeOK, TurnInv, PlanInv, Jobs, Places
  <1> QED
    BY <1>1, <1>2, <1>3

LEMMA ControlTypes ==
    ASSUME TypeInv, UNCHANGED text,
           \/ \E c \in Controls : ControlRetry(c) \/ \E b \in 0..Revision(mem) : ControlPlan(c, b)
           \/ \E w \in Outcomes : ControlCommit(w)
    PROVE  TypeInv'
  <1> USE DEF TypeInv, history, service
  <1>1. ASSUME NEW c \in Controls, ControlRetry(c) PROVE TypeInv'
    BY <1>1 DEF ControlRetry, TypeOK, TurnInv, PlanInv, Change, Applied, Elems
  <1>2. ASSUME NEW c \in Controls, NEW b \in 0..Revision(mem), ControlPlan(c, b)
        PROVE TypeInv'
    <2>1. plan' = Append(mem.tasks, c) /\ c \in Controls \ Applied(mem)
      BY <1>2 DEF ControlPlan, ApplyBatch, Applied
    <2>2. plan' \in Seq(Change)
      BY <2>1, AppendProperties DEF TypeOK, Journal, Change
    <2>3. mem' = mem /\ job' = "control" /\ pc' = "commit"
      BY <1>2 DEF ControlPlan
    <2>4. PlanInv'
      BY <2>1, <2>3 DEF PlanInv, Applied
    <2> QED
      BY <1>2, <2>2, <2>3, <2>4 DEF ControlPlan, TypeOK, TurnInv
  <1>3. ASSUME NEW w \in Outcomes, ControlCommit(w) PROVE TypeInv'
    <2>1. mem' \in Journal /\ disk' \in Journal /\ faults' \in 0..MaxFaults
      BY <1>3, JournalUpdates, CommitTypes DEF ControlCommit, TypeOK
    <2>2. plan[Len(plan)] \in Change
      <3>1. PICK c \in Controls : plan = Append(mem.tasks, c)
        BY <1>3 DEF ControlCommit, At, PlanInv
      <3>2. plan[Len(plan)] = c
        BY <3>1, AppendProperties DEF TypeOK, Journal, Change
      <3> QED
        BY <3>2 DEF Change
    <2>3. acked' \subseteq Change /\ error' \in BOOLEAN
      BY <1>3, <2>2 DEF ControlCommit, TypeOK
    <2> QED
      BY <1>3, <2>1, <2>3, EmptySeq DEF ControlCommit, TypeOK, TurnInv, PlanInv
  <1> QED
    BY <1>1, <1>2, <1>3

LEMMA OthersTypes ==
    ASSUME TypeInv, UNCHANGED text, NEW w \in Outcomes, OthersRefresh(w)
    PROVE  TypeInv'
  <1>1. /\ Reconciled(mem) \in Journal /\ Reconciled(mem).tasks = mem.tasks
        /\ Reconciled(mem).turn = mem.turn /\ Reconciled(mem).request = mem.request
    BY ReconciledJournal DEF TypeInv, TypeOK
  <1>2. /\ mem' \in Journal /\ disk' \in Journal /\ faults' \in 0..MaxFaults
        /\ mem' = Reconciled(mem)
    BY <1>1, InPlaceTypes DEF OthersRefresh, InPlace, TypeInv
  <1>3. seen' \in Nat
    BY LenProperties DEF OthersRefresh, ReadHistory, TypeInv, TypeOK
  <1> QED
    BY <1>1, <1>2, <1>3
    DEF OthersRefresh, history, TypeInv, TypeOK, TurnInv, PlanInv, Applied, Elems

LEMMA OutsideTypes ==
    ASSUME TypeInv, UNCHANGED text, Outside
    PROVE  TypeInv'
  <1> USE DEF TypeInv, At, history, service
  <1>1. ASSUME NEW r \in Requests,
               SendRetry(r) \/ SendConfigFails(r) \/ \E w \in Outcomes : Send(r, w)
        PROVE  TypeInv'
    BY <1>1, SendTypes
  <1>2. ASSUME NEW w \in Outcomes, ReadSource(w) PROVE TypeInv'
    <2>1. /\ mem' \in Journal /\ disk' \in Journal /\ faults' \in 0..MaxFaults
          /\ mem'.request = mem.request /\ mem'.turn.req = mem.turn.req
      <3>1. mem' \in Journal /\ disk' \in Journal /\ faults' \in 0..MaxFaults
        BY <1>2, JournalUpdates, InPlaceTypes DEF ReadSource, TypeOK
      <3> QED
        BY <1>2, <3>1 DEF ReadSource, InPlace, TypeOK, Journal, Turn
    <2>2. sourced' \subseteq Requests
      BY <1>2 DEF ReadSource, TypeOK, TurnInv, Current
    <2> QED
      BY <1>2, <2>1, <2>2 DEF ReadSource, TypeOK, TurnInv, PlanInv
  <1>3. ASSUME NEW c \in Controls,
               ControlRetry(c) \/ \E b \in 0..Revision(mem) : ControlPlan(c, b)
        PROVE  TypeInv'
    BY <1>3, ControlTypes
  <1>4. CASE Stop
    <2>1. mem' \in Journal
      BY <1>4, JournalUpdates DEF Stop, TypeOK
    <2>2. mem'.request = mem.request
      BY <1>4 DEF Stop, TypeOK, Journal
    <2>3. proc' \in [Requests -> Process]
      BY <1>4, ProcTypes DEF Stop, Kill, Phases
    <2> QED
      BY <1>4, <2>1, <2>2, <2>3 DEF Stop, TypeOK, TurnInv, PlanInv
  <1>5. CASE StopWhileClosing \/ StopUnopened
    BY <1>5 DEF StopWhileClosing, StopUnopened, TypeOK, TurnInv, PlanInv
  <1>6. CASE Recover
    BY <1>6 DEF Recover, TypeOK, TurnInv, PlanInv
  <1>7. CASE Start
    BY <1>7 DEF Start, TypeOK, TurnInv, PlanInv
  <1>8. CASE Shutdown
    <2>1. proc' \in [Requests -> Process]
      BY <1>8, ProcTypes DEF Shutdown, TypeOK, Phases
    <2>2. disk' \in Journal
      BY <1>8 DEF Shutdown, TypeOK
    <2>3. crashes' \in 0..MaxCrashes
      BY <1>8 DEF Shutdown, TypeOK
    <2>4. plan' \in Seq(Change)
      BY <1>8, EmptySeq DEF Shutdown, Down
    <2> QED
      BY <1>8, <2>1, <2>2, <2>3, <2>4 DEF Shutdown, Down, TypeOK, TurnInv, PlanInv, ReqOrNone
  <1>9. ASSUME NEW survive \in BOOLEAN, Crash(survive) PROVE TypeInv'
    <2>1. proc' \in [Requests -> Process]
      BY <1>9 DEF Crash, TypeOK, Process, Phases
    <2>2. crashes' \in 0..MaxCrashes
      BY <1>9 DEF Crash, TypeOK
    <2>3. plan' \in Seq(Change)
      BY <1>9, EmptySeq DEF Crash, Down
    <2> QED
      BY <1>9, <2>1, <2>2, <2>3 DEF Crash, Down, TypeOK, TurnInv, PlanInv, ReqOrNone
  <1>10. ASSUME NEW w \in Outcomes, SaveMeta(w) PROVE TypeInv'
    <2>1. /\ mem' \in Journal /\ disk' \in Journal /\ faults' \in 0..MaxFaults
          /\ mem' = mem
      BY <1>10, InPlaceTypes DEF SaveMeta, InPlace, TypeOK
    <2> QED
      BY <1>10, <2>1 DEF SaveMeta, TypeOK, TurnInv, PlanInv
  <1>11. ASSUME NEW w \in Outcomes, OthersRefresh(w) PROVE TypeInv'
    BY <1>11, OthersTypes
  <1> QED
    BY <1>1, <1>2, <1>3, <1>4, <1>5, <1>6, <1>7, <1>8, <1>9, <1>10, <1>11 DEF Outside

LEMMA TypeStep == TypeInv /\ [Next]_vars => TypeInv'
  <1> SUFFICES ASSUME TypeInv, [Next]_vars PROVE TypeInv'
    OBVIOUS
  <1> text' = text
    BY DEF Next, vars
  <1>1. CASE NativeStep
    BY <1>1, NativeTypes
  <1>2. CASE JobStep
    BY <1>2, InferenceTypes, RefreshTypes, RecoveryTypes, FinalizeTypes, ControlTypes
    DEF JobStep
  <1>3. CASE Outside
    BY <1>3, OutsideTypes
  <1>4. CASE UNCHANGED vars
    BY <1>4 DEF vars, TypeInv, TypeOK, TurnInv, PlanInv, Applied, Elems
  <1> QED
    BY <1>1, <1>2, <1>3, <1>4 DEF Next

LEMMA TypeInit == Init => TypeInv
  <1> SUFFICES ASSUME Init PROVE TypeInv
    OBVIOUS
  <1>1. FreshJournal \in Journal
    BY EmptySeq DEF FreshJournal, Journal, NoTurn, NoPub, NoMsg, Turn, Publication,
                    Receipt, ReqOrNone, Dispositions
  <1>2. proc \in [Requests -> Process]
    BY DEF Init, Process, Phases
  <1>3. plan \in Seq(Change) /\ native \in Seq(Row)
    BY EmptySeq DEF Init
  <1>4. faults \in 0..MaxFaults /\ crashes \in 0..MaxCrashes
    BY DEF Init
  <1> QED
    BY <1>1, <1>2, <1>3, <1>4 DEF Init, TypeInv, TypeOK, TurnInv, PlanInv, ReqOrNone

\* Every reachable state is well typed: the journal in memory and on disk, the
\* native rows and the processes keep their shapes through every handler.
THEOREM TypeCorrect == Spec => []TypeOK
  <1>1. TypeInv => TypeOK
    BY DEF TypeInv
  <1> QED
    BY <1>1, TypeInit, TypeStep, PTL DEF Spec

-----------------------------------------------------------------------------
(* What was said stays true.                                                 *)

LEMMA AppendChange ==
    ASSUME NEW s \in Seq(Change), NEW e \in Change
    PROVE  /\ Elems(Append(s, e)) = Elems(s) \cup {e}
           /\ NoRepeats(s) /\ e \notin Elems(s) => NoRepeats(Append(s, e))
  <1>1. /\ Append(s, e) \in Seq(Change) /\ Len(s) \in Nat
        /\ DOMAIN s = 1..Len(s) /\ DOMAIN Append(s, e) = 1..(Len(s) + 1)
        /\ \A i \in 1..Len(s) : Append(s, e)[i] = s[i]
        /\ Append(s, e)[Len(s) + 1] = e
    BY AppendProperties, LenProperties
  <1>2. Elems(Append(s, e)) = Elems(s) \cup {e}
    <2>1. \A x \in Elems(Append(s, e)) : x \in Elems(s) \cup {e}
      <3>1. ASSUME NEW i \in 1..(Len(s) + 1) PROVE i \in 1..Len(s) \/ i = Len(s) + 1
        BY <1>1
      <3> QED
        BY <1>1, <3>1 DEF Elems
    <2>2. \A x \in Elems(s) \cup {e} : x \in Elems(Append(s, e))
      <3>1. Len(s) + 1 \in 1..(Len(s) + 1) /\ \A i \in 1..Len(s) : i \in 1..(Len(s) + 1)
        BY <1>1
      <3> QED
        BY <1>1, <3>1 DEF Elems
    <2> QED
      BY <2>1, <2>2
  <1>3. ASSUME NoRepeats(s), e \notin Elems(s) PROVE NoRepeats(Append(s, e))
    BY <1>1, <1>3 DEF NoRepeats, Elems
  <1> QED
    BY <1>2, <1>3

\* Nothing that said bears on has moved.
LEMMA SaidStill ==
    ASSUME SaidInv, UNCHANGED <<mem, disk, native, acked>>
    PROVE  SaidInv'
  BY DEF SaidInv, Sound, NoRepeats, Backed, Said, CommittedRows, Applied, Elems

\* A journal with the same tasks, and the same receipt or none.
LEMMA SameSound ==
    ASSUME NEW j, Sound(mem), j.tasks = mem.tasks, j.pub \in {mem.pub, NoPub}
    PROVE  Sound(j) /\ Applied(j) = Applied(mem)
  BY DEF Sound, Backed, Applied, NoPub

\* Whatever becomes of a write, both journals stay sound.
LEMMA WriteKeeps ==
    ASSUME SaidInv, native' = native, (acked \cap Controls)' = acked \cap Controls,
           NEW j, NEW w, Sound(j),
           \/ Commit(j, w) /\ Applied(mem) \subseteq Applied(j)
           \/ InPlace(j, w) /\ Applied(mem) = Applied(j)
    PROVE  SaidInv'
  <1>1. Said' = Said
    BY DEF Said, CommittedRows
  <1>2. mem' \in {mem, j} /\ disk' \in {disk, j}
    BY DEF Commit, InPlace, Write
  <1>3. Sound(mem)' /\ Sound(disk)'
    <2>1. Sound(mem) /\ Sound(disk)
      BY DEF SaidInv
    <2> QED
      BY <1>1, <1>2, <2>1 DEF Sound, Backed, Applied
  <1>4. Applied(mem)' \subseteq Applied(disk)'
    <2>1. CASE w = "ok"
      <3>1. mem' = j /\ disk' = j
        BY <2>1 DEF Commit, InPlace, Write
      <3> QED
        BY <3>1 DEF Applied
    <2>2. CASE w # "ok"
      BY <1>2, <2>2 DEF Commit, InPlace, SaidInv, Applied
    <2> QED
      BY <2>1, <2>2
  <1> QED
    BY <1>3, <1>4 DEF SaidInv

LEMMA StagedSound ==
    ASSUME NEW j \in Journal, NEW i \in Nat, j.turn.req \in Requests, Sound(j)
    PROVE  Sound(Staged(j, i)) /\ Applied(j) \subseteq Applied(Staged(j, i))
  <1> DEFINE t == j.turn.req
             d == Disposition(j, i)
             k == Staged(j, i)
  <1>1. /\ k.pub = [req |-> t, row |-> i, disp |-> d]
        /\ k.tasks = IF d = "committed" THEN ApplyBatch(j.tasks, t) ELSE j.tasks
    BY DEF Staged, Journal
  <1>2. CASE d # "committed"
    BY <1>1, <1>2 DEF Sound, Backed, Applied
  <1>3. CASE d = "committed" /\ t \in Applied(j)
    <2>1. k.tasks = j.tasks
      BY <1>1, <1>3 DEF ApplyBatch, Applied
    <2> QED
      BY <1>1, <1>3, <2>1 DEF Sound, Backed, Applied
  <1>4. CASE d = "committed" /\ t \notin Applied(j)
    <2>1. k.tasks = Append(j.tasks, t)
      BY <1>1, <1>4 DEF ApplyBatch, Applied
    <2>2. j.tasks \in Seq(Change) /\ t \in Change
      BY DEF Journal, Change
    <2>3. Applied(k) = Applied(j) \cup {t} /\ NoRepeats(k.tasks)
      BY <1>4, <2>1, <2>2, AppendChange DEF Applied, Sound
    <2> QED
      BY <1>1, <2>3 DEF Sound, Backed
  <1> QED
    BY <1>2, <1>3, <1>4

\* A reply leaves the journal for native history.
LEMMA PublishKeeps ==
    ASSUME TypeInv, SaidInv, Publishable(mem.pub), PublishRow,
           UNCHANGED <<mem, disk, acked>>
    PROVE  SaidInv'
  <1>1. /\ DOMAIN native' = DOMAIN native
        /\ \A i \in DOMAIN native : native'[i].tag = native[i].tag
        /\ \A i \in DOMAIN native : i # mem.pub.row => native'[i] = native[i]
        /\ mem.pub.row \in DOMAIN native => native'[mem.pub.row].disp = mem.pub.disp
    <2>1. \A i \in DOMAIN native : native[i] \in Row
      BY ElementOfSeq, LenProperties DEF TypeInv, TypeOK
    <2> QED
      BY <2>1 DEF PublishRow, TypeInv, TypeOK, Row
  <1>2. Said' \subseteq Applied(mem)
    <2>1. ASSUME NEW x \in Said' PROVE x \in Applied(mem)
      <3>1. CASE x \in acked \cap Controls
        BY <3>1 DEF Said, SaidInv, Sound
      <3>2. CASE x \notin acked \cap Controls
        <4>1. PICK i \in DOMAIN native : native'[i].disp = "committed" /\ x = native'[i].tag
          BY <1>1, <3>2 DEF Said, CommittedRows
        <4>2. CASE i # mem.pub.row
          <5>1. i \in CommittedRows /\ x = native[i].tag
            BY <1>1, <4>1, <4>2 DEF CommittedRows
          <5> QED
            BY <5>1 DEF Said, SaidInv, Sound
        <4>3. CASE i = mem.pub.row
          <5>1. mem.pub.disp = "committed" /\ x = mem.pub.req
            BY <1>1, <4>1, <4>3 DEF Publishable
          <5> QED
            BY <5>1 DEF SaidInv, Sound, Backed
        <4> QED
          BY <4>2, <4>3
      <3> QED
        BY <3>1, <3>2
    <2> QED
      BY <2>1
  <1>3. Said' \subseteq Applied(disk)
    BY <1>2 DEF SaidInv
  <1> QED
    BY <1>2, <1>3 DEF SaidInv, Sound, Backed, Applied

\* Nothing new is said.
LEMMA NothingSaid ==
    ASSUME SaidInv, UNCHANGED <<mem, disk>>, Said' \subseteq Said
    PROVE  SaidInv'
  BY DEF SaidInv, Sound, NoRepeats, Backed, Applied, Elems

\* A row is stored with its outcome open.
LEMMA StoreKeeps ==
    ASSUME TypeInv, SaidInv, UNCHANGED <<mem, disk, acked>>,
           NEW row, row \in Row, row.disp = "none", native' = Append(native, row)
    PROVE  SaidInv'
  <1>1. /\ Len(native) \in Nat /\ DOMAIN native = 1..Len(native)
        /\ DOMAIN native' = 1..(Len(native) + 1)
        /\ \A i \in 1..Len(native) : native'[i] = native[i]
        /\ native'[Len(native) + 1] = row
    BY AppendProperties, LenProperties DEF TypeInv, TypeOK
  <1>2. \A i \in CommittedRows' : i \in CommittedRows /\ native'[i].tag = native[i].tag
    <2>1. ASSUME NEW i \in 1..(Len(native) + 1)
          PROVE  i \in 1..Len(native) \/ i = Len(native) + 1
      BY <1>1
    <2> QED
      BY <1>1, <2>1 DEF CommittedRows
  <1> QED
    BY <1>2, NothingSaid DEF Said

LEMMA NativeKeeps ==
    ASSUME TypeInv, SaidInv, NativeStep
    PROVE  SaidInv'
  <1> USE DEF NativeOnly, service, history
  <1>1. ASSUME NEW r \in Requests, StoreUser(r) PROVE SaidInv'
    <2> DEFINE row == [role |-> "user", by |-> r, tag |-> r, base |-> proc[r].base,
                       kind |-> "none", disp |-> "none"]
    <2>1. row \in Row /\ row.disp = "none"
      BY DEF TypeInv, TypeOK, Row, Process, ReqOrNone, Dispositions
    <2>2. native' = Append(native, row) /\ UNCHANGED <<mem, disk, acked>>
      BY <1>1 DEF StoreUser
    <2> HIDE DEF row
    <2> QED
      BY <2>1, <2>2, StoreKeeps
  <1>2. ASSUME NEW r \in Requests, NEW k \in Kinds, StoreProposal(r, k) PROVE SaidInv'
    <2> DEFINE row == [role |-> "assistant", by |-> r, tag |-> NoReq, base |-> 0,
                       kind |-> k, disp |-> "none"]
    <2>1. row \in Row /\ row.disp = "none"
      BY DEF Row, ReqOrNone, Dispositions
    <2>2. native' = Append(native, row) /\ UNCHANGED <<mem, disk, acked>>
      BY <1>2 DEF StoreProposal
    <2> HIDE DEF row
    <2> QED
      BY <2>1, <2>2, StoreKeeps
  <1>3. ASSUME NEW r \in Requests, TagProposal(r) PROVE SaidInv'
    <2>1. PICK i \in AssistantRows :
            native' = [native EXCEPT ![i].tag = r, ![i].base = proc[r].base,
                                     ![i].disp = "none"]
      BY <1>3 DEF TagProposal
    <2>2. \A k \in DOMAIN native : native[k] \in Row
      BY ElementOfSeq, LenProperties DEF TypeInv, TypeOK
    <2>3. /\ DOMAIN native' = DOMAIN native
          /\ \A k \in DOMAIN native : k # i => native'[k] = native[k]
          /\ native'[i].disp = "none"
      BY <2>1, <2>2 DEF AssistantRows, TypeInv, TypeOK, Row
    <2>4. \A k \in CommittedRows' : k \in CommittedRows /\ native'[k].tag = native[k].tag
      BY <2>3 DEF CommittedRows
    <2>5. UNCHANGED <<mem, disk, acked>>
      BY <1>3 DEF TagProposal
    <2> QED
      BY <2>4, <2>5, NothingSaid DEF Said
  <1>4. ASSUME NEW r \in Requests, ProcessDies(r) PROVE SaidInv'
    BY <1>4, SaidStill DEF ProcessDies
  <1> QED
    BY <1>1, <1>2, <1>3, <1>4 DEF NativeStep

LEMMA StageKeeps ==
    ASSUME TypeInv, SaidInv, mem.turn.req \in Requests, NEW i \in Nat, NEW w,
           StageProposal(i, w)
    PROVE  SaidInv'
  <1>1. Sound(Staged(mem, i)) /\ Applied(mem) \subseteq Applied(Staged(mem, i))
    BY StagedSound DEF TypeInv, TypeOK, SaidInv
  <1>2. Commit(Staged(mem, i), w) /\ UNCHANGED <<native, acked>>
    BY DEF StageProposal, history
  <1> QED
    BY <1>1, <1>2, WriteKeeps

LEMMA JobKeeps ==
    ASSUME TypeInv, SaidInv, JobStep, ~\E w \in Outcomes : ControlCommit(w)
    PROVE  SaidInv'
  <1> USE DEF At, history
  <1>0. mem \in Journal /\ Sound(mem)
    BY DEF TypeInv, TypeOK, SaidInv
  <1>1. CASE OpenSources \/ Launch \/ WaitFails \/ LaunchFails \/ InferenceEnds
             \/ InferenceFails \/ SourceCheckFails \/ RecoverNothing \/ FinishRecover
    BY <1>1, SaidStill DEF OpenSources, Launch, WaitFails, LaunchFails, InferenceEnds, InferenceFails,
                           SourceCheckFails, RecoverNothing, FinishRecover
  <1>2. ASSUME NEW x \in Failures, InferenceAborts(x) \/ RefreshFails(x) PROVE SaidInv'
    BY <1>2, SaidStill DEF InferenceAborts, RefreshFails
  <1>3. ASSUME NEW x \in Failures, FinalizeFails(x) PROVE SaidInv'
    BY <1>3, SaidStill, PublishKeeps DEF FinalizeFails
  <1>4. CASE FinalizeSucceeds
    BY <1>4, PublishKeeps DEF FinalizeSucceeds
  <1>5. ASSUME NEW w \in Outcomes, Refresh(w) \/ RefreshStopped(w) PROVE SaidInv'
    <2>1. Sound(Reconciled(mem)) /\ Applied(Reconciled(mem)) = Applied(mem)
      BY <1>0, ReconciledJournal, SameSound
    <2>2. UNCHANGED <<native, acked>> /\ (InPlace(Reconciled(mem), w) \/ UNCHANGED <<mem, disk>>)
      BY <1>5 DEF Refresh, RefreshStopped
    <2> QED
      BY <2>1, <2>2, WriteKeeps, SaidStill
  <1>6. ASSUME NEW w \in Outcomes, StageReceipt(w) PROVE SaidInv'
    <2>1. mem.turn.req \in Requests
      BY <1>6 DEF StageReceipt, TypeInv, TurnInv
    <2>2. proc[Current].row \in Nat
      BY <2>1 DEF TypeInv, TypeOK, Process, Current
    <2> QED
      BY <1>6, <2>1, <2>2, StageKeeps DEF StageReceipt
  <1>7. ASSUME NEW w \in Outcomes, DropSourceTurn(w) \/ ClearReceipt(w) PROVE SaidInv'
    <2> DEFINE j == [mem EXCEPT !.pub = NoPub, !.turn = NoTurn, !.pending = FALSE]
    <2>1. j.tasks = mem.tasks /\ j.pub = NoPub
      BY <1>0 DEF Journal
    <2>2. InPlace(j, w) \/ Commit(j, w)
      BY <1>7 DEF DropSourceTurn, ClearReceipt
    <2>3. UNCHANGED <<native, acked>>
      BY <1>7 DEF DropSourceTurn, ClearReceipt
    <2> HIDE DEF j
    <2> QED
      BY <1>0, <2>1, <2>2, <2>3, SameSound, WriteKeeps
  <1>8. ASSUME NEW w \in Outcomes, FinishTurn(w) \/ FinishBoot(w) PROVE SaidInv'
    <2> DEFINE j == [mem EXCEPT !.pending = FALSE]
    <2>1. j.tasks = mem.tasks /\ j.pub = mem.pub
      BY <1>0 DEF Journal
    <2>2. \/ InPlace(j, w) /\ UNCHANGED <<native, acked>>
          \/ UNCHANGED <<mem, disk, native, acked>>
      BY <1>8 DEF FinishTurn, FinishBoot
    <2> HIDE DEF j
    <2> QED
      BY <1>0, <2>1, <2>2, SameSound, WriteKeeps, SaidStill
  <1>9. ASSUME NEW w \in Outcomes, RecoverStage(w) PROVE SaidInv'
    <2>1. PICK i \in DOMAIN native :
            /\ Recoverable(i)
            /\ StageProposal(i, w) \/ UNCHANGED <<mem, disk, native, acked>>
      BY <1>9 DEF RecoverStage
    <2>2. i \in Nat
      BY LenProperties DEF TypeInv, TypeOK
    <2>3. mem.turn.req \in Requests
      BY <2>1, RecoverableKnown
    <2> QED
      BY <2>1, <2>2, <2>3, StageKeeps, SaidStill
  <1> QED
    BY <1>1, <1>2, <1>3, <1>4, <1>5, <1>6, <1>7, <1>8, <1>9 DEF JobStep

\* A direct edit is acknowledged only after its change is in both journals.
LEMMA ControlCommitKeeps ==
    ASSUME TypeInv, SaidInv, NEW w \in Outcomes, ControlCommit(w)
    PROVE  SaidInv'
  <1> DEFINE j == [mem EXCEPT !.tasks = plan]
  <1>1. PICK c \in Controls \ Applied(mem) : plan = Append(mem.tasks, c)
    BY DEF TypeInv, PlanInv, ControlCommit, At
  <1>2. mem.tasks \in Seq(Change) /\ c \in Change /\ j.tasks = plan /\ j.pub = mem.pub
    BY <1>1 DEF TypeInv, TypeOK, Journal, Change
  <1>3. Applied(j) = Applied(mem) \cup {c} /\ NoRepeats(j.tasks)
    BY <1>1, <1>2, AppendChange DEF Applied, SaidInv, Sound
  <1>4. Sound(j)
    BY <1>2, <1>3 DEF SaidInv, Sound, Backed
  <1>5. Commit(j, w) /\ UNCHANGED native
    BY DEF ControlCommit
  <1>6. plan[Len(plan)] = c
    BY <1>1, <1>2, AppendProperties
  <1> HIDE DEF j
  <1>7. CASE w = "ok"
    <2>1. mem' = j /\ disk' = j
      BY <1>5, <1>7 DEF Commit, Write
    <2>2. Said' \subseteq Said \cup {c}
      BY <1>5, <1>6 DEF ControlCommit, Said, CommittedRows
    <2>3. Sound(mem)'
      BY <1>3, <1>4, <2>1, <2>2 DEF Sound, Backed, Applied
    <2> QED
      BY <2>1, <2>3 DEF SaidInv, Sound, Backed, Applied
  <1>8. CASE w # "ok"
    <2>1. acked' = acked
      BY <1>8 DEF ControlCommit
    <2> QED
      BY <1>3, <1>4, <1>5, <2>1, WriteKeeps
  <1> QED
    BY <1>7, <1>8

LEMMA OutsideKeeps ==
    ASSUME TypeInv, SaidInv, Outside
    PROVE  SaidInv'
  <1> USE DEF At, history, service
  <1>0. mem \in Journal /\ Sound(mem)
    BY DEF TypeInv, TypeOK, SaidInv
  <1>1. ASSUME NEW r \in Requests, SendRetry(r) \/ SendConfigFails(r) PROVE SaidInv'
    <2>1. (acked \cap Controls)' = acked \cap Controls /\ UNCHANGED <<mem, disk, native>>
      BY <1>1 DEF SendRetry, SendConfigFails
    <2> QED
      BY <2>1, NothingSaid DEF Said, CommittedRows
  <1>2. ASSUME NEW r \in Requests, NEW w \in Outcomes, Send(r, w) PROVE SaidInv'
    <2> DEFINE j == [mem EXCEPT
             !.pending = TRUE, !.request = r, !.msg = [req |-> r, after |-> seen],
             !.turn = [req |-> r, base |-> Revision(mem), source |-> FALSE],
             !.accepted = Recent(Append(mem.accepted, r))]
    <2>1. j.tasks = mem.tasks /\ j.pub = mem.pub
      BY <1>0 DEF Journal
    <2>2. InPlace(j, w)
      BY <1>2 DEF Send
    <2>3. native' = native /\ (acked \cap Controls)' = acked \cap Controls
      BY <1>2 DEF Send
    <2> HIDE DEF j
    <2> QED
      BY <1>0, <2>1, <2>2, <2>3, SameSound, WriteKeeps
  <1>3. ASSUME NEW w \in Outcomes, ReadSource(w) PROVE SaidInv'
    <2> DEFINE j == [mem EXCEPT !.turn.source = TRUE]
    <2>1. j.tasks = mem.tasks /\ j.pub = mem.pub
      BY <1>0 DEF Journal
    <2>2. InPlace(j, w) /\ UNCHANGED <<native, acked>>
      BY <1>3 DEF ReadSource
    <2> HIDE DEF j
    <2> QED
      BY <1>0, <2>1, <2>2, SameSound, WriteKeeps
  <1>4. ASSUME NEW c \in Controls, ControlRetry(c) PROVE SaidInv'
    <2>1. Said' \subseteq Said \cup {c} /\ UNCHANGED <<mem, disk>>
      BY <1>4 DEF ControlRetry, Said, CommittedRows
    <2>2. c \in Applied(mem) /\ c \in Applied(disk)
      BY <1>4 DEF ControlRetry, SaidInv
    <2> QED
      BY <2>1, <2>2 DEF SaidInv, Sound, Backed, Applied
  <1>5. ASSUME NEW c \in Controls, NEW b \in 0..Revision(mem), ControlPlan(c, b)
        PROVE SaidInv'
    BY <1>5, SaidStill DEF ControlPlan
  <1>6. CASE Stop
    <2>1. mem'.tasks = mem.tasks /\ mem'.pub = NoPub
      BY <1>0, <1>6 DEF Stop, Journal
    <2>2. Sound(mem') /\ Applied(mem') = Applied(mem)
      BY <1>0, <2>1, SameSound
    <2>3. Said' = Said /\ disk' = disk
      BY <1>6 DEF Stop, Said, CommittedRows
    <2> QED
      BY <2>2, <2>3 DEF SaidInv, Sound, Backed, Applied
  <1>7. CASE StopWhileClosing \/ StopUnopened \/ Recover
    BY <1>7, SaidStill DEF StopWhileClosing, StopUnopened, Recover
  <1>8. CASE Start
    <2>1. mem' = disk /\ disk' = disk /\ Said' = Said
      BY <1>8 DEF Start, Said, CommittedRows
    <2> QED
      BY <2>1 DEF SaidInv, Sound, Backed, Applied
  <1>9. CASE Shutdown
    <2>1. mem' = mem /\ disk' \in {mem, disk} /\ Said' = Said
      BY <1>9 DEF Shutdown, Down, Said, CommittedRows
    <2> QED
      BY <2>1 DEF SaidInv, Sound, Backed, Applied
  <1>10. ASSUME NEW survive \in BOOLEAN, Crash(survive) PROVE SaidInv'
    BY <1>10, SaidStill DEF Crash, Down
  <1>11. ASSUME NEW w \in Outcomes, SaveMeta(w) PROVE SaidInv'
    BY <1>0, <1>11, WriteKeeps DEF SaveMeta
  <1>12. ASSUME NEW w \in Outcomes, OthersRefresh(w) PROVE SaidInv'
    <2>1. Sound(Reconciled(mem)) /\ Applied(Reconciled(mem)) = Applied(mem)
      BY <1>0, ReconciledJournal, SameSound
    <2>2. UNCHANGED <<native, acked>> /\ InPlace(Reconciled(mem), w)
      BY <1>12 DEF OthersRefresh
    <2> QED
      BY <2>1, <2>2, WriteKeeps
  <1> QED
    BY <1>1, <1>2, <1>3, <1>4, <1>5, <1>6, <1>7, <1>8, <1>9, <1>10, <1>11, <1>12 DEF Outside

LEMMA InvStep == IInv /\ [Next]_vars => IInv'
  <1> SUFFICES ASSUME IInv, [Next]_vars PROVE IInv'
    OBVIOUS
  <1>1. TypeInv /\ SaidInv /\ TypeInv'
    BY TypeStep DEF IInv
  <1>2. CASE NativeStep
    BY <1>1, <1>2, NativeKeeps DEF IInv
  <1>3. CASE JobStep
    BY <1>1, <1>3, JobKeeps, ControlCommitKeeps DEF IInv
  <1>4. CASE Outside
    BY <1>1, <1>4, OutsideKeeps DEF IInv
  <1>5. CASE UNCHANGED vars
    BY <1>1, <1>5, SaidStill DEF vars, IInv
  <1> QED
    BY <1>2, <1>3, <1>4, <1>5 DEF Next

LEMMA InvInit == Init => IInv
  <1> SUFFICES ASSUME Init PROVE IInv
    OBVIOUS
  <1>1. mem = FreshJournal /\ disk = FreshJournal /\ native = <<>> /\ acked = {}
    BY DEF Init
  <1>2. Said = {}
    BY <1>1 DEF Said, CommittedRows
  <1>3. NoRepeats(FreshJournal.tasks) /\ Backed(FreshJournal)
    BY DEF FreshJournal, NoRepeats, Backed, NoPub
  <1> QED
    BY <1>1, <1>2, <1>3, TypeInit DEF IInv, SaidInv, Sound

LEMMA Invariant == Spec => []IInv
  BY InvInit, InvStep, PTL DEF Spec

\* A reply that says a change was saved is backed by the journal file, through
\* every failed write, kill, orphaned process, retry and recovery.
THEOREM PublishedDurable == Spec => []PublishedIsDurable
  <1>1. IInv => PublishedIsDurable
    BY DEF IInv, SaidInv, Sound, Said, CommittedRows, PublishedIsDurable
  <1> QED
    BY <1>1, Invariant, PTL

\* No request or direct edit changes the task list twice.
THEOREM AppliedAtMostOnce == Spec => []AppliedOnce
  <1>1. IInv => AppliedOnce
    BY DEF IInv, SaidInv, Sound, AppliedOnce
  <1> QED
    BY <1>1, Invariant, PTL

\* A direct edit whose caller was told it is saved stays in the journal file.
THEOREM AckedControlDurable == Spec => []AckedControlStays
  <1>1. IInv => AckedControlStays
    BY DEF IInv, SaidInv, Sound, Said, AckedControlStays
  <1> QED
    BY <1>1, Invariant, PTL
-----------------------------------------------------------------------------
(* What the turn leaves behind: the person's message, the rows of native     *)
(* history, and the receipt of a change whose reply is not public yet.  The  *)
(* proofs need to know where a turn is when, which journals there can be,    *)
(* and that rows of history only gain.                                       *)

\* No native process outlives the service.
NoOrphans == OrphanSurvives = FALSE

-----------------------------------------------------------------------------
(* Where a turn is, and what it has in memory there.                         *)

FlowInv ==
    /\ job # "none" => up
    /\ job = "none" => pc = "idle"
    /\ pc \in EarlyPlaces \cup {"stopping"} => job = "turn"
    /\ pc \in EarlyPlaces => mem.pub = NoPub /\ mem.turn # NoTurn
    /\ pc \in {"finalize", "published", "clear"} => mem.pub # NoPub
    /\ job = "control" => mem.pub = NoPub
    /\ job = "turn" /\ pc \in {"stopping", "closing"} => error \/ mem.turn = NoTurn

\* A receipt is of the turn, and the turn is of the last request.
Fits(j) ==
    /\ j.turn # NoTurn => j.turn.req = j.request /\ j.request \in Requests
    /\ j.pub # NoPub => j.turn # NoTurn /\ j.pub.req = j.turn.req
    /\ j.pub.disp = "committed" => ~j.turn.source

\* A row of the person's has the words of the message r.
Worded(r) == \E i \in DOMAIN native :
                 native[i].role = "user" /\ text[native[i].by] = text[r]

\* The message of the last request is shown as a receipt, or its words as a row.
Shows(j) == j.request # NoReq => j.msg.req = j.request \/ Worded(j.request)

JournalInv == Fits(mem) /\ Fits(disk) /\ Shows(mem) /\ Shows(disk)

\* A proposal that is to be decided is a row the model wrote.
KindInv ==
    /\ \A i \in AssistantRows : native[i].kind \in Kinds
    /\ \A r \in Requests : proc[r].phase = "tagged" => proc[r].row \in AssistantRows
    /\ pc \in {"receipt", "stageReceipt"} =>
         proc[Current].phase \in {"tagged", "gone"} /\ proc[Current].row \in AssistantRows

-----------------------------------------------------------------------------
(* Rows of native history, while one process writes at a time.               *)

Writing == {"running", "heard", "answered"}

\* No two native processes are writing at once: one that outlived a killed service
\* is done before the next turn starts its own.
OneWriter ==
    \A r, q \in Requests :
        proc[r].phase \in Writing /\ proc[q].phase \in Writing => r = q

\* The proposal of r that is not tagged yet is the latest answer.
Latest(r) ==
    \E i \in AssistantRows :
        /\ \A k \in AssistantRows : k <= i
        /\ native[i].by = r /\ native[i].tag = NoReq

RowInv ==
    /\ \A i \in AssistantRows :
         IF native[i].tag = NoReq THEN native[i].disp = "none"
                                  ELSE native[i].by = native[i].tag
    /\ \A r \in Requests :
         /\ proc[r].phase = "answered" => Latest(r)
         /\ proc[r].phase = "tagged" => proc[r].row \in ProposalRows(r)
    /\ pc \in {"receipt", "stageReceipt"} => proc[Current].row \in ProposalRows(Current)
    /\ \A j \in {mem, disk} : j.pub # NoPub => j.pub.row \in ProposalRows(j.pub.req)

\* A change that nobody stopped is public, or is in its receipt.
Pending(j) ==
    \A r \in (Requests \cap Applied(j)) \ stopped :
        Answered(r) \/ (j.pub.req = r /\ j.pub.disp = "committed")

\* Every change is the one its model proposed for the list it was shown.
Proposed(j) ==
    \A n \in DOMAIN j.tasks :
        j.tasks[n] \in Requests =>
            \E i \in ProposalRows(j.tasks[n]) :
                /\ native[i].by = j.tasks[n]
                /\ native[i].kind = "update" /\ native[i].base = n - 1

PublicInv ==
    /\ \A j \in {mem, disk} : Pending(j) /\ Proposed(j)
    /\ pc \in {"published", "clear"} /\ mem.pub.disp = "committed" => Answered(mem.pub.req)

-----------------------------------------------------------------------------
(* The journals a step can make.                                             *)

\* The same journal: a mark on the turn, a receipt of the message that has a row.
Same(j) ==
    /\ j.tasks = mem.tasks /\ j.pub = mem.pub /\ j.request = mem.request
    /\ j.accepted = mem.accepted
    /\ j.turn = mem.turn \/ (pc = "infer" /\ j.turn = [mem.turn EXCEPT !.source = TRUE])
    /\ j.msg = mem.msg \/ (j.msg = NoMsg /\ Worded(mem.msg.req))

\* A message was accepted.
Begun(j) ==
    /\ job = "none" /\ mem.pub = NoPub
    /\ j.tasks = mem.tasks /\ j.pub = mem.pub
    /\ \E r \in Requests \ Accepted(mem) :
         /\ \E w \in Outcomes : Send(r, w)
         /\ j.request = r /\ j.msg.req = r
         /\ j.turn = [req |-> r, base |-> Revision(mem), source |-> FALSE]
         /\ j.accepted = Recent(Append(mem.accepted, r))

\* A proposal was decided.
Decided(j) ==
    /\ mem.pub = NoPub /\ mem.turn # NoTurn /\ Current \in Requests
    /\ \/ pc = "stageReceipt" /\ j = Staged(mem, proc[Current].row)
       \/ /\ pc = "stageStored" /\ UserRows(Current) # {}
          /\ \E i : ProposalRows(Current) = {i} /\ j = Staged(mem, i)

\* The turn and its receipt were dropped.
Cleared(j) ==
    /\ j = [mem EXCEPT !.pub = NoPub, !.turn = NoTurn, !.pending = FALSE]
    /\ \/ mem.turn.source /\ pc = "stageStored"
       \/ pc = "clear"
       \/ mem.request \in stopped'

\* A direct edit was planned.
Edited(j) == job = "control" /\ j = [mem EXCEPT !.tasks = plan]

Derived(j) == Same(j) \/ Begun(j) \/ Decided(j) \/ Cleared(j) \/ Edited(j)

\* Memory and file after a write of j. A write in place that is lost leaves the file
\* behind; a commit whose sync fails leaves memory behind.
InPlaceOf(j) == Same(j) \/ Begun(j) \/ Cleared(j)
CommitOf(j) == job # "none" /\ (Decided(j) \/ Edited(j) \/ (Cleared(j) /\ pc = "clear"))
Wrote(j) == \/ mem' = j /\ disk' = j
            \/ mem' = j /\ disk' = disk /\ InPlaceOf(j)
            \/ mem' = mem /\ disk' = j /\ CommitOf(j)

JournalStep ==
    \/ UNCHANGED <<mem, disk>>
    \/ UNCHANGED native /\ \E j \in Journal : Derived(j) /\ Wrote(j)
    \/ UNCHANGED <<native, disk>> /\ mem' = disk

LEMMA CommitWrote ==
    ASSUME NEW j, NEW w, Commit(j, w), CommitOf(j)
    PROVE  UNCHANGED <<mem, disk>> \/ Wrote(j)
  BY DEF Commit, Write, Wrote

LEMMA InPlaceWrote ==
    ASSUME NEW j, NEW w, InPlace(j, w), InPlaceOf(j)
    PROVE  Wrote(j)
  BY DEF InPlace, Write, Wrote

\* Native processes, and the steps of a job that write nothing.
LEMMA QuietSteps ==
    ASSUME \/ NativeStep
           \/ OpenSources \/ Launch \/ WaitFails \/ LaunchFails
           \/ InferenceEnds \/ InferenceFails
           \/ \E x \in Failures : InferenceAborts(x) \/ RefreshFails(x) \/ FinalizeFails(x)
           \/ SourceCheckFails \/ RecoverNothing \/ FinalizeSucceeds \/ FinishRecover
           \/ \E r \in Requests : SendRetry(r) \/ SendConfigFails(r)
           \/ \E c \in Controls : ControlRetry(c) \/ \E b \in 0..Revision(mem) : ControlPlan(c, b)
           \/ StopUnopened \/ StopWhileClosing \/ Recover \/ \E survive \in BOOLEAN : Crash(survive)
           \/ UNCHANGED vars
    PROVE  UNCHANGED <<mem, disk>>
  BY DEF NativeStep, StoreUser, StoreProposal, TagProposal, ProcessDies, NativeOnly,
         OpenSources, Launch, WaitFails, LaunchFails, InferenceEnds, InferenceFails, InferenceAborts, RefreshFails,
         FinalizeFails, SourceCheckFails, RecoverNothing, FinalizeSucceeds, FinishRecover,
         SendRetry, SendConfigFails, ControlRetry, ControlPlan, StopUnopened,
         StopWhileClosing, Recover, Crash, Down, service, vars

LEMMA StageWrites ==
    ASSUME TypeInv, FlowInv, NEW w \in Outcomes,
           StageReceipt(w) \/ RecoverStage(w)
    PROVE  JournalStep
  <1> USE DEF JournalStep
  <1>1. CASE StageReceipt(w)
    <2>1. /\ At("turn", "stageReceipt") /\ mem.turn.req \in Requests
          /\ mem.pub = NoPub /\ mem.turn # NoTurn
      BY <1>1 DEF StageReceipt, At, FlowInv, EarlyPlaces, TypeInv, TurnInv
    <2> DEFINE j == Staged(mem, proc[Current].row)
    <2>2. proc[Current].row \in Nat
      BY <2>1 DEF TypeInv, TypeOK, Process, Current
    <2>3. j \in Journal /\ Decided(j)
      BY <2>1, <2>2, StagedJournal DEF Decided, At, TypeInv, TypeOK, Current
    <2>4. Commit(j, w) /\ UNCHANGED native /\ job # "none"
      BY <1>1 DEF StageReceipt, StageProposal, At
    <2> HIDE DEF j
    <2> QED
      BY <2>3, <2>4, CommitWrote DEF Derived, CommitOf
  <1>2. CASE RecoverStage(w)
    <2>1. mem.pub = NoPub /\ mem.turn # NoTurn /\ pc = "stageStored" /\ job # "none"
      BY <1>2 DEF RecoverStage, FlowInv
    <2>2. PICK i \in DOMAIN native :
            /\ Recoverable(i)
            /\ StageProposal(i, w) \/ UNCHANGED <<mem, disk>>
      BY <1>2 DEF RecoverStage
    <2>3. mem.turn.req \in Requests /\ i \in Nat
      BY <2>2, RecoverableKnown, LenProperties DEF TypeInv, TypeOK
    <2>4. UserRows(Current) # {}
      BY <2>2, FS_EmptySet DEF Recoverable
    <2> DEFINE j == Staged(mem, i)
    <2>5. j \in Journal /\ Decided(j)
      BY <2>1, <2>2, <2>3, <2>4, StagedJournal DEF Decided, Recoverable, TypeInv, TypeOK, Current
    <2>6. UNCHANGED <<mem, disk>> \/ (Commit(j, w) /\ UNCHANGED native)
      BY <2>2 DEF StageProposal
    <2> HIDE DEF j
    <2> QED
      BY <2>1, <2>5, <2>6, CommitWrote DEF Derived, CommitOf
  <1> QED
    BY <1>1, <1>2

LEMMA SameWrites ==
    ASSUME TypeInv, NEW w \in Outcomes,
           \/ Refresh(w) \/ RefreshStopped(w) \/ FinishTurn(w) \/ FinishBoot(w)
           \/ ReadSource(w) \/ SaveMeta(w) \/ OthersRefresh(w)
    PROVE  JournalStep
  <1> USE DEF JournalStep
  <1>0. mem \in Journal
    BY DEF TypeInv, TypeOK
  <1>1. CASE Refresh(w) \/ RefreshStopped(w) \/ OthersRefresh(w)
    <2>1. Confirmed(mem.msg) => Worded(mem.msg.req)
      BY DEF Confirmed, Worded
    <2>2. Reconciled(mem) \in Journal /\ Same(Reconciled(mem))
      BY <1>0, <2>1, ReconciledJournal DEF Same, Reconciled, Journal
    <2> QED
      BY <1>1, <2>2, InPlaceWrote
      DEF Refresh, RefreshStopped, OthersRefresh, Derived, InPlaceOf
  <1>2. CASE FinishTurn(w) \/ FinishBoot(w)
    <2> DEFINE j == [mem EXCEPT !.pending = FALSE]
    <2>1. j \in Journal /\ Same(j)
      BY <1>0, JournalUpdates DEF Same, Journal
    <2>2. UNCHANGED native /\ (InPlace(j, w) \/ UNCHANGED <<mem, disk>>)
      BY <1>2 DEF FinishTurn, FinishBoot
    <2> HIDE DEF j
    <2> QED
      BY <2>1, <2>2, InPlaceWrote DEF Derived, InPlaceOf
  <1>3. CASE ReadSource(w)
    <2> DEFINE j == [mem EXCEPT !.turn.source = TRUE]
    <2>1. j \in Journal /\ Same(j)
      BY <1>0, <1>3, JournalUpdates DEF Same, Journal, ReadSource, At
    <2>2. UNCHANGED native /\ InPlace(j, w)
      BY <1>3 DEF ReadSource
    <2> HIDE DEF j
    <2> QED
      BY <2>1, <2>2, InPlaceWrote DEF Derived, InPlaceOf
  <1>4. CASE SaveMeta(w)
    <2>1. Same(mem) /\ InPlace(mem, w) /\ UNCHANGED native
      BY <1>4 DEF Same, SaveMeta
    <2> QED
      BY <1>0, <2>1, InPlaceWrote DEF Derived, InPlaceOf
  <1> QED
    BY <1>1, <1>2, <1>3, <1>4

LEMMA OtherWrites ==
    ASSUME TypeInv, FlowInv,
           \/ \E w \in Outcomes : DropSourceTurn(w) \/ ClearReceipt(w) \/ ControlCommit(w)
           \/ Stop \/ Start \/ Shutdown
           \/ \E r \in Requests, w \in Outcomes : Send(r, w)
    PROVE  JournalStep
  <1> USE DEF JournalStep
  <1>0. mem \in Journal
    BY DEF TypeInv, TypeOK
  <1>1. ASSUME NEW w \in Outcomes, DropSourceTurn(w) \/ ClearReceipt(w) PROVE JournalStep
    <2> DEFINE j == [mem EXCEPT !.pub = NoPub, !.turn = NoTurn, !.pending = FALSE]
    <2>1. j \in Journal /\ Cleared(j)
      BY <1>0, <1>1, JournalUpdates DEF Cleared, DropSourceTurn, ClearReceipt
    <2>2. UNCHANGED native /\ (InPlace(j, w) \/ (Commit(j, w) /\ job # "none" /\ pc = "clear"))
      BY <1>1 DEF DropSourceTurn, ClearReceipt, FlowInv
    <2> HIDE DEF j
    <2> QED
      BY <2>1, <2>2, InPlaceWrote, CommitWrote DEF Derived, InPlaceOf, CommitOf
  <1>2. ASSUME NEW w \in Outcomes, ControlCommit(w) PROVE JournalStep
    <2> DEFINE j == [mem EXCEPT !.tasks = plan]
    <2>1. j \in Journal /\ Edited(j)
      BY <1>0, <1>2, JournalUpdates DEF Edited, ControlCommit, At, TypeInv, TypeOK
    <2>2. UNCHANGED native /\ Commit(j, w) /\ job # "none"
      BY <1>2 DEF ControlCommit, At
    <2> HIDE DEF j
    <2> QED
      BY <2>1, <2>2, CommitWrote DEF Derived, CommitOf
  <1>3. CASE Stop
    <2> DEFINE j == [mem EXCEPT !.pub = NoPub, !.turn = NoTurn, !.pending = FALSE]
    <2>1. mem' = j /\ disk' = disk /\ native' = native /\ mem.request \in stopped'
      BY <1>0, <1>3 DEF Stop, Journal
    <2>2. j \in Journal /\ Cleared(j)
      BY <1>0, <2>1, JournalUpdates DEF Cleared
    <2> HIDE DEF j
    <2> QED
      BY <2>1, <2>2 DEF Derived, Wrote, InPlaceOf
  <1>4. CASE Start
    BY <1>4 DEF Start
  <1>5. CASE Shutdown
    <2>1. Same(mem)
      BY DEF Same
    <2>2. mem' = mem /\ native' = native /\ disk' \in {mem, disk}
      BY <1>5 DEF Shutdown, Down
    <2> QED
      BY <1>0, <2>1, <2>2 DEF Derived, Wrote, InPlaceOf
  <1>6. ASSUME NEW r \in Requests, NEW w \in Outcomes, Send(r, w) PROVE JournalStep
    <2> DEFINE j == [mem EXCEPT
             !.pending = TRUE, !.request = r, !.msg = [req |-> r, after |-> seen],
             !.turn = [req |-> r, base |-> Revision(mem), source |-> FALSE],
             !.accepted = Recent(Append(mem.accepted, r))]
    <2>1. j \in Journal
      BY <1>0, SentJournal DEF TypeInv, TypeOK
    <2>2. Begun(j)
      BY <1>0, <1>6 DEF Begun, Send, Idle, Journal
    <2>3. InPlace(j, w) /\ UNCHANGED native
      BY <1>6 DEF Send
    <2> HIDE DEF j
    <2> QED
      BY <2>1, <2>2, <2>3, InPlaceWrote DEF Derived, InPlaceOf
  <1> QED
    BY <1>1, <1>2, <1>3, <1>4, <1>5, <1>6

\* Every step leaves the journals alone, writes one of these, or reads the file.
LEMMA JournalSteps ==
    ASSUME TypeInv, FlowInv, [Next]_vars
    PROVE  JournalStep
  <1>1. CASE \E w \in Outcomes : StageReceipt(w) \/ RecoverStage(w)
    BY <1>1, StageWrites
  <1>2. CASE \E w \in Outcomes : \/ Refresh(w) \/ RefreshStopped(w) \/ FinishTurn(w)
                                 \/ FinishBoot(w) \/ ReadSource(w) \/ SaveMeta(w)
                                 \/ OthersRefresh(w)
    BY <1>2, SameWrites
  <1>3. CASE \/ \E w \in Outcomes : DropSourceTurn(w) \/ ClearReceipt(w) \/ ControlCommit(w)
             \/ Stop \/ Start \/ Shutdown
             \/ \E r \in Requests, w \in Outcomes : Send(r, w)
    BY <1>3, OtherWrites
  <1>4. CASE ~(\E w \in Outcomes : StageReceipt(w) \/ RecoverStage(w))
             /\ ~(\E w \in Outcomes : \/ Refresh(w) \/ RefreshStopped(w) \/ FinishTurn(w)
                                      \/ FinishBoot(w) \/ ReadSource(w) \/ SaveMeta(w)
                                      \/ OthersRefresh(w))
             /\ ~(\/ \E w \in Outcomes : DropSourceTurn(w) \/ ClearReceipt(w) \/ ControlCommit(w)
                  \/ Stop \/ Start \/ Shutdown
                  \/ \E r \in Requests, w \in Outcomes : Send(r, w))
    <2>1. UNCHANGED <<mem, disk>>
      BY <1>4, QuietSteps DEF Next, JobStep, Outside
    <2> QED
      BY <2>1 DEF JournalStep
  <1> QED
    BY <1>1, <1>2, <1>3, <1>4
-----------------------------------------------------------------------------
(* Where a turn is.                                                          *)

\* An exception leaves the flow as it should be.
LEMMA RaiseFlow ==
    ASSUME TypeInv, FlowInv, up, NEW x, Raise(x), pc \in Places \ {"idle", "commit"}
    PROVE  /\ job' # "none" => up'
           /\ job' = "none" => pc' = "idle"
           /\ pc' \in {"idle", "closing"} /\ job' # "control"
           /\ job' = "turn" => error'
  BY DEF TypeInv, TypeOK, PlanInv, FlowInv, Raise, Places

LEMMA NativeFlow ==
    ASSUME FlowInv,
           NativeStep \/ \E w \in Outcomes : SaveMeta(w)
    PROVE  FlowInv'
  BY DEF NativeStep, StoreUser, StoreProposal, TagProposal, ProcessDies, NativeOnly, service,
         SaveMeta, InPlace, FlowInv, EarlyPlaces

LEMMA InferenceFlow ==
    ASSUME TypeInv, FlowInv,
           \/ OpenSources \/ Launch \/ WaitFails \/ LaunchFails
           \/ InferenceEnds \/ InferenceFails
           \/ \E x \in Failures : InferenceAborts(x) \/ RefreshFails(x) \/ FinalizeFails(x)
           \/ SourceCheckFails \/ FinalizeSucceeds
    PROVE  FlowInv'
  <1> USE DEF FlowInv, EarlyPlaces, At, Places, history
  <1>1. CASE OpenSources \/ Launch \/ InferenceEnds \/ InferenceFails \/ FinalizeSucceeds
    BY <1>1 DEF OpenSources, Launch, InferenceEnds, InferenceFails, FinalizeSucceeds, Await
  <1>2. CASE WaitFails
    BY <1>2 DEF WaitFails
  <1>3. ASSUME NEW x, Raise(x), up, UNCHANGED mem, pc \in Places \ {"idle", "commit"}
        PROVE FlowInv'
    BY <1>3, RaiseFlow
  <1>4. CASE LaunchFails \/ SourceCheckFails
    BY <1>3, <1>4 DEF LaunchFails, SourceCheckFails
  <1>5. ASSUME NEW x \in Failures, InferenceAborts(x) \/ RefreshFails(x) \/ FinalizeFails(x)
        PROVE FlowInv'
    BY <1>3, <1>5 DEF InferenceAborts, RefreshFails, FinalizeFails
  <1> QED
    BY <1>1, <1>2, <1>4, <1>5

LEMMA RefreshFlow ==
    ASSUME TypeInv, FlowInv, NEW w \in Outcomes,
           Refresh(w) \/ RefreshStopped(w) \/ OthersRefresh(w)
    PROVE  FlowInv'
  <1> USE DEF FlowInv, EarlyPlaces, At
  <1>1. Reconciled(mem).pub = mem.pub /\ Reconciled(mem).turn = mem.turn
    BY ReconciledJournal DEF TypeInv, TypeOK
  <1>2. CASE Refresh(w) /\ w = "ok"
    BY <1>1, <1>2 DEF Refresh, InPlace, Await, NextOf, TypeInv, PlanInv
  <1>3. CASE Refresh(w) /\ w # "ok"
    BY <1>1, <1>3, RaiseFlow DEF Refresh, InPlace, Places
  <1>4. CASE RefreshStopped(w)
    BY <1>1, <1>4 DEF RefreshStopped, InPlace, Await
  <1>5. CASE OthersRefresh(w)
    BY <1>1, <1>5 DEF OthersRefresh, InPlace
  <1> QED
    BY <1>2, <1>3, <1>4, <1>5

LEMMA StageFlow ==
    ASSUME TypeInv, FlowInv, mem.turn.req \in Requests, up,
           pc \in {"stageReceipt", "stageStored"}, NEW i \in Nat, NEW w,
           StageProposal(i, w)
    PROVE  FlowInv'
  <1>1. /\ Staged(mem, i).turn = mem.turn
        /\ Staged(mem, i).pub # NoPub
    <2>1. Staged(mem, i).turn = mem.turn
      BY StagedJournal DEF TypeInv, TypeOK
    <2>2. Staged(mem, i).pub.req = mem.turn.req
      BY DEF TypeInv, TypeOK, Staged, Journal
    <2>3. mem.turn.req # NoPub.req
      BY DEF NoPub
    <2> QED
      BY <2>1, <2>2, <2>3
  <1>2. CASE w = "ok"
    BY <1>1, <1>2 DEF StageProposal, Commit, Await, FlowInv, EarlyPlaces, TypeInv, PlanInv
  <1>3. CASE w # "ok"
    BY <1>3, RaiseFlow DEF StageProposal, Commit, FlowInv, EarlyPlaces, Places
  <1> QED
    BY <1>2, <1>3

LEMMA RecoveryFlow ==
    ASSUME TypeInv, FlowInv,
           \/ \E w \in Outcomes : StageReceipt(w) \/ DropSourceTurn(w) \/ RecoverStage(w)
           \/ RecoverNothing
    PROVE  FlowInv'
  <1> USE DEF FlowInv, EarlyPlaces, At
  <1>0. mem \in Journal
    BY DEF TypeInv, TypeOK
  <1>1. ASSUME NEW w \in Outcomes, StageReceipt(w) PROVE FlowInv'
    <2>1. mem.turn.req \in Requests
      BY <1>1 DEF StageReceipt, TypeInv, TurnInv
    <2>2. proc[Current].row \in Nat
      BY <2>1 DEF TypeInv, TypeOK, Process, Current
    <2> QED
      BY <1>1, <2>1, <2>2, StageFlow DEF StageReceipt
  <1>2. ASSUME NEW w \in Outcomes, DropSourceTurn(w) PROVE FlowInv'
    <2>1. mem'.turn = NoTurn
      BY <1>0, <1>2 DEF DropSourceTurn, InPlace, Journal
    <2>2. CASE w = "ok"
      BY <1>2, <2>1, <2>2 DEF DropSourceTurn, TypeInv, PlanInv
    <2>3. CASE w # "ok"
      BY <1>2, <2>1, <2>3, RaiseFlow DEF DropSourceTurn, Places
    <2> QED
      BY <2>2, <2>3
  <1>3. ASSUME NEW w \in Outcomes, RecoverStage(w) PROVE FlowInv'
    <2>1. PICK i \in DOMAIN native :
            /\ Recoverable(i)
            /\ StageProposal(i, w) \/ (UNCHANGED mem /\ Raise("chat"))
      BY <1>3 DEF RecoverStage
    <2>2. mem.turn.req \in Requests /\ i \in Nat
      BY <2>1, RecoverableKnown, LenProperties DEF TypeInv, TypeOK
    <2>3. up /\ pc = "stageStored"
      BY <1>3 DEF RecoverStage
    <2>4. CASE StageProposal(i, w)
      BY <2>2, <2>3, <2>4, StageFlow
    <2>5. CASE UNCHANGED mem /\ Raise("chat")
      BY <2>3, <2>5, RaiseFlow DEF Places
    <2> QED
      BY <2>1, <2>4, <2>5
  <1>4. CASE RecoverNothing
    BY <1>4 DEF RecoverNothing
  <1> QED
    BY <1>1, <1>2, <1>3, <1>4

LEMMA FinishFlow ==
    ASSUME TypeInv, FlowInv,
           \/ \E w \in Outcomes : ClearReceipt(w) \/ FinishTurn(w) \/ FinishBoot(w)
                                  \/ ControlCommit(w)
           \/ FinishRecover
    PROVE  FlowInv'
  <1> USE DEF FlowInv, EarlyPlaces, At
  <1>0. mem \in Journal
    BY DEF TypeInv, TypeOK
  <1>1. ASSUME NEW w \in Outcomes, ClearReceipt(w) PROVE FlowInv'
    <2>1. CASE w = "ok"
      <3>1. mem'.turn = NoTurn
        BY <1>0, <1>1, <2>1 DEF ClearReceipt, Commit, Journal
      <3> QED
        BY <1>1, <2>1, <3>1 DEF ClearReceipt, Await, TypeInv, PlanInv
    <2>2. CASE w # "ok"
      BY <1>1, <2>2, RaiseFlow DEF ClearReceipt, Commit, Places
    <2> QED
      BY <2>1, <2>2
  <1>2. ASSUME NEW w \in Outcomes, FinishTurn(w) \/ FinishBoot(w) \/ ControlCommit(w)
        PROVE FlowInv'
    BY <1>2 DEF FinishTurn, FinishBoot, ControlCommit
  <1>3. CASE FinishRecover
    BY <1>3 DEF FinishRecover
  <1> QED
    BY <1>1, <1>2, <1>3

LEMMA OutsideFlow ==
    ASSUME TypeInv, FlowInv, Outside
    PROVE  FlowInv'
  <1> USE DEF FlowInv, EarlyPlaces, At
  <1>0. mem \in Journal
    BY DEF TypeInv, TypeOK
  <1>1. ASSUME NEW r \in Requests, SendRetry(r) \/ SendConfigFails(r) PROVE FlowInv'
    BY <1>1 DEF SendRetry, SendConfigFails, Idle, service
  <1>2. ASSUME NEW r \in Requests, NEW w \in Outcomes, Send(r, w) PROVE FlowInv'
    <2>1. mem'.pub = NoPub /\ mem'.turn.req = r
      BY <1>0, <1>2 DEF Send, InPlace, Journal
    <2>2. mem'.turn # NoTurn
      BY <2>1 DEF NoTurn
    <2> QED
      BY <1>2, <2>1, <2>2 DEF Send, Idle
  <1>3. ASSUME NEW w \in Outcomes, ReadSource(w) PROVE FlowInv'
    <2>1. mem'.pub = mem.pub /\ mem'.turn # NoTurn
      BY <1>0, <1>3 DEF ReadSource, InPlace, Journal, Turn, NoTurn
    <2> QED
      BY <1>3, <2>1 DEF ReadSource
  <1>4. ASSUME NEW w \in Outcomes, SaveMeta(w) PROVE FlowInv'
    BY <1>4, NativeFlow
  <1>5. ASSUME NEW c \in Controls,
               ControlRetry(c) \/ \E b \in 0..Revision(mem) : ControlPlan(c, b)
        PROVE FlowInv'
    BY <1>5 DEF ControlRetry, ControlPlan, Idle, service
  <1>6. CASE Stop \/ StopUnopened \/ StopWhileClosing \/ Recover
    BY <1>6 DEF Stop, StopUnopened, StopWhileClosing, Recover, Idle
  <1>7. CASE Start
    BY <1>7 DEF Start
  <1>8. CASE Shutdown \/ \E survive \in BOOLEAN : Crash(survive)
    BY <1>8 DEF Shutdown, Crash, Down
  <1>9. ASSUME NEW w \in Outcomes, OthersRefresh(w) PROVE FlowInv'
    BY <1>9, RefreshFlow
  <1> QED
    BY <1>1, <1>2, <1>3, <1>4, <1>5, <1>6, <1>7, <1>8, <1>9 DEF Outside

LEMMA FlowStep == TypeInv /\ FlowInv /\ [Next]_vars => FlowInv'
  <1> SUFFICES ASSUME TypeInv, FlowInv, [Next]_vars PROVE FlowInv'
    OBVIOUS
  <1>1. CASE NativeStep
    BY <1>1, NativeFlow
  <1>2. CASE JobStep
    BY <1>2, InferenceFlow, RefreshFlow, RecoveryFlow, FinishFlow DEF JobStep
  <1>3. CASE Outside
    BY <1>3, OutsideFlow
  <1>4. CASE UNCHANGED vars
    BY <1>4 DEF vars, FlowInv
  <1> QED
    BY <1>1, <1>2, <1>3, <1>4 DEF Next
-----------------------------------------------------------------------------
(* What a step does to native history and the processes that write it.       *)

Died ==
    \A r \in Requests :
        \/ proc'[r] = proc[r]
        \/ proc[r].phase \in Alive /\ proc'[r] = [proc[r] EXCEPT !.phase = "gone"]

Publishes ==
    /\ pc = "finalize" /\ Publishable(mem.pub) /\ PublishRow
    /\ UNCHANGED <<proc, mem, disk, acked, stopped>>

RowStep ==
    \/ UNCHANGED <<native, proc>>
    \/ Launch
    \/ UNCHANGED native /\ Died
    \/ \E r \in Requests :
         StoreUser(r) \/ TagProposal(r) \/ \E k \in Kinds : StoreProposal(r, k)
    \/ Publishes

LEMMA AppendRows ==
    ASSUME NEW S, NEW s \in Seq(S), NEW row
    PROVE  /\ Len(s) \in Nat /\ DOMAIN s = 1..Len(s)
           /\ DOMAIN Append(s, row) = 1..(Len(s) + 1)
           /\ \A i \in 1..Len(s) : Append(s, row)[i] = s[i]
           /\ Append(s, row)[Len(s) + 1] = row
  <1>1. s \in Seq(S \cup {row}) /\ row \in S \cup {row}
    BY ElementOfSeq, SeqDef
  <1> QED
    BY <1>1, AppendProperties, LenProperties

LEMMA Killed ==
    ASSUME TypeOK, NEW q,
           proc' = [proc EXCEPT ![q].phase = IF @ \in Alive THEN "gone" ELSE @]
    PROVE  Died
  <1> SUFFICES ASSUME NEW r \in Requests
               PROVE  \/ proc'[r] = proc[r]
                      \/ proc[r].phase \in Alive /\ proc'[r] = [proc[r] EXCEPT !.phase = "gone"]
    BY DEF Died
  <1>1. proc[r] \in Process
    BY DEF TypeOK
  <1>2. [proc[r] EXCEPT !.phase = proc[r].phase] = proc[r]
    BY <1>1 DEF Process
  <1>3. CASE r = q
    BY <1>2, <1>3 DEF TypeOK
  <1>4. CASE r # q
    BY <1>4 DEF TypeOK
  <1> QED
    BY <1>3, <1>4

LEMMA RowSteps ==
    ASSUME TypeOK, [Next]_vars
    PROVE  RowStep
  <1> USE DEF RowStep, At
  <1>1. CASE NativeStep
    <2>1. ASSUME NEW r \in Requests, ProcessDies(r) PROVE RowStep
      BY <2>1 DEF ProcessDies, Died, TypeOK
    <2> QED
      BY <1>1, <2>1 DEF NativeStep
  <1>2. CASE JobStep
    <2>1. ASSUME NEW x \in Failures, InferenceAborts(x) PROVE RowStep
      BY <2>1, Killed DEF InferenceAborts, Kill
    <2>2. ASSUME NEW x \in Failures, FinalizeFails(x) PROVE RowStep
      BY <2>2 DEF FinalizeFails, Publishes, history
    <2>3. CASE FinalizeSucceeds
      BY <2>3 DEF FinalizeSucceeds, Publishes, history
    <2>4. ASSUME NEW w \in Outcomes, RecoverStage(w) PROVE RowStep
      BY <2>4 DEF RecoverStage, StageProposal
    <2>5. CASE \/ OpenSources \/ WaitFails \/ LaunchFails \/ InferenceEnds \/ InferenceFails
               \/ \E x \in Failures : RefreshFails(x)
               \/ \E w \in Outcomes : \/ Refresh(w) \/ StageReceipt(w) \/ DropSourceTurn(w)
                                      \/ ClearReceipt(w) \/ FinishTurn(w)
                                      \/ FinishBoot(w) \/ RefreshStopped(w) \/ ControlCommit(w)
               \/ SourceCheckFails \/ RecoverNothing \/ FinishRecover
      BY <2>5 DEF OpenSources, WaitFails, LaunchFails, InferenceEnds, InferenceFails,
                  RefreshFails, Refresh,
                  StageReceipt, StageProposal, DropSourceTurn, ClearReceipt, FinishTurn,
                  FinishBoot, RefreshStopped, ControlCommit, SourceCheckFails, RecoverNothing,
                  FinishRecover
    <2> QED
      BY <1>2, <2>1, <2>2, <2>3, <2>4, <2>5 DEF JobStep
  <1>3. CASE Outside
    <2>1. CASE Stop
      BY <2>1, Killed DEF Stop, Kill
    <2>2. CASE Shutdown
      BY <2>2, Killed DEF Shutdown, Down
    <2>3. ASSUME NEW survive \in BOOLEAN, Crash(survive) PROVE RowStep
      <3>1. \A r \in Requests : [proc[r] EXCEPT !.phase = proc[r].phase] = proc[r]
        BY DEF TypeOK, Process
      <3> QED
        BY <2>3, <3>1 DEF Crash, Down, Died
    <2>4. CASE \/ \E r \in Requests : SendRetry(r) \/ SendConfigFails(r)
               \/ \E r \in Requests, w \in Outcomes : Send(r, w)
               \/ \E w \in Outcomes : ReadSource(w) \/ SaveMeta(w) \/ OthersRefresh(w)
               \/ \E c \in Controls : ControlRetry(c) \/ \E b \in 0..Revision(mem) : ControlPlan(c, b)
               \/ StopUnopened \/ StopWhileClosing \/ Recover \/ Start
      BY <2>4 DEF SendRetry, SendConfigFails, Send, ReadSource, SaveMeta, OthersRefresh,
                  ControlRetry, ControlPlan, StopUnopened, StopWhileClosing, Recover, Start
    <2> QED
      BY <1>3, <2>1, <2>2, <2>3, <2>4 DEF Outside
  <1>4. CASE UNCHANGED vars
    BY <1>4 DEF vars
  <1> QED
    BY <1>1, <1>2, <1>3, <1>4 DEF Next

\* What becomes of a process.
LEMMA ProcSteps ==
    ASSUME TypeOK, RowStep, NEW r \in Requests
    PROVE  \/ proc'[r] = proc[r]
           \/ proc[r].phase \in Alive /\ proc'[r].phase = "gone" /\ proc'[r].row = proc[r].row
           \/ Launch /\ r = Current /\ proc'[r].phase = "running"
           \/ /\ proc[r].phase \in {"running", "heard"}
              /\ proc'[r].phase \in {"heard", "answered"} /\ UNCHANGED pc
           \/ /\ TagProposal(r) /\ proc[r].phase = "answered" /\ proc'[r].phase = "tagged"
              /\ UNCHANGED pc /\ proc'[r].row \in AssistantRows
  <1>0. proc \in [Requests -> Process]
    BY DEF TypeOK
  <1>1. CASE Launch
    BY <1>0, <1>1 DEF Launch
  <1>2. CASE Died
    BY <1>0, <1>2 DEF Died, Process
  <1>3. ASSUME NEW q \in Requests, StoreUser(q) \/ \E k \in Kinds : StoreProposal(q, k)
        PROVE  \/ proc'[r] = proc[r]
               \/ /\ proc[r].phase \in {"running", "heard"}
                  /\ proc'[r].phase \in {"heard", "answered"} /\ UNCHANGED pc
    BY <1>0, <1>3 DEF StoreUser, StoreProposal, Advance, Process, NativeOnly, service
  <1>4. ASSUME NEW q \in Requests, TagProposal(q)
        PROVE  \/ proc'[r] = proc[r]
               \/ /\ TagProposal(r) /\ proc[r].phase = "answered" /\ proc'[r].phase = "tagged"
                  /\ UNCHANGED pc /\ proc'[r].row \in AssistantRows
    <2>1. CASE q # r
      BY <1>0, <1>4, <2>1 DEF TagProposal
    <2>2. TagProposal(q) => /\ proc[q].phase = "answered" /\ proc'[q].phase = "tagged"
                            /\ UNCHANGED pc /\ proc'[q].row \in AssistantRows
      BY <1>0 DEF TagProposal, Process, NativeOnly, service
    <2> QED
      BY <1>4, <2>1, <2>2
  <1> QED
    BY <1>1, <1>2, <1>3, <1>4 DEF RowStep, Publishes

\* Rows are only added, and who said what in a row never changes.
LEMMA RowsPersist ==
    ASSUME TypeOK, RowStep
    PROVE  /\ DOMAIN native \subseteq DOMAIN native'
           /\ \A i \in DOMAIN native :
                /\ native'[i].role = native[i].role
                /\ native'[i].by = native[i].by /\ native'[i].kind = native[i].kind
  <1>0. \A i \in DOMAIN native : native[i] \in Row
    BY ElementOfSeq, LenProperties DEF TypeOK
  <1>1. ASSUME NEW row, native' = Append(native, row)
        PROVE  /\ DOMAIN native \subseteq DOMAIN native'
               /\ \A i \in DOMAIN native : native'[i] = native[i]
    <2>1. /\ Len(native) \in Nat /\ DOMAIN native = 1..Len(native)
          /\ DOMAIN native' = 1..(Len(native) + 1)
          /\ \A i \in 1..Len(native) : native'[i] = native[i]
      BY <1>1, AppendRows DEF TypeOK
    <2> QED
      BY <2>1
  <1>2. CASE \E r \in Requests : StoreUser(r) \/ \E k \in Kinds : StoreProposal(r, k)
    BY <1>1, <1>2 DEF StoreUser, StoreProposal
  <1>3. ASSUME NEW r \in Requests, TagProposal(r)
        PROVE  /\ DOMAIN native \subseteq DOMAIN native'
               /\ \A i \in DOMAIN native :
                    /\ native'[i].role = native[i].role
                    /\ native'[i].by = native[i].by /\ native'[i].kind = native[i].kind
    <2>1. PICK i \in AssistantRows :
            native' = [native EXCEPT ![i].tag = r, ![i].base = proc[r].base,
                                     ![i].disp = "none"]
      BY <1>3 DEF TagProposal
    <2> QED
      BY <1>0, <2>1 DEF Row
  <1>4. CASE Publishes
    BY <1>0, <1>4 DEF Publishes, PublishRow, Row
  <1> QED
    BY <1>2, <1>3, <1>4 DEF RowStep, Launch, Died

LEMMA ShownStill ==
    ASSUME TypeOK, RowStep, UNCHANGED text, NEW r, Worded(r)
    PROVE  Worded(r)'
  BY RowsPersist DEF Worded
-----------------------------------------------------------------------------
(* Where a turn came from, when it is at one of these places.                *)

PlaceStep ==
    /\ pc' = "queued" => \/ \E r \in Requests : Send(r, "ok")
                         \/ pc = "queued" /\ mem'.turn.req = Current /\ ~Launch
    /\ pc' = "opening" => mem'.turn.req = Current /\ pc \in {"queued", "opening"} /\ ~Launch
    /\ pc' = "infer" => /\ mem'.turn.req = Current
                        /\ Launch \/ pc = "infer"
    /\ pc' \in {"receipt", "stageReceipt"} =>
         /\ mem'.turn.req = Current
         /\ \/ pc \in {"receipt", "stageReceipt"}
            \/ pc = "infer" /\ proc[Current].phase = "tagged" /\ UNCHANGED <<native, proc>>
    /\ pc' \in {"published", "clear"} =>
         mem'.pub = mem.pub /\ (pc \in {"published", "clear"} \/ FinalizeSucceeds)

\* A step that goes nowhere.
LEMMA StaysPut ==
    ASSUME UNCHANGED pc, mem'.turn.req = mem.turn.req, mem'.pub = mem.pub
    PROVE  PlaceStep
  BY DEF PlaceStep, Current, Launch, Await, At

\* A step that leaves for somewhere else.
LEMMA GoesElsewhere ==
    ASSUME pc' \notin EarlyPlaces \cup {"published", "clear"}
    PROVE  PlaceStep
  BY DEF PlaceStep, EarlyPlaces

LEMMA RaisePlaces ==
    ASSUME NEW x, Raise(x)
    PROVE  PlaceStep
  BY GoesElsewhere DEF Raise, EarlyPlaces

LEMMA PlaceSteps ==
    ASSUME TypeInv, FlowInv, [Next]_vars
    PROVE  PlaceStep
  <1> USE DEF At, EarlyPlaces, FlowInv
  <1>0. mem \in Journal
    BY DEF TypeInv, TypeOK
  <1>1. CASE NativeStep
    BY <1>1, StaysPut DEF NativeStep, StoreUser, StoreProposal, TagProposal, ProcessDies,
                          NativeOnly, service
  <1>2. CASE JobStep
    <2>1. CASE LaunchFails \/ SourceCheckFails
               \/ \E x \in Failures : InferenceAborts(x) \/ RefreshFails(x) \/ FinalizeFails(x)
      BY <2>1, RaisePlaces DEF LaunchFails, SourceCheckFails, InferenceAborts, RefreshFails,
                               FinalizeFails
    <2>2. CASE WaitFails \/ InferenceFails \/ RecoverNothing \/ FinishRecover
      BY <2>2, GoesElsewhere DEF WaitFails, InferenceFails, RecoverNothing, FinishRecover, Await
    <2>3. CASE OpenSources \/ Launch \/ FinalizeSucceeds
      BY <2>3 DEF PlaceStep, OpenSources, Launch, FinalizeSucceeds, Await, Current
    <2>4. CASE InferenceEnds
      BY <2>4 DEF PlaceStep, InferenceEnds, Await, Current
    <2>5. ASSUME NEW w \in Outcomes, Refresh(w) PROVE PlaceStep
      <3>1. Reconciled(mem).pub = mem.pub /\ Reconciled(mem).turn = mem.turn
        BY <1>0, ReconciledJournal
      <3>2. CASE w = "ok"
        BY <2>5, <3>1, <3>2 DEF Refresh, InPlace, Await, NextOf, PlaceStep, Current
      <3>3. CASE w # "ok"
        BY <2>5, <3>3, RaisePlaces DEF Refresh
      <3> QED
        BY <3>2, <3>3
    <2>6. ASSUME NEW w \in Outcomes, StageReceipt(w) \/ DropSourceTurn(w) \/ RecoverStage(w)
                                     \/ ClearReceipt(w)
          PROVE PlaceStep
      BY <2>6, RaisePlaces, GoesElsewhere
      DEF StageReceipt, DropSourceTurn, RecoverStage, ClearReceipt, StageProposal, Await
    <2>7. ASSUME NEW w \in Outcomes, FinishTurn(w) \/ FinishBoot(w) \/ RefreshStopped(w)
                                     \/ ControlCommit(w)
          PROVE PlaceStep
      BY <2>7, GoesElsewhere
      DEF FinishTurn, FinishBoot, RefreshStopped, ControlCommit, Await
    <2> QED
      BY <1>2, <2>1, <2>2, <2>3, <2>4, <2>5, <2>6, <2>7 DEF JobStep
  <1>3. CASE Outside
    <2>1. CASE \/ \E r \in Requests : SendRetry(r) \/ SendConfigFails(r)
               \/ \E w \in Outcomes : SaveMeta(w)
               \/ \E c \in Controls : ControlRetry(c)
      BY <2>1, StaysPut DEF SendRetry, SendConfigFails, SaveMeta, ControlRetry, InPlace, service
    <2>2. ASSUME NEW w \in Outcomes, ReadSource(w) PROVE PlaceStep
      <3>1. mem'.turn.req = mem.turn.req /\ mem'.pub = mem.pub
        BY <1>0, <2>2 DEF ReadSource, InPlace, Journal, Turn
      <3> QED
        BY <2>2, <3>1, StaysPut DEF ReadSource
    <2>3. ASSUME NEW r \in Requests, NEW w \in Outcomes, Send(r, w) PROVE PlaceStep
      BY <2>3 DEF Send, Idle, PlaceStep
    <2>4. CASE \/ Stop \/ StopUnopened \/ StopWhileClosing \/ Recover \/ Start \/ Shutdown
               \/ \E survive \in BOOLEAN : Crash(survive)
               \/ \E c \in Controls, b \in 0..Revision(mem) : ControlPlan(c, b)
      BY <2>4, GoesElsewhere
      DEF Stop, StopUnopened, StopWhileClosing, Recover, Start, Shutdown, Crash, Down, ControlPlan
    <2>5. ASSUME NEW w \in Outcomes, OthersRefresh(w) PROVE PlaceStep
      <3>1. Reconciled(mem).pub = mem.pub /\ Reconciled(mem).turn = mem.turn
        BY <1>0, ReconciledJournal
      <3> QED
        BY <2>5, <3>1, StaysPut DEF OthersRefresh, InPlace
    <2> QED
      BY <1>3, <2>1, <2>2, <2>3, <2>4, <2>5 DEF Outside
  <1>4. CASE UNCHANGED vars
    BY <1>4, StaysPut DEF vars
  <1> QED
    BY <1>1, <1>2, <1>3, <1>4 DEF Next

-----------------------------------------------------------------------------
(* Proposals are what the model wrote.                                       *)

LEMMA KindStep ==
    ASSUME TypeInv, FlowInv, KindInv, [Next]_vars
    PROVE  KindInv'
  <1>1. RowStep /\ PlaceStep
    BY RowSteps, PlaceSteps DEF TypeInv
  <1>2. /\ DOMAIN native \subseteq DOMAIN native'
        /\ \A i \in DOMAIN native :
             native'[i].role = native[i].role /\ native'[i].kind = native[i].kind
        /\ AssistantRows \subseteq AssistantRows'
    BY <1>1, RowsPersist DEF TypeInv, AssistantRows
  <1>3. \A i \in AssistantRows' : native'[i].kind \in Kinds
    <2>1. CASE \E r \in Requests : StoreUser(r) \/ \E k \in Kinds : StoreProposal(r, k)
      <3>1. \E row : /\ native' = Append(native, row)
                     /\ row.role = "assistant" => row.kind \in Kinds
        <4>1. ASSUME NEW r \in Requests, StoreUser(r)
              PROVE  \E row : native' = Append(native, row) /\ row.role = "user"
          BY <4>1 DEF StoreUser
        <4>2. ASSUME NEW r \in Requests, NEW k \in Kinds, StoreProposal(r, k)
              PROVE  \E row : native' = Append(native, row) /\ row.kind = k
          BY <4>2 DEF StoreProposal
        <4> QED
          BY <2>1, <4>1, <4>2
      <3> PICK row : /\ native' = Append(native, row)
                     /\ row.role = "assistant" => row.kind \in Kinds
        BY <3>1
      <3>2. /\ Len(native) \in Nat /\ DOMAIN native = 1..Len(native)
            /\ DOMAIN native' = 1..(Len(native) + 1)
            /\ native'[Len(native) + 1] = row
        BY <3>1, AppendRows DEF TypeInv, TypeOK
      <3>3. ASSUME NEW i \in DOMAIN native' PROVE i \in DOMAIN native \/ i = Len(native) + 1
        BY <3>2
      <3> QED
        BY <1>2, <3>1, <3>2, <3>3 DEF AssistantRows, KindInv
    <2>2. CASE DOMAIN native' = DOMAIN native
      BY <1>2, <2>2 DEF AssistantRows, KindInv
    <2>3. ASSUME NEW r \in Requests, TagProposal(r) PROVE DOMAIN native' = DOMAIN native
      BY <2>3 DEF TagProposal
    <2> QED
      BY <1>1, <2>1, <2>2, <2>3 DEF RowStep, Launch, Publishes, PublishRow
  <1>4. ASSUME NEW r \in Requests
        PROVE  \/ proc'[r] = proc[r]
               \/ proc[r].phase \in Alive /\ proc'[r].phase = "gone" /\ proc'[r].row = proc[r].row
               \/ Launch /\ proc'[r].phase = "running"
               \/ proc[r].phase \in Writing /\ proc'[r].phase \in {"heard", "answered"}
               \/ /\ proc[r].phase = "answered" /\ proc'[r].phase = "tagged"
                  /\ proc'[r].row \in AssistantRows
    BY <1>1, <1>4, ProcSteps DEF TypeInv, Writing
  <1>5. ASSUME NEW r \in Requests, proc'[r].phase = "tagged" PROVE proc'[r].row \in AssistantRows'
    BY <1>2, <1>4, <1>5 DEF KindInv
  <1>6. ASSUME pc' \in {"receipt", "stageReceipt"}
        PROVE  /\ proc'[mem'.turn.req].phase \in {"tagged", "gone"}
               /\ proc'[mem'.turn.req].row \in AssistantRows'
    <2>1. mem'.turn.req = Current /\ ~Launch
      BY <1>1, <1>6 DEF PlaceStep, Launch, Await
    <2>2. Current \in Requests
      BY <1>1, <1>6 DEF PlaceStep, TypeInv, TurnInv, FlowInv, EarlyPlaces, Current
    <2>3. /\ proc[Current].phase \in {"tagged", "gone"}
          /\ proc[Current].row \in AssistantRows
      BY <1>1, <1>6, <2>2 DEF PlaceStep, KindInv
    <2> QED
      BY <1>2, <1>4, <2>1, <2>2, <2>3 DEF Writing
  <1> QED
    BY <1>3, <1>5, <1>6 DEF KindInv, Current

-----------------------------------------------------------------------------
(* Journals fit together, and the message stays on screen.                   *)

LEMMA CommittedUpdate ==
    ASSUME NEW j, NEW i, native[i].kind \in Kinds, Disposition(j, i) = "committed"
    PROVE  native[i].kind = "update" /\ ~j.turn.source /\ native[i].base = j.turn.base
  BY DEF Disposition, Kinds

LEMMA DerivedFits ==
    ASSUME TypeInv, FlowInv, KindInv, Fits(mem), Shows(mem), NEW j \in Journal, Derived(j)
    PROVE  Fits(j) /\ Shows(j)
  <1>0. mem \in Journal
    BY DEF TypeInv, TypeOK
  <1>1. CASE Same(j)
    <2>1. CASE j.turn = mem.turn
      BY <1>1, <2>1 DEF Same, Fits, Shows
    <2>2. CASE pc = "infer" /\ j.turn = [mem.turn EXCEPT !.source = TRUE]
      <3>1. j.turn.req = mem.turn.req /\ mem.turn # NoTurn /\ j.pub.disp # "committed"
            /\ j.pub = NoPub
        BY <1>0, <1>1, <2>2 DEF Same, FlowInv, EarlyPlaces, NoPub, Journal, Turn
      <3> QED
        BY <1>1, <3>1 DEF Same, Fits, Shows
    <2> QED
      BY <1>1, <2>1, <2>2 DEF Same
  <1>2. CASE Begun(j)
    BY <1>2 DEF Begun, Fits, Shows, NoPub
  <1>3. CASE Decided(j)
    <2>1. PICK i : i \in AssistantRows /\ j = Staged(mem, i)
      <3>1. CASE pc = "stageReceipt" /\ j = Staged(mem, proc[Current].row)
        BY <3>1 DEF KindInv
      <3>2. ASSUME NEW i, ProposalRows(Current) = {i}, j = Staged(mem, i) PROVE i \in AssistantRows
        BY <3>2 DEF ProposalRows, AssistantRows
      <3> QED
        BY <1>3, <3>1, <3>2 DEF Decided
    <2>2. /\ j.turn = mem.turn /\ j.request = mem.request /\ j.msg = mem.msg
          /\ j.pub = [req |-> mem.turn.req, row |-> i, disp |-> Disposition(mem, i)]
      BY <1>0, <2>1 DEF Staged, Journal
    <2>3. j.pub.disp = "committed" => ~j.turn.source
      BY <2>1, <2>2, CommittedUpdate DEF KindInv
    <2> QED
      BY <1>3, <2>2, <2>3 DEF Decided, Fits, Shows
  <1>4. CASE Cleared(j)
    BY <1>0, <1>4 DEF Cleared, Fits, Shows, Journal, NoPub
  <1>5. CASE Edited(j)
    BY <1>0, <1>5 DEF Edited, Fits, Shows, Journal
  <1> QED
    BY <1>1, <1>2, <1>3, <1>4, <1>5 DEF Derived

LEMMA JournalInvStep ==
    ASSUME TypeInv, FlowInv, KindInv, JournalInv, [Next]_vars
    PROVE  JournalInv'
  <1>1. RowStep /\ JournalStep
    BY RowSteps, JournalSteps DEF TypeInv
  <1>2. \A r : Worded(r) => Worded(r)'
    BY <1>1, ShownStill DEF TypeInv, Next, vars
  <1>3. CASE UNCHANGED <<mem, disk>>
    BY <1>2, <1>3 DEF JournalInv, Fits, Shows
  <1>4. ASSUME UNCHANGED native, NEW j \in Journal, Derived(j), Wrote(j) PROVE JournalInv'
    <2>1. Fits(j) /\ Shows(j)
      BY <1>4, DerivedFits DEF JournalInv
    <2>2. mem' \in {mem, j} /\ disk' \in {disk, j}
      BY <1>4 DEF Wrote
    <2> QED
      BY <1>2, <2>1, <2>2 DEF JournalInv, Fits, Shows
  <1>5. CASE UNCHANGED disk /\ mem' = disk
    BY <1>2, <1>5 DEF JournalInv, Fits, Shows
  <1> QED
    BY <1>1, <1>3, <1>4, <1>5 DEF JournalStep
-----------------------------------------------------------------------------
(* Without orphans, one process writes, and only while the turn waits for it. *)

ProcessInv ==
    \A r \in Requests :
        proc[r].phase \in Writing => pc = "infer" /\ r = mem.turn.req

\* Whatever ends the wait for the model ends its process too.
LEMMA LeavesInference ==
    ASSUME TypeInv, FlowInv, JournalInv, NoOrphans, [Next]_vars, pc = "infer"
    PROVE  \/ pc' = "infer"
           \/ UNCHANGED proc /\ proc[Current].phase \notin Writing
           \/ proc'[Current].phase \notin Writing
  <1> USE DEF At, FlowInv, EarlyPlaces, Writing
  <1>1. /\ up /\ job = "turn" /\ Current \in Requests /\ mem.turn # NoTurn
        /\ mem.request = Current
    BY DEF TypeInv, TurnInv, Current, JournalInv, Fits
  <1>2. /\ proc \in [Requests -> Process]
        /\ \A p \in Phases : (IF p \in Alive THEN "gone" ELSE p) \notin Writing
    BY DEF TypeInv, TypeOK, Alive, Phases
  <1>3. CASE NativeStep
    BY <1>3 DEF NativeStep, StoreUser, StoreProposal, TagProposal, ProcessDies, NativeOnly, service
  <1>4. CASE JobStep
    <2>1. CASE InferenceEnds \/ InferenceFails
      BY <2>1 DEF InferenceEnds, InferenceFails
    <2>2. ASSUME NEW x \in Failures, InferenceAborts(x) PROVE proc'[Current].phase \notin Writing
      BY <1>1, <1>2, <2>2 DEF InferenceAborts, Kill, Process
    <2> QED
      BY <1>1, <1>4, <2>1, <2>2
      DEF JobStep, OpenSources, Launch, WaitFails, LaunchFails, RefreshFails, FinalizeFails,
          Refresh, StageReceipt, DropSourceTurn, RecoverStage, ClearReceipt, FinishTurn, FinishBoot,
          RefreshStopped, ControlCommit, SourceCheckFails, RecoverNothing, FinalizeSucceeds,
          FinishRecover
  <1>5. CASE Outside
    <2>1. CASE Stop
      BY <1>1, <1>2, <2>1 DEF Stop, Kill, Process
    <2>2. CASE Shutdown
      BY <1>1, <1>2, <2>2 DEF Shutdown, Process
    <2>3. ASSUME NEW survive \in BOOLEAN, Crash(survive) PROVE proc'[Current].phase \notin Writing
      BY <1>1, <1>2, <2>3 DEF Crash, Process, NoOrphans
    <2> QED
      BY <1>1, <1>5, <2>1, <2>2, <2>3
      DEF Outside, SendRetry, SendConfigFails, Send, ReadSource, SaveMeta, OthersRefresh,
          ControlRetry, ControlPlan, StopUnopened, StopWhileClosing, Recover, Start, Idle, service
  <1>6. CASE UNCHANGED vars
    BY <1>6 DEF vars
  <1> QED
    BY <1>3, <1>4, <1>5, <1>6 DEF Next

LEMMA ProcessStep ==
    ASSUME TypeInv, FlowInv, JournalInv, ProcessInv, NoOrphans, [Next]_vars
    PROVE  ProcessInv'
  <1> SUFFICES ASSUME NEW r \in Requests, proc'[r].phase \in Writing
               PROVE  pc' = "infer" /\ r = mem'.turn.req
    BY DEF ProcessInv, Writing
  <1>1. RowStep /\ PlaceStep
    BY RowSteps, PlaceSteps DEF TypeInv
  <1>2. CASE Launch
    <2>1. pc' = "infer" /\ pc = "opening"
      BY <1>2 DEF Launch, Await, At
    <2>2. r = Current
      BY <1>1, <2>1, ProcSteps DEF ProcessInv, Writing, TypeInv
    <2> QED
      BY <1>1, <2>1, <2>2 DEF PlaceStep
  <1>3. CASE ~Launch
    <2>1. proc[r].phase \in Writing
      BY <1>1, <1>3, ProcSteps DEF Writing, TypeInv
    <2>2. pc = "infer" /\ r = Current
      BY <2>1 DEF ProcessInv, Current
    <2>3. pc' = "infer"
      BY <2>1, <2>2, LeavesInference DEF ProcessInv
    <2> QED
      BY <1>1, <1>3, <2>2, <2>3 DEF PlaceStep
  <1> QED
    BY <1>2, <1>3

-----------------------------------------------------------------------------
(* While one process writes, the answer that gets a tag is the one of its     *)
(* request, and a row that has a tag or an outcome keeps it.                  *)

LEMMA Tagging ==
    ASSUME TypeOK, RowInv, NEW r \in Requests, TagProposal(r)
    PROVE  \E i \in AssistantRows :
             /\ \A k \in AssistantRows : k <= i
             /\ native[i].by = r /\ native[i].tag = NoReq /\ native[i].disp = "none"
             /\ native' = [native EXCEPT ![i].tag = r, ![i].base = proc[r].base,
                                         ![i].disp = "none"]
             /\ proc' = [proc EXCEPT ![r].phase = "tagged", ![r].row = i]
  <1>1. AssistantRows \subseteq Nat
    BY LenProperties DEF AssistantRows, TypeOK
  <1>2. PICK i \in AssistantRows :
             /\ \A k \in AssistantRows : k <= i
             /\ native' = [native EXCEPT ![i].tag = r, ![i].base = proc[r].base,
                                         ![i].disp = "none"]
             /\ proc' = [proc EXCEPT ![r].phase = "tagged", ![r].row = i]
    BY DEF TagProposal
  <1>3. PICK l \in AssistantRows :
             /\ \A k \in AssistantRows : k <= l
             /\ native[l].by = r /\ native[l].tag = NoReq
    BY DEF TagProposal, RowInv, Latest
  <1>4. i = l
    BY <1>1, <1>2, <1>3
  <1> QED
    BY <1>2, <1>3, <1>4 DEF RowInv

LEMMA RowsGrow ==
    ASSUME TypeOK, RowInv, RowStep
    PROVE  /\ \A i \in DOMAIN native :
                /\ i \in DOMAIN native' /\ native'[i].role = native[i].role
                /\ native'[i].by = native[i].by /\ native'[i].kind = native[i].kind
                /\ native[i].tag # NoReq =>
                     native'[i].tag = native[i].tag /\ native'[i].base = native[i].base
                /\ native[i].disp # "none" => native'[i].disp = native[i].disp
           /\ \A r \in Requests : /\ ProposalRows(r) \subseteq ProposalRows(r)'
                                  /\ Answered(r) => Answered(r)'
  <1>0. \A i \in DOMAIN native : native[i] \in Row
    BY ElementOfSeq, LenProperties DEF TypeOK
  <1>1. ASSUME NEW i \in DOMAIN native
        PROVE  /\ i \in DOMAIN native' /\ native'[i].role = native[i].role
               /\ native'[i].by = native[i].by /\ native'[i].kind = native[i].kind
    BY RowsPersist
  <1>2. ASSUME NEW i \in DOMAIN native
        PROVE  /\ native[i].tag # NoReq =>
                    native'[i].tag = native[i].tag /\ native'[i].base = native[i].base
               /\ native[i].disp # "none" => native'[i].disp = native[i].disp
    <2>1. CASE \E r \in Requests : StoreUser(r) \/ \E k \in Kinds : StoreProposal(r, k)
      <3>1. ASSUME NEW row, native' = Append(native, row) PROVE native'[i] = native[i]
        BY <3>1, AppendRows DEF TypeOK
      <3> QED
        BY <2>1, <3>1 DEF StoreUser, StoreProposal
    <2>2. ASSUME NEW r \in Requests, TagProposal(r)
          PROVE  native'[i] = native[i] \/ (native[i].tag = NoReq /\ native[i].disp = "none")
      BY <1>0, <2>2, Tagging DEF AssistantRows
    <2>3. CASE Publishes
      BY <1>0, <2>3 DEF Publishes, PublishRow, Publishable, Row
    <2> QED
      BY <2>1, <2>2, <2>3 DEF RowStep, Launch
  <1>3. ASSUME NEW r \in Requests
        PROVE  /\ ProposalRows(r) \subseteq ProposalRows(r)'
               /\ Answered(r) => Answered(r)'
    <2>1. ProposalRows(r) \subseteq ProposalRows(r)'
      BY <1>1, <1>2 DEF ProposalRows
    <2> QED
      BY <1>2, <2>1 DEF Answered, ProposalRows
  <1> QED
    BY <1>1, <1>2, <1>3
\* The rows a receipt may name.
Named(j) == j.pub # NoPub => j.pub.row \in ProposalRows(j.pub.req)

LEMMA DerivedNamed ==
    ASSUME TypeInv, FlowInv, RowInv, NEW j \in Journal, Derived(j)
    PROVE  Named(j)
  <1>0. mem \in Journal /\ Named(mem)
    BY DEF TypeInv, TypeOK, RowInv, Named
  <1>1. CASE Same(j)
    BY <1>0, <1>1 DEF Same, Named
  <1>2. CASE Begun(j)
    BY <1>2 DEF Begun, Named
  <1>3. CASE Decided(j)
    <2>1. PICK i : i \in ProposalRows(Current) /\ j = Staged(mem, i)
      BY <1>3 DEF Decided, RowInv
    <2>2. j.pub = [req |-> mem.turn.req, row |-> i, disp |-> Disposition(mem, i)]
      BY <1>0, <2>1 DEF Staged, Journal
    <2> QED
      BY <2>1, <2>2 DEF Named, Current
  <1>4. CASE Cleared(j)
    BY <1>0, <1>4 DEF Cleared, Named, Journal
  <1>5. CASE Edited(j)
    BY <1>0, <1>5 DEF Edited, Named, Journal
  <1> QED
    BY <1>1, <1>2, <1>3, <1>4, <1>5 DEF Derived

LEMMA NamedStep ==
    ASSUME TypeInv, FlowInv, JournalInv, RowInv, [Next]_vars
    PROVE  Named(mem)' /\ Named(disk)'
  <1>1. /\ JournalStep /\ Named(mem) /\ Named(disk)
        /\ \A r \in Requests : ProposalRows(r) \subseteq ProposalRows(r)'
    BY JournalSteps, RowSteps, RowsGrow DEF TypeInv, RowInv, Named
  <1>2. CASE UNCHANGED <<mem, disk>> \/ (UNCHANGED disk /\ mem' = disk)
    BY <1>1, <1>2 DEF Named, JournalInv, Fits
  <1>3. ASSUME UNCHANGED native, NEW j \in Journal, Derived(j), Wrote(j)
        PROVE Named(mem)' /\ Named(disk)'
    <2>1. Named(j)
      BY <1>3, DerivedNamed
    <2>2. mem' \in {mem, j} /\ disk' \in {disk, j}
      BY <1>3 DEF Wrote
    <2>3. \A r : ProposalRows(r)' = ProposalRows(r)
      BY <1>3 DEF ProposalRows
    <2> QED
      BY <1>1, <2>1, <2>2, <2>3 DEF Named
  <1> QED
    BY <1>1, <1>2, <1>3 DEF JournalStep

LEMMA AssistantRowsStep ==
    ASSUME TypeInv, FlowInv, JournalInv, RowInv, RowStep
    PROVE  \A i \in AssistantRows' :
             IF native'[i].tag = NoReq THEN native'[i].disp = "none"
                                       ELSE native'[i].by = native'[i].tag
  <1>0. \A i \in DOMAIN native : native[i] \in Row
    BY ElementOfSeq, LenProperties DEF TypeInv, TypeOK
  <1>1. ASSUME NEW row, native' = Append(native, row),
               row.role = "assistant" => row.tag = NoReq /\ row.disp = "none",
               NEW i \in AssistantRows'
        PROVE  IF native'[i].tag = NoReq THEN native'[i].disp = "none"
                                         ELSE native'[i].by = native'[i].tag
    <2>1. /\ Len(native) \in Nat /\ DOMAIN native = 1..Len(native)
          /\ DOMAIN native' = 1..(Len(native) + 1)
          /\ native'[Len(native) + 1] = row
          /\ \A k \in 1..Len(native) : native'[k] = native[k]
      BY <1>1, AppendRows DEF TypeInv, TypeOK
    <2>2. i \in DOMAIN native \/ i = Len(native) + 1
      BY <1>1, <2>1 DEF AssistantRows
    <2> QED
      BY <1>1, <2>1, <2>2 DEF AssistantRows, RowInv
  <1>2. ASSUME NEW r \in Requests, StoreUser(r) PROVE
             \A i \in AssistantRows' :
                IF native'[i].tag = NoReq THEN native'[i].disp = "none"
                                          ELSE native'[i].by = native'[i].tag
    BY <1>1, <1>2 DEF StoreUser
  <1>3. ASSUME NEW r \in Requests, NEW k \in Kinds, StoreProposal(r, k) PROVE
             \A i \in AssistantRows' :
                IF native'[i].tag = NoReq THEN native'[i].disp = "none"
                                          ELSE native'[i].by = native'[i].tag
    BY <1>1, <1>3 DEF StoreProposal
  <1>4. ASSUME NEW r \in Requests, TagProposal(r) PROVE
             \A i \in AssistantRows' :
                IF native'[i].tag = NoReq THEN native'[i].disp = "none"
                                          ELSE native'[i].by = native'[i].tag
    <2>1. PICK l \in AssistantRows :
             /\ native[l].by = r
             /\ native' = [native EXCEPT ![l].tag = r, ![l].base = proc[r].base,
                                         ![l].disp = "none"]
      BY <1>4, Tagging DEF TypeInv
    <2>2. ASSUME NEW i \in DOMAIN native
          PROVE  /\ native'[i].role = native[i].role
                 /\ native'[i].by = native[i].by
                 /\ i # l => native'[i] = native[i]
                 /\ i = l => native'[i].tag = r
      BY <1>0, <2>1 DEF Row
    <2>3. DOMAIN native' = DOMAIN native /\ AssistantRows' = AssistantRows
      BY <2>1, <2>2 DEF AssistantRows
    <2> QED
      BY <2>1, <2>2, <2>3 DEF AssistantRows, RowInv
  <1>5. CASE Publishes
    <2>1. mem.pub # NoPub /\ mem.pub.req # NoReq
      BY <1>5 DEF Publishes, FlowInv, JournalInv, Fits
    <2> QED
      BY <1>0, <1>5, <2>1 DEF Publishes, PublishRow, Publishable, AssistantRows, RowInv, Row
  <1>6. CASE UNCHANGED native
    BY <1>6 DEF AssistantRows, RowInv
  <1> QED
    BY <1>2, <1>3, <1>4, <1>5, <1>6 DEF RowStep, Launch

LEMMA AnsweredLatest ==
    ASSUME TypeInv, OneWriter, RowInv, RowStep,
           NEW r \in Requests, proc'[r].phase = "answered"
    PROVE  Latest(r)'
  <1>0. proc \in [Requests -> Process]
    BY DEF TypeInv, TypeOK
  <1>1. ASSUME NEW q \in Requests, StoreUser(q) PROVE FALSE
    <2>1. proc[q].phase = "running" /\ proc[r].phase = "answered"
      BY <1>0, <1>1 DEF StoreUser, Advance, Process
    <2> QED
      BY <2>1 DEF OneWriter, Writing
  <1>2. ASSUME NEW q \in Requests, NEW k \in Kinds, StoreProposal(q, k) PROVE Latest(r)'
    <2>1. q = r
      BY <1>0, <1>2 DEF StoreProposal, Advance, Process, OneWriter, Writing
    <2> DEFINE row == [role |-> "assistant", by |-> r, tag |-> NoReq,
                       base |-> 0, kind |-> k, disp |-> "none"]
    <2>2. native' = Append(native, row)
      BY <1>2, <2>1 DEF StoreProposal
    <2>3. row.role = "assistant" /\ row.by = r /\ row.tag = NoReq
      OBVIOUS
    <2> HIDE DEF row
    <2>4. /\ Len(native) \in Nat
          /\ DOMAIN native' = 1..(Len(native) + 1)
          /\ native'[Len(native) + 1] = row
      BY <2>2, AppendRows DEF TypeInv, TypeOK
    <2>5. Len(native) + 1 \in AssistantRows'
      BY <2>3, <2>4 DEF AssistantRows
    <2>6. \A i \in AssistantRows' : i <= Len(native) + 1
      BY <2>4 DEF AssistantRows
    <2> QED
      BY <2>3, <2>4, <2>5, <2>6 DEF Latest
  <1>3. ASSUME NEW q \in Requests, TagProposal(q) PROVE FALSE
    <2>1. proc[q].phase = "answered" /\ proc'[q].phase = "tagged"
          /\ (q # r => proc[r].phase = "answered")
      BY <1>0, <1>3 DEF TagProposal, Process
    <2> QED
      BY <2>1 DEF OneWriter, Writing
  <1>4. CASE UNCHANGED native /\ (UNCHANGED proc \/ Died \/ Launch)
    <2>1. ASSUME Died
          PROVE  proc[r].phase = "answered"
      <3>1. proc'[r] = proc[r] \/ proc'[r] = [proc[r] EXCEPT !.phase = "gone"]
        BY <2>1 DEF Died
      <3>2. [proc[r] EXCEPT !.phase = "gone"].phase = "gone"
        BY <1>0 DEF Process
      <3> QED
        BY <3>1, <3>2
    <2>2. ASSUME Launch
          PROVE  proc[r].phase = "answered"
      <3>1. proc' = [proc EXCEPT ![Current] =
                       [phase |-> "running", base |-> Revision(mem), row |-> 0]]
        BY <2>2 DEF Launch
      <3>2. r # Current
        BY <1>0, <3>1
      <3> QED
        BY <1>0, <3>1, <3>2
    <2>3. proc[r].phase = "answered"
      BY <1>4, <2>1, <2>2
    <2> QED
      BY <1>4, <2>3 DEF RowInv, Latest, AssistantRows
  <1>5. CASE Publishes
    <2>1. proc[r].phase = "answered"
      BY <1>5 DEF Publishes
    <2>2. PICK i \in AssistantRows :
             /\ \A k \in AssistantRows : k <= i
             /\ native[i].by = r /\ native[i].tag = NoReq
      BY <2>1 DEF RowInv, Latest
    <2>3. \A k \in DOMAIN native : native[k] \in Row
      BY ElementOfSeq, LenProperties DEF TypeInv, TypeOK
    <2>4. /\ DOMAIN native' = DOMAIN native
          /\ \A k \in DOMAIN native :
               /\ native'[k].role = native[k].role /\ native'[k].by = native[k].by
               /\ native'[k].tag = native[k].tag
      BY <1>5, <2>3 DEF Publishes, PublishRow, Row
    <2> QED
      BY <2>2, <2>4 DEF Latest, AssistantRows
  <1> QED
    BY <1>1, <1>2, <1>3, <1>4, <1>5 DEF RowStep, Launch

LEMMA TaggedRow ==
    ASSUME TypeInv, RowInv, RowStep, NEW r \in Requests, proc'[r].phase = "tagged"
    PROVE  proc'[r].row \in ProposalRows(r)'
  <1>0. \A q \in Requests : ProposalRows(q) \subseteq ProposalRows(q)'
    BY RowsGrow DEF TypeInv
  <1>1. CASE proc'[r] = proc[r]
    BY <1>0, <1>1 DEF RowInv
  <1>2. CASE TagProposal(r)
    <2>1. PICK i \in AssistantRows :
             /\ native' = [native EXCEPT ![i].tag = r, ![i].base = proc[r].base,
                                         ![i].disp = "none"]
             /\ proc' = [proc EXCEPT ![r].phase = "tagged", ![r].row = i]
      BY <1>2 DEF TagProposal
    <2>2. native[i] \in Row /\ i \in DOMAIN native /\ native[i].role = "assistant"
      BY ElementOfSeq, LenProperties DEF AssistantRows, TypeInv, TypeOK
    <2>3. proc'[r].row = i
      BY <2>1 DEF TypeInv, TypeOK, Process
    <2>4. i \in DOMAIN native' /\ native'[i].role = "assistant" /\ native'[i].tag = r
      BY <2>1, <2>2 DEF Row
    <2> QED
      BY <2>3, <2>4 DEF ProposalRows
  <1> QED
    BY <1>1, <1>2, ProcSteps DEF TypeInv

LEMMA RowInvStep ==
    ASSUME TypeInv, FlowInv, KindInv, JournalInv, OneWriter, RowInv, [Next]_vars
    PROVE  RowInv'
  <1>1. RowStep /\ PlaceStep
    BY RowSteps, PlaceSteps DEF TypeInv
  <1>2. ASSUME pc' \in {"receipt", "stageReceipt"}
        PROVE  (proc[Current].row \in ProposalRows(Current))'
    <2>1. mem'.turn.req = Current /\ ~Launch
      BY <1>1, <1>2 DEF PlaceStep, Launch, Await
    <2>2. PICK q \in Requests : q = Current
      BY <1>1, <1>2 DEF PlaceStep, TypeInv, TurnInv, FlowInv, EarlyPlaces, Current
    <2>3. proc[q].phase \in {"tagged", "gone"} /\ proc[q].row \in ProposalRows(q)
      BY <1>1, <1>2, <2>2 DEF PlaceStep, KindInv, RowInv
    <2>4. proc'[q].row = proc[q].row
      BY <1>1, <2>1, <2>3, ProcSteps DEF TypeInv
    <2>5. ProposalRows(q) \subseteq ProposalRows(q)'
      BY <1>1, RowsGrow DEF TypeInv
    <2>6. Current' = q
      BY <2>1, <2>2 DEF Current
    <2> QED
      BY <2>3, <2>4, <2>5, <2>6 DEF ProposalRows
  <1>3. Named(mem)' /\ Named(disk)'
    BY NamedStep
  <1>4. \A i \in AssistantRows' :
             IF native'[i].tag = NoReq THEN native'[i].disp = "none"
                                       ELSE native'[i].by = native'[i].tag
    BY <1>1, AssistantRowsStep
  <1>5. \A r \in Requests :
         /\ proc'[r].phase = "answered" => Latest(r)'
         /\ proc'[r].phase = "tagged" => proc'[r].row \in ProposalRows(r)'
    BY <1>1, AnsweredLatest, TaggedRow
  <1> QED
    BY <1>2, <1>3, <1>4, <1>5 DEF RowInv, Named
-----------------------------------------------------------------------------
(* A change is public or still in its receipt, and is the one proposed.      *)

LEMMA StoppedGrows ==
    ASSUME [Next]_vars
    PROVE  stopped \subseteq stopped'
  <1> USE DEF history, service, Down, NativeOnly
  <1>1. CASE NativeStep
    BY <1>1 DEF NativeStep, StoreUser, StoreProposal, TagProposal, ProcessDies
  <1>2. CASE JobStep
    BY <1>2 DEF JobStep, OpenSources, Launch, WaitFails, LaunchFails, InferenceEnds,
                InferenceFails, InferenceAborts, RefreshFails, FinalizeFails, Refresh, StageReceipt,
                DropSourceTurn, RecoverStage, StageProposal, ClearReceipt, FinishTurn, FinishBoot,
                RefreshStopped, ControlCommit, SourceCheckFails, RecoverNothing,
                FinalizeSucceeds, FinishRecover
  <1>3. CASE Outside
    BY <1>3 DEF Outside, SendRetry, SendConfigFails, Send, ReadSource, SaveMeta, OthersRefresh,
                ControlRetry, ControlPlan, Stop, StopUnopened, StopWhileClosing, Recover, Start,
                Shutdown, Crash
  <1> QED
    BY <1>1, <1>2, <1>3 DEF Next, vars

\* What a batch adds to the list.
LEMMA BatchAdds ==
    ASSUME NEW s \in Seq(Change), NEW c \in Change
    PROVE  LET t == ApplyBatch(s, c)
           IN  \/ c \in Elems(s) /\ t = s
               \/ /\ t \in Seq(Change) /\ c \notin Elems(s)
                  /\ Len(s) \in Nat /\ DOMAIN s = 1..Len(s) /\ DOMAIN t = 1..(Len(s) + 1)
                  /\ \A i \in 1..Len(s) : t[i] = s[i]
                  /\ t[Len(s) + 1] = c
                  /\ Elems(t) = Elems(s) \cup {c}
  <1> DEFINE t == Append(s, c)
  <1>1. /\ t \in Seq(Change) /\ Len(s) \in Nat
        /\ DOMAIN s = 1..Len(s) /\ DOMAIN t = 1..(Len(s) + 1)
        /\ \A i \in 1..Len(s) : t[i] = s[i]
        /\ t[Len(s) + 1] = c
    BY AppendProperties, AppendRows
  <1> HIDE DEF t
  <1>2. ASSUME NEW x \in Elems(t) PROVE x \in Elems(s) \cup {c}
    <2>1. PICK i \in DOMAIN t : x = t[i]
      BY DEF Elems
    <2>2. CASE i \in 1..Len(s)
      BY <1>1, <2>1, <2>2 DEF Elems
    <2>3. CASE i = Len(s) + 1
      BY <1>1, <2>1, <2>3
    <2> QED
      BY <1>1, <2>1, <2>2, <2>3
  <1>3. ASSUME NEW x \in Elems(s) \cup {c} PROVE x \in Elems(t)
    <2>1. CASE x \in Elems(s)
      <3>1. PICK i \in DOMAIN s : x = s[i]
        BY <2>1 DEF Elems
      <3>2. i \in DOMAIN t /\ t[i] = x
        BY <1>1, <3>1
      <3> QED
        BY <3>2 DEF Elems
    <2>2. CASE x = c
      <3>1. Len(s) + 1 \in DOMAIN t
        BY <1>1
      <3> QED
        BY <1>1, <2>2, <3>1 DEF Elems
    <2> QED
      BY <2>1, <2>2
  <1>4. Elems(t) = Elems(s) \cup {c}
    BY <1>2, <1>3
  <1>5. CASE c \in Elems(s)
    BY <1>5 DEF ApplyBatch
  <1>6. CASE c \notin Elems(s)
    BY <1>1, <1>4, <1>6 DEF ApplyBatch, t
  <1> QED
    BY <1>5, <1>6

\* What a decision makes of the list.
LEMMA DecidedTasks ==
    ASSUME TypeInv, KindInv, RowInv, NEW j \in Journal, Decided(j)
    PROVE  \E i \in ProposalRows(Current) :
             /\ j = Staged(mem, i)
             /\ j.pub = [req |-> Current, row |-> i, disp |-> Disposition(mem, i)]
             /\ j.turn = mem.turn /\ j.accepted = mem.accepted /\ j.request = mem.request
             /\ native[i].by = Current
             /\ j.pub.disp = "committed" =>
                  /\ native[i].kind = "update" /\ ~mem.turn.source
                  /\ j.tasks = ApplyBatch(mem.tasks, Current)
                  /\ Current \in Applied(mem) \/ native[i].base = Len(mem.tasks)
             /\ j.pub.disp # "committed" => j.tasks = mem.tasks
  <1>0. mem \in Journal /\ Current \in Requests
    BY DEF TypeInv, TypeOK, Decided
  <1>1. PICK i : i \in ProposalRows(Current) /\ j = Staged(mem, i)
    BY DEF Decided, RowInv
  <1>2. /\ j.pub = [req |-> Current, row |-> i, disp |-> Disposition(mem, i)]
        /\ j.turn = mem.turn /\ j.accepted = mem.accepted /\ j.request = mem.request
        /\ j.tasks = IF Disposition(mem, i) = "committed" THEN ApplyBatch(mem.tasks, Current)
                     ELSE mem.tasks
    BY <1>0, <1>1 DEF Staged, Journal, Current
  <1>3. native[i].by = Current /\ native[i].kind \in Kinds
    BY <1>0, <1>1 DEF RowInv, KindInv, ProposalRows, AssistantRows
  <1>4. Disposition(mem, i) = "committed" =>
          /\ native[i].kind = "update" /\ ~mem.turn.source
          /\ Current \in Applied(mem) \/ native[i].base = Len(mem.tasks)
    BY <1>3 DEF Disposition, Kinds, Current, Revision
  <1> QED
    BY <1>1, <1>2, <1>3, <1>4

\* Pending, from what is stopped after the step.
LEMMA DerivedPending ==
    ASSUME TypeInv, FlowInv, KindInv, JournalInv, RowInv, PublicInv, [Next]_vars,
           NEW j \in Journal, Derived(j),
           NEW r \in (Requests \cap Applied(j)) \ stopped'
    PROVE  Answered(r) \/ (j.pub.req = r /\ j.pub.disp = "committed")
  <1>0. mem \in Journal /\ r \notin stopped
    BY StoppedGrows DEF TypeInv, TypeOK
  <1>1. r \in Applied(mem) => Answered(r) \/ (mem.pub.req = r /\ mem.pub.disp = "committed")
    BY <1>0 DEF PublicInv, Pending
  <1>2. CASE Same(j)
    BY <1>1, <1>2 DEF Same, Applied
  <1>3. CASE Begun(j)
    BY <1>1, <1>3 DEF Begun, Applied
  <1>4. CASE Decided(j)
    <2>1. r \in Applied(mem) => Answered(r)
      BY <1>1, <1>4 DEF Decided, NoPub
    <2>2. /\ j.pub.req = Current
          /\ j.pub.disp = "committed" => j.tasks = ApplyBatch(mem.tasks, Current)
          /\ j.pub.disp # "committed" => j.tasks = mem.tasks
      <3>1. PICK i \in ProposalRows(Current) :
             /\ j.pub = [req |-> Current, row |-> i, disp |-> Disposition(mem, i)]
             /\ j.pub.disp = "committed" => j.tasks = ApplyBatch(mem.tasks, Current)
             /\ j.pub.disp # "committed" => j.tasks = mem.tasks
        BY <1>4, DecidedTasks, Zenon
      <3> QED
        BY <3>1
    <2>3. j.pub.disp = "committed" => Applied(j) \subseteq Applied(mem) \cup {Current}
      <3>1. Current \in Change /\ mem.tasks \in Seq(Change)
        BY <1>0, <1>4 DEF Decided, Change, Journal
      <3> QED
        BY <2>2, <3>1, BatchAdds DEF Applied
    <2> QED
      BY <2>1, <2>2, <2>3 DEF Applied
  <1>5. CASE Cleared(j)
    <2>1. j.tasks = mem.tasks
      BY <1>0, <1>5 DEF Cleared, Journal
    <2>2. mem.pub.req = r /\ mem.pub.disp = "committed" => mem.pub # NoPub /\ mem.turn.req = r
                                                          /\ mem.request = r
      BY DEF NoPub, JournalInv, Fits
    <2>3. mem.pub.req = r /\ mem.pub.disp = "committed" => Answered(r)
      BY <1>5, <2>2 DEF Cleared, JournalInv, Fits, PublicInv
    <2> QED
      BY <1>1, <2>1, <2>3 DEF Applied
  <1>6. CASE Edited(j)
    <2>1. mem.pub = NoPub
      BY <1>6 DEF Edited, FlowInv
    <2>2. j.tasks = plan
      BY <1>0, <1>6 DEF Edited, Journal
    <2>3. PICK c \in Controls \ Applied(mem) : plan = Append(mem.tasks, c)
      BY <1>6 DEF Edited, TypeInv, PlanInv
    <2>4. plan = ApplyBatch(mem.tasks, c) /\ c \in Change /\ mem.tasks \in Seq(Change)
      BY <1>0, <2>3 DEF ApplyBatch, Applied, Change, Journal
    <2>5. Applied(j) = Applied(mem) \cup {c}
      BY <2>2, <2>3, <2>4, BatchAdds DEF Applied
    <2> QED
      BY <1>1, <2>1, <2>3, <2>5 DEF NoPub
  <1> QED
    BY <1>2, <1>3, <1>4, <1>5, <1>6 DEF Derived
LEMMA DerivedProposed ==
    ASSUME TypeInv, KindInv, RowInv, Proposed(mem), NEW j \in Journal, Derived(j)
    PROVE  Proposed(j)
  <1>0. mem \in Journal /\ mem.tasks \in Seq(Change)
    BY DEF TypeInv, TypeOK, Journal
  <1>1. CASE j.tasks = mem.tasks
    BY <1>1 DEF Proposed
  <1>2. ASSUME NEW c \in Change, j.tasks = ApplyBatch(mem.tasks, c),
               c \in Requests /\ c \notin Applied(mem) =>
                 \E i \in ProposalRows(c) : /\ native[i].by = c /\ native[i].kind = "update"
                                            /\ native[i].base = Len(mem.tasks)
        PROVE  Proposed(j)
    <2>1. CASE c \in Applied(mem)
      BY <1>0, <1>1, <1>2, <2>1, BatchAdds DEF Applied
    <2>2. CASE c \notin Applied(mem)
      <3>1. /\ Len(mem.tasks) \in Nat
            /\ DOMAIN mem.tasks = 1..Len(mem.tasks) /\ DOMAIN j.tasks = 1..(Len(mem.tasks) + 1)
            /\ \A i \in 1..Len(mem.tasks) : j.tasks[i] = mem.tasks[i]
            /\ j.tasks[Len(mem.tasks) + 1] = c
        BY <1>0, <1>2, <2>2, BatchAdds DEF Applied
      <3>2. ASSUME NEW n \in DOMAIN j.tasks, j.tasks[n] \in Requests
            PROVE  \E i \in ProposalRows(j.tasks[n]) :
                      /\ native[i].by = j.tasks[n]
                      /\ native[i].kind = "update" /\ native[i].base = n - 1
        <4>1. CASE n \in 1..Len(mem.tasks)
          BY <3>1, <3>2, <4>1 DEF Proposed
        <4>2. CASE n = Len(mem.tasks) + 1
          <5>1. n - 1 = Len(mem.tasks) /\ j.tasks[n] = c
            BY <3>1, <4>2
          <5> QED
            BY <1>2, <2>2, <3>2, <5>1
        <4> QED
          BY <3>1, <4>1, <4>2
      <3> QED
        BY <3>2 DEF Proposed
    <2> QED
      BY <2>1, <2>2
  <1>3. CASE Decided(j)
    <2>1. PICK i \in ProposalRows(Current) :
             /\ native[i].by = Current
             /\ j.pub.disp = "committed" =>
                  /\ native[i].kind = "update"
                  /\ j.tasks = ApplyBatch(mem.tasks, Current)
                  /\ Current \in Applied(mem) \/ native[i].base = Len(mem.tasks)
             /\ j.pub.disp # "committed" => j.tasks = mem.tasks
      BY <1>3, DecidedTasks, Zenon
    <2>2. Current \in Change
      BY <1>3 DEF Decided, Change
    <2> QED
      BY <1>1, <1>2, <2>1, <2>2
  <1>4. CASE Edited(j)
    <2>1. PICK c \in Controls \ Applied(mem) : plan = Append(mem.tasks, c)
      BY <1>4 DEF Edited, TypeInv, PlanInv
    <2>2. j.tasks = ApplyBatch(mem.tasks, c) /\ c \in Change /\ c \notin Requests
      BY <1>0, <1>4, <2>1 DEF Edited, ApplyBatch, Applied, Change, Journal
    <2> QED
      BY <1>2, <2>2
  <1>5. CASE Same(j) \/ Begun(j) \/ Cleared(j)
    BY <1>0, <1>1, <1>5 DEF Same, Begun, Cleared, Journal
  <1> QED
    BY <1>3, <1>4, <1>5 DEF Derived

LEMMA PublicInvStep ==
    ASSUME TypeInv, FlowInv, KindInv, JournalInv, RowInv, PublicInv, [Next]_vars
    PROVE  PublicInv'
  <1>1. RowStep /\ PlaceStep /\ JournalStep
    BY RowSteps, PlaceSteps, JournalSteps DEF TypeInv
  <1>2. stopped \subseteq stopped'
    BY StoppedGrows
  <1>3. /\ \A i \in DOMAIN native :
             /\ i \in DOMAIN native' /\ native'[i].by = native[i].by
             /\ native'[i].kind = native[i].kind
             /\ native[i].tag # NoReq => native'[i].base = native[i].base
        /\ \A r \in Requests : /\ ProposalRows(r) \subseteq ProposalRows(r)'
                               /\ Answered(r) => Answered(r)'
    BY <1>1, RowsGrow DEF TypeInv
  \* A journal that is as good before the step is as good after it.
  <1>4. ASSUME NEW j, Proposed(j) PROVE Proposed(j)'
    <2>1. ASSUME NEW n \in DOMAIN j.tasks, j.tasks[n] \in Requests
          PROVE  \E i \in ProposalRows(j.tasks[n])' :
                    /\ native'[i].by = j.tasks[n]
                    /\ native'[i].kind = "update" /\ native'[i].base = n - 1
      <3>1. PICK i \in ProposalRows(j.tasks[n]) :
               /\ native[i].by = j.tasks[n]
               /\ native[i].kind = "update" /\ native[i].base = n - 1
        BY <1>4, <2>1 DEF Proposed
      <3>2. i \in DOMAIN native /\ native[i].tag # NoReq
        BY <2>1, <3>1 DEF ProposalRows
      <3> QED
        BY <1>3, <2>1, <3>1, <3>2
    <2> QED
      BY <2>1 DEF Proposed
  <1>5. ASSUME NEW j, Pending(j) PROVE Pending(j)'
    BY <1>2, <1>3, <1>5 DEF Pending
  <1>6. ASSUME UNCHANGED native, NEW j \in Journal, Derived(j)
        PROVE  Proposed(j)' /\ Pending(j)'
    <2>1. Proposed(j)
      BY <1>6, DerivedProposed DEF PublicInv
    <2>2. \A r \in (Requests \cap Applied(j)) \ stopped' :
             Answered(r) \/ (j.pub.req = r /\ j.pub.disp = "committed")
      BY <1>6, DerivedPending
    <2>3. Pending(j)'
      BY <1>3, <2>2 DEF Pending
    <2> QED
      BY <1>4, <2>1, <2>3
  <1>7. \A j \in {mem', disk'} : Proposed(j)' /\ Pending(j)'
    BY <1>1, <1>4, <1>5, <1>6 DEF JournalStep, Wrote, PublicInv
  <1>8. ASSUME pc' \in {"published", "clear"}, mem'.pub.disp = "committed"
        PROVE  \E r \in Requests : r = mem'.pub.req /\ Answered(r)'
    <2>1. mem'.pub = mem.pub /\ (pc \in {"published", "clear"} \/ FinalizeSucceeds)
      BY <1>1, <1>8 DEF PlaceStep
    <2>2. PICK r \in Requests : r = mem.pub.req
      BY <1>8, <2>1 DEF JournalInv, Fits, NoPub
    <2>3. CASE pc \in {"published", "clear"}
      BY <1>3, <1>8, <2>1, <2>2, <2>3 DEF PublicInv
    <2>4. CASE FinalizeSucceeds
      <3>1. mem.pub.row \in ProposalRows(r) /\ mem.pub # NoPub
        BY <1>8, <2>1, <2>2 DEF RowInv, NoPub
      <3>2. native' = [native EXCEPT ![mem.pub.row].disp = "committed"]
        BY <1>8, <2>1, <2>4 DEF FinalizeSucceeds, PublishRow
      <3>3. native[mem.pub.row] \in Row /\ mem.pub.row \in DOMAIN native
        BY <3>1, ElementOfSeq, LenProperties DEF ProposalRows, TypeInv, TypeOK
      <3>4. native'[mem.pub.row].disp = "committed" /\ mem.pub.row \in ProposalRows(r)'
        BY <1>3, <3>1, <3>2, <3>3 DEF Row
      <3> QED
        BY <2>1, <2>2, <3>4 DEF Answered
    <2> QED
      BY <2>1, <2>3, <2>4
  <1> QED
    BY <1>7, <1>8 DEF PublicInv
-----------------------------------------------------------------------------
(* The theorems.                                                             *)

TurnIInv == TypeInv /\ FlowInv /\ KindInv /\ JournalInv

LEMMA TurnInit == Init => TurnIInv
  <1> SUFFICES ASSUME Init PROVE TurnIInv
    OBVIOUS
  <1>1. DOMAIN native = {}
    BY EmptySeq, LenProperties DEF Init
  <1> QED
    BY <1>1, TypeInit
    DEF Init, TurnIInv, FlowInv, EarlyPlaces, KindInv, AssistantRows, JournalInv, Fits, Shows,
        FreshJournal, NoPub, NoMsg, NoTurn

LEMMA TurnStep == TurnIInv /\ [Next]_vars => TurnIInv'
  BY TypeStep, FlowStep, KindStep, JournalInvStep DEF TurnIInv

LEMMA TurnInvariant == Spec => []TurnIInv
  BY TurnInit, TurnStep, PTL DEF Spec

\* While the service runs, what the person said last is on screen: as the receipt of that
\* message or in a native row with its words, whatever writes failed and whatever was
\* restarted. (The row may be another message's that said the same.)
THEOREM MessageStays == Spec => []MessageKept
  <1>1. TurnIInv => MessageKept
    BY DEF TurnIInv, JournalInv, Shows, Worded, MessageKept
  <1> QED
    BY <1>1, TurnInvariant, PTL

\* The steps at which run_turn's task ends.
LEMMA TaskEnds ==
    ASSUME TypeInv, FlowInv, Next, job = "turn", job' = "none", up'
    PROVE  \/ WaitFails \/ StopUnopened \/ StopWhileClosing
           \/ \E w \in Outcomes : FinishTurn(w)
  <1> USE DEF NativeOnly, service, Await, Raise, At, Idle, Down
  <1>1. ~NativeStep
    BY DEF NativeStep, StoreUser, StoreProposal, TagProposal, ProcessDies
  <1>2. CASE JobStep
    BY <1>2 DEF JobStep, OpenSources, Launch, LaunchFails, InferenceEnds, InferenceFails,
                InferenceAborts, RefreshFails, FinalizeFails, Refresh, StageReceipt,
                DropSourceTurn, RecoverStage, StageProposal, ClearReceipt, FinishBoot,
                RefreshStopped, ControlCommit, SourceCheckFails, RecoverNothing,
                FinalizeSucceeds, FinishRecover
  <1>3. CASE Outside
    BY <1>3 DEF Outside, SendRetry, SendConfigFails, Send, ReadSource, SaveMeta, OthersRefresh,
                ControlRetry, ControlPlan, Stop, Recover, Start, Shutdown, Crash, FlowInv
  <1> QED
    BY <1>1, <1>2, <1>3 DEF Next

\* A turn whose source bridge was opened, and that ends with its outcome unknown, is never
\* shown as a quiet success. (Before the bridge is open a stop, or the failed clean-up of a
\* check-in, does end the turn without an error.)
THEOREM UnresolvedShown == Spec => UnresolvedIsShown
  <1>1. TurnIInv /\ [Next]_vars =>
          [job = "turn" /\ pc \notin {"queued", "opening"} /\ up' /\ job' = "none" /\ mem'.turn # NoTurn
             => error']_vars
    <2> SUFFICES ASSUME TurnIInv, Next, job = "turn", pc \notin {"queued", "opening"},
                        up', job' = "none", mem'.turn # NoTurn
                 PROVE  error'
      BY DEF vars
    <2>1. StopWhileClosing \/ \E w \in Outcomes : FinishTurn(w)
      BY TaskEnds DEF TurnIInv, WaitFails, StopUnopened, At
    <2>2. mem'.turn = mem.turn /\ error' = error /\ pc \in {"stopping", "closing"}
      BY <2>1 DEF At, StopWhileClosing, FinishTurn, InPlace, TurnIInv, TypeInv, TypeOK,
                  Journal
    <2> QED
      BY <2>2 DEF TurnIInv, FlowInv
  <1> QED
    BY <1>1, TurnInvariant, PTL DEF Spec, UnresolvedIsShown

HistoryInv == TurnIInv /\ RowInv /\ PublicInv

LEMMA HistoryInit == Init => HistoryInv
  <1> SUFFICES ASSUME Init PROVE RowInv /\ PublicInv
    BY TurnInit DEF HistoryInv
  <1>1. DOMAIN native = {}
    BY EmptySeq, LenProperties DEF Init
  <1> QED
    BY <1>1 DEF Init, RowInv, AssistantRows, PublicInv, Pending, Proposed, Applied, Elems,
                FreshJournal

LEMMA HistoryStep == HistoryInv /\ OneWriter /\ [Next]_vars => HistoryInv'
  BY TurnStep, RowInvStep, PublicInvStep DEF HistoryInv, TurnIInv

LEMMA HistoryInvariant == Spec /\ []OneWriter => []HistoryInv
  BY HistoryInit, HistoryStep, PTL DEF Spec

\* When no native process outlives a killed service, no two of them ever write at once.
THEOREM OneAtATime == ASSUME NoOrphans PROVE Spec => []OneWriter
  <1>1. Init => TurnIInv /\ ProcessInv
    BY TurnInit DEF Init, ProcessInv, Writing
  <1>2. TurnIInv /\ ProcessInv /\ [Next]_vars => (TurnIInv /\ ProcessInv)'
    BY TurnStep, ProcessStep DEF TurnIInv
  <1>3. ProcessInv => OneWriter
    BY DEF ProcessInv, OneWriter
  <1> QED
    BY <1>1, <1>2, <1>3, PTL DEF Spec

\* When no native process outlives a killed service, a durable change that nobody stopped
\* is public or its receipt is still saved, so that recovery can publish it.
THEOREM Recoverability == ASSUME NoOrphans PROVE Spec => []UnstoppedIsRecoverable
  <1>1. HistoryInv => UnstoppedIsRecoverable
    BY DEF HistoryInv, PublicInv, Pending, UnstoppedIsRecoverable
  <1> QED
    BY <1>1, HistoryInvariant, OneAtATime, PTL

\* When no native process outlives a killed service, every batch in the file was applied to
\* the very list its model was shown, and comes from the model's answer to that request.
THEOREM BatchAsProposed == ASSUME NoOrphans PROVE Spec => []AppliedAsProposed
  <1>1. HistoryInv => AppliedAsProposed
    BY DEF HistoryInv, PublicInv, Proposed, AppliedAsProposed
  <1> QED
    BY <1>1, HistoryInvariant, OneAtATime, PTL

-----------------------------------------------------------------------------
(* Requests whose process is started once.                                   *)

Ran == {r \in Requests : proc[r].phase # "none"}

\* An accepted message is not one whose process has run: what a step that accepts a
\* message must satisfy.
Fresh == \A r \in Requests, w \in Outcomes : Send(r, w) => r \notin Ran

\* Every accepted id is remembered: a session sends no more ids than are kept.
Remembered == IsFiniteSet(Requests) /\ Cardinality(Requests) <= AcceptedCap

\* While every accepted id is remembered, those that ran are in both journals.
KnownInv ==
    /\ NoRepeats(mem.accepted) /\ NoRepeats(disk.accepted)
    /\ up => Accepted(disk) \subseteq Accepted(mem)
    /\ Ran \subseteq Accepted(disk)
    /\ pc \in {"queued", "opening"} => Current \in Accepted(disk)

\* Whose process has started, by where the turn is.
TurnRuns ==
    /\ pc \in {"queued", "opening"} => Current \notin Ran
    /\ pc \in EarlyPlaces \ {"queued", "opening"} => Current \in Ran

\* The rows of a request, by how far its process is.
RunRows ==
    \A r \in Requests :
        /\ proc[r].phase \in {"none", "running"} => UserRows(r) = {}
        /\ proc[r].phase \in {"none"} \cup Writing => ProposalRows(r) = {}
        /\ \A i, k \in UserRows(r) : i = k
        /\ \A i, k \in ProposalRows(r) : i = k

OnceInv ==
    /\ Requests \cap Applied(disk) \subseteq Ran
    /\ TurnRuns /\ RunRows

\* A turn that was given source data is marked in every journal, and has no change.
SourceInv ==
    /\ sourced \subseteq Ran \ Applied(disk)
    /\ pc \in {"queued", "opening", "infer"} => Current \notin Applied(disk)
    /\ \A r \in sourced, j \in {mem, disk} : j.turn.req = r => j.turn.source

\* What the proofs of this module start from.
BaseInv == IInv /\ TurnIInv

LEMMA BaseStep == BaseInv /\ [Next]_vars => BaseInv'
  BY InvStep, TurnStep DEF BaseInv

LEMMA BaseInit == Init => BaseInv
  BY InvInit, TurnInit DEF BaseInv

-----------------------------------------------------------------------------
(* The accepted ids.                                                         *)

LEMMA NoRepeatsBound ==
    ASSUME NEW S, IsFiniteSet(S), NEW s \in Seq(S), NoRepeats(s)
    PROVE  Len(s) <= Cardinality(S)
  <1>1. Len(s) \in Nat /\ DOMAIN s = 1..Len(s) /\ s \in [1..Len(s) -> S]
    BY LenProperties
  <1>2. s \in Injection(1..Len(s), S)
    BY <1>1 DEF NoRepeats, Injection, IsInjective
  <1>3. Cardinality(1..Len(s)) <= Cardinality(S)
    BY <1>2, FS_Injection
  <1>4. Cardinality(1..Len(s)) = Len(s)
    BY <1>1, FS_Interval
  <1> QED
    BY <1>3, <1>4

\* A remembered id is never pushed out of the window.
LEMMA RecentKeeps ==
    ASSUME Remembered, NEW s \in Seq(Requests), NoRepeats(s),
           NEW r \in Requests, r \notin Elems(s)
    PROVE  LET t == Recent(Append(s, r))
           IN  NoRepeats(t) /\ Elems(t) = Elems(s) \cup {r}
  <1> DEFINE t == Append(s, r)
  <1>1. /\ t \in Seq(Requests) /\ Len(s) \in Nat
        /\ DOMAIN s = 1..Len(s) /\ DOMAIN t = 1..(Len(s) + 1)
        /\ \A i \in 1..Len(s) : t[i] = s[i]
        /\ t[Len(s) + 1] = r
    BY AppendProperties, AppendRows
  <1> HIDE DEF t
  <1>2. \A i \in 1..Len(s) : s[i] # r
    BY <1>1 DEF Elems
  <1>3. NoRepeats(t)
    <2> SUFFICES ASSUME NEW i \in 1..(Len(s) + 1), NEW k \in 1..(Len(s) + 1), t[i] = t[k]
                 PROVE  i = k
      BY <1>1 DEF NoRepeats
    <2> QED
      BY <1>1, <1>2 DEF NoRepeats
  <1>4. Elems(t) = Elems(s) \cup {r}
    <2>1. ASSUME NEW x \in Elems(t) PROVE x \in Elems(s) \cup {r}
      <3>1. PICK i \in 1..(Len(s) + 1) : x = t[i]
        BY <1>1, <2>1 DEF Elems
      <3> QED
        BY <1>1, <3>1 DEF Elems
    <2>2. ASSUME NEW x \in Elems(s) \cup {r} PROVE \E i \in DOMAIN t : x = t[i]
      <3>1. CASE x = r
        BY <1>1, <3>1
      <3>2. CASE x \in Elems(s)
        <4>1. PICK i \in 1..Len(s) : x = s[i]
          BY <1>1, <3>2 DEF Elems
        <4> QED
          BY <1>1, <4>1
      <3> QED
        BY <2>2, <3>1, <3>2
    <2> QED
      BY <2>1, <2>2 DEF Elems
  <1>5. Len(t) <= AcceptedCap
    <2>1. Len(t) <= Cardinality(Requests)
      BY <1>1, <1>3, NoRepeatsBound DEF Remembered
    <2>2. Len(t) \in Nat /\ Cardinality(Requests) \in Nat
      BY <1>1, LenProperties, FS_CardinalityType DEF Remembered
    <2> QED
      BY <2>1, <2>2 DEF Remembered
  <1>6. Recent(t) = t
    BY <1>5 DEF Recent
  <1> QED
    BY <1>3, <1>4, <1>6 DEF t

\* A journal knows every id that memory knows, and at most one more.
LEMMA DerivedAccepted ==
    ASSUME Remembered, TypeInv, NoRepeats(mem.accepted), NEW j \in Journal, Derived(j)
    PROVE  /\ NoRepeats(j.accepted) /\ Accepted(mem) \subseteq Accepted(j)
           /\ ~Begun(j) => j.accepted = mem.accepted
           /\ \A r : Begun(j) /\ r = j.request => Accepted(j) = Accepted(mem) \cup {r}
  <1>0. mem \in Journal /\ mem.accepted \in Seq(Requests)
    BY DEF TypeInv, TypeOK, Journal
  <1>1. CASE Begun(j)
    <2>1. PICK r \in Requests \ Accepted(mem) :
            j.request = r /\ j.accepted = Recent(Append(mem.accepted, r))
      BY <1>1 DEF Begun
    <2> QED
      BY <1>0, <1>1, <2>1, RecentKeeps DEF Accepted
  <1>2. CASE Same(j) \/ Decided(j) \/ Cleared(j) \/ Edited(j)
    <2>1. j.accepted = mem.accepted
      BY <1>0, <1>2 DEF Same, Decided, Staged, Cleared, Edited, Journal
    <2> QED
      BY <2>1, <1>1 DEF Accepted
  <1> QED
    BY <1>1, <1>2 DEF Derived

\* Only a start happens to a service that is down.
LEMMA DownSteps ==
    ASSUME [Next]_vars, ~up, FlowInv
    PROVE  (UNCHANGED <<mem, disk>> /\ ~up') \/ (UNCHANGED disk /\ mem' = disk)
  <1> USE DEF At, Idle, LockFree, NativeOnly, service, FlowInv
  <1>1. CASE NativeStep
    BY <1>1 DEF NativeStep, StoreUser, StoreProposal, TagProposal, ProcessDies
  <1>2. ~JobStep
    BY DEF JobStep, OpenSources, Launch, WaitFails, LaunchFails, InferenceEnds, InferenceFails,
                InferenceAborts, RefreshFails, FinalizeFails, Refresh, StageReceipt,
                DropSourceTurn, RecoverStage, ClearReceipt, FinishTurn, FinishBoot,
                RefreshStopped, ControlCommit, SourceCheckFails, RecoverNothing,
                FinalizeSucceeds, FinishRecover
  <1>3. CASE Outside
    BY <1>3 DEF Outside, SendRetry, SendConfigFails, Send, ReadSource, SaveMeta, OthersRefresh,
                ControlRetry, ControlPlan, Stop, StopUnopened, StopWhileClosing, Recover, Start,
                Shutdown, Crash
  <1> QED
    BY <1>1, <1>2, <1>3 DEF Next, vars
LEMMA AcceptedStep ==
    ASSUME Remembered, BaseInv, KnownInv, [Next]_vars
    PROVE  /\ NoRepeats(mem'.accepted) /\ NoRepeats(disk'.accepted)
           /\ up' => Accepted(disk') \subseteq Accepted(mem')
           /\ Accepted(disk) \subseteq Accepted(disk')
  <1>0. TypeInv /\ FlowInv
    BY DEF BaseInv, TurnIInv
  <1>1. CASE ~up
    BY <1>0, <1>1, DownSteps DEF KnownInv
  <1>2. ASSUME up, NEW j \in Journal, Derived(j), Wrote(j)
        PROVE  /\ NoRepeats(mem'.accepted) /\ NoRepeats(disk'.accepted)
               /\ up' => Accepted(disk') \subseteq Accepted(mem')
               /\ Accepted(disk) \subseteq Accepted(disk')
    <2>1. /\ NoRepeats(j.accepted) /\ Accepted(mem) \subseteq Accepted(j)
          /\ ~Begun(j) => Accepted(j) = Accepted(mem)
      BY <1>0, <1>2, DerivedAccepted DEF KnownInv, Accepted
    <2>2. Begun(j) => job = "none"
      BY DEF Begun
    <2> QED
      BY <1>2, <2>1, <2>2 DEF Wrote, CommitOf, KnownInv
  <1>3. CASE up /\ (UNCHANGED <<mem, disk>> \/ (UNCHANGED disk /\ mem' = disk))
    BY <1>3 DEF KnownInv
  <1> QED
    BY <1>0, <1>1, <1>2, <1>3, JournalSteps DEF JournalStep

\* A process that has started stays started.
LEMMA RanSteps ==
    ASSUME TypeOK, RowStep
    PROVE  /\ Ran \subseteq Ran'
           /\ Launch /\ Current \in Requests => Ran' = Ran \cup {Current}
           /\ ~Launch => Ran' = Ran
  <1>1. CASE Launch
    <2>1. \A r \in Requests : proc'[r] = IF r = Current THEN [phase |-> "running",
                  base |-> Revision(mem), row |-> 0] ELSE proc[r]
      BY <1>1 DEF Launch, TypeOK
    <2> QED
      BY <1>1, <2>1 DEF Ran
  <1>2. CASE ~Launch
    <2>1. ASSUME NEW r \in Requests PROVE proc[r].phase = "none" <=> proc'[r].phase = "none"
      BY <1>2, ProcSteps DEF Alive
    <2> QED
      BY <1>2, <2>1 DEF Ran
  <1> QED
    BY <1>1, <1>2

\* While every accepted id is remembered, none of them is accepted again.
LEMMA KnownFresh ==
    ASSUME KnownInv
    PROVE  Fresh
  BY DEF Fresh, KnownInv, Send, Idle

LEMMA KnownStep ==
    ASSUME Remembered, BaseInv, KnownInv, [Next]_vars
    PROVE  KnownInv'
  <1>0. TypeInv /\ FlowInv /\ RowStep /\ PlaceStep
    BY RowSteps, PlaceSteps DEF BaseInv, TurnIInv, TypeInv
  <1>1. /\ NoRepeats(mem'.accepted) /\ NoRepeats(disk'.accepted)
        /\ up' => Accepted(disk') \subseteq Accepted(mem')
        /\ Accepted(disk) \subseteq Accepted(disk')
    BY AcceptedStep
  <1>2. Launch => Current \in Accepted(disk) /\ Current \in Requests
    BY <1>0 DEF Launch, At, KnownInv, TypeInv, TurnInv, Current
  <1>3. Ran' \subseteq Accepted(disk')
    BY <1>0, <1>1, <1>2, RanSteps DEF KnownInv, TypeInv
  <1>4. ASSUME pc' \in {"queued", "opening"} PROVE mem'.turn.req \in Accepted(disk')
    <2>1. ASSUME NEW r \in Requests, Send(r, "ok") PROVE mem'.turn.req \in Accepted(disk')
      <3> DEFINE j == [mem EXCEPT
             !.pending = TRUE, !.request = r, !.msg = [req |-> r, after |-> seen],
             !.turn = [req |-> r, base |-> Revision(mem), source |-> FALSE],
             !.accepted = Recent(Append(mem.accepted, r))]
      <3>1. mem' = j /\ disk' = j /\ r \notin Accepted(mem)
        BY <2>1 DEF Send, InPlace, Write
      <3>2. j.turn.req = r /\ j.accepted = Recent(Append(mem.accepted, r))
        BY <1>0 DEF TypeInv, TypeOK, Journal
      <3>3. mem.accepted \in Seq(Requests) /\ NoRepeats(mem.accepted)
        BY <1>0 DEF TypeInv, TypeOK, Journal, KnownInv
      <3>4. r \in Accepted(j)
        BY <3>1, <3>2, <3>3, RecentKeeps DEF Accepted
      <3> QED
        BY <3>1, <3>2, <3>4
    <2>2. CASE pc \in {"queued", "opening"} /\ mem'.turn.req = Current
      BY <1>1, <2>2 DEF KnownInv
    <2> QED
      BY <1>0, <1>4, <2>1, <2>2 DEF PlaceStep
  <1> QED
    BY <1>1, <1>3, <1>4 DEF KnownInv, Current

LEMMA TurnRunsStep ==
    ASSUME Fresh, BaseInv, OnceInv, [Next]_vars
    PROVE  TurnRuns'
  <1>0. TypeInv /\ FlowInv /\ RowStep /\ PlaceStep
    BY RowSteps, PlaceSteps DEF BaseInv, TurnIInv, TypeInv
  <1>1. Launch => pc = "opening" /\ pc' = "infer" /\ Current \in Requests
    BY <1>0 DEF Launch, Await, At, TypeInv, TurnInv, Current
  <1>2. ASSUME pc' \in {"queued", "opening"} PROVE mem'.turn.req \notin Ran'
    <2>1. ASSUME NEW r \in Requests, Send(r, "ok") PROVE mem'.turn.req \notin Ran'
      <3>1. mem'.turn.req = r /\ UNCHANGED proc
        BY <1>0, <2>1 DEF Send, InPlace, TypeInv, TypeOK, Journal
      <3>2. r \notin Ran
        BY <2>1 DEF Fresh, Outcomes
      <3> QED
        BY <3>1, <3>2 DEF Ran
    <2>2. CASE pc \in {"queued", "opening"} /\ mem'.turn.req = Current /\ ~Launch
      BY <1>0, <2>2, RanSteps DEF OnceInv, TurnRuns, TypeInv
    <2> QED
      BY <1>0, <1>2, <2>1, <2>2 DEF PlaceStep
  <1>3. ASSUME pc' \in EarlyPlaces \ {"queued", "opening"} PROVE mem'.turn.req \in Ran'
    <2>1. mem'.turn.req = Current /\ (Launch \/ pc \in EarlyPlaces \ {"queued", "opening"})
      BY <1>0, <1>3 DEF PlaceStep, EarlyPlaces
    <2> QED
      BY <1>0, <1>1, <2>1, RanSteps DEF OnceInv, TurnRuns, TypeInv
  <1> QED
    BY <1>2, <1>3 DEF TurnRuns, Current

\* A change can only come from a turn whose process has run.
LEMMA DerivedApplied ==
    ASSUME BaseInv, OnceInv, NEW j \in Journal, Derived(j)
    PROVE  /\ Decided(j) => Current \in Ran /\ Applied(j) \subseteq Applied(mem) \cup {Current}
           /\ ~Decided(j) => Requests \cap Applied(j) \subseteq Applied(mem)
           /\ Decided(j) /\ Current \notin Applied(mem) /\ Current \in Applied(j)
                => ~mem.turn.source
  <1>0. /\ TypeInv /\ KindInv /\ mem \in Journal /\ mem.tasks \in Seq(Change)
        /\ proc \in [Requests -> Process]
    BY DEF BaseInv, TurnIInv, TypeInv, TypeOK, Journal
  <1>1. CASE Decided(j)
    <2>1. Current \in Requests /\ Current \in Change
      BY <1>1 DEF Decided, Change
    <2>2. Current \in Ran
      <3>1. CASE pc = "stageReceipt"
        BY <3>1 DEF OnceInv, TurnRuns, EarlyPlaces
      <3>2. CASE UserRows(Current) # {}
        BY <2>1, <3>2 DEF OnceInv, RunRows, Ran
      <3> QED
        BY <1>1, <3>1, <3>2 DEF Decided
    <2>3. PICK i : j = Staged(mem, i) /\ native[i].kind \in Kinds
      <3>1. CASE pc = "stageReceipt" /\ j = Staged(mem, proc[Current].row)
        BY <1>0, <3>1 DEF KindInv
      <3>2. ASSUME NEW i, ProposalRows(Current) = {i}, j = Staged(mem, i)
            PROVE  native[i].kind \in Kinds
        BY <1>0, <3>2 DEF KindInv, ProposalRows, AssistantRows
      <3> QED
        BY <1>1, <3>1, <3>2 DEF Decided
    <2>4. j.tasks = IF Disposition(mem, i) = "committed" THEN ApplyBatch(mem.tasks, Current)
                    ELSE mem.tasks
      BY <1>0, <2>3 DEF Staged, Journal, Current
    <2>5. Disposition(mem, i) = "committed" => ~mem.turn.source
      BY <2>3, CommittedUpdate
    <2>6. Applied(j) \subseteq Applied(mem) \cup {Current}
      BY <1>0, <2>1, <2>4, BatchAdds DEF Applied
    <2> QED
      BY <1>1, <2>2, <2>4, <2>5, <2>6 DEF Applied
  <1>2. CASE Edited(j)
    <2>1. PICK c \in Controls \ Applied(mem) : plan = Append(mem.tasks, c)
      BY <1>0, <1>2 DEF Edited, TypeInv, PlanInv
    <2>2. j.tasks = ApplyBatch(mem.tasks, c) /\ c \in Change
      BY <1>0, <1>2, <2>1 DEF Edited, ApplyBatch, Applied, Change, Journal
    <2>3. Applied(j) \subseteq Applied(mem) \cup {c} /\ c \notin Requests
      BY <1>0, <2>2, BatchAdds DEF Applied
    <2>4. ~Decided(j)
      BY <1>0, <1>2 DEF Edited, Decided, TypeInv, PlanInv
    <2> QED
      BY <2>3, <2>4
  <1>3. CASE (Same(j) \/ Begun(j) \/ Cleared(j)) /\ ~Decided(j)
    <2>1. j.tasks = mem.tasks
      BY <1>0, <1>3 DEF Same, Begun, Cleared, Journal
    <2> QED
      BY <1>3, <2>1 DEF Applied
  <1> QED
    BY <1>1, <1>2, <1>3 DEF Derived

\* Every request with a change has run.
LEMMA AppliedRanStep ==
    ASSUME BaseInv, OnceInv, [Next]_vars
    PROVE  Requests \cap Applied(disk') \subseteq Ran'
  <1>0. TypeInv /\ FlowInv /\ RowStep /\ Applied(mem) \subseteq Applied(disk)
    BY RowSteps DEF BaseInv, TurnIInv, TypeInv, IInv, SaidInv
  <1>1. Ran \subseteq Ran'
    BY <1>0, RanSteps DEF TypeInv
  <1>2. ASSUME NEW j \in Journal, Derived(j) PROVE Requests \cap Applied(j) \subseteq Ran
    BY <1>0, <1>2, DerivedApplied DEF OnceInv
  <1> QED
    BY <1>0, <1>1, <1>2, JournalSteps DEF JournalStep, Wrote, OnceInv

LEMMA RunRowsStep ==
    ASSUME BaseInv, OnceInv, [Next]_vars
    PROVE  RunRows'
  <1>0. TypeInv /\ RowStep /\ proc \in [Requests -> Process]
    BY RowSteps DEF BaseInv, TurnIInv, TypeInv, TypeOK
  <1>1. \A i \in DOMAIN native : native[i] \in Row
    BY <1>0, ElementOfSeq, LenProperties DEF TypeInv, TypeOK
  <1> SUFFICES ASSUME NEW r \in Requests
               PROVE  /\ proc'[r].phase \in {"none", "running"} => UserRows(r)' = {}
                      /\ proc'[r].phase \in {"none"} \cup Writing => ProposalRows(r)' = {}
                      /\ \A i, k \in UserRows(r)' : i = k
                      /\ \A i, k \in ProposalRows(r)' : i = k
    BY DEF RunRows
  <1>2. /\ proc[r].phase \in {"none", "running"} => UserRows(r) = {}
        /\ proc[r].phase \in {"none"} \cup Writing => ProposalRows(r) = {}
        /\ \A i, k \in UserRows(r) : i = k
        /\ \A i, k \in ProposalRows(r) : i = k
    BY DEF OnceInv, RunRows
  <1>3. CASE UNCHANGED native /\ ~Launch
    <2>1. UserRows(r)' = UserRows(r) /\ ProposalRows(r)' = ProposalRows(r)
      BY <1>3 DEF UserRows, ProposalRows
    <2>2. \/ proc'[r].phase = proc[r].phase \/ proc'[r].phase = "gone"
          \/ proc[r].phase = "answered" /\ proc'[r].phase = "tagged"
          \/ proc[r].phase \in {"running", "heard"} /\ proc'[r].phase \in {"heard", "answered"}
      BY <1>0, <1>3, ProcSteps DEF TypeInv
    <2> QED
      BY <1>2, <2>1, <2>2 DEF Writing
  <1>4. CASE Launch
    <2>1. UserRows(r)' = UserRows(r) /\ ProposalRows(r)' = ProposalRows(r)
      BY <1>4 DEF Launch, UserRows, ProposalRows
    <2>2. \/ proc'[r].phase = proc[r].phase
          \/ proc[r].phase = "none" /\ proc'[r].phase = "running"
      BY <1>0, <1>4 DEF Launch, At, OnceInv, TurnRuns, Ran
    <2> QED
      BY <1>2, <2>1, <2>2 DEF Writing
  <1>5. ASSUME NEW q \in Requests, StoreUser(q) PROVE
                      /\ proc'[r].phase \in {"none", "running"} => UserRows(r)' = {}
                      /\ proc'[r].phase \in {"none"} \cup Writing => ProposalRows(r)' = {}
                      /\ \A i, k \in UserRows(r)' : i = k
                      /\ \A i, k \in ProposalRows(r)' : i = k
    <2> DEFINE row == [role |-> "user", by |-> q, tag |-> q,
                       base |-> proc[q].base, kind |-> "none", disp |-> "none"]
    <2>1. native' = Append(native, row) /\ row.role = "user" /\ row.by = q
      BY <1>5 DEF StoreUser
    <2> HIDE DEF row
    <2>2. /\ Len(native) \in Nat /\ DOMAIN native = 1..Len(native)
          /\ DOMAIN native' = 1..(Len(native) + 1)
          /\ \A i \in 1..Len(native) : native'[i] = native[i]
          /\ native'[Len(native) + 1] = row
      BY <1>0, <2>1, AppendRows DEF TypeInv, TypeOK
    <2>3. ProposalRows(r)' = ProposalRows(r)
      BY <2>1, <2>2 DEF ProposalRows
    <2>4. UserRows(r)' = IF r = q THEN UserRows(r) \cup {Len(native) + 1} ELSE UserRows(r)
      BY <2>1, <2>2 DEF UserRows
    <2>5. /\ r # q => proc'[r] = proc[r]
          /\ r = q => proc[r].phase = "running" /\ proc'[r].phase = "heard"
      BY <1>0, <1>5 DEF StoreUser, Advance, Process
    <2> QED
      BY <1>2, <2>3, <2>4, <2>5 DEF Writing
  <1>6. ASSUME NEW q \in Requests, NEW kind \in Kinds, StoreProposal(q, kind) PROVE
                      /\ proc'[r].phase \in {"none", "running"} => UserRows(r)' = {}
                      /\ proc'[r].phase \in {"none"} \cup Writing => ProposalRows(r)' = {}
                      /\ \A i, k \in UserRows(r)' : i = k
                      /\ \A i, k \in ProposalRows(r)' : i = k
    <2> DEFINE row == [role |-> "assistant", by |-> q, tag |-> NoReq,
                       base |-> 0, kind |-> kind, disp |-> "none"]
    <2>1. native' = Append(native, row) /\ row.role = "assistant" /\ row.tag = NoReq
      BY <1>6 DEF StoreProposal
    <2> HIDE DEF row
    <2>2. /\ Len(native) \in Nat /\ DOMAIN native = 1..Len(native)
          /\ DOMAIN native' = 1..(Len(native) + 1)
          /\ \A i \in 1..Len(native) : native'[i] = native[i]
          /\ native'[Len(native) + 1] = row
      BY <1>0, <2>1, AppendRows DEF TypeInv, TypeOK
    <2>3. UserRows(r)' = UserRows(r) /\ ProposalRows(r)' = ProposalRows(r)
      BY <2>1, <2>2 DEF UserRows, ProposalRows
    <2>4. \/ proc'[r] = proc[r]
          \/ proc[r].phase = "heard" /\ proc'[r].phase = "answered"
      BY <1>0, <1>6 DEF StoreProposal, Advance, Process
    <2> QED
      BY <1>2, <2>3, <2>4 DEF Writing
  <1>7. ASSUME NEW q \in Requests, TagProposal(q) PROVE
                      /\ proc'[r].phase \in {"none", "running"} => UserRows(r)' = {}
                      /\ proc'[r].phase \in {"none"} \cup Writing => ProposalRows(r)' = {}
                      /\ \A i, k \in UserRows(r)' : i = k
                      /\ \A i, k \in ProposalRows(r)' : i = k
    <2>1. PICK l \in AssistantRows :
            /\ native' = [native EXCEPT ![l].tag = q, ![l].base = proc[q].base,
                                       ![l].disp = "none"]
            /\ proc' = [proc EXCEPT ![q].phase = "tagged", ![q].row = l]
      BY <1>7 DEF TagProposal
    <2>2. /\ DOMAIN native' = DOMAIN native
          /\ \A i \in DOMAIN native :
               /\ native'[i].role = native[i].role /\ native'[i].by = native[i].by
               /\ native'[i].tag = IF i = l THEN q ELSE native[i].tag
      BY <1>1, <2>1 DEF AssistantRows, Row
    <2>3. UserRows(r)' = UserRows(r)
      BY <2>2 DEF UserRows
    <2>4. /\ r # q => ProposalRows(r)' \subseteq ProposalRows(r)
          /\ r = q => ProposalRows(r)' \subseteq ProposalRows(r) \cup {l}
      BY <2>2 DEF ProposalRows
    <2>5. /\ r # q => proc'[r] = proc[r]
          /\ r = q => proc[r].phase = "answered" /\ proc'[r].phase = "tagged"
      BY <1>0, <1>7, <2>1 DEF TagProposal, Process
    <2> QED
      BY <1>2, <2>3, <2>4, <2>5 DEF Writing
  <1>8. CASE Publishes
    <2>1. /\ DOMAIN native' = DOMAIN native /\ UNCHANGED proc
          /\ \A i \in DOMAIN native :
               /\ native'[i].role = native[i].role /\ native'[i].by = native[i].by
               /\ native'[i].tag = native[i].tag
      BY <1>1, <1>8 DEF Publishes, PublishRow, Row
    <2>2. UserRows(r)' = UserRows(r) /\ ProposalRows(r)' = ProposalRows(r)
      BY <2>1 DEF UserRows, ProposalRows
    <2> QED
      BY <1>2, <2>1, <2>2
  <1> QED
    BY <1>0, <1>3, <1>4, <1>5, <1>6, <1>7, <1>8 DEF RowStep, Launch, Publishes, PublishRow

LEMMA OnceStep ==
    ASSUME Fresh, BaseInv, OnceInv, [Next]_vars
    PROVE  OnceInv'
  BY TurnRunsStep, AppliedRanStep, RunRowsStep DEF OnceInv
-----------------------------------------------------------------------------
(* A turn that was given source data.                                        *)

LEMMA SourcedSteps ==
    ASSUME [Next]_vars
    PROVE  \/ UNCHANGED sourced
           \/ /\ ReadSource("ok") /\ sourced' = sourced \cup {Current}
              /\ mem' = [mem EXCEPT !.turn.source = TRUE] /\ disk' = mem'
  <1> USE DEF history, service, Down, NativeOnly
  <1>1. CASE NativeStep
    BY <1>1 DEF NativeStep, StoreUser, StoreProposal, TagProposal, ProcessDies
  <1>2. CASE JobStep
    BY <1>2 DEF JobStep, OpenSources, Launch, WaitFails, LaunchFails, InferenceEnds,
                InferenceFails, InferenceAborts, RefreshFails, FinalizeFails, Refresh, StageReceipt,
                DropSourceTurn, RecoverStage, StageProposal, ClearReceipt, FinishTurn, FinishBoot,
                RefreshStopped, ControlCommit, SourceCheckFails, RecoverNothing,
                FinalizeSucceeds, FinishRecover
  <1>3. ASSUME NEW w \in Outcomes, ReadSource(w)
        PROVE  \/ UNCHANGED sourced
               \/ /\ ReadSource("ok") /\ sourced' = sourced \cup {Current}
                  /\ mem' = [mem EXCEPT !.turn.source = TRUE] /\ disk' = mem'
    BY <1>3 DEF ReadSource, InPlace, Write
  <1>4. CASE Outside
    BY <1>3, <1>4 DEF Outside, SendRetry, SendConfigFails, Send, SaveMeta, OthersRefresh,
                ControlRetry, ControlPlan, Stop, StopUnopened, StopWhileClosing, Recover, Start,
                Shutdown, Crash
  <1> QED
    BY <1>1, <1>2, <1>4 DEF Next, vars

\* The mark of a turn, in a journal.
Marks(j, s) == \A r \in s : j.turn.req = r => j.turn.source

LEMMA DerivedMarks ==
    ASSUME Fresh, BaseInv, OnceInv, SourceInv, up, NEW j \in Journal, Derived(j)
    PROVE  Marks(j, sourced)
  <1>0. mem \in Journal /\ Marks(mem, sourced) /\ KindInv
    BY DEF BaseInv, TurnIInv, TypeInv, TypeOK, SourceInv, Marks
  <1>1. CASE Same(j)
    BY <1>0, <1>1 DEF Same, Marks, Journal, Turn
  <1>2. CASE Begun(j)
    <2>1. PICK r \in Requests \ Accepted(mem) :
             /\ \E w \in Outcomes : Send(r, w)
             /\ j.turn = [req |-> r, base |-> Revision(mem), source |-> FALSE]
      BY <1>2 DEF Begun
    <2>2. r \notin sourced
      BY <2>1 DEF SourceInv, Fresh
    <2> QED
      BY <2>1, <2>2 DEF Marks
  <1>3. CASE Decided(j)
    <2>1. j.turn = mem.turn
      BY <1>0, <1>3 DEF Decided, Staged, Journal
    <2> QED
      BY <1>0, <2>1 DEF Marks
  <1>4. CASE Cleared(j)
    <2>1. j.turn = NoTurn
      BY <1>0, <1>4 DEF Cleared, Journal
    <2> QED
      BY <2>1 DEF Marks, NoTurn, SourceInv, Ran
  <1>5. CASE Edited(j)
    <2>1. j.turn = mem.turn
      BY <1>0, <1>5 DEF Edited, Journal
    <2> QED
      BY <1>0, <2>1 DEF Marks
  <1> QED
    BY <1>1, <1>2, <1>3, <1>4, <1>5 DEF Derived

LEMMA MarksStep ==
    ASSUME Fresh, BaseInv, OnceInv, SourceInv, [Next]_vars
    PROVE  Marks(mem', sourced') /\ Marks(disk', sourced')
  <1>0. TypeInv /\ FlowInv /\ mem \in Journal /\ Marks(mem, sourced) /\ Marks(disk, sourced)
    BY DEF BaseInv, TurnIInv, TypeInv, TypeOK, SourceInv, Marks
  <1>1. CASE UNCHANGED sourced
    <2>1. Marks(mem', sourced) /\ Marks(disk', sourced)
      <3>1. CASE up
        BY <1>0, <3>1, JournalSteps, DerivedMarks DEF JournalStep, Wrote
      <3>2. CASE ~up
        BY <1>0, <3>2, DownSteps
      <3> QED
        BY <3>1, <3>2
    <2> QED
      BY <1>1, <2>1
  <1>2. CASE /\ ReadSource("ok") /\ sourced' = sourced \cup {Current}
             /\ mem' = [mem EXCEPT !.turn.source = TRUE] /\ disk' = mem'
    BY <1>0, <1>2 DEF Marks, Journal, Turn
  <1> QED
    BY <1>1, <1>2, SourcedSteps

LEMMA SourceStep ==
    ASSUME Fresh, BaseInv, OnceInv, SourceInv, [Next]_vars
    PROVE  SourceInv'
  <1>0. /\ TypeInv /\ FlowInv /\ RowStep /\ PlaceStep /\ mem \in Journal
        /\ Applied(mem) \subseteq Applied(disk) /\ sourced \subseteq Requests
    BY RowSteps, PlaceSteps DEF BaseInv, TurnIInv, TypeInv, TypeOK, IInv, SaidInv
  <1>1. Ran \subseteq Ran'
    BY <1>0, RanSteps DEF TypeInv
  \* What the file may gain in this step.
  <1>2. \/ Requests \cap Applied(disk') \subseteq Applied(disk)
        \/ /\ pc \in {"stageReceipt", "stageStored"} /\ up
           /\ \E j \in Journal : Decided(j) /\ disk' = j
    <2>1. ASSUME NEW j \in Journal, Derived(j), Wrote(j), up
          PROVE  \/ Requests \cap Applied(disk') \subseteq Applied(disk)
                 \/ /\ pc \in {"stageReceipt", "stageStored"}
                    /\ \E k \in Journal : Decided(k) /\ disk' = k
      <3>1. disk' \in {disk, j}
        BY <2>1 DEF Wrote
      <3>2. CASE Decided(j)
        BY <3>1, <3>2 DEF Decided
      <3>3. CASE ~Decided(j)
        BY <1>0, <2>1, <3>1, <3>3, DerivedApplied
      <3> QED
        BY <3>2, <3>3
    <2>2. CASE up
      BY <1>0, <2>1, <2>2, JournalSteps DEF JournalStep
    <2>3. CASE ~up
      BY <1>0, <2>3, DownSteps
    <2> QED
      BY <2>2, <2>3
  <1>3. sourced \cap Applied(disk') = {}
    <2>1. CASE Requests \cap Applied(disk') \subseteq Applied(disk)
      BY <1>0, <2>1 DEF SourceInv
    <2>2. ASSUME NEW j \in Journal, Decided(j), disk' = j PROVE sourced \cap Applied(disk') = {}
      <3>1. /\ Applied(j) \subseteq Applied(mem) \cup {Current}
            /\ Current \notin Applied(mem) /\ Current \in Applied(j) => ~mem.turn.source
        BY <2>2, DerivedApplied DEF Derived
      <3>2. Current \in sourced => mem.turn.source
        BY DEF SourceInv, Current
      <3> QED
        BY <1>0, <2>2, <3>1, <3>2 DEF SourceInv
    <2> QED
      BY <1>2, <2>1, <2>2
  <1>4. sourced' \subseteq Ran' \ Applied(disk')
    <2>1. CASE UNCHANGED sourced
      BY <1>1, <1>3, <2>1 DEF SourceInv
    <2>2. CASE ReadSource("ok") /\ sourced' = sourced \cup {Current}
      <3>1. Current \in Ran /\ Current \in Requests /\ Current \notin Applied(disk)
            /\ pc = "infer"
        BY <2>2 DEF ReadSource, At, OnceInv, TurnRuns, EarlyPlaces, SourceInv, Ran
      <3> QED
        BY <1>1, <1>2, <1>3, <2>2, <3>1 DEF SourceInv
    <2> QED
      BY <2>1, <2>2, SourcedSteps
  <1>5. ASSUME pc' \in {"queued", "opening", "infer"} PROVE mem'.turn.req \notin Applied(disk')
    <2>1. ASSUME NEW r \in Requests, Send(r, "ok") PROVE mem'.turn.req \notin Applied(disk')
      <3>1. /\ mem'.turn.req = r /\ disk'.tasks = mem.tasks /\ r \notin Ran
        BY <1>0, <2>1 DEF Send, InPlace, Write, Journal, Fresh, Outcomes
      <3>2. r \notin Applied(mem)
        BY <1>0, <3>1 DEF OnceInv
      <3> QED
        BY <3>1, <3>2 DEF Applied
    <2>2. CASE pc \in {"queued", "opening", "infer"} /\ mem'.turn.req = Current
      <3>1. Current \in Requests /\ Current \notin Applied(disk)
        BY <1>0, <2>2 DEF FlowInv, EarlyPlaces, TypeInv, TurnInv, Current, SourceInv
      <3> QED
        BY <1>2, <2>2, <3>1
    <2> QED
      BY <1>0, <1>5, <2>1, <2>2 DEF PlaceStep, Launch, At
  <1> QED
    BY <1>4, <1>5, MarksStep DEF SourceInv, Marks, Current

-----------------------------------------------------------------------------
(* The theorems on what is run once and what a source may not do.            *)

RunInv == BaseInv /\ OnceInv /\ SourceInv

LEMMA RunInit == Init => RunInv
  <1> SUFFICES ASSUME Init PROVE RunInv
    OBVIOUS
  <1>1. DOMAIN native = {}
    BY EmptySeq, LenProperties DEF Init
  <1>2. DOMAIN <<>> = {}
    BY EmptySeq, LenProperties
  <1>3. OnceInv
    BY <1>1, <1>2 DEF Init, OnceInv, Applied, Elems, FreshJournal, Ran,
                      TurnRuns, RunRows, UserRows, ProposalRows, EarlyPlaces
  <1>4. SourceInv
    BY DEF Init, SourceInv
  <1> QED
    BY <1>3, <1>4, BaseInit DEF RunInv

LEMMA RunStep == RunInv /\ Fresh /\ [Next]_vars => RunInv'
  BY BaseStep, OnceStep, SourceStep DEF RunInv

LEMMA KnownInit == Init => KnownInv
  <1> SUFFICES ASSUME Init PROVE KnownInv
    OBVIOUS
  <1>1. DOMAIN <<>> = {}
    BY EmptySeq, LenProperties
  <1> QED
    BY <1>1 DEF Init, KnownInv, NoRepeats, Accepted, Elems, FreshJournal, Ran

LEMMA KnownRunStep ==
    ASSUME Remembered
    PROVE  RunInv /\ KnownInv /\ [Next]_vars => (RunInv /\ KnownInv)'
  BY RunStep, KnownFresh, KnownStep DEF RunInv

\* In a session that sends no more ids than the journal keeps, no message is accepted again
\* once its process has run.
THEOREM KnownIsNotAccepted == ASSUME Remembered PROVE Spec => [][Fresh]_vars
  BY RunInit, KnownInit, KnownRunStep, KnownFresh, PTL DEF Spec

LEMMA RunOnce == RunInv => OneModelTurn
  <1> SUFFICES ASSUME RunInv, NEW r \in Requests PROVE Cardinality(UserRows(r)) <= 1
    BY DEF OneModelTurn
  <1>1. \A i, k \in UserRows(r) : i = k
    BY DEF RunInv, OnceInv, RunRows
  <1>2. CASE UserRows(r) = {}
    BY <1>2, FS_EmptySet
  <1>3. CASE UserRows(r) # {}
    <2>1. \E i : UserRows(r) = {i}
      BY <1>1, <1>3
    <2> QED
      BY <2>1, FS_Singleton
  <1> QED
    BY <1>2, <1>3

LEMMA EitherInvariant ==
    ASSUME Remembered
    PROVE  EitherSpec => [](memory = "all" => RunInv /\ KnownInv)
  <1>1. (memory = "all" /\ Init /\ Different) \/ (memory = "last" /\ Forgetting!Init /\ Alike)
          => (memory = "all" => RunInv /\ KnownInv)
    BY RunInit, KnownInit
  <1>2. (memory = "all" => RunInv /\ KnownInv) /\ [Remembers \/ Forgets]_<<vars, memory>>
          => (memory = "all" => RunInv /\ KnownInv)'
    BY KnownRunStep DEF Remembers, Forgets
  <1> QED
    BY <1>1, <1>2, PTL DEF EitherSpec

\* A request id that is still remembered starts at most one model run, whatever was
\* retried, lost or restarted.
THEOREM ModelRunsOnce == ASSUME Remembered PROVE EitherSpec => []KnownIsRunOnce
  <1>1. (memory = "all" => RunInv /\ KnownInv) => KnownIsRunOnce
    BY RunOnce DEF KnownIsRunOnce
  <1> QED
    BY <1>1, EitherInvariant, PTL

\* A turn whose model was given source data never changes the task list.
THEOREM SourceChangesNothing == ASSUME Remembered PROVE EitherSpec => []SourceTurnNeverCommits
  <1>1. (memory = "all" => RunInv /\ KnownInv) => SourceTurnNeverCommits
    BY DEF RunInv, SourceInv, SourceTurnNeverCommits, SourceNeverCommits
  <1> QED
    BY <1>1, EitherInvariant, PTL
-----------------------------------------------------------------------------
(* The refinement of TurnPromise, through restarts that leave native         *)
(* processes behind too.  Memory and file may differ, by a write that        *)
(* failed; the file may then hold a change nothing was said about, or lack   *)
(* a receipt whose reply is public.                                          *)

\* The outcomes the published replies of r state.
Pub(r) == {native[i].disp : i \in ProposalRows(r)} \ {"none"}

Decisive(j) ==
    j.pub # NoPub => j.pub.req \in Requests /\ j.pub.disp \in {"committed", "chat", "rejected"}

\* A turn that is not decided yet has neither a public reply nor a change.
Open(j) ==
    j.turn # NoTurn /\ j.pub = NoPub =>
        /\ j.turn.req \in Requests
        /\ Pub(j.turn.req) = {} /\ j.turn.req \notin Applied(j)

Unsaid(x) == IF x \in Requests THEN Pub(x) = {} ELSE x \notin acked

Even ==
    /\ mem.tasks = disk.tasks
    /\ \/ mem.pub = disk.pub \/ mem.pub = NoPub
       \/ disk.pub = NoPub /\ Pub(mem.pub.req) = {mem.pub.disp}

Ahead ==
    /\ mem.pub = NoPub
    /\ \E x \in Change : disk.tasks = Append(mem.tasks, x) /\ Unsaid(x)

PromInv ==
    /\ Decisive(mem) /\ Decisive(disk) /\ Open(mem) /\ Open(disk)
    /\ Even \/ Ahead
    /\ pc \in {"published", "clear"} => Pub(mem.pub.req) = {mem.pub.disp}

KeptInv == HistoryInv /\ RunInv /\ PromInv

\* What is public changes only when a reply is published, and then once.
LEMMA PubSteps ==
    ASSUME TypeInv, FlowInv, JournalInv, RowInv, RunRows, RowStep, Decisive(mem),
           NEW r \in Requests
    PROVE  IF Publishes /\ r = mem.pub.req
             THEN Pub(r)' = {mem.pub.disp} /\ Pub(r) \in {{}, {mem.pub.disp}}
             ELSE Pub(r)' = Pub(r)
  <1>0. /\ \A i \in DOMAIN native : native[i] \in Row
        /\ AssistantRows \subseteq Nat
    BY ElementOfSeq, LenProperties DEF AssistantRows, TypeInv, TypeOK
  <1>1. \A i \in ProposalRows(r) :
          /\ i \in ProposalRows(r)'
          /\ native[i].disp # "none" => native'[i].disp = native[i].disp
    BY RowsGrow DEF ProposalRows, TypeInv
  <1>2. CASE Publishes
    <2>1. mem.pub # NoPub /\ mem.pub.row \in ProposalRows(mem.pub.req)
      BY <1>2 DEF Publishes, FlowInv, RowInv
    <2>2. /\ native' = [native EXCEPT ![mem.pub.row].disp = mem.pub.disp]
          /\ native[mem.pub.row].disp \in {"none", mem.pub.disp}
      BY <1>2 DEF Publishes, Publishable, PublishRow
    <2>3. /\ DOMAIN native' = DOMAIN native
          /\ \A i \in DOMAIN native :
               /\ native'[i].role = native[i].role /\ native'[i].tag = native[i].tag
               /\ i # mem.pub.row => native'[i] = native[i]
               /\ i = mem.pub.row => native'[i].disp = mem.pub.disp
      BY <1>0, <2>2 DEF Row
    <2>4. ProposalRows(r)' = ProposalRows(r)
      BY <2>3 DEF ProposalRows
    <2>5. CASE r = mem.pub.req
      <3>1. ProposalRows(r) = {mem.pub.row}
        BY <2>1, <2>5 DEF RunRows
      <3>2. mem.pub.disp # "none" /\ mem.pub.row \in DOMAIN native
        BY <2>1 DEF Decisive, ProposalRows
      <3>3. Pub(r)' = {mem.pub.disp} /\ Pub(r) \in {{}, {mem.pub.disp}}
        BY <2>2, <2>3, <2>4, <3>1, <3>2 DEF Pub
      <3> QED
        BY <1>2, <2>5, <3>3
    <2>6. CASE r # mem.pub.req
      <3>1. mem.pub.row \notin ProposalRows(r)
        BY <2>1, <2>6 DEF ProposalRows
      <3>2. \A i \in ProposalRows(r) : native'[i] = native[i]
        BY <2>3, <3>1 DEF ProposalRows
      <3> QED
        BY <2>4, <2>6, <3>2 DEF Pub
    <2> QED
      BY <2>5, <2>6
  <1>3. CASE ~Publishes
    <2>1. ASSUME NEW i \in ProposalRows(r)'
          PROVE  \/ i \in ProposalRows(r) /\ native'[i].disp = native[i].disp
                 \/ native'[i].disp = "none" /\ (i \in ProposalRows(r) => native[i].disp = "none")
      <3>1. CASE UNCHANGED native
        BY <2>1, <3>1 DEF ProposalRows
      <3>2. ASSUME NEW row, row.disp = "none", native' = Append(native, row)
            PROVE  \/ i \in ProposalRows(r) /\ native'[i].disp = native[i].disp
                   \/ native'[i].disp = "none" /\ i \notin ProposalRows(r)
        <4>1. /\ Len(native) \in Nat /\ DOMAIN native = 1..Len(native)
              /\ DOMAIN native' = 1..(Len(native) + 1)
              /\ \A k \in 1..Len(native) : native'[k] = native[k]
              /\ native'[Len(native) + 1] = row
          BY <3>2, AppendRows DEF TypeInv, TypeOK
        <4>2. i \in DOMAIN native \/ (i = Len(native) + 1 /\ i \notin DOMAIN native)
          BY <2>1, <4>1 DEF ProposalRows
        <4> QED
          BY <2>1, <3>2, <4>1, <4>2 DEF ProposalRows
      <3>3. ASSUME NEW q \in Requests, StoreUser(q)
            PROVE  \/ i \in ProposalRows(r) /\ native'[i].disp = native[i].disp
                   \/ native'[i].disp = "none" /\ i \notin ProposalRows(r)
        BY <3>2, <3>3 DEF StoreUser
      <3>4. ASSUME NEW q \in Requests, NEW k \in Kinds, StoreProposal(q, k)
            PROVE  \/ i \in ProposalRows(r) /\ native'[i].disp = native[i].disp
                   \/ native'[i].disp = "none" /\ i \notin ProposalRows(r)
        BY <3>2, <3>4 DEF StoreProposal
      <3>5. ASSUME NEW q \in Requests, TagProposal(q)
            PROVE  \/ i \in ProposalRows(r) /\ native'[i].disp = native[i].disp
                   \/ native'[i].disp = "none" /\ (i \in ProposalRows(r) => native[i].disp = "none")
        <4>1. PICK l \in AssistantRows :
                 /\ native[l].tag = NoReq /\ native[l].disp = "none"
                 /\ native' = [native EXCEPT ![l].tag = q, ![l].base = proc[q].base,
                                             ![l].disp = "none"]
          BY <3>5, Tagging DEF TypeInv
        <4>2. DOMAIN native' = DOMAIN native /\ l \in DOMAIN native
              /\ (i # l => native'[i] = native[i]) /\ (i = l => native'[i].disp = "none")
          BY <1>0, <2>1, <4>1 DEF ProposalRows, AssistantRows, Row
        <4> QED
          BY <2>1, <4>1, <4>2 DEF ProposalRows
      <3> QED
        BY <1>3, <3>1, <3>3, <3>4, <3>5 DEF RowStep, Launch
    <2>2. Pub(r)' \subseteq Pub(r)
      BY <2>1 DEF Pub
    <2>3. Pub(r) \subseteq Pub(r)'
      BY <1>1 DEF Pub
    <2> QED
      BY <1>3, <2>2, <2>3
  <1> QED
    BY <1>2, <1>3
\* The edits whose caller was told, after a step.
LEMMA AckSteps ==
    ASSUME [Next]_vars
    PROVE  \/ acked' \cap Controls = acked \cap Controls
           \/ /\ UNCHANGED <<mem, disk, native>>
              /\ \E c \in Controls \cap Applied(mem) : acked' = acked \cup {c}
           \/ /\ mem' = [mem EXCEPT !.tasks = plan] /\ disk' = mem' /\ UNCHANGED native
              /\ job = "control" /\ acked' = acked \cup {plan[Len(plan)]}
  <1> USE DEF history, service, Down, NativeOnly
  <1>1. CASE NativeStep
    BY <1>1 DEF NativeStep, StoreUser, StoreProposal, TagProposal, ProcessDies
  <1>2. ASSUME NEW w \in Outcomes, ControlCommit(w)
        PROVE  \/ acked' \cap Controls = acked \cap Controls
               \/ /\ mem' = [mem EXCEPT !.tasks = plan] /\ disk' = mem' /\ UNCHANGED native
                  /\ job = "control" /\ acked' = acked \cup {plan[Len(plan)]}
    BY <1>2 DEF ControlCommit, Commit, Write, At
  <1>3. CASE JobStep
    BY <1>2, <1>3
    DEF JobStep, OpenSources, Launch, WaitFails, LaunchFails, InferenceEnds, InferenceFails,
        InferenceAborts, RefreshFails, FinalizeFails, Refresh, StageReceipt,
        DropSourceTurn, RecoverStage, StageProposal, ClearReceipt, FinishTurn, FinishBoot,
        RefreshStopped, SourceCheckFails, RecoverNothing, FinalizeSucceeds, FinishRecover
  <1>4. ASSUME NEW c \in Controls, ControlRetry(c)
        PROVE  /\ UNCHANGED <<mem, disk, native>> /\ c \in Applied(mem)
               /\ acked' = acked \cup {c}
    BY <1>4 DEF ControlRetry
  <1>5. ASSUME NEW r \in Requests,
               SendRetry(r) \/ SendConfigFails(r) \/ \E w \in Outcomes : Send(r, w)
        PROVE  acked' \cap Controls = acked \cap Controls
    BY <1>5 DEF SendRetry, SendConfigFails, Send
  <1>6. CASE Outside
    BY <1>4, <1>5, <1>6
    DEF Outside, ReadSource, SaveMeta, OthersRefresh, ControlPlan, Stop, StopUnopened,
        StopWhileClosing, Recover, Start, Shutdown, Crash
  <1> QED
    BY <1>1, <1>3, <1>6 DEF Next, vars

LEMMA PlannedEdit ==
    ASSUME TypeInv, job = "control", NEW j, j = [mem EXCEPT !.tasks = plan]
    PROVE  \E c \in Controls \ Applied(mem) :
             /\ j.tasks = Append(mem.tasks, c) /\ plan[Len(plan)] = c
             /\ Applied(j) = Applied(mem) \cup {c}
             /\ j.pub = mem.pub /\ j.turn = mem.turn
  <1>0. mem \in Journal /\ mem.tasks \in Seq(Change)
    BY DEF TypeInv, TypeOK, Journal
  <1>1. PICK c \in Controls \ Applied(mem) : plan = Append(mem.tasks, c)
    BY DEF TypeInv, PlanInv
  <1>2. c \in Change /\ c \notin Elems(mem.tasks) /\ plan = ApplyBatch(mem.tasks, c)
    BY <1>1 DEF Change, Applied, ApplyBatch
  <1>3. /\ Elems(plan) = Elems(mem.tasks) \cup {c} /\ plan[Len(mem.tasks) + 1] = c
    BY <1>0, <1>2, BatchAdds
  <1>4. Len(plan) = Len(mem.tasks) + 1
    <2>1. c \in Change
      BY <1>2
    <2>2. Len(Append(mem.tasks, c)) = Len(mem.tasks) + 1
      BY <1>0, <2>1, AppendProperties
    <2> QED
      BY <1>1, <2>2
  <1> QED
    BY <1>0, <1>1, <1>3, <1>4 DEF Applied, Journal

\* A journal that is written is open if its turn is undecided.
LEMMA DerivedOpen ==
    ASSUME Fresh, BaseInv, OnceInv, Open(mem), Decisive(mem), up, NEW j \in Journal, Derived(j)
    PROVE  Decisive(j) /\ Open(j)
  <1>0. TypeInv /\ FlowInv /\ mem \in Journal /\ Fits(mem)
    BY DEF BaseInv, TurnIInv, TypeInv, TypeOK, JournalInv
  <1>1. CASE Same(j)
    <2>1. j.turn # NoTurn => mem.turn # NoTurn
      BY <1>0, <1>1 DEF Same, FlowInv, EarlyPlaces
    <2>2. j.turn.req = mem.turn.req
      BY <1>0, <1>1 DEF Same, Journal, Turn
    <2> QED
      BY <1>1, <2>1, <2>2 DEF Same, Open, Decisive, Applied
  <1>2. CASE Begun(j)
    <2>1. PICK r \in Requests \ Accepted(mem) :
            /\ \E w \in Outcomes : Send(r, w)
            /\ j.turn.req = r /\ j.tasks = mem.tasks /\ j.pub = NoPub
      BY <1>2 DEF Begun
    <2>2. r \notin Ran /\ r \notin Applied(mem)
      BY <1>0, <2>1 DEF Fresh, OnceInv, BaseInv, IInv, SaidInv
    <2>3. Pub(r) = {}
      BY <2>1, <2>2 DEF OnceInv, RunRows, Ran, Pub
    <2> QED
      BY <2>1, <2>2, <2>3 DEF Open, Decisive, Applied
  <1>3. CASE Decided(j)
    <2>1. PICK i : j = Staged(mem, i)
      BY <1>3 DEF Decided
    <2>2. j.pub = [req |-> Current, row |-> i, disp |-> Disposition(mem, i)]
      BY <1>0, <2>1 DEF Staged, Journal, Current
    <2>3. Disposition(mem, i) \in {"committed", "chat", "rejected"} /\ Current \in Requests
      BY <1>3 DEF Disposition, Decided
    <2>4. j.pub # NoPub
      BY <2>2, <2>3 DEF NoPub
    <2> QED
      BY <2>2, <2>3, <2>4 DEF Decisive, Open
  <1>4. CASE Cleared(j)
    <2>1. j.turn = NoTurn /\ j.pub = NoPub
      BY <1>0, <1>4 DEF Cleared, Journal
    <2> QED
      BY <2>1 DEF Open, Decisive
  <1>5. CASE Edited(j)
    <2>1. PICK c \in Controls :
             Applied(j) = Applied(mem) \cup {c} /\ j.pub = mem.pub /\ j.turn = mem.turn
      BY <1>0, <1>5, PlannedEdit DEF Edited
    <2> QED
      BY <2>1 DEF Open, Decisive
  <1> QED
    BY <1>1, <1>2, <1>3, <1>4, <1>5 DEF Derived

LEMMA OpenStep ==
    ASSUME KeptInv, Fresh, [Next]_vars
    PROVE  /\ Decisive(mem)' /\ Decisive(disk)' /\ Open(mem)' /\ Open(disk)'
  <1>0. /\ TypeInv /\ FlowInv /\ JournalInv /\ RowInv /\ RunRows /\ BaseInv /\ OnceInv
        /\ RowStep /\ Decisive(mem) /\ Decisive(disk) /\ Open(mem) /\ Open(disk)
    BY RowSteps DEF KeptInv, HistoryInv, TurnIInv, RunInv, OnceInv, PromInv, TypeInv
  <1>1. CASE Publishes
    <2>1. UNCHANGED <<mem, disk>> /\ mem.pub # NoPub
      BY <1>0, <1>1 DEF Publishes, FlowInv
    <2>2. ASSUME disk.turn # NoTurn, disk.pub = NoPub
          PROVE  disk.turn.req \in Requests /\ Pub(disk.turn.req)' = {}
      <3>1. disk.turn.req \in Requests /\ Pub(disk.turn.req) = {}
        BY <1>0, <2>2 DEF Open
      <3>2. Pub(mem.pub.req) = {mem.pub.disp}
        BY <2>1, <2>2 DEF KeptInv, PromInv, Even, Ahead
      <3>3. disk.turn.req # mem.pub.req
        BY <3>1, <3>2
      <3> QED
        BY <1>0, <2>1, <3>1, <3>3, PubSteps
    <2> QED
      BY <1>0, <2>1, <2>2 DEF Open, Decisive, Applied
  <1>2. CASE ~Publishes
    <2>1. \A r \in Requests : Pub(r)' = Pub(r)
      BY <1>0, <1>2, PubSteps
    <2>2. ASSUME NEW j, Open(j) PROVE Open(j)'
      BY <2>1, <2>2 DEF Open
    <2>3. ASSUME NEW j, Decisive(j) PROVE Decisive(j)'
      BY <2>3 DEF Decisive
    <2>4. /\ Decisive(mem') /\ Decisive(disk') /\ Open(mem') /\ Open(disk')
      <3>1. CASE up
        BY <1>0, <3>1, DerivedOpen, JournalSteps DEF JournalStep, Wrote
      <3>2. CASE ~up
        BY <1>0, <3>2, DownSteps
      <3> QED
        BY <3>1, <3>2
    <2> QED
      BY <2>1, <2>4 DEF Open, Decisive
  <1> QED
    BY <1>1, <1>2
\* A change that is ahead in the file is still one nothing was said about.
LEMMA AheadStays ==
    ASSUME KeptInv, Ahead, ~Publishes, [Next]_vars, mem' # disk'
    PROVE  \E x \in Change : disk.tasks = Append(mem.tasks, x) /\ Unsaid(x)'
  <1>0. /\ TypeInv /\ FlowInv /\ JournalInv /\ RowInv /\ RunRows /\ RowStep
        /\ Decisive(mem) /\ mem.tasks \in Seq(Change)
        /\ acked \cap Controls \subseteq Applied(mem)
    BY RowSteps DEF KeptInv, HistoryInv, TurnIInv, RunInv, BaseInv, IInv, SaidInv, Sound, Said,
                    OnceInv, PromInv, TypeInv, TypeOK, Journal
  <1>1. \A r \in Requests : Pub(r)' = Pub(r)
    BY <1>0, PubSteps
  <1>2. acked' \cap Controls \subseteq Applied(mem)
    BY <1>0, AckSteps
  <1>3. PICK x \in Change : disk.tasks = Append(mem.tasks, x) /\ Unsaid(x)
    BY DEF Ahead
  <1>4. x \notin Applied(mem)
    <2>1. NoRepeats(disk.tasks)
      BY DEF KeptInv, RunInv, BaseInv, IInv, SaidInv, Sound
    <2>2. /\ Len(mem.tasks) \in Nat /\ DOMAIN mem.tasks = 1..Len(mem.tasks)
          /\ DOMAIN disk.tasks = 1..(Len(mem.tasks) + 1)
          /\ \A i \in 1..Len(mem.tasks) : disk.tasks[i] = mem.tasks[i]
          /\ disk.tasks[Len(mem.tasks) + 1] = x
      BY <1>0, <1>3, AppendRows
    <2> QED
      BY <2>1, <2>2 DEF NoRepeats, Applied, Elems
  <1>5. Unsaid(x)'
    BY <1>1, <1>2, <1>3, <1>4 DEF Unsaid, Change
  <1> QED
    BY <1>3, <1>5

\* How memory and file may differ after a write of j.
LEMMA WroteRel ==
    ASSUME KeptInv, NEW j \in Journal, Derived(j), Wrote(j), ~Publishes, [Next]_vars,
           mem' # disk'
    PROVE  Even' \/ Ahead'
  <1>0. /\ TypeInv /\ FlowInv /\ JournalInv /\ RowInv /\ RunRows /\ RowStep
        /\ Decisive(mem) /\ mem \in Journal /\ mem.tasks \in Seq(Change)
        /\ acked \cap Controls \subseteq Applied(mem)
    BY RowSteps DEF KeptInv, HistoryInv, TurnIInv, RunInv, BaseInv, IInv, SaidInv, Sound, Said,
                    OnceInv, PromInv, TypeInv, TypeOK, Journal
  <1>1. \A r \in Requests : Pub(r)' = Pub(r)
    BY <1>0, PubSteps
  <1>2. acked' \cap Controls \subseteq Applied(mem)
    BY <1>0, AckSteps
  <1>3. CASE mem' = j /\ disk' = disk /\ InPlaceOf(j)
    <2>1. j.tasks = mem.tasks /\ (j.pub = mem.pub \/ j.pub = NoPub)
      BY <1>0, <1>3 DEF InPlaceOf, Same, Begun, Cleared, Journal
    <2>2. CASE Even
      BY <1>0, <1>1, <1>3, <2>1, <2>2 DEF Even, Decisive
    <2>3. CASE Ahead
      BY <1>3, <2>1, <2>3, AheadStays DEF Ahead
    <2> QED
      BY <2>2, <2>3 DEF KeptInv, PromInv
  <1>4. CASE mem' = mem /\ disk' = j /\ CommitOf(j)
    <2>1. CASE Decided(j)
      <3>1. /\ mem.pub = NoPub /\ mem.turn # NoTurn /\ Current \in Change /\ Current \in Requests
        BY <2>1 DEF Decided, Change
      <3>2. Current \notin Applied(mem) /\ Pub(Current) = {}
        BY <3>1 DEF KeptInv, PromInv, Open, Current
      <3>3. j.tasks \in {mem.tasks, ApplyBatch(mem.tasks, Current)}
        BY <1>0, <2>1, <3>1 DEF Decided, Staged, Journal, Current
      <3>4. j.tasks \in {mem.tasks, Append(mem.tasks, Current)}
        BY <3>2, <3>3 DEF ApplyBatch, Applied
      <3>6. CASE j.tasks = mem.tasks
        BY <1>4, <3>1, <3>6 DEF Even
      <3>7. CASE j.tasks = Append(mem.tasks, Current)
        <4>1. PICK r \in Requests : r = Current
          BY <3>1
        <4>2. Unsaid(r)'
          BY <1>1, <3>2, <4>1 DEF Unsaid
        <4>3. r \in Change /\ disk'.tasks = Append(mem'.tasks, r)
          BY <1>4, <3>1, <3>7, <4>1
        <4> QED
          BY <1>4, <3>1, <4>2, <4>3 DEF Ahead
      <3> QED
        BY <3>4, <3>6, <3>7
    <2>2. CASE Edited(j)
      <3>1. PICK c \in Controls \ Applied(mem) : j.tasks = Append(mem.tasks, c)
        BY <1>0, <2>2, PlannedEdit DEF Edited
      <3>2. c \notin acked' /\ c \in Change /\ c \notin Requests /\ mem.pub = NoPub
        BY <1>0, <1>2, <2>2, <3>1 DEF Change, Edited, FlowInv
      <3>3. Unsaid(c)'
        BY <3>2 DEF Unsaid
      <3> QED
        BY <1>4, <3>1, <3>2, <3>3 DEF Ahead
    <2>3. CASE Cleared(j) /\ pc = "clear"
      <3>1. j.tasks = mem.tasks /\ j.pub = NoPub
        BY <1>0, <2>3 DEF Cleared, Journal
      <3>2. Pub(mem.pub.req) = {mem.pub.disp} /\ mem.pub # NoPub
        BY <1>0, <2>3 DEF KeptInv, PromInv, FlowInv
      <3> QED
        BY <1>0, <1>1, <1>4, <3>1, <3>2 DEF Even, Decisive
    <2> QED
      BY <1>4, <2>1, <2>2, <2>3 DEF CommitOf
  <1> QED
    BY <1>3, <1>4 DEF Wrote

LEMMA RelStep ==
    ASSUME KeptInv, [Next]_vars
    PROVE  Even' \/ Ahead'
  <1>0. /\ TypeInv /\ FlowInv /\ JournalInv /\ RowInv /\ RunRows /\ RowStep
        /\ Decisive(mem) /\ acked \cap Controls \subseteq Applied(mem) /\ JournalStep
    BY RowSteps, JournalSteps
    DEF KeptInv, HistoryInv, TurnIInv, RunInv, BaseInv, IInv, SaidInv, Sound, Said,
        OnceInv, PromInv, TypeInv
  <1>1. CASE mem' = disk'
    BY <1>1 DEF Even
  <1>2. CASE Publishes
    <2>1. UNCHANGED <<mem, disk, acked>> /\ mem.pub # NoPub /\ mem.pub.req \in Requests /\ Even
      BY <1>0, <1>2 DEF Publishes, FlowInv, Decisive, KeptInv, PromInv, Ahead
    <2>2. Pub(mem.pub.req)' = {mem.pub.disp}
      <3>1. PICK r \in Requests : r = mem.pub.req
        BY <2>1
      <3>2. Pub(r)' = {mem.pub.disp}
        BY <1>0, <1>2, <3>1, PubSteps
      <3> QED
        BY <2>1, <3>1, <3>2 DEF Pub
    <2> QED
      BY <2>1, <2>2 DEF Even
  <1>3. CASE ~Publishes /\ UNCHANGED <<mem, disk>>
    <2>1. \A r \in Requests : Pub(r)' = Pub(r)
      BY <1>0, <1>3, PubSteps
    <2>2. CASE Even
      BY <1>0, <1>3, <2>1, <2>2 DEF Even, Decisive
    <2>3. CASE Ahead
      <3>1. CASE mem' # disk'
        BY <1>3, <2>3, <3>1, AheadStays DEF Ahead
      <3> QED
        BY <1>1, <3>1
    <2> QED
      BY <2>2, <2>3 DEF KeptInv, PromInv
  <1> QED
    BY <1>0, <1>1, <1>2, <1>3, WroteRel DEF JournalStep
LEMMA PromStep ==
    ASSUME KeptInv, Fresh, [Next]_vars
    PROVE  PromInv'
  <1>0. /\ TypeInv /\ FlowInv /\ JournalInv /\ RowInv /\ RunRows /\ RowStep /\ PlaceStep
        /\ Decisive(mem)
    BY RowSteps, PlaceSteps
    DEF KeptInv, HistoryInv, TurnIInv, RunInv, OnceInv, PromInv, TypeInv
  <1>1. ASSUME pc' \in {"published", "clear"} PROVE (Pub(mem.pub.req) = {mem.pub.disp})'
    <2>1. mem'.pub = mem.pub /\ (pc \in {"published", "clear"} \/ FinalizeSucceeds)
      BY <1>0, <1>1 DEF PlaceStep
    <2>2. mem.pub # NoPub
      BY <1>0, <2>1 DEF FlowInv, FinalizeSucceeds
    <2>3. PICK r \in Requests : r = mem.pub.req
      BY <1>0, <2>2 DEF Decisive
    <2>4. Publishes \/ Pub(r) = {mem.pub.disp}
      BY <2>1, <2>3 DEF KeptInv, PromInv, FinalizeSucceeds, Publishes, history
    <2>5. Pub(r)' = {mem.pub.disp}
      BY <1>0, <2>3, <2>4, PubSteps
    <2> QED
      BY <2>1, <2>3, <2>5 DEF Pub
  <1> QED
    BY <1>1, OpenStep, RelStep DEF PromInv

-----------------------------------------------------------------------------
(* Every step is a step of the promise, or none.                             *)

\* What memory takes for the durable state, as the promise allows it.
LEMMA MemoryStands ==
    ASSUME KeptInv
    PROVE  [list |-> mem.tasks, receipt |-> Promise!NoReceipt] \in Promise!Standing
  <1>0. mem.tasks \in Seq(Change) /\ disk \in Journal
    BY DEF KeptInv, HistoryInv, TurnIInv, TypeInv, TypeOK, Journal
  <1>1. CASE Even
    BY <1>1 DEF Even, Promise!Standing
  <1>2. CASE Ahead
    <2>1. PICK x \in Change : disk.tasks = Append(mem.tasks, x) /\ Unsaid(x)
      BY <1>2 DEF Ahead
    <2>2. /\ Len(mem.tasks) \in Nat /\ DOMAIN mem.tasks = 1..Len(mem.tasks)
          /\ DOMAIN disk.tasks = 1..(Len(mem.tasks) + 1)
          /\ \A i \in 1..Len(mem.tasks) : disk.tasks[i] = mem.tasks[i]
          /\ disk.tasks[Len(mem.tasks) + 1] = x
      BY <1>0, <2>1, AppendRows
    <2>3. Len(disk.tasks) = Len(mem.tasks) + 1
      BY <1>0, <2>1, AppendProperties
    <2>4. SubSeq(disk.tasks, 1, Len(disk.tasks) - 1) = mem.tasks
      <3> DEFINE s == SubSeq(disk.tasks, 1, Len(mem.tasks))
      <3>1. /\ s \in Seq(Change) /\ Len(s) = Len(mem.tasks)
            /\ \A i \in 1..Len(mem.tasks) : s[i] = mem.tasks[i]
        <4>1. \A i \in 1..Len(mem.tasks) : disk.tasks[i] \in Change
          BY <1>0, <2>2, ElementOfSeq
        <4>2. 1 \in Int /\ Len(mem.tasks) \in Int
          BY <2>2
        <4> QED
          BY <2>2, <4>1, <4>2, SubSeqProperties
      <3> HIDE DEF s
      <3>2. s = mem.tasks
        BY <1>0, <2>2, <3>1, SeqEqual
      <3> QED
        BY <2>2, <2>3, <3>2 DEF s
    <2>5. Promise!Unsaid(disk.tasks[Len(disk.tasks)])
      BY <2>1, <2>2, <2>3 DEF Promise!Unsaid, Unsaid, Pub, Change
    <2>6. Len(disk.tasks) \in {k \in {Len(disk.tasks)} :
                                k > 0 /\ Promise!Unsaid(disk.tasks[k])}
      BY <2>2, <2>3, <2>5
    <2> QED
      BY <2>4, <2>6 DEF Promise!Standing
  <1> QED
    BY <1>1, <1>2 DEF KeptInv, PromInv
\* What the person can see does not change.
SameView == \A r \in Requests : Pub(r)' = Pub(r)

\* A write of the file that brings no new decision settles on what memory has.
LEMMA SettleStep ==
    ASSUME KeptInv, SameView, acked' \cap Controls = acked \cap Controls,
           disk'.tasks = mem.tasks, disk'.pub \in {mem.pub, NoPub}
    PROVE  [Promise!Next]_(Promise!vars)
  <1>0. UNCHANGED [r \in Requests |-> {native[i].disp : i \in ProposalRows(r)} \ {"none"}]
    BY DEF SameView, Pub
  <1>1. CASE disk'.pub = NoPub
    BY <1>0, <1>1, MemoryStands
    DEF Promise!Next, Promise!Settle, Promise!NoReceipt, NoPub
  <1>2. CASE disk'.pub = mem.pub /\ mem.pub # NoPub
    <2>1. Even /\ Decisive(mem)
      BY <1>2 DEF KeptInv, PromInv, Ahead
    <2>2. CASE mem.pub = disk.pub
      BY <1>0, <1>2, <2>1, <2>2 DEF Promise!vars, Even
    <2>3. CASE disk.pub = NoPub /\ Pub(mem.pub.req) = {mem.pub.disp}
      <3>1. Promise!Remember(mem.pub.req, mem.pub.disp)
        BY <1>0, <1>2, <2>1, <2>3
        DEF Promise!Remember, Promise!Decision, Promise!NoReceipt, NoPub, Pub, Even, Decisive
      <3> QED
        BY <1>2, <2>1, <3>1 DEF Promise!Next, Promise!Outcomes, Decisive
    <2> QED
      BY <1>2, <2>1, <2>2, <2>3 DEF Even
  <1> QED
    BY <1>1, <1>2

LEMMA DecideStep ==
    ASSUME KeptInv, SameView, acked' \cap Controls = acked \cap Controls,
           Decided(disk')
    PROVE  [Promise!Next]_(Promise!vars)
  <1>0. UNCHANGED [r \in Requests |-> {native[i].disp : i \in ProposalRows(r)} \ {"none"}]
    BY DEF SameView, Pub
  <1>1. /\ mem \in Journal /\ Current \in Requests
        /\ Current \notin Applied(mem) /\ Pub(Current) = {}
    BY DEF Decided, KeptInv, HistoryInv, TurnIInv, TypeInv, TypeOK, PromInv, Open, Current
  <1>2. PICK i : disk' = Staged(mem, i)
    BY DEF Decided
  <1> DEFINE d == Disposition(mem, i)
  <1>3. /\ d \in Promise!Outcomes
        /\ disk'.pub.req = Current /\ disk'.pub.disp = d
        /\ disk'.tasks = IF d = "committed" THEN Append(mem.tasks, Current) ELSE mem.tasks
    BY <1>1, <1>2 DEF Staged, Journal, Current, Disposition, Promise!Outcomes, ApplyBatch, Applied
  <1>4. ~Promise!In(Current, mem.tasks)
    BY <1>1 DEF Promise!In, Applied, Elems
  <1> HIDE DEF d
  <1>5. Promise!Decide(Current, d)
    BY <1>0, <1>1, <1>3, <1>4, MemoryStands DEF Promise!Decide, Promise!Decision, Pub
  <1> QED
    BY <1>1, <1>3, <1>5 DEF Promise!Next

LEMMA EditStep ==
    ASSUME KeptInv, SameView, Edited(disk'),
           \/ acked' \cap Controls = acked \cap Controls
           \/ acked' = acked \cup {plan[Len(plan)]}
    PROVE  [Promise!Next]_(Promise!vars)
  <1>0. UNCHANGED [r \in Requests |-> {native[i].disp : i \in ProposalRows(r)} \ {"none"}]
    BY DEF SameView, Pub
  <1>1. PICK c \in Controls \ Applied(mem) :
             /\ disk'.tasks = Append(mem.tasks, c) /\ plan[Len(plan)] = c
             /\ disk'.pub = mem.pub
    <2>1. TypeInv /\ job = "control"
      BY DEF Edited, KeptInv, HistoryInv, TurnIInv
    <2>2. PICK j : j = disk'
      OBVIOUS
    <2> QED
      BY <2>1, <2>2, PlannedEdit DEF Edited
  <1>2. disk'.pub = NoPub
    BY <1>1 DEF Edited, KeptInv, HistoryInv, TurnIInv, FlowInv
  <1>3. ~Promise!In(c, mem.tasks)
    BY <1>1 DEF Promise!In, Applied, Elems
  <1>4. acked' \cap Controls \in {acked \cap Controls, (acked \cap Controls) \cup {c}}
    BY <1>1
  <1>5. \E s \in Promise!Standing : /\ s.receipt = Promise!NoReceipt
                                   /\ ~Promise!In(c, s.list)
                                   /\ disk'.tasks = Append(s.list, c)
    <2> DEFINE s == [list |-> mem.tasks, receipt |-> Promise!NoReceipt]
    <2>1. s \in Promise!Standing
      BY MemoryStands
    <2> QED
      BY <1>1, <1>3, <2>1
  <1>6. [req |-> disk'.pub.req, disp |-> disk'.pub.disp] = Promise!NoReceipt
    BY <1>2 DEF Promise!NoReceipt, NoPub
  <1>7. Promise!Edit(c)
    BY <1>0, <1>4, <1>5, <1>6 DEF Promise!Edit
  <1> QED
    BY <1>7 DEF Promise!Next

LEMMA PublishStep ==
    ASSUME KeptInv, RowStep, Publishes
    PROVE  [Promise!Next]_(Promise!vars)
  <1>0. /\ TypeInv /\ FlowInv /\ JournalInv /\ RowInv /\ RunRows /\ Decisive(mem)
    BY DEF KeptInv, HistoryInv, TurnIInv, RunInv, OnceInv, PromInv
  <1>1. UNCHANGED <<disk, acked>> /\ mem.pub # NoPub /\ mem.pub.req \in Requests /\ Even
    BY <1>0 DEF Publishes, FlowInv, Decisive, KeptInv, PromInv, Ahead
  <1>2. PICK q \in Requests : q = mem.pub.req
    BY <1>1
  <1>3. /\ \A r \in Requests : r # q => Pub(r)' = Pub(r)
        /\ Pub(q)' = {mem.pub.disp} /\ Pub(q) \in {{}, {mem.pub.disp}}
    BY <1>0, <1>2, PubSteps
  <1>4. CASE Pub(q) = {mem.pub.disp}
    <2>1. UNCHANGED [r \in Requests |-> {native[i].disp : i \in ProposalRows(r)} \ {"none"}]
      BY <1>3, <1>4 DEF Pub
    <2> QED
      BY <1>1, <2>1 DEF Promise!vars
  <1>5. CASE Pub(q) = {}
    <2>1. mem.pub = disk.pub
      BY <1>1, <1>2, <1>5 DEF Even
    <2>2. Promise!Publish
      BY <1>1, <1>2, <1>3, <1>5, <2>1 DEF Promise!Publish, Promise!NoReceipt, Pub
    <2> QED
      BY <2>2 DEF Promise!Next
  <1> QED
    BY <1>3, <1>4, <1>5
LEMMA PromiseStep ==
    ASSUME KeptInv, [Next]_vars
    PROVE  [Promise!Next]_(Promise!vars)
  <1>0. /\ TypeInv /\ FlowInv /\ JournalInv /\ RowInv /\ RunRows /\ RowStep /\ JournalStep
        /\ Decisive(mem) /\ Applied(mem) \subseteq Applied(disk) /\ mem \in Journal
    BY RowSteps, JournalSteps
    DEF KeptInv, HistoryInv, TurnIInv, RunInv, OnceInv, BaseInv, IInv, SaidInv, PromInv, TypeInv,
        TypeOK
  <1>1. CASE Publishes
    BY <1>0, <1>1, PublishStep
  <1>2. CASE ~Publishes
    <2>1. SameView
      BY <1>0, <1>2, PubSteps DEF SameView
    <2>2. UNCHANGED [r \in Requests |-> {native[i].disp : i \in ProposalRows(r)} \ {"none"}]
      BY <2>1 DEF SameView, Pub
    <2>3. ASSUME NEW c \in Controls \cap Applied(mem), acked' = acked \cup {c}, UNCHANGED disk
          PROVE  Promise!Next
      <3>1. Promise!In(c, disk.tasks)
        BY <1>0, <2>3 DEF Promise!In, Applied, Elems
      <3>2. acked' \cap Controls = (acked \cap Controls) \cup {c}
        BY <2>3
      <3> QED
        BY <2>2, <2>3, <3>1, <3>2 DEF Promise!Next, Promise!Tell
    <2>4. CASE /\ mem' = [mem EXCEPT !.tasks = plan] /\ disk' = mem' /\ job = "control"
               /\ acked' = acked \cup {plan[Len(plan)]}
      BY <2>1, <2>4, EditStep DEF Edited
    <2>5. CASE acked' \cap Controls = acked \cap Controls
      <3>1. CASE UNCHANGED disk
        BY <2>2, <2>5, <3>1 DEF Promise!vars
      <3>2. ASSUME NEW j \in Journal, Derived(j), disk' = j
            PROVE  [Promise!Next]_(Promise!vars)
        <4>1. CASE Same(j) \/ Begun(j) \/ Cleared(j)
          <5>1. disk'.tasks = mem.tasks /\ disk'.pub \in {mem.pub, NoPub}
            BY <1>0, <3>2, <4>1 DEF Same, Begun, Cleared, Journal
          <5> QED
            BY <2>1, <2>5, <5>1, SettleStep
        <4>2. CASE Decided(disk')
          BY <2>1, <2>5, <4>2, DecideStep
        <4>3. CASE Edited(disk')
          BY <2>1, <2>5, <4>3, EditStep
        <4> QED
          BY <3>2, <4>1, <4>2, <4>3 DEF Derived
      <3> QED
        BY <1>0, <3>1, <3>2 DEF JournalStep, Wrote
    <2> QED
      BY <2>3, <2>4, <2>5, AckSteps
  <1> QED
    BY <1>1, <1>2

LEMMA PromiseInit == Init => PromInv /\ Promise!Init
  <1> SUFFICES ASSUME Init PROVE PromInv /\ Promise!Init
    OBVIOUS
  <1>1. DOMAIN native = {}
    BY EmptySeq, LenProperties DEF Init
  <1>2. \A r \in Requests : {native[i].disp : i \in ProposalRows(r)} \ {"none"} = {}
    BY <1>1 DEF ProposalRows
  <1>3. Promise!Init
    BY <1>2 DEF Init, FreshJournal, NoPub, Promise!Init, Promise!NoReceipt
  <1>4. PromInv
    BY DEF Init, FreshJournal, PromInv, Decisive, Open, Even
  <1> QED
    BY <1>3, <1>4

\* A step that changes nothing accepts nothing.
LEMMA StillFresh ==
    ASSUME TypeOK, UNCHANGED vars
    PROVE  Fresh
  BY DEF Fresh, Send, InPlace, Write, Idle, vars, TypeOK

\* The turn, its retries, its recovery and the direct edits implement TurnPromise: a
\* decision and its receipt become durable together, a reply is published from its receipt
\* only, once, and what was said is never taken back. It holds through every failed write,
\* stop and restart, also when native processes outlive a killed service, in the behaviours
\* in which no two native processes write at once (an orphan is done before the next turn
\* starts its process) and no message is accepted again once its process has run. Without
\* the first, an orphan's answer can be taken for another turn's: the run OrphanMixing.
THEOREM KeepsPromise == Spec /\ []OneWriter /\ [][Fresh]_vars => PromiseKept
  <1>1. Init => KeptInv /\ Promise!Init
    BY RunInit, HistoryInit, PromiseInit DEF KeptInv
  <1>2. KeptInv /\ OneWriter /\ [Next]_vars /\ [Fresh]_vars => KeptInv'
    <2> SUFFICES ASSUME KeptInv, OneWriter, [Next]_vars, [Fresh]_vars PROVE KeptInv'
      OBVIOUS
    <2>1. Fresh
      BY StillFresh DEF KeptInv, HistoryInv, TurnIInv, TypeInv
    <2> QED
      BY <2>1, HistoryStep, RunStep, PromStep DEF KeptInv
  <1>3. KeptInv /\ [Next]_vars => [Promise!Next]_(Promise!vars)
    BY PromiseStep
  <1> QED
    BY <1>1, <1>2, <1>3, PTL DEF Spec, PromiseKept, Promise!Spec

\* The two hypotheses hold in a session that sends no more ids than the journal keeps, when
\* no native process outlives a killed service.
THEOREM KeepsPromiseAlone == ASSUME Remembered, NoOrphans PROVE Spec => PromiseKept
  BY KeepsPromise, OneAtATime, KnownIsNotAccepted, PTL
=============================================================================
