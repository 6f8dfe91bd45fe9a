--------------------------- MODULE OutreachProofs ---------------------------
(***************************************************************************)
(* Proofs about what the service says unasked: nothing is said once the    *)
(* person has acted, what was said is kept, what counts as said was said,  *)
(* and nothing is said twice.  They need to know what a task may hold      *)
(* where it is, and what a step may make of an event in the journal.       *)
(***************************************************************************)
EXTENDS Outreach, SequenceTheorems, FiniteSetTheorems, TLAPS

USE OutreachAssumption

-----------------------------------------------------------------------------
(* Types.  Each loop has its own number of events.                           *)

Events == {e \in [Loops -> Seq(Event)] : \A l \in Loops : e[l] \in [1..Bound(l) -> Event]}
Journals == [ev : Events, epoch : Nat, rev : Nat, unresolved : BOOLEAN]
Row == [by : Loops, n : Nat, key : Keys \cup {NoKey}, kept : BOOLEAN]
RouteKinds == {"none", "boot", "control", "switch", "setup", "recover"}
RouteStops == {"none", "wait_return", "wait_checkin", "lock", "read", "publish", "events"}
Humans == {"none", "wait_return", "wait_checkin", "lock", "turn"}
Locks == Loops \cup {"free", "human", "route"}

Typed ==
    /\ up \in BOOLEAN
    /\ mem \in Journals /\ disk \in Journals
    /\ rows \in Seq(Row)
    /\ task \in [Loops -> Task]
    /\ lock \in Locks /\ human \in Humans
    /\ route \in [kind : RouteKinds, at : RouteStops]
    /\ made \in [Loops -> Nat] /\ \A l \in Loops : made[l] <= Bound(l)
    /\ faults \in 0..MaxFaults /\ crashes \in 0..MaxCrashes

-----------------------------------------------------------------------------
(* What holds where a task is.                                               *)

Early == {"start", "open", "lock", "infer", "kill"}

\* An accepted publication is not cancelled, and only that one has a row.
TaskInv ==
    \A l \in Loops :
        /\ task[l].pc # "idle" => task[l].n \in 1..made[l]
        /\ task[l].publishing => ~task[l].cancel
        /\ task[l].pc \in Early => ~task[l].publishing
        /\ task[l].pc \in {"append", "record"} => task[l].publishing
        /\ task[l].pc # "idle" /\ ~task[l].publishing => ~Said(l, task[l].n)
        /\ task[l].pc = "record" => Said(l, task[l].n)
        /\ task[l].why # "delivered"

\* Between an acceptance and the record of the row no other task does anything.
Alone ==
    \A l, o \in Loops :
        task[l].pc \in {"append", "record"} /\ task[o].pc \in {"append", "record"} => l = o

\* What Accept has found still holds when the row is stored.
AcceptInv ==
    \A l \in Loops : task[l].pc = "append" =>
        /\ human = "none" /\ task[l].wanted
        /\ task[l].rev = mem.rev /\ task[l].epoch = mem.epoch
        /\ task[l].attached => /\ mem.ev[l][task[l].n].status = "publishing"
                               /\ disk.ev[l][task[l].n].status = "publishing"

-----------------------------------------------------------------------------
(* Rows and events.                                                          *)

Public == {"publishing", "delivered"}

RowInv ==
    \A i \in DOMAIN rows : rows[i].n \in 1..made[rows[i].by]

KeptInv ==
    \A i \in DOMAIN rows : rows[i].kept =>
        /\ disk.ev[rows[i].by][rows[i].n].status \in Public
        /\ up => mem.ev[rows[i].by][rows[i].n].status \in Public

\* A journal j: events not made yet are not there, and a delivered one has its row.
EventsOf(j) ==
    \A l \in Loops : \A n \in 1..Bound(l) :
        /\ n > made[l] => j.ev[l][n] = NoEvent
        /\ j.ev[l][n].status = "delivered" => Said(l, n)

EventInv == EventsOf(mem) /\ EventsOf(disk)

-----------------------------------------------------------------------------
(* Return keys, while no event is forgotten that could come again.           *)

\* A key is forgotten only when no return is left to be made.
FewReturns == Returns <= KeepEvents + 1

\* In a journal j every key is the key of one event, and no key of a row is
\* another event's.
KeysOf(j) ==
    /\ \A l \in Loops : \A n, m \in 1..Bound(l) :
         j.ev[l][n].key = j.ev[l][m].key /\ j.ev[l][n].key # NoKey => n = m
    /\ \A n \in 1..CheckIns : j.ev["checkin"][n].key = NoKey
    /\ \A i \in DOMAIN rows : \A n \in 1..Bound(rows[i].by) :
         n # rows[i].n /\ rows[i].key # NoKey => j.ev[rows[i].by][n].key # rows[i].key

\* The key of a row is still in the journal j.
Holds(j) ==
    \A i \in DOMAIN rows :
        rows[i].key # NoKey /\ made[rows[i].by] < Bound(rows[i].by)
            => j.ev[rows[i].by][rows[i].n].key = rows[i].key

KeyInv ==
    /\ KeysOf(mem) /\ KeysOf(disk)
    /\ Holds(disk) /\ (up => Holds(mem))
    /\ \A l \in Loops : task[l].pc # "idle" =>
         disk.ev[l][task[l].n].key = mem.ev[l][task[l].n].key

OutInv == Typed /\ TaskInv /\ Alone /\ AcceptInv /\ RowInv /\ KeptInv /\ EventInv
OnceInv == OutInv /\ KeyInv /\ SaidOnce

-----------------------------------------------------------------------------
(* Journals.                                                                 *)

\* What every step leaves in the journal is an event with the key it had.
\* Discarded ones have no row that is kept.
Becomes(l, n, e) ==
    /\ e \in Event /\ e.key = mem.ev[l][n].key
    /\ n <= made[l] \/ e = mem.ev[l][n]
    /\ \/ e.status = mem.ev[l][n].status
       \/ e.status = "publishing"
       \/ e.status = "delivered" /\ Said(l, n)
       \/ /\ e.status # "delivered"
          /\ \A i \in DOMAIN rows' : <<rows'[i].by, rows'[i].n>> = <<l, n>> => ~rows'[i].kept

Derived(j) ==
    j \in Journals /\ \A l \in Loops : \A n \in 1..Bound(l) : Becomes(l, n, j.ev[l][n])

JournalStep == Derived(mem') /\ (disk' = disk \/ Derived(disk'))

LEMMA LoopsAre == Loops = {"checkin", "return"} /\ \A l \in Loops : Bound(l) \in Nat
  BY DEF Loops, Bound

\* A function that gives every loop its events is the events of a journal.
LEMMA EventsMake ==
    ASSUME NEW e, e = [l \in Loops |-> e[l]],
           \A l \in Loops : e[l] \in [1..Bound(l) -> Event]
    PROVE  e \in Events
<1>1. \A l \in Loops : e[l] \in Seq(Event)
  BY LoopsAre, SeqDef
<1> QED
  BY <1>1 DEF Events

LEMMA JournalsAre ==
    ASSUME NEW j \in Journals
    PROVE  /\ j.ev \in Events /\ j.epoch \in Nat /\ j.rev \in Nat /\ j.unresolved \in BOOLEAN
           /\ \A l \in Loops : DOMAIN j.ev[l] = 1..Bound(l)
           /\ \A l \in Loops : \A n \in 1..Bound(l) :
                j.ev[l][n] \in Event /\ j.ev[l][n].status \in Statuses
                /\ j.ev[l][n].key \in Keys \cup {NoKey}
  BY DEF Journals, Events, Event

LEMMA FreshTyped == FreshJournal \in Journals /\ NoEvent \in Event
<1>1. NoEvent \in Event
  BY DEF NoEvent, Event, Statuses
<1>2. FreshJournal.ev \in Events
  BY <1>1, EventsMake, LoopsAre DEF FreshJournal
<1> QED
  BY <1>1, <1>2 DEF FreshJournal, Journals

\* A journal with other events, or with another status of one event.
LEMMA EventsChange ==
    ASSUME NEW j \in Journals, NEW e \in Events
    PROVE  [j EXCEPT !.ev = e] \in Journals /\ [j EXCEPT !.ev = e].ev = e
  BY DEF Journals

LEMMA EventChanges ==
    ASSUME NEW e \in Event, NEW s \in Statuses
    PROVE  /\ [e EXCEPT !.status = s] = [status |-> s, key |-> e.key]
           /\ [status |-> s, key |-> e.key] \in Event
  BY DEF Event

Marking(j, l, n, s) == [j EXCEPT !.ev[l][n].status = s]

LEMMA StatusChanges ==
    ASSUME NEW j \in Journals, NEW l \in Loops, NEW n \in 1..Bound(l), NEW s \in Statuses,
           NEW k, k = Marking(j, l, n, s)
    PROVE  /\ k \in Journals
           /\ k.epoch = j.epoch /\ k.rev = j.rev /\ k.unresolved = j.unresolved
           /\ \A o \in Loops : \A m \in 1..Bound(o) :
                k.ev[o][m] = IF o = l /\ m = n THEN [status |-> s, key |-> j.ev[l][n].key]
                                              ELSE j.ev[o][m]
<1> DEFINE row == [j.ev[l] EXCEPT ![n] = [j.ev[l][n] EXCEPT !.status = s]]
           e == [j.ev EXCEPT ![l] = row]
<1>1. j.ev \in [Loops -> Seq(Event)] /\ \A o \in Loops : j.ev[o] \in [1..Bound(o) -> Event]
  BY DEF Journals, Events
<1>2. [j.ev[l][n] EXCEPT !.status = s] = [status |-> s, key |-> j.ev[l][n].key]
      /\ [status |-> s, key |-> j.ev[l][n].key] \in Event
  BY <1>1, EventChanges
<1>3. row \in [1..Bound(l) -> Event]
      /\ \A m \in 1..Bound(l) : row[m] = IF m = n THEN [status |-> s, key |-> j.ev[l][n].key]
                                                  ELSE j.ev[l][m]
  BY <1>1, <1>2
<1> HIDE DEF row
<1>4. /\ e = [o \in Loops |-> e[o]] /\ e[l] = row
      /\ \A o \in Loops : o # l => e[o] = j.ev[o]
  BY <1>1
<1> HIDE DEF e
<1>5. \A o \in Loops : e[o] \in [1..Bound(o) -> Event]
  BY <1>1, <1>3, <1>4
<1>6. e \in Events
  BY <1>4, <1>5, EventsMake
<1>7. k = [j EXCEPT !.ev = e]
  BY DEF e, row, Marking
<1>8. k \in Journals /\ k.ev = e /\ k.epoch = j.epoch /\ k.rev = j.rev /\ k.unresolved = j.unresolved
  BY <1>6, <1>7 DEF Journals
<1>9. \A o \in Loops : \A m \in 1..Bound(o) :
        k.ev[o][m] = IF o = l /\ m = n THEN [status |-> s, key |-> j.ev[l][n].key]
                                      ELSE j.ev[o][m]
  BY <1>3, <1>4, <1>8
<1> QED
  BY <1>8, <1>9

-----------------------------------------------------------------------------
(* What the operators the actions are built from make of a journal.          *)

LEMMA SameDerived ==
    ASSUME Typed, NEW j \in Journals, j.ev = mem.ev
    PROVE  Derived(j)
  BY JournalsAre DEF Typed, Derived, Becomes

LEMMA ToldDerived ==
    ASSUME Typed, TaskInv, NEW l \in Loops, task[l].pc # "idle", NEW s \in Statuses,
           \/ s = "publishing"
           \/ s = "delivered" /\ Said(l, task[l].n)
           \/ /\ s # "delivered"
              /\ \A i \in DOMAIN rows' :
                   <<rows'[i].by, rows'[i].n>> = <<l, task[l].n>> => ~rows'[i].kept
    PROVE  /\ Derived(Told(l, s))
           /\ Told(l, s).epoch = mem.epoch /\ Told(l, s).rev = mem.rev
           /\ Told(l, s).unresolved = mem.unresolved
           /\ task[l].attached => Told(l, s).ev[l][task[l].n].status = s
<1>1. task[l].n \in 1..Bound(l) /\ task[l].n <= made[l] /\ mem \in Journals
  BY LoopsAre DEF Typed, TaskInv
<1>2. CASE task[l].attached
  <2> PICK k : k = Marking(mem, l, task[l].n, s)
    OBVIOUS
  <2>1. /\ k \in Journals
        /\ k.epoch = mem.epoch /\ k.rev = mem.rev /\ k.unresolved = mem.unresolved
        /\ \A o \in Loops : \A m \in 1..Bound(o) :
             k.ev[o][m] = IF o = l /\ m = task[l].n
                          THEN [status |-> s, key |-> mem.ev[l][task[l].n].key] ELSE mem.ev[o][m]
    BY <1>1, StatusChanges
  <2>2. Told(l, s) = k
    BY <1>2 DEF Told, Marking
  <2>3. ASSUME NEW o \in Loops, NEW m \in 1..Bound(o) PROVE Becomes(o, m, k.ev[o][m])
    <3>1. k.ev[o][m] \in Event
      BY <2>1, JournalsAre
    <3>2. CASE o = l /\ m = task[l].n
      <4>1. k.ev[o][m] = [status |-> s, key |-> mem.ev[l][task[l].n].key]
        BY <2>1, <3>2
      <4> QED
        BY <1>1, <3>1, <3>2, <4>1 DEF Becomes
    <3>3. CASE ~(o = l /\ m = task[l].n)
      <4>1. k.ev[o][m] = mem.ev[o][m]
        BY <2>1, <3>3
      <4> QED
        BY <3>1, <4>1 DEF Becomes
    <3> QED
      BY <3>2, <3>3
  <2>4. Derived(k)
    BY <2>1, <2>3 DEF Derived
  <2> QED
    BY <1>1, <2>1, <2>2, <2>4
<1>3. CASE ~task[l].attached
  BY <1>1, <1>3, SameDerived DEF Told
<1> QED
  BY <1>2, <1>3

Withdrawn(e) == [e EXCEPT !.status = "stale"]

LEMMA StaleDerived ==
    ASSUME Typed, TaskInv, NEW j \in Journals, j.ev = mem.ev, NEW S \in SUBSET Loops, rows' = rows
    PROVE  /\ Derived(StaleIn(j, S))
           /\ StaleIn(j, S).epoch = j.epoch /\ StaleIn(j, S).rev = j.rev
           /\ StaleIn(j, S).unresolved = j.unresolved
<1> DEFINE e == [l \in Loops |-> [n \in 1..Bound(l) |->
        IF l \in S /\ Marked(l) /\ n = task[l].n
        THEN Withdrawn(j.ev[l][n]) ELSE j.ev[l][n]]]
<1>1. StaleIn(j, S) = [j EXCEPT !.ev = e]
  BY DEF StaleIn, Withdrawn
<1>2. /\ e = [l \in Loops |-> e[l]]
      /\ \A l \in Loops : \A n \in 1..Bound(l) :
           e[l][n] = IF l \in S /\ Marked(l) /\ n = task[l].n
                     THEN [status |-> "stale", key |-> mem.ev[l][n].key] ELSE mem.ev[l][n]
  <2>1. \A l \in Loops : \A n \in 1..Bound(l) :
          Withdrawn(mem.ev[l][n]) = [status |-> "stale", key |-> mem.ev[l][n].key]
    BY JournalsAre, EventChanges DEF Statuses, Withdrawn, Typed
  <2> QED
    BY <2>1
<1>3. \A l \in Loops : \A n \in 1..Bound(l) : e[l][n] \in Event
  <2>1. \A l \in Loops : \A n \in 1..Bound(l) :
          mem.ev[l][n] \in Event /\ [status |-> "stale", key |-> mem.ev[l][n].key] \in Event
    BY JournalsAre, EventChanges DEF Statuses, Typed
  <2> HIDE DEF e
  <2> QED
    BY <1>2, <2>1
<1>4. \A l \in Loops : e[l] \in [1..Bound(l) -> Event]
  BY <1>3
<1> HIDE DEF e
<1>5. e \in Events
  BY <1>2, <1>4, EventsMake
<1>6. StaleIn(j, S) \in Journals /\ StaleIn(j, S).ev = e
  BY <1>1, <1>5, EventsChange
<1>7. \A l \in Loops : \A n \in 1..Bound(l) : Becomes(l, n, e[l][n])
  <2> SUFFICES ASSUME NEW l \in Loops, NEW n \in 1..Bound(l) PROVE Becomes(l, n, e[l][n])
    OBVIOUS
  <2>1. CASE l \in S /\ Marked(l) /\ n = task[l].n
    <3>1. task[l].pc # "idle" /\ ~task[l].publishing
      BY <2>1 DEF Marked, Live
    <3>2. ~Said(l, n) /\ n <= made[l]
      BY <2>1, <3>1 DEF TaskInv, Typed
    <3>3. e[l][n] = [status |-> "stale", key |-> mem.ev[l][n].key]
      BY <2>1, <1>2
    <3> QED
      BY <3>2, <3>3, <1>3 DEF Becomes, Said
  <2>2. CASE ~(l \in S /\ Marked(l) /\ n = task[l].n)
    <3>1. e[l][n] = mem.ev[l][n]
      BY <2>2, <1>2
    <3> QED
      BY <3>1, <1>3 DEF Becomes
  <2> QED
    BY <2>1, <2>2
<1>8. Derived(StaleIn(j, S))
  BY <1>6, <1>7 DEF Derived
<1> QED
  BY <1>1, <1>8

LEMMA WriteDerived ==
    ASSUME Typed, NEW j, Derived(j), NEW w \in Outcomes, Write(j, w)
    PROVE  /\ disk' = disk \/ Derived(disk')
           /\ w = "ok" => disk' = j
           /\ disk' \in Journals /\ faults' \in 0..MaxFaults
  BY DEF Typed, Write, Outcomes, Derived

LEMMA TypedJournals ==
    ASSUME Typed, JournalStep
    PROVE  mem' \in Journals /\ disk' \in Journals
  BY DEF Typed, JournalStep, Derived
LEMMA JournalChanges ==
    ASSUME NEW j \in Journals, NEW r \in Nat, NEW u \in BOOLEAN
    PROVE  /\ [j EXCEPT !.rev = r] \in Journals /\ [j EXCEPT !.rev = r].ev = j.ev
           /\ [j EXCEPT !.epoch = @ + r] \in Journals /\ [j EXCEPT !.epoch = @ + r].ev = j.ev
           /\ [j EXCEPT !.unresolved = u] \in Journals /\ [j EXCEPT !.unresolved = u].ev = j.ev
  BY DEF Journals

LEMMA Untouched ==
    ASSUME Typed, UNCHANGED <<mem, disk>>
    PROVE  JournalStep
<1>1. Derived(mem)
  BY SameDerived DEF Typed
<1> QED
  BY <1>1 DEF JournalStep

LEMMA CommitStep ==
    ASSUME Typed, NEW j, Derived(j), NEW w \in Outcomes, Commit(j, w)
    PROVE  JournalStep /\ faults' \in 0..MaxFaults
<1>1. Derived(mem)
  BY SameDerived DEF Typed
<1> QED
  BY <1>1, WriteDerived DEF JournalStep, Commit

LEMMA InPlaceStep ==
    ASSUME Typed, NEW j, Derived(j), NEW w \in Outcomes, InPlace(j, w)
    PROVE  JournalStep /\ faults' \in 0..MaxFaults
  BY WriteDerived DEF JournalStep, InPlace

-----------------------------------------------------------------------------
(* Where the tasks are, when another step is taken.                          *)

SamePlaces ==
    /\ task' \in [Loops -> Task]
    /\ \A l \in Loops :
        /\ task'[l].pc = task[l].pc /\ task'[l].n = task[l].n
        /\ task'[l].publishing = task[l].publishing /\ task'[l].why = task[l].why
        /\ task'[l].cancel => task[l].cancel \/ Live(l)

LEMMA TasksAre ==
    ASSUME Typed
    PROVE  /\ task \in [Loops -> Task]
           /\ \A l \in Loops : /\ task[l].n \in Nat /\ task[l].attached \in BOOLEAN
                               /\ task[l].cancel \in BOOLEAN /\ task[l].publishing \in BOOLEAN
                               /\ task[l].wanted \in BOOLEAN
                               /\ task[l].epoch \in Nat /\ task[l].rev \in Nat
  BY DEF Typed, Task

LEMMA DetachedPlaces ==
    ASSUME NEW t \in [Loops -> Task]
    PROVE  /\ Detached(t) \in [Loops -> Task]
           /\ \A l \in Loops :
                /\ Detached(t)[l].pc = t[l].pc /\ Detached(t)[l].n = t[l].n
                /\ Detached(t)[l].publishing = t[l].publishing
                /\ Detached(t)[l].cancel = t[l].cancel /\ Detached(t)[l].why = t[l].why
<1>1. ASSUME NEW l \in Loops, NEW a \in BOOLEAN
      PROVE  LET u == [t[l] EXCEPT !.attached = a]
             IN  /\ u \in Task /\ u.pc = t[l].pc /\ u.n = t[l].n
                 /\ u.publishing = t[l].publishing /\ u.cancel = t[l].cancel
                 /\ u.why = t[l].why
  <2>1. t[l] \in Task
    OBVIOUS
  <2> QED
    BY <2>1 DEF Task
<1>2. \A l \in Loops : t[l].attached \in BOOLEAN
  BY DEF Task
<1> QED
  BY <1>1, <1>2 DEF Detached

LEMMA PreemptedPlaces ==
    ASSUME NEW t \in [Loops -> Task], NEW S
    PROVE  /\ Preempted(t, S) \in [Loops -> Task]
           /\ \A l \in Loops :
                /\ Preempted(t, S)[l].pc = t[l].pc /\ Preempted(t, S)[l].n = t[l].n
                /\ Preempted(t, S)[l].publishing = t[l].publishing
                /\ Preempted(t, S)[l].why = t[l].why
                /\ Preempted(t, S)[l].cancel => t[l].cancel \/ Live(l)
<1>1. ASSUME NEW l \in Loops, NEW a \in BOOLEAN
      PROVE  LET u == [t[l] EXCEPT !.cancel = a]
             IN  /\ u \in Task /\ u.pc = t[l].pc /\ u.n = t[l].n
                 /\ u.publishing = t[l].publishing /\ u.cancel = a /\ u.why = t[l].why
  <2>1. t[l] \in Task
    OBVIOUS
  <2> QED
    BY <2>1 DEF Task
<1>2. \A l \in Loops : t[l].cancel \in BOOLEAN
  BY DEF Task
<1> QED
  BY <1>1, <1>2 DEF Preempted
LEMMA PlacesStay ==
    ASSUME Typed, NEW S,
           \/ task' = task \/ task' = Detached(task)
           \/ task' = Preempted(task, S) \/ task' = Preempted(Detached(task), S)
    PROVE  SamePlaces
<1>1. task \in [Loops -> Task] /\ Detached(task) \in [Loops -> Task]
  BY DetachedPlaces DEF Typed
<1> QED
  BY <1>1, DetachedPlaces, PreemptedPlaces DEF SamePlaces

LEMMA RouteMoves ==
    ASSUME NEW r \in [kind : RouteKinds, at : RouteStops], NEW a \in RouteStops
    PROVE  [r EXCEPT !.at = a] \in [kind : RouteKinds, at : RouteStops]
  OBVIOUS

\* What every step does that is no step of a task's, nor a beginning or an end of the
\* service.
Around ==
    /\ Yielding
    /\ UNCHANGED <<rows, made, crashes>>
    /\ SamePlaces /\ JournalStep
    /\ up' \in BOOLEAN /\ lock' \in Locks /\ human' \in Humans
    /\ route' \in [kind : RouteKinds, at : RouteStops]
    /\ faults' \in 0..MaxFaults

LEMMA HumanAround ==
    ASSUME Typed, TaskInv, HumanStep
    PROVE  Around
<1>1. ASSUME NEW l \in Loops, HumanWaits(l) PROVE Around
  BY <1>1, Untouched, PlacesStay DEF HumanWaits, HumanOnly, Around, Typed, Humans
<1>2. CASE HumanLocks
  BY <1>2, Untouched, PlacesStay DEF HumanLocks, HumanOnly, Around, Typed, Humans, Locks
<1>3. ASSUME NEW u \in BOOLEAN, NEW w \in Outcomes, HumanEnds(u, w) PROVE Around
  <2>1. JournalStep /\ faults' \in 0..MaxFaults
    BY <1>3, InPlaceStep, JournalChanges, SameDerived DEF HumanEnds, Typed
  <2> QED
    BY <1>3, <2>1, PlacesStay DEF HumanEnds, Around, Typed, Humans, Locks
<1> QED
  BY <1>1, <1>2, <1>3 DEF HumanStep

LEMMA RevChanges ==
    ASSUME Typed, NEW r \in NextRev
    PROVE  [mem EXCEPT !.rev = r] \in Journals /\ [mem EXCEPT !.rev = r].ev = mem.ev
           /\ Derived([mem EXCEPT !.rev = r])
<1>1. r \in Nat /\ mem \in Journals
  BY JournalsAre DEF Typed, NextRev
<1> QED
  BY <1>1, JournalChanges, SameDerived

LEMMA FlagChanges ==
    ASSUME Typed, NEW u \in BOOLEAN
    PROVE  [mem EXCEPT !.unresolved = u] \in Journals /\ [mem EXCEPT !.unresolved = u].ev = mem.ev
           /\ Derived([mem EXCEPT !.unresolved = u])
  BY JournalChanges, SameDerived DEF Typed

LEMMA EpochChanges ==
    ASSUME Typed, NEW e \in Nat
    PROVE  [mem EXCEPT !.epoch = @ + e] \in Journals /\ [mem EXCEPT !.epoch = @ + e].ev = mem.ev
           /\ Derived([mem EXCEPT !.epoch = @ + e])
  BY JournalChanges, SameDerived DEF Typed

\* What recovery makes of the accepted events of the loops that are not in F.
Settled(F) ==
    [mem EXCEPT !.ev = [l \in Loops |-> [n \in 1..Bound(l) |->
        IF mem.ev[l][n].status = "publishing" /\ l \notin F
        THEN [mem.ev[l][n] EXCEPT !.status = Resolved(l, n)]
        ELSE mem.ev[l][n]]]]

LEMMA SettledDerived ==
    ASSUME Typed, EventInv, RowInv, NEW F, rows' = rows
    PROVE  Derived(Settled(F))
<1> DEFINE Done(l, n) == [mem.ev[l][n] EXCEPT !.status = Resolved(l, n)]
           e == [l \in Loops |-> [n \in 1..Bound(l) |->
                IF mem.ev[l][n].status = "publishing" /\ l \notin F THEN Done(l, n)
                ELSE mem.ev[l][n]]]
<1>1. \A l \in Loops : \A n \in 1..Bound(l) :
        /\ Done(l, n) = [status |-> Resolved(l, n), key |-> mem.ev[l][n].key]
        /\ [status |-> Resolved(l, n), key |-> mem.ev[l][n].key] \in Event
        /\ mem.ev[l][n] \in Event
  BY JournalsAre, EventChanges DEF Typed, Resolved, Statuses
<1> HIDE DEF Done
<1>2. /\ e = [l \in Loops |-> e[l]]
      /\ \A l \in Loops : \A n \in 1..Bound(l) :
           e[l][n] = IF mem.ev[l][n].status = "publishing" /\ l \notin F
                     THEN [status |-> Resolved(l, n), key |-> mem.ev[l][n].key]
                     ELSE mem.ev[l][n]
      /\ \A l \in Loops : e[l] \in [1..Bound(l) -> Event]
  BY <1>1
<1>3. Settled(F) = [mem EXCEPT !.ev = e]
  BY DEF Settled, Done
<1> HIDE DEF e
<1>4. e \in Events
  BY <1>2, EventsMake
<1>5. Settled(F) \in Journals /\ Settled(F).ev = e
  BY <1>3, <1>4, EventsChange DEF Typed
<1>6. ASSUME NEW l \in Loops, NEW n \in 1..Bound(l) PROVE Becomes(l, n, e[l][n])
  <2>1. e[l][n] \in Event
    BY <1>1, <1>2
  <2>2. CASE mem.ev[l][n].status = "publishing" /\ l \notin F
    <3>1. e[l][n] = [status |-> Resolved(l, n), key |-> mem.ev[l][n].key]
      BY <1>2, <2>2
    <3>2. n <= made[l]
      <4>1. mem.ev[l][n] # NoEvent
        BY <2>2 DEF NoEvent
      <4> QED
        BY <4>1 DEF EventInv, EventsOf, Typed, Bound
    <3>3. CASE Said(l, n)
      BY <2>1, <3>1, <3>2, <3>3 DEF Becomes, Resolved
    <3>4. CASE ~Said(l, n)
      BY <2>1, <3>1, <3>2, <3>4 DEF Becomes, Resolved, Said
    <3> QED
      BY <3>3, <3>4
  <2>3. CASE ~(mem.ev[l][n].status = "publishing" /\ l \notin F)
    <3>1. e[l][n] = mem.ev[l][n]
      BY <1>2, <2>3
    <3> QED
      BY <2>1, <3>1 DEF Becomes
  <2> QED
    BY <2>2, <2>3
<1> QED
  BY <1>5, <1>6 DEF Derived
LEMMA RouteAround ==
    ASSUME Typed, TaskInv, EventInv, RowInv, RouteStep
    PROVE  Around
<1>0. Typed /\ route \in [kind : RouteKinds, at : RouteStops]
      /\ NoRoute \in [kind : RouteKinds, at : RouteStops]
  BY DEF Typed, NoRoute, RouteKinds, RouteStops
<1>1. ASSUME NEW l \in Loops, RouteWaits(l) PROVE Around
  <2>1. route' \in [kind : RouteKinds, at : RouteStops]
    BY <1>0, <1>1, RouteMoves DEF RouteWaits, RouteStops
  <2> QED
    BY <1>1, <2>1, Untouched, PlacesStay DEF RouteWaits, RouteOnly, Around, Typed
<1>2. CASE RouteLocks
  <2>1. route' \in [kind : RouteKinds, at : RouteStops]
    BY <1>0, <1>2, RouteMoves DEF RouteLocks, RouteStops
  <2> QED
    BY <1>2, <2>1, Untouched, PlacesStay DEF RouteLocks, RouteOnly, Around, Typed, Locks
<1>3. CASE RouteFails
  BY <1>0, <1>3, Untouched, PlacesStay DEF RouteFails, Around, Typed, Locks
<1>4. ASSUME NEW r \in NextRev, NEW w \in Outcomes, ControlCommits(r, w) PROVE Around
  <2>1. JournalStep /\ faults' \in 0..MaxFaults
    BY <1>4, RevChanges, CommitStep DEF ControlCommits
  <2> QED
    BY <1>0, <1>4, <2>1, PlacesStay DEF ControlCommits, Around, Typed
<1>5. ASSUME NEW u \in BOOLEAN, NEW w \in Outcomes, SwitchCommits(u, w) PROVE Around
  <2>1. JournalStep /\ faults' \in 0..MaxFaults
    BY <1>5, FlagChanges, CommitStep DEF SwitchCommits
  <2> QED
    BY <1>0, <1>5, <2>1, PlacesStay DEF SwitchCommits, Around, Typed, Locks
<1>6. ASSUME NEW F \in SUBSET Loops, NEW w \in Outcomes, RecoverEnds(F, w) PROVE Around
  <2> PICK j : j = Settled(F)
    OBVIOUS
  <2>1. /\ Yielding /\ UNCHANGED <<rows, task, human, made, crashes>>
        /\ IF j = mem THEN w = "ok" /\ UNCHANGED <<disk, faults>> ELSE Write(j, w)
        /\ mem' = j
        /\ route' = NoRoute /\ lock' = IF lock = "route" THEN "free" ELSE lock
        /\ up' \in BOOLEAN
    BY <1>6 DEF RecoverEnds, Settled
  <2>2. Derived(j)
    BY <1>0, <2>1, SettledDerived
  <2>3. JournalStep /\ faults' \in 0..MaxFaults
    BY <2>1, <2>2, WriteDerived DEF JournalStep, Typed
  <2> QED
    BY <1>0, <2>1, <2>3, PlacesStay DEF Around, Typed, Locks
<1> QED
  BY <1>1, <1>2, <1>3, <1>4, <1>5, <1>6 DEF RouteStep

-----------------------------------------------------------------------------
(* Steps from outside.                                                       *)

LEMMA PreemptStep ==
    ASSUME Typed, TaskInv, NEW j \in Journals, j.ev = mem.ev, NEW S \in SUBSET Loops,
           NEW w \in Outcomes, PreemptSave(j, S, w), rows' = rows
    PROVE  JournalStep /\ SamePlaces /\ faults' \in 0..MaxFaults
<1>1. Derived(StaleIn(j, S))
  BY StaleDerived
<1>2. SamePlaces
  BY PlacesStay DEF PreemptSave
<1> QED
  BY <1>1, <1>2, WriteDerived DEF PreemptSave, JournalStep, Typed

LEMMA CommitPreemptStep ==
    ASSUME Typed, TaskInv, NEW w \in Outcomes, NEW v \in Outcomes,
           CommitThenPreempt(w, v), rows' = rows
    PROVE  JournalStep /\ SamePlaces /\ faults' \in 0..MaxFaults
<1>0. Derived(mem) /\ Derived(StaleIn(mem, Loops))
  BY SameDerived, StaleDerived DEF Typed
<1>1. CASE w # "ok"
  <2>1. Commit(mem, w) /\ task' = task
    BY <1>1 DEF CommitThenPreempt
  <2> QED
    BY <1>0, <2>1, CommitStep, PlacesStay
<1>2. CASE w = "ok"
  <2>1. /\ v = "ok" \/ faults < MaxFaults
        /\ mem' = StaleIn(mem, Loops)
        /\ disk' = StaleIn(mem, Loops) \/ disk' = mem
        /\ faults' = IF v = "ok" THEN faults ELSE faults + 1
        /\ task' = Preempted(Detached(task), Loops)
    BY <1>2 DEF CommitThenPreempt
  <2>2. JournalStep
    BY <1>0, <2>1 DEF JournalStep
  <2>3. SamePlaces
    BY <2>1, PlacesStay
  <2> QED
    BY <2>1, <2>2, <2>3 DEF Typed
<1> QED
  BY <1>1, <1>2

LEMMA SendAround ==
    ASSUME Typed, TaskInv, NEW w \in Outcomes, Send(w)
    PROVE  Around
<1> PICK b : b = [mem EXCEPT !.epoch = @ + 1]
  OBVIOUS
<1> PICK j : j = StaleIn(b, Loops)
  OBVIOUS
<1> PICK k : k = [j EXCEPT !.unresolved = TRUE]
  OBVIOUS
<1>1. /\ Yielding /\ rows' = rows
      /\ UNCHANGED <<up, rows, lock, route, made, crashes>>
      /\ task' = Preempted(task, Loops)
      /\ human' = IF w = "ok" THEN "wait_return" ELSE "none"
      /\ \/ InPlace(j, w)
         \/ /\ w = "ok" \/ faults < MaxFaults
            /\ mem' = k
            /\ disk' = k \/ disk' = j \/ disk' = disk
            /\ faults' = IF w = "ok" THEN faults ELSE faults + 1
  BY DEF Send, Free
<1>2. b \in Journals /\ b.ev = mem.ev
  BY EpochChanges
<1>3. Derived(j) /\ j \in Journals
  BY <1>1, <1>2, StaleDerived DEF Derived
<1>4. k \in Journals /\ k.ev = j.ev
  BY <1>3, JournalChanges
<1>5. Derived(k)
  BY <1>3, <1>4 DEF Derived
<1>6. JournalStep /\ faults' \in 0..MaxFaults
  <2>1. CASE InPlace(j, w)
    BY <2>1, <1>3, InPlaceStep
  <2>2. CASE ~InPlace(j, w)
    <3>1. /\ w = "ok" \/ faults < MaxFaults
          /\ mem' = k
          /\ disk' = k \/ disk' = j \/ disk' = disk
          /\ faults' = IF w = "ok" THEN faults ELSE faults + 1
      BY <2>2, <1>1
    <3>2. JournalStep
      BY <3>1, <1>3, <1>5 DEF JournalStep
    <3>3. faults' \in 0..MaxFaults
      BY <3>1 DEF Typed
    <3> QED
      BY <3>2, <3>3
  <2> QED
    BY <2>1, <2>2
<1>7. SamePlaces
  BY <1>1, PlacesStay
<1> QED
  BY <1>1, <1>6, <1>7 DEF Around, Typed, Humans
LEMMA RecoverAround ==
    ASSUME Typed, TaskInv, NEW w \in Outcomes,
           RecoverClears(w) \/ \E r \in NextRev : RecoverStages(r, w)
    PROVE  Around
<1>0. /\ \A a \in RouteStops : [route EXCEPT !.at = a] \in [kind : RouteKinds, at : RouteStops]
      /\ NoRoute \in [kind : RouteKinds, at : RouteStops]
      /\ {"publish", "events"} \subseteq RouteStops
  BY RouteMoves DEF Typed, NoRoute, RouteKinds, RouteStops
<1>1. CASE RecoverClears(w)
  <2> PICK j : j = [mem EXCEPT !.unresolved = FALSE]
    OBVIOUS
  <2>1. /\ Yielding
        /\ \/ InPlace(j, w) /\ task' = task
           \/ Commit(j, w) /\ task' = IF w = "ok" THEN Detached(task) ELSE task
        /\ route' = IF w = "ok" THEN [route EXCEPT !.at = "events"] ELSE NoRoute
        /\ lock' = IF w # "ok" /\ lock = "route" THEN "free" ELSE lock
        /\ up' \in BOOLEAN
        /\ UNCHANGED <<rows, human, made, crashes>>
    BY <1>1 DEF RecoverClears
  <2>2. Derived(j)
    BY FlagChanges
  <2>3. JournalStep /\ faults' \in 0..MaxFaults
    BY <2>1, <2>2, CommitStep, InPlaceStep
  <2>4. SamePlaces
    BY <2>1, PlacesStay
  <2> QED
    BY <1>0, <2>1, <2>3, <2>4 DEF Around, Typed, Locks
<1>2. ASSUME NEW r \in NextRev, RecoverStages(r, w) PROVE Around
  <2> PICK j : j = [mem EXCEPT !.rev = r]
    OBVIOUS
  <2> PICK S : S = IF r # mem.rev THEN {"checkin"} ELSE {}
    OBVIOUS
  <2>1. /\ Yielding /\ Write(j, w)
        /\ mem' = IF w = "ok" THEN StaleIn(j, S) ELSE mem
        /\ task' = IF w = "ok" THEN Preempted(Detached(task), S) ELSE task
        /\ route' = IF w = "ok" THEN [route EXCEPT !.at = "publish"] ELSE NoRoute
        /\ lock' = IF w # "ok" /\ lock = "route" THEN "free" ELSE lock
        /\ up' \in BOOLEAN
        /\ UNCHANGED <<rows, human, made, crashes>>
    BY <1>2 DEF RecoverStages
  <2>2. j \in Journals /\ j.ev = mem.ev /\ Derived(j) /\ S \in SUBSET Loops /\ Derived(mem)
    BY RevChanges, SameDerived DEF Loops, Typed
  <2>3. Derived(StaleIn(j, S))
    BY <2>1, <2>2, StaleDerived
  <2>4. JournalStep /\ faults' \in 0..MaxFaults
    BY <2>1, <2>2, <2>3, WriteDerived DEF JournalStep
  <2>5. SamePlaces
    BY <2>1, PlacesStay
  <2> QED
    BY <1>0, <2>1, <2>4, <2>5 DEF Around, Typed, Locks
<1> QED
  BY <1>1, <1>2

LEMMA OutsideAround ==
    ASSUME Typed, TaskInv, Outside
    PROVE  \/ Around
           \/ \E l \in Loops, k \in Keys \cup {NoKey}, w \in Outcomes : Begin(l, k, w)
           \/ Crash \/ StartService
<1>0. /\ \A k \in RouteKinds, a \in RouteStops :
           [kind |-> k, at |-> a] \in [kind : RouteKinds, at : RouteStops]
      /\ {"control", "switch", "setup", "recover"} \subseteq RouteKinds
      /\ {"wait_return", "lock"} \subseteq RouteStops
      /\ mem \in Journals /\ Derived(mem)
  BY SameDerived DEF Typed, RouteKinds, RouteStops
<1>1. ASSUME NEW w \in Outcomes, Rename(w) PROVE Around
  <2>1. JournalStep /\ faults' \in 0..MaxFaults
    BY <1>0, <1>1, CommitStep DEF Rename
  <2> QED
    BY <1>1, <2>1, PlacesStay DEF Rename, Free, Around, Typed
<1>2. ASSUME NEW w \in Outcomes, SaveMeta(w) PROVE Around
  <2>1. JournalStep /\ faults' \in 0..MaxFaults
    BY <1>0, <1>2, InPlaceStep DEF SaveMeta
  <2> QED
    BY <1>2, <2>1, PlacesStay DEF SaveMeta, Around, Typed
<1>3. ASSUME NEW w \in Outcomes, NEW v \in Outcomes, Compress(w, v) PROVE Around
  <2>1. JournalStep /\ SamePlaces /\ faults' \in 0..MaxFaults
    BY <1>3, CommitPreemptStep DEF Compress
  <2> QED
    BY <1>3, <2>1 DEF Compress, Free, Around, Typed, Humans
<1>4. ASSUME NEW w \in Outcomes, NEW v \in Outcomes, SetupBegins(w, v) PROVE Around
  <2>1. JournalStep /\ SamePlaces /\ faults' \in 0..MaxFaults
    BY <1>4, CommitPreemptStep DEF SetupBegins
  <2> QED
    BY <1>0, <1>4, <2>1 DEF SetupBegins, Free, Around, Typed
<1>5. ASSUME NEW r \in NextRev, NEW w \in Outcomes, HumanCommits(r, w) PROVE Around
  <2>1. JournalStep /\ faults' \in 0..MaxFaults
    BY <1>5, RevChanges, CommitStep DEF HumanCommits
  <2> QED
    BY <1>5, <2>1, PlacesStay DEF HumanCommits, Around, Typed
<1>6. ASSUME NEW k \in {"control", "switch"}, NEW e \in {0, 1}, NEW w \in Outcomes,
             RouteBegins(k, e, w)
      PROVE  Around
  <2> PICK j : j = [mem EXCEPT !.epoch = @ + e]
    OBVIOUS
  <2>1. j \in Journals /\ j.ev = mem.ev
    BY EpochChanges
  <2>2. /\ Yielding /\ PreemptSave(j, Loops, w)
        /\ route' = IF w = "ok" THEN [kind |-> k, at |-> "wait_return"] ELSE route
        /\ UNCHANGED <<up, rows, lock, human, made, crashes>>
    BY <1>6 DEF RouteBegins, Free
  <2>3. JournalStep /\ SamePlaces /\ faults' \in 0..MaxFaults
    BY <2>1, <2>2, PreemptStep
  <2> QED
    BY <1>0, <2>2, <2>3 DEF Around, Typed
<1>7. ASSUME NEW S \in SUBSET Loops, NEW w \in Outcomes, ContextChanges(S, w) PROVE Around
  <2>1. CASE PreemptSave(mem, S, w)
    <3>1. JournalStep /\ SamePlaces /\ faults' \in 0..MaxFaults
      BY <1>0, <1>7, <2>1, PreemptStep DEF ContextChanges
    <3> QED
      BY <1>7, <3>1 DEF ContextChanges, Around, Typed
  <2>2. CASE InPlace(StaleIn(mem, S), w) /\ task' = Preempted(task, S)
    <3>1. JournalStep /\ faults' \in 0..MaxFaults
      BY <1>0, <1>7, <2>2, InPlaceStep, StaleDerived DEF ContextChanges
    <3> QED
      BY <1>7, <2>2, <3>1, PlacesStay DEF ContextChanges, Around, Typed
  <2> QED
    BY <1>7, <2>1, <2>2 DEF ContextChanges
<1>8. CASE RecoverBegins
  BY <1>0, <1>8, Untouched, PlacesStay DEF RecoverBegins, RouteOnly, Going, Free, Around, Typed
<1>9. ASSUME NEW l \in Loops, Lapses(l) PROVE Around
  <2>1. SamePlaces
    <3>1. task[l] \in Task /\ task[l].wanted \in BOOLEAN
      BY TasksAre
    <3>2. LET t == [task[l] EXCEPT !.wanted = ~task[l].wanted]
          IN  /\ t \in Task /\ t.pc = task[l].pc /\ t.n = task[l].n
              /\ t.publishing = task[l].publishing /\ t.cancel = task[l].cancel
              /\ t.why = task[l].why
      BY <3>1 DEF Task
    <3> QED
      BY <3>2, <1>9, TasksAre DEF Lapses, SamePlaces
  <2> QED
    BY <1>9, <2>1, Untouched DEF Lapses, Around, Typed
<1> QED
  BY <1>1, <1>2, <1>3, <1>4, <1>5, <1>6, <1>7, <1>8, <1>9, SendAround, RecoverAround DEF Outside
-----------------------------------------------------------------------------
(* What a step of the journal keeps.                                         *)

\* The rows are the same, but for what became of their events.
RowsStay ==
    /\ rows' \in Seq(Row) /\ DOMAIN rows' = DOMAIN rows
    /\ \A i \in DOMAIN rows :
         /\ rows'[i].by = rows[i].by /\ rows'[i].n = rows[i].n /\ rows'[i].key = rows[i].key
         /\ rows'[i].kept => rows[i].kept

\* No task begins.
TasksGoOn ==
    \A l \in Loops : task'[l].pc # "idle" => task[l].pc # "idle" /\ task'[l].n = task[l].n

LEMMA RowsAre ==
    ASSUME Typed, NEW i \in DOMAIN rows
    PROVE  /\ rows[i].by \in Loops /\ rows[i].n \in Nat /\ rows[i].kept \in BOOLEAN
           /\ rows[i].key \in Keys \cup {NoKey}
<1>1. rows[i] \in Row
  BY ElementOfSeq, LenProperties DEF Typed
<1> QED
  BY <1>1 DEF Row

LEMMA SaidStays ==
    ASSUME RowsStay, NEW l, NEW n
    PROVE  Said(l, n)' <=> Said(l, n)
  BY DEF RowsStay, Said

\* The numbers of rows and tasks are numbers of events.
LEMMA NumbersFit ==
    ASSUME Typed, RowInv, TaskInv
    PROVE  /\ \A i \in DOMAIN rows : rows[i].n \in 1..Bound(rows[i].by)
           /\ \A l \in Loops : task[l].pc # "idle" => task[l].n \in 1..Bound(l)
<1>1. \A l \in Loops : made[l] \in Nat /\ made[l] <= Bound(l) /\ Bound(l) \in Nat
  BY LoopsAre DEF Typed
<1> QED
  BY <1>1, RowsAre DEF RowInv, TaskInv

LEMMA JournalKeeps ==
    ASSUME Typed, TaskInv, RowInv, KeptInv, EventInv,
           up, made' = made, JournalStep, RowsStay
    PROVE  RowInv' /\ KeptInv' /\ EventInv'
<1>1. RowInv'
  BY DEF RowInv, RowsStay
<1>2. ASSUME NEW j, Derived(j), NEW i \in DOMAIN rows', rows'[i].kept
      PROVE  j.ev[rows'[i].by][rows'[i].n].status \in Public
  <2> PICK l : l = rows[i].by
    OBVIOUS
  <2> PICK n : n = rows[i].n
    OBVIOUS
  <2>1. /\ i \in DOMAIN rows /\ rows'[i].by = l /\ rows'[i].n = n /\ rows[i].kept
        /\ l \in Loops /\ n \in 1..Bound(l)
    BY <1>2, RowsAre, NumbersFit DEF RowsStay
  <2>2. Becomes(l, n, j.ev[l][n])
    BY <1>2, <2>1 DEF Derived
  <2>3. mem.ev[l][n].status \in Public
    BY <2>1 DEF KeptInv
  <2> QED
    BY <1>2, <2>1, <2>2, <2>3 DEF Becomes, Public
<1>3. KeptInv'
  <2>1. ASSUME NEW i \in DOMAIN rows', rows'[i].kept
        PROVE  /\ disk'.ev[rows'[i].by][rows'[i].n].status \in Public
               /\ mem'.ev[rows'[i].by][rows'[i].n].status \in Public
    <3>1. mem'.ev[rows'[i].by][rows'[i].n].status \in Public
      BY <1>2, <2>1 DEF JournalStep
    <3>2. disk.ev[rows'[i].by][rows'[i].n].status \in Public
      BY <2>1 DEF KeptInv, RowsStay
    <3> QED
      BY <1>2, <2>1, <3>1, <3>2 DEF JournalStep
  <2> QED
    BY <2>1 DEF KeptInv
<1>4. ASSUME NEW j, Derived(j), NEW l \in Loops, NEW n \in 1..Bound(l)
      PROVE  /\ n > made[l] => j.ev[l][n] = NoEvent
             /\ j.ev[l][n].status = "delivered" => Said(l, n)
  <2>1. Becomes(l, n, j.ev[l][n])
    BY <1>4 DEF Derived
  <2>2. n > made[l] => mem.ev[l][n] = NoEvent /\ ~(n <= made[l])
    BY LoopsAre DEF EventInv, EventsOf, Typed
  <2>3. mem.ev[l][n].status = "delivered" => Said(l, n)
    BY DEF EventInv, EventsOf
  <2> QED
    BY <2>1, <2>2, <2>3 DEF Becomes
<1>5. EventInv'
  <2>1. \A l \in Loops : \A n \in 1..Bound(l) :
          /\ n > made[l] => mem'.ev[l][n] = NoEvent /\ disk'.ev[l][n] = NoEvent
          /\ mem'.ev[l][n].status = "delivered" => Said(l, n)
          /\ disk'.ev[l][n].status = "delivered" => Said(l, n)
    BY <1>4 DEF JournalStep, EventInv, EventsOf
  <2> QED
    BY <2>1, SaidStays DEF EventInv, EventsOf
<1> QED
  BY <1>1, <1>3, <1>5

\* The keys of the events, and of the rows, stay.
LEMMA KeysStay ==
    ASSUME Typed, TaskInv, RowInv, KeyInv, SaidOnce,
           up, made' = made, JournalStep, RowsStay, TasksGoOn
    PROVE  KeyInv' /\ SaidOnce'
<1>1. ASSUME NEW j, Derived(j), NEW l \in Loops, NEW n \in 1..Bound(l)
      PROVE  j.ev[l][n].key = mem.ev[l][n].key
  BY <1>1 DEF Derived, Becomes
<1>2. /\ \A l \in Loops : \A n \in 1..Bound(l) : mem'.ev[l][n].key = mem.ev[l][n].key
      /\ \/ \A l \in Loops : \A n \in 1..Bound(l) : disk'.ev[l][n].key = disk.ev[l][n].key
         \/ \A l \in Loops : \A n \in 1..Bound(l) : disk'.ev[l][n].key = mem.ev[l][n].key
  BY <1>1 DEF JournalStep
<1>3. \A i \in DOMAIN rows : rows[i].by \in Loops /\ rows[i].n \in 1..Bound(rows[i].by)
  BY RowsAre, NumbersFit
<1>4. "checkin" \in Loops /\ Bound("checkin") = CheckIns
  BY DEF Loops, Bound
<1>5. ASSUME NEW j, NEW k, KeysOf(k),
             \A l \in Loops : \A n \in 1..Bound(l) : j.ev[l][n].key = k.ev[l][n].key
      PROVE  KeysOf(j)'
  <2>1. \A l \in Loops : \A n, m \in 1..Bound(l) :
          j.ev[l][n].key = j.ev[l][m].key /\ j.ev[l][n].key # NoKey => n = m
    BY <1>5 DEF KeysOf
  <2>2. \A n \in 1..CheckIns : j.ev["checkin"][n].key = NoKey
    BY <1>4, <1>5 DEF KeysOf
  <2>3. \A i \in DOMAIN rows' : \A n \in 1..Bound(rows'[i].by) :
          n # rows'[i].n /\ rows'[i].key # NoKey => j.ev[rows'[i].by][n].key # rows'[i].key
    BY <1>3, <1>5 DEF KeysOf, RowsStay
  <2> QED
    BY <2>1, <2>2, <2>3 DEF KeysOf
<1>6. ASSUME NEW j, NEW k, Holds(k),
             \A l \in Loops : \A n \in 1..Bound(l) : j.ev[l][n].key = k.ev[l][n].key
      PROVE  Holds(j)'
  BY <1>6, <1>3 DEF Holds, RowsStay
<1>7. KeysOf(mem)' /\ KeysOf(disk)' /\ Holds(disk)' /\ Holds(mem)'
  <2> PICK m : m = mem'
    OBVIOUS
  <2> PICK d : d = disk'
    OBVIOUS
  <2>0. KeysOf(mem) /\ KeysOf(disk) /\ Holds(mem) /\ Holds(disk)
    BY DEF KeyInv
  <2>1. \A l \in Loops : \A n \in 1..Bound(l) : m.ev[l][n].key = mem.ev[l][n].key
    BY <1>2
  <2>2. KeysOf(m)' /\ Holds(m)'
    BY <2>0, <2>1, <1>5, <1>6
  <2>3. CASE \A l \in Loops : \A n \in 1..Bound(l) : d.ev[l][n].key = disk.ev[l][n].key
    <3>1. KeysOf(d)' /\ Holds(d)'
      BY <2>0, <2>3, <1>5, <1>6
    <3> QED
      BY <2>2, <3>1 DEF KeysOf, Holds
  <2>4. CASE \A l \in Loops : \A n \in 1..Bound(l) : d.ev[l][n].key = mem.ev[l][n].key
    <3>1. KeysOf(d)' /\ Holds(d)'
      BY <2>0, <2>4, <1>5, <1>6
    <3> QED
      BY <2>2, <3>1 DEF KeysOf, Holds
  <2> QED
    BY <2>3, <2>4, <1>2
<1>8. ASSUME NEW l \in Loops, task'[l].pc # "idle"
      PROVE  disk'.ev[l][task'[l].n].key = mem'.ev[l][task'[l].n].key
  <2> PICK n : n = task[l].n
    OBVIOUS
  <2>1. task[l].pc # "idle" /\ task'[l].n = n /\ n \in 1..Bound(l)
    BY <1>8, NumbersFit DEF TasksGoOn
  <2>2. disk.ev[l][n].key = mem.ev[l][n].key
    BY <2>1 DEF KeyInv
  <2> QED
    BY <2>1, <2>2, <1>2
<1>9. SaidOnce'
  BY DEF SaidOnce, RowsStay
<1> QED
  BY <1>7, <1>8, <1>9 DEF KeyInv
-----------------------------------------------------------------------------
(* Steps of a task.                                                          *)

Places == {"idle", "start", "open", "lock", "infer", "kill", "append", "record", "refresh",
           "closing"}

LEMMA PcChanges ==
    ASSUME NEW t \in Task, NEW p \in Places, NEW u, u = [t EXCEPT !.pc = p]
    PROVE  /\ u \in Task /\ u.pc = p /\ u.n = t.n /\ u.cancel = t.cancel
           /\ u.publishing = t.publishing /\ u.attached = t.attached
           /\ u.wanted = t.wanted /\ u.epoch = t.epoch /\ u.rev = t.rev /\ u.why = t.why
  BY DEF Task, Places

LEMMA FlagsChange ==
    ASSUME NEW t \in Task, NEW b \in BOOLEAN, NEW c \in BOOLEAN, NEW s \in Statuses,
           NEW u, u = [[[t EXCEPT !.cancel = c] EXCEPT !.publishing = b] EXCEPT !.why = s]
    PROVE  /\ u \in Task /\ u.pc = t.pc /\ u.n = t.n /\ u.cancel = c
           /\ u.publishing = b /\ u.attached = t.attached
           /\ u.wanted = t.wanted /\ u.epoch = t.epoch /\ u.rev = t.rev /\ u.why = s
  BY DEF Task

LEMMA NoTaskIs ==
    /\ NoTask \in Task /\ NoTask.pc = "idle" /\ NoTask.publishing = FALSE
    /\ NoTask.cancel = FALSE /\ NoTask.why = "none"
  BY DEF NoTask, Task, Statuses

Ended(n, b) == [NoTask EXCEPT !.pc = "closing", !.n = n, !.publishing = b]
Begun(n, e, r) == [NoTask EXCEPT !.pc = "start", !.n = n, !.epoch = e, !.rev = r]

LEMMA TaskEnding ==
    ASSUME NEW n \in Nat, NEW b \in BOOLEAN, NEW t, t = Ended(n, b)
    PROVE  t \in Task /\ t.pc = "closing" /\ t.n = n /\ t.publishing = b /\ t.cancel = FALSE
           /\ t.why = "none"
  BY DEF NoTask, Task, Statuses, Ended

LEMMA TaskBeginning ==
    ASSUME NEW n \in Nat, NEW e \in Nat, NEW r \in Nat, NEW t, t = Begun(n, e, r)
    PROVE  t \in Task /\ t.pc = "start" /\ t.n = n /\ t.publishing = FALSE /\ t.cancel = FALSE
           /\ t.why = "none"
  BY DEF NoTask, Task, Statuses, Begun

\* l's task goes on to pc p, as it is; or is over, but for its last write.
LEMMA GoesOn ==
    ASSUME Typed, NEW l \in Loops, NEW p \in Places, Goes(l, p)
    PROVE  /\ task' \in [Loops -> Task]
           /\ \A o \in Loops : o # l => task'[o] = task[o]
           /\ task'[l].pc = p /\ task'[l].n = task[l].n
           /\ task'[l].publishing = task[l].publishing /\ task'[l].cancel = task[l].cancel
           /\ task'[l].why = task[l].why
<1>1. task' = [task EXCEPT ![l] = [task[l] EXCEPT !.pc = p]]
  BY DEF Goes
<1>2. task \in [Loops -> Task] /\ task[l] \in Task /\ "none" \in Statuses
  BY DEF Typed, Statuses
<1> PICK t : t = [task[l] EXCEPT !.pc = p]
  OBVIOUS
<1>3. /\ t \in Task /\ t.pc = p /\ t.n = task[l].n
      /\ t.publishing = task[l].publishing /\ t.cancel = task[l].cancel
      /\ t.why = task[l].why
  BY <1>2, PcChanges
<1>4. task' = [task EXCEPT ![l] = t]
  BY <1>1
<1> QED
  BY <1>2, <1>3, <1>4

LEMMA FinishesOff ==
    ASSUME Typed, NEW l \in Loops, Finishes(l)
    PROVE  /\ task' \in [Loops -> Task]
           /\ \A o \in Loops : o # l => task'[o] = task[o]
           /\ task'[l].pc = "closing" /\ task'[l].n = task[l].n
           /\ task'[l].publishing = task[l].publishing /\ task'[l].cancel = FALSE
           /\ task'[l].why = "none"
<1>1. task \in [Loops -> Task] /\ task[l].n \in Nat /\ task[l].publishing \in BOOLEAN
  BY TasksAre
<1> PICK t : t = Ended(task[l].n, task[l].publishing)
  OBVIOUS
<1>2. /\ t \in Task /\ t.pc = "closing" /\ t.n = task[l].n
      /\ t.publishing = task[l].publishing /\ t.cancel = FALSE /\ t.why = "none"
  BY <1>1 DEF Ended, NoTask, Task, Statuses
<1>3. task' = [task EXCEPT ![l] = t]
  BY DEF Finishes, Ended
<1> QED
  BY <1>1, <1>2, <1>3

SaidNow(l, n) == \E i \in DOMAIN rows' : rows'[i].by = l /\ rows'[i].n = n

\* What a task may be after its step.
Fit(l, t) ==
    /\ t.pc # "idle" => task[l].pc # "idle" /\ t.n = task[l].n
    /\ t.pc # "idle" => (task[l].publishing => t.publishing)
    /\ t.publishing => ~t.cancel
    /\ t.pc \in Early => ~t.publishing
    /\ t.pc \in {"append", "record"} => t.publishing
    /\ t.pc = "record" => task[l].pc = "record" \/ SaidNow(l, task[l].n)
    /\ t.why # "delivered"

LEMMA TasksFit ==
    ASSUME Typed, TaskInv, made' = made, \A l \in Loops : Fit(l, task'[l]),
           \A l \in Loops : \A n \in Nat :
             /\ Said(l, n) => SaidNow(l, n)
             /\ SaidNow(l, n) => Said(l, n) \/ (task[l].publishing /\ n = task[l].n)
    PROVE  TaskInv' /\ TasksGoOn
<1>1. TasksGoOn
  BY DEF TasksGoOn, Fit
<1>2. ASSUME NEW l \in Loops
      PROVE  /\ task'[l].pc # "idle" => task'[l].n \in 1..made'[l]
             /\ task'[l].publishing => ~task'[l].cancel
             /\ task'[l].pc \in Early => ~task'[l].publishing
             /\ task'[l].pc \in {"append", "record"} => task'[l].publishing
             /\ task'[l].pc # "idle" /\ ~task'[l].publishing => ~SaidNow(l, task'[l].n)
             /\ task'[l].pc = "record" => SaidNow(l, task'[l].n)
             /\ task'[l].why # "delivered"
  <2>1. task[l].n \in Nat
    BY TasksAre
  <2> PICK t : t = task'[l]
    OBVIOUS
  <2>2. Fit(l, t)
    OBVIOUS
  <2>3. t.pc # "idle" => t.n \in 1..made[l]
    BY <2>2 DEF Fit, TaskInv
  <2>4. t.pc # "idle" /\ ~t.publishing => ~SaidNow(l, task[l].n) /\ t.n = task[l].n
    BY <2>1, <2>2 DEF Fit, TaskInv
  <2>5. t.pc = "record" => SaidNow(l, task[l].n) /\ t.n = task[l].n
    BY <2>1, <2>2 DEF Fit, TaskInv
  <2> QED
    BY <2>2, <2>3, <2>4, <2>5 DEF Fit
<1> QED
  BY <1>1, <1>2 DEF TaskInv, Said, SaidNow
\* What a step of a task has done, if it stored no row.
Moves ==
    /\ up /\ UNCHANGED <<up, made, crashes>>
    /\ RowsStay /\ JournalStep /\ TasksGoOn
    /\ task' \in [Loops -> Task] /\ lock' \in Locks /\ human' \in Humans
    /\ route' \in [kind : RouteKinds, at : RouteStops]
    /\ faults' \in 0..MaxFaults
    /\ TaskInv'

\* No task comes to speak.
Silent == \A o \in Loops : task'[o].pc \in {"append", "record"} => task'[o] = task[o]

TaskMoves == Moves /\ Silent

LEMMA RowsUnchanged ==
    ASSUME Typed, rows' = rows
    PROVE  RowsStay
  BY DEF RowsStay, Typed

LEMMA QuietFits ==
    ASSUME Typed, TaskInv, made' = made, RowsStay, \A l \in Loops : Fit(l, task'[l])
    PROVE  TaskInv' /\ TasksGoOn
<1>1. \A l, n : Said(l, n) <=> SaidNow(l, n)
  BY DEF RowsStay, Said, SaidNow
<1> QED
  BY <1>1, TasksFit

\* A task that is left where it is.
LEMMA StaysFit ==
    ASSUME Typed, TaskInv, RowsStay, NEW l \in Loops, task'[l] = task[l]
    PROVE  Fit(l, task'[l])
<1>1. task[l].pc = "record" => Said(l, task[l].n)
  BY DEF TaskInv
<1> QED
  BY <1>1 DEF Fit, TaskInv

\* l's task goes to a place where it says nothing.
LEMMA GoesQuiet ==
    ASSUME Typed, TaskInv, made' = made, RowsStay, NEW l \in Loops, task[l].pc # "idle",
           NEW p \in Early \cup {"refresh", "closing"},
           task[l].pc \in Early \/ p \notin Early, Goes(l, p)
    PROVE  task' \in [Loops -> Task] /\ TaskInv' /\ TasksGoOn /\ Silent
<1>1. p \in Places
  BY DEF Places, Early
<1>2. /\ task' \in [Loops -> Task]
      /\ \A o \in Loops : o # l => task'[o] = task[o]
      /\ task'[l].pc = p /\ task'[l].n = task[l].n
      /\ task'[l].publishing = task[l].publishing /\ task'[l].cancel = task[l].cancel
      /\ task'[l].why = task[l].why
  BY <1>1, GoesOn
<1>3. Fit(l, task'[l])
  BY <1>2 DEF Fit, TaskInv, Early
<1> QED
  BY <1>2, <1>3, StaysFit, QuietFits DEF Silent, Early

LEMMA FinishesQuiet ==
    ASSUME Typed, TaskInv, made' = made, RowsStay, NEW l \in Loops, task[l].pc # "idle",
           Finishes(l)
    PROVE  task' \in [Loops -> Task] /\ TaskInv' /\ TasksGoOn /\ Silent
<1>1. /\ task' \in [Loops -> Task]
      /\ \A o \in Loops : o # l => task'[o] = task[o]
      /\ task'[l].pc = "closing" /\ task'[l].n = task[l].n
      /\ task'[l].publishing = task[l].publishing /\ task'[l].cancel = FALSE
      /\ task'[l].why = "none"
  BY FinishesOff
<1>2. Fit(l, task'[l])
  BY <1>1 DEF Fit, TaskInv, Early
<1> QED
  BY <1>1, <1>2, StaysFit, QuietFits, NoTaskIs DEF Silent

\* l's task is over.
LEMMA EndsQuiet ==
    ASSUME Typed, TaskInv, made' = made, RowsStay, NEW l \in Loops,
           task' = [task EXCEPT ![l] = NoTask]
    PROVE  task' \in [Loops -> Task] /\ TaskInv' /\ TasksGoOn /\ Silent
<1>1. /\ task' \in [Loops -> Task] /\ task'[l] = NoTask
      /\ \A o \in Loops : o # l => task'[o] = task[o]
  BY NoTaskIs DEF Typed
<1>2. Fit(l, task'[l])
  BY <1>1, NoTaskIs DEF Fit, Early
<1> QED
  BY <1>1, <1>2, StaysFit, QuietFits, NoTaskIs DEF Silent
\* The steps of a task that leave the rows.
QuietStep(l) ==
    \/ Start(l) \/ Fails(l) \/ Acquire(l) \/ TimesOut(l) \/ Killed(l) \/ StaysQuiet(l)
    \/ Refreshes(l) \/ Cancelled(l)
    \/ l = "return" /\ Opens
    \/ \E w \in Outcomes : Closes(l, w)

\* A discarded event of a task that was not accepted has no row to keep.
LEMMA Discards ==
    ASSUME Typed, TaskInv, NEW l \in Loops, task[l].pc # "idle", ~task[l].publishing,
           rows' = rows, NEW s \in Statuses \ {"delivered"}
    PROVE  Derived(Told(l, s))
<1>1. \A i \in DOMAIN rows' : <<rows'[i].by, rows'[i].n>> = <<l, task[l].n>> => ~rows'[i].kept
  BY DEF TaskInv, Said
<1> QED
  BY <1>1, ToldDerived

LEMMA LeavesMoves ==
    ASSUME Typed, TaskInv, up, NEW l \in Loops, task[l].pc # "idle", ~task[l].publishing,
           NEW s \in Statuses \ {"delivered"}, Leaves(l, s)
    PROVE  TaskMoves
<1>1. /\ Finishes(l) /\ mem' = Told(l, s) /\ Release(l)
      /\ UNCHANGED <<up, disk, rows, human, route, made, faults, crashes>>
  BY DEF Leaves
<1>2. JournalStep
  BY <1>1, Discards DEF JournalStep
<1>3. RowsStay
  BY <1>1, RowsUnchanged
<1>4. lock' \in Locks
  BY <1>1 DEF Release, Typed, Locks
<1> QED
  BY <1>1, <1>2, <1>3, <1>4, FinishesQuiet DEF TaskMoves, Moves, Typed

LEMMA ProceedsMoves ==
    ASSUME Typed, TaskInv, up, NEW l \in Loops, task[l].pc \in Early,
           NEW p \in Early, Proceeds(l, p), lock' \in Locks
    PROVE  TaskMoves
<1>1. Goes(l, p) /\ UNCHANGED <<up, mem, disk, rows, human, route, made, faults, crashes>>
  BY DEF Proceeds
<1>2. JournalStep /\ RowsStay
  BY <1>1, Untouched, RowsUnchanged
<1>3. task' \in [Loops -> Task] /\ TaskInv' /\ TasksGoOn /\ Silent
  BY <1>1, <1>2, GoesQuiet DEF Early
<1> QED
  BY <1>1, <1>2, <1>3 DEF TaskMoves, Moves, Typed

LEMMA QuietMoves ==
    ASSUME Typed, TaskInv, NEW l \in Loops, QuietStep(l)
    PROVE  TaskMoves
<1>0. \A s \in {"stale", "failed_quiet", "quiet"} : s \in Statuses \ {"delivered"}
  BY DEF Statuses
<1>1. CASE Start(l)
  <2>1. up /\ task[l].pc = "start" /\ ~task[l].publishing
    BY <1>1 DEF Start, Runs, Yielding, TaskInv, Early
  <2>2. CASE Leaves(l, "stale")
    BY <1>0, <2>1, <2>2, LeavesMoves
  <2>3. ASSUME NEW p \in {"open", "lock"}, Proceeds(l, p), UNCHANGED lock PROVE TaskMoves
    BY <2>1, <2>3, ProceedsMoves DEF Early, Typed
  <2> QED
    BY <1>1, <2>2, <2>3 DEF Start
<1>2. CASE Fails(l)
  <2>1. up /\ task[l].pc \in {"start", "open", "infer"} /\ ~task[l].publishing
    BY <1>2 DEF Fails, Runs, Yielding, TaskInv, Early
  <2> QED
    BY <1>0, <1>2, <2>1, LeavesMoves DEF Fails
<1>3. CASE Acquire(l)
  <2>1. up /\ task[l].pc = "lock" /\ ~task[l].publishing
    BY <1>3 DEF Acquire, Runs, Yielding, TaskInv, Early
  <2>2. CASE Leaves(l, "stale")
    BY <1>0, <2>1, <2>2, LeavesMoves
  <2>3. CASE Proceeds(l, "infer") /\ lock' = l
    BY <2>1, <2>3, ProceedsMoves DEF Early, Locks
  <2> QED
    BY <1>3, <2>2, <2>3 DEF Acquire
<1>4. CASE TimesOut(l)
  <2>1. up /\ task[l].pc = "infer" /\ ~task[l].publishing /\ task[l] \in Task
    BY <1>4 DEF TimesOut, Runs, Yielding, TaskInv, Early, Typed
  <2> PICK t : t = [[task[l] EXCEPT !.pc = "kill"] EXCEPT !.why = "failed_quiet"]
    OBVIOUS
  <2>2. /\ t \in Task /\ t.pc = "kill" /\ t.n = task[l].n
        /\ t.publishing = task[l].publishing /\ t.cancel = task[l].cancel
        /\ t.why = "failed_quiet"
    BY <2>1 DEF Task, Statuses
  <2>3. task' = [task EXCEPT ![l] = t] /\ UNCHANGED <<up, mem, disk, rows, lock, human, route, made, faults, crashes>>
    BY <1>4 DEF TimesOut
  <2>4. task' \in [Loops -> Task] /\ task'[l] = t /\ \A o \in Loops : o # l => task'[o] = task[o]
    BY <2>2, <2>3 DEF Typed
  <2>5. JournalStep /\ RowsStay
    BY <2>3, Untouched, RowsUnchanged
  <2>6. Fit(l, task'[l])
    BY <2>1, <2>2, <2>4 DEF Fit
  <2>7. TaskInv' /\ TasksGoOn /\ Silent
    BY <2>2, <2>3, <2>4, <2>5, <2>6, StaysFit, QuietFits DEF Silent
  <2> QED
    BY <2>1, <2>3, <2>4, <2>5, <2>7 DEF TaskMoves, Moves, Typed
<1>5. CASE Killed(l)
  <2>1. up /\ task[l].pc = "kill" /\ ~task[l].publishing /\ Leaves(l, task[l].why)
    BY <1>5 DEF Killed, Runs, Yielding, TaskInv, Early
  <2>2. task[l].why \in Statuses \ {"delivered"}
    BY DEF Typed, Task, TaskInv
  <2> QED
    BY <2>1, <2>2, LeavesMoves
<1>6. CASE StaysQuiet(l)
  <2>1. /\ up /\ task[l].pc = "infer" /\ ~task[l].publishing /\ Goes(l, "refresh")
        /\ \E s \in {"quiet", "stale"} : mem' = Told(l, s)
        /\ UNCHANGED <<up, disk, rows, lock, human, route, made, faults, crashes>>
    BY <1>6 DEF StaysQuiet, Runs, Yielding, TaskInv, Early
  <2>2. JournalStep /\ RowsStay
    BY <1>0, <2>1, Discards, RowsUnchanged DEF JournalStep
  <2>3. task' \in [Loops -> Task] /\ TaskInv' /\ TasksGoOn /\ Silent
    BY <2>1, <2>2, GoesQuiet DEF Early
  <2> QED
    BY <2>1, <2>2, <2>3 DEF TaskMoves, Moves, Typed
<1>7. CASE Refreshes(l)
  <2>1. /\ up /\ task[l].pc = "refresh" /\ InPlace(mem, "ok") /\ Finishes(l) /\ Release(l)
        /\ UNCHANGED <<up, rows, human, route, made, crashes>>
    BY <1>7 DEF Refreshes, Runs, Yielding
  <2>2. JournalStep /\ faults' \in 0..MaxFaults
    BY <2>1, SameDerived, InPlaceStep DEF Typed, Outcomes
  <2>3. RowsStay /\ lock' \in Locks
    BY <2>1, RowsUnchanged DEF Release, Typed, Locks
  <2> QED
    BY <2>1, <2>2, <2>3, FinishesQuiet DEF TaskMoves, Moves, Typed
<1>8. CASE Cancelled(l)
  <2>1. /\ up /\ task[l].cancel /\ ~task[l].publishing
        /\ UNCHANGED <<up, disk, rows, human, route, made, faults, crashes>>
    BY <1>8 DEF Cancelled, Yielding, TaskInv
  <2>2. CASE task[l].pc \in {"open", "lock", "kill"} /\ Leaves(l, "stale")
    BY <1>0, <2>1, <2>2, LeavesMoves
  <2>3. CASE /\ task[l].pc \in {"infer", "refresh"}
             /\ task' = [task EXCEPT ![l].pc = "kill", ![l].cancel = FALSE, ![l].why = "stale"]
             /\ UNCHANGED <<mem, lock>>
    <3> PICK t : t = [[[task[l] EXCEPT !.pc = "kill"] EXCEPT !.cancel = FALSE] EXCEPT !.why = "stale"]
      OBVIOUS
    <3>1. task[l] \in Task
      BY DEF Typed
    <3>2. /\ t \in Task /\ t.pc = "kill" /\ t.n = task[l].n
          /\ t.publishing = task[l].publishing /\ t.cancel = FALSE /\ t.why = "stale"
      BY <3>1 DEF Task, Statuses
    <3>3. task' = [task EXCEPT ![l] = t]
      BY <2>3
    <3>4. task' \in [Loops -> Task] /\ task'[l] = t /\ \A o \in Loops : o # l => task'[o] = task[o]
      BY <3>2, <3>3 DEF Typed
    <3>5. JournalStep /\ RowsStay
      BY <2>1, <2>3, Untouched, RowsUnchanged
    <3>6. Fit(l, task'[l])
      BY <2>1, <2>3, <3>2, <3>4 DEF Fit
    <3>7. TaskInv' /\ TasksGoOn /\ Silent
      BY <2>1, <3>2, <3>4, <3>5, <3>6, StaysFit, QuietFits DEF Silent
    <3> QED
      BY <2>1, <2>3, <3>4, <3>5, <3>7 DEF TaskMoves, Moves, Typed
  <2>4. CASE task' = [task EXCEPT ![l] = NoTask] /\ UNCHANGED <<mem, lock>>
    <3>1. JournalStep /\ RowsStay
      BY <2>1, <2>4, Untouched, RowsUnchanged
    <3> QED
      BY <2>1, <2>4, <3>1, EndsQuiet DEF TaskMoves, Moves, Typed
  <2> QED
    BY <1>8, <2>2, <2>3, <2>4 DEF Cancelled, Leaves
<1>9. CASE l = "return" /\ Opens
  BY <1>9, ProceedsMoves DEF Opens, Runs, Yielding, Early, Typed
<1>10. ASSUME NEW w \in Outcomes, Closes(l, w) PROVE TaskMoves
  <2>1. /\ up /\ InPlace(mem, w) /\ task' = [task EXCEPT ![l] = NoTask]
        /\ human' \in {"none", human} /\ route' \in {NoRoute, route}
        /\ UNCHANGED <<up, rows, lock, made, crashes>>
    BY <1>10 DEF Closes
  <2>2. JournalStep /\ faults' \in 0..MaxFaults
    BY <2>1, SameDerived, InPlaceStep DEF Typed
  <2>3. NoRoute \in [kind : RouteKinds, at : RouteStops]
    BY DEF NoRoute, RouteKinds, RouteStops
  <2> QED
    BY <2>1, <2>2, <2>3, EndsQuiet, RowsUnchanged DEF TaskMoves, Moves, Typed, Humans
<1> QED
  BY <1>1, <1>2, <1>3, <1>4, <1>5, <1>6, <1>7, <1>8, <1>9, <1>10 DEF QuietStep
\* What is said is given up, and its row with it.
LEMMA UnkeptStays ==
    ASSUME Typed, NEW l \in Loops, Unkept(l)
    PROVE  /\ RowsStay
           /\ \A i \in DOMAIN rows' : <<rows'[i].by, rows'[i].n>> = <<l, task[l].n>> => ~rows'[i].kept
<1> DEFINE Lost(i) == [rows[i] EXCEPT !.kept = @ /\ <<rows[i].by, rows[i].n>> # <<l, task[l].n>>]
<1>1. rows' = [i \in DOMAIN rows |-> Lost(i)]
  BY DEF Unkept
<1>2. ASSUME NEW i \in DOMAIN rows
      PROVE  /\ Lost(i) \in Row /\ Lost(i).by = rows[i].by /\ Lost(i).n = rows[i].n
             /\ Lost(i).key = rows[i].key
             /\ Lost(i).kept => rows[i].kept /\ <<rows[i].by, rows[i].n>> # <<l, task[l].n>>
  <2>1. rows[i] \in Row
    BY ElementOfSeq, LenProperties DEF Typed
  <2> PICK k : k = (rows[i].kept /\ <<rows[i].by, rows[i].n>> # <<l, task[l].n>>)
    OBVIOUS
  <2>2. k \in BOOLEAN /\ (k => rows[i].kept /\ <<rows[i].by, rows[i].n>> # <<l, task[l].n>>)
    BY <2>1 DEF Row
  <2>3. Lost(i) = [rows[i] EXCEPT !.kept = k]
    OBVIOUS
  <2> HIDE DEF Lost
  <2> QED
    BY <2>1, <2>2, <2>3 DEF Row
<1> HIDE DEF Lost
<1>3. DOMAIN rows = 1..Len(rows) /\ Len(rows) \in Nat /\ rows \in Seq(Row)
  BY LenProperties DEF Typed
<1>4. rows' \in [1..Len(rows) -> Row]
  BY <1>1, <1>2, <1>3
<1>5. rows' \in Seq(Row)
  BY <1>3, <1>4, SeqDef
<1> QED
  BY <1>1, <1>2, <1>5 DEF RowsStay

LEMMA AcceptMoves ==
    ASSUME Typed, TaskInv, NEW l \in Loops, NEW w \in Outcomes, Accept(l, w)
    PROVE  /\ Moves
           /\ Silent \/ /\ task'[l].pc = "append" /\ \A o \in Loops : o # l => task'[o] = task[o]
                        /\ task'[l].wanted /\ task'[l].rev = mem'.rev
                        /\ task'[l].epoch = mem'.epoch /\ task'[l].attached = task[l].attached
                        /\ task'[l].n = task[l].n
                        /\ human' = "none"
                        /\ disk' = mem'
                        /\ task[l].attached => mem'.ev[l][task[l].n].status = "publishing"
<1>1. /\ Yielding /\ up /\ task[l].pc = "infer" /\ ~task[l].cancel /\ Current(l)
      /\ InPlace(Told(l, "publishing"), w)
      /\ UNCHANGED <<up, rows, human, route, made, crashes>>
  BY DEF Accept, Runs, Yielding
<1>2. /\ Derived(Told(l, "publishing"))
      /\ Told(l, "publishing").epoch = mem.epoch /\ Told(l, "publishing").rev = mem.rev
      /\ task[l].attached => Told(l, "publishing").ev[l][task[l].n].status = "publishing"
  BY <1>1, ToldDerived DEF Statuses
<1>3. JournalStep /\ faults' \in 0..MaxFaults
  BY <1>1, <1>2, InPlaceStep
<1>4. RowsStay /\ lock \in Locks /\ human \in Humans
      /\ route \in [kind : RouteKinds, at : RouteStops]
  BY <1>1, RowsUnchanged DEF Typed
<1>5. CASE w # "ok"
  <2>1. Finishes(l) /\ Release(l)
    BY <1>5 DEF Accept
  <2>2. task' \in [Loops -> Task] /\ TaskInv' /\ TasksGoOn /\ Silent
    BY <1>1, <1>4, <2>1, FinishesQuiet
  <2>3. lock' \in Locks
    BY <1>4, <2>1 DEF Release, Locks
  <2> QED
    BY <1>1, <1>3, <1>4, <2>2, <2>3 DEF Moves
<1>6. CASE w = "ok"
  <2>1. /\ task' = [task EXCEPT ![l].pc = "append", ![l].publishing = TRUE]
        /\ lock' = lock /\ mem' = Told(l, "publishing") /\ disk' = mem'
    BY <1>1, <1>6 DEF Accept, InPlace, Write
  <2> PICK t : t = [[task[l] EXCEPT !.pc = "append"] EXCEPT !.publishing = TRUE]
    OBVIOUS
  <2>2. task[l] \in Task
    BY DEF Typed
  <2>3. /\ t \in Task /\ t.pc = "append" /\ t.n = task[l].n /\ t.publishing = TRUE
        /\ t.cancel = task[l].cancel /\ t.wanted = task[l].wanted /\ t.rev = task[l].rev
        /\ t.epoch = task[l].epoch /\ t.attached = task[l].attached /\ t.why = task[l].why
    BY <2>2 DEF Task
  <2>4. task' = [task EXCEPT ![l] = t]
    BY <2>1
  <2>5. task' \in [Loops -> Task] /\ task'[l] = t /\ \A o \in Loops : o # l => task'[o] = task[o]
    BY <2>3, <2>4 DEF Typed
  <2>6. Fit(l, task'[l])
    BY <1>1, <2>3, <2>5 DEF Fit, Early, TaskInv
  <2>7. TaskInv' /\ TasksGoOn
    BY <1>1, <1>4, <2>5, <2>6, StaysFit, QuietFits
  <2>8. Moves
    BY <1>1, <1>3, <1>4, <2>1, <2>5, <2>7 DEF Moves
  <2> QED
    BY <1>1, <1>2, <2>1, <2>3, <2>5, <2>8 DEF Current
<1> QED
  BY <1>5, <1>6

LEMMA RecordsMoves ==
    ASSUME Typed, TaskInv, NEW l \in Loops, NEW w \in Outcomes,
           Records(l, w) \/ RefreshFails(l, w)
    PROVE  TaskMoves
<1>0. /\ Typed /\ lock \in Locks /\ human \in Humans /\ mem \in Journals
      /\ route \in [kind : RouteKinds, at : RouteStops]
      /\ {"delivered", "failed_quiet"} \subseteq Statuses
  BY DEF Typed, Statuses
<1>1. CASE Records(l, w)
  <2>1. /\ up /\ task[l].pc = "record" /\ Said(l, task[l].n)
        /\ UNCHANGED <<up, human, route, made, crashes>>
    BY <1>1 DEF Records, TaskInv
  <2>2. Derived(Told(l, "delivered"))
    BY <1>0, <2>1, ToldDerived
  <2>3. disk' = disk \/ Derived(disk')
    <3>1. CASE l = "checkin"
      BY <1>1, <2>2, <3>1, WriteDerived DEF Records
    <3>2. CASE l # "checkin"
      BY <1>1, <3>2 DEF Records
    <3> QED
      BY <3>1, <3>2
  <2>4. faults' \in 0..MaxFaults
    <3>1. CASE l = "checkin"
      BY <1>1, <2>2, <3>1, WriteDerived DEF Records
    <3>2. CASE l # "checkin"
      BY <1>1, <3>2 DEF Records, Typed
    <3> QED
      BY <3>1, <3>2
  <2>5. CASE w = "ok"
    <3>1. Goes(l, "refresh") /\ mem' = Told(l, "delivered") /\ UNCHANGED <<lock, rows>>
      BY <1>1, <2>5 DEF Records
    <3>2. JournalStep /\ RowsStay
      BY <2>2, <2>3, <3>1, RowsUnchanged DEF JournalStep
    <3>3. task' \in [Loops -> Task] /\ TaskInv' /\ TasksGoOn /\ Silent
      BY <2>1, <3>1, <3>2, GoesQuiet DEF Early
    <3> QED
      BY <1>0, <2>1, <2>4, <3>1, <3>2, <3>3 DEF TaskMoves, Moves
  <2>6. CASE w # "ok"
    <3>1. Finishes(l) /\ mem' = Told(l, "failed_quiet") /\ Release(l) /\ Unkept(l)
      BY <1>1, <2>6 DEF Records
    <3>2. RowsStay /\ Derived(mem')
      BY <1>0, <2>1, <3>1, UnkeptStays, ToldDerived
    <3>3. task' \in [Loops -> Task] /\ TaskInv' /\ TasksGoOn /\ Silent
      BY <2>1, <3>1, <3>2, FinishesQuiet
    <3>4. lock' \in Locks
      BY <1>0, <3>1 DEF Release, Locks
    <3> QED
      BY <1>0, <2>1, <2>3, <2>4, <3>1, <3>2, <3>3, <3>4 DEF TaskMoves, Moves, JournalStep
  <2> QED
    BY <2>5, <2>6
<1>2. CASE RefreshFails(l, w)
  <2>1. /\ up /\ task[l].pc = "refresh"
        /\ Finishes(l) /\ mem' = Told(l, "failed_quiet") /\ Release(l) /\ Unkept(l)
        /\ UNCHANGED <<up, human, route, made, crashes>>
    BY <1>2 DEF RefreshFails, Runs, Yielding
  <2>2. Derived(mem)
    BY <1>0, SameDerived
  <2>3. disk' = disk \/ Derived(disk')
    <3>1. CASE w = "ok"
      BY <1>2, <3>1 DEF RefreshFails
    <3>2. CASE w # "ok"
      BY <1>2, <2>2, <3>2, WriteDerived DEF RefreshFails
    <3> QED
      BY <3>1, <3>2
  <2>4. faults' \in 0..MaxFaults
    <3>1. CASE w = "ok"
      BY <1>2, <3>1 DEF RefreshFails, Typed
    <3>2. CASE w # "ok"
      BY <1>2, <2>2, <3>2, WriteDerived DEF RefreshFails
    <3> QED
      BY <3>1, <3>2
  <2>5. RowsStay /\ Derived(mem')
    BY <1>0, <2>1, UnkeptStays, ToldDerived
  <2>6. task' \in [Loops -> Task] /\ TaskInv' /\ TasksGoOn /\ Silent
    BY <2>1, <2>5, FinishesQuiet
  <2>7. lock' \in Locks
    BY <1>0, <2>1 DEF Release, Locks
  <2> QED
    BY <1>0, <2>1, <2>3, <2>4, <2>5, <2>6, <2>7 DEF TaskMoves, Moves, JournalStep
<1> QED
  BY <1>1, <1>2
-----------------------------------------------------------------------------
(* A row is stored.                                                          *)

LEMMA RowStored ==
    ASSUME Typed, TaskInv, NEW l \in Loops, task[l].pc = "append", AppendRow(l),
           ~Said(l, task[l].n)
    PROVE  /\ rows' \in Seq(Row) /\ Len(rows') = Len(rows) + 1
           /\ DOMAIN rows' = DOMAIN rows \cup {Len(rows) + 1} /\ Len(rows) + 1 \notin DOMAIN rows
           /\ \A i \in DOMAIN rows : rows'[i] = rows[i]
           /\ LET r == rows'[Len(rows) + 1]
              IN  /\ r.by = l /\ r.n = task[l].n /\ r.key = mem.ev[l][task[l].n].key
                  /\ r.kept = task[l].attached
<1>1. /\ rows \in Seq(Row) /\ task[l].n \in Nat /\ task[l].attached \in BOOLEAN
      /\ task[l].n \in 1..Bound(l) /\ made[l] <= Bound(l)
  BY TasksAre, LoopsAre DEF Typed, TaskInv
<1>2. mem.ev[l][task[l].n].key \in Keys \cup {NoKey}
  BY <1>1, JournalsAre DEF Typed
<1> PICK r : r = EventRow(l)
  OBVIOUS
<1>3. /\ r.by = l /\ r.n = task[l].n /\ r.key = mem.ev[l][task[l].n].key
      /\ r.kept = task[l].attached /\ r \in Row
  BY <1>1, <1>2 DEF EventRow, Row
<1>4. rows' = Append(rows, r)
  BY DEF AppendRow
<1>5. /\ rows' \in Seq(Row) /\ Len(rows') = Len(rows) + 1
      /\ \A i \in 1..Len(rows) : rows'[i] = rows[i]
      /\ rows'[Len(rows) + 1] = r
  BY <1>1, <1>3, <1>4, AppendProperties
<1>6. DOMAIN rows = 1..Len(rows) /\ Len(rows) \in Nat /\ DOMAIN rows' = 1..(Len(rows) + 1)
  BY <1>1, <1>5, LenProperties
<1> QED
  BY <1>3, <1>5, <1>6

\* l's task stores its row, or tries to.
Speaking(l) ==
    /\ up /\ task[l].pc = "append"
    /\ rows' = rows \/ AppendRow(l)
    /\ \/ Goes(l, "record") /\ AppendRow(l) /\ lock' = lock
       \/ Finishes(l) /\ Release(l)
    /\ UNCHANGED <<up, mem, disk, human, route, made, faults, crashes>>

LEMMA SpeakingSays ==
    ASSUME Typed, TaskInv, NEW l \in Loops, Speaking(l)
    PROVE  /\ \A o \in Loops : \A n \in Nat :
                /\ Said(o, n) => SaidNow(o, n)
                /\ SaidNow(o, n) => Said(o, n) \/ (o = l /\ n = task[l].n)
           /\ AppendRow(l) => SaidNow(l, task[l].n)
           /\ rows' \in Seq(Row)
<1>1. CASE rows' = rows
  BY <1>1 DEF Said, SaidNow, Typed, AppendRow
<1>2. CASE rows' # rows
  <2>1. AppendRow(l) /\ ~Said(l, task[l].n) /\ task[l].pc = "append"
    BY <1>2 DEF Speaking, AppendRow
  <2> PICK e : e = Len(rows) + 1
    OBVIOUS
  <2>2. /\ rows' \in Seq(Row)
        /\ DOMAIN rows' = DOMAIN rows \cup {e}
        /\ \A i \in DOMAIN rows : rows'[i] = rows[i]
        /\ rows'[e].by = l /\ rows'[e].n = task[l].n
    BY <2>1, RowStored
  <2> QED
    BY <2>2 DEF Said, SaidNow
<1> QED
  BY <1>1, <1>2

LEMMA SpeakingMoves ==
    ASSUME Typed, TaskInv, Alone, AcceptInv, NEW l \in Loops, Speaking(l)
    PROVE  Typed' /\ TaskInv' /\ Alone' /\ AcceptInv' /\ TasksGoOn
<1>0. /\ up /\ task[l].pc = "append" /\ task[l].publishing
      /\ UNCHANGED <<up, mem, disk, human, route, made, faults, crashes>>
  BY DEF Speaking, TaskInv
<1>1. /\ task' \in [Loops -> Task]
      /\ \A o \in Loops : o # l => task'[o] = task[o]
      /\ task'[l].pc \in {"record", "closing"} /\ task'[l].n = task[l].n
      /\ task'[l].publishing = task[l].publishing
      /\ task'[l].cancel = FALSE \/ task'[l].cancel = task[l].cancel
      /\ task'[l].why = "none" \/ task'[l].why = task[l].why
      /\ task'[l].pc = "record" => AppendRow(l)
  <2>1. CASE Goes(l, "record") /\ AppendRow(l)
    BY <2>1, GoesOn DEF Places
  <2>2. CASE Finishes(l)
    BY <2>2, FinishesOff
  <2> QED
    BY <2>1, <2>2 DEF Speaking
<1>2. Fit(l, task'[l])
  BY <1>0, <1>1, SpeakingSays DEF Fit, Early, TaskInv
<1>3. ASSUME NEW o \in Loops, o # l PROVE Fit(o, task'[o])
  <2>1. task'[o] = task[o] /\ (task[o].pc = "record" => Said(o, task[o].n)) /\ task[o].n \in Nat
    BY <1>1, <1>3, TasksAre DEF TaskInv
  <2> QED
    BY <2>1 DEF Fit, TaskInv
<1>4. TaskInv' /\ TasksGoOn
  BY <1>0, <1>2, <1>3, SpeakingSays, TasksFit
<1>5. lock' \in Locks
  BY DEF Speaking, Release, Typed, Locks
<1>6. Typed'
  BY <1>0, <1>1, <1>5, SpeakingSays DEF Typed
<1>7. \A o \in Loops : o # l => task'[o].pc \notin {"append", "record"}
  BY <1>0, <1>1 DEF Alone
<1>8. Alone' /\ AcceptInv'
  BY <1>1, <1>7 DEF Alone, AcceptInv
<1> QED
  BY <1>4, <1>6, <1>8

LEMMA SpeakingKeeps ==
    ASSUME Typed, TaskInv, AcceptInv, RowInv, KeptInv, EventInv, NEW l \in Loops, Speaking(l)
    PROVE  RowInv' /\ KeptInv' /\ EventInv'
<1>0. UNCHANGED <<up, mem, disk, made>> /\ task[l].pc = "append" /\ task[l].n \in 1..made[l]
  BY DEF Speaking, TaskInv
<1>1. EventInv'
  <2>1. \A o \in Loops : \A n \in 1..Bound(o) : Said(o, n) => Said(o, n)'
    BY SpeakingSays, LoopsAre DEF Said, SaidNow
  <2> QED
    BY <1>0, <2>1 DEF EventInv, EventsOf
<1>2. CASE rows' = rows
  BY <1>0, <1>1, <1>2 DEF RowInv, KeptInv
<1>3. CASE rows' # rows
  <2>1. AppendRow(l) /\ ~Said(l, task[l].n)
    BY <1>3 DEF Speaking, AppendRow
  <2> PICK e : e = Len(rows) + 1
    OBVIOUS
  <2>2. /\ DOMAIN rows' = DOMAIN rows \cup {e}
        /\ \A i \in DOMAIN rows : rows'[i] = rows[i]
        /\ rows'[e].by = l /\ rows'[e].n = task[l].n /\ rows'[e].kept = task[l].attached
    BY <1>0, <2>1, RowStored
  <2>3. RowInv'
    BY <1>0, <2>2 DEF RowInv
  <2>4. rows'[e].kept => /\ disk.ev[l][task[l].n].status \in Public
                         /\ mem.ev[l][task[l].n].status \in Public
    BY <1>0, <2>2 DEF AcceptInv, Public
  <2>5. KeptInv'
    BY <1>0, <2>2, <2>4 DEF KeptInv
  <2> QED
    BY <1>1, <2>3, <2>5
<1> QED
  BY <1>2, <1>3
LEMMA SpeakingKeys ==
    ASSUME Typed, TaskInv, RowInv, KeyInv, SaidOnce, TasksGoOn, NEW l \in Loops, Speaking(l)
    PROVE  KeyInv' /\ SaidOnce'
<1>0. /\ UNCHANGED <<up, mem, disk, made>> /\ task[l].pc = "append"
      /\ task[l].n \in 1..Bound(l) /\ up
  BY NumbersFit DEF Speaking
<1>1. \A o \in Loops : task'[o].pc # "idle" =>
        disk'.ev[o][task'[o].n].key = mem'.ev[o][task'[o].n].key
  BY <1>0 DEF KeyInv, TasksGoOn
<1>2. CASE rows' = rows
  BY <1>0, <1>1, <1>2 DEF KeyInv, KeysOf, Holds, SaidOnce
<1>3. CASE rows' # rows
  <2>1. AppendRow(l) /\ ~Said(l, task[l].n)
    BY <1>3 DEF Speaking, AppendRow
  <2> PICK e : e = Len(rows) + 1
    OBVIOUS
  <2> PICK n : n = task[l].n
    OBVIOUS
  <2> PICK k : k = mem.ev[l][n].key
    OBVIOUS
  <2>2. /\ DOMAIN rows' = DOMAIN rows \cup {e} /\ e \notin DOMAIN rows
        /\ \A i \in DOMAIN rows : rows'[i] = rows[i]
        /\ rows'[e].by = l /\ rows'[e].n = n /\ rows'[e].key = k
    BY <1>0, <2>1, RowStored
  <2>3. disk.ev[l][n].key = k /\ n \in 1..Bound(l)
    BY <1>0 DEF KeyInv
  <2>4. ASSUME NEW j, KeysOf(j), j.ev[l][n].key = k PROVE KeysOf(j)'
    <3>1. \A m \in 1..Bound(l) : m # n /\ k # NoKey => j.ev[l][m].key # k
      BY <2>3, <2>4 DEF KeysOf
    <3>2. \A i \in DOMAIN rows' : \A m \in 1..Bound(rows'[i].by) :
            m # rows'[i].n /\ rows'[i].key # NoKey => j.ev[rows'[i].by][m].key # rows'[i].key
      <4>1. \A i \in DOMAIN rows : \A m \in 1..Bound(rows[i].by) :
              m # rows[i].n /\ rows[i].key # NoKey => j.ev[rows[i].by][m].key # rows[i].key
        BY <2>4 DEF KeysOf
      <4> QED
        BY <2>2, <3>1, <4>1
    <3> QED
      BY <2>4, <3>2 DEF KeysOf
  <2>5. ASSUME NEW j, Holds(j), j.ev[l][n].key = k PROVE Holds(j)'
    BY <1>0, <2>2, <2>5 DEF Holds
  <2>6. KeysOf(mem)' /\ KeysOf(disk)' /\ Holds(mem)' /\ Holds(disk)'
    <3> PICK m : m = mem
      OBVIOUS
    <3> PICK d : d = disk
      OBVIOUS
    <3>1. KeysOf(m)' /\ KeysOf(d)' /\ Holds(m)' /\ Holds(d)'
      BY <1>0, <2>3, <2>4, <2>5 DEF KeyInv
    <3> QED
      BY <1>0, <3>1 DEF KeysOf, Holds
  <2>7. SaidOnce'
    <3>1. ASSUME NEW i \in DOMAIN rows, rows[i].by = l
          PROVE  rows[i].n # n /\ (k # NoKey => rows[i].key # k)
      <4>1. rows[i].n # n
        BY <2>1, <3>1 DEF Said
      <4> QED
        BY <2>3, <3>1, <4>1 DEF KeyInv, KeysOf
    <3> QED
      BY <2>2, <3>1 DEF SaidOnce
  <2> QED
    BY <1>1, <2>6, <2>7 DEF KeyInv
<1> QED
  BY <1>2, <1>3

-----------------------------------------------------------------------------
(* An event begins.                                                          *)

\* The journal with the next event of l, and the event of m that it forgets.
Opened(l, r) == [mem.ev[l] EXCEPT ![made[l] + 1] = [status |-> "running", key |-> r]]
WithNext(l, r) == [mem EXCEPT !.ev[l] = Kept(Opened(l, r))]
Forgets(l, r, m) ==
    /\ Opened(l, r)[m].status \notin Public
    /\ Cardinality({k \in DOMAIN Opened(l, r) : k > m /\ Opened(l, r)[k] # NoEvent}) >= KeepEvents

LEMMA NextEvents ==
    ASSUME Typed, NEW l \in Loops, NEW r \in Keys \cup {NoKey}, made[l] < Bound(l),
           NEW j, j = WithNext(l, r)
    PROVE  /\ j \in Journals /\ j.epoch = mem.epoch /\ j.rev = mem.rev
           /\ \A o \in Loops : o # l => j.ev[o] = mem.ev[o]
           /\ \A m \in 1..Bound(l) :
                j.ev[l][m] = IF Forgets(l, r, m) THEN NoEvent ELSE Opened(l, r)[m]
           /\ \A m \in 1..Bound(l) :
                Opened(l, r)[m] = IF m = made[l] + 1 THEN [status |-> "running", key |-> r]
                                                     ELSE mem.ev[l][m]
<1> PICK o : o = Opened(l, r)
  OBVIOUS
<1>1. [status |-> "running", key |-> r] \in Event /\ NoEvent \in Event
  BY FreshTyped DEF Event, Statuses
<1>2. mem.ev[l] \in [1..Bound(l) -> Event] /\ mem \in Journals /\ mem.ev \in Events
  BY JournalsAre DEF Typed, Events
<1>3. /\ o \in [1..Bound(l) -> Event]
      /\ \A m \in 1..Bound(l) :
           o[m] = IF m = made[l] + 1 THEN [status |-> "running", key |-> r] ELSE mem.ev[l][m]
  BY <1>1, <1>2 DEF Opened
<1> PICK k : k = Kept(o)
  OBVIOUS
<1>4. /\ k \in [1..Bound(l) -> Event]
      /\ \A m \in 1..Bound(l) : k[m] = IF Forgets(l, r, m) THEN NoEvent ELSE o[m]
  BY <1>1, <1>3 DEF Kept, Forgets, Public
<1> PICK e : e = [mem.ev EXCEPT ![l] = k]
  OBVIOUS
<1>5. /\ e = [p \in Loops |-> e[p]] /\ e[l] = k
      /\ \A p \in Loops : p # l => e[p] = mem.ev[p]
  BY <1>2 DEF Events
<1>6. e \in Events
  BY <1>2, <1>4, <1>5, EventsMake DEF Events
<1>7. j = [mem EXCEPT !.ev = e]
  BY DEF WithNext
<1>8. j \in Journals /\ j.ev = e /\ j.epoch = mem.epoch /\ j.rev = mem.rev
  BY <1>2, <1>6, <1>7 DEF Journals
<1> QED
  BY <1>3, <1>4, <1>5, <1>8

LEMMA OtherEvents ==
    ASSUME Typed, NEW l \in Loops, NEW r \in Keys \cup {NoKey}, made[l] < Bound(l),
           NEW o \in Loops, o # l
    PROVE  WithNext(l, r).ev[o] = mem.ev[o]
<1> PICK k : k = Kept(Opened(l, r))
  OBVIOUS
<1>1. mem \in Journals /\ DOMAIN mem.ev = Loops
  BY DEF Typed, Journals, Events
<1>2. WithNext(l, r) = [mem EXCEPT !.ev = [mem.ev EXCEPT ![l] = k]]
  BY DEF WithNext
<1>3. WithNext(l, r).ev = [mem.ev EXCEPT ![l] = k]
  BY <1>1, <1>2 DEF Journals
<1> QED
  BY <1>1, <1>3

\* A return is forgotten by the last one at the earliest.
LEMMA ForgetsLate ==
    ASSUME FewReturns, Typed, EventInv, NEW r \in Keys \cup {NoKey}, made["return"] < Returns,
           NEW m \in 1..Returns, Forgets("return", r, m), m <= made["return"]
    PROVE  made["return"] + 1 = Returns
<1> DEFINE S == {k \in DOMAIN Opened("return", r) : k > m /\ Opened("return", r)[k] # NoEvent}
<1>0. /\ "return" \in Loops /\ Bound("return") = Returns /\ made["return"] \in Nat
      /\ Returns \in Nat /\ KeepEvents \in Nat
  BY DEF Loops, Bound, Typed
<1>1. DOMAIN Opened("return", r) = 1..Returns
  BY <1>0, JournalsAre DEF Opened, Typed
<1>2. \A k \in 1..Returns : k > made["return"] + 1 => Opened("return", r)[k] = NoEvent
  <2> PICK j : j = WithNext("return", r)
    OBVIOUS
  <2>1. \A k \in 1..Returns :
          Opened("return", r)[k] = IF k = made["return"] + 1 THEN [status |-> "running", key |-> r]
                                   ELSE mem.ev["return"][k]
    BY <1>0, NextEvents
  <2>2. \A k \in 1..Returns : k > made["return"] => mem.ev["return"][k] = NoEvent
    BY <1>0 DEF EventInv, EventsOf
  <2> QED
    BY <1>0, <2>1, <2>2
<1>3. S \subseteq (m + 1)..(made["return"] + 1)
  BY <1>0, <1>1, <1>2
<1>4. IsFiniteSet((m + 1)..(made["return"] + 1))
      /\ Cardinality((m + 1)..(made["return"] + 1)) = made["return"] + 1 - m
  <2> PICK a : a = m + 1
    OBVIOUS
  <2> PICK b : b = made["return"] + 1
    OBVIOUS
  <2>1. a \in Int /\ b \in Int /\ a <= b
    BY <1>0
  <2>2. IsFiniteSet(a..b) /\ Cardinality(a..b) = IF a > b THEN 0 ELSE b - a + 1
    BY <2>1, FS_Interval, Zenon
  <2> QED
    BY <1>0, <2>1, <2>2
<1>5. Cardinality(S) <= made["return"] + 1 - m /\ Cardinality(S) \in Nat
  BY <1>3, <1>4, FS_Subset, FS_CardinalityType
<1>6. Cardinality(S) >= KeepEvents
  BY DEF Forgets
<1> QED
  BY <1>0, <1>5, <1>6 DEF FewReturns

LEMMA BeginTyped ==
    ASSUME Typed, TaskInv, Alone, AcceptInv, RowInv, NEW l \in Loops, NEW r \in Keys \cup {NoKey},
           NEW w \in Outcomes, Begin(l, r, w)
    PROVE  Typed' /\ TaskInv' /\ Alone' /\ AcceptInv' /\ RowInv'
<1> PICK j : j = WithNext(l, r)
  OBVIOUS
<1>1. /\ Yielding /\ up /\ task[l].pc = "idle" /\ made[l] < Bound(l)
      /\ made' = [made EXCEPT ![l] = made[l] + 1]
      /\ InPlace(j, w)
      /\ task' = IF w # "ok" THEN task ELSE [task EXCEPT ![l] = Begun(made[l] + 1, mem.epoch, mem.rev)]
      /\ UNCHANGED <<up, rows, lock, human, route, crashes>>
  BY DEF Begin, WithNext, Opened, Begun, Yielding
<1>2. j \in Journals
  BY <1>1, NextEvents
<1>3. mem' \in Journals /\ disk' \in Journals /\ faults' \in 0..MaxFaults
  BY <1>1, <1>2 DEF InPlace, Write, Typed, Outcomes
<1>4. /\ made' \in [Loops -> Nat] /\ made'[l] = made[l] + 1
      /\ \A o \in Loops : made[o] \in Nat /\ made[o] <= made'[o] /\ made'[o] <= Bound(o)
  BY <1>1, LoopsAre DEF Typed
<1>5. mem.epoch \in Nat /\ mem.rev \in Nat
  BY JournalsAre DEF Typed
<1> PICK t : t = Begun(made[l] + 1, mem.epoch, mem.rev)
  OBVIOUS
<1>6. /\ t \in Task /\ t.pc = "start" /\ t.n = made[l] + 1 /\ t.publishing = FALSE
      /\ t.cancel = FALSE /\ t.why = "none"
  BY <1>4, <1>5 DEF Begun, NoTask, Task, Statuses
<1>7. /\ task' \in [Loops -> Task]
      /\ \A o \in Loops : task'[o] = task[o] \/ (o = l /\ task'[o] = t)
  BY <1>1, <1>6 DEF Typed
<1>8. Typed'
  BY <1>1, <1>3, <1>4, <1>7 DEF Typed
<1>9. \A i \in DOMAIN rows : rows[i].by \in Loops /\ rows[i].n \in 1..made[rows[i].by]
  BY RowsAre DEF RowInv
<1>10. RowInv'
  BY <1>1, <1>4, <1>9 DEF RowInv
<1>11. ~Said(l, made[l] + 1)
  BY <1>4, <1>9 DEF Said
<1>12. TaskInv'
  <2>1. \A o \in Loops : \A n : Said(o, n)' <=> Said(o, n)
    BY <1>1 DEF Said
  <2> SUFFICES ASSUME NEW o \in Loops
               PROVE  /\ task'[o].pc # "idle" => task'[o].n \in 1..made'[o]
                      /\ task'[o].publishing => ~task'[o].cancel
                      /\ task'[o].pc \in Early => ~task'[o].publishing
                      /\ task'[o].pc \in {"append", "record"} => task'[o].publishing
                      /\ task'[o].pc # "idle" /\ ~task'[o].publishing => ~Said(o, task'[o].n)
                      /\ task'[o].pc = "record" => Said(o, task'[o].n)
                      /\ task'[o].why # "delivered"
    BY <1>1 DEF TaskInv, Said
  <2>2. CASE task'[o] = task[o]
    BY <1>4, <2>2, TasksAre DEF TaskInv
  <2>3. CASE o = l /\ task'[o] = t
    BY <1>4, <1>6, <1>11, <2>3 DEF Early
  <2> QED
    BY <1>7, <2>2, <2>3
<1>13. \A o \in Loops : task'[o].pc \notin {"append", "record"}
  BY <1>1, <1>6, <1>7 DEF Yielding, Loops
<1>14. Alone' /\ AcceptInv'
  BY <1>13 DEF Alone, AcceptInv
<1> QED
  BY <1>8, <1>10, <1>12, <1>14

LEMMA BeginKeeps ==
    ASSUME Typed, RowInv, KeptInv, EventInv, NEW l \in Loops, NEW r \in Keys \cup {NoKey},
           NEW w \in Outcomes, Begin(l, r, w)
    PROVE  KeptInv' /\ EventInv'
<1> PICK j : j = WithNext(l, r)
  OBVIOUS
<1>1. /\ up /\ made[l] < Bound(l) /\ made' = [made EXCEPT ![l] = made[l] + 1]
      /\ InPlace(j, w) /\ UNCHANGED <<up, rows>>
  BY DEF Begin, WithNext, Opened, Yielding
<1>2. mem' = j /\ (disk' = disk \/ disk' = j)
  BY <1>1 DEF InPlace, Write
<1>3. \A o \in Loops : /\ made[o] \in Nat /\ Bound(o) \in Nat /\ made[o] <= made'[o]
                       /\ o # l => made'[o] = made[o]
                       /\ made'[l] = made[l] + 1
  BY <1>1, LoopsAre DEF Typed
<1>4. ASSUME NEW o \in Loops, NEW m \in 1..Bound(o)
      PROVE  \/ j.ev[o][m] = mem.ev[o][m]
             \/ o = l /\ m = made[l] + 1
                /\ (j.ev[o][m] = NoEvent \/ j.ev[o][m] = [status |-> "running", key |-> r])
             \/ o = l /\ j.ev[o][m] = NoEvent /\ mem.ev[o][m].status \notin Public
  <2>1. CASE o # l
    BY <1>1, <2>1, NextEvents
  <2>2. CASE o = l
    <3>1. /\ j.ev[l][m] = IF Forgets(l, r, m) THEN NoEvent ELSE Opened(l, r)[m]
          /\ Opened(l, r)[m] = IF m = made[l] + 1 THEN [status |-> "running", key |-> r]
                                                  ELSE mem.ev[l][m]
      BY <1>1, <2>2, NextEvents
    <3> QED
      BY <2>2, <3>1 DEF Forgets
  <2> QED
    BY <2>1, <2>2
<1>5. NoEvent.status = "none" /\ [status |-> "running", key |-> r].status = "running"
  BY DEF NoEvent
<1>6. KeptInv'
  <2>1. ASSUME NEW i \in DOMAIN rows, rows[i].kept
        PROVE  /\ disk.ev[rows[i].by][rows[i].n].status \in Public
               /\ j.ev[rows[i].by][rows[i].n].status \in Public
    <3> PICK o : o = rows[i].by
      OBVIOUS
    <3> PICK n : n = rows[i].n
      OBVIOUS
    <3>1. o \in Loops /\ n \in 1..made[o] /\ n \in 1..Bound(o)
      BY RowsAre, LoopsAre DEF RowInv, Typed
    <3>2. mem.ev[o][n].status \in Public /\ disk.ev[o][n].status \in Public
      BY <1>1, <2>1 DEF KeptInv
    <3> QED
      BY <1>3, <1>4, <3>1, <3>2
  <2> QED
    BY <1>1, <1>2, <2>1 DEF KeptInv
<1>7. ASSUME NEW o \in Loops, NEW m \in 1..Bound(o)
      PROVE  /\ m > made'[o] => j.ev[o][m] = NoEvent /\ disk.ev[o][m] = NoEvent
             /\ j.ev[o][m].status = "delivered" => Said(o, m)
             /\ disk.ev[o][m].status = "delivered" => Said(o, m)
  <2>1. /\ m > made[o] => mem.ev[o][m] = NoEvent /\ disk.ev[o][m] = NoEvent
        /\ mem.ev[o][m].status = "delivered" => Said(o, m)
        /\ disk.ev[o][m].status = "delivered" => Said(o, m)
    BY DEF EventInv, EventsOf
  <2>2. m > made'[o] => m > made[o] /\ ~(o = l /\ m = made[l] + 1)
    BY <1>3
  <2> QED
    BY <1>4, <1>5, <2>1, <2>2
<1>8. EventInv'
  <2>1. \A o \in Loops : \A m : Said(o, m)' <=> Said(o, m)
    BY <1>1 DEF Said
  <2> QED
    BY <1>2, <1>7, <2>1 DEF EventInv, EventsOf
<1> QED
  BY <1>6, <1>8

LEMMA BeginKeys ==
    ASSUME FewReturns, Typed, TaskInv, RowInv, EventInv, KeyInv, SaidOnce, NEW l \in Loops,
           NEW r \in Keys \cup {NoKey}, NEW w \in Outcomes, Begin(l, r, w)
    PROVE  KeyInv' /\ SaidOnce'
<1> PICK j : j = WithNext(l, r)
  OBVIOUS
<1> PICK n : n = made[l] + 1
  OBVIOUS
<1>1. /\ up /\ task[l].pc = "idle" /\ made[l] < Bound(l)
      /\ made' = [made EXCEPT ![l] = made[l] + 1]
      /\ InPlace(j, w) /\ UNCHANGED <<up, rows>>
      /\ task' = IF w # "ok" THEN task ELSE [task EXCEPT ![l] = Begun(made[l] + 1, mem.epoch, mem.rev)]
  BY DEF Begin, WithNext, Opened, Begun, Yielding
<1>2. mem' = j /\ (disk' = disk \/ disk' = j) /\ (w = "ok" => disk' = j)
  BY <1>1 DEF InPlace, Write
<1>3. /\ n \in 1..Bound(l) /\ made[l] \in Nat /\ made'[l] = n
      /\ \A o \in Loops : /\ made[o] \in Nat /\ Bound(o) \in Nat /\ made'[o] \in Nat
                            /\ made[o] <= made'[o]
  BY <1>1, LoopsAre DEF Typed
<1>4. "checkin" \in Loops /\ Bound("checkin") = CheckIns /\ Bound("return") = Returns
  BY DEF Loops, Bound
<1>5. /\ l = "checkin" => r = NoKey
      /\ l = "return" => r \in Keys /\ \A m \in 1..Returns : mem.ev["return"][m].key # r
  BY DEF Begin, ReturnAdmitted, Loops
\* What the new journal holds of l.
<1>6. /\ \A o \in Loops : \A m \in 1..Bound(o) : o # l => j.ev[o][m].key = mem.ev[o][m].key
      /\ j.ev[l][n].key \in {r, NoKey}
      /\ \A m \in 1..Bound(l) : m # n => j.ev[l][m].key \in {mem.ev[l][m].key, NoKey}
  <2>0. made[l] < Bound(l)
    BY <1>1
  <2>1. \A o \in Loops : o # l => j.ev[o] = mem.ev[o]
    BY <2>0, OtherEvents
  <2>2. ASSUME NEW m \in 1..Bound(l)
        PROVE  /\ j.ev[l][m] = IF Forgets(l, r, m) THEN NoEvent ELSE Opened(l, r)[m]
               /\ Opened(l, r)[m] = IF m = n THEN [status |-> "running", key |-> r]
                                             ELSE mem.ev[l][m]
    BY <1>1, NextEvents
  <2>3. NoEvent.key = NoKey /\ [status |-> "running", key |-> r].key = r
    BY DEF NoEvent
  <2> QED
    BY <1>3, <2>1, <2>2, <2>3
\* While another event is to come, none is forgotten.
<1>7. ASSUME l = "return", n < Bound(l), NEW m \in 1..Bound(l), m <= made[l]
      PROVE  j.ev[l][m].key = mem.ev[l][m].key
  <2>1. ~Forgets(l, r, m)
    BY <1>1, <1>3, <1>4, <1>7, ForgetsLate
  <2>2. /\ j.ev[l][m] = IF Forgets(l, r, m) THEN NoEvent ELSE Opened(l, r)[m]
        /\ Opened(l, r)[m] = IF m = n THEN [status |-> "running", key |-> r] ELSE mem.ev[l][m]
    BY <1>1, NextEvents
  <2> QED
    BY <1>3, <1>7, <2>1, <2>2
<1>8. \A i \in DOMAIN rows : /\ rows[i].by \in Loops /\ rows[i].n \in 1..made[rows[i].by]
                             /\ rows[i].n \in 1..Bound(rows[i].by)
  BY RowsAre, NumbersFit DEF RowInv
<1>9. KeysOf(mem) /\ KeysOf(disk) /\ Holds(mem) /\ Holds(disk)
  BY <1>1 DEF KeyInv
\* A key of l is new.
<1>10. \A m \in 1..Bound(l) : r # NoKey => mem.ev[l][m].key # r
  BY <1>4, <1>5 DEF Loops
<1>11. \A i \in DOMAIN rows : rows[i].by = l /\ rows[i].key # NoKey => rows[i].key # r
  BY <1>1, <1>8, <1>9, <1>10 DEF Holds
<1>12. KeysOf(j)'
  <2>1. ASSUME NEW o \in Loops, NEW a \in 1..Bound(o), NEW b \in 1..Bound(o),
               j.ev[o][a].key = j.ev[o][b].key, j.ev[o][a].key # NoKey
        PROVE  a = b
    <3>1. mem.ev[o][a].key = mem.ev[o][b].key /\ mem.ev[o][a].key # NoKey => a = b
      BY <1>9 DEF KeysOf
    <3>2. CASE o # l
      BY <1>6, <2>1, <3>1, <3>2
    <3>3. CASE o = l
      BY <1>6, <1>10, <2>1, <3>1, <3>3
    <3> QED
      BY <3>2, <3>3
  <2>2. \A m \in 1..CheckIns : j.ev["checkin"][m].key = NoKey
    <3>1. \A m \in 1..CheckIns : mem.ev["checkin"][m].key = NoKey
      BY <1>9 DEF KeysOf
    <3> QED
      BY <1>4, <1>5, <1>6, <3>1
  <2>3. ASSUME NEW i \in DOMAIN rows, NEW m \in 1..Bound(rows[i].by),
               m # rows[i].n, rows[i].key # NoKey
        PROVE  j.ev[rows[i].by][m].key # rows[i].key
    <3>1. mem.ev[rows[i].by][m].key # rows[i].key
      BY <1>9, <2>3 DEF KeysOf
    <3>2. CASE rows[i].by # l
      BY <1>6, <1>8, <3>1, <3>2
    <3>3. CASE rows[i].by = l
      BY <1>6, <1>11, <2>3, <3>1, <3>3
    <3> QED
      BY <3>2, <3>3
  <2> QED
    BY <1>1, <2>1, <2>2, <2>3 DEF KeysOf
<1>13. KeysOf(disk)'
  <2> PICK d : d = disk'
    OBVIOUS
  <2>1. KeysOf(disk) => \/ d # disk \/ KeysOf(d)'
    BY <1>1 DEF KeysOf
  <2>2. KeysOf(d)'
    BY <1>2, <1>9, <1>12, <2>1
  <2> QED
    BY <2>2 DEF KeysOf
<1>14. Holds(j)'
  <2> SUFFICES ASSUME NEW i \in DOMAIN rows, rows[i].key # NoKey,
                      made'[rows[i].by] < Bound(rows[i].by)
               PROVE  j.ev[rows[i].by][rows[i].n].key = rows[i].key
    BY <1>1 DEF Holds
  <2>1. made[rows[i].by] < Bound(rows[i].by)
    <3>1. rows[i].by \in Loops
      BY <1>8
    <3> QED
      BY <1>3, <3>1
  <2>2. mem.ev[rows[i].by][rows[i].n].key = rows[i].key
    BY <1>9, <2>1 DEF Holds
  <2>3. rows[i].by = "return" \/ rows[i].by # l
    <3>1. l = "checkin" => mem.ev[l][rows[i].n].key = NoKey \/ rows[i].by # l
      BY <1>4, <1>8, <1>9 DEF KeysOf
    <3> QED
      BY <2>2, <3>1 DEF Loops
  <2>4. CASE rows[i].by # l
    BY <1>6, <1>8, <2>2, <2>4
  <2>5. CASE rows[i].by = l
    BY <1>3, <1>7, <1>8, <2>2, <2>3, <2>5
  <2> QED
    BY <2>4, <2>5
<1>15. Holds(disk)'
  <2> PICK d : d = disk'
    OBVIOUS
  <2>1. d = disk => Holds(d)'
    BY <1>1, <1>3, <1>8, <1>9 DEF Holds
  <2>2. Holds(d)'
    BY <1>2, <1>14, <2>1
  <2> QED
    BY <2>2 DEF Holds
<1>16. ASSUME NEW o \in Loops, task'[o].pc # "idle"
       PROVE  disk'.ev[o][task'[o].n].key = mem'.ev[o][task'[o].n].key
  <2>1. CASE w = "ok"
    BY <1>2, <2>1
  <2>2. CASE w # "ok"
    <3>1. task' = task /\ o # l
      BY <1>1, <1>16, <2>2
    <3>2. task[o].n \in 1..Bound(o) /\ disk.ev[o][task[o].n].key = mem.ev[o][task[o].n].key
      BY <1>16, <3>1, NumbersFit DEF KeyInv
    <3> QED
      BY <1>2, <1>6, <3>1, <3>2
  <2> QED
    BY <2>1, <2>2
<1>17. KeysOf(mem)' /\ Holds(mem)'
  <2> PICK m : m = mem'
    OBVIOUS
  <2>1. KeysOf(m)' /\ Holds(m)'
    BY <1>2, <1>12, <1>14
  <2> QED
    BY <2>1 DEF KeysOf, Holds
<1>18. SaidOnce'
  BY <1>1 DEF SaidOnce
<1> QED
  BY <1>13, <1>15, <1>16, <1>17, <1>18 DEF KeyInv
-----------------------------------------------------------------------------
(* The service stops and starts.                                             *)

LEMMA CrashKeeps ==
    ASSUME OutInv, Crash
    PROVE  OutInv' /\ (KeyInv /\ SaidOnce => KeyInv' /\ SaidOnce')
<1>0. Typed /\ KeptInv /\ RowInv /\ EventInv
  BY DEF OutInv
<1>1. /\ crashes' \in 0..MaxCrashes /\ up' = FALSE /\ mem' = FreshJournal
      /\ task' = [l \in Loops |-> NoTask]
      /\ lock' = "free" /\ human' = "none" /\ route' = NoRoute
      /\ UNCHANGED <<disk, rows, made, faults>>
  BY <1>0 DEF Crash, Typed
<1>2. /\ FreshJournal \in Journals
      /\ \A l \in Loops : \A n \in 1..Bound(l) : FreshJournal.ev[l][n] = NoEvent
      /\ NoEvent.key = NoKey /\ NoEvent.status = "none"
  BY FreshTyped DEF FreshJournal, NoEvent
<1>3. task' \in [Loops -> Task] /\ \A l \in Loops : task'[l] = NoTask
  BY <1>1, NoTaskIs
<1>4. Typed'
  BY <1>0, <1>1, <1>2, <1>3 DEF Typed, Locks, Humans, NoRoute, RouteKinds, RouteStops
<1>5. TaskInv' /\ Alone' /\ AcceptInv'
  BY <1>3, NoTaskIs DEF TaskInv, Alone, AcceptInv, Early
<1>6. RowInv' /\ KeptInv'
  BY <1>0, <1>1 DEF RowInv, KeptInv
<1>7. EventInv'
  BY <1>0, <1>1, <1>2 DEF EventInv, EventsOf, Said
<1>8. ASSUME KeyInv, SaidOnce PROVE KeyInv' /\ SaidOnce'
  <2>1. KeysOf(mem)'
    <3>1. "checkin" \in Loops /\ Bound("checkin") = CheckIns
      BY DEF Loops, Bound
    <3>2. \A i \in DOMAIN rows : rows[i].by \in Loops
      BY <1>0, RowsAre
    <3>3. \A l \in Loops : \A n \in 1..Bound(l) : mem'.ev[l][n].key = NoKey
      BY <1>1, <1>2
    <3> QED
      BY <1>1, <3>1, <3>2, <3>3 DEF KeysOf
  <2>2. KeysOf(disk)' /\ Holds(disk)'
    BY <1>1, <1>8 DEF KeyInv, KeysOf, Holds
  <2>3. \A l \in Loops : task'[l].pc = "idle"
    BY <1>3, NoTaskIs
  <2> QED
    BY <1>1, <1>8, <2>1, <2>2, <2>3 DEF KeyInv, SaidOnce
<1> QED
  BY <1>4, <1>5, <1>6, <1>7, <1>8 DEF OutInv

\* The journal as StartService reads it.
Loaded ==
    [disk EXCEPT !.ev = [l \in Loops |-> [n \in 1..Bound(l) |->
        IF disk.ev[l][n].status = "running" THEN Withdrawn(disk.ev[l][n]) ELSE disk.ev[l][n]]]]

LEMMA LoadedEvents ==
    ASSUME Typed, NEW j, j = Loaded
    PROVE  /\ j \in Journals
           /\ \A l \in Loops : \A n \in 1..Bound(l) :
                /\ j.ev[l][n].key = disk.ev[l][n].key
                /\ \/ j.ev[l][n] = disk.ev[l][n]
                   \/ j.ev[l][n].status = "stale" /\ disk.ev[l][n].status = "running"
<1> DEFINE e == [l \in Loops |-> [n \in 1..Bound(l) |->
        IF disk.ev[l][n].status = "running" THEN Withdrawn(disk.ev[l][n]) ELSE disk.ev[l][n]]]
<1>1. \A l \in Loops : \A n \in 1..Bound(l) :
        /\ disk.ev[l][n] \in Event /\ Withdrawn(disk.ev[l][n]) \in Event
        /\ Withdrawn(disk.ev[l][n]).key = disk.ev[l][n].key
        /\ Withdrawn(disk.ev[l][n]).status = "stale"
  <2>1. \A l \in Loops : \A n \in 1..Bound(l) : disk.ev[l][n] \in Event
    BY JournalsAre DEF Typed
  <2>2. ASSUME NEW w \in Event
        PROVE  Withdrawn(w) \in Event /\ Withdrawn(w).key = w.key /\ Withdrawn(w).status = "stale"
    <3>1. Withdrawn(w) = [status |-> "stale", key |-> w.key]
          /\ [status |-> "stale", key |-> w.key] \in Event
      BY EventChanges DEF Withdrawn, Statuses
    <3> QED
      BY <3>1
  <2> QED
    BY <2>1, <2>2
<1>2. j = [disk EXCEPT !.ev = e]
  BY DEF Loaded
<1>3. /\ e = [l \in Loops |-> e[l]]
      /\ \A l \in Loops : e[l] \in [1..Bound(l) -> Event]
      /\ \A l \in Loops : \A n \in 1..Bound(l) :
           e[l][n] = IF disk.ev[l][n].status = "running" THEN Withdrawn(disk.ev[l][n])
                                                         ELSE disk.ev[l][n]
  BY <1>1
<1> HIDE DEF e
<1>4. e \in Events
  BY <1>3, EventsMake
<1>5. j \in Journals /\ j.ev = e
  BY <1>2, <1>4, EventsChange DEF Typed
<1> QED
  BY <1>1, <1>3, <1>5

LEMMA StartKeeps ==
    ASSUME OutInv, StartService
    PROVE  OutInv' /\ (KeyInv /\ SaidOnce => KeyInv' /\ SaidOnce')
<1>0. Typed /\ KeptInv /\ RowInv /\ EventInv /\ TaskInv
  BY DEF OutInv
<1> PICK j : j = Loaded
  OBVIOUS
<1>1. /\ up' = TRUE /\ mem' = j
      /\ task' = [l \in Loops |-> NoTask]
      /\ lock' = "free" /\ human' = "none" /\ route' = [kind |-> "boot", at |-> "read"]
      /\ UNCHANGED <<disk, rows, made, faults, crashes>>
  BY DEF StartService, Loaded, Withdrawn, Going
<1>2. /\ j \in Journals
      /\ \A l \in Loops : \A n \in 1..Bound(l) :
           /\ j.ev[l][n].key = disk.ev[l][n].key
           /\ \/ j.ev[l][n] = disk.ev[l][n]
              \/ j.ev[l][n].status = "stale" /\ disk.ev[l][n].status = "running"
  BY <1>0, LoadedEvents
<1>3. task' \in [Loops -> Task] /\ \A l \in Loops : task'[l] = NoTask
  BY <1>1, NoTaskIs
<1>4. Typed'
  BY <1>0, <1>1, <1>2, <1>3 DEF Typed, Locks, Humans, RouteKinds, RouteStops
<1>5. TaskInv' /\ Alone' /\ AcceptInv'
  BY <1>3, NoTaskIs DEF TaskInv, Alone, AcceptInv, Early
<1>6. \A i \in DOMAIN rows : rows[i].by \in Loops /\ rows[i].n \in 1..Bound(rows[i].by)
  BY <1>0, RowsAre, NumbersFit
<1>7. RowInv' /\ KeptInv'
  BY <1>0, <1>1, <1>2, <1>6 DEF RowInv, KeptInv, Public
<1>8. EventInv'
  <2>1. \A l \in Loops : \A n \in 1..Bound(l) :
          /\ n > made[l] => j.ev[l][n] = NoEvent
          /\ j.ev[l][n].status = "delivered" => Said(l, n)
    BY <1>0, <1>2 DEF EventInv, EventsOf, NoEvent
  <2> QED
    BY <1>0, <1>1, <2>1 DEF EventInv, EventsOf, Said
<1>9. ASSUME KeyInv, SaidOnce PROVE KeyInv' /\ SaidOnce'
  <2>1. KeysOf(disk) /\ Holds(disk)
    BY <1>9 DEF KeyInv
  <2>2. KeysOf(j)
    <3>1. "checkin" \in Loops /\ Bound("checkin") = CheckIns
      BY DEF Loops, Bound
    <3>2. \A l \in Loops : \A n, m \in 1..Bound(l) :
            j.ev[l][n].key = j.ev[l][m].key /\ j.ev[l][n].key # NoKey => n = m
      BY <1>2, <2>1 DEF KeysOf
    <3>3. \A n \in 1..CheckIns : j.ev["checkin"][n].key = NoKey
      BY <1>2, <2>1, <3>1 DEF KeysOf
    <3>4. \A i \in DOMAIN rows : \A n \in 1..Bound(rows[i].by) :
            n # rows[i].n /\ rows[i].key # NoKey => j.ev[rows[i].by][n].key # rows[i].key
      BY <1>2, <1>6, <2>1 DEF KeysOf
    <3> QED
      BY <3>2, <3>3, <3>4 DEF KeysOf
  <2>3. Holds(j)
    BY <1>2, <1>6, <2>1 DEF Holds
  <2>4. KeysOf(mem)' /\ Holds(mem)'
    BY <1>1, <2>2, <2>3 DEF KeysOf, Holds
  <2>5. KeysOf(disk)' /\ Holds(disk)'
    BY <1>1, <2>1 DEF KeysOf, Holds
  <2>6. \A l \in Loops : task'[l].pc = "idle"
    BY <1>3, NoTaskIs
  <2> QED
    BY <1>1, <1>9, <2>4, <2>5, <2>6 DEF KeyInv, SaidOnce
<1> QED
  BY <1>4, <1>5, <1>7, <1>8, <1>9 DEF OutInv
-----------------------------------------------------------------------------
(* Every step.                                                               *)

LEMMA AroundKeeps ==
    ASSUME OutInv, Around
    PROVE  OutInv' /\ (KeyInv /\ SaidOnce => KeyInv' /\ SaidOnce')
<1>0. Typed /\ TaskInv /\ RowInv /\ KeptInv /\ EventInv /\ up /\ JournalStep /\ SamePlaces
      /\ UNCHANGED <<rows, made, crashes>>
  BY DEF OutInv, Around, Yielding
<1>1. RowsStay
  BY <1>0, RowsUnchanged
<1>2. Typed'
  BY <1>0, TypedJournals DEF Typed, Around, SamePlaces
<1>3. TasksGoOn
  BY <1>0 DEF TasksGoOn, SamePlaces
<1>4. TaskInv'
  BY <1>0 DEF TaskInv, SamePlaces, Live, Said
<1>5. \A l \in Loops : task'[l].pc \notin {"append", "record"}
  BY DEF Around, SamePlaces, Yielding, Loops
<1>6. Alone' /\ AcceptInv'
  BY <1>5 DEF Alone, AcceptInv
<1>7. RowInv' /\ KeptInv' /\ EventInv'
  BY <1>0, <1>1, JournalKeeps
<1>8. KeyInv /\ SaidOnce => KeyInv' /\ SaidOnce'
  BY <1>0, <1>1, <1>3, KeysStay
<1> QED
  BY <1>2, <1>4, <1>6, <1>7, <1>8 DEF OutInv

LEMMA MovesKeeps ==
    ASSUME OutInv, Moves, Alone', AcceptInv'
    PROVE  OutInv' /\ (KeyInv /\ SaidOnce => KeyInv' /\ SaidOnce')
<1>0. Typed /\ TaskInv /\ RowInv /\ KeptInv /\ EventInv /\ up /\ JournalStep /\ RowsStay
      /\ TasksGoOn /\ TaskInv' /\ UNCHANGED <<up, made, crashes>>
  BY DEF OutInv, Moves
<1>1. Typed'
  BY <1>0, TypedJournals DEF Typed, Moves, RowsStay
<1>2. RowInv' /\ KeptInv' /\ EventInv'
  BY <1>0, JournalKeeps
<1>3. KeyInv /\ SaidOnce => KeyInv' /\ SaidOnce'
  BY <1>0, KeysStay
<1> QED
  BY <1>0, <1>1, <1>2, <1>3 DEF OutInv

\* Nobody is about to store a row, and no one comes to.
LEMMA NoneAccepted ==
    ASSUME Silent, \A l \in Loops : task[l].pc # "append", Alone
    PROVE  Alone' /\ AcceptInv'
<1>1. \A l \in Loops : task'[l].pc # "append"
  BY DEF Silent
<1>2. Alone'
  BY DEF Alone, Silent
<1> QED
  BY <1>1, <1>2 DEF AcceptInv

LEMMA TaskKeeps ==
    ASSUME OutInv, NEW l \in Loops, TaskStep(l)
    PROVE  OutInv' /\ (KeyInv /\ SaidOnce => KeyInv' /\ SaidOnce')
<1>0. Typed /\ TaskInv /\ Alone /\ AcceptInv /\ RowInv /\ KeptInv /\ EventInv
  BY DEF OutInv
<1>1. ASSUME NEW w \in Outcomes, Closes(l, w)
      PROVE  OutInv' /\ (KeyInv /\ SaidOnce => KeyInv' /\ SaidOnce')
  <2>1. TaskMoves
    BY <1>0, <1>1, QuietMoves DEF QuietStep
  <2>2. /\ mem' = mem /\ (disk' = disk \/ disk' = mem)
        /\ human' = "none" \/ human' = human
    BY <1>1 DEF Closes, InPlace, Write
  <2>3. Alone'
    BY <1>0, <2>1 DEF TaskMoves, Silent, Alone
  <2>4. AcceptInv'
    <3> SUFFICES ASSUME NEW o \in Loops, task'[o].pc = "append"
                 PROVE  /\ human' = "none" /\ task'[o].wanted
                        /\ task'[o].rev = mem'.rev /\ task'[o].epoch = mem'.epoch
                        /\ task'[o].attached =>
                             /\ mem'.ev[o][task'[o].n].status = "publishing"
                             /\ disk'.ev[o][task'[o].n].status = "publishing"
      BY DEF AcceptInv
    <3>1. task'[o] = task[o]
      BY <2>1 DEF TaskMoves, Silent
    <3> QED
      BY <1>0, <2>2, <3>1 DEF AcceptInv
  <2> QED
    BY <2>1, <2>3, <2>4, MovesKeeps DEF TaskMoves
<1>2. ASSUME Yielding, TaskMoves
      PROVE  OutInv' /\ (KeyInv /\ SaidOnce => KeyInv' /\ SaidOnce')
  BY <1>0, <1>2, NoneAccepted, MovesKeeps DEF TaskMoves, Yielding, Loops
<1>3. ASSUME \/ Start(l) \/ Fails(l) \/ Acquire(l) \/ TimesOut(l) \/ Killed(l) \/ StaysQuiet(l)
             \/ Refreshes(l) \/ Cancelled(l) \/ (l = "return" /\ Opens)
      PROVE  OutInv' /\ (KeyInv /\ SaidOnce => KeyInv' /\ SaidOnce')
  <2>1. TaskMoves
    BY <1>0, <1>3, QuietMoves DEF QuietStep
  <2>2. Yielding
    BY <1>3 DEF Start, Fails, Acquire, TimesOut, Killed, StaysQuiet, Refreshes, Cancelled, Opens,
                Runs
  <2> QED
    BY <1>2, <2>1, <2>2
<1>4. ASSUME NEW w \in Outcomes, RefreshFails(l, w)
      PROVE  OutInv' /\ (KeyInv /\ SaidOnce => KeyInv' /\ SaidOnce')
  BY <1>0, <1>2, <1>4, RecordsMoves DEF RefreshFails, Runs
<1>5. ASSUME NEW w \in Outcomes, Records(l, w)
      PROVE  OutInv' /\ (KeyInv /\ SaidOnce => KeyInv' /\ SaidOnce')
  <2>1. TaskMoves
    BY <1>0, <1>5, RecordsMoves
  <2>2. task[l].pc = "record"
    BY <1>5 DEF Records
  <2>3. \A o \in Loops : task[o].pc # "append"
    BY <1>0, <2>2 DEF Alone
  <2> QED
    BY <1>0, <2>1, <2>3, NoneAccepted, MovesKeeps DEF TaskMoves
<1>6. ASSUME NEW w \in Outcomes, Accept(l, w)
      PROVE  OutInv' /\ (KeyInv /\ SaidOnce => KeyInv' /\ SaidOnce')
  <2>0. Yielding
    BY <1>6 DEF Accept, Runs
  <2>1. Moves
    BY <1>0, <1>6, AcceptMoves
  <2>2. CASE Silent
    BY <1>2, <2>0, <2>1, <2>2 DEF TaskMoves
  <2>3. CASE ~Silent
    <3>1. /\ task'[l].pc = "append" /\ \A o \in Loops : o # l => task'[o] = task[o]
          /\ task'[l].wanted /\ task'[l].rev = mem'.rev
          /\ task'[l].epoch = mem'.epoch /\ task'[l].attached = task[l].attached
          /\ task'[l].n = task[l].n
          /\ human' = "none"
          /\ disk' = mem'
          /\ task[l].attached => mem'.ev[l][task[l].n].status = "publishing"
      BY <1>0, <1>6, <2>3, AcceptMoves
    <3>2. \A o \in Loops : o # l => task'[o].pc \notin {"append", "record"}
      BY <2>0, <3>1 DEF Yielding, Loops
    <3>3. Alone'
      BY <3>2 DEF Alone
    <3>4. AcceptInv'
      BY <3>1, <3>2 DEF AcceptInv
    <3> QED
      BY <2>1, <3>3, <3>4, MovesKeeps
  <2> QED
    BY <2>2, <2>3
<1>7. ASSUME Appends(l) \/ AppendFails(l)
      PROVE  OutInv' /\ (KeyInv /\ SaidOnce => KeyInv' /\ SaidOnce')
  <2>1. Speaking(l)
    BY <1>7 DEF Appends, AppendFails, Speaking
  <2>2. Typed' /\ TaskInv' /\ Alone' /\ AcceptInv' /\ TasksGoOn
    BY <1>0, <2>1, SpeakingMoves
  <2>3. RowInv' /\ KeptInv' /\ EventInv'
    BY <1>0, <2>1, SpeakingKeeps
  <2> QED
    BY <1>0, <2>1, <2>2, <2>3, SpeakingKeys DEF OutInv
<1> QED
  BY <1>1, <1>3, <1>4, <1>5, <1>6, <1>7 DEF TaskStep

LEMMA NextKeeps ==
    ASSUME OutInv, Next
    PROVE  OutInv' /\ (FewReturns /\ KeyInv /\ SaidOnce => KeyInv' /\ SaidOnce')
<1>0. Typed /\ TaskInv /\ Alone /\ AcceptInv /\ RowInv /\ KeptInv /\ EventInv
  BY DEF OutInv
<1>1. CASE \E l \in Loops : TaskStep(l)
  BY <1>1, TaskKeeps
<1>2. CASE HumanStep \/ RouteStep
  BY <1>0, <1>2, HumanAround, RouteAround, AroundKeeps
<1>3. CASE Outside
  <2>1. CASE Around
    BY <2>1, AroundKeeps
  <2>2. ASSUME NEW l \in Loops, NEW r \in Keys \cup {NoKey}, NEW w \in Outcomes, Begin(l, r, w)
        PROVE  OutInv' /\ (FewReturns /\ KeyInv /\ SaidOnce => KeyInv' /\ SaidOnce')
    <3>1. OutInv'
      BY <1>0, <2>2, BeginTyped, BeginKeeps DEF OutInv
    <3> QED
      BY <1>0, <2>2, <3>1, BeginKeys
  <2>3. CASE Crash
    BY <2>3, CrashKeeps
  <2>4. CASE StartService
    BY <2>4, StartKeeps
  <2> QED
    BY <1>0, <1>3, <2>1, <2>2, <2>3, <2>4, OutsideAround
<1> QED
  BY <1>1, <1>2, <1>3 DEF Next

LEMMA InitKeeps ==
    ASSUME Init
    PROVE  OutInv /\ KeyInv /\ SaidOnce
<1>1. /\ FreshJournal \in Journals
      /\ \A l \in Loops : \A n \in 1..Bound(l) : FreshJournal.ev[l][n] = NoEvent
      /\ NoEvent.key = NoKey /\ NoEvent.status = "none"
  BY FreshTyped DEF FreshJournal, NoEvent
<1>2. rows = <<>> /\ rows \in Seq(Row) /\ DOMAIN rows = {}
  BY EmptySeq DEF Init
<1>3. task \in [Loops -> Task] /\ \A l \in Loops : task[l] = NoTask
  BY NoTaskIs DEF Init
<1>4. "checkin" \in Loops /\ Bound("checkin") = CheckIns
  BY DEF Loops, Bound
<1>5. Typed
  <2>1. made \in [Loops -> Nat] /\ \A l \in Loops : made[l] <= Bound(l)
    BY LoopsAre DEF Init
  <2>2. faults \in 0..MaxFaults /\ crashes \in 0..MaxCrashes
    BY DEF Init
  <2>3. NoRoute \in [kind : RouteKinds, at : RouteStops]
    BY DEF NoRoute, RouteKinds, RouteStops
  <2> QED
    BY <1>1, <1>2, <1>3, <2>1, <2>2, <2>3 DEF Init, Typed, Locks, Humans
<1>6. TaskInv /\ Alone /\ AcceptInv
  BY <1>3, NoTaskIs DEF TaskInv, Alone, AcceptInv, Early
<1>7. RowInv /\ KeptInv /\ SaidOnce
  BY <1>2 DEF RowInv, KeptInv, SaidOnce
<1>8. EventInv
  BY <1>1 DEF Init, EventInv, EventsOf
<1>9. KeyInv
  BY <1>1, <1>2, <1>3, <1>4, NoTaskIs DEF Init, KeyInv, KeysOf, Holds
<1> QED
  BY <1>5, <1>6, <1>7, <1>8, <1>9 DEF OutInv
\* The rows of native history: all but one of the steps leave them.
LEMMA NextRows ==
    ASSUME OutInv, Next
    PROVE  RowsStay \/ \E l \in Loops : Speaking(l)
<1>0. Typed /\ TaskInv /\ EventInv /\ RowInv
  BY DEF OutInv
<1>1. ASSUME NEW l \in Loops, TaskStep(l) PROVE RowsStay \/ Speaking(l)
  <2>1. CASE QuietStep(l)
    BY <1>0, <2>1, QuietMoves DEF TaskMoves, Moves
  <2>2. ASSUME NEW w \in Outcomes, Accept(l, w) \/ Records(l, w) \/ RefreshFails(l, w)
        PROVE  RowsStay
    BY <1>0, <2>2, AcceptMoves, RecordsMoves DEF TaskMoves, Moves
  <2>3. CASE Appends(l) \/ AppendFails(l)
    BY <2>3 DEF Appends, AppendFails, Speaking
  <2> QED
    BY <1>1, <2>1, <2>2, <2>3 DEF TaskStep, QuietStep
<1>2. CASE Around
  BY <1>0, <1>2, RowsUnchanged DEF Around
<1>3. CASE HumanStep \/ RouteStep
  BY <1>0, <1>2, <1>3, HumanAround, RouteAround
<1>4. CASE Outside
  <2>1. CASE ~Around
    <3>1. rows' = rows
      BY <1>0, <1>4, <2>1, OutsideAround DEF Begin, Crash, StartService
    <3> QED
      BY <1>0, <3>1, RowsUnchanged
  <2> QED
    BY <1>2, <2>1
<1> QED
  BY <1>1, <1>3, <1>4 DEF Next

-----------------------------------------------------------------------------
(* Theorems.                                                                 *)

LEMMA StillKeeps ==
    ASSUME OutInv, UNCHANGED vars
    PROVE  OutInv'
  BY DEF vars, OutInv, Typed, TaskInv, Alone, AcceptInv, RowInv, KeptInv, EventInv, EventsOf, Said

LEMMA OutInvIsTyped ==
    ASSUME OutInv
    PROVE  TypeOK
<1>1. Typed
  BY DEF OutInv
<1>2. Journals \subseteq Journal
  BY DEF Journals, Journal, Events
<1> QED
  BY <1>1, <1>2 DEF Typed, TypeOK, Row, RouteKinds, RouteStops, Humans, Locks

\* OutInv is an invariant of every instance.
THEOREM OutreachInvariant == Spec => []OutInv
<1>1. Init => OutInv
  BY InitKeeps
<1>2. OutInv /\ [Next]_vars => OutInv'
  BY StillKeeps, NextKeeps
<1> QED
  BY <1>1, <1>2, PTL DEF Spec

\* Everything keeps its type: journals of any number of events, for tasks, routes and
\* turns in any order, with failed writes and kills.
THEOREM OutreachTyped == Spec => []TypeOK
<1>1. OutInv => TypeOK
  BY OutInvIsTyped
<1> QED
  BY <1>1, OutreachInvariant, PTL

\* What was said stays in the conversation: its event is accepted or delivered in the
\* journal file, whatever write fails, whatever preempts the loops and whenever the
\* service is killed. The exceptions are the rows of the two findings.
THEOREM RowsAreKept == Spec => []SaidIsKept
<1>1. OutInv => SaidIsKept
  BY DEF OutInv, KeptInv, SaidIsKept, OnDisk, Public
<1> QED
  BY <1>1, OutreachInvariant, PTL

\* An event that counts as delivered was said: no append that fails half-way, and no
\* recovery, records more than there is.
THEOREM NothingUnsaid == Spec => []DeliveredWasSaid
<1>1. OutInv => DeliveredWasSaid
  <2> SUFFICES ASSUME OutInv PROVE DeliveredWasSaid
    OBVIOUS
  <2>1. \A l \in Loops : DOMAIN mem.ev[l] = 1..Bound(l)
    BY JournalsAre DEF OutInv, Typed
  <2> QED
    BY <2>1 DEF OutInv, EventInv, EventsOf, DeliveredWasSaid, OnDisk
<1> QED
  BY <1>1, OutreachInvariant, PTL

\* A row is stored only while what decide found before its inference still holds: the
\* person has not sent or changed anything, the list is the same, the permission stands.
\* Between the acceptance and the row no other coroutine runs.
THEOREM SpokenWhileWanted == Spec => SaidWhileWanted
<1>1. ASSUME OutInv, [Next]_vars, NEW l \in Loops, Speaks(l)
      PROVE  /\ human = "none" /\ task[l].wanted
             /\ task[l].rev = mem.rev /\ task[l].epoch = mem.epoch
  <2>0. Typed /\ TaskInv /\ AcceptInv /\ rows \in Seq(Row) /\ Len(rows) \in Nat
        /\ DOMAIN rows = 1..Len(rows)
    BY <1>1, LenProperties DEF OutInv, Typed
  <2>1. ~RowsStay
    <3>1. ASSUME RowsStay PROVE FALSE
      <4>1. rows' \in Seq(Row) /\ Len(rows') \in Nat /\ 1..Len(rows') = 1..Len(rows)
        BY <2>0, <3>1, LenProperties DEF RowsStay
      <4>2. Len(rows') > Len(rows)
        BY <1>1 DEF Speaks
      <4>3. Len(rows') \in 1..Len(rows') /\ Len(rows') \notin 1..Len(rows)
        BY <2>0, <4>1, <4>2
      <4> QED
        BY <4>1, <4>3
    <3> QED
      BY <3>1
  <2>2. Next
    BY <1>1, <2>0, <2>1, RowsUnchanged DEF vars
  <2>3. PICK o \in Loops : Speaking(o)
    BY <1>1, <2>1, <2>2, NextRows
  <2>4. rows' # rows
    BY <2>0, <2>1, RowsUnchanged
  <2>5. AppendRow(o) /\ ~Said(o, task[o].n) /\ task[o].pc = "append"
    BY <2>3, <2>4 DEF Speaking, AppendRow
  <2>6. rows'[Len(rows')].by = o
    BY <2>0, <2>5, RowStored
  <2>7. o = l
    BY <1>1, <2>6 DEF Speaks
  <2> QED
    BY <2>0, <2>5, <2>7 DEF AcceptInv
<1>2. OutInv /\ [Next]_vars =>
        [\A l \in Loops : Speaks(l) =>
           /\ human = "none" /\ task[l].wanted
           /\ task[l].rev = mem.rev /\ task[l].epoch = mem.epoch]_vars
  BY <1>1
<1> QED
  BY <1>2, OutreachInvariant, PTL DEF Spec, SaidWhileWanted

\* Nothing is said twice, by event or by return key, while no more returns are made than
\* the journal keeps beside the last one. More returns would let it forget the key of one
\* that was said and whose record was replaced under way.
THEOREM NothingTwice ==
    ASSUME FewReturns
    PROVE  Spec => []SaidOnce
<1> DEFINE Inv == OutInv /\ KeyInv /\ SaidOnce
<1>1. Init => Inv
  BY InitKeeps
<1>2. Inv /\ [Next]_vars => Inv'
  <2>1. ASSUME Inv, UNCHANGED vars PROVE Inv'
    BY <2>1 DEF vars, OutInv, Typed, TaskInv, Alone, AcceptInv, RowInv, KeptInv, EventInv,
                EventsOf, Said, KeyInv, KeysOf, Holds, SaidOnce
  <2> QED
    BY <2>1, NextKeeps
<1>3. Inv => SaidOnce
  OBVIOUS
<1> HIDE DEF Inv
<1> QED
  BY <1>1, <1>2, <1>3, PTL DEF Spec
=============================================================================
