----------------------------- MODULE PartsProofs -----------------------------
(***************************************************************************)
(* Proofs about the small parts around the service, for any values of      *)
(* their constants: each has an inductive invariant of its own, with a     *)
(* lemma on Init and one on Next.  ClientsProofs puts them together.       *)
(***************************************************************************)
EXTENDS LiveUpdatesProofs

CONSTANTS
    Sites, NoSite, RetryLimit, MaxActs,
    Hosts, MaxRefreshes, MaxClicks,
    MaxPorts, MaxRequests, MaxSteps,
    Cals, Primary, MaxTicks,
    MaxLeft, MaxEfforts,
    Apps, Mcps, Nobody, MaxTouches,
    Skills, Linked, CapChats, MaxTurns,
    Inboxes, NoInbox, MaxMoves,
    LibChats, Projects, Nothing, LibBudgets,
    RunChats, RunIds, NoRun, DismissalCap, MaxShows,
    MaxEvents, MaxAlerted, MaxSeen, MaxLoads, Unreadable,
    Talks, MaxTokens, MaxAsks

VARIABLES
    chrome, worker, calls, shared, told, acts,
    granted, stored, popup, waits, clicks,
    lease, posts, page, wire, ports, share, taken, steps,
    google, calendarShown, choice, panel, call, calendarSaved, ticks,
    world, seen, setupCard, monitor, onScreen, efforts,
    conns, manager, reading, writing, touches,
    caps, list, get, put, turns,
    mail, sources, fetching, posting, moves,
    store, lib, libWire, manage, allot,
    work, flow, receipts, waved, shows,
    kind, said, convo, eligible, poll, pol, saved, focused, over, loads, alerts, shown, old,
    usage, detail, contextAsked

Native == INSTANCE NativeBridge
Popup == INSTANCE ExtensionPopup
Link == INSTANCE ActivityLink
Calendar == INSTANCE CalendarPanel WITH shown <- calendarShown, saved <- calendarSaved
Setup == INSTANCE SourceSetup WITH card <- setupCard
Connections == INSTANCE ConnectionsPanel
Capabilities == INSTANCE CapabilitiesPanel
Mail == INSTANCE MailSources
Library == INSTANCE ChatLibrary WITH wire <- libWire
Workflow == INSTANCE WorkflowPanel
Surface == INSTANCE CheckInSurface
Context == INSTANCE ContextPanel WITH asked <- contextAsked

-----------------------------------------------------------------------------
(* More about what Lists computes.                                          *)

LEMMA OnlyAll ==
    ASSUME NEW T, NEW s \in Seq(T), NEW S
    PROVE  Names(s) \subseteq S => Only(s, S) = s
  <1>1. PICK f \in [0 .. Len(s) -> Seq(T)] :
          /\ f[0] = <<>> /\ Only(s, S) = f[Len(s)]
          /\ \A n \in 1 .. Len(s) : f[n] = IF s[n] \in S THEN Append(f[n - 1], s[n]) ELSE f[n - 1]
    BY OnlySteps
  <1> SUFFICES ASSUME Names(s) \subseteq S PROVE Only(s, S) = s
    OBVIOUS
  <1> DEFINE Good(n) == Len(f[n]) = n /\ \A i \in 1 .. n : f[n][i] = s[i]
             G == {n \in Nat : n <= Len(s) => Good(n)}
  <1>2. 0 \in G
    BY <1>1
  <1>3. ASSUME NEW n \in Nat, n \in G PROVE n + 1 \in G
    <2>1. SUFFICES ASSUME n + 1 <= Len(s) PROVE Good(n + 1)
      <3> HIDE DEF Good
      <3>1. QED
        OBVIOUS
    <2>2. Len(s) \in Nat /\ n <= Len(s)
      BY <2>1
    <2>3. Good(n)
      <3> HIDE DEF Good
      <3>1. QED
        BY <1>3, <2>2
    <2>4. n \in 0 .. Len(s) /\ n + 1 \in 1 .. Len(s) /\ (n + 1) - 1 = n
      BY <2>1, <2>2
    <2>5. s[n + 1] \in S /\ s[n + 1] \in T /\ f[n] \in Seq(T)
      BY <1>1, <2>4 DEF Names
    <2>6. f[n + 1] = Append(f[n], s[n + 1])
      BY <1>1, <2>4, <2>5
    <2>7. /\ Len(f[n + 1]) = Len(f[n]) + 1 /\ f[n + 1][Len(f[n]) + 1] = s[n + 1]
          /\ \A i \in 1 .. Len(f[n]) : f[n + 1][i] = f[n][i]
      BY <2>5, <2>6
    <2>8. ASSUME NEW i \in 1 .. n + 1 PROVE f[n + 1][i] = s[i]
      <3>1. i \in 1 .. n \/ i = n + 1
        OBVIOUS
      <3>2. QED
        BY <2>3, <2>7, <3>1
    <2>9. QED
      BY <2>3, <2>7, <2>8
  <1> HIDE DEF G
  <1>4. Len(s) \in G /\ Len(s) \in Nat
    BY <1>2, <1>3, Induct
  <1>5. f[Len(s)] \in Seq(T) /\ Good(Len(s))
    BY <1>1, <1>4 DEF G
  <1>6. f[Len(s)] = s
    BY <1>5
  <1>7. QED
    BY <1>1, <1>6

\* The steps of Total: some function takes them.
LEMMA TotalSteps ==
    ASSUME NEW s \in Seq(Nat)
    PROVE  \E f \in [0 .. Len(s) -> Nat] :
             /\ f[0] = 0 /\ Total(s) = f[Len(s)]
             /\ \A n \in 1 .. Len(s) : f[n] = f[n - 1] + s[n]
  <1> DEFINE N == Len(s)
             Body(f) == [n \in 0 .. N |-> IF n = 0 THEN 0 ELSE f[n - 1] + s[n]]
             g == [n \in 1 .. N |-> [t \in Nat |-> t + s[n]]]
             K == CHOOSE f : f = Body(f)
  <1>1. N \in Nat /\ s \in [1 .. N -> Nat]
    OBVIOUS
  <1>2. g \in [1 .. N -> [Nat -> Nat]]
    BY <1>1
  <1>3. PICK f \in [0 .. N -> Nat] : f[0] = 0 /\ \A n \in 1 .. N : f[n] = g[n][f[n - 1]]
    <2>1. 0 \in Nat /\ N \in Nat /\ StepsIn(g, N, Nat)
      BY <1>1, <1>2 DEF StepsIn
    <2> HIDE DEF g, N
    <2>2. \E f : Course(f, Nat, 0, N, g)
      BY <2>1, Iterates, Zenon
    <2>3. QED
      BY <2>2 DEF Course
  <1>4. \A n \in 1 .. N : f[n] = f[n - 1] + s[n]
    <2>1. SUFFICES ASSUME NEW n \in 1 .. N PROVE f[n] = f[n - 1] + s[n]
      OBVIOUS
    <2>2. n - 1 \in 0 .. N /\ f[n - 1] \in Nat
      BY <1>1, <1>3
    <2>3. f[n] = g[n][f[n - 1]]
      BY <2>2, <1>3
    <2>4. QED
      BY <2>2, <2>3
  <1>5. f = Body(f)
    <2>1. \A n \in 0 .. N : f[n] = Body(f)[n]
      <3>1. SUFFICES ASSUME NEW n \in 0 .. N PROVE f[n] = Body(f)[n]
        OBVIOUS
      <3>2. CASE n = 0
        BY <3>2, <1>3
      <3>3. CASE n # 0
        <4>1. n \in 1 .. N
          BY <3>3, <1>1
        <4>2. QED
          BY <4>1, <3>3, <1>4
      <3>4. QED
        BY <3>2, <3>3
    <2>2. QED
      BY <1>3, <2>1
  <1>6. K = Body(K)
    BY <1>5
  <1>7. Total(s) = K[N]
    BY DEF Total
  <1> HIDE DEF K
  <1>8. DOMAIN K = 0 .. N /\ K[0] = 0 /\ \A n \in 1 .. N : K[n] = K[n - 1] + s[n]
    <2>1. 0 \in 0 .. N /\ \A n \in 1 .. N : n \in 0 .. N /\ n # 0
      BY <1>1
    <2>2. QED
      BY <2>1, <1>6
  <1>9. K \in [0 .. N -> Nat]
    <2> DEFINE Q == {n \in Nat : n <= N => K[n] \in Nat}
    <2>1. 0 \in Q
      BY <1>8
    <2>2. ASSUME NEW n \in Nat, n \in Q PROVE n + 1 \in Q
      <3>1. SUFFICES ASSUME n + 1 <= N PROVE K[n + 1] \in Nat
        OBVIOUS
      <3>2. n + 1 \in 1 .. N /\ (n + 1) - 1 = n /\ K[n] \in Nat /\ s[n + 1] \in Nat
        BY <2>2, <3>1, <1>1
      <3>3. QED
        BY <3>2, <1>8
    <2> HIDE DEF Q
    <2>3. \A n \in Nat : n \in Q
      BY <2>1, <2>2, Induct
    <2>4. \A n \in 0 .. N : K[n] \in Nat
      BY <2>3, <1>1 DEF Q
    <2>5. K = [n \in 0 .. N |-> K[n]]
      BY <1>6
    <2>6. QED
      BY <2>4, <2>5
  <1>10. QED
    BY <1>7, <1>8, <1>9

\* Two functions that add the same numbers are the same sums.
LEMMA SumsAgree ==
    ASSUME NEW N \in Nat, NEW f, NEW h, f[0] = h[0],
           \A n \in 1 .. N : f[n - 1] = h[n - 1] => f[n] = h[n]
    PROVE  \A n \in 0 .. N : f[n] = h[n]
  <1> DEFINE Q == {n \in Nat : n <= N => f[n] = h[n]}
  <1>1. 0 \in Q
    OBVIOUS
  <1>2. ASSUME NEW n \in Nat, n \in Q PROVE n + 1 \in Q
    <2>1. SUFFICES ASSUME n + 1 <= N PROVE f[n + 1] = h[n + 1]
      OBVIOUS
    <2>2. n + 1 \in 1 .. N /\ (n + 1) - 1 = n /\ f[n] = h[n]
      BY <1>2, <2>1
    <2>3. QED
      BY <2>2
  <1> HIDE DEF Q
  <1>3. \A n \in Nat : n \in Q
    BY <1>1, <1>2, Induct
  <1>4. QED
    BY <1>3 DEF Q

Agree(f, h, N) == f[0] = h[0] /\ \A n \in 1 .. N : f[n - 1] = h[n - 1] => f[n] = h[n]
Same(f, h, N) == \A n \in 0 .. N : f[n] = h[n]

LEMMA AgreeIsSame == \A N \in Nat : \A f, h : Agree(f, h, N) => Same(f, h, N)
  BY SumsAgree DEF Agree, Same

LEMMA TotalFacts ==
    /\ Total(<<>>) = 0
    /\ \A s \in Seq(Nat) : Total(s) \in Nat
    /\ \A s \in Seq(Nat), x \in Nat : Total(Append(s, x)) = Total(s) + x
  <1>1. Total(<<>>) = 0
    <2>1. <<>> \in Seq(Nat) /\ Len(<<>>) = 0
      OBVIOUS
    <2>2. PICK f \in [0 .. Len(<<>>) -> Nat] : f[0] = 0 /\ Total(<<>>) = f[Len(<<>>)]
      BY <2>1, TotalSteps
    <2>3. QED
      BY <2>1, <2>2
  <1>2. ASSUME NEW s \in Seq(Nat) PROVE Total(s) \in Nat
    <2>1. PICK f \in [0 .. Len(s) -> Nat] : Total(s) = f[Len(s)]
      BY TotalSteps
    <2>2. QED
      BY <2>1
  <1>3. ASSUME NEW s \in Seq(Nat), NEW x \in Nat PROVE Total(Append(s, x)) = Total(s) + x
    <2> DEFINE t == Append(s, x)
    <2>1. /\ t \in Seq(Nat) /\ Len(t) = Len(s) + 1 /\ t[Len(t)] = x /\ Len(s) \in Nat
          /\ \A i \in 1 .. Len(s) : t[i] = s[i]
      OBVIOUS
    <2> HIDE DEF t
    <2>2. PICK f \in [0 .. Len(s) -> Nat] :
            f[0] = 0 /\ Total(s) = f[Len(s)] /\ \A n \in 1 .. Len(s) : f[n] = f[n - 1] + s[n]
      BY TotalSteps
    <2>3. PICK h \in [0 .. Len(t) -> Nat] :
            h[0] = 0 /\ Total(t) = h[Len(t)] /\ \A n \in 1 .. Len(t) : h[n] = h[n - 1] + t[n]
      BY <2>1, TotalSteps
    <2>4. \A n \in 1 .. Len(s) : f[n - 1] = h[n - 1] => f[n] = h[n]
      <3>1. SUFFICES ASSUME NEW n \in 1 .. Len(s), f[n - 1] = h[n - 1] PROVE f[n] = h[n]
        OBVIOUS
      <3>2. n \in 1 .. Len(t)
        BY <2>1
      <3>3. QED
        BY <2>1, <2>2, <2>3, <3>1, <3>2
    <2>5. \A n \in 0 .. Len(s) : f[n] = h[n]
      <3>1. Agree(f, h, Len(s)) /\ Len(s) \in Nat
        BY <2>1, <2>2, <2>3, <2>4 DEF Agree
      <3>2. Same(f, h, Len(s))
        BY <3>1, AgreeIsSame, Zenon
      <3>3. QED
        BY <3>2 DEF Same
    <2>6. h[Len(t)] = h[Len(s)] + x
      <3>1. Len(t) \in 1 .. Len(t) /\ Len(t) - 1 = Len(s)
        BY <2>1
      <3>2. QED
        BY <2>1, <2>3, <3>1
    <2>7. f[Len(s)] = h[Len(s)]
      BY <2>1, <2>5
    <2>8. QED
      BY <2>2, <2>3, <2>6, <2>7 DEF t
  <1>4. QED
    BY <1>1, <1>2, <1>3

\* Leaving out the zeros of a list leaves its sum.
LEMMA TotalOfPositive ==
    ASSUME NEW s \in Seq(Nat)
    PROVE  Total(Only(s, Nat \ {0})) = Total(s)
  <1> DEFINE P == Nat \ {0}
  <1>1. PICK f \in [0 .. Len(s) -> Seq(Nat)] :
          /\ f[0] = <<>> /\ Only(s, P) = f[Len(s)]
          /\ \A n \in 1 .. Len(s) : f[n] = IF s[n] \in P THEN Append(f[n - 1], s[n]) ELSE f[n - 1]
    <2>1. \E f : Kept(f, s, P, Nat)
      BY OnlyKeeps, Zenon
    <2> HIDE DEF P
    <2>2. QED
      BY <2>1 DEF Kept
  <1>2. PICK h \in [0 .. Len(s) -> Nat] :
          h[0] = 0 /\ Total(s) = h[Len(s)] /\ \A n \in 1 .. Len(s) : h[n] = h[n - 1] + s[n]
    BY TotalSteps
  <1> DEFINE k == [n \in 0 .. Len(s) |-> Total(f[n])]
  <1>3. Len(s) \in Nat /\ k[0] = h[0]
    BY <1>1, <1>2, TotalFacts
  <1>4. \A n \in 1 .. Len(s) : k[n - 1] = h[n - 1] => k[n] = h[n]
    <2>1. SUFFICES ASSUME NEW n \in 1 .. Len(s), k[n - 1] = h[n - 1] PROVE k[n] = h[n]
      OBVIOUS
    <2>2. /\ n - 1 \in 0 .. Len(s) /\ n \in 0 .. Len(s) /\ f[n - 1] \in Seq(Nat) /\ s[n] \in Nat
          /\ h[n - 1] \in Nat
      BY <1>1, <1>2, <1>3
    <2>3. k[n - 1] = Total(f[n - 1]) /\ k[n] = Total(f[n])
      BY <2>2
    <2> HIDE DEF k
    <2>4. Total(f[n]) = Total(f[n - 1]) + s[n]
      <3>1. CASE s[n] \in P
        <4>1. f[n] = Append(f[n - 1], s[n])
          BY <1>1, <3>1
        <4>2. QED
          BY <4>1, <2>2, TotalFacts
      <3>2. CASE s[n] \notin P
        BY <1>1, <2>1, <2>2, <2>3, <3>2
      <3>3. QED
        BY <3>1, <3>2
    <2>5. QED
      BY <1>2, <2>1, <2>3, <2>4
  <1>5. \A n \in 0 .. Len(s) : k[n] = h[n]
    <2> HIDE DEF k
    <2>1. Agree(k, h, Len(s)) /\ Len(s) \in Nat
      BY <1>3, <1>4 DEF Agree
    <2>2. Same(k, h, Len(s))
      BY <2>1, AgreeIsSame, Zenon
    <2>3. QED
      BY <2>2 DEF Same
  <1>6. QED
    BY <1>1, <1>2, <1>3, <1>5

LEMMA DistinctFits ==
    ASSUME NEW n \in Nat, NEW s \in Seq(1 .. n), Distinct(s)
    PROVE  Len(s) <= n
  <1>1. /\ IsFiniteSet(1 .. n) /\ Cardinality(1 .. n) = n
        /\ IsFiniteSet(1 .. Len(s)) /\ Cardinality(1 .. Len(s)) = Len(s) /\ Len(s) \in Nat
    <2>1. Len(s) \in Nat
      OBVIOUS
    <2>2. ASSUME NEW m \in Nat PROVE IsFiniteSet(1 .. m) /\ Cardinality(1 .. m) = m
      <3>1. IsFiniteSet(1 .. m) /\ Cardinality(1 .. m) = IF 1 > m THEN 0 ELSE m - 1 + 1
        BY FS_Interval
      <3>2. QED
        BY <3>1
    <2>3. QED
      BY <2>1, <2>2
  <1>2. s \in [1 .. Len(s) -> 1 .. n]
    OBVIOUS
  <1>3. s \in Injection(1 .. Len(s), 1 .. n)
    BY <1>2 DEF Distinct, Injection, IsInjective
  <1>4. Cardinality(1 .. Len(s)) <= Cardinality(1 .. n)
    BY <1>1, <1>3, FS_Injection
  <1>5. QED
    BY <1>1, <1>4

-----------------------------------------------------------------------------
(* SourceSetup: the monitor of a card.                                      *)

Monitors == [active : BOOLEAN, flight : BOOLEAN, timer : BOOLEAN, left : Nat,
             was : BOOLEAN, gone : BOOLEAN]

\* A monitor that knows its card could be seen when it last looked is checking, or will
\* check: not whether the card can be seen now, which nothing may have announced.
Watches(m) ==
    /\ m \in Monitors
    /\ m.active /\ ~m.gone /\ m.was /\ m.left > 0 => m.flight \/ m.timer
    /\ ~(m.flight /\ m.timer)

SetupInv == Watches(monitor) /\ onScreen \in BOOLEAN

LEMMA LooksWatch ==
    ASSUME NEW m \in Monitors, ~(m.flight /\ m.timer), NEW s \in BOOLEAN
    PROVE  /\ Watches(Setup!Checked(m, s))
           /\ ~m.flight => Watches(Setup!Queued(m, s))
  BY DEF Watches, Monitors, Setup!Checked, Setup!Queued, Setup!Looked, Setup!MayCheck

LEMMA HaltsWatch ==
    ASSUME NEW m, Watches(m)
    PROVE  /\ Watches(Setup!Halted(m))
           /\ Watches([Setup!Halted(m) EXCEPT !.gone = TRUE])
  BY DEF Watches, Monitors, Setup!Halted

LEMMA StartsWatch ==
    ASSUME MaxLeft \in Nat, NEW m, Watches(m), NEW s \in BOOLEAN, NEW restart \in BOOLEAN
    PROVE  Watches(Setup!Started(m, s, restart))
  <1>1. PICK n : n = [m EXCEPT !.active = TRUE, !.timer = @ /\ ~restart, !.was = s,
                               !.left = IF ~m.active \/ restart \/ (s /\ ~m.was)
                                        THEN MaxLeft ELSE @]
    OBVIOUS
  <1>2. /\ n \in Monitors /\ ~(n.flight /\ n.timer) /\ n.was = s /\ n.gone = m.gone
    BY <1>1 DEF Watches, Monitors
  <1>3. Setup!Started(m, s, restart) =
            IF m.gone THEN m ELSE IF n.flight \/ n.timer THEN n ELSE
            IF Setup!MayCheck(n, s) THEN Setup!Checked(n, s) ELSE n
    BY <1>1 DEF Setup!Started
  <1>4. ~Setup!MayCheck(n, s) => Watches(n)
    BY <1>2 DEF Watches, Setup!MayCheck
  <1>5. n.flight \/ n.timer => Watches(n)
    BY <1>2 DEF Watches
  <1>6. QED
    BY <1>2, <1>3, <1>4, <1>5, LooksWatch

LEMMA WakesWatch ==
    ASSUME MaxLeft \in Nat, NEW m, Watches(m), NEW s \in BOOLEAN
    PROVE  Watches(Setup!Woken(m, s))
  <1>1. PICK n : n = [m EXCEPT !.was = TRUE, !.left = IF m.was THEN @ ELSE MaxLeft]
    OBVIOUS
  <1>2. n \in Monitors /\ ~(n.flight /\ n.timer)
    BY <1>1 DEF Watches, Monitors
  <1>3. Setup!Woken(m, s) = IF m.gone \/ ~m.active THEN m
                            ELSE IF s THEN Setup!Checked(n, s)
                            ELSE [m EXCEPT !.was = FALSE, !.timer = FALSE]
    BY <1>1 DEF Setup!Woken
  <1>4. Watches([m EXCEPT !.was = FALSE, !.timer = FALSE])
    BY DEF Watches, Monitors
  <1>5. QED
    BY <1>2, <1>3, <1>4, LooksWatch

LEMMA SetupBegins ==
    ASSUME MaxLeft \in Nat, Setup!SetupInit
    PROVE  SetupInv
  <1>1. Watches([active |-> FALSE, flight |-> FALSE, timer |-> FALSE, left |-> 0,
                 was |-> FALSE, gone |-> FALSE])
    BY DEF Watches, Monitors
  <1>2. QED
    BY <1>1, StartsWatch DEF Setup!SetupInit, SetupInv

LEMMA SetupGoesOn ==
    ASSUME MaxLeft \in Nat, SetupInv, Setup!SetupNext
    PROVE  SetupInv'
  <1>1. ASSUME NEW v, NEW c
        PROVE  /\ Watches(Setup!Rendered(monitor, v, c))
               /\ Watches(Setup!UpdatedMonitor(monitor, v, c))
               /\ \A b \in BOOLEAN : Watches(Setup!Started(Setup!Rendered(monitor, v, c), onScreen, b))
    BY HaltsWatch, StartsWatch DEF SetupInv, Setup!Rendered, Setup!UpdatedMonitor
  <1>2. ASSUME NEW m, Watches(m), NEW ok
        PROVE  Watches(Setup!AfterCheck(m, ok))
    <2>1. [m EXCEPT !.flight = FALSE] \in Monitors /\ ~[m EXCEPT !.flight = FALSE].flight
      BY <1>2 DEF Watches, Monitors
    <2>2. QED
      BY <2>1, LooksWatch DEF SetupInv, Setup!AfterCheck
  <1>3. CASE Setup!WorldChanges
    BY <1>3 DEF Setup!WorldChanges, SetupInv
  <1>4. CASE Setup!ScreenChanges
    BY <1>4, WakesWatch DEF Setup!ScreenChanges, SetupInv
  <1>5. CASE Setup!TimerIsDue
    <2>1. [monitor EXCEPT !.timer = FALSE] \in Monitors
          /\ ~[monitor EXCEPT !.timer = FALSE].timer
      BY DEF SetupInv, Watches, Monitors
    <2>2. QED
      BY <1>5, <2>1, LooksWatch DEF Setup!TimerIsDue, SetupInv
  <1>6. CASE Setup!TimePasses
    BY <1>6 DEF Setup!TimePasses, SetupInv, Watches, Monitors
  <1>7. CASE Setup!CheckEnds
    <2>1. Watches([monitor EXCEPT !.flight = FALSE]) \/ ~monitor.gone
      BY DEF SetupInv, Watches, Monitors
    <2>2. QED
      BY <1>1, <1>2, <1>7, <2>1 DEF Setup!CheckEnds, SetupInv
  <1>8. CASE Setup!SnapshotComes
    BY <1>1, <1>8 DEF Setup!SnapshotComes, SetupInv
  <1>9. CASE Setup!Clicks
    BY <1>9, StartsWatch DEF Setup!Clicks, SetupInv
  <1>10. CASE Setup!ClickEnds
    <2>1. \E next :
              \/ monitor' = Setup!Started(Setup!Rendered(monitor, seen, next), onScreen, TRUE)
              \/ monitor' = Setup!Rendered(monitor, seen, next)
      BY <1>10, Zenon DEF Setup!ClickEnds
    <2>2. UNCHANGED onScreen
      BY <1>10 DEF Setup!ClickEnds
    <2>3. QED
      BY <1>1, <2>1, <2>2 DEF SetupInv
  <1>11. CASE Setup!Navigates
    <2>1. \/ \E b \in BOOLEAN :
                monitor' = IF b THEN Setup!Started(Setup!Rendered(monitor, seen, setupCard'),
                                                   onScreen, TRUE)
                           ELSE Setup!Rendered(monitor, seen, setupCard')
          \/ monitor' = Setup!Halted(monitor)
          \/ monitor' = [Setup!Halted(monitor) EXCEPT !.gone = TRUE]
      BY <1>11 DEF Setup!Navigates
    <2>2. UNCHANGED onScreen
      BY <1>11 DEF Setup!Navigates
    <2>3. QED
      BY <1>1, <2>1, <2>2, HaltsWatch DEF SetupInv
  <1>12. QED
    BY <1>3, <1>4, <1>5, <1>6, <1>7, <1>8, <1>9, <1>10, <1>11 DEF Setup!SetupNext

LEMMA SetupWatched ==
    ASSUME SetupInv
    PROVE  Setup!SetupIsWatched
  BY DEF SetupInv, Watches, Setup!SetupIsWatched
-----------------------------------------------------------------------------
(* ExtensionPopup: the refresh loop.                                        *)

Popups == [access : BOOLEAN, hidden : BOOLEAN, timer : BOOLEAN, tries : 0 .. MaxRefreshes,
           gen : Nat, view : {"allow", "connected", "pending"}]

\* The loop of the current generation is a request under way, or a timer, never both;
\* a popup that shows a pending connection has one, or has asked often enough.
Loops(p, refreshes) ==
    /\ refreshes \subseteq 0 .. p.gen
    /\ p.timer => p.gen \notin refreshes /\ ~p.hidden /\ p.tries < MaxRefreshes
    /\ p.hidden => p.gen \notin refreshes
    /\ p.access /\ ~p.hidden /\ p.gen \notin refreshes =>
            /\ refreshes = {}
            /\ p.view = "pending" => p.timer \/ p.tries = MaxRefreshes

PopupInv ==
    /\ popup \in Popups /\ popup.access = granted /\ Loops(popup, waits.refreshes)
    /\ waits = [refreshes |-> waits.refreshes, allow |-> waits.allow, edits |-> waits.edits]

LEMMA PopupBegins ==
    ASSUME MaxRefreshes \in Nat \ {0}, Popup!PopupInit
    PROVE  PopupInv
  BY DEF Popup!PopupInit, PopupInv, Popups, Loops

LEMMA PopupStops ==
    ASSUME NEW p \in Popups, NEW refreshes, refreshes \subseteq 0 .. p.gen, p.hidden
    PROVE  Popup!Stopped(p) \in Popups /\ Loops(Popup!Stopped(p), refreshes)
           /\ Popup!Stopped(p).access = p.access
  <1>1. PICK n \in Nat : n = p.gen + 1
    BY DEF Popups
  <1>2. PICK s : s = [p EXCEPT !.gen = n, !.timer = FALSE]
    OBVIOUS
  <1>3. s \in Popups /\ s.access = p.access /\ s.hidden /\ s.gen = n /\ ~s.timer
    BY <1>2 DEF Popups
  <1>4. refreshes \subseteq 0 .. n /\ n \notin refreshes
    BY <1>1 DEF Popups
  <1>5. Popup!Stopped(p) = s
    BY <1>1, <1>2 DEF Popup!Stopped
  <1>6. QED
    BY <1>3, <1>4, <1>5 DEF Loops

\* A loop that starts anew has a generation of its own.
LEMMA PopupSchedules ==
    ASSUME MaxRefreshes \in Nat \ {0}, NEW p \in Popups, NEW refreshes,
           refreshes \subseteq 0 .. p.gen
    PROVE  LET q == Popup!Scheduled(p) IN
           /\ q \in Popups /\ q.access = p.access
           /\ Loops(q, IF p.hidden THEN refreshes ELSE refreshes \cup {q.gen})
  <1>0. PICK n \in Nat : n = p.gen + 1
    BY DEF Popups
  <1>1. PICK s : s = [p EXCEPT !.gen = n, !.timer = FALSE]
    OBVIOUS
  <1>2. s \in Popups /\ s.access = p.access /\ s.hidden = p.hidden /\ s.gen = n /\ ~s.timer
    BY <1>1 DEF Popups
  <1>3. PICK t : t = [s EXCEPT !.tries = 0]
    OBVIOUS
  <1>4. /\ t \in Popups /\ t.access = p.access /\ t.hidden = p.hidden /\ t.gen = n
        /\ ~t.timer
    BY <1>2, <1>3 DEF Popups
  <1>5. PICK q : q = [t EXCEPT !.tries = 1]
    OBVIOUS
  <1>6. /\ q \in Popups /\ q.access = p.access /\ q.hidden = p.hidden /\ q.gen = n
        /\ ~q.timer
    BY <1>4, <1>5 DEF Popups
  <1>7. Popup!Scheduled(p) = IF t.hidden THEN t ELSE q
    <2>1. Popup!Stopped(p) = s
      BY <1>0, <1>1 DEF Popup!Stopped
    <2>2. QED
      BY <2>1, <1>3, <1>5 DEF Popup!Scheduled
  <1>8. refreshes \subseteq 0 .. n /\ n \notin refreshes /\ refreshes \cup {n} \subseteq 0 .. n
    <2>1. p.gen \in Nat
      BY DEF Popups
    <2>2. \A x \in refreshes : x \in Int /\ 0 <= x /\ x < n
      BY <1>0, <2>1
    <2>3. QED
      BY <2>2
  <1>9. CASE p.hidden
    BY <1>4, <1>7, <1>8, <1>9 DEF Loops
  <1>10. CASE ~p.hidden
    BY <1>4, <1>6, <1>7, <1>8, <1>10 DEF Loops
  <1>11. QED
    BY <1>9, <1>10

LEMMA PopupStarts ==
    ASSUME MaxRefreshes \in Nat \ {0}, PopupInv, NEW p \in Popups, p.gen = popup.gen,
           p.access = granted', Popup!Starts(p)
    PROVE  PopupInv'
  <1>1. p.gen \in Nat /\ waits.refreshes \subseteq 0 .. p.gen
    BY DEF PopupInv, Loops, Popups
  <1>2. PICK q : q = Popup!Scheduled(p)
    OBVIOUS
  <1>3. /\ popup' = q
        /\ waits' = [waits EXCEPT !.refreshes = IF p.hidden THEN @ ELSE @ \cup {q.gen},
                                  !.allow = FALSE]
    BY <1>2 DEF Popup!Starts
  <1>4. /\ q \in Popups /\ q.access = p.access
        /\ Loops(q, IF p.hidden THEN waits.refreshes ELSE waits.refreshes \cup {q.gen})
    BY <1>1, <1>2, PopupSchedules
  <1>5. waits' = [refreshes |-> IF p.hidden THEN waits.refreshes
                                ELSE waits.refreshes \cup {q.gen},
                  allow |-> FALSE, edits |-> waits.edits]
    BY <1>3 DEF PopupInv
  <1>6. QED
    BY <1>3, <1>4, <1>5 DEF PopupInv

LEMMA PopupShows ==
    ASSUME NEW p \in Popups, NEW a \in Popup!Answers
    PROVE  LET q == Popup!Shows(p, a) IN
           /\ q \in Popups /\ q.hidden = p.hidden /\ q.timer = p.timer /\ q.tries = p.tries
           /\ q.gen = p.gen /\ q.access = (p.access /\ a # "access-off")
           /\ q.access /\ q.view = "pending" => a = "pending"
  <1>1. PICK r : r = IF a = "access-off" THEN [p EXCEPT !.access = FALSE] ELSE p
    OBVIOUS
  <1>2. /\ r \in Popups /\ r.hidden = p.hidden /\ r.timer = p.timer /\ r.tries = p.tries
        /\ r.gen = p.gen /\ r.access = (p.access /\ a # "access-off")
    BY <1>1 DEF Popups
  <1>3. Popup!Shows(p, a) = [r EXCEPT !.view = IF ~r.access THEN "allow"
                                ELSE IF a = "verified" THEN "connected" ELSE "pending"]
    BY <1>1 DEF Popup!Shows
  <1>4. QED
    BY <1>2, <1>3 DEF Popups, Popup!Answers

LEMMA PopupGoesOn ==
    ASSUME MaxRefreshes \in Nat \ {0}, PopupInv, Popup!PopupNext
    PROVE  PopupInv'
  <1>0. /\ popup \in Popups /\ popup.gen \in Nat /\ waits.refreshes \subseteq 0 .. popup.gen
        /\ popup.access = granted /\ granted \in BOOLEAN /\ popup.hidden \in BOOLEAN
    BY DEF PopupInv, Popups, Loops
  <1>1. CASE \E e \in waits.edits : Popup!EditReads(e) \/ Popup!EditWrites(e)
    <2>1. /\ waits' = [refreshes |-> waits.refreshes, allow |-> waits.allow, edits |-> waits'.edits]
          /\ UNCHANGED <<popup, granted>>
      BY <1>1 DEF Popup!EditReads, Popup!EditWrites, PopupInv
    <2>2. QED
      BY <2>1 DEF PopupInv
  <1>2. CASE Popup!EditsList \/ Popup!ClicksAllow
    <2>1. /\ waits' = [refreshes |-> waits.refreshes, allow |-> waits'.allow, edits |-> waits'.edits]
          /\ UNCHANGED <<popup, granted>>
      BY <1>2 DEF Popup!EditsList, Popup!ClicksAllow, PopupInv
    <2>2. QED
      BY <2>1 DEF PopupInv
  <1>3. CASE Popup!RemovesAccess
    BY <1>3 DEF Popup!RemovesAccess, PopupInv, Popups, Loops
  <1>4. CASE Popup!RefreshFires
    <2>1. ~popup.hidden /\ popup.tries \in Nat /\ popup.tries < MaxRefreshes
      BY <1>4 DEF Popup!RefreshFires, PopupInv, Popups, Loops
    <2>2. /\ popup' = [popup EXCEPT !.timer = FALSE, !.tries = popup.tries + 1]
          /\ waits' = [refreshes |-> waits.refreshes \cup {popup.gen}, allow |-> waits.allow,
                       edits |-> waits.edits]
          /\ UNCHANGED granted
      BY <1>4, <2>1 DEF Popup!RefreshFires, PopupInv
    <2>3. /\ popup' \in Popups /\ popup'.gen = popup.gen /\ ~popup'.timer /\ ~popup'.hidden
          /\ popup'.access = popup.access
      <3>1. PICK n \in 0 .. MaxRefreshes : n = popup.tries + 1
        BY <2>1
      <3>2. popup' = [popup EXCEPT !.timer = FALSE, !.tries = n]
        BY <2>2, <3>1
      <3>3. QED
        BY <1>0, <2>1, <3>2 DEF Popups
    <2>4. QED
      BY <1>0, <2>2, <2>3 DEF PopupInv, Loops
  <1>5. CASE Popup!Retries
    BY <1>0, <1>5, PopupStarts DEF Popup!Retries
  <1>6. CASE Popup!Allowed
    <2>1. CASE UNCHANGED <<granted, popup>> /\ waits' = [waits EXCEPT !.allow = FALSE]
      <3>1. waits' = [refreshes |-> waits.refreshes, allow |-> FALSE, edits |-> waits.edits]
        BY <2>1 DEF PopupInv
      <3>2. QED
        BY <2>1, <3>1 DEF PopupInv
    <2>2. CASE granted' = TRUE /\ Popup!Starts(Popup!Shows([popup EXCEPT !.access = TRUE], "pending"))
      <3>1. PICK p : p = [popup EXCEPT !.access = TRUE]
        OBVIOUS
      <3>2. p \in Popups /\ p.access = TRUE /\ p.gen = popup.gen
        BY <1>0, <3>1 DEF Popups
      <3>3. "pending" \in Popup!Answers
        BY DEF Popup!Answers
      <3>4. PICK q : q = Popup!Shows(p, "pending")
        OBVIOUS
      <3>5. q \in Popups /\ q.access = TRUE /\ q.gen = popup.gen
        BY <3>2, <3>3, <3>4, PopupShows
      <3>6. Popup!Starts(q) /\ granted' = TRUE
        BY <2>2, <3>1, <3>4
      <3>7. QED
        BY <3>5, <3>6, PopupStarts
    <2>3. QED
      BY <1>6, <2>1, <2>2 DEF Popup!Allowed
  <1>7. CASE Popup!Hides
    <2>1. PICK p : p = [popup EXCEPT !.hidden = ~popup.hidden]
      OBVIOUS
    <2>2. /\ p \in Popups /\ p.hidden = ~popup.hidden /\ p.gen = popup.gen
          /\ p.access = popup.access /\ p.timer = popup.timer
      BY <1>0, <2>1 DEF Popups
    <2>3. /\ IF p.hidden THEN popup' = Popup!Stopped(p) /\ UNCHANGED waits
             ELSE IF p.access THEN Popup!Starts(p) ELSE popup' = p /\ UNCHANGED waits
          /\ UNCHANGED granted
      BY <1>7, <2>1 DEF Popup!Hides
    <2>4. CASE p.hidden
      BY <1>0, <2>2, <2>3, <2>4, PopupStops DEF PopupInv
    <2>5. CASE ~p.hidden /\ p.access
      BY <1>0, <2>2, <2>3, <2>5, PopupStarts
    <2>6. CASE ~p.hidden /\ ~p.access
      <3>1. ~popup.timer
        BY <2>2, <2>6 DEF PopupInv, Loops
      <3>2. QED
        BY <1>0, <2>2, <2>3, <2>6, <3>1 DEF PopupInv, Loops
    <2>7. QED
      BY <2>4, <2>5, <2>6
  <1>8. ASSUME NEW g \in waits.refreshes, NEW a \in Popup!Answers, a = "access-off" => ~granted,
               Popup!Refreshed(g, a)
        PROVE  PopupInv'
    <2>1. PICK p : p = Popup!Shows(popup, a)
      OBVIOUS
    <2>2. /\ p \in Popups /\ p.hidden = popup.hidden /\ p.timer = popup.timer
          /\ p.tries = popup.tries /\ p.gen = popup.gen /\ p.access = granted
          /\ p.access /\ p.view = "pending" => a = "pending"
      BY <1>0, <1>8, <2>1, PopupShows
    <2>3. CASE g = 0 /\ granted /\ p.access /\ a # "verified"
      <3>1. PICK q : q = Popup!Scheduled(p)
        OBVIOUS
      <3>2. /\ popup' = q
            /\ waits' = [waits EXCEPT !.refreshes = (@ \ {0}) \cup (IF p.hidden THEN {} ELSE {q.gen})]
            /\ UNCHANGED granted
        BY <1>8, <2>1, <2>3, <3>1 DEF Popup!Refreshed
      <3>3. waits.refreshes \ {0} \subseteq 0 .. p.gen
        BY <1>0, <2>2
      <3>4. /\ q \in Popups /\ q.access = p.access
            /\ Loops(q, IF p.hidden THEN waits.refreshes \ {0}
                        ELSE (waits.refreshes \ {0}) \cup {q.gen})
        BY <2>2, <3>1, <3>3, PopupSchedules
      <3>5. waits' = [refreshes |-> IF p.hidden THEN waits.refreshes \ {0}
                                    ELSE (waits.refreshes \ {0}) \cup {q.gen},
                      allow |-> waits.allow, edits |-> waits.edits]
        BY <3>2 DEF PopupInv
      <3>6. QED
        BY <2>2, <3>2, <3>4, <3>5 DEF PopupInv
    <2>4. CASE ~(g = 0 /\ granted /\ p.access /\ a # "verified")
      <3>1. PICK due \in BOOLEAN :
              due = (/\ g = popup.gen /\ g # 0 /\ ~p.hidden /\ p.access /\ a # "verified"
                     /\ p.tries < MaxRefreshes)
        OBVIOUS
      <3>2. /\ popup' = [p EXCEPT !.timer = p.timer \/ due]
            /\ waits' = [waits EXCEPT !.refreshes = @ \ {g}]
            /\ UNCHANGED granted /\ \A other \in waits.refreshes : g <= other
        BY <1>8, <2>1, <2>4, <3>1 DEF Popup!Refreshed
      <3>3. waits' = [refreshes |-> waits.refreshes \ {g}, allow |-> waits.allow,
                      edits |-> waits.edits]
        BY <3>2 DEF PopupInv
      <3>4. g = popup.gen => waits.refreshes = {g}
        BY <1>0, <3>2
      <3>5. /\ popup' \in Popups /\ popup'.hidden = p.hidden /\ popup'.tries = p.tries
            /\ popup'.gen = p.gen /\ popup'.access = p.access /\ popup'.view = p.view
            /\ popup'.timer = (p.timer \/ due)
        BY <2>2, <3>1, <3>2 DEF Popups
      <3>6. Loops(popup', waits'.refreshes)
        <4>1. popup.tries \in 0 .. MaxRefreshes
          BY <1>0 DEF Popups
        <4>2. CASE g = popup.gen
          BY <1>0, <2>2, <2>4, <3>1, <3>3, <3>4, <3>5, <4>1, <4>2 DEF PopupInv, Loops
        <4>3. CASE g # popup.gen
          BY <1>0, <2>2, <3>1, <3>3, <3>5, <4>1, <4>3 DEF PopupInv, Loops
        <4>4. QED
          BY <4>2, <4>3
      <3>7. QED
        BY <2>2, <3>2, <3>3, <3>5, <3>6 DEF PopupInv
    <2>5. QED
      BY <2>3, <2>4
  <1>9. QED
    BY <1>1, <1>2, <1>3, <1>4, <1>5, <1>6, <1>7, <1>8 DEF Popup!PopupNext

LEMMA OneLoop ==
    ASSUME PopupInv
    PROVE  Popup!OneRefreshLoop
  BY DEF PopupInv, Popups, Loops, Popup!OneRefreshLoop
-----------------------------------------------------------------------------
(* CalendarPanel.                                                           *)

Panels == [timer : BOOLEAN, busy : BOOLEAN, confirm : BOOLEAN, url : BOOLEAN, error : BOOLEAN]
CalendarCalls == [kind : {"none", "GET", "POST"}, at : {"none", "sent", "served", "failed"},
                  action : Calendar!Verbs \cup {"none"}, ids : SUBSET Cals,
                  got : Calendar!Snapshots]

CalendarTyped ==
    /\ google \in Calendar!Connections /\ calendarShown \in Calendar!Snapshots
    /\ choice \in [open : BOOLEAN, ids : SUBSET Cals] /\ panel \in Panels
    /\ call \in CalendarCalls /\ calendarSaved \in [ids : SUBSET Cals, of : SUBSET Cals]

\* An answer is no older than what the panel shows: it was asked for after that, and the
\* revision of the service only grows.  So no answer is dropped, and whatever ends makes the
\* next poll due.  What is ticked is listed, once the list is loaded.
CalendarGoes ==
    /\ google.rev >= calendarShown.rev
    /\ call.at = "served" => call.got.rev >= calendarShown.rev /\ google.rev >= call.got.rev
    /\ panel.busy <=> call.kind = "POST"
    /\ calendarShown.state # "unavailable" => panel.timer \/ call.kind # "none"
    /\ calendarShown.state = "choosing" /\ ~calendarShown.loading
         => choice.ids \subseteq calendarShown.cals
    /\ calendarSaved.ids \subseteq calendarSaved.of

CalendarInv == CalendarTyped /\ CalendarGoes

LEMMA CalendarBegins ==
    ASSUME Primary \in Cals, Calendar!CalendarInit
    PROVE  CalendarInv
  <1>1. google \in Calendar!Connections /\ google.rev = 0
    <2>1. PICK s \in {"disconnected", "unavailable", "connected"} :
            google = [rev |-> 0, state |-> s, account |-> s = "connected",
                      cals |-> IF s = "connected" THEN Cals ELSE {},
                      selected |-> IF s = "connected" THEN {Primary} ELSE {},
                      work |-> "none", back |-> "paused", expiring |-> FALSE]
      BY DEF Calendar!CalendarInit
    <2>2. PICK b \in BOOLEAN : b = (s = "connected")
      OBVIOUS
    <2>3. PICK c \in SUBSET Cals : c = IF s = "connected" THEN Cals ELSE {}
      OBVIOUS
    <2>4. PICK d \in SUBSET Cals : d = IF s = "connected" THEN {Primary} ELSE {}
      OBVIOUS
    <2>5. google = [rev |-> 0, state |-> s, account |-> b, cals |-> c, selected |-> d,
                    work |-> "none", back |-> "paused", expiring |-> FALSE]
      BY <2>1, <2>2, <2>3, <2>4
    <2>6. QED
      BY <2>5 DEF Calendar!Connections, Calendar!States
  <1>2. /\ calendarShown \in Calendar!Snapshots /\ calendarShown.rev = -1
        /\ calendarShown.state = "unavailable"
    BY DEF Calendar!CalendarInit, Calendar!NoSnapshot, Calendar!Snapshots, Calendar!States
  <1>3. /\ call = [kind |-> "GET", at |-> "sent", action |-> "none", ids |-> {},
                   got |-> Calendar!NoSnapshot]
    BY DEF Calendar!CalendarInit, Calendar!NoCall
  <1>4. Calendar!NoSnapshot \in Calendar!Snapshots
    BY DEF Calendar!NoSnapshot, Calendar!Snapshots, Calendar!States
  <1>5. QED
    BY <1>1, <1>2, <1>3, <1>4
    DEF Calendar!CalendarInit, Calendar!NoChoice, CalendarInv, CalendarTyped, CalendarGoes,
        Panels, CalendarCalls

LEMMA CalendarPolls ==
    ASSUME NEW p \in Panels, NEW s \in Calendar!Snapshots
    PROVE  LET q == Calendar!Polling(p, s) IN
           /\ q \in Panels /\ q.busy = p.busy
           /\ s.state # "unavailable" => q.timer
  <1>1. PICK b \in BOOLEAN : b = (s # Calendar!NoSnapshot /\ s.state # "unavailable")
    OBVIOUS
  <1>2. s.state # "unavailable" => b
    <2>1. Calendar!NoSnapshot.state = "unavailable"
      BY DEF Calendar!NoSnapshot
    <2>2. s.state # "unavailable" => s # Calendar!NoSnapshot
      BY <2>1
    <2>3. QED
      BY <1>1, <2>2
  <1>3. Calendar!Polling(p, s) = [p EXCEPT !.timer = b]
    BY <1>1 DEF Calendar!Polling
  <1>4. QED
    BY <1>2, <1>3 DEF Panels

\* What the panel takes over from an answer.
LEMMA CalendarAccepts ==
    ASSUME CalendarInv, NEW p \in Panels, NEW s \in Calendar!Snapshots,
           s.rev >= calendarShown.rev, google.rev >= s.rev, Calendar!Accepts(s, p)
    PROVE  /\ calendarShown' = s /\ panel' \in Panels /\ panel'.busy = p.busy
           /\ choice' \in [open : BOOLEAN, ids : SUBSET Cals]
           /\ s.state # "unavailable" => panel'.timer
           /\ s.state = "choosing" /\ ~s.loading => choice'.ids \subseteq s.cals
           /\ choice.open /\ choice'.open => choice.ids \cap s.cals \subseteq choice'.ids
  <1>1. /\ calendarShown' = s /\ choice' = Calendar!ChoiceAfter(s)
        /\ panel' = Calendar!Polling([p EXCEPT !.url = s.state = "authorizing"], s)
    BY DEF Calendar!Accepts, Calendar!Fresh
  <1>2. PICK q : q = [p EXCEPT !.url = s.state = "authorizing"]
    OBVIOUS
  <1>3. q \in Panels /\ q.busy = p.busy
    BY <1>2 DEF Panels
  <1>4. panel' \in Panels /\ panel'.busy = p.busy /\ (s.state # "unavailable" => panel'.timer)
    BY <1>1, <1>2, <1>3, CalendarPolls
  <1>5. PICK c : c = IF ~choice.open THEN Calendar!Begun(s) ELSE choice
    OBVIOUS
  <1>6. s.cals \subseteq Cals /\ s.selected \subseteq Cals
    BY DEF Calendar!Snapshots
  <1>7. Calendar!Begun(s) \in [open : BOOLEAN, ids : SUBSET Cals]
    BY <1>6 DEF Calendar!Begun
  <1>8. c \in [open : BOOLEAN, ids : SUBSET Cals] /\ (choice.open => c = choice)
    BY <1>5, <1>7 DEF CalendarInv, CalendarTyped
  <1>9. PICK d : d = [c EXCEPT !.ids = c.ids \cap s.cals]
    OBVIOUS
  <1>10. d \in [open : BOOLEAN, ids : SUBSET Cals] /\ d.ids = c.ids \cap s.cals
    BY <1>8, <1>9
  <1>11. choice' = IF s.state # "choosing" THEN Calendar!NoChoice
                   ELSE IF s.loading THEN c ELSE d
    BY <1>1, <1>5, <1>9 DEF Calendar!ChoiceAfter
  <1>12. /\ Calendar!NoChoice \in [open : BOOLEAN, ids : SUBSET Cals]
         /\ ~Calendar!NoChoice.open
    BY DEF Calendar!NoChoice
  <1>13. QED
    BY <1>1, <1>4, <1>8, <1>10, <1>11, <1>12
LEMMA CalendarReads ==
    ASSUME CalendarInv, NEW p \in Panels, p.busy = panel.busy,
           Calendar!Reads(p), UNCHANGED <<google, calendarShown, choice, calendarSaved>>
    PROVE  CalendarInv'
  <1>1. CASE panel.busy \/ call.kind # "none"
    BY <1>1 DEF Calendar!Reads, CalendarInv, CalendarTyped, CalendarGoes
  <1>2. CASE ~(panel.busy \/ call.kind # "none")
    <2>1. /\ panel' = p
          /\ call' = [kind |-> "GET", at |-> "sent", action |-> "none", ids |-> {},
                      got |-> Calendar!NoSnapshot]
      BY <1>2 DEF Calendar!Reads, Calendar!NoCall
    <2>2. Calendar!NoSnapshot \in Calendar!Snapshots
      BY DEF Calendar!NoSnapshot, Calendar!Snapshots, Calendar!States
    <2>3. call' \in CalendarCalls /\ call'.kind = "GET" /\ call'.at = "sent"
      BY <2>1, <2>2 DEF CalendarCalls
    <2>4. QED
      BY <1>2, <2>1, <2>3 DEF CalendarInv, CalendarTyped, CalendarGoes
  <1>3. QED
    BY <1>1, <1>2

\* A call that ends, and what the panel makes of the answer, if there is one.
LEMMA CalendarSettles ==
    ASSUME CalendarInv, call' = Calendar!NoCall, UNCHANGED <<google, calendarSaved>>,
           \/ /\ UNCHANGED <<calendarShown, choice>> /\ panel' \in Panels /\ ~panel'.busy
              /\ calendarShown.state # "unavailable" => panel'.timer
           \/ /\ call.at = "served"
              /\ \E p \in Panels : ~p.busy /\ Calendar!Accepts(call.got, p)
    PROVE  CalendarInv'
  <1>1. Calendar!NoSnapshot \in Calendar!Snapshots
    BY DEF Calendar!NoSnapshot, Calendar!Snapshots, Calendar!States
  <1>2. /\ call' = [kind |-> "none", at |-> "none", action |-> "none", ids |-> {},
                    got |-> Calendar!NoSnapshot]
    BY DEF Calendar!NoCall
  <1>3. call' \in CalendarCalls /\ call'.kind = "none" /\ call'.at = "none"
    BY <1>1, <1>2 DEF CalendarCalls
  <1>4. CASE /\ UNCHANGED <<calendarShown, choice>> /\ panel' \in Panels /\ ~panel'.busy
             /\ calendarShown.state # "unavailable" => panel'.timer
    BY <1>3, <1>4 DEF CalendarInv, CalendarTyped, CalendarGoes
  <1>5. ASSUME NEW p \in Panels, call.at = "served", ~p.busy, Calendar!Accepts(call.got, p)
        PROVE  CalendarInv'
    <2>1. /\ call.got \in Calendar!Snapshots /\ call.got.rev >= calendarShown.rev
          /\ google.rev >= call.got.rev
      BY <1>5 DEF CalendarInv, CalendarTyped, CalendarGoes, CalendarCalls
    <2>2. /\ calendarShown' = call.got /\ panel' \in Panels /\ ~panel'.busy
          /\ choice' \in [open : BOOLEAN, ids : SUBSET Cals]
          /\ call.got.state # "unavailable" => panel'.timer
          /\ call.got.state = "choosing" /\ ~call.got.loading => choice'.ids \subseteq call.got.cals
      BY <1>5, <2>1, CalendarAccepts
    <2>3. QED
      BY <1>3, <2>1, <2>2 DEF CalendarInv, CalendarTyped, CalendarGoes
  <1>6. QED
    BY <1>4, <1>5

LEMMA CalendarMoved ==
    ASSUME NEW g \in Calendar!Connections, NEW s \in Calendar!States,
           NEW w \in {"none", "calendars", "events"}
    PROVE  Calendar!Moved(g, s, w) \in Calendar!Connections /\ Calendar!Moved(g, s, w).rev >= g.rev
  <1>1. PICK n \in Nat : n = g.rev + 1
    BY DEF Calendar!Connections
  <1>2. Calendar!Moved(g, s, w) = [g EXCEPT !.rev = n, !.state = s, !.work = w]
    BY <1>1 DEF Calendar!Moved
  <1>3. g.rev \in Nat /\ n >= g.rev
    BY <1>1 DEF Calendar!Connections
  <1>4. [g EXCEPT !.rev = n, !.state = s, !.work = w] \in Calendar!Connections
    BY DEF Calendar!Connections
  <1>5. [g EXCEPT !.rev = n, !.state = s, !.work = w].rev = n
    BY DEF Calendar!Connections
  <1>6. QED
    BY <1>2, <1>3, <1>4, <1>5

LEMMA CalendarShows ==
    ASSUME NEW g \in Calendar!Connections
    PROVE  Calendar!Shows(g) \in Calendar!Snapshots /\ Calendar!Shows(g).rev = g.rev
  BY DEF Calendar!Shows, Calendar!Snapshots, Calendar!Connections

LEMMA CalendarTimer ==
    ASSUME NEW g \in Calendar!Connections, NEW b \in BOOLEAN
    PROVE  /\ [g EXCEPT !.expiring = b] \in Calendar!Connections
           /\ [g EXCEPT !.expiring = b].rev = g.rev
  BY DEF Calendar!Connections

LEMMA CalendarLapsed ==
    ASSUME NEW g
    PROVE  Calendar!Lapsed(g) \in Calendar!States
  BY DEF Calendar!Lapsed, Calendar!States

\* The service goes on from the connection after the command; the revision only grows.
LEMMA CalendarEffect ==
    ASSUME NEW g \in Calendar!Connections, NEW v, NEW ids \in SUBSET Cals
    PROVE  /\ Calendar!Effect(g, v, ids) \in Calendar!Connections
           /\ Calendar!Effect(g, v, ids).rev >= g.rev
  <1> DEFINE Fits(h) == h \in Calendar!Connections /\ h.rev >= g.rev
             to == IF g.state = "authorizing" THEN Calendar!Lapsed(g)
                   ELSE IF g.selected # {} THEN g.back
                   ELSE IF g.account THEN "choosing" ELSE "disconnected"
             r == IF g.state = "connected" THEN "connected" ELSE "paused"
             w == Calendar!Syncing(g)
             Begins == [Calendar!Moved(g, "authorizing", "none") EXCEPT !.expiring = TRUE]
             Left == [g EXCEPT !.rev = @ + 2, !.state = "disconnected", !.work = "none",
                               !.account = FALSE, !.cals = {}, !.selected = {}, !.expiring = FALSE]
             Cancelled == [Calendar!Moved(g, to, "none") EXCEPT !.expiring = FALSE]
             Lists == [Calendar!Moved(g, "choosing", "calendars") EXCEPT !.back = r]
             Saves == [Calendar!Moved(g, "connected", "events") EXCEPT !.selected = ids]
  <1>1. /\ to \in Calendar!States /\ r \in {"connected", "paused"}
        /\ w \in {"none", "calendars", "events"}
    BY CalendarLapsed DEF Calendar!Connections, Calendar!States, Calendar!Syncing
  <1>2. {"authorizing", "choosing", "connected", "paused"} \subseteq Calendar!States
    BY DEF Calendar!States
  <1>3. ASSUME NEW s \in Calendar!States, NEW u \in {"none", "calendars", "events"}
        PROVE  Fits(Calendar!Moved(g, s, u))
    BY CalendarMoved
  <1> HIDE DEF to, r, w
  <1>4. Fits(Begins)
    BY <1>2, <1>3, CalendarTimer
  <1>5. Fits(Left)
    <2>1. PICK n \in Nat : n = g.rev + 2
      BY DEF Calendar!Connections
    <2>2. Left = [g EXCEPT !.rev = n, !.state = "disconnected", !.work = "none", !.account = FALSE,
                           !.cals = {}, !.selected = {}, !.expiring = FALSE]
      BY <2>1
    <2>3. "disconnected" \in Calendar!States /\ g.rev \in Nat /\ n >= g.rev
      BY <2>1 DEF Calendar!Connections, Calendar!States
    <2>4. Left \in Calendar!Connections /\ Left.rev = n
      BY <2>2, <2>3 DEF Calendar!Connections
    <2>5. QED
      BY <2>3, <2>4
  <1>6. Fits(Cancelled)
    <2>1. PICK h : h = Calendar!Moved(g, to, "none")
      OBVIOUS
    <2>2. Fits(h)
      BY <1>1, <1>3, <2>1
    <2>3. QED
      BY <2>1, <2>2, CalendarTimer
  <1>7. Fits(Lists)
    <2>1. PICK h : h = Calendar!Moved(g, "choosing", "calendars")
      OBVIOUS
    <2>2. Fits(h)
      BY <1>2, <1>3, <2>1
    <2>3. [h EXCEPT !.back = r] \in Calendar!Connections /\ [h EXCEPT !.back = r].rev = h.rev
      BY <1>1, <2>2 DEF Calendar!Connections
    <2>4. QED
      BY <2>1, <2>2, <2>3
  <1>8. Fits(Saves)
    <2>1. PICK h : h = Calendar!Moved(g, "connected", "events")
      OBVIOUS
    <2>2. Fits(h)
      BY <1>2, <1>3, <2>1
    <2>3. [h EXCEPT !.selected = ids] \in Calendar!Connections
          /\ [h EXCEPT !.selected = ids].rev = h.rev
      BY <2>2 DEF Calendar!Connections
    <2>4. QED
      BY <2>1, <2>2, <2>3
  <1>9. Fits(Calendar!Moved(g, "paused", "none")) /\ Fits(Calendar!Moved(g, "connected", w))
    BY <1>1, <1>2, <1>3
  <1>10. Fits([g EXCEPT !.work = w])
    BY <1>1 DEF Calendar!Connections
  <1>11. Calendar!Effect(g, v, ids) =
           CASE v = "begin" -> Begins
             [] Calendar!Leaves(g, v) -> Left
             [] v = "cancel" /\ ~Calendar!Leaves(g, v) -> Cancelled
             [] v = "calendars" -> Lists
             [] v = "save_selection" -> Saves
             [] v = "pause" -> Calendar!Moved(g, "paused", "none")
             [] v = "resume" -> Calendar!Moved(g, "connected", w)
             [] OTHER -> [g EXCEPT !.work = w]
    BY Zenon DEF Calendar!Effect, to, r, w
  <1>12. PICK e : e = Calendar!Effect(g, v, ids)
    OBVIOUS
  <1> HIDE DEF Fits, Begins, Left, Cancelled, Lists, Saves
  <1>13. Fits(e)
    BY <1>4, <1>5, <1>6, <1>7, <1>8, <1>9, <1>10, <1>11, <1>12
  <1>14. QED
    BY <1>12, <1>13 DEF Fits

\* The sign-in, the worker and the loop.
LEMMA CalendarGoogle ==
    ASSUME google \in Calendar!Connections, Calendar!GoogleActs
    PROVE  google' \in Calendar!Connections /\ google'.rev >= google.rev
  <1>1. {"choosing", "connected", "reauth_required", google.state} \subseteq Calendar!States
    BY DEF Calendar!States, Calendar!Connections
  <1>2. ASSUME NEW s \in Calendar!States, NEW u \in {"none", "calendars", "events"}
        PROVE  Calendar!Moved(google, s, u) \in Calendar!Connections
               /\ Calendar!Moved(google, s, u).rev >= google.rev
    BY <1>2, CalendarMoved
  <1>3. /\ google.work \in {"none", "calendars", "events"} /\ google.rev \in Nat
        /\ google.cals \in SUBSET Cals /\ google.selected \in SUBSET Cals
    BY DEF Calendar!Connections
  <1>4. CASE Calendar!SignInEnds
    <2>1. PICK h : h = Calendar!Moved(google, "choosing", "calendars")
      OBVIOUS
    <2>2. h \in Calendar!Connections /\ h.rev >= google.rev
      BY <1>1, <1>2, <2>1
    <2>3. CASE \E same \in {google.account, FALSE} :
                 google' = [h EXCEPT !.account = TRUE, !.expiring = FALSE,
                                     !.cals = IF same THEN @ ELSE {},
                                     !.selected = IF same THEN @ ELSE {}]
      <3>1. PICK same \in {google.account, FALSE} :
              google' = [h EXCEPT !.account = TRUE, !.expiring = FALSE,
                                  !.cals = IF same THEN h.cals ELSE {},
                                  !.selected = IF same THEN h.selected ELSE {}]
        BY <2>3
      <3>2. PICK x \in SUBSET Cals : x = IF same THEN h.cals ELSE {}
        BY <2>2 DEF Calendar!Connections
      <3>3. PICK y \in SUBSET Cals : y = IF same THEN h.selected ELSE {}
        BY <2>2 DEF Calendar!Connections
      <3>4. google' = [h EXCEPT !.account = TRUE, !.expiring = FALSE, !.cals = x, !.selected = y]
        BY <3>1, <3>2, <3>3
      <3>5. google' \in Calendar!Connections /\ google'.rev = h.rev
        BY <2>2, <3>4 DEF Calendar!Connections
      <3>6. QED
        BY <2>2, <3>5
    <2>4. CASE \E e \in BOOLEAN : google' = [Calendar!Moved(google, Calendar!Lapsed(google), "none")
                                               EXCEPT !.expiring = e]
      <3>1. PICK m : m = Calendar!Moved(google, Calendar!Lapsed(google), "none")
        OBVIOUS
      <3>2. m \in Calendar!Connections /\ m.rev >= google.rev
        BY <1>2, <3>1, CalendarLapsed
      <3>3. PICK e \in BOOLEAN : google' = [m EXCEPT !.expiring = e]
        BY <2>4, <3>1
      <3>4. google' \in Calendar!Connections /\ google'.rev = m.rev
        BY <3>2, <3>3 DEF Calendar!Connections
      <3>5. QED
        BY <3>2, <3>4
    <2>5. QED
      BY <1>4, <2>1, <2>3, <2>4 DEF Calendar!SignInEnds
  <1>5. CASE Calendar!SignInExpires
    <2>1. PICK m : m = Calendar!Moved(google, Calendar!Lapsed(google), google.work)
      OBVIOUS
    <2>2. m \in Calendar!Connections /\ m.rev >= google.rev
      BY <1>2, <1>3, <2>1, CalendarLapsed
    <2>3. google' = [m EXCEPT !.expiring = FALSE]
      BY <1>5, <2>1 DEF Calendar!SignInExpires
    <2>4. google' \in Calendar!Connections /\ google'.rev = m.rev
      BY <2>2, <2>3 DEF Calendar!Connections
    <2>5. QED
      BY <2>2, <2>4
  <1>6. CASE Calendar!WorkerEnds
    <2>1. PICK h : h = Calendar!Moved(google, google.state, "none")
      OBVIOUS
    <2>2. h \in Calendar!Connections /\ h.rev >= google.rev
      BY <1>1, <1>2, <2>1
    <2>3. CASE \E c \in SUBSET Cals : google' = [h EXCEPT !.cals = c, !.selected = @ \cap c]
      <3>1. PICK c \in SUBSET Cals : google' = [h EXCEPT !.cals = c, !.selected = h.selected \cap c]
        BY <2>3
      <3>2. google' \in Calendar!Connections /\ google'.rev = h.rev
        BY <2>2, <3>1 DEF Calendar!Connections
      <3>3. QED
        BY <2>2, <3>2
    <2>4. CASE \E s \in {"connected", "reauth_required", google.state} :
                 google' = Calendar!Moved(google, s, "none")
      BY <1>1, <1>2, <2>4
    <2>5. QED
      BY <1>6, <2>1, <2>3, <2>4 DEF Calendar!WorkerEnds
  <1>7. CASE Calendar!SyncsAgain
    <2>1. google' = [google EXCEPT !.work = "events"]
      BY <1>7 DEF Calendar!SyncsAgain
    <2>2. QED
      BY <1>3, <2>1 DEF Calendar!Connections
  <1>8. QED
    BY <1>4, <1>5, <1>6, <1>7 DEF Calendar!GoogleActs

LEMMA CalendarGoesOn ==
    ASSUME CalendarInv, Calendar!CalendarNext
    PROVE  CalendarInv'
  <1>1. /\ panel \in Panels /\ google \in Calendar!Connections /\ google.rev \in Nat
        /\ calendarShown \in Calendar!Snapshots
        /\ calendarShown.rev \in Int
        /\ call \in CalendarCalls /\ call.got \in Calendar!Snapshots
    BY DEF CalendarInv, CalendarTyped, CalendarCalls, Calendar!Connections, Calendar!Snapshots
  <1>2. ASSUME NEW p \in Panels
        PROVE  /\ [p EXCEPT !.timer = FALSE] \in Panels /\ [p EXCEPT !.timer = FALSE].busy = p.busy
               /\ [p EXCEPT !.busy = FALSE] \in Panels /\ ~[p EXCEPT !.busy = FALSE].busy
               /\ [p EXCEPT !.error = TRUE] \in Panels /\ [p EXCEPT !.error = TRUE].busy = p.busy
    BY DEF Panels
  <1>3. CASE Calendar!PollFires
    BY <1>1, <1>2, <1>3, CalendarReads DEF Calendar!PollFires
  <1>4. CASE Calendar!Checks
    BY <1>1, <1>4, CalendarReads DEF Calendar!Checks
  <1>5. CASE Calendar!ReadSettles
    <2>1. ~panel.busy
      BY <1>5 DEF Calendar!ReadSettles, CalendarInv, CalendarGoes
    <2>2. PICK p : p = [panel EXCEPT !.error = TRUE]
      OBVIOUS
    <2>3. p \in Panels /\ ~p.busy
      BY <1>1, <1>2, <2>1, <2>2
    <2>4. /\ call' = Calendar!NoCall /\ UNCHANGED <<google, calendarSaved>>
          /\ \/ call.at = "served" /\ Calendar!Accepts(call.got, panel)
             \/ panel' = Calendar!Polling(p, calendarShown) /\ UNCHANGED <<calendarShown, choice>>
      BY <1>5, <2>2 DEF Calendar!ReadSettles
    <2>5. QED
      BY <1>1, <2>1, <2>3, <2>4, CalendarSettles, CalendarPolls
  <1>6. CASE Calendar!Commands
    <2>1. PICK v \in Calendar!Offered(calendarShown, panel.confirm) :
            /\ call' = [kind |-> "POST", at |-> "sent", action |-> v, got |-> Calendar!NoSnapshot,
                        ids |-> IF v = "save_selection" THEN choice.ids ELSE {}]
            /\ calendarSaved' = IF v = "save_selection"
                                THEN [ids |-> choice.ids, of |-> calendarShown.cals]
                                ELSE calendarSaved
            /\ panel' = [panel EXCEPT !.busy = TRUE, !.confirm = @ /\ v # "disconnect"]
      BY <1>6 DEF Calendar!Commands
    <2>2. /\ v \in Calendar!Verbs
          /\ v = "save_selection" => calendarShown.state = "choosing" /\ ~calendarShown.loading
      BY Zenon DEF Calendar!Offered, Calendar!Verbs
    <2>3. Calendar!NoSnapshot \in Calendar!Snapshots
      BY DEF Calendar!NoSnapshot, Calendar!Snapshots, Calendar!States
    <2>4. choice.ids \subseteq Cals /\ calendarShown.cals \subseteq Cals
      BY DEF CalendarInv, CalendarTyped, Calendar!Snapshots
    <2>5. call' \in CalendarCalls /\ call'.kind = "POST" /\ call'.at = "sent"
      BY <2>1, <2>2, <2>3, <2>4 DEF CalendarCalls
    <2>6. PICK b \in BOOLEAN : panel' = [panel EXCEPT !.busy = TRUE, !.confirm = b]
      BY <1>1, <2>1 DEF Panels
    <2>7. panel' \in Panels /\ panel'.busy
      BY <1>1, <2>6 DEF Panels
    <2>8. /\ calendarSaved' \in [ids : SUBSET Cals, of : SUBSET Cals]
          /\ calendarSaved'.ids \subseteq calendarSaved'.of
      BY <2>1, <2>2, <2>4 DEF CalendarInv, CalendarTyped, CalendarGoes
    <2>9. UNCHANGED <<google, calendarShown, choice>>
      BY <1>6 DEF Calendar!Commands
    <2>10. QED
      BY <2>5, <2>7, <2>8, <2>9 DEF CalendarInv, CalendarTyped, CalendarGoes
  <1>7. CASE Calendar!CommandSettles
    <2>1. PICK p : p = [panel EXCEPT !.busy = FALSE]
      OBVIOUS
    <2>2. PICK q : q = [p EXCEPT !.error = TRUE]
      OBVIOUS
    <2>3. p \in Panels /\ ~p.busy /\ q \in Panels /\ ~q.busy
      BY <1>1, <1>2, <2>1, <2>2
    <2>4. /\ call' = Calendar!NoCall /\ UNCHANGED <<google, calendarSaved>>
          /\ \/ /\ call.at = "served"
                /\ \/ Calendar!Accepts(call.got, Calendar!Polling(p, calendarShown))
                   \/ Calendar!Accepts(call.got, Calendar!Polling(q, calendarShown))
             \/ panel' = Calendar!Polling(q, calendarShown) /\ UNCHANGED <<calendarShown, choice>>
      BY <1>7, <2>1, <2>2 DEF Calendar!CommandSettles
    <2>5. QED
      BY <1>1, <2>3, <2>4, CalendarSettles, CalendarPolls
  <1>8. CASE Calendar!Chooses
    <2>1. UNCHANGED <<google, calendarShown, call, calendarSaved>>
      BY <1>8 DEF Calendar!Chooses
    <2>2. ASSUME UNCHANGED panel, calendarShown.state = "choosing", ~calendarShown.loading,
                 NEW c \in calendarShown.cals,
                 choice' = [choice EXCEPT !.ids = IF c \in @ THEN @ \ {c} ELSE @ \cup {c}]
          PROVE  CalendarInv'
      <3>1. /\ choice' \in [open : BOOLEAN, ids : SUBSET Cals]
            /\ choice'.ids \subseteq choice.ids \cup {c}
        BY <2>2 DEF CalendarInv, CalendarTyped, Calendar!Snapshots
      <3>2. QED
        BY <2>1, <2>2, <3>1 DEF CalendarInv, CalendarTyped, CalendarGoes
    <2>3. ASSUME UNCHANGED choice, panel' = [panel EXCEPT !.confirm = ~@]
          PROVE  CalendarInv'
      <3>1. panel' \in Panels /\ panel'.busy = panel.busy /\ panel'.timer = panel.timer
        BY <1>1, <2>3 DEF Panels
      <3>2. QED
        BY <2>1, <2>3, <3>1 DEF CalendarInv, CalendarTyped, CalendarGoes
    <2>4. QED
      BY <1>8, <2>2, <2>3 DEF Calendar!Chooses
  <1>9. CASE Calendar!Answered
    <2>1. /\ call.at = "sent" /\ UNCHANGED <<calendarShown, choice, panel, calendarSaved>>
      BY <1>9 DEF Calendar!Answered
    <2>2. CASE call.kind = "GET" /\ call' = [call EXCEPT !.at = "served", !.got = Calendar!Shows(google)]
               /\ UNCHANGED google
      <3>1. Calendar!Shows(google) \in Calendar!Snapshots /\ Calendar!Shows(google).rev = google.rev
        BY <1>1, CalendarShows
      <3>2. call' \in CalendarCalls /\ call'.kind = "GET" /\ call'.got = Calendar!Shows(google)
        BY <1>1, <2>2, <3>1 DEF CalendarCalls
      <3>3. QED
        BY <1>1, <2>1, <2>2, <3>1, <3>2 DEF CalendarInv, CalendarTyped, CalendarGoes
    <2>3. CASE /\ google' = Calendar!Effect(google, call.action, call.ids)
               /\ call' = [call EXCEPT !.at = "served", !.got = Calendar!Shows(google')]
      <3>1. google' \in Calendar!Connections /\ google'.rev >= google.rev /\ google'.rev \in Nat
        BY <1>1, <2>3, CalendarEffect DEF CalendarCalls, Calendar!Connections
      <3>2. /\ Calendar!Shows(google') \in Calendar!Snapshots
            /\ Calendar!Shows(google').rev = google'.rev
        BY <3>1, CalendarShows
      <3>3. call' \in CalendarCalls /\ call'.kind = call.kind /\ call'.got = Calendar!Shows(google')
        BY <1>1, <2>3, <3>2 DEF CalendarCalls
      <3>4. QED
        BY <1>1, <2>1, <3>1, <3>2, <3>3 DEF CalendarInv, CalendarTyped, CalendarGoes
    <2>4. CASE /\ call' = [call EXCEPT !.at = "failed"]
               /\ \/ UNCHANGED google
                  \/ google' = Calendar!Effect(google, call.action, call.ids)
                  \/ google' = Calendar!Keeps(google)
      <3>1. call' \in CalendarCalls /\ call'.kind = call.kind /\ call'.at = "failed"
        BY <1>1, <2>4 DEF CalendarCalls
      <3>2. google' \in Calendar!Connections /\ google'.rev >= google.rev /\ google'.rev \in Nat
        <4>1. CASE UNCHANGED google
          BY <1>1, <4>1
        <4>2. CASE google' = Calendar!Effect(google, call.action, call.ids)
          BY <1>1, <4>2, CalendarEffect DEF CalendarCalls, Calendar!Connections
        <4>3. CASE google' = Calendar!Keeps(google)
          <5>1. PICK s \in Calendar!States : s = IF google.account THEN "paused" ELSE "disconnected"
            BY DEF Calendar!States
          <5>2. google' = [Calendar!Moved(google, s, "none") EXCEPT !.expiring = FALSE]
            BY <4>3, <5>1 DEF Calendar!Keeps
          <5>3. /\ Calendar!Moved(google, s, "none") \in Calendar!Connections
                /\ Calendar!Moved(google, s, "none").rev >= google.rev
            BY <1>1, CalendarMoved
          <5>4. google' \in Calendar!Connections /\ google'.rev >= google.rev
            BY <5>2, <5>3, CalendarTimer
          <5>5. QED
            BY <5>4 DEF Calendar!Connections
        <4>4. QED
          BY <2>4, <4>1, <4>2, <4>3
      <3>3. QED
        BY <1>1, <2>1, <3>1, <3>2 DEF CalendarInv, CalendarTyped, CalendarGoes
    <2>5. QED
      BY <1>9, <2>2, <2>3, <2>4 DEF Calendar!Answered
  <1>10. CASE Calendar!GoogleActs
    <2>1. UNCHANGED <<calendarShown, choice, panel, call, calendarSaved>>
      BY <1>10 DEF Calendar!GoogleActs
    <2>2. google' \in Calendar!Connections /\ google'.rev >= google.rev
      BY <1>1, <1>10, CalendarGoogle
    <2>3. QED
      BY <1>1, <2>1, <2>2 DEF CalendarInv, CalendarTyped, CalendarGoes, CalendarCalls,
                              Calendar!Connections, Calendar!Snapshots
  <1>11. QED
    BY <1>3, <1>4, <1>5, <1>6, <1>7, <1>8, <1>9, <1>10 DEF Calendar!CalendarNext

LEMMA CalendarPolled ==
    ASSUME CalendarInv
    PROVE  Calendar!CalendarIsPolled
  BY DEF CalendarInv, CalendarGoes, Calendar!CalendarIsPolled
\* No step takes a tick away but the person's own.
LEMMA CalendarChoiceStays ==
    ASSUME CalendarInv, Calendar!CalendarNext
    PROVE  Calendar!ChoiceIsListed
  <1>1. calendarSaved'.ids \subseteq calendarSaved'.of
    BY CalendarGoesOn DEF CalendarInv, CalendarGoes
  <1>2. CASE UNCHANGED choice \/ UNCHANGED call
    BY <1>1, <1>2 DEF Calendar!ChoiceIsListed
  <1>3. CASE \E p \in Panels : call.at = "served" /\ Calendar!Accepts(call.got, p)
    <2>1. /\ call.got \in Calendar!Snapshots /\ call.got.rev >= calendarShown.rev
          /\ google.rev >= call.got.rev
      BY <1>3 DEF CalendarInv, CalendarTyped, CalendarGoes, CalendarCalls
    <2>2. /\ calendarShown' = call.got
          /\ choice.open /\ choice'.open => choice.ids \cap call.got.cals \subseteq choice'.ids
      BY <1>3, <2>1, CalendarAccepts
    <2>3. QED
      BY <1>1, <2>2 DEF Calendar!ChoiceIsListed
  <1>4. panel \in Panels /\ calendarShown \in Calendar!Snapshots
    BY DEF CalendarInv, CalendarTyped
  <1>5. /\ [panel EXCEPT !.busy = FALSE] \in Panels
        /\ [[panel EXCEPT !.busy = FALSE] EXCEPT !.error = TRUE] \in Panels
    BY <1>4 DEF Panels
  <1>6. CASE Calendar!ReadSettles
    BY <1>2, <1>3, <1>4, <1>6 DEF Calendar!ReadSettles
  <1>7. CASE Calendar!CommandSettles
    BY <1>2, <1>3, <1>4, <1>5, <1>7, CalendarPolls DEF Calendar!CommandSettles
  <1>8. CASE ~(Calendar!ReadSettles \/ Calendar!CommandSettles)
    BY <1>2, <1>8 DEF Calendar!CalendarNext, Calendar!PollFires, Calendar!Checks, Calendar!Commands,
                      Calendar!Chooses, Calendar!Answered, Calendar!GoogleActs
  <1>9. QED
    BY <1>6, <1>7, <1>8
-----------------------------------------------------------------------------
(* NativeBridge: the retries of the worker.                                 *)
Workers == [port : BOOLEAN, policy : Native!Policies \cup {Native!NoPolicy}, gen : Nat,
            verified : BOOLEAN, made : BOOLEAN,
            state : {"unavailable", "connected", "ready", "disabled", "unshared", "shared",
                     "error", "disconnected", "browser-access-off"},
            timer : BOOLEAN, tries : 0 .. RetryLimit, blocked : BOOLEAN]

\* A handshake is of a port, and no port is open while the worker is blocked.
WorkerFits(w) ==
    /\ w \in Workers
    /\ w.verified => w.port
    /\ w.port => w.made /\ ~w.blocked

\* A worker goes on with a port or a retry, unless it used them all.
WorkerGoes(w) == w.port \/ w.timer \/ w.tries = RetryLimit

News == {"removed", "added", "excluded"}
Comes(news, n) == \E i \in 1 .. Len(news) : news[i] = n

\* What Chrome has still to tell makes up for what the worker does not know: without the
\* grant, a port or a retry that is left will be closed by the news; with it, a call is under
\* way, or the news, after the last removal, will make one.
RetriesGoOn ==
    /\ chrome.granted \in BOOLEAN /\ chrome.news \in Seq(News)
    /\ chrome.granted => \A i \in 1 .. Len(chrome.news) : chrome.news[i] = "removed" =>
            \E j \in 1 .. Len(chrome.news) : j > i /\ chrome.news[j] = "added"
    /\ chrome.granted => Comes(chrome.news, "added") \/ calls.refreshes # {} \/ WorkerGoes(worker)
    /\ ~chrome.granted => Comes(chrome.news, "removed") \/ (~worker.port /\ ~worker.timer)

Samplings == [at : 0 .. 10, gen : Nat, policy : Native!Policies \cup {Native!NoPolicy},
              site : Sites \cup {NoSite}, asOf : Nat, never : SUBSET Sites]

\* A sample whose generation is still the worker's is of the policy that is in force, and
\* was asked for when sharing last changed; once the exclusions were looked at, its page
\* is none of the sites excluded since.
SampleIsHonest ==
    LET s == calls.sample IN
    /\ s \in Samplings
    /\ s.never \subseteq chrome.excluded
    /\ s.at # 0 => s.gen <= worker.gen
    /\ s.at # 0 /\ worker.port /\ s.gen = worker.gen => s.asOf = told /\ s.policy = worker.policy
    /\ s.at > 3 => s.site # NoSite
    /\ s.at > 4 => s.site \notin s.never \cup s.policy.banned

NativeInv ==
    /\ WorkerFits(worker) /\ RetriesGoOn /\ SampleIsHonest
    /\ calls = [refreshes |-> calls.refreshes, verify |-> calls.verify, sample |-> calls.sample]
    /\ chrome = [granted |-> chrome.granted, excluded |-> chrome.excluded, page |-> chrome.page,
                 news |-> chrome.news]
    /\ chrome.page \in Sites \cup {NoSite} /\ chrome.excluded \subseteq Sites /\ told \in Nat

LEMMA Reported ==
    ASSUME RetryLimit \in Nat \ {0}, NEW w, WorkerFits(w),
           NEW s \in {"unavailable", "connected", "ready", "disabled", "unshared", "shared",
                      "error", "disconnected", "browser-access-off"}
    PROVE  LET v == Native!Reports(w, s) IN
           /\ WorkerFits(v)
           /\ v.port = w.port /\ v.gen = w.gen /\ v.policy = w.policy /\ v.made = w.made
           /\ v.blocked = w.blocked
           /\ WorkerGoes(w) => WorkerGoes(v)
           /\ ~w.port /\ ~w.timer /\ (w.blocked \/ s \notin {"error", "disconnected"}) => ~v.timer
           /\ ~w.port /\ ~w.blocked /\ s = "disconnected" => WorkerGoes(v)
  <1>1. PICK v : v = [w EXCEPT !.state = s]
    OBVIOUS
  <1>2. /\ v \in Workers /\ v.port = w.port /\ v.gen = w.gen /\ v.policy = w.policy
        /\ v.made = w.made /\ v.blocked = w.blocked /\ v.timer = w.timer /\ v.tries = w.tries
        /\ v.verified = w.verified
    BY <1>1 DEF WorkerFits, Workers
  <1>3. PICK t : t = [v EXCEPT !.timer = FALSE, !.tries = 0]
    OBVIOUS
  <1>4. /\ t \in Workers /\ t.port = w.port /\ t.gen = w.gen /\ t.policy = w.policy
        /\ t.made = w.made /\ t.blocked = w.blocked /\ ~t.timer /\ t.verified = w.verified
    <2>1. 0 \in 0 .. RetryLimit
      OBVIOUS
    <2>2. t \in Workers
      BY <1>2, <1>3, <2>1 DEF Workers
    <2>3. v \in Workers
      BY <1>2
    <2>4. t.port = v.port /\ t.gen = v.gen /\ t.policy = v.policy /\ t.made = v.made
      BY <2>3, <1>3 DEF Workers
    <2>5. t.blocked = v.blocked /\ ~t.timer /\ t.verified = v.verified
      BY <2>3, <1>3 DEF Workers
    <2>6. QED
      BY <1>2, <2>2, <2>4, <2>5
  <1>5. Native!Reports(w, s) = IF w.verified THEN t
                               ELSE IF ~w.port /\ s \in {"disconnected", "error"}
                               THEN Native!SchedulesReconnect(v) ELSE v
    BY <1>1, <1>2, <1>3 DEF Native!Reports, Native!StopsReconnect
  <1>6. CASE v.blocked \/ v.timer \/ v.tries >= RetryLimit
    <2>1. Native!SchedulesReconnect(v) = v
      BY <1>6 DEF Native!SchedulesReconnect
    <2>2. v.tries \in 0 .. RetryLimit
      BY <1>2 DEF Workers
    <2>3. QED
      BY <1>2, <1>4, <1>5, <1>6, <2>1, <2>2 DEF WorkerFits, WorkerGoes
  <1>7. CASE ~(v.blocked \/ v.timer \/ v.tries >= RetryLimit)
    <2>1. PICK n \in 0 .. RetryLimit : n = v.tries + 1
      BY <1>2, <1>7 DEF Workers
    <2>2. PICK u : u = [v EXCEPT !.timer = TRUE, !.tries = n]
      OBVIOUS
    <2>3. Native!SchedulesReconnect(v) = u
      BY <1>7, <2>1, <2>2 DEF Native!SchedulesReconnect
    <2>4. /\ u \in Workers /\ u.port = w.port /\ u.gen = w.gen /\ u.policy = w.policy
          /\ u.made = w.made /\ u.blocked = w.blocked /\ u.timer /\ u.verified = w.verified
      BY <1>2, <2>2 DEF Workers
    <2>5. QED
      BY <1>2, <1>4, <1>5, <1>7, <2>3, <2>4 DEF WorkerFits, WorkerGoes
  <1>8. QED
    BY <1>6, <1>7
LEMMA Rescheduled ==
    ASSUME RetryLimit \in Nat \ {0}, NEW w, WorkerFits(w)
    PROVE  LET v == Native!SchedulesReconnect(w) IN
           /\ WorkerFits(v) /\ v.port = w.port /\ v.gen = w.gen /\ v.policy = w.policy
           /\ ~w.blocked => WorkerGoes(v)
  <1>1. CASE w.blocked \/ w.timer \/ w.tries >= RetryLimit
    <2>1. Native!SchedulesReconnect(w) = w
      BY <1>1 DEF Native!SchedulesReconnect
    <2>2. w.tries \in 0 .. RetryLimit
      BY DEF WorkerFits, Workers
    <2>3. QED
      BY <1>1, <2>1, <2>2 DEF WorkerGoes
  <1>2. CASE ~(w.blocked \/ w.timer \/ w.tries >= RetryLimit)
    <2>1. PICK n \in 0 .. RetryLimit : n = w.tries + 1
      BY <1>2 DEF WorkerFits, Workers
    <2>2. PICK u : u = [w EXCEPT !.timer = TRUE, !.tries = n]
      OBVIOUS
    <2>3. Native!SchedulesReconnect(w) = u
      BY <1>2, <2>1, <2>2 DEF Native!SchedulesReconnect
    <2>4. /\ u \in Workers /\ u.port = w.port /\ u.gen = w.gen /\ u.policy = w.policy
          /\ u.made = w.made /\ u.blocked = w.blocked /\ u.timer /\ u.verified = w.verified
      BY <2>2 DEF WorkerFits, Workers
    <2>5. QED
      BY <2>3, <2>4 DEF WorkerFits, WorkerGoes
  <1>3. QED
    BY <1>1, <1>2

\* A port that closes is followed by a retry, unless the worker is blocked.
LEMMA WorkerCloses ==
    ASSUME RetryLimit \in Nat \ {0}, NEW w \in Workers
    PROVE  LET v == Native!Closed(w) IN
           /\ WorkerFits(v) /\ ~v.port /\ v.gen = w.gen + 1
           /\ ~w.blocked => WorkerGoes(v)
           /\ w.blocked /\ ~w.timer => ~v.timer
  <1>1. PICK n \in Nat : n = w.gen + 1
    BY DEF Workers
  <1>2. PICK u : u = [w EXCEPT !.gen = n, !.port = FALSE, !.policy = Native!NoPolicy,
                               !.verified = FALSE]
    OBVIOUS
  <1>3. u \in Workers
    BY <1>2 DEF Workers
  <1>4. /\ ~u.port /\ ~u.verified /\ u.gen = n /\ u.blocked = w.blocked /\ u.timer = w.timer
        /\ u.tries = w.tries
    BY <1>2 DEF Workers
  <1>5. Native!Closed(w) = Native!Reports(u, "disconnected")
    BY <1>1, <1>2 DEF Native!Closed
  <1>6. WorkerFits(u)
    BY <1>3, <1>4 DEF WorkerFits
  <1>7. QED
    BY <1>1, <1>4, <1>5, <1>6, Reported

\* Without the access neither a port nor a retry is left.
LEMMA WorkerGivesUp ==
    ASSUME RetryLimit \in Nat \ {0}, NEW w, WorkerFits(w)
    PROVE  LET v == Native!AccessOff(w) IN
           /\ WorkerFits(v) /\ ~v.port /\ ~v.timer /\ v.gen >= w.gen
           /\ w.port => v.gen > w.gen
  <1>2. PICK b : b = [[w EXCEPT !.blocked = TRUE] EXCEPT !.timer = FALSE, !.tries = 0]
    OBVIOUS
  <1>3. 0 \in 0 .. RetryLimit /\ w \in Workers /\ w.gen \in Nat
    BY DEF WorkerFits, Workers
  <1>4. b \in Workers
    <2>1. [w EXCEPT !.blocked = TRUE] \in Workers
      BY <1>3 DEF Workers
    <2>2. QED
      BY <1>2, <1>3, <2>1 DEF Workers
  <1>5. /\ b.blocked /\ ~b.timer /\ b.port = w.port /\ b.verified = w.verified /\ b.made = w.made
        /\ b.gen = w.gen
    <2>1. PICK c : c = [w EXCEPT !.blocked = TRUE]
      OBVIOUS
    <2>2. /\ c \in Workers /\ c.blocked /\ c.port = w.port /\ c.verified = w.verified
          /\ c.made = w.made /\ c.gen = w.gen
      BY <1>3, <2>1 DEF Workers
    <2>3. QED
      BY <1>2, <2>1, <2>2 DEF Workers
  <1>6. PICK v : v = IF b.made THEN Native!Closed(b) ELSE b
    OBVIOUS
  <1>7. WorkerFits(v) /\ ~v.port /\ ~v.timer /\ v.gen >= w.gen /\ (w.port => v.gen > w.gen)
    <2>1. CASE b.made
      BY <1>3, <1>4, <1>5, <1>6, <2>1, WorkerCloses
    <2>2. CASE ~b.made
      BY <1>3, <1>4, <1>5, <1>6, <2>2 DEF WorkerFits
    <2>3. QED
      BY <2>1, <2>2
  <1>8. Native!AccessOff(w) = [v EXCEPT !.state = "browser-access-off"]
    BY <1>2, <1>6 DEF Native!AccessOff, Native!StopsReconnect
  <1>9. PICK u : u = [v EXCEPT !.state = "browser-access-off"]
    OBVIOUS
  <1>10. /\ u \in Workers /\ u.port = v.port /\ u.timer = v.timer /\ u.gen = v.gen
         /\ u.verified = v.verified /\ u.made = v.made /\ u.blocked = v.blocked
    BY <1>7, <1>9 DEF WorkerFits, Workers
  <1>11. QED
    BY <1>7, <1>8, <1>9, <1>10 DEF WorkerFits
LEMMA WorkerConnects ==
    ASSUME RetryLimit \in Nat \ {0}, NEW w, WorkerFits(w), w.made, ~w.blocked
    PROVE  LET v == Native!Connected(w) IN
           /\ WorkerFits(v) /\ v.port /\ v.gen >= w.gen
           /\ v.gen = w.gen => w.port /\ v.policy = w.policy
  <1>1. w \in Workers /\ w.gen \in Nat
    BY DEF WorkerFits, Workers
  <1>2. CASE w.port
    BY <1>1, <1>2 DEF Native!Connected
  <1>3. CASE ~w.port
    <2>1. PICK n \in Nat : n = w.gen + 1
      BY <1>1
    <2>2. PICK u : u = [w EXCEPT !.gen = n, !.port = TRUE]
      OBVIOUS
    <2>3. /\ u \in Workers /\ u.port /\ u.gen = n /\ u.made /\ ~u.blocked
      BY <1>1, <2>2 DEF Workers
    <2>4. WorkerFits(u)
      BY <2>3 DEF WorkerFits
    <2>5. Native!Connected(w) = Native!Reports(u, "connected")
      BY <1>3, <2>1, <2>2 DEF Native!Connected
    <2>6. QED
      BY <1>1, <2>1, <2>3, <2>4, <2>5, Reported
  <1>4. QED
    BY <1>2, <1>3

\* A sample in flight stays honest when the worker's generation moved on, or nothing that it
\* depends on changed.
LEMMA SampleStays ==
    ASSUME NativeInv, WorkerFits(worker'), worker'.gen >= worker.gen,
           worker'.port /\ worker'.gen = worker.gen
               => worker.port /\ worker'.policy = worker.policy /\ told' = told,
           calls'.sample \in {calls.sample, Native!Idle}, chrome'.excluded = chrome.excluded
    PROVE  SampleIsHonest'
  <1>1. /\ Native!Idle \in Samplings /\ Native!Idle.at = 0 /\ Native!Idle.never = {}
    BY DEF Native!Idle, Samplings
  <1>2. /\ worker.gen \in Nat /\ worker'.gen \in Nat /\ calls.sample.gen \in Nat
        /\ calls.sample.at \in 0 .. 10
    BY DEF NativeInv, WorkerFits, Workers, SampleIsHonest, Samplings
  <1>3. CASE calls'.sample = Native!Idle
    BY <1>1, <1>3 DEF SampleIsHonest
  <1>4. CASE calls'.sample = calls.sample
    <2>1. /\ calls.sample.at # 0 /\ worker'.port /\ calls.sample.gen = worker'.gen
             => calls.sample.asOf = told' /\ calls.sample.policy = worker'.policy
      BY <1>2 DEF NativeInv, SampleIsHonest
    <2>2. calls.sample.at # 0 => calls.sample.gen <= worker'.gen
      BY <1>2 DEF NativeInv, SampleIsHonest
    <2>3. QED
      BY <1>4, <2>1, <2>2 DEF NativeInv, SampleIsHonest
  <1>5. QED
    BY <1>3, <1>4

LEMMA NativeBegins ==
    ASSUME RetryLimit \in Nat \ {0}, Sites # {}, Native!NativeInit
    PROVE  NativeInv
  <1>1. PICK s \in Sites, g \in BOOLEAN :
          chrome = [granted |-> g, excluded |-> {}, page |-> s, news |-> <<>>]
    <2>1. (CHOOSE s \in Sites : TRUE) \in Sites
      OBVIOUS
    <2>2. QED
      BY <2>1 DEF Native!NativeInit
  <1>2. worker \in Workers
    BY DEF Native!NativeInit, Workers
  <1>3. ~worker.port /\ ~worker.timer /\ ~worker.verified
    BY DEF Native!NativeInit
  <1>4. calls = [refreshes |-> {"other"}, verify |-> 0, sample |-> Native!Idle]
    BY DEF Native!NativeInit
  <1>5. SampleIsHonest
    BY <1>1, <1>4 DEF SampleIsHonest, Native!Idle, Samplings
  <1>6. <<>> \in Seq(News) /\ Len(<<>>) = 0
    OBVIOUS
  <1>7. RetriesGoOn
    BY <1>1, <1>3, <1>4, <1>6 DEF RetriesGoOn, Comes
  <1>8. told = 0
    BY DEF Native!NativeInit
  <1>9. QED
    BY <1>1, <1>2, <1>3, <1>4, <1>5, <1>7, <1>8 DEF NativeInv, WorkerFits
\* What stays of the invariant in a step of the worker alone.
LEMMA WorkerSteps ==
    ASSUME NativeInv, UNCHANGED chrome, WorkerFits(worker'), SampleIsHonest',
           calls' = [refreshes |-> calls'.refreshes, verify |-> calls'.verify,
                     sample |-> calls'.sample],
           told' \in Nat,
           chrome.granted /\ ~Comes(chrome.news, "added")
               => calls'.refreshes # {} \/ WorkerGoes(worker'),
           ~chrome.granted /\ ~Comes(chrome.news, "removed") => ~worker'.port /\ ~worker'.timer
    PROVE  NativeInv'
  BY DEF NativeInv, RetriesGoOn

LEMMA NativeRefreshes ==
    ASSUME RetryLimit \in Nat \ {0}, NativeInv, NEW r, Native!Refreshes(r)
    PROVE  NativeInv'
  <1>1. /\ WorkerFits(worker) /\ worker \in Workers /\ worker.gen \in Nat /\ told \in Nat
    BY DEF NativeInv, WorkerFits, Workers
  <1>2. /\ calls' = [refreshes |-> calls.refreshes \ {r}, verify |-> calls.verify,
                     sample |-> calls.sample]
        /\ UNCHANGED chrome
    BY DEF Native!Refreshes, NativeInv
  <1>3. CASE ~chrome.granted
    <2>1. worker' = Native!AccessOff(worker) /\ told' = told + 1
      BY <1>3 DEF Native!Refreshes
    <2>2. WorkerFits(worker') /\ ~worker'.port /\ ~worker'.timer /\ worker'.gen >= worker.gen
      BY <1>1, <2>1, WorkerGivesUp
    <2>3. SampleIsHonest'
      BY <1>1, <1>2, <2>2, SampleStays
    <2>4. QED
      BY <1>1, <1>2, <1>3, <2>1, <2>2, <2>3, WorkerSteps
  <1>4. CASE chrome.granted
    <2>1. PICK w : w = [worker EXCEPT !.blocked = FALSE, !.made = TRUE]
      OBVIOUS
    <2>2. /\ w \in Workers /\ w.port = worker.port /\ w.gen = worker.gen /\ w.policy = worker.policy
          /\ w.made /\ ~w.blocked /\ w.verified = worker.verified
      BY <1>1, <2>1 DEF Workers
    <2>3. WorkerFits(w)
      BY <1>1, <2>2 DEF WorkerFits
    <2>4. PICK n \in Nat : n = worker.gen + 1
      BY <1>1
    <2>5. PICK x : x = [w EXCEPT !.state = "error", !.gen = n]
      OBVIOUS
    <2>6. /\ x \in Workers /\ x.port = worker.port /\ x.gen = n /\ x.made /\ ~x.blocked
          /\ x.verified = worker.verified
      BY <2>2, <2>4, <2>5 DEF Workers
    <2>7. WorkerFits(x)
      BY <1>1, <2>6 DEF WorkerFits
    <2>8. PICK v : /\ v = Native!Connected(w) \/ (~worker.port /\ v = Native!SchedulesReconnect(x))
                   /\ worker' = v \/ (~v.port /\ worker' = Native!SchedulesReconnect(v))
                   /\ UNCHANGED told
      <3>1. \/ worker' = IF r = "timer" /\ ~Native!Connected(w).port
                            /\ Native!Connected(w).state # "browser-access-off"
                         THEN Native!SchedulesReconnect(Native!Connected(w)) ELSE Native!Connected(w)
            \/ /\ ~worker.port
               /\ worker' = IF r = "timer" /\ ~Native!SchedulesReconnect(x).port
                               /\ Native!SchedulesReconnect(x).state # "browser-access-off"
                            THEN Native!SchedulesReconnect(Native!SchedulesReconnect(x))
                            ELSE Native!SchedulesReconnect(x)
        BY <1>4, <2>1, <2>4, <2>5 DEF Native!Refreshes
      <3>2. UNCHANGED told
        BY <1>4 DEF Native!Refreshes
      <3>3. QED
        BY <3>1, <3>2
    <2>9. /\ WorkerFits(v) /\ WorkerGoes(v) /\ v.gen >= worker.gen
          /\ v.port /\ v.gen = worker.gen => worker.port /\ v.policy = worker.policy
      <3>1. CASE v = Native!Connected(w)
        BY <2>2, <2>3, <3>1, WorkerConnects DEF WorkerGoes
      <3>2. CASE ~worker.port /\ v = Native!SchedulesReconnect(x)
        BY <1>1, <2>4, <2>6, <2>7, <3>2, Rescheduled
      <3>3. QED
        BY <2>8, <3>1, <3>2
    <2>10. /\ WorkerFits(worker') /\ WorkerGoes(worker') /\ worker'.gen >= worker.gen
           /\ worker'.port /\ worker'.gen = worker.gen
                => worker.port /\ worker'.policy = worker.policy
      <3>1. CASE worker' = v
        BY <2>9, <3>1
      <3>2. CASE ~v.port /\ worker' = Native!SchedulesReconnect(v)
        <4>1. WorkerFits(worker') /\ ~worker'.port /\ worker'.gen = v.gen
          BY <2>9, <3>2, Rescheduled
        <4>2. WorkerGoes(worker')
          <5>1. CASE v.blocked \/ v.timer \/ v.tries >= RetryLimit
            BY <2>9, <3>2, <5>1 DEF Native!SchedulesReconnect
          <5>2. CASE ~v.blocked
            BY <2>9, <3>2, <5>2, Rescheduled
          <5>3. QED
            BY <5>1, <5>2
        <4>3. QED
          BY <2>9, <4>1, <4>2
      <3>3. QED
        BY <2>8, <3>1, <3>2
    <2>11. SampleIsHonest'
      BY <1>2, <2>8, <2>10, SampleStays
    <2>12. QED
      BY <1>1, <1>2, <1>4, <2>8, <2>10, <2>11, WorkerSteps
  <1>5. QED
    BY <1>3, <1>4

LEMMA NativeHears ==
    ASSUME RetryLimit \in Nat \ {0}, NativeInv, Native!Hears
    PROVE  NativeInv'
  <1>1. /\ WorkerFits(worker) /\ worker \in Workers /\ worker.gen \in Nat /\ told \in Nat
        /\ chrome.news \in Seq(News) /\ chrome.granted \in BOOLEAN
    BY DEF NativeInv, WorkerFits, Workers, RetriesGoOn
  <1>2. /\ chrome' = [granted |-> chrome.granted, excluded |-> chrome.excluded,
                      page |-> chrome.page, news |-> Tail(chrome.news)]
        /\ chrome.news # <<>>
    BY DEF Native!Hears, NativeInv
  <1>3. /\ Tail(chrome.news) \in Seq(News) /\ Len(Tail(chrome.news)) = Len(chrome.news) - 1
        /\ \A i \in 1 .. Len(Tail(chrome.news)) : Tail(chrome.news)[i] = chrome.news[i + 1]
        /\ Head(chrome.news) = chrome.news[1] /\ Len(chrome.news) \in Nat
        /\ chrome.news[1] \in News /\ 1 \in 1 .. Len(chrome.news)
    BY <1>1, <1>2
  <1>4. \A n \in News : Comes(chrome.news, n) /\ chrome.news[1] # n => Comes(chrome'.news, n)
    <2>1. SUFFICES ASSUME NEW n \in News, NEW i \in 1 .. Len(chrome.news), chrome.news[i] = n,
                          chrome.news[1] # n
                   PROVE  Comes(chrome'.news, n)
      BY DEF Comes
    <2>2. i - 1 \in 1 .. Len(Tail(chrome.news)) /\ (i - 1) + 1 = i
      BY <1>3, <2>1
    <2>3. QED
      BY <1>2, <1>3, <2>1, <2>2 DEF Comes
  <1>5. chrome.granted =>
          /\ \A i \in 1 .. Len(chrome'.news) : chrome'.news[i] = "removed" =>
                \E j \in 1 .. Len(chrome'.news) : j > i /\ chrome'.news[j] = "added"
          /\ chrome.news[1] = "removed" => Comes(chrome'.news, "added")
    <2>1. SUFFICES ASSUME chrome.granted,
                          NEW i \in 1 .. Len(chrome.news), chrome.news[i] = "removed"
                   PROVE  \E j \in 1 .. Len(chrome'.news) : j > i - 1 /\ chrome'.news[j] = "added"
      <3>1. \A i \in 1 .. Len(chrome'.news) : /\ i + 1 \in 1 .. Len(chrome.news) /\ i \in Int
                                             /\ chrome'.news[i] = chrome.news[i + 1]
                                             /\ (i + 1) - 1 = i
        BY <1>2, <1>3
      <3>2. QED
        BY <1>3, <3>1 DEF Comes
    <2>2. PICK j \in 1 .. Len(chrome.news) : j > i /\ chrome.news[j] = "added"
      BY <2>1 DEF NativeInv, RetriesGoOn
    <2>3. j - 1 \in 1 .. Len(Tail(chrome.news)) /\ (j - 1) + 1 = j /\ j - 1 > i - 1
      BY <1>3, <2>2
    <2>4. QED
      BY <1>2, <1>3, <2>2, <2>3
  <1>6. /\ WorkerFits(worker') /\ worker'.gen >= worker.gen /\ told' \in Nat
        /\ worker'.port /\ worker'.gen = worker.gen
             => worker.port /\ worker'.policy = worker.policy /\ told' = told
        /\ calls' = [refreshes |-> calls'.refreshes, verify |-> calls.verify,
                     sample |-> calls.sample]
        /\ \/ chrome.news[1] = "removed" /\ ~worker'.port /\ ~worker'.timer
           \/ chrome.news[1] = "added" /\ "other" \in calls'.refreshes
              /\ worker'.port = worker.port /\ worker'.timer = worker.timer
           \/ /\ chrome.news[1] = "excluded" /\ calls'.refreshes = calls.refreshes
              /\ worker'.port = worker.port /\ worker'.timer = worker.timer
              /\ worker'.tries = worker.tries
    <2>1. CASE chrome.news[1] = "removed"
      <3>1. worker' = Native!AccessOff(worker) /\ told' = told + 1 /\ UNCHANGED calls
        BY <1>3, <2>1 DEF Native!Hears
      <3>2. QED
        BY <1>1, <2>1, <3>1, WorkerGivesUp DEF NativeInv
    <2>2. CASE chrome.news[1] = "excluded"
      <3>1. /\ worker' = IF worker.made THEN Native!Invalidated(worker) ELSE worker
            /\ told' = told + 1 /\ UNCHANGED calls
        BY <1>3, <2>2 DEF Native!Hears
      <3>2. PICK n \in Nat : n = worker.gen + 1
        BY <1>1
      <3>3. Native!Invalidated(worker) = [worker EXCEPT !.gen = n]
        BY <3>2 DEF Native!Invalidated
      <3>4. PICK x : x = [worker EXCEPT !.gen = n]
        OBVIOUS
      <3>5. /\ x \in Workers /\ x.gen = n /\ x.port = worker.port /\ x.made = worker.made
            /\ x.timer = worker.timer
            /\ x.blocked = worker.blocked /\ x.verified = worker.verified /\ x.tries = worker.tries
        BY <1>1, <3>4 DEF Workers
      <3>6. WorkerFits(x)
        BY <1>1, <3>5 DEF WorkerFits
      <3>7. calls = [refreshes |-> calls.refreshes, verify |-> calls.verify, sample |-> calls.sample]
        BY DEF NativeInv
      <3>8. QED
        BY <1>1, <2>2, <3>1, <3>2, <3>3, <3>4, <3>5, <3>6, <3>7 DEF WorkerFits
    <2>3. CASE chrome.news[1] = "added"
      <3>1. /\ worker' = [worker EXCEPT !.blocked = FALSE]
            /\ calls' = [calls EXCEPT !.refreshes = @ \cup {"other"}]
            /\ UNCHANGED told
        BY <1>3, <2>3 DEF Native!Hears
      <3>2. /\ worker' \in Workers /\ worker'.gen = worker.gen /\ worker'.port = worker.port
            /\ worker'.made = worker.made /\ ~worker'.blocked /\ worker'.timer = worker.timer
            /\ worker'.verified = worker.verified /\ worker'.policy = worker.policy
        BY <1>1, <3>1 DEF Workers
      <3>3. calls' = [refreshes |-> calls.refreshes \cup {"other"}, verify |-> calls.verify,
                      sample |-> calls.sample]
        BY <3>1 DEF NativeInv
      <3>4. "other" \in calls'.refreshes /\ calls'.verify = calls.verify
            /\ calls'.sample = calls.sample
        BY <3>3
      <3>5. calls' = [refreshes |-> calls'.refreshes, verify |-> calls.verify,
                      sample |-> calls.sample]
        BY <3>3
      <3>6. WorkerFits(worker')
        BY <1>1, <3>2 DEF WorkerFits
      <3>7. QED
        BY <1>1, <2>3, <3>1, <3>2, <3>4, <3>5, <3>6
    <2>4. QED
      BY <1>3, <2>1, <2>2, <2>3 DEF News
  <1>7. SampleIsHonest'
    BY <1>2, <1>6, SampleStays
  <1>8. RetriesGoOn'
    <2>1. "added" \in News /\ "removed" \in News
      BY DEF News
    <2>2. ASSUME chrome.granted
          PROVE  Comes(chrome'.news, "added") \/ calls'.refreshes # {} \/ WorkerGoes(worker')
      <3>1. CASE Comes(chrome.news, "added")
        BY <1>4, <1>6, <2>1, <3>1
      <3>2. CASE calls.refreshes # {} \/ WorkerGoes(worker)
        BY <1>5, <1>6, <2>2, <3>2 DEF WorkerGoes
      <3>3. QED
        BY <2>2, <3>1, <3>2 DEF NativeInv, RetriesGoOn
    <2>3. ASSUME ~chrome.granted
          PROVE  Comes(chrome'.news, "removed") \/ (~worker'.port /\ ~worker'.timer)
      BY <1>4, <1>6, <2>1, <2>3 DEF NativeInv, RetriesGoOn
    <2>4. QED
      BY <1>1, <1>2, <1>3, <1>5, <2>2, <2>3 DEF RetriesGoOn
  <1>9. QED
    BY <1>2, <1>6, <1>7, <1>8 DEF NativeInv
LEMMA NativeChooses ==
    ASSUME RetryLimit \in Nat \ {0}, NativeInv, Native!Chooses
    PROVE  NativeInv'
  <1>1. /\ UNCHANGED <<worker, shared, told>>
        /\ chrome.news \in Seq(News) /\ chrome.granted \in BOOLEAN
        /\ Len(chrome.news) \in Nat
    <2>1. UNCHANGED <<worker, shared, told>>
      BY Zenon DEF Native!Chooses
    <2>2. QED
      BY <2>1 DEF NativeInv, RetriesGoOn
  <1>2. ASSUME NEW n \in News, NEW news, news = Append(chrome.news, n)
        PROVE  /\ news \in Seq(News) /\ Len(news) = Len(chrome.news) + 1
               /\ news[Len(news)] = n /\ Len(news) \in 1 .. Len(news)
               /\ \A i \in 1 .. Len(chrome.news) : news[i] = chrome.news[i] /\ i \in 1 .. Len(news)
                                                   /\ i < Len(news)
               /\ \A m : Comes(chrome.news, m) => Comes(news, m)
    <2>1. /\ news \in Seq(News) /\ Len(news) = Len(chrome.news) + 1
          /\ news[Len(news)] = n /\ Len(news) \in 1 .. Len(news)
          /\ \A i \in 1 .. Len(chrome.news) : news[i] = chrome.news[i] /\ i \in 1 .. Len(news)
                                              /\ i < Len(news)
      BY <1>1, <1>2
    <2>2. QED
      BY <2>1 DEF Comes
  <1>3. ASSUME NEW s \in Sites \cup {NoSite}, UNCHANGED calls,
               chrome' = [chrome EXCEPT !.page = s]
        PROVE  NativeInv'
    <2>1. chrome' = [granted |-> chrome.granted, excluded |-> chrome.excluded, page |-> s,
                     news |-> chrome.news]
      BY <1>3 DEF NativeInv
    <2>2. QED
      BY <1>1, <1>3, <2>1 DEF NativeInv, RetriesGoOn, SampleIsHonest
  <1>4. ASSUME UNCHANGED calls,
               chrome' = [chrome EXCEPT !.granted = ~@,
                             !.news = Append(@, IF chrome.granted THEN "removed" ELSE "added")]
        PROVE  NativeInv'
    <2>1. PICK n, news : /\ n \in News /\ n = IF chrome.granted THEN "removed" ELSE "added"
                         /\ news = Append(chrome.news, n)
      BY DEF News
    <2>2. chrome' = [granted |-> ~chrome.granted, excluded |-> chrome.excluded,
                     page |-> chrome.page, news |-> news]
      BY <1>4, <2>1 DEF NativeInv
    <2>3. Comes(news, n)
      BY <1>2, <2>1 DEF Comes
    <2>4. ASSUME ~chrome.granted
          PROVE  \A i \in 1 .. Len(news) : news[i] = "removed" =>
                    \E j \in 1 .. Len(news) : j > i /\ news[j] = "added"
      <3>1. n = "added"
        BY <2>1, <2>4
      <3>2. QED
        BY <1>1, <1>2, <2>1, <3>1
    <2>5. RetriesGoOn'
      <3>1. chrome'.granted = ~chrome.granted /\ chrome'.news = news
        BY <2>2
      <3>2. news \in Seq(News)
        BY <1>2, <2>1
      <3>3. CASE chrome.granted
        <4>1. Comes(chrome'.news, "removed") /\ ~chrome'.granted
          BY <2>1, <2>3, <3>1, <3>3
        <4>2. QED
          BY <3>1, <3>2, <4>1 DEF RetriesGoOn
      <3>4. CASE ~chrome.granted
        <4>1. Comes(chrome'.news, "added") /\ chrome'.granted = TRUE
          BY <2>1, <2>3, <3>1, <3>4
        <4>2. QED
          BY <2>4, <3>1, <3>2, <3>4, <4>1 DEF RetriesGoOn
      <3>5. QED
        BY <3>3, <3>4
    <2>6. SampleIsHonest'
      BY <1>1, <1>4, <2>2 DEF NativeInv, SampleIsHonest
    <2>7. QED
      BY <1>1, <1>4, <2>2, <2>5, <2>6 DEF NativeInv
  <1>5. ASSUME NEW x \in SUBSET Sites,
               chrome' = [chrome EXCEPT !.excluded = x, !.news = Append(@, "excluded")],
               calls' = [calls EXCEPT !.sample = [calls.sample EXCEPT
                                                     !.never = calls.sample.never \cap x]]
        PROVE  NativeInv'
    <2>1. PICK n, news : n \in News /\ n = "excluded" /\ news = Append(chrome.news, n)
      BY DEF News
    <2>2. chrome' = [granted |-> chrome.granted, excluded |-> x, page |-> chrome.page,
                     news |-> news]
      BY <1>5, <2>1 DEF NativeInv
    <2>3. PICK s : s = [calls.sample EXCEPT !.never = calls.sample.never \cap x]
      OBVIOUS
    <2>4. calls' = [refreshes |-> calls.refreshes, verify |-> calls.verify, sample |-> s]
      BY <1>5, <2>3 DEF NativeInv
    <2>5. /\ s \in Samplings /\ s.never \subseteq x /\ s.never \subseteq calls.sample.never
          /\ s.at = calls.sample.at /\ s.gen = calls.sample.gen /\ s.policy = calls.sample.policy
          /\ s.asOf = calls.sample.asOf /\ s.site = calls.sample.site
      <3>1. PICK y \in SUBSET Sites : y = calls.sample.never \cap x
        OBVIOUS
      <3>2. s = [calls.sample EXCEPT !.never = y] /\ calls.sample \in Samplings
        BY <2>3, <3>1 DEF NativeInv, SampleIsHonest
      <3>3. QED
        BY <3>1, <3>2 DEF Samplings
    <2>6. SampleIsHonest'
      BY <1>1, <2>2, <2>4, <2>5 DEF NativeInv, SampleIsHonest
    <2>7. chrome.granted => \A i \in 1 .. Len(news) : news[i] = "removed" =>
                    \E j \in 1 .. Len(news) : j > i /\ news[j] = "added"
      <3>1. SUFFICES ASSUME chrome.granted, NEW i \in 1 .. Len(news), news[i] = "removed"
                     PROVE  \E j \in 1 .. Len(news) : j > i /\ news[j] = "added"
        OBVIOUS
      <3>2. i \in 1 .. Len(chrome.news) /\ chrome.news[i] = "removed"
        BY <1>1, <1>2, <2>1, <3>1
      <3>3. PICK j \in 1 .. Len(chrome.news) : j > i /\ chrome.news[j] = "added"
        BY <3>1, <3>2 DEF NativeInv, RetriesGoOn
      <3>4. QED
        BY <1>2, <2>1, <3>3
    <2>8. RetriesGoOn'
      <3>1. chrome'.granted = chrome.granted /\ chrome'.news = news /\ news \in Seq(News)
        BY <1>2, <2>1, <2>2
      <3>2. calls'.refreshes = calls.refreshes /\ UNCHANGED worker
        BY <1>1, <2>4
      <3>3. \A m : Comes(chrome.news, m) => Comes(chrome'.news, m)
        BY <1>2, <2>1, <3>1
      <3>4. QED
        BY <1>1, <2>7, <3>1, <3>2, <3>3 DEF NativeInv, RetriesGoOn
    <2>9. QED
      BY <1>1, <1>5, <2>2, <2>4, <2>6, <2>8 DEF NativeInv
  <1>6. QED
    BY <1>3, <1>4, <1>5, Zenon DEF Native!Chooses
\* One answered await of sample().
LEMMA NativeSamples ==
    ASSUME RetryLimit \in Nat \ {0}, NativeInv, Native!Samples
    PROVE  NativeInv' /\ Native!SharedIsAllowed
  <1>1. PICK s : s = calls.sample
    OBVIOUS
  <1>2. /\ WorkerFits(worker) /\ worker.gen \in Nat /\ told \in Nat
        /\ calls = [refreshes |-> calls.refreshes, verify |-> calls.verify, sample |-> s]
        /\ chrome.page \in Sites \cup {NoSite}
        /\ s \in Samplings /\ s.never \subseteq chrome.excluded /\ s.at \in 0 .. 10
        /\ worker.port /\ s.gen = worker.gen /\ s.at # 0 => s.asOf = told /\ s.policy = worker.policy
        /\ s.at > 3 => s.site # NoSite
        /\ s.at > 4 => s.site \notin s.never \cup s.policy.banned
    BY <1>1 DEF NativeInv, WorkerFits, Workers, SampleIsHonest, Samplings
  <1>3. /\ s.at # 0 /\ UNCHANGED <<chrome, told>>
        /\ \/ /\ calls' = [calls EXCEPT !.sample = Native!Idle]
              /\ worker' = Native!Reports(worker, "unshared") /\ UNCHANGED shared
           \/ /\ Native!GoesOn(s) /\ s.at = 10
              /\ shared' = [site |-> s.site, asOf |-> s.asOf, never |-> s.never, gen |-> s.gen]
              /\ calls' = [calls EXCEPT !.sample = Native!Idle]
              /\ worker' = Native!Reports(worker, "shared")
           \/ /\ Native!GoesOn(s) /\ s.at # 10 /\ UNCHANGED <<worker, shared>>
              /\ calls' = [calls EXCEPT !.sample =
                    [s EXCEPT !.at = IF s.at = 5 /\ ~s.policy.text THEN 7 ELSE s.at + 1,
                              !.site = IF Native!Awaits[s.at] = "tab" THEN chrome.page
                                       ELSE s.site]]
    <2>1. Len(Native!Awaits) = 10
      BY DEF Native!Awaits
    <2>2. QED
      BY <1>1, <2>1 DEF Native!Samples
  <1>4. ASSUME calls' = [calls EXCEPT !.sample = Native!Idle],
               NEW to \in {"unshared", "shared"}, worker' = Native!Reports(worker, to)
        PROVE  NativeInv'
    <2>1. calls' = [refreshes |-> calls.refreshes, verify |-> calls.verify,
                    sample |-> Native!Idle]
      BY <1>2, <1>4
    <2>2. /\ WorkerFits(worker') /\ worker'.port = worker.port /\ worker'.gen = worker.gen
          /\ worker'.policy = worker.policy /\ (WorkerGoes(worker) => WorkerGoes(worker'))
          /\ ~worker.port /\ ~worker.timer => ~worker'.timer
      BY <1>2, <1>4, Reported
    <2>3. SampleIsHonest'
      BY <1>2, <1>3, <2>1, <2>2, SampleStays
    <2>4. QED
      BY <1>2, <1>3, <2>1, <2>2, <2>3, WorkerSteps DEF NativeInv, RetriesGoOn
  <1>5. CASE /\ calls' = [calls EXCEPT !.sample = Native!Idle]
             /\ worker' = Native!Reports(worker, "unshared") /\ UNCHANGED shared
    BY <1>4, <1>5 DEF Native!SharedIsAllowed
  <1>6. CASE /\ Native!GoesOn(s) /\ s.at = 10
             /\ shared' = [site |-> s.site, asOf |-> s.asOf, never |-> s.never, gen |-> s.gen]
             /\ calls' = [calls EXCEPT !.sample = Native!Idle]
             /\ worker' = Native!Reports(worker, "shared")
    <2>1. Native!Awaits[10] = "grant"
      BY DEF Native!Awaits
    <2>2. Native!Current(s.gen, s.policy)
      BY <1>6, <2>1 DEF Native!GoesOn
    <2>3. s.asOf = told /\ s.policy = worker.policy /\ worker.port
      BY <1>2, <1>3, <2>2 DEF Native!Current
    <2>4. QED
      BY <1>2, <1>4, <1>6, <2>3 DEF Native!SharedIsAllowed
  <1>7. CASE /\ Native!GoesOn(s) /\ s.at # 10 /\ UNCHANGED <<worker, shared>>
             /\ calls' = [calls EXCEPT !.sample =
                   [s EXCEPT !.at = IF s.at = 5 /\ ~s.policy.text THEN 7 ELSE s.at + 1,
                             !.site = IF Native!Awaits[s.at] = "tab" THEN chrome.page
                                      ELSE s.site]]
    <2>1. PICK n \in 1 .. 10 : n = IF s.at = 5 /\ ~s.policy.text THEN 7 ELSE s.at + 1
      BY <1>2, <1>3, <1>7
    <2>2. PICK x \in Sites \cup {NoSite} :
            x = IF Native!Awaits[s.at] = "tab" THEN chrome.page ELSE s.site
      BY <1>2 DEF Samplings
    <2>3. PICK t : t = [s EXCEPT !.at = n, !.site = x]
      OBVIOUS
    <2>4. /\ t \in Samplings /\ t.at = n /\ t.site = x /\ t.gen = s.gen /\ t.policy = s.policy
          /\ t.asOf = s.asOf /\ t.never = s.never
      <3>1. n \in 0 .. 10 /\ s \in Samplings
        BY <1>2, <2>1
      <3>2. t \in Samplings
        BY <2>2, <2>3, <3>1 DEF Samplings
      <3>3. QED
        BY <2>3, <3>1, <3>2 DEF Samplings
    <2>5. calls' = [calls EXCEPT !.sample = t]
      BY <1>7, <2>1, <2>2, <2>3
    <2>6. calls' = [refreshes |-> calls.refreshes, verify |-> calls.verify, sample |-> t]
      BY <1>2, <2>5
    <2>7. /\ n > 3 => x # NoSite
          /\ n > 4 => x \notin s.never \cup s.policy.banned
      <3>1. CASE s.at = 3
        <4>1. Native!Awaits[3] = "tab"
          BY DEF Native!Awaits
        <4>2. chrome.page # NoSite
          BY <1>7, <3>1, <4>1 DEF Native!GoesOn
        <4>3. QED
          BY <2>1, <2>2, <3>1, <4>1, <4>2
      <3>2. CASE s.at = 4
        <4>1. Native!Awaits[4] = "stored"
          BY DEF Native!Awaits
        <4>2. s.site \notin s.policy.banned \cup chrome.excluded
          BY <1>7, <3>2, <4>1 DEF Native!GoesOn
        <4>3. QED
          BY <1>2, <2>2, <3>2, <4>1, <4>2
      <3>3. CASE s.at = 8
        <4>1. Native!Awaits[8] = "tab"
          BY DEF Native!Awaits
        <4>2. chrome.page # NoSite /\ (s.site # NoSite => chrome.page = s.site)
          BY <1>7, <3>3, <4>1 DEF Native!GoesOn
        <4>3. QED
          BY <1>2, <2>2, <3>3, <4>1, <4>2
      <3>4. CASE s.at \in {1, 2}
        BY <2>1, <3>4
      <3>5. CASE s.at \in {5, 6, 7, 9}
        <4>1. Native!Awaits[s.at] # "tab"
          BY <3>5 DEF Native!Awaits
        <4>2. QED
          BY <1>2, <2>2, <3>5, <4>1
      <3>6. QED
        BY <1>2, <1>3, <1>7, <3>1, <3>2, <3>3, <3>4, <3>5
    <2>8. SampleIsHonest'
      <3>1. s.gen <= worker.gen
        BY <1>1, <1>3 DEF NativeInv, SampleIsHonest
      <3>2. calls'.sample = t
        BY <2>6
      <3>3. QED
        BY <1>2, <1>3, <1>7, <2>4, <2>7, <3>1, <3>2 DEF SampleIsHonest
    <2>9. /\ calls'.refreshes = calls.refreshes
          /\ calls' = [refreshes |-> calls'.refreshes, verify |-> calls'.verify,
                       sample |-> calls'.sample]
      BY <2>6
    <2>10. NativeInv'
      BY <1>2, <1>3, <1>7, <2>8, <2>9, WorkerSteps DEF NativeInv, RetriesGoOn
    <2>11. QED
      BY <1>7, <2>10 DEF Native!SharedIsAllowed
  <1>8. QED
    BY <1>3, <1>5, <1>6, <1>7

LEMMA NativeGoesOn ==
    ASSUME RetryLimit \in Nat \ {0}, NativeInv, Native!NativeNext
    PROVE  NativeInv' /\ Native!SharedIsAllowed
  <1>1. /\ WorkerFits(worker) /\ worker \in Workers /\ worker.gen \in Nat /\ told \in Nat
        /\ calls = [refreshes |-> calls.refreshes, verify |-> calls.verify, sample |-> calls.sample]
        /\ chrome.granted => Comes(chrome.news, "added") \/ calls.refreshes # {} \/ WorkerGoes(worker)
        /\ ~chrome.granted => Comes(chrome.news, "removed") \/ (~worker.port /\ ~worker.timer)
    BY DEF NativeInv, WorkerFits, Workers, RetriesGoOn
  <1>2. CASE \E r \in {"timer", "other"} : Native!Refreshes(r)
    BY <1>2, NativeRefreshes DEF Native!Refreshes, Native!SharedIsAllowed
  <1>3. CASE Native!Hears
    BY <1>3, NativeHears DEF Native!Hears, Native!SharedIsAllowed
  <1>4. CASE Native!Chooses
    <2>1. UNCHANGED shared
      BY <1>4, Zenon DEF Native!Chooses
    <2>2. QED
      BY <1>4, <2>1, NativeChooses DEF Native!SharedIsAllowed
  <1>5. CASE Native!Samples
    BY <1>5, NativeSamples
  <1>6. CASE Native!Reconnects
    <2>1. /\ worker.timer /\ worker' = [worker EXCEPT !.timer = FALSE]
          /\ calls' = [refreshes |-> calls.refreshes \cup {"timer"}, verify |-> calls.verify,
                       sample |-> calls.sample]
          /\ UNCHANGED <<chrome, shared, told>>
      BY <1>1, <1>6 DEF Native!Reconnects
    <2>2. /\ WorkerFits(worker') /\ worker'.port = worker.port /\ worker'.gen = worker.gen
          /\ worker'.policy = worker.policy /\ ~worker'.timer
      BY <1>1, <2>1 DEF WorkerFits, Workers
    <2>3. SampleIsHonest'
      BY <1>1, <2>1, <2>2, SampleStays
    <2>4. calls'.refreshes # {} /\ calls' = [refreshes |-> calls'.refreshes,
                                             verify |-> calls'.verify, sample |-> calls'.sample]
      BY <2>1
    <2>5. NativeInv'
      BY <1>1, <2>1, <2>2, <2>3, <2>4, WorkerSteps
    <2>6. QED
      BY <2>1, <2>5 DEF Native!SharedIsAllowed
  <1>7. CASE Native!Asks
    <2>1. /\ worker' \in {worker, [worker EXCEPT !.blocked = FALSE]}
          /\ calls' = [refreshes |-> calls.refreshes \cup {"other"}, verify |-> calls.verify,
                       sample |-> calls.sample]
          /\ UNCHANGED <<chrome, shared, told>>
      BY <1>1, <1>7 DEF Native!Asks
    <2>2. /\ WorkerFits(worker') /\ worker'.port = worker.port /\ worker'.gen = worker.gen
          /\ worker'.policy = worker.policy /\ worker'.timer = worker.timer
      BY <1>1, <2>1 DEF WorkerFits, Workers
    <2>3. SampleIsHonest'
      BY <1>1, <2>1, <2>2, SampleStays
    <2>4. calls'.refreshes # {} /\ calls' = [refreshes |-> calls'.refreshes,
                                             verify |-> calls'.verify, sample |-> calls'.sample]
      BY <2>1
    <2>5. NativeInv'
      BY <1>1, <2>1, <2>2, <2>3, <2>4, WorkerSteps
    <2>6. QED
      BY <2>1, <2>5 DEF Native!SharedIsAllowed
  <1>8. CASE Native!PortDrops
    <2>1. /\ worker.port /\ worker' = Native!Closed(worker) /\ told' = told + 1
          /\ UNCHANGED <<chrome, calls, shared>>
      BY <1>8 DEF Native!PortDrops
    <2>2. /\ WorkerFits(worker') /\ ~worker'.port /\ worker'.gen = worker.gen + 1
          /\ WorkerGoes(worker')
      BY <1>1, <2>1, WorkerCloses DEF WorkerFits
    <2>3. SampleIsHonest'
      BY <1>1, <2>1, <2>2, SampleStays
    <2>4. NativeInv'
      BY <1>1, <2>1, <2>2, <2>3, WorkerSteps
    <2>5. QED
      BY <2>1, <2>4 DEF Native!SharedIsAllowed
  <1>9. CASE Native!TakesPolicy
    <2>0. PICK n \in Nat : n = worker.gen + 1
      BY <1>1
    <2>1. /\ n = worker.gen + 1
          /\ \E p \in Native!Policies :
                worker' = [worker EXCEPT !.policy = p, !.gen = n, !.verified = FALSE]
          /\ calls' = [refreshes |-> calls.refreshes, verify |-> n, sample |-> calls.sample]
          /\ worker.port /\ told' = told + 1 /\ UNCHANGED <<chrome, shared>>
      BY <1>1, <1>9, <2>0 DEF Native!TakesPolicy
    <2>2. /\ worker' \in Workers /\ worker'.port /\ worker'.gen = n /\ worker'.made = worker.made
          /\ worker'.blocked = worker.blocked
      BY <1>1, <2>1 DEF Workers
    <2>3. WorkerFits(worker')
      BY <1>1, <2>1, <2>2 DEF WorkerFits
    <2>4. SampleIsHonest'
      BY <1>1, <2>1, <2>2, <2>3, SampleStays
    <2>5. calls' = [refreshes |-> calls'.refreshes, verify |-> calls'.verify,
                    sample |-> calls'.sample]
      BY <2>1
    <2>6. NativeInv'
      BY <1>1, <2>1, <2>2, <2>3, <2>4, <2>5, WorkerSteps DEF WorkerGoes
    <2>7. QED
      BY <2>1, <2>6 DEF Native!SharedIsAllowed
  <1>10. CASE Native!Verifies
    <2>1. /\ calls' = [refreshes |-> calls.refreshes, verify |-> 0, sample |-> calls.sample]
          /\ UNCHANGED <<chrome, shared, told>>
      BY <1>1, <1>10 DEF Native!Verifies
    <2>2. PICK w : w = [worker EXCEPT !.verified = TRUE]
      OBVIOUS
    <2>3. /\ w \in Workers /\ w.port = worker.port /\ w.gen = worker.gen /\ w.policy = worker.policy
          /\ w.made = worker.made /\ w.blocked = worker.blocked
      BY <1>1, <2>2 DEF Workers
    <2>4. \/ worker' = worker
          \/ worker.port /\ worker' = Native!Reports(worker, "browser-access-off")
          \/ worker.port /\ worker' = Native!Reports(w, "ready")
          \/ worker.port /\ worker' = Native!Reports(w, "disabled")
      BY <1>10, <2>2 DEF Native!Verifies
    <2>5. worker.port => WorkerFits(w)
      BY <1>1, <2>3 DEF WorkerFits
    <2>6. /\ WorkerFits(worker') /\ worker'.port = worker.port /\ worker'.gen = worker.gen
          /\ worker'.policy = worker.policy
          /\ worker' = worker \/ worker'.port
      BY <1>1, <2>3, <2>4, <2>5, Reported
    <2>7. SampleIsHonest'
      BY <1>1, <2>1, <2>6, SampleStays
    <2>8. /\ calls'.refreshes = calls.refreshes
          /\ calls' = [refreshes |-> calls'.refreshes, verify |-> calls'.verify,
                       sample |-> calls'.sample]
      BY <2>1
    <2>9. NativeInv'
      BY <1>1, <2>1, <2>6, <2>7, <2>8, WorkerSteps DEF WorkerGoes
    <2>10. QED
      BY <2>1, <2>9 DEF Native!SharedIsAllowed
  <1>11. CASE Native!TakesSample
    <2>1. PICK s : s = [at |-> 1, gen |-> worker.gen, policy |-> worker.policy, site |-> NoSite,
                        asOf |-> told, never |-> chrome.excluded]
      OBVIOUS
    <2>2. /\ calls' = [refreshes |-> calls.refreshes, verify |-> calls.verify, sample |-> s]
          /\ UNCHANGED <<chrome, worker, shared, told>>
      BY <1>1, <1>11, <2>1 DEF Native!TakesSample
    <2>3. s \in Samplings
      BY <1>1, <2>1 DEF Samplings, Workers, NativeInv
    <2>4. SampleIsHonest'
      BY <1>1, <2>1, <2>2, <2>3 DEF SampleIsHonest
    <2>5. /\ calls'.refreshes = calls.refreshes
          /\ calls' = [refreshes |-> calls'.refreshes, verify |-> calls'.verify,
                       sample |-> calls'.sample]
      BY <2>2
    <2>6. NativeInv'
      BY <1>1, <2>2, <2>4, <2>5, WorkerSteps
    <2>7. QED
      BY <2>2, <2>6 DEF Native!SharedIsAllowed
  <1>12. CASE Native!SampleThrows
    <2>1. /\ calls' = [refreshes |-> calls.refreshes, verify |-> calls.verify,
                       sample |-> Native!Idle]
          /\ UNCHANGED <<chrome, shared, told>>
          /\ worker' = worker \/ (worker.port /\ worker' = Native!Reports(worker, "error"))
      BY <1>1, <1>12 DEF Native!SampleThrows, Native!Current
    <2>2. /\ WorkerFits(worker') /\ worker'.port = worker.port /\ worker'.gen = worker.gen
          /\ worker'.policy = worker.policy
          /\ worker' = worker \/ worker'.port
      BY <1>1, <2>1, Reported
    <2>3. SampleIsHonest'
      BY <1>1, <2>1, <2>2, SampleStays
    <2>4. /\ calls'.refreshes = calls.refreshes
          /\ calls' = [refreshes |-> calls'.refreshes, verify |-> calls'.verify,
                       sample |-> calls'.sample]
      BY <2>1
    <2>5. NativeInv'
      BY <1>1, <2>1, <2>2, <2>3, <2>4, WorkerSteps DEF WorkerGoes
    <2>6. QED
      BY <2>1, <2>5 DEF Native!SharedIsAllowed
  <1>13. QED
    BY <1>2, <1>3, <1>4, <1>5, <1>6, <1>7, <1>8, <1>9, <1>10, <1>11, <1>12 DEF Native!NativeNext

LEMMA Retried ==
    ASSUME NativeInv
    PROVE  Native!LostPortIsRetried
  <1>1. \A n : chrome.news = <<>> => ~Comes(chrome.news, n)
    BY DEF Comes
  <1>2. QED
    BY <1>1 DEF NativeInv, RetriesGoOn, WorkerGoes, Native!LostPortIsRetried
-----------------------------------------------------------------------------
(* ActivityLink.                                                            *)

Leases == [owner : {"none", "me", "other"}, nonce : Nat, made : Nat, expired : SUBSET Nat]

Posted(q) ==
    /\ q = [kind |-> q.kind, port |-> q.port, nonce |-> q.nonce, at |-> q.at]
    /\ q.kind = "observation" => q.nonce # 0

\* An observation that is being checked answers a request that was open and is so no more,
\* and whose answer was not taken.
BeingChecked(q) ==
    /\ q.nonce \in Nat \ {0} /\ q.nonce <= lease.made /\ q.nonce # lease.nonce
    /\ q.nonce \in Link!Requests => taken[q.nonce] = 0

\* A request is taken after it was made, when it is not the open one; one answer to it at
\* a time is checked.
LinkInv ==
    /\ lease \in Leases /\ lease.nonce <= lease.made
    /\ taken \in [Link!Requests -> Nat]
    /\ \A n \in Link!Requests :
         taken[n] # 0 => n <= lease.made /\ (lease.nonce # 0 => n # lease.nonce)
    /\ \A m \in wire : m.kind = "observation" => m.nonce # 0
    /\ \A q \in posts : Posted(q) /\ (q.at = "checking" => BeingChecked(q))
    /\ \A q, r \in posts : q.at = "checking" /\ r.at = "checking" /\ q.nonce = r.nonce => q = r

\* A step that begins no check.
LEMMA LinkKeeps ==
    ASSUME LinkInv, lease' \in Leases, lease'.made = lease.made, lease'.nonce \in {lease.nonce, 0},
           UNCHANGED taken, \A m \in wire' \ wire : m.kind = "observation" => m.nonce # 0,
           \A q \in posts' \ posts : Posted(q) /\ q.at # "checking"
    PROVE  LinkInv'
  <1>1. lease.made \in Nat /\ lease.nonce \in Nat /\ lease'.nonce <= lease'.made
    BY DEF LinkInv, Leases
  <1>2. \A n \in Link!Requests :
           taken'[n] # 0 => n <= lease'.made /\ (lease'.nonce # 0 => n # lease'.nonce)
    BY <1>1 DEF LinkInv
  <1>3. \A m \in wire' : m.kind = "observation" => m.nonce # 0
    BY DEF LinkInv
  <1>4. \A q \in posts' : Posted(q) /\ (q.at = "checking" => q \in posts)
    BY DEF LinkInv
  <1>5. \A q \in posts : q.at = "checking" => BeingChecked(q)'
    BY <1>1 DEF LinkInv, BeingChecked
  <1>6. \A q, r \in posts' : q.at = "checking" /\ r.at = "checking" /\ q.nonce = r.nonce => q = r
    BY <1>4 DEF LinkInv
  <1>7. \A q \in posts' : Posted(q)' /\ (q.at = "checking" => BeingChecked(q)')
    BY <1>4, <1>5 DEF Posted
  <1>8. QED
    BY <1>1, <1>2, <1>3, <1>6, <1>7 DEF LinkInv

\* One that takes no answer either, and posts none.
LEMMA LinkRests ==
    ASSUME LinkInv, lease' \in Leases, lease'.made = lease.made, lease'.nonce \in {lease.nonce, 0},
           UNCHANGED taken, \A m \in wire' \ wire : m.kind # "observation",
           \A q \in posts' \ posts :
             Posted(q) /\ q.at # "checking" /\ (q.kind # "observation" \/ q.at # "sent")
    PROVE  LinkInv' /\ Link!AnswersAreAllowed /\ Link!TakenIsCurrent
  BY LinkKeeps DEF Link!AnswersAreAllowed, Link!TakenIsCurrent

LEMMA LeaseSame ==
    ASSUME LinkInv, UNCHANGED lease
    PROVE  lease' \in Leases /\ lease'.made = lease.made /\ lease'.nonce \in {lease.nonce, 0}
  BY DEF LinkInv

LEMMA LeaseEnds ==
    ASSUME LinkInv, NEW o \in {"none", "me", "other"},
           lease' = [lease EXCEPT !.owner = o, !.nonce = Link!None]
    PROVE  lease' \in Leases /\ lease'.made = lease.made /\ lease'.nonce \in {lease.nonce, 0}
  BY DEF LinkInv, Leases, Link!None

LEMMA PostsMove ==
    ASSUME LinkInv, NEW q \in posts, NEW at \in {"done", "failed"},
           Link!Moves(q, at) \/ posts' \subseteq posts
    PROVE  \A r \in posts' \ posts : Posted(r) /\ r.at \notin {"checking", "sent"}
  <1>1. PICK r : r = [q EXCEPT !.at = at]
    OBVIOUS
  <1>2. /\ q = [kind |-> q.kind, port |-> q.port, nonce |-> q.nonce, at |-> q.at]
        /\ q.kind = "observation" => q.nonce # 0
    BY DEF LinkInv, Posted
  <1>3. r = [kind |-> q.kind, port |-> q.port, nonce |-> q.nonce, at |-> at]
    BY <1>1, <1>2
  <1>4. Posted(r) /\ r.at = at
    BY <1>2, <1>3 DEF Posted
  <1>5. posts' \ posts \subseteq {r}
    BY <1>1 DEF Link!Moves
  <1>6. QED
    BY <1>4, <1>5

LEMMA PostIsPosted ==
    \A k \in {"enable", "pause", "renew"} :
      Posted(Link!Post(k)) /\ Link!Post(k).at = "sent" /\ Link!Post(k).kind # "observation"
  BY DEF Posted, Link!Post

\* What the page shows brings no answer.
LEMMA LinkShows ==
    ASSUME NEW s, Link!Shows(s)
    PROVE  \A m \in wire' \ wire : m.kind # "observation"
  BY DEF Link!Shows

LEMMA LinkBegins ==
    ASSUME Link!LinkInit
    PROVE  LinkInv
  BY DEF Link!LinkInit, Link!None, LinkInv, Leases

LEMMA LinkGoesOn ==
    ASSUME LinkInv, Link!LinkNext
    PROVE  LinkInv' /\ Link!AnswersAreAllowed /\ Link!TakenIsCurrent
  <1> DEFINE LinkStays == LinkInv' /\ Link!AnswersAreAllowed /\ Link!TakenIsCurrent
  <1>1. /\ lease \in Leases /\ lease.nonce \in Nat /\ lease.made \in Nat
        /\ lease.nonce <= lease.made /\ taken \in [Link!Requests -> Nat]
    BY DEF LinkInv, Leases
  <1>2. ASSUME UNCHANGED <<lease, taken>>, \A m \in wire' \ wire : m.kind # "observation",
               \/ posts' \subseteq posts
               \/ \E k \in {"enable", "pause", "renew"} : posts' = posts \cup {Link!Post(k)}
        PROVE  LinkStays
    <2>1. \A q \in posts' \ posts :
             Posted(q) /\ q.at # "checking" /\ (q.kind # "observation" \/ q.at # "sent")
      BY <1>2, PostIsPosted
    <2>2. QED
      BY <1>2, <2>1, LeaseSame, LinkRests
  <1>3. CASE Link!Opens
    BY <1>2, <1>3 DEF Link!Opens, Link!EndIsPosted
  <1>4. CASE Link!Readied
    <2>1. /\ wire' \subseteq wire /\ UNCHANGED <<lease, taken>>
          /\ posts' = posts \/ posts' = posts \cup {Link!Post("enable")}
      BY <1>4 DEF Link!Readied
    <2>2. QED
      BY <1>2, <2>1
  <1>5. CASE Link!Polls \/ Link!Emits
    <2>1. PICK s : Link!Shows(s)
      BY <1>5 DEF Link!Polls, Link!Emits
    <2>2. UNCHANGED <<lease, posts, taken>>
      BY <1>5 DEF Link!Polls, Link!Emits
    <2>3. QED
      BY <1>2, <2>1, <2>2, LinkShows
  <1>6. CASE Link!Pauses \/ Link!Renews
    <2>1. /\ wire' = wire /\ UNCHANGED <<lease, taken>>
          /\ \E k \in {"pause", "renew"} : posts' = posts \cup {Link!Post(k)}
      BY <1>6 DEF Link!Pauses, Link!Renews
    <2>2. QED
      BY <1>2, <2>1
  <1>7. ASSUME NEW p \in Link!Ports, Link!Greets(p)
        PROVE  LinkStays
    <2>1. /\ UNCHANGED <<lease, taken, posts>>
          /\ wire' = wire \cup {[port |-> p, kind |-> "ready", nonce |-> Link!None,
                                 ok |-> share.ok, asOf |-> 0]}
      BY <1>7, Zenon DEF Link!Greets
    <2>2. QED
      BY <1>2, <2>1
  <1>8. ASSUME NEW p \in Link!Ports, Link!Looks(p)
        PROVE  LinkStays
    <2>1. /\ UNCHANGED <<lease, taken, posts>> /\ ports[p].nonce # 0
          /\ \/ UNCHANGED wire
             \/ /\ Link!StillAllowed(p)
                /\ \/ share.ok /\ wire' = wire \cup {[port |-> p, kind |-> "observation",
                                nonce |-> ports[p].nonce, ok |-> TRUE, asOf |-> ports[p].asOf]}
                   \/ wire' = wire \cup {[port |-> p, kind |-> "observation",
                                nonce |-> ports[p].nonce, ok |-> FALSE, asOf |-> share.changes]}
      <3>1. UNCHANGED <<lease, taken, posts>> /\ ports[p].nonce # 0
        BY <1>8, Zenon DEF Link!Looks, Link!None
      <3>2. CASE ~Link!StillAllowed(p)
        BY <1>8, <3>1, <3>2, Zenon DEF Link!Looks
      <3>3. CASE Link!StillAllowed(p)
        <4>1. \/ UNCHANGED wire
              \/ share.ok /\ wire' = wire \cup {[port |-> p, kind |-> "observation",
                                nonce |-> ports[p].nonce, ok |-> TRUE,
                                asOf |-> IF TRUE THEN ports[p].asOf ELSE share.changes]}
              \/ wire' = wire \cup {[port |-> p, kind |-> "observation",
                                nonce |-> ports[p].nonce, ok |-> FALSE,
                                asOf |-> IF FALSE THEN ports[p].asOf ELSE share.changes]}
          BY <1>8, <3>3, Zenon DEF Link!Looks
        <4>2. QED
          BY <3>1, <3>3, <4>1
      <3>4. QED
        BY <3>2, <3>3
    <2>2. \A m \in wire' \ wire : /\ m.nonce # 0 /\ m.port = p /\ m.asOf = share.changes
                                  /\ Link!StillAllowed(p) /\ m.nonce = ports[p].nonce
                                  /\ m.ok => share.ok
      BY <2>1 DEF Link!StillAllowed
    <2>3. LinkInv'
      BY <2>1, <2>2, LeaseSame, LinkKeeps
    <2>4. QED
      BY <2>1, <2>2, <2>3 DEF Link!AnswersAreAllowed, Link!TakenIsCurrent, Link!StillAllowed
  <1>9. ASSUME NEW p \in Link!Ports, Link!Disconnects(p)
        PROVE  LinkStays
    BY <1>2, <1>9 DEF Link!Disconnects, Link!EndIsPosted
  <1>10. ASSUME NEW m \in wire, Link!TakesRequest(m)
         PROVE  LinkStays
    BY <1>2, <1>10 DEF Link!TakesRequest
  <1>11. ASSUME NEW m \in wire, Link!Observes(m)
         PROVE  LinkStays
    <2>1. /\ wire' \subseteq wire /\ m.nonce # 0 /\ UNCHANGED <<lease, taken>>
      BY <1>11 DEF Link!Observes, LinkInv
    <2>2. CASE posts' = posts
      BY <1>2, <2>1, <2>2
    <2>3. CASE /\ Link!Answers(m) /\ Link!Owns(page)
               /\ posts' = posts \cup {[kind |-> "observation", port |-> m.port,
                                        nonce |-> m.nonce, at |-> "sent"]}
      <3>1. PICK q : q = [kind |-> "observation", port |-> m.port, nonce |-> m.nonce,
                          at |-> "sent"]
        OBVIOUS
      <3>2. posts' = posts \cup {q}
        BY <2>3, <3>1
      <3>3. Posted(q) /\ q.at = "sent" /\ q.port = m.port /\ q.nonce = m.nonce
        BY <2>1, <3>1 DEF Posted
      <3>4. LinkInv'
        BY <2>1, <3>2, <3>3, LeaseSame, LinkKeeps
      <3>5. QED
        BY <2>1, <2>3, <3>2, <3>3, <3>4
        DEF Link!AnswersAreAllowed, Link!TakenIsCurrent, Link!Answers, Link!Owns
    <2>4. QED
      BY <1>11, <2>2, <2>3 DEF Link!Observes
  <1>12. ASSUME NEW q \in posts, Link!Hears(q)
         PROVE  LinkStays
    <2>1. UNCHANGED <<lease, taken>> /\ posts' \subseteq posts
      BY <1>12 DEF Link!Hears
    <2>2. UNCHANGED wire \/ \E s : Link!Shows(s)
      BY <1>12 DEF Link!Hears
    <2>3. QED
      BY <1>2, <2>1, <2>2, LinkShows
  <1>13. ASSUME NEW q \in posts,
                Link!ServesEnable(q) \/ Link!ServesPause(q) \/ Link!ServesRenew(q) \/ Link!Fails(q)
         PROVE  LinkStays
    <2>1. /\ UNCHANGED <<wire, taken>>
          /\ posts' \subseteq posts \/ \E at \in {"done", "failed"} : Link!Moves(q, at)
      BY <1>13 DEF Link!ServesEnable, Link!ServesPause, Link!ServesRenew, Link!Fails
    <2>2. UNCHANGED lease \/ \E o \in {"none", "me", "other"} :
                                lease' = [lease EXCEPT !.owner = o, !.nonce = Link!None]
      BY <1>13 DEF Link!ServesEnable, Link!ServesPause, Link!ServesRenew, Link!Fails
    <2>3. lease' \in Leases /\ lease'.made = lease.made /\ lease'.nonce \in {lease.nonce, 0}
      BY <2>2, LeaseSame, LeaseEnds
    <2>4. \A r \in posts' \ posts : Posted(r) /\ r.at \notin {"checking", "sent"}
      BY <2>1, PostsMove
    <2>5. QED
      BY <2>1, <2>3, <2>4, LinkRests
  <1>14. ASSUME NEW q \in posts, Link!Checks(q)
         PROVE  LinkStays
    <2>1. UNCHANGED <<wire, taken>>
      BY <1>14 DEF Link!Checks
    <2>2. CASE posts' = posts \ {q} /\ UNCHANGED lease
      BY <1>2, <2>1, <2>2
    <2>3. CASE /\ lease.nonce = q.nonce /\ Link!Moves(q, "checking")
               /\ lease' = [lease EXCEPT !.nonce = Link!None]
      <3>1. q.kind = "observation" /\ q.at = "sent" /\ q.nonce # 0
        BY <1>14 DEF Link!Checks, LinkInv, Posted
      <3>2. PICK c : c = [q EXCEPT !.at = "checking"]
        OBVIOUS
      <3>3. posts' = (posts \ {q}) \cup {c}
        BY <2>3, <3>2 DEF Link!Moves
      <3>4. c = [kind |-> q.kind, port |-> q.port, nonce |-> q.nonce, at |-> "checking"]
        BY <3>2 DEF LinkInv, Posted
      <3>5. Posted(c) /\ c.at = "checking" /\ c.nonce = q.nonce
        BY <3>1, <3>4 DEF Posted
      <3>6. /\ lease' \in Leases /\ lease'.nonce = 0 /\ lease'.made = lease.made
        BY <1>1, <2>3 DEF Leases, Link!None
      <3>7. BeingChecked(c)'
        BY <1>1, <2>1, <2>3, <3>1, <3>5, <3>6 DEF BeingChecked, LinkInv
      <3>8. \A r \in posts : r.at = "checking" =>
               r.nonce # c.nonce /\ BeingChecked(r)'
        <4>1. SUFFICES ASSUME NEW r \in posts, r.at = "checking"
                       PROVE  r.nonce # c.nonce /\ BeingChecked(r)'
          OBVIOUS
        <4>2. BeingChecked(r)
          BY <4>1 DEF LinkInv
        <4>3. QED
          BY <1>1, <2>1, <2>3, <3>5, <3>6, <4>2 DEF BeingChecked
      <3>9. \A r \in posts' : Posted(r)' /\ (r.at = "checking" => BeingChecked(r)')
        BY <3>3, <3>5, <3>7, <3>8 DEF LinkInv, Posted
      <3>10. \A r, s \in posts' :
                r.at = "checking" /\ s.at = "checking" /\ r.nonce = s.nonce => r = s
        BY <3>3, <3>5, <3>8 DEF LinkInv
      <3>11. LinkInv'
        BY <1>1, <2>1, <3>6, <3>9, <3>10 DEF LinkInv
      <3>12. \A r \in posts' \ posts : r.at # "sent"
        BY <3>3, <3>5
      <3>13. QED
        BY <2>1, <3>11, <3>12 DEF Link!AnswersAreAllowed, Link!TakenIsCurrent
    <2>4. QED
      BY <1>14, <2>2, <2>3 DEF Link!Checks
  <1>15. ASSUME NEW q \in posts, Link!Takes(q)
         PROVE  LinkStays
    <2>1. q.at = "checking" /\ posts' = posts \ {q} /\ UNCHANGED <<lease, wire>>
      BY <1>15 DEF Link!Takes
    <2>2. CASE UNCHANGED taken
      BY <1>2, <2>1, <2>2
    <2>3. CASE lease.owner # "none" /\ taken' = [taken EXCEPT ![q.nonce] = @ + 1]
      <3>1. BeingChecked(q)
        BY <2>1 DEF LinkInv
      <3>2. /\ taken' \in [Link!Requests -> Nat]
            /\ \A n \in Link!Requests :
                 /\ n # q.nonce => taken'[n] = taken[n]
                 /\ n = q.nonce => taken[n] = 0 /\ taken'[n] = 1
        <4>1. CASE q.nonce \in Link!Requests
          BY <1>1, <2>3, <3>1, <4>1 DEF BeingChecked
        <4>2. CASE q.nonce \notin Link!Requests
          <5>1. taken' = taken
            BY <1>1, <2>3, <4>2
          <5>2. QED
            BY <1>1, <4>2, <5>1
        <4>3. QED
          BY <4>1, <4>2
      <3>3. \A n \in Link!Requests :
               taken'[n] # 0 => n <= lease.made /\ (lease.nonce # 0 => n # lease.nonce)
        BY <3>1, <3>2 DEF LinkInv, BeingChecked
      <3>4. \A r \in posts' : r.at = "checking" => BeingChecked(r) /\ r.nonce # q.nonce
        BY <2>1 DEF LinkInv
      <3>5. \A r \in posts' : r.at = "checking" => BeingChecked(r)'
        BY <2>1, <3>2, <3>4 DEF BeingChecked
      <3>6. \A r \in posts' : Posted(r)' /\ (r.at = "checking" => BeingChecked(r)')
        BY <2>1, <3>5 DEF LinkInv, Posted
      <3>7. LinkInv'
        BY <1>1, <2>1, <3>2, <3>3, <3>6 DEF LinkInv
      <3>8. QED
        BY <2>1, <2>3, <3>2, <3>7 DEF Link!AnswersAreAllowed, Link!TakenIsCurrent
    <2>4. QED
      BY <1>15, <2>2, <2>3 DEF Link!Takes
  <1>16. CASE Link!Serves /\ UNCHANGED <<posts, page, wire, ports, taken>>
    <2>1. CASE lease' = [lease EXCEPT !.nonce = lease.made + 1, !.made = @ + 1]
      <3>1. PICK n \in Nat : n = lease.made + 1
        BY <1>1
      <3>2. lease' = [lease EXCEPT !.nonce = n, !.made = n]
        BY <2>1, <3>1
      <3>3. lease' \in Leases /\ lease'.made = n /\ lease'.nonce = n
        BY <1>1, <3>2 DEF Leases
      <3>4. \A q \in posts : q.at = "checking" => BeingChecked(q)'
        BY <1>1, <1>16, <3>1, <3>3 DEF BeingChecked, LinkInv
      <3>5. \A k \in Link!Requests :
               taken[k] # 0 => k <= lease'.made /\ k # lease'.nonce
        <4>1. SUFFICES ASSUME NEW k \in Link!Requests, taken[k] # 0
                       PROVE  k <= n /\ k # n
          BY <3>3
        <4>2. k <= lease.made
          BY <4>1 DEF LinkInv
        <4>3. k \in Int
          BY <4>1 DEF Link!Requests
        <4>4. QED
          BY <1>1, <3>1, <4>2, <4>3
      <3>6. LinkInv'
        BY <1>1, <1>16, <3>1, <3>3, <3>4, <3>5 DEF LinkInv, Posted
      <3>7. QED
        BY <1>16, <3>6 DEF Link!AnswersAreAllowed, Link!TakenIsCurrent
    <2>2. CASE \/ lease' = lease
               \/ lease' = [lease EXCEPT !.expired = @ \cup {lease.nonce}, !.nonce = 0]
               \/ lease' = [lease EXCEPT !.owner = "none", !.nonce = 0]
               \/ lease' = [lease EXCEPT !.owner = "other"]
      <3>1. lease' \in Leases /\ lease'.made = lease.made /\ lease'.nonce \in {lease.nonce, 0}
        <4>1. CASE lease' = lease
          BY <1>1, <4>1
        <4>2. CASE lease' = [lease EXCEPT !.expired = @ \cup {lease.nonce}, !.nonce = 0]
          <5>1. PICK x \in SUBSET Nat : x = lease.expired \cup {lease.nonce}
            BY <1>1 DEF Leases
          <5>2. lease' = [lease EXCEPT !.expired = x, !.nonce = 0]
            BY <4>2, <5>1
          <5>3. QED
            BY <1>1, <5>2 DEF Leases
        <4>3. CASE lease' = [lease EXCEPT !.owner = "none", !.nonce = 0]
          BY <1>1, <4>3 DEF Leases
        <4>4. CASE lease' = [lease EXCEPT !.owner = "other"]
          BY <1>1, <4>4 DEF Leases
        <4>5. QED
          BY <2>2, <4>1, <4>2, <4>3, <4>4
      <3>2. QED
        BY <1>16, <3>1, LinkRests
    <2>3. QED
      BY <1>16, <2>1, <2>2 DEF Link!Serves, Link!None
  <1>17. QED
    BY <1>3, <1>4, <1>5, <1>6, <1>7, <1>8, <1>9, <1>10, <1>11, <1>12, <1>13, <1>14, <1>15, <1>16
    DEF Link!LinkNext

-----------------------------------------------------------------------------
(* ConnectionsPanel.                                                        *)

Managers == [shown : Connections!Snapshots, tab : {"all", "apps", "mcps"},
             selected : Connections!Items \cup {Nobody}, adding : BOOLEAN,
             removing : Mcps \cup {Nobody}, mounted : Apps \cup {Nobody},
             active : Connections!Reads \cup {Connections!Writing, Connections!NoRequest},
             busy : BOOLEAN, message : {"none", "error", "conflict"}]
Readings == [at : {"none", "sent", "served", "failed"}, got : Connections!Snapshots, quiet : BOOLEAN]
Writings == [at : {"none", "sent", "served", "refused", "conflict"},
             action : Connections!Actions \cup {"none"}, id : Connections!Items \cup {Nobody},
             on : BOOLEAN, base : Int, got : Connections!Snapshots]

\* What is on screen was answered, or nothing is loaded.
Shown(m) == m \in Managers /\ m.shown.rev >= -1

\* The panel of an app is that of the chosen item.
Mounts(m) == m.mounted # Nobody => m.mounted = m.selected

\* A command is about an item, and on a list that was shown.
Ordered(w, m) ==
    /\ w \in Writings /\ w.base <= m.shown.rev
    /\ w.at # "none" => /\ w.action \in Connections!Actions /\ w.id \in Connections!Items
                        /\ w.action = "add_mcp" => w.id \in Mcps

Services == [rev : Int, on : SUBSET Connections!Items, mcps : SUBSET Mcps, testing : SUBSET Mcps,
             seen : Connections!Fingerprints]

ConnectionsInv ==
    /\ conns \in Services /\ Shown(manager) /\ Mounts(manager)
    /\ reading \in [Connections!Reads -> Readings] /\ Ordered(writing, manager)

LEMMA EmptySnapshot == Connections!NotLoaded \in Connections!Snapshots /\ Connections!NotLoaded.rev = -1
  BY DEF Connections!NotLoaded, Connections!Snapshots

\* Drawing changes the panel that is mounted and nothing else.
LEMMA RenderedFits ==
    ASSUME NEW m \in Managers
    PROVE  LET r == Connections!Rendered(m) IN
           /\ r \in Managers /\ r.shown = m.shown /\ Mounts(r)
           /\ r.active = m.active /\ r.busy = m.busy
  BY DEF Connections!Rendered, Managers, Mounts

\* What is accepted is not older than what was shown.
LEMMA AcceptedFits ==
    ASSUME NEW m \in Managers, NEW s \in Connections!Snapshots, Mounts(m)
    PROVE  LET r == Connections!Accepted(m, s) IN
           /\ r \in Managers /\ r.shown.rev >= m.shown.rev /\ Mounts(r)
  <1> DEFINE n == [m EXCEPT !.shown = s]
  <1>1. n \in Managers /\ n.shown = s
    BY DEF Managers
  <1>2. m.shown.rev \in Int /\ s.rev \in Int
    BY DEF Managers, Connections!Snapshots
  <1>3. Connections!Accepted(m, s) = IF s.rev < m.shown.rev THEN m ELSE Connections!Rendered(n)
    BY DEF Connections!Accepted
  <1> HIDE DEF n
  <1> QED
    BY <1>1, <1>2, <1>3, RenderedFits
\* A request that settles no longer holds the panel.
LEMMA ReleasedFits ==
    ASSUME NEW m \in Managers, NEW x
    PROVE  LET r == Connections!Released(m, x) IN
           r \in Managers /\ r.shown = m.shown /\ (Mounts(m) => Mounts(r))
  BY DEF Connections!Released, Managers, Mounts

\* A command is sent on the revision that is shown.
LEMMA SendsFits ==
    ASSUME NEW m \in Managers, m.shown.rev >= -1, NEW a \in Connections!Actions,
           NEW i \in Connections!Items, a = "add_mcp" => i \in Mcps, NEW on \in BOOLEAN,
           Connections!Sends(m, a, i, on), writing \in Writings
    PROVE  /\ Shown(manager') /\ Mounts(manager') /\ manager'.shown = m.shown
           /\ \/ writing' = writing
              \/ Ordered(writing', manager')
  <1>1. CASE ~Connections!Loaded(m) \/ m.busy
    <2>1. manager' = Connections!Rendered(m) /\ writing' = writing
      BY <1>1 DEF Connections!Sends
    <2> QED
      BY <2>1, RenderedFits DEF Shown
  <1>2. CASE ~(~Connections!Loaded(m) \/ m.busy)
    <2> DEFINE n == [m EXCEPT !.busy = TRUE, !.active = Connections!Writing]
    <2>1. n \in Managers /\ n.shown = m.shown
      BY DEF Managers
    <2>2. /\ manager' = Connections!Rendered(n)
          /\ writing' = [at |-> "sent", action |-> a, id |-> i, on |-> on,
                         base |-> m.shown.rev, got |-> Connections!NotLoaded]
      BY <1>2 DEF Connections!Sends
    <2> HIDE DEF n
    <2>3. m.shown.rev \in Int
      BY DEF Managers, Connections!Snapshots
    <2>4. Shown(manager') /\ Mounts(manager') /\ manager'.shown = m.shown
      BY <2>1, <2>2, RenderedFits DEF Shown
    <2>5. writing' \in Writings
      BY <2>2, <2>3, EmptySnapshot DEF Writings
    <2> QED
      BY <2>2, <2>3, <2>4, <2>5 DEF Ordered
  <1> QED
    BY <1>1, <1>2

\* What the service returns, and what it is after that.
LEMMA MovedFits ==
    ASSUME NEW c \in Services, NEW r \in Int, NEW s \in Connections!Fingerprints
    PROVE  [c EXCEPT !.rev = r, !.seen = s] \in Services
  BY DEF Services

LEMMA CurrentFits ==
    ASSUME NEW c \in Services
    PROVE  Connections!Current(c) \in Services /\ Connections!Shows(c) \in Connections!Snapshots
  <1> DEFINE f == Connections!Fingerprint(c)
             n == [c EXCEPT !.rev = @ + 1, !.seen = f]
  <1>1. f \in Connections!Fingerprints
    BY DEF Connections!Fingerprint, Connections!Fingerprints, Services
  <1>2. n \in Services
    <2>1. c.rev + 1 \in Int
      BY DEF Services
    <2> HIDE DEF f
    <2> QED
      BY <1>1, <2>1, MovedFits
  <1>3. Connections!Current(c) \in {c, n}
    BY DEF Connections!Current
  <1>4. Connections!Shows(c) \in Connections!Snapshots
    BY DEF Connections!Shows, Connections!Snapshots, Services
  <1> QED
    BY <1>2, <1>3, <1>4

\* What the service makes of a command that is permitted.
LEMMA AppliedFits ==
    ASSUME NEW c \in Services, NEW m, NEW w, Ordered(w, m), w.at # "none",
           Connections!Permitted(c, w)
    PROVE  Connections!Applied(c, w) \in Services
  <1>1. /\ w.action \in Connections!Actions /\ w.id \in Connections!Items
        /\ w.action \in {"add_mcp", "test_mcp"} => w.id \in Mcps
    BY DEF Ordered, Connections!Permitted, Services
  <1>2. CASE w.action = "set_enabled"
    <2>1. \E o \in SUBSET Connections!Items, t \in SUBSET Mcps :
             Connections!Applied(c, w) = [c EXCEPT !.on = o, !.testing = t]
      <3>1. PICK o : o = IF w.on THEN c.on \cup {w.id} ELSE c.on \ {w.id}
        OBVIOUS
      <3>2. o \in SUBSET Connections!Items /\ c.testing \ {w.id} \in SUBSET Mcps
        BY <1>1, <3>1 DEF Services
      <3>3. Connections!Applied(c, w) = [c EXCEPT !.on = o, !.testing = c.testing \ {w.id}]
        BY <1>2, <3>1 DEF Connections!Applied, Services
      <3> QED
        BY <3>2, <3>3
    <2> QED
      BY <2>1 DEF Services
  <1>3. CASE w.action = "add_mcp"
    <2>1. Connections!Applied(c, w) = [c EXCEPT !.mcps = @ \cup {w.id}]
      BY <1>3 DEF Connections!Applied
    <2> QED
      BY <1>1, <1>3, <2>1 DEF Services
  <1>4. CASE w.action = "remove_mcp"
    <2>1. Connections!Applied(c, w)
            = [c EXCEPT !.mcps = @ \ {w.id}, !.on = @ \ {w.id}, !.testing = @ \ {w.id}]
      BY <1>4 DEF Connections!Applied
    <2> QED
      BY <2>1 DEF Services
  <1>5. CASE w.action = "test_mcp"
    <2>1. Connections!Applied(c, w) = [c EXCEPT !.testing = @ \cup {w.id}]
      BY <1>5 DEF Connections!Applied
    <2> QED
      BY <1>1, <1>5, <2>1 DEF Services
  <1> QED
    BY <1>1, <1>2, <1>3, <1>4, <1>5 DEF Connections!Actions

ConnectionsKept ==
    ConnectionsInv' /\ Connections!ConnectionsNeverGoBack

\* What a step needs: the panel goes on from what was shown.
LEMMA ConnectionsKeep ==
    ASSUME ConnectionsInv, conns' \in Services, Shown(manager'), Mounts(manager'),
           manager'.shown.rev >= manager.shown.rev,
           reading' \in [Connections!Reads -> Readings],
           Ordered(writing', manager') \/ writing' = writing
    PROVE  ConnectionsKept
  <1>1. manager.shown.rev \in Int /\ manager'.shown.rev \in Int /\ writing.base \in Int
    BY DEF ConnectionsInv, Shown, Ordered, Managers, Writings, Connections!Snapshots
  <1>2. Ordered(writing', manager')
    BY <1>1 DEF ConnectionsInv, Ordered
  <1> QED
    BY <1>2 DEF ConnectionsKept, ConnectionsInv, Ordered, Mounts, Connections!ConnectionsNeverGoBack
LEMMA ConnectionsBegin ==
    ASSUME Connections!ConnectionsInit PROVE ConnectionsInv
  <1>1. conns \in Services
    <2>1. PICK m \in {{}, Mcps} : conns = [rev |-> 0, on |-> m, mcps |-> m, testing |-> {},
                                           seen |-> [on |-> m, mcps |-> m, testing |-> {}]]
      BY DEF Connections!ConnectionsInit
    <2>2. m \subseteq Mcps /\ m \subseteq Connections!Items
      BY <2>1 DEF Connections!Items
    <2>3. [on |-> m, mcps |-> m, testing |-> {}] \in Connections!Fingerprints
      BY <2>2 DEF Connections!Fingerprints
    <2> QED
      BY <2>1, <2>2, <2>3 DEF Services
  <1>2. manager \in Managers /\ manager.shown.rev = -1 /\ Mounts(manager)
    BY EmptySnapshot DEF Connections!ConnectionsInit, Managers, Mounts, Connections!Reads
  <1>3. reading \in [Connections!Reads -> Readings]
    BY EmptySnapshot DEF Connections!ConnectionsInit, Readings, Connections!NoRead
  <1>4. Ordered(writing, manager)
    BY <1>2, EmptySnapshot DEF Connections!ConnectionsInit, Ordered, Writings, Connections!NoWrite
  <1> QED
    BY <1>1, <1>2, <1>3, <1>4 DEF ConnectionsInv, Shown

LEMMA ReadsKeep ==
    ASSUME ConnectionsInv, NEW i \in Connections!Reads,
           Connections!ReadServed(i) \/ Connections!ReadSettles(i)
    PROVE  ConnectionsKept
  <1> USE DEF ConnectionsInv, Shown
  <1>1. manager \in Managers /\ manager.shown.rev \in Int /\ manager.shown.rev >= -1
    BY DEF Managers, Connections!Snapshots
  <1>2. CASE Connections!ReadServed(i)
    <2>1. conns' \in {conns, Connections!Current(conns)}
      BY <1>2 DEF Connections!ReadServed
    <2>2. conns' \in Services
      BY <2>1, CurrentFits
    <2>3. PICK g \in Connections!Snapshots : g = Connections!Shows(conns')
      BY <2>2, CurrentFits
    <2>4. reading' \in [Connections!Reads -> Readings]
      BY <1>2, <2>3 DEF Connections!ReadServed, Readings
    <2> QED
      BY <1>1, <1>2, <2>2, <2>4, ConnectionsKeep DEF Connections!ReadServed
  <1>3. CASE Connections!ReadSettles(i)
    <2> DEFINE m == Connections!Released(manager, i)
               e == [m EXCEPT !.message = "error"]
    <2>1. m \in Managers /\ m.shown = manager.shown /\ Mounts(m)
      BY <1>1, ReleasedFits
    <2> HIDE DEF m
    <2>2. e \in Managers /\ e.shown = m.shown
      BY <2>1 DEF Managers
    <2> HIDE DEF e
    <2>3. reading[i].got \in Connections!Snapshots
      BY DEF Readings
    <2>4. \/ manager' = Connections!Accepted(m, reading[i].got)
          \/ manager' = m
          \/ manager' = Connections!Rendered(e)
      BY <1>3 DEF Connections!ReadSettles, m, e
    <2>5. /\ manager' \in Managers /\ Mounts(manager')
          /\ manager'.shown.rev >= manager.shown.rev
      BY <1>1, <2>1, <2>2, <2>3, <2>4, AcceptedFits, RenderedFits
    <2>6. manager'.shown.rev \in Int
      BY <2>5 DEF Managers, Connections!Snapshots
    <2>7. reading' \in [Connections!Reads -> Readings]
      BY <1>3, EmptySnapshot DEF Connections!ReadSettles, Readings, Connections!NoRead
    <2> QED
      BY <1>1, <1>3, <2>5, <2>6, <2>7, ConnectionsKeep DEF Connections!ReadSettles
  <1> QED
    BY <1>2, <1>3

LEMMA RereadsKeep ==
    ASSUME ConnectionsInv, Connections!Rereads
    PROVE  ConnectionsKept
  <1> USE DEF ConnectionsInv, Shown
  <1>1. manager \in Managers /\ manager.shown.rev \in Int /\ manager.shown.rev >= -1
    BY DEF Managers, Connections!Snapshots
  <1>2. PICK i \in Connections!Reads : /\ manager' = [manager EXCEPT !.active = i]
                                       /\ reading' = [reading EXCEPT ![i].at = "sent"]
    BY DEF Connections!Rereads
  <1>3. manager' \in Managers /\ manager'.shown = manager.shown /\ Mounts(manager')
    BY <1>1, <1>2 DEF Managers, Mounts
  <1>4. reading' \in [Connections!Reads -> Readings]
    BY <1>2 DEF Readings
  <1> QED
    BY <1>1, <1>3, <1>4, ConnectionsKeep DEF Connections!Rereads

LEMMA WriteServedKeeps ==
    ASSUME ConnectionsInv, Connections!WriteServed
    PROVE  ConnectionsKept
  <1> USE DEF ConnectionsInv, Shown
  <1>1. manager \in Managers /\ manager.shown.rev \in Int /\ manager.shown.rev >= -1
    BY DEF Managers, Connections!Snapshots
  <1>2. writing.at = "sent" /\ writing \in Writings /\ UNCHANGED <<manager, reading>>
    BY DEF Connections!WriteServed, Ordered
  <1> DEFINE c == Connections!Current(conns)
             a == Connections!Current(Connections!Applied(c, writing))
  <1>3. /\ conns' \in {conns, c} \/ (conns' = a /\ Connections!Permitted(c, writing))
        /\ \/ writing' = [writing EXCEPT !.at = "served", !.got = Connections!Shows(conns')]
           \/ writing' = [writing EXCEPT !.at = "conflict"]
           \/ writing' = [writing EXCEPT !.at = "refused"]
    BY DEF Connections!WriteServed
  <1>4. c \in Services
    BY CurrentFits
  <1> HIDE DEF c
  <1>5. conns' \in Services
    <2>1. CASE conns' \in {conns, c}
      BY <1>4, <2>1
    <2>2. CASE conns' = a /\ Connections!Permitted(c, writing)
      <3>1. Connections!Applied(c, writing) \in Services
        BY <1>2, <1>4, <2>2, AppliedFits
      <3> QED
        BY <2>2, <3>1, CurrentFits
    <2> QED
      BY <1>3, <2>1, <2>2
  <1>6. PICK g \in Connections!Snapshots : g = Connections!Shows(conns')
    BY <1>5, CurrentFits
  <1> HIDE DEF a
  <1>7. /\ writing' \in Writings /\ writing'.base = writing.base /\ writing'.id = writing.id
        /\ writing'.action = writing.action
    BY <1>2, <1>3, <1>6 DEF Writings
  <1>8. Ordered(writing', manager')
    BY <1>2, <1>7 DEF Ordered
  <1> QED
    BY <1>1, <1>2, <1>5, <1>8, ConnectionsKeep

LEMMA WriteSettlesKeeps ==
    ASSUME ConnectionsInv, Connections!WriteSettles
    PROVE  ConnectionsKept
  <1> USE DEF ConnectionsInv, Shown
  <1>1. manager \in Managers /\ manager.shown.rev \in Int /\ manager.shown.rev >= -1
    BY DEF Managers, Connections!Snapshots
  <1>2. /\ writing \in Writings /\ writing' = Connections!NoWrite /\ UNCHANGED conns
        /\ writing.id \in Connections!Items /\ writing.got \in Connections!Snapshots
    BY DEF Connections!WriteSettles, Ordered, Writings
  <1> DEFINE b == [manager EXCEPT !.busy = FALSE]
             m == Connections!Released(b, Connections!Writing)
             q == [m EXCEPT !.message = "none"]
             d == Connections!Accepted(q, writing.got)
             da == [d EXCEPT !.adding = FALSE]
             o == [m EXCEPT !.selected = writing.id]
             oc == [m EXCEPT !.message = "conflict"]
             oe == [m EXCEPT !.message = "error"]
             poc == [o EXCEPT !.message = "conflict"]
             poe == [o EXCEPT !.message = "error"]
  <1>3. b \in Managers /\ b.shown = manager.shown /\ Mounts(b)
    BY <1>1 DEF Managers, Mounts
  <1> HIDE DEF b
  <1>4. m \in Managers /\ m.shown = manager.shown /\ Mounts(m)
    BY <1>3, ReleasedFits
  <1> HIDE DEF m
  <1>5. q \in Managers /\ q.shown = manager.shown /\ Mounts(q)
    BY <1>4 DEF Managers, Mounts
  <1> HIDE DEF q
  <1>6. d \in Managers /\ d.shown.rev >= manager.shown.rev /\ Mounts(d)
    BY <1>2, <1>5, AcceptedFits
  <1> HIDE DEF d
  <1>7. da \in Managers /\ da.shown = d.shown
    BY <1>6 DEF Managers
  <1>8. o \in Managers /\ o.shown = manager.shown
    BY <1>2, <1>4 DEF Managers
  <1> HIDE DEF o, da
  <1>9. /\ oc \in Managers /\ oc.shown = manager.shown
        /\ oe \in Managers /\ oe.shown = manager.shown
    BY <1>4 DEF Managers
  <1>10. /\ poc \in Managers /\ poc.shown = manager.shown
         /\ poe \in Managers /\ poe.shown = manager.shown
    BY <1>8 DEF Managers
  <1> HIDE DEF oc, oe, poc, poe
  <1>11. \E f \in {oc, oe, poc, poe} :
            \/ manager' \in {Connections!Rendered(d), Connections!Rendered(da)} /\ UNCHANGED reading
            \/ manager' = Connections!Rendered(f) /\ UNCHANGED reading
            \/ \E i \in Connections!Reads :
                  /\ manager' = [Connections!Rendered(f) EXCEPT !.active = i]
                  /\ reading' = [reading EXCEPT ![i].at = "sent"]
    BY DEF Connections!WriteSettles, b, m, q, d, da, o, oc, oe, poc, poe
  <1>12. reading' \in [Connections!Reads -> Readings]
    BY <1>11 DEF Readings
  <1>13. /\ manager' \in Managers /\ Mounts(manager')
         /\ manager'.shown.rev >= manager.shown.rev
    <2>1. PICK f \in {oc, oe, poc, poe} :
            \/ manager' \in {Connections!Rendered(d), Connections!Rendered(da)}
            \/ manager' = Connections!Rendered(f)
            \/ \E i \in Connections!Reads :
                  manager' = [Connections!Rendered(f) EXCEPT !.active = i]
      BY <1>11
    <2> DEFINE g == Connections!Rendered(f)
    <2>2. f \in Managers /\ f.shown = manager.shown
      BY <1>9, <1>10
    <2>3. g \in Managers /\ g.shown = manager.shown /\ Mounts(g)
      BY <2>2, RenderedFits
    <2> HIDE DEF g
    <2>4. CASE manager' \in {Connections!Rendered(d), Connections!Rendered(da)}
      BY <1>6, <1>7, <2>4, RenderedFits
    <2>5. CASE manager' = g
      BY <1>1, <2>3, <2>5
    <2>6. ASSUME NEW i \in Connections!Reads, manager' = [g EXCEPT !.active = i]
          PROVE  manager' \in Managers /\ Mounts(manager') /\ manager'.shown = manager.shown
      BY <2>3, <2>6 DEF Managers, Mounts
    <2> QED
      BY <1>1, <2>1, <2>4, <2>5, <2>6 DEF g
  <1>14. manager'.shown.rev \in Int
    BY <1>13 DEF Managers, Connections!Snapshots
  <1>15. Ordered(writing', manager')
    BY <1>1, <1>2, <1>13, <1>14, EmptySnapshot DEF Ordered, Writings, Connections!NoWrite
  <1> QED
    BY <1>1, <1>2, <1>12, <1>13, <1>14, <1>15, ConnectionsKeep
\* The controls that send nothing.
LEMMA MovesKeep ==
    ASSUME ConnectionsInv, NEW m \in Managers, m.shown = manager.shown,
           manager' = Connections!Rendered(m) \/ (manager' = m /\ Mounts(m)),
           UNCHANGED <<conns, reading, writing>>
    PROVE  ConnectionsKept
  <1>1. manager.shown.rev \in Int /\ manager.shown.rev >= -1
    BY DEF ConnectionsInv, Shown, Managers, Connections!Snapshots
  <1>2. manager' \in Managers /\ manager'.shown = manager.shown /\ Mounts(manager')
    BY RenderedFits
  <1> QED
    BY <1>1, <1>2, ConnectionsKeep DEF ConnectionsInv, Shown

\* The controls that send a command.
LEMMA CommandKeeps ==
    ASSUME ConnectionsInv, NEW m \in Managers, m.shown = manager.shown,
           NEW a \in Connections!Actions, NEW i \in Connections!Items, a = "add_mcp" => i \in Mcps,
           NEW on \in BOOLEAN, Connections!Sends(m, a, i, on), UNCHANGED <<conns, reading>>
    PROVE  ConnectionsKept
  <1>1. manager.shown.rev \in Int /\ manager.shown.rev >= -1 /\ writing \in Writings
    BY DEF ConnectionsInv, Shown, Ordered, Managers, Connections!Snapshots
  <1>2. /\ Shown(manager') /\ Mounts(manager') /\ manager'.shown = manager.shown
        /\ writing' = writing \/ Ordered(writing', manager')
    BY <1>1, SendsFits
  <1> QED
    BY <1>1, <1>2, ConnectionsKeep DEF ConnectionsInv

LEMMA ControlsKeep ==
    ASSUME ConnectionsInv,
           \/ Connections!SelectsRow \/ Connections!Switches \/ Connections!UsesMcp
           \/ Connections!Adds \/ Connections!Moves
    PROVE  ConnectionsKept
  <1>1. /\ manager \in Managers /\ Mounts(manager) /\ manager.shown.mcps \subseteq Mcps
        /\ Connections!Items = Apps \cup Mcps
    BY DEF ConnectionsInv, Shown, Managers, Connections!Snapshots, Connections!Items
  <1>2. CASE Connections!SelectsRow
    <2>1. PICK i \in Connections!Rows(manager) :
             manager' = Connections!Rendered([manager EXCEPT !.selected = i, !.removing = Nobody])
      BY <1>2 DEF Connections!SelectsRow
    <2> DEFINE m == [manager EXCEPT !.selected = i, !.removing = Nobody]
    <2>2. i \in Connections!Items
      BY <1>1 DEF Connections!Rows
    <2>3. m \in Managers /\ m.shown = manager.shown
      BY <1>1, <2>2 DEF Managers
    <2> QED
      BY <1>2, <2>1, <2>3, MovesKeep DEF Connections!SelectsRow
  <1>3. CASE Connections!Switches
    <2>1. PICK i \in Connections!Rows(manager) :
             Connections!Sends(manager, "set_enabled", i, i \notin manager.shown.on)
      BY <1>3 DEF Connections!Switches
    <2>2. i \in Connections!Items
      BY <1>1 DEF Connections!Rows
    <2> QED
      BY <1>1, <1>3, <2>1, <2>2, CommandKeeps DEF Connections!Switches, Connections!Actions
  <1>4. CASE Connections!UsesMcp
    <2>1. PICK i \in Mcps : i = manager.selected
      BY <1>4 DEF Connections!UsesMcp
    <2>2. UNCHANGED <<conns, reading>>
      BY <1>4 DEF Connections!UsesMcp
    <2> DEFINE r == [manager EXCEPT !.removing = i]
               n == [manager EXCEPT !.removing = Nobody]
               s == [manager EXCEPT !.removing = Nobody, !.selected = Nobody]
    <2>3. \/ Connections!Sends(manager, "test_mcp", i, FALSE)
          \/ manager' = r /\ UNCHANGED writing
          \/ manager' = n /\ UNCHANGED writing
          \/ Connections!Sends(s, "remove_mcp", i, FALSE)
      BY <1>4, <2>1 DEF Connections!UsesMcp
    <2>4. /\ r \in Managers /\ r.shown = manager.shown /\ Mounts(r)
          /\ n \in Managers /\ n.shown = manager.shown /\ Mounts(n)
      BY <1>1, <2>1 DEF Managers, Mounts
    <2>5. s \in Managers /\ s.shown = manager.shown
      BY <1>1 DEF Managers
    <2> HIDE DEF r, n, s
    <2>6. i \in Connections!Items /\ {"test_mcp", "remove_mcp"} \subseteq Connections!Actions
      BY <1>1 DEF Connections!Actions
    <2>7. CASE Connections!Sends(manager, "test_mcp", i, FALSE)
      BY <1>1, <2>2, <2>6, <2>7, CommandKeeps
    <2>8. CASE Connections!Sends(s, "remove_mcp", i, FALSE)
      BY <2>2, <2>5, <2>6, <2>8, CommandKeeps
    <2>9. CASE manager' \in {r, n} /\ UNCHANGED writing
      BY <2>2, <2>4, <2>9, MovesKeep
    <2> QED
      BY <2>3, <2>7, <2>8, <2>9
  <1>5. CASE Connections!Adds
    <2> DEFINE a == [manager EXCEPT !.adding = TRUE]
               e == [manager EXCEPT !.message = "error"]
               f == [manager EXCEPT !.adding = FALSE]
    <2>1. \/ manager' \in {a, e, f} /\ UNCHANGED writing
          \/ \E i \in Mcps : Connections!Sends(manager, "add_mcp", i, FALSE)
      BY <1>5 DEF Connections!Adds
    <2>2. /\ a \in Managers /\ a.shown = manager.shown /\ Mounts(a)
          /\ e \in Managers /\ e.shown = manager.shown /\ Mounts(e)
          /\ f \in Managers /\ f.shown = manager.shown /\ Mounts(f)
      BY <1>1 DEF Managers, Mounts
    <2> HIDE DEF a, e, f
    <2>3. UNCHANGED <<conns, reading>>
      BY <1>5 DEF Connections!Adds
    <2>4. CASE manager' \in {a, e, f} /\ UNCHANGED writing
      BY <2>2, <2>3, <2>4, MovesKeep
    <2>5. ASSUME NEW i \in Mcps, Connections!Sends(manager, "add_mcp", i, FALSE)
          PROVE  ConnectionsKept
      BY <1>1, <2>3, <2>5, CommandKeeps DEF Connections!Actions
    <2> QED
      BY <2>1, <2>4, <2>5
  <1>6. CASE Connections!Moves
    <2> DEFINE b == [manager EXCEPT !.selected = Nobody, !.adding = FALSE,
                                    !.removing = Nobody, !.message = "none"]
               g(t, i) == [manager EXCEPT !.tab = t, !.selected = i]
    <2>1. \/ manager' = Connections!Rendered(b)
          \/ \E t \in {"all", "apps", "mcps"}, i \in Connections!Items \cup {Nobody} :
                manager' = Connections!Rendered(g(t, i))
      BY <1>6 DEF Connections!Moves
    <2>2. b \in Managers /\ b.shown = manager.shown
      BY <1>1 DEF Managers
    <2>3. ASSUME NEW t \in {"all", "apps", "mcps"}, NEW i \in Connections!Items \cup {Nobody}
          PROVE  g(t, i) \in Managers /\ g(t, i).shown = manager.shown
      BY <1>1 DEF Managers
    <2> HIDE DEF b, g
    <2> QED
      BY <1>6, <2>1, <2>2, <2>3, MovesKeep DEF Connections!Moves
  <1> QED
    BY <1>2, <1>3, <1>4, <1>5, <1>6

\* No list goes back, no command is based on a newer list than was shown, and the panel
\* of an app is the chosen one's.
LEMMA ConnectionsGoOn ==
    ASSUME ConnectionsInv, Connections!ConnectionsNext
    PROVE  ConnectionsInv' /\ Connections!ConnectionsNeverGoBack
  <1>1. CASE Connections!ElsewhereChanges \/ Connections!ElsewhereAsks
    <2>1. conns' \in Services
      <3>1. conns \in Services
        BY DEF ConnectionsInv
      <3>2. CASE Connections!ElsewhereAsks
        BY <3>1, <3>2, CurrentFits DEF Connections!ElsewhereAsks
      <3>3. CASE Connections!ElsewhereChanges
        <4>1. \E o \in SUBSET Connections!Items, t \in SUBSET Mcps :
                 conns' = [conns EXCEPT !.on = o, !.testing = t]
          <5>1. CASE \E i \in Apps \cup conns.mcps :
                       conns' = [conns EXCEPT !.on = IF i \in @ THEN @ \ {i} ELSE @ \cup {i},
                                              !.testing = @ \ {i}]
            <6>1. PICK i \in Connections!Items :
                     conns' = [conns EXCEPT !.on = IF i \in @ THEN @ \ {i} ELSE @ \cup {i},
                                            !.testing = @ \ {i}]
              BY <3>1, <5>1 DEF Services, Connections!Items
            <6>2. PICK o : o = IF i \in conns.on THEN conns.on \ {i} ELSE conns.on \cup {i}
              OBVIOUS
            <6>3. o \in SUBSET Connections!Items /\ conns.testing \ {i} \in SUBSET Mcps
              BY <3>1, <6>2 DEF Services
            <6>4. conns' = [conns EXCEPT !.on = o, !.testing = conns.testing \ {i}]
              BY <3>1, <6>1, <6>2 DEF Services
            <6> QED
              BY <6>3, <6>4
          <5>2. CASE \E i \in conns.testing : conns' = [conns EXCEPT !.testing = @ \ {i}]
            <6>1. PICK i : conns' = [conns EXCEPT !.testing = @ \ {i}]
              BY <5>2
            <6>2. conns' = [conns EXCEPT !.on = conns.on, !.testing = conns.testing \ {i}]
              BY <3>1, <6>1 DEF Services
            <6>3. conns.on \in SUBSET Connections!Items /\ conns.testing \ {i} \in SUBSET Mcps
              BY <3>1 DEF Services
            <6> QED
              BY <6>2, <6>3
          <5> QED
            BY <3>3, <5>1, <5>2 DEF Connections!ElsewhereChanges
        <4> QED
          BY <3>1, <4>1 DEF Services
      <3> QED
        BY <1>1, <3>2, <3>3
    <2>2. manager.shown.rev \in Int
      BY DEF ConnectionsInv, Shown, Managers, Connections!Snapshots
    <2>3. manager' = manager /\ reading' = reading /\ writing' = writing
      BY <1>1 DEF Connections!ElsewhereChanges, Connections!ElsewhereAsks
    <2>4. Shown(manager') /\ Mounts(manager') /\ reading' \in [Connections!Reads -> Readings]
      BY <2>3 DEF ConnectionsInv
    <2>5. manager'.shown.rev >= manager.shown.rev
      BY <2>2, <2>3
    <2> QED
      BY <2>1, <2>3, <2>4, <2>5, ConnectionsKeep DEF ConnectionsKept
  <1> QED
    BY <1>1, ReadsKeep, RereadsKeep, WriteServedKeeps, WriteSettlesKeeps, ControlsKeep
    DEF Connections!ConnectionsNext, ConnectionsKept
-----------------------------------------------------------------------------
(* CapabilitiesPanel.                                                       *)

CapStates == [revision : Nat, chat : CapChats, chosen : [CapChats -> SUBSET Capabilities!Everything],
              allowed : SUBSET Capabilities!Everything]
Listings == [revision : Nat, chat : CapChats, chosen : SUBSET Capabilities!Everything,
             allowed : SUBSET Capabilities!Everything]
Answers == Listings \cup {Capabilities!Unread}
CapLists == [shown : Answers, scope : {"chat", "global"}, busy : BOOLEAN,
             note : Capabilities!Notes, gone : BOOLEAN]
CapReads == [stage : {"none", "sent", "served"}, quiet : BOOLEAN, got : Answers]
CapPuts == [stage : {"posted", "reading"}, item : Capabilities!Everything, revision : Int,
            chat : CapChats, scope : {"chat", "global"}, on : BOOLEAN]

\* What is shown is not newer than the service; an answer under way is not older than what is
\* shown, because no change is sent while a read is under way, nor a read during a change.
CapabilitiesInv ==
    /\ caps \in CapStates /\ list \in CapLists /\ get \in CapReads
    /\ list.shown.revision <= caps.revision
    /\ get.stage = "served" =>
         /\ get.got \in Listings
         /\ list.shown.revision <= get.got.revision /\ get.got.revision <= caps.revision
    /\ put \in CapPuts \cup {Capabilities!NoPut}
    /\ put # Capabilities!NoPut => list.busy /\ get = Capabilities!NoGet

LEMMA AnswersFit ==
    /\ \A a \in Answers : a.revision \in Int /\ a.revision >= -1
    /\ \A a \in Answers : a # Capabilities!Unread => a \in Listings
    /\ Capabilities!Unread \in Answers /\ Capabilities!Unread.revision = -1
    /\ Listings \subseteq Answers
    /\ Capabilities!NoGet \in CapReads /\ Capabilities!NoGet.stage = "none"
    /\ \A q \in BOOLEAN : Capabilities!Sent(q) \in CapReads /\ Capabilities!Sent(q).stage = "sent"
    /\ \A p \in CapPuts : p # Capabilities!NoPut
  <1>1. Capabilities!Unread \in Answers /\ Capabilities!Unread.revision = -1
    BY DEF Answers, Capabilities!Unread
  <1>2. \A a \in Listings : a.revision \in Int /\ a.revision >= -1
    BY DEF Listings
  <1>3. Capabilities!NoGet \in CapReads /\ Capabilities!NoGet.stage = "none"
    BY <1>1 DEF CapReads, Capabilities!NoGet
  <1>4. \A q \in BOOLEAN : Capabilities!Sent(q) \in CapReads /\ Capabilities!Sent(q).stage = "sent"
    BY <1>1 DEF CapReads, Capabilities!Sent
  <1>5. \A p \in CapPuts : p # Capabilities!NoPut
    BY DEF CapPuts, Capabilities!NoPut
  <1> QED
    BY <1>1, <1>2, <1>3, <1>4, <1>5 DEF Answers

LEMMA ListedFits ==
    ASSUME caps \in CapStates
    PROVE  Capabilities!Listed \in Listings /\ Capabilities!Listed.revision = caps.revision
  BY DEF CapStates, Listings, Capabilities!Listed

\* A change that is taken moves the revision on.
LEMMA ControlledFits ==
    ASSUME caps \in CapStates, NEW p \in CapPuts
    PROVE  Capabilities!Controlled(p) \in CapStates /\ Capabilities!Controlled(p).revision >= caps.revision
  <1>1. PICK r \in Nat, c \in CapChats, f \in [CapChats -> SUBSET Capabilities!Everything],
             a \in SUBSET Capabilities!Everything :
             caps = [revision |-> r, chat |-> c, chosen |-> f, allowed |-> a]
    BY DEF CapStates
  <1>2. /\ \A S \in SUBSET Capabilities!Everything :
             Capabilities!With(S, p.item, p.on) \in SUBSET Capabilities!Everything
        /\ p.chat \in CapChats
    BY DEF CapPuts, Capabilities!With
  <1> DEFINE g == [f EXCEPT ![p.chat] = Capabilities!With(@, p.item, p.on)]
             b == Capabilities!With(a, p.item, p.on)
  <1>3. g \in [CapChats -> SUBSET Capabilities!Everything] /\ b \in SUBSET Capabilities!Everything
    BY <1>1, <1>2
  <1>4. \/ Capabilities!Controlled(p) = caps
        \/ Capabilities!Controlled(p) = [revision |-> r + 1, chat |-> c, chosen |-> f, allowed |-> b]
        \/ Capabilities!Controlled(p) = [revision |-> r + 1, chat |-> c, chosen |-> g, allowed |-> a]
    BY <1>1 DEF Capabilities!Controlled
  <1> HIDE DEF g, b
  <1> QED
    BY <1>1, <1>3, <1>4 DEF CapStates

LEMMA CapabilitiesBegin ==
    ASSUME Capabilities!CapabilitiesInit PROVE CapabilitiesInv
  <1>1. caps \in CapStates /\ caps.revision = 0
    <2> DEFINE f == [x \in CapChats |-> {}]
               a == Capabilities!Everything
    <2>1. PICK c \in CapChats : caps = [revision |-> 0, chat |-> c, chosen |-> f, allowed |-> a]
      BY DEF Capabilities!CapabilitiesInit
    <2>2. f \in [CapChats -> SUBSET a] /\ a \in SUBSET a
      OBVIOUS
    <2> HIDE DEF f
    <2> QED
      BY <2>1, <2>2 DEF CapStates
  <1>2. list \in CapLists /\ list.shown = Capabilities!Unread
    BY AnswersFit DEF Capabilities!CapabilitiesInit, CapLists, Capabilities!Notes
  <1>3. get \in CapReads /\ get.stage = "sent" /\ put = Capabilities!NoPut
    BY AnswersFit DEF Capabilities!CapabilitiesInit
  <1> QED
    BY <1>1, <1>2, <1>3, AnswersFit DEF CapabilitiesInv
\* What a step needs, and gives, beside the types.
CapabilitiesKept == CapabilitiesInv' /\ Capabilities!CapabilitiesNeverGoBack

\* The panel asks for nothing and shows what it showed.
LEMMA CapabilitiesStay ==
    ASSUME CapabilitiesInv, list' \in CapLists, list'.shown = list.shown,
           list'.busy = list.busy \/ put' = Capabilities!NoPut,
           caps' = caps \/ (caps' \in CapStates /\ caps'.revision >= caps.revision),
           get' = get, put' \in {put, Capabilities!NoPut}
    PROVE  CapabilitiesKept
  <1>1. list.shown.revision \in Int /\ caps.revision \in Int /\ caps'.revision \in Int
    BY AnswersFit DEF CapabilitiesInv, CapLists, CapStates
  <1>2. get.got.revision \in Int
    BY AnswersFit DEF CapabilitiesInv, CapReads
  <1>3. caps' \in CapStates /\ caps'.revision >= caps.revision
    BY <1>1 DEF CapabilitiesInv
  <1> QED
    BY <1>1, <1>2, <1>3 DEF CapabilitiesInv, CapabilitiesKept, Capabilities!CapabilitiesNeverGoBack

LEMMA RefreshesKeeps ==
    ASSUME CapabilitiesInv, Capabilities!Refreshes
    PROVE  CapabilitiesKept
  <1>1. PICK q \in BOOLEAN :
          /\ list' = [list EXCEPT !.scope = IF q THEN "chat" ELSE @]
          /\ IF list.busy \/ get # Capabilities!NoGet THEN UNCHANGED get
             ELSE get' = Capabilities!Sent(q)
    BY DEF Capabilities!Refreshes
  <1>2. list' \in CapLists /\ list'.shown = list.shown /\ list'.busy = list.busy
    BY <1>1 DEF CapabilitiesInv, CapLists
  <1>3. caps' = caps /\ put' = put
    BY DEF Capabilities!Refreshes
  <1>4. CASE get' = get
    BY <1>2, <1>3, <1>4, CapabilitiesStay
  <1>5. CASE get' = Capabilities!Sent(q) /\ ~list.busy
    <2>1. get' \in CapReads /\ get'.stage # "served" /\ put = Capabilities!NoPut
      BY <1>5, AnswersFit DEF CapabilitiesInv
    <2>2. list.shown.revision \in Int
      BY AnswersFit DEF CapabilitiesInv, CapLists
    <2> QED
      BY <1>2, <1>3, <2>1, <2>2 DEF CapabilitiesInv, CapabilitiesKept, Capabilities!CapabilitiesNeverGoBack
  <1> QED
    BY <1>1, <1>4, <1>5

LEMMA CapabilitySwitchesKeeps ==
    ASSUME CapabilitiesInv, Capabilities!Switches
    PROVE  CapabilitiesKept
  <1>1. list.shown \in Listings /\ list.scope \in {"chat", "global"} /\ list.shown.revision \in Int
    BY AnswersFit DEF CapabilitiesInv, CapLists, Capabilities!Switches
  <1>2. PICK i \in Capabilities!Switchable, on \in BOOLEAN :
          put' = [stage |-> "posted", item |-> i, revision |-> list.shown.revision,
                  chat |-> list.shown.chat, scope |-> list.scope, on |-> on]
    BY DEF Capabilities!Switches
  <1>3. i \in Capabilities!Everything
    BY <1>1 DEF Capabilities!Switchable, Capabilities!Everything, Listings
  <1>4. put' \in CapPuts
    BY <1>1, <1>2, <1>3 DEF CapPuts, Listings
  <1>5. /\ list' \in CapLists /\ list'.shown = list.shown /\ list'.busy
        /\ get' = Capabilities!NoGet /\ caps' = caps
    BY DEF Capabilities!Switches, Capabilities!ReadAfterPost, CapabilitiesInv, CapLists, Capabilities!Notes
  <1> QED
    BY <1>1, <1>4, <1>5, AnswersFit
    DEF CapabilitiesInv, CapabilitiesKept, Capabilities!CapabilitiesNeverGoBack

LEMMA LeavesListKeeps ==
    ASSUME CapabilitiesInv, Capabilities!LeavesList
    PROVE  CapabilitiesKept
  <1>1. put.stage = "posted" => put \in CapPuts
    BY DEF CapabilitiesInv, Capabilities!NoPut
  <1>2. caps' \in CapStates /\ caps'.revision >= caps.revision
    <2>1. caps' = caps \/ (put.stage = "posted" /\ caps' = Capabilities!Controlled(put))
      BY DEF Capabilities!LeavesList
    <2>2. caps.revision \in Int
      BY DEF CapabilitiesInv, CapStates
    <2> QED
      BY <1>1, <2>1, <2>2, ControlledFits DEF CapabilitiesInv
  <1>3. /\ list' \in CapLists /\ list'.shown = list.shown
        /\ get' = Capabilities!NoGet /\ put' = Capabilities!NoPut
    BY DEF Capabilities!LeavesList, CapabilitiesInv, CapLists
  <1>4. list.shown.revision \in Int /\ caps.revision \in Int /\ caps'.revision \in Int
    BY <1>2, AnswersFit DEF CapabilitiesInv, CapLists, CapStates
  <1> QED
    BY <1>2, <1>3, <1>4, AnswersFit
    DEF CapabilitiesInv, CapabilitiesKept, Capabilities!CapabilitiesNeverGoBack

LEMMA PutSettlesKeeps ==
    ASSUME CapabilitiesInv, Capabilities!PutSettles
    PROVE  CapabilitiesKept
  <1>0. put.stage = "posted" /\ get' = get
    BY DEF Capabilities!PutSettles
  <1>1. put \in CapPuts /\ get = Capabilities!NoGet /\ get' = get /\ list.busy
    <2>1. put # Capabilities!NoPut
      BY <1>0 DEF Capabilities!NoPut
    <2> QED
      BY <1>0, <2>1 DEF CapabilitiesInv
  <1>2. /\ Capabilities!Controlled(put) \in CapStates
        /\ Capabilities!Controlled(put).revision >= caps.revision
    BY <1>1, ControlledFits DEF CapabilitiesInv
  <1>3. list.shown.revision \in Int /\ caps.revision \in Int
    BY AnswersFit DEF CapabilitiesInv, CapLists, CapStates
  <1>4. CASE /\ caps' = Capabilities!Controlled(put) /\ put' = Capabilities!NoPut
             /\ list' = [list EXCEPT !.shown = Capabilities!Listed', !.busy = FALSE, !.note = "done"]
    <2>1. PICK a : a = Capabilities!Listed'
      OBVIOUS
    <2>2. caps' \in CapStates /\ caps'.revision \in Int
      BY <1>2, <1>4 DEF CapStates
    <2>3. a = [revision |-> caps'.revision, chat |-> caps'.chat, chosen |-> caps'.chosen[caps'.chat],
               allowed |-> caps'.allowed]
      BY <2>1 DEF Capabilities!Listed
    <2>4. a \in Listings /\ a.revision = caps'.revision
      BY <2>2, <2>3 DEF Listings, CapStates
    <2>5. list' = [list EXCEPT !.shown = a, !.busy = FALSE, !.note = "done"]
      BY <1>4, <2>1
    <2>6. list' \in CapLists /\ list'.shown = a
      BY <2>4, <2>5, AnswersFit DEF CapabilitiesInv, CapLists, Capabilities!Notes
    <2> QED
      BY <1>1, <1>2, <1>3, <1>4, <2>2, <2>4, <2>6, AnswersFit
      DEF CapabilitiesInv, CapabilitiesKept, Capabilities!CapabilitiesNeverGoBack
  <1>5. CASE /\ caps' = caps /\ put' = [put EXCEPT !.stage = "reading"]
             /\ list' = [list EXCEPT !.note = "changed elsewhere"]
    <2>1. list' \in CapLists /\ list'.shown = list.shown /\ list'.busy = list.busy
      BY <1>5 DEF CapabilitiesInv, CapLists, Capabilities!Notes
    <2>2. put' \in CapPuts
      BY <1>1, <1>5 DEF CapPuts
    <2>3. put' # Capabilities!NoPut /\ list'.busy /\ get' = Capabilities!NoGet
          /\ get'.stage = "none" /\ get' \in CapReads
      BY <1>1, <2>1, <2>2, AnswersFit
    <2>4. caps' = caps /\ caps \in CapStates /\ list.shown.revision <= caps.revision
      BY <1>5 DEF CapabilitiesInv
    <2>5. CapabilitiesInv'
      BY <2>1, <2>2, <2>3, <2>4 DEF CapabilitiesInv
    <2> QED
      BY <1>3, <2>1, <2>5
      DEF CapabilitiesInv, CapabilitiesKept, Capabilities!CapabilitiesNeverGoBack
  <1>6. CASE /\ caps' \in {caps, Capabilities!Controlled(put)} /\ put' = Capabilities!NoPut
             /\ list' = [list EXCEPT !.busy = FALSE, !.note = "failed"]
    <2>1. list' \in CapLists /\ list'.shown = list.shown
      BY <1>6 DEF CapabilitiesInv, CapLists, Capabilities!Notes
    <2> QED
      BY <1>1, <1>2, <1>6, <2>1, CapabilitiesStay
  <1> QED
    BY <1>4, <1>5, <1>6 DEF Capabilities!PutSettles

\* However reads, changes and their answers cross, the list never goes back.
LEMMA CapabilitiesGoOn ==
    ASSUME CapabilitiesInv, Capabilities!CapabilitiesNext
    PROVE  CapabilitiesInv' /\ Capabilities!CapabilitiesNeverGoBack
  <1>0. /\ list.shown.revision \in Int /\ caps.revision \in Int /\ get.got.revision \in Int
        /\ list \in CapLists /\ caps \in CapStates /\ get \in CapReads
    BY AnswersFit DEF CapabilitiesInv, CapLists, CapStates, CapReads
  <1>1. CASE Capabilities!PicksScope
    <2>1. PICK s \in {"chat", "global"} : list' = [list EXCEPT !.scope = s, !.note = ""]
      BY <1>1 DEF Capabilities!PicksScope
    <2>2. list' \in CapLists /\ list'.shown = list.shown /\ list'.busy = list.busy
      BY <1>0, <2>1 DEF CapLists, Capabilities!Notes
    <2> QED
      BY <1>1, <2>2, CapabilitiesStay DEF Capabilities!PicksScope, CapabilitiesKept
  <1>2. CASE Capabilities!ConflictSettles
    <2>1. put # Capabilities!NoPut /\ get = Capabilities!NoGet /\ caps' = caps /\ get' = get
          /\ put' = Capabilities!NoPut
      BY <1>2 DEF Capabilities!ConflictSettles, CapabilitiesInv, Capabilities!NoPut
    <2>2. CASE list' = [list EXCEPT !.busy = FALSE]
      <3>1. list' \in CapLists /\ list'.shown = list.shown
        BY <1>0, <2>2 DEF CapLists
      <3> QED
        BY <2>1, <3>1, CapabilitiesStay DEF CapabilitiesKept
    <2>3. CASE list' = [list EXCEPT !.shown = Capabilities!Listed, !.busy = FALSE]
      <3>1. list' \in CapLists /\ list'.shown = Capabilities!Listed
        BY <1>0, <2>3, ListedFits, AnswersFit DEF CapLists
      <3> QED
        BY <1>0, <2>1, <3>1, ListedFits, AnswersFit
        DEF CapabilitiesInv, Capabilities!CapabilitiesNeverGoBack
    <2> QED
      BY <1>2, <2>2, <2>3 DEF Capabilities!ConflictSettles
  <1>3. CASE Capabilities!GetIsServed
    <2>1. get.stage = "sent" /\ get' = [get EXCEPT !.stage = "served", !.got = Capabilities!Listed]
          /\ caps' = caps /\ list' = list /\ put' = put
      BY <1>3 DEF Capabilities!GetIsServed
    <2>2. get' \in CapReads /\ get'.got = Capabilities!Listed
      BY <1>0, <2>1, ListedFits, AnswersFit DEF CapReads
    <2>3. put = Capabilities!NoPut
      BY <2>1, AnswersFit DEF CapabilitiesInv
    <2> QED
      BY <1>0, <2>1, <2>2, <2>3, ListedFits DEF CapabilitiesInv, Capabilities!CapabilitiesNeverGoBack
  <1>4. CASE Capabilities!GetSettles
    <2>1. get' = Capabilities!NoGet /\ caps' = caps /\ put' = put
      BY <1>4 DEF Capabilities!GetSettles
    <2>2. CASE get.stage = "served" /\ list' = [list EXCEPT !.shown = get.got, !.note = ""]
      <3>1. get.got \in Listings /\ put = Capabilities!NoPut
        BY <2>2, AnswersFit DEF CapabilitiesInv
      <3>2. list' \in CapLists /\ list'.shown = get.got
        BY <1>0, <2>2, <3>1, AnswersFit DEF CapLists, Capabilities!Notes
      <3> QED
        BY <1>0, <2>1, <2>2, <3>1, <3>2, AnswersFit
        DEF CapabilitiesInv, Capabilities!CapabilitiesNeverGoBack
    <2>3. CASE \E n \in Capabilities!Notes : list' = [list EXCEPT !.note = n]
      <3>1. list' \in CapLists /\ list'.shown = list.shown /\ list'.busy = list.busy
        BY <1>0, <2>3 DEF CapLists
      <3> QED
        BY <1>0, <2>1, <3>1, AnswersFit DEF CapabilitiesInv, Capabilities!CapabilitiesNeverGoBack
    <2> QED
      BY <1>0, <1>4, <2>2, <2>3 DEF Capabilities!GetSettles, CapLists, Capabilities!Notes
  <1>5. CASE Capabilities!OthersSwitch
    <2>1. PICK r \in Nat, c \in CapChats, f \in [CapChats -> SUBSET Capabilities!Everything],
               a \in SUBSET Capabilities!Everything :
               caps = [revision |-> r, chat |-> c, chosen |-> f, allowed |-> a]
      BY <1>0 DEF CapStates
    <2>2. \/ \E i \in Capabilities!Everything, on \in BOOLEAN :
                caps' = [revision |-> r + 1, chat |-> c, allowed |-> a,
                         chosen |-> [f EXCEPT ![c] = Capabilities!With(@, i, on)]]
          \/ \E d \in CapChats : caps' = [revision |-> r, chat |-> d, chosen |-> f, allowed |-> a]
      <3>1. CASE \E i \in Capabilities!Everything, on \in BOOLEAN :
                   caps' = [caps EXCEPT !.chosen[caps.chat] = Capabilities!With(@, i, on),
                                        !.revision = @ + 1]
        <4>1. PICK i \in Capabilities!Everything, on \in BOOLEAN :
                   caps' = [caps EXCEPT !.chosen[caps.chat] = Capabilities!With(@, i, on),
                                        !.revision = @ + 1]
          BY <3>1
        <4>2. caps' = [revision |-> r + 1, chat |-> c, allowed |-> a,
                       chosen |-> [f EXCEPT ![c] = Capabilities!With(@, i, on)]]
          BY <2>1, <4>1
        <4> QED
          BY <4>2
      <3>2. CASE \E d \in CapChats : caps' = [caps EXCEPT !.chat = d]
        <4>1. PICK d \in CapChats : caps' = [caps EXCEPT !.chat = d]
          BY <3>2
        <4>2. caps' = [revision |-> r, chat |-> d, chosen |-> f, allowed |-> a]
          BY <2>1, <4>1
        <4> QED
          BY <4>2
      <3> QED
        BY <1>5, <3>1, <3>2 DEF Capabilities!OthersSwitch
    <2>3. ASSUME NEW i \in Capabilities!Everything, NEW on \in BOOLEAN
          PROVE  [f EXCEPT ![c] = Capabilities!With(@, i, on)]
                    \in [CapChats -> SUBSET Capabilities!Everything]
      BY DEF Capabilities!With
    <2>4. caps' \in CapStates /\ caps'.revision >= caps.revision
      BY <2>1, <2>2, <2>3 DEF CapStates
    <2> QED
      BY <1>0, <1>5, <2>4, CapabilitiesStay DEF Capabilities!OthersSwitch, CapabilitiesKept
  <1> QED
    BY <1>1, <1>2, <1>3, <1>4, <1>5, RefreshesKeeps, CapabilitySwitchesKeeps, LeavesListKeeps,
       PutSettlesKeeps
    DEF Capabilities!CapabilitiesNext, CapabilitiesKept
-----------------------------------------------------------------------------
(* MailSources.                                                             *)

MailPanels == [shown : Mail!MailSnapshots, timer : BOOLEAN, request : Mail!Fetches \cup {-1, 0},
               busy : BOOLEAN, consent : BOOLEAN, connect : {"no", "add"} \cup Inboxes,
               remove : Inboxes \cup {NoInbox}]
MailFetches == [at : {"none", "sent", "served", "failed"}, got : Mail!MailSnapshots]
MailPosts == [at : {"none", "sent", "served", "failed"}, action : Mail!MailVerbs \cup {"none"},
              inbox : Inboxes \cup {NoInbox}, on : BOOLEAN, base : Int, got : Mail!MailSnapshots]

\* An inbox is switched that there is.
MailInv ==
    /\ mail \in Mail!MailServices /\ sources \in MailPanels
    /\ fetching \in [Mail!Fetches -> MailFetches] /\ posting \in MailPosts
    /\ posting.action = "set_mail_enabled" => posting.inbox \in Inboxes

MailKept == MailInv' /\ Mail!MailNeverGoesBack

LEMMA EmptyMail ==
    /\ Mail!NoMail \in Mail!MailSnapshots /\ Mail!NotFetching \in MailFetches
    /\ Mail!NoPost \in MailPosts /\ Mail!NoPost.action = "none"
  <1>1. Mail!NoMail \in Mail!MailSnapshots
    BY DEF Mail!NoMail, Mail!MailSnapshots
  <1> QED
    BY <1>1 DEF Mail!NotFetching, MailFetches, Mail!NoPost, MailPosts

LEMMA TakenFits ==
    ASSUME NEW b \in MailPanels, NEW s \in Mail!MailSnapshots
    PROVE  Mail!Taken(b, s) \in MailPanels /\ Mail!Taken(b, s).shown.rev >= b.shown.rev
  <1> DEFINE n == [b EXCEPT !.shown = s, !.timer = s.signing]
  <1>1. n \in MailPanels /\ n.shown = s
    BY DEF MailPanels, Mail!MailSnapshots
  <1>2. b.shown.rev \in Int /\ s.rev \in Int
    BY DEF MailPanels, Mail!MailSnapshots
  <1>3. Mail!Taken(b, s) = IF s.rev < b.shown.rev THEN b ELSE n
    BY DEF Mail!Taken
  <1> HIDE DEF n
  <1> QED
    BY <1>1, <1>2, <1>3

LEMMA FreedFits ==
    ASSUME NEW b \in MailPanels, NEW x
    PROVE  Mail!Freed(b, x) \in MailPanels /\ Mail!Freed(b, x).shown = b.shown
           /\ Mail!Freed(b, x).busy = b.busy
  BY DEF Mail!Freed, MailPanels

\* A read that is asked for changes nothing that is shown.
LEMMA FetchFits ==
    ASSUME fetching \in [Mail!Fetches -> MailFetches], NEW b \in MailPanels, Mail!Fetch(b)
    PROVE  /\ sources' \in MailPanels /\ sources'.shown = b.shown
           /\ fetching' \in [Mail!Fetches -> MailFetches]
  <1>1. CASE sources' = b /\ fetching' = fetching
    BY <1>1
  <1>2. ASSUME NEW f \in Mail!Fetches, sources' = [b EXCEPT !.request = f],
               fetching' = [fetching EXCEPT ![f].at = "sent"]
        PROVE  /\ sources' \in MailPanels /\ sources'.shown = b.shown
               /\ fetching' \in [Mail!Fetches -> MailFetches]
    BY <1>2 DEF MailPanels, MailFetches
  <1> QED
    BY <1>1, <1>2 DEF Mail!Fetch

LEMMA MovedMail ==
    ASSUME NEW s \in Mail!MailServices
    PROVE  Mail!Moved(s) \in Mail!MailServices
  BY DEF Mail!Moved, Mail!MailServices

\* What a command changes, at the next revision, is a service.
LEMMA ChangedMail ==
    ASSUME NEW s \in Mail!MailServices, NEW a, NEW i, NEW on \in BOOLEAN,
           a = "set_mail_enabled" => i \in Inboxes
    PROVE  Mail!Changed(s, a, i, on) \in Mail!MailServices
  <1> DEFINE r == [Mail!Moved(s) EXCEPT !.late = TRUE]
  <1>1. r \in Mail!MailServices
    <2>1. Mail!Moved(s) \in Mail!MailServices
      BY MovedMail
    <2> QED
      BY <2>1 DEF Mail!MailServices
  <1> HIDE DEF r
  <1>2. CASE a = "connect_gmail"
    <2>1. Mail!Changed(s, a, i, on) = [r EXCEPT !.flow = "open", !.late = FALSE]
      BY <1>2 DEF Mail!Changed, r
    <2> QED
      BY <1>1, <2>1 DEF Mail!MailServices
  <1>3. CASE a = "cancel_gmail"
    <2>1. Mail!Changed(s, a, i, on) = [r EXCEPT !.flow = "none"]
      BY <1>3 DEF Mail!Changed, r
    <2> QED
      BY <1>1, <2>1 DEF Mail!MailServices
  <1>4. CASE a = "set_mail_enabled"
    <2>1. Mail!Changed(s, a, i, on) = [r EXCEPT !.used = IF on THEN @ \cup {i} ELSE @ \ {i}]
      BY <1>4 DEF Mail!Changed, r
    <2> QED
      BY <1>1, <1>4, <2>1 DEF Mail!MailServices
  <1>5. CASE a = "remove_gmail"
    <2>1. Mail!Changed(s, a, i, on)
            = [r EXCEPT !.accounts = @ \ {i}, !.used = @ \ {i}, !.broken = @ \ {i}]
      BY <1>5 DEF Mail!Changed, r
    <2> QED
      BY <1>1, <2>1 DEF Mail!MailServices
  <1>6. CASE a \notin {"connect_gmail", "cancel_gmail", "set_mail_enabled", "remove_gmail"}
    <2>1. Mail!Changed(s, a, i, on) = [r EXCEPT !.calendar = on]
      BY <1>6 DEF Mail!Changed, r
    <2> QED
      BY <1>1, <2>1 DEF Mail!MailServices
  <1> QED
    BY <1>2, <1>3, <1>4, <1>5, <1>6

LEMMA ServedMail ==
    ASSUME NEW m \in Mail!MailServices
    PROVE  Mail!Served(m) \in Mail!MailSnapshots
  <1>1. (m.flow = "open") \in BOOLEAN
    OBVIOUS
  <1> QED
    BY <1>1 DEF Mail!Served, Mail!MailServices, Mail!MailSnapshots

\* A step that sends no command.
LEMMA MailKeeps ==
    ASSUME MailInv, mail' \in Mail!MailServices, sources' \in MailPanels,
           sources'.shown.rev >= sources.shown.rev,
           fetching' \in [Mail!Fetches -> MailFetches],
           \/ posting' = posting
           \/ posting' \in MailPosts /\ posting'.action = posting.action /\ posting'.inbox = posting.inbox
           \/ posting' = Mail!NoPost
    PROVE  MailKept
  BY EmptyMail DEF MailInv, MailKept, Mail!MailNeverGoesBack

LEMMA MailBegins ==
    ASSUME Mail!MailInit PROVE MailInv
  <1>1. mail \in Mail!MailServices
    BY DEF Mail!MailInit, Mail!MailServices
  <1>2. sources \in MailPanels
    BY EmptyMail DEF Mail!MailInit, MailPanels, Mail!Fetches
  <1>3. fetching \in [Mail!Fetches -> MailFetches]
    BY EmptyMail DEF Mail!MailInit, MailFetches
  <1> QED
    BY <1>1, <1>2, <1>3, EmptyMail DEF MailInv, Mail!MailInit

LEMMA MailCommandsKeeps ==
    ASSUME MailInv, Mail!MailCommands
    PROVE  MailKept
  <1>1. PICK o \in Mail!MailOffers(sources) :
         /\ posting' = [at |-> "sent", action |-> o.action, inbox |-> o.inbox, on |-> o.on,
                        base |-> sources.shown.rev, got |-> Mail!NoMail]
         /\ sources' = [sources EXCEPT !.busy = TRUE, !.request = 0,
                            !.consent = @ /\ o.action # "connect_gmail",
                            !.remove = IF o.action = "remove_gmail" THEN NoInbox ELSE @]
    BY DEF Mail!MailCommands
  <1>2. sources \in MailPanels /\ sources.shown.rev \in Int /\ sources.shown.accounts \subseteq Inboxes
    BY DEF MailInv, MailPanels, Mail!MailSnapshots
  <1>3. /\ (~sources.shown.calendar) \in BOOLEAN
        /\ \A i : (i \notin sources.shown.used) \in BOOLEAN
    OBVIOUS
  <1>4. /\ o.action \in Mail!MailVerbs /\ o.inbox \in Inboxes \cup {NoInbox} /\ o.on \in BOOLEAN
        /\ o.action = "set_mail_enabled" => o.inbox \in Inboxes
        /\ o.action = "connect_gmail" => sources.consent
    <2>1. \/ o = [action |-> "set_calendar_enabled", inbox |-> NoInbox,
                  on |-> ~sources.shown.calendar]
          \/ o = [action |-> "cancel_gmail", inbox |-> NoInbox, on |-> FALSE]
          \/ o = [action |-> "connect_gmail", inbox |-> NoInbox, on |-> FALSE] /\ sources.consent
          \/ \E i \in sources.shown.accounts :
               \/ o = [action |-> "set_mail_enabled", inbox |-> i,
                       on |-> i \notin sources.shown.used]
               \/ o = [action |-> "remove_gmail", inbox |-> i, on |-> FALSE]
      BY DEF Mail!MailOffers
    <2>2. CASE o = [action |-> "set_calendar_enabled", inbox |-> NoInbox,
                    on |-> ~sources.shown.calendar]
      BY <1>3, <2>2 DEF Mail!MailVerbs
    <2>3. CASE o = [action |-> "cancel_gmail", inbox |-> NoInbox, on |-> FALSE]
      BY <2>3 DEF Mail!MailVerbs
    <2>4. CASE o = [action |-> "connect_gmail", inbox |-> NoInbox, on |-> FALSE] /\ sources.consent
      BY <2>4 DEF Mail!MailVerbs
    <2>5. ASSUME NEW i \in sources.shown.accounts,
                 \/ o = [action |-> "set_mail_enabled", inbox |-> i,
                         on |-> i \notin sources.shown.used]
                 \/ o = [action |-> "remove_gmail", inbox |-> i, on |-> FALSE]
          PROVE  /\ o.action \in {"set_mail_enabled", "remove_gmail"} /\ o.inbox = i
                 /\ o.on \in BOOLEAN
      <3>1. CASE o = [action |-> "remove_gmail", inbox |-> i, on |-> FALSE]
        BY <3>1
      <3>2. CASE o = [action |-> "set_mail_enabled", inbox |-> i,
                      on |-> i \notin sources.shown.used]
        <4>1. o.on = (i \notin sources.shown.used)
          BY <3>2
        <4>2. o.action = "set_mail_enabled" /\ o.inbox = i
          BY <3>2
        <4> QED
          BY <1>3, <4>1, <4>2
      <3> QED
        BY <2>5, <3>1, <3>2
    <2>6. CASE \E i \in Inboxes : /\ o.action \in {"set_mail_enabled", "remove_gmail"}
                                  /\ o.inbox = i /\ o.on \in BOOLEAN
      BY <2>6 DEF Mail!MailVerbs
    <2> QED
      BY <1>2, <2>1, <2>2, <2>3, <2>4, <2>5, <2>6
  <1>5. posting' \in MailPosts /\ posting'.action = o.action /\ posting'.inbox = o.inbox
    BY <1>1, <1>2, <1>4, EmptyMail DEF MailPosts
  <1>6. /\ sources' \in MailPanels /\ sources'.shown = sources.shown
        /\ o.action = "connect_gmail" => ~sources'.consent
    BY <1>1, <1>2 DEF MailPanels
  <1>7. mail' = mail /\ fetching' = fetching
    BY DEF Mail!MailCommands
  <1> QED
    BY <1>2, <1>4, <1>5, <1>6, <1>7 DEF MailInv, MailKept, Mail!MailNeverGoesBack

LEMMA PostSettlesMail ==
    ASSUME MailInv, Mail!PostSettles
    PROVE  MailKept
  <1> DEFINE b == Mail!Freed(sources, 0)
             t == Mail!Taken(b, posting.got)
             u == [t EXCEPT !.connect = IF posting.action = "connect_gmail" THEN "no" ELSE @]
  <1>1. posting.got \in Mail!MailSnapshots /\ sources \in MailPanels
    BY DEF MailInv, MailPosts
  <1>2. b \in MailPanels /\ b.shown = sources.shown
    BY <1>1, FreedFits
  <1> HIDE DEF b
  <1>3. t \in MailPanels /\ t.shown.rev >= sources.shown.rev
    BY <1>1, <1>2, TakenFits
  <1> HIDE DEF t
  <1>4. u \in MailPanels /\ u.shown = t.shown
    BY <1>3 DEF MailPanels
  <1> HIDE DEF u
  <1>5. \/ sources' = [u EXCEPT !.busy = FALSE]
        \/ sources' = [b EXCEPT !.busy = FALSE]
    BY DEF Mail!PostSettles, b, t, u
  <1>6. sources.shown.rev \in Int
    BY <1>1 DEF MailPanels, Mail!MailSnapshots
  <1>7. sources' \in MailPanels /\ sources'.shown \in {u.shown, b.shown}
    BY <1>2, <1>4, <1>5 DEF MailPanels
  <1>8. sources'.shown.rev >= sources.shown.rev
    BY <1>2, <1>3, <1>4, <1>6, <1>7
  <1> QED
    BY <1>7, <1>8, MailKeeps DEF Mail!PostSettles, MailInv

LEMMA MailGoesOn ==
    ASSUME MailInv, Mail!MailNext
    PROVE  MailInv' /\ Mail!MailNeverGoesBack
  <1>1. /\ sources \in MailPanels /\ sources.shown.rev \in Int /\ mail \in Mail!MailServices
        /\ fetching \in [Mail!Fetches -> MailFetches] /\ posting \in MailPosts
    BY DEF MailInv, MailPanels, Mail!MailSnapshots
  <1>2. CASE Mail!MailPolls
    <2> DEFINE b == [sources EXCEPT !.timer = FALSE]
    <2>1. b \in MailPanels /\ b.shown = sources.shown
      BY <1>1 DEF MailPanels
    <2>2. (Mail!Fetch(b) \/ Mail!Fetch(sources)) /\ mail' = mail /\ posting' = posting
      BY <1>2 DEF Mail!MailPolls
    <2> HIDE DEF b
    <2>3. /\ sources' \in MailPanels /\ sources'.shown = sources.shown
          /\ fetching' \in [Mail!Fetches -> MailFetches]
      BY <1>1, <2>1, <2>2, FetchFits
    <2> QED
      BY <1>1, <2>2, <2>3, MailKeeps DEF MailKept
  <1>3. ASSUME NEW f \in Mail!Fetches, Mail!FetchServed(f)
        PROVE  MailKept
    <2>1. PICK g \in Mail!MailSnapshots : g = Mail!Served(mail)
      BY <1>1, ServedMail
    <2>2. fetching' \in [Mail!Fetches -> MailFetches]
      BY <1>1, <1>3, <2>1 DEF Mail!FetchServed, MailFetches
    <2> QED
      BY <1>1, <1>3, <2>2, MailKeeps DEF Mail!FetchServed
  <1>4. ASSUME NEW f \in Mail!Fetches, Mail!FetchSettles(f)
        PROVE  MailKept
    <2> DEFINE b == Mail!Freed(sources, f)
    <2>1. b \in MailPanels /\ b.shown = sources.shown
      BY <1>1, FreedFits
    <2> HIDE DEF b
    <2>2. fetching[f].got \in Mail!MailSnapshots
      BY <1>1 DEF MailFetches
    <2>3. sources' = Mail!Taken(b, fetching[f].got) \/ sources' = b
      BY <1>4 DEF Mail!FetchSettles, b
    <2>4. sources' \in MailPanels /\ sources'.shown.rev >= sources.shown.rev
      <3>1. CASE sources' = Mail!Taken(b, fetching[f].got)
        BY <2>1, <2>2, <3>1, TakenFits
      <3>2. CASE sources' = b
        BY <1>1, <2>1, <3>2
      <3> QED
        BY <2>3, <3>1, <3>2
    <2>5. fetching' \in [Mail!Fetches -> MailFetches]
      BY <1>1, <1>4, EmptyMail DEF Mail!FetchSettles
    <2> QED
      BY <1>1, <1>4, <2>4, <2>5, MailKeeps DEF Mail!FetchSettles
  <1>5. CASE Mail!MailClicks
    <2>1. sources.shown.broken \subseteq Inboxes /\ sources.shown.accounts \subseteq Inboxes
      BY <1>1 DEF MailPanels, Mail!MailSnapshots
    <2>2. \/ sources' = [sources EXCEPT !.consent = ~@]
          \/ sources' = [sources EXCEPT !.connect = "no", !.consent = FALSE]
          \/ \E c \in {"add"} \cup Inboxes : sources' = [sources EXCEPT !.connect = c, !.consent = FALSE]
          \/ \E i \in Inboxes \cup {NoInbox} : sources' = [sources EXCEPT !.remove = i]
      BY <1>5, <2>1 DEF Mail!MailClicks
    <2>3. sources' \in MailPanels /\ sources'.shown = sources.shown
      BY <1>1, <2>2 DEF MailPanels
    <2>4. sources'.shown.rev >= sources.shown.rev
      BY <1>1, <2>3
    <2> QED
      BY <1>1, <1>5, <2>3, <2>4, MailKeeps DEF Mail!MailClicks, MailKept
  <1>6. CASE Mail!PostServed
    <2> DEFINE new == Mail!Changed(mail, posting.action, posting.inbox, posting.on)
    <2>1. posting.at = "sent" /\ UNCHANGED <<sources, fetching>>
      BY <1>6 DEF Mail!PostServed
    <2>2. new \in Mail!MailServices
      BY <1>1, ChangedMail DEF MailInv, MailPosts
    <2>3. PICK g \in Mail!MailSnapshots : g = Mail!Served(new)
      BY <2>2, ServedMail
    <2>4. mail' \in {mail, new} \cup Mail!Broken(mail, posting.action)
      BY <1>6 DEF Mail!PostServed
    <2>5. \/ posting' = [posting EXCEPT !.at = "served", !.got = g]
          \/ posting' = [posting EXCEPT !.at = "failed"]
      BY <1>6, <2>3 DEF Mail!PostServed
    <2> HIDE DEF new
    <2>6. mail' \in Mail!MailServices
      BY <1>1, <2>2, <2>4 DEF Mail!Broken, Mail!MailServices
    <2>7. posting' \in MailPosts /\ posting'.action = posting.action /\ posting'.inbox = posting.inbox
      BY <1>1, <2>3, <2>5 DEF MailPosts
    <2> QED
      BY <1>1, <2>1, <2>6, <2>7, MailKeeps DEF MailKept
  <1>7. CASE Mail!SignInGoesOn
    <2>1. mail' \in Mail!MailServices
      <3>1. PICK m \in Mail!MailServices : m = Mail!Moved(mail)
        BY <1>1, MovedMail
      <3>2. \/ \E f \in {"none", "used"} : mail' = [mail EXCEPT !.flow = f]
            \/ mail' = [m EXCEPT !.flow = "none"]
            \/ \E i \in Inboxes :
                  mail' = [m EXCEPT !.flow = "none", !.accounts = @ \cup {i},
                                    !.used = @ \cup {i}, !.broken = @ \ {i}]
        BY <1>7, <3>1 DEF Mail!SignInGoesOn
      <3>3. ASSUME NEW f \in {"none", "used"}, mail' = [mail EXCEPT !.flow = f]
            PROVE  mail' \in Mail!MailServices
        BY <1>1, <3>3 DEF Mail!MailServices
      <3>4. CASE mail' = [m EXCEPT !.flow = "none"]
        BY <3>1, <3>4 DEF Mail!MailServices
      <3>5. ASSUME NEW i \in Inboxes,
                   mail' = [m EXCEPT !.flow = "none", !.accounts = @ \cup {i},
                                     !.used = @ \cup {i}, !.broken = @ \ {i}]
            PROVE  mail' \in Mail!MailServices
        BY <3>1, <3>5 DEF Mail!MailServices
      <3> QED
        BY <3>2, <3>3, <3>4, <3>5
    <2>2. sources' = sources /\ fetching' = fetching /\ posting' = posting
      BY <1>7 DEF Mail!SignInGoesOn
    <2>3. sources'.shown.rev >= sources.shown.rev
      BY <1>1, <2>2
    <2> QED
      BY <1>1, <2>1, <2>2, <2>3, MailKeeps DEF MailKept
  <1>8. CASE Mail!MailChanges
    <2>1. mail' \in Mail!MailServices
      <3>1. mail.accounts \in SUBSET Inboxes
        BY <1>1 DEF Mail!MailServices
      <3>2. CASE \E i \in mail.accounts : mail' = [Mail!Moved(mail) EXCEPT !.broken = @ \cup {i}]
        <4>1. PICK m \in Mail!MailServices : m = Mail!Moved(mail)
          BY <1>1, MovedMail
        <4>2. PICK i \in Inboxes : mail' = [m EXCEPT !.broken = @ \cup {i}]
          BY <3>1, <3>2, <4>1
        <4> QED
          BY <4>1, <4>2 DEF Mail!MailServices
      <3>3. CASE mail' = Mail!Moved(mail)
        BY <1>1, <3>3, MovedMail
      <3>4. CASE mail' = [mail EXCEPT !.calendar = ~@]
        <4>1. PICK e \in BOOLEAN : e = ~mail.calendar
          BY Zenon
        <4>2. mail' = [mail EXCEPT !.calendar = e]
          BY <1>1, <3>4, <4>1 DEF Mail!MailServices
        <4> QED
          BY <1>1, <4>2 DEF Mail!MailServices
      <3>5. CASE \E B \in SUBSET mail.accounts :
                   mail' = [Mail!Moved(mail) EXCEPT !.broken = @ \cup B, !.calendar = FALSE,
                                                    !.late = TRUE]
        <4>1. PICK m \in Mail!MailServices : m = Mail!Moved(mail)
          BY <1>1, MovedMail
        <4>2. PICK B \in SUBSET Inboxes :
                mail' = [m EXCEPT !.broken = @ \cup B, !.calendar = FALSE, !.late = TRUE]
          BY <3>1, <3>5, <4>1
        <4> QED
          BY <4>1, <4>2 DEF Mail!MailServices
      <3>6. CASE \E a \in Mail!MailVerbs, i \in mail.accounts \cup {NoInbox}, on \in BOOLEAN :
                   /\ a \in {"set_mail_enabled", "remove_gmail"} <=> i # NoInbox
                   /\ mail' = Mail!Changed(mail, a, i, on)
        BY <1>1, <3>1, <3>6, ChangedMail
      <3> QED
        BY <1>8, <3>2, <3>3, <3>4, <3>5, <3>6 DEF Mail!MailChanges
    <2>2. sources' = sources /\ fetching' = fetching /\ posting' = posting
      BY <1>8 DEF Mail!MailChanges
    <2>3. sources'.shown.rev >= sources.shown.rev
      BY <1>1, <2>2
    <2> QED
      BY <1>1, <2>1, <2>2, <2>3, MailKeeps DEF MailKept
  <1> QED
    BY <1>2, <1>3, <1>4, <1>5, <1>6, <1>7, <1>8, MailCommandsKeeps, PostSettlesMail
    DEF Mail!MailNext, MailKept
-----------------------------------------------------------------------------
(* ChatLibrary.                                                             *)

\* A catalog, and a copy of the catalog t or of an earlier one: a revision stands for
\* one catalog.
Catalog(c) ==
    /\ c = [rev |-> c.rev, active |-> c.active, chats |-> c.chats, projects |-> c.projects]
    /\ c.rev \in Nat
Copy(c, t) == Catalog(c) /\ c.rev <= t.rev /\ (c.rev = t.rev => c = t)

Request(r) == DOMAIN r = {"st", "cmd", "based", "seen", "answer"}
LibRequests(w, t) ==
    /\ w = [s \in Library!Slots |-> w[s]]
    /\ \A s \in Library!Slots : Request(w[s]) /\ Copy(w[s].answer, t) /\ Copy(w[s].seen, t)
    /\ w["command"].based = w["command"].seen.rev

LibraryInv ==
    /\ Catalog(store) /\ store.rev >= 1
    /\ "catalog" \in DOMAIN lib /\ Copy(lib.catalog, store)
    /\ LibRequests(libWire, store)

LibNew(t) == t = store \/ (Catalog(t) /\ t.rev = store.rev + 1)

LEMMA NoRequests ==
    /\ Catalog(Library!NoCatalog) /\ Library!NoCatalog.rev = 0
    /\ Request(Library!NoLibReq) /\ Library!NoLibReq.answer = Library!NoCatalog
    /\ Library!NoLibReq.seen = Library!NoCatalog /\ Library!NoLibReq.based = 0
    /\ \A x : LET r == [Library!NoLibReq EXCEPT !.st = x] IN
              /\ Request(r) /\ r.answer = Library!NoCatalog
              /\ r.seen = Library!NoCatalog /\ r.based = 0
  BY DEF Library!NoCatalog, Library!NoLibReq, Catalog, Request

\* An earlier copy stays an earlier copy.
LEMMA CopiesStay ==
    ASSUME Catalog(store), NEW t, LibNew(t), NEW c, Copy(c, store)
    PROVE  Copy(c, t)
  BY DEF Copy, Catalog, LibNew

LEMMA TakesFits ==
    ASSUME NEW l, NEW c, NEW t, "catalog" \in DOMAIN l, Copy(l.catalog, t), Copy(c, t)
    PROVE  LET r == Library!Takes(l, c) IN
           /\ DOMAIN r = DOMAIN l /\ Copy(r.catalog, t) /\ r.catalog.rev >= l.catalog.rev
  <1> DEFINE n == [l EXCEPT !.catalog = c]
  <1>1. DOMAIN n = DOMAIN l /\ n.catalog = c
    OBVIOUS
  <1>2. l.catalog.rev \in Nat /\ c.rev \in Nat
    BY DEF Copy, Catalog
  <1>3. Library!Takes(l, c) = IF c.rev < l.catalog.rev THEN l ELSE n
    BY DEF Library!Takes
  <1> HIDE DEF n
  <1> QED
    BY <1>1, <1>2, <1>3

LEMMA DoneFits ==
    ASSUME NEW l, NEW s, "catalog" \in DOMAIN l
    PROVE  DOMAIN Library!Done(l, s) = DOMAIN l /\ Library!Done(l, s).catalog = l.catalog
  BY DEF Library!Done

\* What a command leads to is the next revision, or nothing new.
LEMMA AppliedIsNew ==
    ASSUME Catalog(store), NEW m
    PROVE  LibNew(Library!Applied(store, m))
  <1>1. ASSUME NEW c, Catalog(c), NEW i, NEW f, NEW v
        PROVE  Catalog(Library!Update(c, i, f, v)) /\ Library!Update(c, i, f, v).rev = c.rev
    <2>1. PICK x : Library!Update(c, i, f, v) = [c EXCEPT !.chats = x]
      BY DEF Library!Update
    <2> QED
      BY <1>1, <2>1 DEF Catalog
  <1>2. LET n == Library!Target(store, m) IN Catalog(n) /\ n.rev = store.rev
    <2>1. PICK i : i = CHOOSE y \in Library!FreshChats(store) : TRUE
      OBVIOUS
    <2>2. PICK x : x = store.chats \cup
                         {[id |-> i, project |-> m.to, archived |-> FALSE, pinned |-> FALSE]}
      OBVIOUS
    <2>3. PICK p : p = store.projects \cup
                  {[id |-> CHOOSE y \in Library!FreshProjects(store) : TRUE, archived |-> FALSE]}
      OBVIOUS
    <2>4. PICK q : q = {IF r.id = m.id THEN [r EXCEPT !.archived = m.flag] ELSE r : r \in store.projects}
      OBVIOUS
    <2> DEFINE A == [store EXCEPT !.active = i, !.chats = x]
               B == [store EXCEPT !.active = m.id]
               C == [store EXCEPT !.projects = p]
               D == [store EXCEPT !.projects = q]
    <2>5. \/ Library!Target(store, m) \in {A, B, C, D, store}
          \/ \E f, v : Library!Target(store, m) = Library!Update(store, m.id, f, v)
      BY <2>1, <2>2, <2>3, <2>4 DEF Library!Target
    <2>6. /\ Catalog(A) /\ A.rev = store.rev /\ Catalog(B) /\ B.rev = store.rev
      <3>1. PICK r, a, c, j : r \in Nat /\
                store = [rev |-> r, active |-> a, chats |-> c, projects |-> j]
        BY DEF Catalog
      <3>2. A = [rev |-> r, active |-> i, chats |-> x, projects |-> j]
        <4>1. [store EXCEPT !.active = i] = [rev |-> r, active |-> i, chats |-> c, projects |-> j]
          BY <3>1
        <4>2. A = [[store EXCEPT !.active = i] EXCEPT !.chats = x]
          BY <3>1
        <4>3. [[rev |-> r, active |-> i, chats |-> c, projects |-> j] EXCEPT !.chats = x]
              = [rev |-> r, active |-> i, chats |-> x, projects |-> j]
          OBVIOUS
        <4> HIDE DEF A
        <4> QED
          BY <4>1, <4>2, <4>3
      <3>3. B = [rev |-> r, active |-> m.id, chats |-> c, projects |-> j]
        BY <3>1
      <3> HIDE DEF A, B
      <3> QED
        BY <3>1, <3>2, <3>3 DEF Catalog
    <2>7. /\ Catalog(C) /\ C.rev = store.rev /\ Catalog(D) /\ D.rev = store.rev
      BY DEF Catalog
    <2> HIDE DEF A, B, C, D
    <2> QED
      BY <1>1, <2>5, <2>6, <2>7
  <1> DEFINE n == Library!Target(store, m)
             k == [n EXCEPT !.rev = n.rev + 1]
  <1>3. Library!Applied(store, m) = store \/ Library!Applied(store, m) = k
    BY DEF Library!Applied
  <1>4. Catalog(n) /\ n.rev = store.rev
    BY <1>2
  <1> HIDE DEF n
  <1>5. Catalog(k) /\ k.rev = store.rev + 1
    BY <1>4 DEF Catalog
  <1> HIDE DEF k
  <1>6. LibNew(k) /\ LibNew(store)
    BY <1>5 DEF LibNew
  <1> QED
    BY <1>3, <1>6, Zenon

\* What a step needs.
LEMMA LibraryKeeps ==
    ASSUME LibraryInv, LibNew(store'), "catalog" \in DOMAIN lib', Copy(lib'.catalog, store),
           lib'.catalog.rev >= lib.catalog.rev,
           LibRequests(libWire', store) \/ LibRequests(libWire', store')
    PROVE  LibraryInv' /\ lib'.catalog.rev >= lib.catalog.rev
  <1>1. Catalog(store') /\ store'.rev >= 1
    BY DEF LibraryInv, LibNew, Catalog
  <1>2. PICK t : t = store'
    OBVIOUS
  <1>3. Copy(lib'.catalog, t) /\ LibRequests(libWire', t)
    BY <1>2, CopiesStay DEF LibraryInv, LibRequests
  <1> QED
    BY <1>1, <1>2, <1>3 DEF LibraryInv

LEMMA LibraryBegins ==
    ASSUME Library!LibInit PROVE LibraryInv
  <1>1. Catalog(store) /\ store.rev = 1
    BY DEF Library!LibInit, Catalog
  <1>2. "catalog" \in DOMAIN lib /\ lib.catalog = Library!NoCatalog
    BY DEF Library!LibInit
  <1>3. Copy(Library!NoCatalog, store)
    BY <1>1, NoRequests DEF Copy
  <1>4. LibRequests(libWire, store)
    BY <1>3, NoRequests DEF Library!LibInit, LibRequests, Library!Slots
  <1> QED
    BY <1>1, <1>2, <1>3, <1>4 DEF LibraryInv
\* The requests after a step: none, asked, a command on what is shown, or lost.
LEMMA LibRequestsFit ==
    ASSUME NEW t, NEW w, LibRequests(w, t), Catalog(t), t.rev >= 1
    PROVE  /\ \A s \in Library!Slots : LibRequests([w EXCEPT ![s] = Library!NoLibReq], t)
           /\ \A s \in Library!Slots :
                 LibRequests([w EXCEPT ![s] = [Library!NoLibReq EXCEPT !.st = "sent"]], t)
           /\ \A s \in Library!Slots : LibRequests([w EXCEPT ![s].st = "lost"], t)
           /\ \A m, c : Copy(c, t) =>
                 LibRequests([w EXCEPT !["command"] =
                    [Library!NoLibReq EXCEPT !.st = "sent", !.cmd = m, !.based = c.rev, !.seen = c]], t)
  <1>1. Copy(Library!NoCatalog, t)
    BY NoRequests DEF Copy, Catalog
  <1>2. /\ w = [s \in Library!Slots |-> w[s]]
        /\ \A s \in Library!Slots : Request(w[s]) /\ Copy(w[s].answer, t) /\ Copy(w[s].seen, t)
        /\ w["command"].based = w["command"].seen.rev /\ "command" \in Library!Slots
    BY DEF LibRequests, Library!Slots
  <1>3. ASSUME NEW s \in Library!Slots, NEW r, Request(r), Copy(r.answer, t), Copy(r.seen, t),
               s = "command" => r.based = r.seen.rev
        PROVE  LibRequests([w EXCEPT ![s] = r], t)
    BY <1>2, <1>3 DEF LibRequests
  <1>4. ASSUME NEW s \in Library!Slots
        PROVE  LibRequests([w EXCEPT ![s] = Library!NoLibReq], t)
    BY <1>1, <1>3, NoRequests
  <1>5. ASSUME NEW s \in Library!Slots
        PROVE  LibRequests([w EXCEPT ![s] = [Library!NoLibReq EXCEPT !.st = "sent"]], t)
    <2> DEFINE r == [Library!NoLibReq EXCEPT !.st = "sent"]
    <2>1. Request(r) /\ r.answer = Library!NoCatalog /\ r.seen = Library!NoCatalog /\ r.based = 0
      BY NoRequests
    <2> HIDE DEF r
    <2>2. LibRequests([w EXCEPT ![s] = r], t)
      BY <1>1, <1>3, <2>1, NoRequests
    <2> QED
      BY <2>2 DEF r
  <1>6. ASSUME NEW s \in Library!Slots
        PROVE  LibRequests([w EXCEPT ![s].st = "lost"], t)
    <2> DEFINE r == [w[s] EXCEPT !.st = "lost"]
    <2>1. Request(r) /\ r.answer = w[s].answer /\ r.seen = w[s].seen /\ r.based = w[s].based
      BY <1>2 DEF Request
    <2> HIDE DEF r
    <2>2. LibRequests([w EXCEPT ![s] = r], t)
      BY <1>2, <1>3, <2>1
    <2>3. [w EXCEPT ![s].st = "lost"] = [w EXCEPT ![s] = r]
      BY DEF r
    <2> QED
      BY <2>2, <2>3
  <1>7. ASSUME NEW m, NEW c, Copy(c, t)
        PROVE  LibRequests([w EXCEPT !["command"] =
                    [Library!NoLibReq EXCEPT !.st = "sent", !.cmd = m, !.based = c.rev, !.seen = c]], t)
    <2> DEFINE r == [Library!NoLibReq EXCEPT !.st = "sent", !.cmd = m, !.based = c.rev, !.seen = c]
    <2>1. Request(r) /\ r.answer = Library!NoCatalog /\ r.seen = c /\ r.based = c.rev
      BY NoRequests DEF Library!NoLibReq, Request
    <2> HIDE DEF r
    <2>2. LibRequests([w EXCEPT !["command"] = r], t)
      BY <1>1, <1>2, <1>3, <1>7, <2>1
    <2> QED
      BY <2>2 DEF r
  <1> QED
    BY <1>4, <1>5, <1>6, <1>7
LEMMA LibAnswerFits ==
    ASSUME NEW t, NEW w, LibRequests(w, t), Catalog(t), NEW s \in Library!Slots, NEW x
    PROVE  LibRequests([w EXCEPT ![s].answer = t, ![s].st = x], t)
  <1>1. /\ w = [k \in Library!Slots |-> w[k]]
        /\ \A k \in Library!Slots : Request(w[k]) /\ Copy(w[k].answer, t) /\ Copy(w[k].seen, t)
        /\ w["command"].based = w["command"].seen.rev /\ Copy(t, t)
    BY DEF LibRequests, Copy, Catalog
  <1> DEFINE r == [w[s] EXCEPT !.answer = t]
             q == [r EXCEPT !.st = x]
             v == [w EXCEPT ![s].answer = t, ![s].st = x]
  <1>2. Request(r) /\ r.answer = t /\ r.seen = w[s].seen /\ r.based = w[s].based
    BY <1>1 DEF Request
  <1>3. v = [k \in Library!Slots |-> IF k = s THEN q ELSE w[k]]
    BY <1>1 DEF Request
  <1> HIDE DEF r
  <1>4. Request(q) /\ q.answer = t /\ q.seen = w[s].seen /\ q.based = w[s].based
    BY <1>2 DEF Request
  <1> HIDE DEF q, v
  <1>5. \A k \in Library!Slots : v[k] = IF k = s THEN q ELSE w[k]
    BY <1>3
  <1>6. "command" \in Library!Slots
    BY DEF Library!Slots
  <1>7. v = [k \in Library!Slots |-> v[k]]
    BY <1>3, <1>5
  <1>8. \A k \in Library!Slots : Request(v[k]) /\ Copy(v[k].answer, t) /\ Copy(v[k].seen, t)
    BY <1>1, <1>4, <1>5
  <1>9. v["command"].based = v["command"].seen.rev
    BY <1>1, <1>4, <1>5, <1>6
  <1>10. LibRequests(v, t)
    BY <1>7, <1>8, <1>9 DEF LibRequests
  <1> QED
    BY <1>10 DEF v

\* A read that is asked for changes nothing that is shown.
LEMMA AskedFits ==
    ASSUME Catalog(store), store.rev >= 1, NEW l, "catalog" \in DOMAIN l, NEW w,
           LibRequests(w, store), Library!Asked(l, w)
    PROVE  /\ "catalog" \in DOMAIN lib' /\ lib'.catalog = l.catalog
           /\ LibRequests(libWire', store)
  <1>1. CASE lib' = l /\ libWire' = w
    BY <1>1
  <1>2. ASSUME NEW s \in Library!Slots, lib' = [l EXCEPT !.owner = s],
               libWire' = [w EXCEPT ![s] = [Library!NoLibReq EXCEPT !.st = "sent"]]
        PROVE  /\ "catalog" \in DOMAIN lib' /\ lib'.catalog = l.catalog
               /\ LibRequests(libWire', store)
    <2>1. "catalog" \in DOMAIN lib' /\ lib'.catalog = l.catalog
      BY <1>2
    <2> QED
      BY <1>2, <2>1, LibRequestsFit
  <1>3. \/ lib' = l /\ libWire' = w
        \/ \E s \in Library!Slots :
             /\ lib' = [l EXCEPT !.owner = s]
             /\ libWire' = [w EXCEPT ![s] = [Library!NoLibReq EXCEPT !.st = "sent"]]
    BY DEF Library!Asked, Library!Slots
  <1> QED
    BY <1>1, <1>2, <1>3

\* A step that leaves the list on screen as it is.
LEMMA LibraryStays ==
    ASSUME LibraryInv, LibNew(store'), "catalog" \in DOMAIN lib', lib'.catalog = lib.catalog,
           LibRequests(libWire', store) \/ LibRequests(libWire', store')
    PROVE  LibraryInv' /\ lib'.catalog.rev >= lib.catalog.rev
  <1>1. Copy(lib'.catalog, store) /\ lib'.catalog.rev >= lib.catalog.rev
    BY DEF LibraryInv, Copy, Catalog
  <1> QED
    BY <1>1, LibraryKeeps

LEMMA LibraryReads ==
    ASSUME LibraryInv, Library!ReadSettles
    PROVE  LibraryInv' /\ lib'.catalog.rev >= lib.catalog.rev
  <1>1. PICK s \in Library!Slots :
         /\ lib' = Library!Done(IF libWire[s].st = "answered" THEN Library!Takes(lib, libWire[s].answer)
                                ELSE [lib EXCEPT !.notice = TRUE], s)
         /\ libWire' = [libWire EXCEPT ![s] = Library!NoLibReq]
    BY DEF Library!ReadSettles, Library!Slots
  <1> DEFINE l == IF libWire[s].st = "answered" THEN Library!Takes(lib, libWire[s].answer)
                  ELSE [lib EXCEPT !.notice = TRUE]
  <1>2. "catalog" \in DOMAIN lib /\ Copy(lib.catalog, store) /\ lib.catalog.rev \in Nat
    BY DEF LibraryInv, Copy, Catalog
  <1>3. "catalog" \in DOMAIN l /\ Copy(l.catalog, store) /\ l.catalog.rev >= lib.catalog.rev
    <2>1. CASE libWire[s].st = "answered"
      <3>1. Copy(libWire[s].answer, store)
        BY DEF LibraryInv, LibRequests
      <3> QED
        BY <1>2, <2>1, <3>1, TakesFits
    <2>2. CASE libWire[s].st # "answered"
      <3>1. l = [lib EXCEPT !.notice = TRUE]
        BY <2>2
      <3>2. DOMAIN l = DOMAIN lib /\ l.catalog = lib.catalog
        BY <1>2, <3>1
      <3> QED
        BY <1>2, <3>2
    <2> QED
      BY <2>1, <2>2
  <1> HIDE DEF l
  <1>4. lib' = Library!Done(l, s)
    BY <1>1 DEF l
  <1>5. "catalog" \in DOMAIN lib' /\ lib'.catalog = l.catalog
    BY <1>3, <1>4, DoneFits
  <1>6. LibRequests(libWire', store)
    BY <1>1, LibRequestsFit DEF LibraryInv
  <1>7. LibNew(store')
    BY DEF Library!ReadSettles, LibNew
  <1> QED
    BY <1>3, <1>5, <1>6, <1>7, LibraryKeeps

LEMMA LibraryCommandSettles ==
    ASSUME LibraryInv, Library!CommandSettles
    PROVE  LibraryInv' /\ lib'.catalog.rev >= lib.catalog.rev
  <1> DEFINE w == [libWire EXCEPT !["command"] = Library!NoLibReq]
             m == libWire["command"].cmd
             c == libWire["command"].answer
             l == Library!Done(lib, "command")
             e == [l EXCEPT !.notice = TRUE, !.busy = FALSE]
  <1>1. /\ "catalog" \in DOMAIN lib /\ Copy(lib.catalog, store) /\ lib.catalog.rev \in Nat
        /\ Copy(c, store) /\ LibRequests(w, store) /\ Catalog(store) /\ store.rev >= 1
    <2>1. LibRequests(libWire, store) /\ Catalog(store) /\ store.rev >= 1
          /\ "catalog" \in DOMAIN lib /\ Copy(lib.catalog, store) /\ "command" \in Library!Slots
      BY DEF LibraryInv, Library!Slots
    <2>2. LibRequests(w, store)
      BY <2>1, LibRequestsFit
    <2>3. Copy(c, store)
      BY <2>1 DEF LibRequests
    <2>4. lib.catalog.rev \in Nat
      BY <2>1 DEF Copy, Catalog
    <2> QED
      BY <2>1, <2>2, <2>3, <2>4
  <1>2. LibNew(store')
    BY DEF Library!CommandSettles, LibNew
  <1>3. "catalog" \in DOMAIN l /\ l.catalog = lib.catalog
    BY <1>1, DoneFits
  <1>4. \/ lib' = Library!Followed(l, m, c) /\ libWire' = w
        \/ lib' = e /\ libWire' = w
        \/ Library!Asked(e, w)
    BY DEF Library!CommandSettles
  <1> HIDE DEF w, m, c, l
  <1>5. "catalog" \in DOMAIN e /\ e.catalog = lib.catalog
    BY <1>3
  <1> HIDE DEF e
  <1>6. CASE lib' = Library!Followed(l, m, c) /\ libWire' = w
    <2> DEFINE t == Library!Takes(l, c)
    <2>1. DOMAIN t = DOMAIN l /\ Copy(t.catalog, store) /\ t.catalog.rev >= lib.catalog.rev
      BY <1>1, <1>3, TakesFits
    <2>2. \E a, b, d, f, g : lib' = [t EXCEPT !.editor = a, !.project = b, !.options = d, !.archived = f,
                                              !.pinned = g, !.notice = FALSE, !.busy = FALSE]
      BY <1>6 DEF Library!Followed
    <2> HIDE DEF t
    <2>3. DOMAIN lib' = DOMAIN t /\ lib'.catalog = t.catalog
      BY <1>3, <2>1, <2>2
    <2> QED
      BY <1>1, <1>2, <1>3, <1>6, <2>1, <2>3, LibraryKeeps
  <1>7. CASE lib' = e /\ libWire' = w
    BY <1>1, <1>2, <1>5, <1>7, LibraryStays
  <1>8. CASE Library!Asked(e, w)
    BY <1>1, <1>2, <1>5, <1>8, AskedFits, LibraryStays
  <1> QED
    BY <1>4, <1>6, <1>7, <1>8

\* The service takes a command only on the catalog that was on screen.
LEMMA LibraryServes ==
    ASSUME LibraryInv, Library!LibServes
    PROVE  /\ LibraryInv' /\ lib'.catalog.rev >= lib.catalog.rev
           /\ store' # store => libWire["command"].seen = store
  <1>1. PICK s, x :
         /\ s \in Library!Slots
         /\ \/ store' = store
            \/ /\ s = "command" /\ libWire["command"].based = store.rev
               /\ store' = Library!Applied(store, libWire["command"].cmd)
         /\ libWire' = [libWire EXCEPT ![s].answer = store', ![s].st = x]
    BY DEF Library!LibServes
  <1>2. /\ LibRequests(libWire, store) /\ Catalog(store) /\ store.rev >= 1
        /\ "catalog" \in DOMAIN lib /\ "command" \in Library!Slots
    BY DEF LibraryInv, Library!Slots
  <1>3. PICK t : t = store'
    OBVIOUS
  <1>4. LibNew(t)
    BY <1>1, <1>2, <1>3, AppliedIsNew DEF LibNew
  <1>5. Catalog(t)
    BY <1>2, <1>4 DEF LibNew
  <1>6. LibRequests(libWire, t)
    BY <1>2, <1>4, CopiesStay DEF LibRequests
  <1>7. LibRequests(libWire', t)
    <2>1. libWire' = [libWire EXCEPT ![s].answer = t, ![s].st = x] /\ s \in Library!Slots
      BY <1>1, <1>3
    <2>2. LibRequests([libWire EXCEPT ![s].answer = t, ![s].st = x], t)
      BY <1>5, <1>6, <2>1, LibAnswerFits
    <2> QED
      BY <2>1, <2>2
  <1>8. lib' = lib
    BY DEF Library!LibServes
  <1>9. store' # store => libWire["command"].seen = store
    BY <1>1, <1>2 DEF LibRequests, Copy
  <1> QED
    BY <1>2, <1>3, <1>4, <1>7, <1>8, <1>9, LibraryStays

\* The list never goes back to an older catalog, and a command only changes the catalog
\* that was on screen, whole, when it was given.
LEMMA LibraryGoesOn ==
    ASSUME LibraryInv, Library!LibNext
    PROVE  LibraryInv' /\ Library!FollowsTheCatalog
  <1>1. /\ "catalog" \in DOMAIN lib /\ Copy(lib.catalog, store) /\ LibRequests(libWire, store)
        /\ Catalog(store) /\ store.rev >= 1 /\ LibNew(store) /\ lib.catalog.rev \in Nat
    BY DEF LibraryInv, LibNew, Copy, Catalog
  <1>2. CASE Library!Commands
    <2>1. PICK m : libWire' = [libWire EXCEPT !["command"] =
                      [Library!NoLibReq EXCEPT !.st = "sent", !.cmd = m, !.based = lib.catalog.rev,
                                               !.seen = lib.catalog]]
      BY <1>2 DEF Library!Commands, Library!Basis
    <2>2. LibRequests(libWire', store)
      BY <1>1, <2>1, LibRequestsFit
    <2>3. "catalog" \in DOMAIN lib' /\ lib'.catalog = lib.catalog
      BY <1>1, <1>2 DEF Library!Commands
    <2>4. store' = store
      BY <1>2 DEF Library!Commands
    <2> QED
      BY <1>1, <2>2, <2>3, <2>4, LibraryStays DEF Library!FollowsTheCatalog
  <1>3. CASE Library!ReadSettles
    <2>1. store' = store
      BY <1>3 DEF Library!ReadSettles
    <2> QED
      BY <1>3, <2>1, LibraryReads DEF Library!FollowsTheCatalog
  <1>4. CASE Library!CommandSettles
    <2>1. store' = store
      BY <1>4 DEF Library!CommandSettles
    <2> QED
      BY <1>4, <2>1, LibraryCommandSettles DEF Library!FollowsTheCatalog
  <1>5. CASE Library!LibRefreshes
    <2>1. Library!Asked(lib, libWire) /\ store' = store
      BY <1>5 DEF Library!LibRefreshes
    <2>2. /\ "catalog" \in DOMAIN lib' /\ lib'.catalog = lib.catalog
          /\ LibRequests(libWire', store)
      BY <1>1, <2>1, AskedFits
    <2> QED
      BY <1>1, <2>1, <2>2, LibraryStays DEF Library!FollowsTheCatalog
  <1>6. CASE Library!Snapshot
    <2>1. lib' = Library!Takes(lib, store) /\ store' = store /\ libWire' = libWire
      BY <1>6 DEF Library!Snapshot
    <2>2. Copy(store, store)
      BY <1>1 DEF Copy, Catalog
    <2>3. "catalog" \in DOMAIN lib' /\ Copy(lib'.catalog, store) /\ lib'.catalog.rev >= lib.catalog.rev
      BY <1>1, <2>1, <2>2, TakesFits
    <2> QED
      BY <1>1, <2>1, <2>3, LibraryKeeps DEF Library!FollowsTheCatalog
  <1>7. CASE Library!Clicks
    <2>1. store' = store /\ libWire' = libWire
      BY <1>7 DEF Library!Clicks
    <2>2. "catalog" \in DOMAIN lib' /\ lib'.catalog = lib.catalog
      BY <1>1, <1>7 DEF Library!Clicks
    <2> QED
      BY <1>1, <2>1, <2>2, LibraryStays DEF Library!FollowsTheCatalog
  <1>8. CASE Library!LibServes
    BY <1>8, LibraryServes DEF Library!FollowsTheCatalog
  <1>9. CASE Library!LibBreaks
    <2>1. store' = store /\ lib' = lib
      BY <1>9 DEF Library!LibBreaks
    <2>2. LibRequests(libWire', store)
      <3>1. PICK s \in Library!Slots : libWire' = [libWire EXCEPT ![s].st = "lost"]
        BY <1>9 DEF Library!LibBreaks
      <3>2. LibRequests([libWire EXCEPT ![s].st = "lost"], store)
        BY <1>1, LibRequestsFit
      <3> QED
        BY <3>1, <3>2
    <2> QED
      BY <1>1, <2>1, <2>2, LibraryStays DEF Library!FollowsTheCatalog
  <1>10. CASE Library!OtherCommands
    <2>1. PICK m : store' = Library!Applied(store, m)
      BY <1>10 DEF Library!OtherCommands
    <2>2. lib' = lib /\ libWire' = libWire
      BY <1>10 DEF Library!OtherCommands
    <2>3. LibNew(store')
      BY <1>1, <2>1, AppliedIsNew
    <2>4. LibraryInv' /\ lib'.catalog.rev >= lib.catalog.rev
      BY <1>1, <2>2, <2>3, LibraryStays
    <2>5. Library!LibServes => libWire["command"].seen = store \/ store' = store
      BY LibraryServes
    <2> QED
      BY <2>4, <2>5 DEF Library!FollowsTheCatalog
  <1>11. CASE Library!MayManage
    <2>1. store' = store /\ lib' = lib /\ libWire' = libWire
      BY <1>11 DEF Library!MayManage
    <2> QED
      BY <1>1, <2>1, LibraryStays DEF Library!FollowsTheCatalog
  <1> QED
    BY <1>2, <1>3, <1>4, <1>5, <1>6, <1>7, <1>8, <1>9, <1>10, <1>11 DEF Library!LibNext
-----------------------------------------------------------------------------
(* A step of another part leaves these panels as they are.                  *)

LEMMA ConnectionsStandStill ==
    ASSUME ConnectionsInv, UNCHANGED <<conns, manager, reading, writing, touches>>
    PROVE  ConnectionsInv' /\ Connections!ConnectionsNeverGoBack
  <1>1. ConnectionsInv'
    BY DEF ConnectionsInv, Shown, Mounts, Ordered
  <1>2. manager.shown.rev \in Int
    BY DEF ConnectionsInv, Shown, Managers, Connections!Snapshots
  <1>3. QED
    BY <1>1, <1>2 DEF ConnectionsInv, Mounts, Ordered, Connections!ConnectionsNeverGoBack

LEMMA CapabilitiesStandStill ==
    ASSUME CapabilitiesInv, UNCHANGED <<caps, list, get, put, turns>>
    PROVE  CapabilitiesInv' /\ Capabilities!CapabilitiesNeverGoBack
  <1>1. CapabilitiesInv'
    BY DEF CapabilitiesInv
  <1>2. list.shown.revision \in Int
    BY AnswersFit DEF CapabilitiesInv, CapLists
  <1>3. QED
    BY <1>1, <1>2 DEF Capabilities!CapabilitiesNeverGoBack

LEMMA MailStandsStill ==
    ASSUME MailInv, UNCHANGED <<mail, sources, fetching, posting, moves>>
    PROVE  MailInv' /\ Mail!MailNeverGoesBack
  <1>1. MailInv'
    BY DEF MailInv
  <1>2. sources.shown.rev \in Int
    BY DEF MailInv, MailPanels, Mail!MailSnapshots
  <1>3. QED
    BY <1>1, <1>2 DEF Mail!MailNeverGoesBack

LEMMA LibraryStandsStill ==
    ASSUME LibraryInv, UNCHANGED <<store, lib, libWire, manage, allot>>
    PROVE  LibraryInv' /\ Library!FollowsTheCatalog
  <1>1. LibraryInv'
    BY DEF LibraryInv, Copy, Catalog, LibRequests
  <1>2. lib.catalog.rev \in Nat
    BY DEF LibraryInv, Copy, Catalog
  <1>3. QED
    BY <1>1, <1>2 DEF Library!FollowsTheCatalog

-----------------------------------------------------------------------------
(* WorkflowPanel.                                                           *)

CardRuns == Workflow!Run \cup {Workflow!Idle}
Cards == [run : CardRuns, expanded : BOOLEAN, said : BOOLEAN,
          cancelling : RunIds \cup {NoRun}, dismissed : Seq(RunIds)]

WorkflowTyped ==
    /\ work \in [open : RunChats, runs : [RunChats -> CardRuns]]
    /\ flow \in Cards /\ receipts \in Seq(RunIds)
    /\ waved \in [now : Seq(RunIds), stored : Seq(RunIds)]

\* The receipts are the last dismissals; a run has one place, and goes on from what the card
\* shows of it.
WorkflowInv ==
    /\ WorkflowTyped
    /\ flow.dismissed = Workflow!Latest(waved.now) /\ receipts = Workflow!Latest(waved.stored)
    /\ flow.run.id \notin Names(flow.dismissed)
    /\ \A c \in RunChats :
         /\ work.runs[c].id \in Names(waved.now) \cup Names(waved.stored)
              => work.runs[c].status # "running"
         /\ work.runs[c].id = flow.run.id /\ flow.run.status \in Workflow!Ended
              => work.runs[c].status # "running"
         /\ \A d \in RunChats : work.runs[c].id = work.runs[d].id /\ c # d
                                  => work.runs[c].id = NoRun

LEMMA LatestFits ==
    ASSUME DismissalCap \in Nat \ {0}, NEW s \in Seq(RunIds)
    PROVE  /\ Workflow!Latest(s) \in Seq(RunIds)
           /\ Names(Workflow!Latest(s)) \subseteq Names(s)
           /\ Len(Workflow!Latest(s)) <= DismissalCap
  <1>1. s \in [1 .. Len(s) -> RunIds] /\ Len(s) \in Nat
    OBVIOUS
  <1> QED
    BY <1>1 DEF Workflow!Latest, Names

\* What is kept of the last dismissals and one more is the last of them all.
LEMMA LatestGrows ==
    ASSUME DismissalCap \in Nat \ {0}, NEW s \in Seq(RunIds), NEW r \in RunIds
    PROVE  Workflow!Latest(Append(Workflow!Latest(s), r)) = Workflow!Latest(Append(s, r))
  <1> DEFINE l == Workflow!Latest(s)
             a == Append(s, r)
             b == Append(l, r)
  <1>1. s \in Seq(RunIds) /\ Len(s) \in Nat
    OBVIOUS
  <1>2. CASE ~(Len(s) > DismissalCap)
    <2>1. l = s
      <3>1. l = SubSeq(s, 1, Len(s))
        BY Zenon, <1>2 DEF Workflow!Latest
      <3> HIDE DEF l
      <3> QED
        BY <3>1, SubSeqFull
    <2> QED
      BY <2>1
  <1>3. CASE Len(s) > DismissalCap
    <2> DEFINE k == Len(s) - DismissalCap
    <2>1. k \in Nat /\ k + 1 <= Len(s) /\ l = SubSeq(s, k + 1, Len(s))
      BY <1>1, <1>3 DEF Workflow!Latest
    <2>2. /\ l \in Seq(RunIds) /\ Len(l) = DismissalCap
          /\ \A i \in 1 .. DismissalCap : l[i] = s[k + i]
      BY <1>1, <1>3, <2>1
    <2> HIDE DEF l
    <2>3. /\ b \in Seq(RunIds) /\ Len(b) = DismissalCap + 1
          /\ \A i \in 1 .. DismissalCap : b[i] = l[i]
          /\ b[DismissalCap + 1] = r
      BY <2>2
    <2>4. /\ a \in Seq(RunIds) /\ Len(a) = Len(s) + 1
          /\ \A i \in 1 .. Len(s) : a[i] = s[i]
          /\ a[Len(s) + 1] = r
      BY <1>1
    <2> HIDE DEF a, b
    <2>10. DismissalCap \in Nat /\ Len(s) \in Nat /\ Len(s) > DismissalCap
      BY <1>1, <1>3
    <2>5. Workflow!Latest(b) = SubSeq(b, 2, DismissalCap + 1)
      BY <2>3 DEF Workflow!Latest
    <2>6. Workflow!Latest(a) = SubSeq(a, k + 2, Len(s) + 1)
      <3>1. Len(a) > DismissalCap /\ Len(a) - DismissalCap + 1 = k + 2
        BY <2>4, <2>10
      <3> QED
        BY <2>4, <3>1 DEF Workflow!Latest
    <2>7. /\ SubSeq(b, 2, DismissalCap + 1) \in Seq(RunIds)
          /\ Len(SubSeq(b, 2, DismissalCap + 1)) = DismissalCap
          /\ \A i \in 1 .. DismissalCap : SubSeq(b, 2, DismissalCap + 1)[i] = b[i + 1]
      BY <2>3
    <2>8. /\ SubSeq(a, k + 2, Len(s) + 1) \in Seq(RunIds)
          /\ Len(SubSeq(a, k + 2, Len(s) + 1)) = DismissalCap
          /\ \A i \in 1 .. DismissalCap : SubSeq(a, k + 2, Len(s) + 1)[i] = a[k + i + 1]
      BY <2>1, <2>4
    <2>9. \A i \in 1 .. DismissalCap : b[i + 1] = a[k + i + 1]
      <3> TAKE i \in 1 .. DismissalCap
      <3>1. CASE i = DismissalCap
        BY <2>3, <2>4, <2>10, <3>1
      <3>2. CASE i # DismissalCap
        <4>1. i + 1 \in 1 .. DismissalCap /\ k + i + 1 \in 1 .. Len(s)
              /\ k + (i + 1) = k + i + 1
          BY <2>1, <2>10, <3>2
        <4>2. b[i + 1] = l[i + 1] /\ l[i + 1] = s[k + (i + 1)]
          BY <2>2, <2>3, <4>1
        <4> QED
          BY <2>4, <4>1, <4>2
      <3> QED
        BY <3>1, <3>2
    <2> DEFINE v == SubSeq(b, 2, DismissalCap + 1)
               w == SubSeq(a, k + 2, Len(s) + 1)
    <2>11. \A i \in 1 .. DismissalCap :
             v[i] = w[i]
      <3> TAKE i \in 1 .. DismissalCap
      <3>1. v[i] = b[i + 1]
        BY <2>7
      <3>2. w[i] = a[k + i + 1]
        BY <2>8
      <3> QED
        BY <2>9, <3>1, <3>2
    <2>13. /\ v \in Seq(RunIds) /\ Len(v) = DismissalCap
           /\ w \in Seq(RunIds) /\ Len(w) = DismissalCap
      BY <2>7, <2>8
    <2> HIDE DEF v, w
    <2>12. v = w
      BY <2>11, <2>13, SeqEqual
    <2>14. Workflow!Latest(b) = Workflow!Latest(a)
      BY <2>5, <2>6, <2>12 DEF v, w
    <2> QED
      BY <2>14 DEF a, b, l
  <1> QED
    BY <1>1, <1>2, <1>3
LEMMA NamesAreRange ==
    ASSUME NEW s \in Seq(RunIds)
    PROVE  Workflow!Range(s) = Names(s) /\ Names(s) \subseteq RunIds
  BY DEF Workflow!Range, Names

LEMMA NamesGrow ==
    ASSUME NEW s \in Seq(RunIds), NEW r \in RunIds
    PROVE  Append(s, r) \in Seq(RunIds) /\ Names(Append(s, r)) = Names(s) \cup {r}
  <1> DEFINE w == Append(s, r)
  <1>1. /\ w \in Seq(RunIds) /\ Len(w) = Len(s) + 1 /\ w[Len(s) + 1] = r
        /\ \A i \in 1 .. Len(s) : w[i] = s[i]
        /\ Len(s) \in Nat
    OBVIOUS
  <1> HIDE DEF w
  <1>2. Names(w) = Names(s) \cup {r}
    BY <1>1 DEF Names
  <1> QED
    BY <1>1, <1>2 DEF w

\* A run that the receipts do not name is remembered as the last.
LEMMA RememberedFits ==
    ASSUME DismissalCap \in Nat \ {0}, NEW s \in Seq(RunIds), NEW r \in RunIds,
           r \notin Names(s)
    PROVE  Workflow!Remembered(s, r) = Workflow!Latest(Append(s, r))
  <1>1. Names(s) \subseteq RunIds \ {r}
    BY DEF Names
  <1>2. Workflow!Only(s, RunIds \ {r}) = s
    BY <1>1, OnlyAll DEF Workflow!Only, Only
  <1> QED
    BY <1>2 DEF Workflow!Remembered

\* What a card shows of a run: nothing, or the run, unless that was dismissed.
LEMMA PlacedFits ==
    ASSUME NEW p \in Cards, NEW r \in CardRuns, p.run.id \notin Names(p.dismissed),
           NoRun \notin RunIds
    PROVE  LET q == Workflow!Placed(p, r) IN
           /\ q \in Cards /\ q.dismissed = p.dismissed /\ q.run.id \notin Names(q.dismissed)
           /\ q.run = Workflow!Idle \/ q.run = r
  <1> DEFINE c == Workflow!Cleared(p)
             d == Workflow!Drawn(p, r)
  <1>1. p.dismissed \in Seq(RunIds) /\ Workflow!Idle.id = NoRun
    BY DEF Cards, Workflow!Idle
  <1>2. c \in Cards /\ c.dismissed = p.dismissed /\ c.run = Workflow!Idle
    BY DEF Workflow!Cleared, Cards, CardRuns
  <1>3. d \in Cards /\ d.dismissed = p.dismissed /\ d.run = r
    BY DEF Workflow!Drawn, Cards, CardRuns
  <1>4. c.run.id \notin Names(c.dismissed)
    BY <1>1, <1>2, NamesAreRange
  <1> HIDE DEF c, d
  <1>5. CASE r = Workflow!Idle \/ r.id \in Workflow!Range(p.dismissed)
    BY <1>2, <1>4, <1>5 DEF Workflow!Placed, c
  <1>6. CASE ~(r = Workflow!Idle \/ r.id \in Workflow!Range(p.dismissed))
    <2>1. r.id \notin Names(p.dismissed)
      BY <1>1, <1>6, NamesAreRange
    <2>2. Workflow!Placed(p, r) = d
      BY <1>6 DEF Workflow!Placed, d
    <2> QED
      BY <1>3, <2>1, <2>2
  <1> QED
    BY <1>5, <1>6

LEMMA WorkflowBegins ==
    ASSUME DismissalCap \in Nat \ {0}, NoRun \notin RunIds, RunChats # {},
           Workflow!WorkflowInit
    PROVE  WorkflowInv
  <1>1. /\ work = [open |-> CHOOSE c \in RunChats : TRUE,
                   runs |-> [c \in RunChats |-> Workflow!Idle]]
        /\ flow = Workflow!EmptyCard /\ receipts = <<>>
        /\ waved = [now |-> <<>>, stored |-> <<>>]
    BY DEF Workflow!WorkflowInit
  <1>2. WorkflowTyped
    BY <1>1 DEF WorkflowTyped, Cards, CardRuns, Workflow!EmptyCard
  <1>3. Workflow!Latest(<<>>) = <<>> /\ Names(<<>>) = {}
    BY DEF Workflow!Latest, Names
  <1> QED
    BY <1>1, <1>2, <1>3 DEF WorkflowInv, Workflow!EmptyCard, Workflow!Idle
\* Runs that only go on from where they are change nothing of it.
LEMMA RunsGoOn ==
    ASSUME WorkflowInv, work' \in [open : RunChats, runs : [RunChats -> CardRuns]],
           \A c \in RunChats : /\ work'.runs[c].id = work.runs[c].id
                               /\ work'.runs[c].status = "running" => work.runs[c].status = "running",
           flow' \in Cards, flow'.run = flow.run, flow'.dismissed = flow.dismissed,
           UNCHANGED <<receipts, waved>>
    PROVE  WorkflowInv'
  <1>1. WorkflowTyped'
    BY DEF WorkflowInv, WorkflowTyped
  <1>2. /\ flow'.dismissed = Workflow!Latest(waved'.now)
        /\ receipts' = Workflow!Latest(waved'.stored)
        /\ flow'.run.id \notin Names(flow'.dismissed)
    BY DEF WorkflowInv
  <1>3. ASSUME NEW c \in RunChats
        PROVE  /\ work'.runs[c].id \in Names(waved'.now) \cup Names(waved'.stored)
                    => work'.runs[c].status # "running"
               /\ work'.runs[c].id = flow'.run.id /\ flow'.run.status \in Workflow!Ended
                    => work'.runs[c].status # "running"
               /\ \A d \in RunChats : work'.runs[c].id = work'.runs[d].id /\ c # d
                                        => work'.runs[c].id = NoRun
    BY DEF WorkflowInv
  <1> QED
    BY <1>1, <1>2, <1>3 DEF WorkflowInv

LEMMA WorkflowGoesOn ==
    ASSUME DismissalCap \in Nat \ {0}, NoRun \notin RunIds, WorkflowInv, Workflow!WorkflowNext
    PROVE  WorkflowInv'
  <1>1. /\ work \in [open : RunChats, runs : [RunChats -> CardRuns]] /\ flow \in Cards
        /\ receipts \in Seq(RunIds) /\ waved \in [now : Seq(RunIds), stored : Seq(RunIds)]
        /\ flow.dismissed = Workflow!Latest(waved.now) /\ receipts = Workflow!Latest(waved.stored)
        /\ flow.run.id \notin Names(flow.dismissed)
    BY DEF WorkflowInv, WorkflowTyped
  <1>2. /\ waved.now \in Seq(RunIds) /\ waved.stored \in Seq(RunIds) /\ flow.dismissed \in Seq(RunIds)
        /\ \A c \in RunChats : work.runs[c] \in CardRuns
        /\ work.open \in RunChats /\ flow.run \in CardRuns
    BY <1>1 DEF Cards
  <1>3. \A r \in CardRuns : /\ r.id = NoRun => r.status = "none"
                            /\ r # Workflow!Idle => r.id \in RunIds
                            /\ r.status \in Workflow!Ended => r # Workflow!Idle /\ r.status # "running"
    BY DEF CardRuns, Workflow!Run, Workflow!Idle, Workflow!Ended
  <1>4. CASE Workflow!CardUpdates
    <2> DEFINE r == work.runs[work.open]
    <2>1. /\ flow' = Workflow!Placed(flow, r)
          /\ work' = work /\ receipts' = receipts /\ waved' = waved
      BY <1>4 DEF Workflow!CardUpdates
    <2>2. /\ flow' \in Cards /\ flow'.dismissed = flow.dismissed
          /\ flow'.run.id \notin Names(flow'.dismissed)
          /\ flow'.run = Workflow!Idle \/ flow'.run = r
      BY <1>1, <1>2, <2>1, PlacedFits
    <2>3. ASSUME NEW c \in RunChats, work.runs[c].id = flow'.run.id,
                 flow'.run.status \in Workflow!Ended
          PROVE  work.runs[c].status # "running"
      <3>1. flow'.run = r
        BY <1>3, <2>2, <2>3 DEF Cards
      <3>2. CASE c = work.open
        BY <1>2, <1>3, <2>3, <3>1, <3>2
      <3>3. CASE c # work.open
        <4>1. work.runs[c].id = NoRun
          BY <1>2, <2>3, <3>1, <3>3 DEF WorkflowInv
        <4> QED
          BY <1>2, <1>3, <4>1
      <3> QED
        BY <3>2, <3>3
    <2> QED
      BY <1>1, <2>1, <2>2, <2>3 DEF WorkflowInv, WorkflowTyped
  <1>5. CASE Workflow!Dismisses
    <2> DEFINE n == Workflow!Remembered(flow.dismissed, flow.run.id)
               w == Append(waved.now, flow.run.id)
    <2>1. PICK ok \in BOOLEAN :
            /\ flow.run.status \in Workflow!Ended /\ work' = work
            /\ flow' = [Workflow!Cleared(flow) EXCEPT !.dismissed = n]
            /\ receipts' = IF ok THEN n ELSE receipts
            /\ waved' = [now |-> w, stored |-> IF ok THEN w ELSE waved.stored]
      BY <1>5 DEF Workflow!Dismisses, Workflow!OffersDismiss
    <2>2. flow.run.id \in RunIds
      BY <1>2, <1>3, <2>1
    <2>3. w \in Seq(RunIds) /\ Names(w) = Names(waved.now) \cup {flow.run.id}
      BY <1>2, <2>2, NamesGrow
    <2>4. n = Workflow!Latest(w)
      BY <1>1, <1>2, <2>2, RememberedFits, LatestGrows
    <2>5. n \in Seq(RunIds) /\ NoRun \notin Names(n)
      <3>1. n \in Seq(RunIds)
        BY <2>3, <2>4, LatestFits
      <3> HIDE DEF n
      <3> QED
        BY <3>1, NamesAreRange
    <2> HIDE DEF n, w
    <2>6. flow' \in Cards /\ flow'.dismissed = n /\ flow'.run = Workflow!Idle
      BY <1>1, <2>1, <2>5 DEF Workflow!Cleared, Cards, CardRuns
    <2>7. /\ waved' \in [now : Seq(RunIds), stored : Seq(RunIds)]
          /\ waved'.now = w /\ waved'.stored \in {w, waved.stored}
          /\ receipts' \in Seq(RunIds) /\ receipts' = Workflow!Latest(waved'.stored)
      BY <1>1, <1>2, <2>1, <2>3, <2>4, <2>5
    <2>8. Workflow!Idle.id = NoRun /\ Workflow!Idle.status \notin Workflow!Ended
      BY DEF Workflow!Idle, Workflow!Ended
    <2>9. ASSUME NEW c \in RunChats, work.runs[c].id \in Names(waved'.now) \cup Names(waved'.stored)
          PROVE  work.runs[c].status # "running"
      BY <2>1, <2>3, <2>7, <2>9 DEF WorkflowInv
    <2> QED
      BY <1>1, <2>1, <2>4, <2>5, <2>6, <2>7, <2>8, <2>9 DEF WorkflowInv, WorkflowTyped
  <1>6. CASE Workflow!Expands \/ Workflow!StopsRun
    <2>1. /\ flow' \in Cards /\ flow'.run = flow.run /\ flow'.dismissed = flow.dismissed
          /\ work' = work /\ receipts' = receipts /\ waved' = waved
      <3>1. CASE Workflow!Expands
        BY <1>1, <3>1 DEF Workflow!Expands, Cards
      <3>2. CASE Workflow!StopsRun
        <4>1. flow.run.status = "running"
          BY <3>2 DEF Workflow!StopsRun, Workflow!OffersStop
        <4>2. flow.run.id \in RunIds
          BY <1>2, <1>3, <4>1 DEF Workflow!Idle
        <4> QED
          BY <1>1, <3>2, <4>2 DEF Workflow!StopsRun, Cards
      <3> QED
        BY <1>6, <3>1, <3>2
    <2> QED
      BY <1>1, <2>1, RunsGoOn
  <1>7. CASE Workflow!StopAnswers
    <2>1. /\ flow' \in Cards /\ flow'.run = flow.run /\ flow'.dismissed = flow.dismissed
          /\ receipts' = receipts /\ waved' = waved
      BY <1>1, <1>7 DEF Workflow!StopAnswers, Cards
    <2>2. CASE work' = work
      BY <1>1, <2>1, <2>2, RunsGoOn
    <2>3. CASE \E c \in RunChats : /\ work.runs[c].status = "running"
                                   /\ work' = [work EXCEPT !.runs[c].status = "cancelled"]
      <3>1. PICK c \in RunChats : /\ work.runs[c].status = "running"
                                  /\ work' = [work EXCEPT !.runs[c].status = "cancelled"]
        BY <2>3
      <3>2. work.runs[c] \in Workflow!Run
        BY <1>2, <3>1 DEF CardRuns, Workflow!Idle
      <3>3. [work.runs[c] EXCEPT !.status = "cancelled"] \in CardRuns
        BY <3>2 DEF CardRuns, Workflow!Run, Workflow!Ended
      <3>4. work' = [open |-> work.open, runs |-> [work.runs EXCEPT
                       ![c] = [work.runs[c] EXCEPT !.status = "cancelled"]]]
        BY <1>1, <3>1
      <3>5. work' \in [open : RunChats, runs : [RunChats -> CardRuns]]
        BY <1>1, <3>3, <3>4
      <3>6. \A d \in RunChats : /\ work'.runs[d].id = work.runs[d].id
                                /\ work'.runs[d].status = "running" => work.runs[d].status = "running"
        BY <1>1, <3>1, <3>2, <3>4 DEF Workflow!Run
      <3> QED
        BY <1>1, <2>1, <3>5, <3>6, RunsGoOn
    <2> QED
      BY <1>7, <2>2, <2>3 DEF Workflow!StopAnswers
  <1>8. CASE Workflow!ReloadsCard
    <2>1. /\ flow' = [Workflow!EmptyCard EXCEPT !.dismissed = receipts]
          /\ waved' = [waved EXCEPT !.now = waved.stored] /\ work' = work /\ receipts' = receipts
      BY <1>8 DEF Workflow!ReloadsCard, Workflow!FromReceipts
    <2>2. flow' \in Cards /\ flow'.dismissed = receipts /\ flow'.run = Workflow!Idle
      BY <1>1, <2>1 DEF Cards, CardRuns, Workflow!EmptyCard
    <2>3. /\ waved' \in [now : Seq(RunIds), stored : Seq(RunIds)]
          /\ waved'.now = waved.stored /\ waved'.stored = waved.stored
      BY <1>1, <2>1
    <2>4. Workflow!Idle.id = NoRun /\ Workflow!Idle.status \notin Workflow!Ended
      BY DEF Workflow!Idle, Workflow!Ended
    <2>5. NoRun \notin Names(receipts)
      BY <1>1, NamesAreRange
    <2> QED
      BY <1>1, <2>1, <2>2, <2>3, <2>4, <2>5 DEF WorkflowInv, WorkflowTyped
  <1>9. CASE Workflow!RunStarts
    <2>1. PICK r \in RunIds :
            /\ \A c \in RunChats : work.runs[c].id # r
            /\ r \notin Names(waved.now) \cup Names(waved.stored) /\ flow.run.id # r
            /\ work' = [work EXCEPT !.runs[work.open] =
                          [id |-> r, status |-> "running", steps |-> "none"]]
      BY <1>2, <1>9, NamesAreRange DEF Workflow!RunStarts
    <2> DEFINE q == [id |-> r, status |-> "running", steps |-> "none"]
    <2>2. q \in CardRuns /\ q.id = r
      BY DEF CardRuns, Workflow!Run
    <2>3. work' = [open |-> work.open, runs |-> [work.runs EXCEPT ![work.open] = q]]
      BY <1>1, <2>1
    <2> HIDE DEF q
    <2>4. work' \in [open : RunChats, runs : [RunChats -> CardRuns]]
      BY <1>1, <2>2, <2>3
    <2>5. /\ work'.runs[work.open] = q
          /\ \A c \in RunChats \ {work.open} : work'.runs[c] = work.runs[c]
      BY <1>1, <2>3
    <2>6. flow' = flow /\ receipts' = receipts /\ waved' = waved
      BY <1>9 DEF Workflow!RunStarts
    <2>7. ASSUME NEW c \in RunChats
          PROVE  /\ work'.runs[c].id \in Names(waved.now) \cup Names(waved.stored)
                      => work'.runs[c].status # "running"
                 /\ work'.runs[c].id = flow.run.id /\ flow.run.status \in Workflow!Ended
                      => work'.runs[c].status # "running"
      BY <2>1, <2>2, <2>5 DEF WorkflowInv
    <2>8. ASSUME NEW c \in RunChats, NEW d \in RunChats,
                 work'.runs[c].id = work'.runs[d].id, c # d
          PROVE  work'.runs[c].id = NoRun
      <3>1. CASE c = work.open \/ d = work.open
        BY <2>1, <2>2, <2>5, <2>8, <3>1
      <3>2. CASE c # work.open /\ d # work.open
        BY <2>5, <2>8, <3>2 DEF WorkflowInv
      <3> QED
        BY <3>1, <3>2
    <2> QED
      BY <1>1, <2>4, <2>6, <2>7, <2>8 DEF WorkflowInv, WorkflowTyped
  <1>10. CASE Workflow!RunGoesOn
    <2> DEFINE r == work.runs[work.open]
    <2>1. PICK s \in {"running", "done"}, t \in {"running", "completed", "failed"} :
            work' = [work EXCEPT !.runs[work.open].steps = s, !.runs[work.open].status = t]
      BY <1>10 DEF Workflow!RunGoesOn
    <2>2. r.status = "running" /\ flow' = flow /\ receipts' = receipts /\ waved' = waved
      BY <1>10 DEF Workflow!RunGoesOn
    <2>3. r \in Workflow!Run
      BY <1>2, <2>2 DEF CardRuns, Workflow!Idle
    <2> DEFINE q == [id |-> r.id, status |-> t, steps |-> s]
    <2>4. q \in CardRuns
      BY <2>3 DEF CardRuns, Workflow!Run, Workflow!Ended
    <2>5. work' = [open |-> work.open, runs |-> [work.runs EXCEPT ![work.open] = q]]
      <3>1. q = [[r EXCEPT !.steps = s] EXCEPT !.status = t]
        <4>1. PICK x \in Workflow!Run : x = r
          BY <2>3
        <4>2. [id |-> x.id, status |-> t, steps |-> s]
                  = [[x EXCEPT !.steps = s] EXCEPT !.status = t]
          <5>1. PICK i, u, v : x = [id |-> i, status |-> u, steps |-> v]
            BY DEF Workflow!Run
          <5>2. [x EXCEPT !.steps = s] = [id |-> i, status |-> u, steps |-> s]
            BY <5>1
          <5>3. [[id |-> i, status |-> u, steps |-> s] EXCEPT !.status = t]
                    = [id |-> i, status |-> t, steps |-> s]
            OBVIOUS
          <5>4. x.id = i
            BY <5>1
          <5> QED
            BY Zenon, <5>2, <5>3, <5>4
        <4> QED
          BY <4>1, <4>2
      <3>2. work' = [open |-> work.open, runs |-> [work.runs EXCEPT
                       ![work.open] = [[r EXCEPT !.steps = s] EXCEPT !.status = t]]]
        BY <1>1, <2>1
      <3> QED
        BY <3>1, <3>2
    <2>6. work' \in [open : RunChats, runs : [RunChats -> CardRuns]]
      BY <1>1, <2>4, <2>5
    <2>7. \A d \in RunChats : /\ work'.runs[d].id = work.runs[d].id
                              /\ work'.runs[d].status = "running" => work.runs[d].status = "running"
      BY <1>1, <2>2, <2>5
    <2> QED
      BY <1>1, <2>2, <2>6, <2>7, RunsGoOn
  <1>11. CASE Workflow!OpensChat
    <2>1. /\ work' \in [open : RunChats, runs : [RunChats -> CardRuns]] /\ work'.runs = work.runs
          /\ flow' = flow /\ receipts' = receipts /\ waved' = waved
      BY <1>1, <1>11 DEF Workflow!OpensChat
    <2> QED
      BY <1>1, <2>1, RunsGoOn
  <1> QED
    BY <1>4, <1>5, <1>6, <1>7, <1>8, <1>9, <1>10, <1>11 DEF Workflow!WorkflowNext

LEMMA WorkflowStandsStill ==
    ASSUME WorkflowInv, UNCHANGED <<work, flow, receipts, waved, shows>>
    PROVE  WorkflowInv'
  BY DEF WorkflowInv, WorkflowTyped

LEMMA Dismissed ==
    ASSUME DismissalCap \in Nat \ {0}, WorkflowInv
    PROVE  Workflow!DismissedStaysAway
  <1>1. waved.now \in Seq(RunIds) /\ waved \in [now : Seq(RunIds), stored : Seq(RunIds)]
    BY DEF WorkflowInv, WorkflowTyped
  <1>2. Workflow!Latest(waved.now) \in Seq(RunIds)
    BY <1>1, LatestFits
  <1> QED
    BY <1>1, <1>2, NamesAreRange DEF WorkflowInv, Workflow!DismissedStaysAway

-----------------------------------------------------------------------------
(* CheckInSurface.                                                          *)

Events == Surface!Events

SurfaceBounds ==
    /\ MaxEvents \in Nat /\ MaxSeen \in Nat /\ MaxAlerted \in Nat /\ MaxAlerted <= MaxEvents
    /\ MaxEvents <= MaxSeen
    /\ NoConvo \notin Convos /\ Convos # {}

SurfaceTyped ==
    /\ kind \in {"overlay", "alert"}
    /\ said \in [Convos -> Seq(Events)] /\ convo \in Convos
    /\ poll \in [busy : BOOLEAN, said : Seq(Events), convo : Convos \cup {NoConvo},
                 eligible : SUBSET Events]
    /\ pol \in [enabled : BOOLEAN, seen : Seq(Events), baseline : BOOLEAN,
                convo : Convos \cup {NoConvo}]
    /\ saved \in [enabled : BOOLEAN, seen : Seq(Events)]
    /\ eligible \in SUBSET Events
    /\ focused \in BOOLEAN
    /\ over \in [payload : {"none", "check_in", "preview"}, ready : BOOLEAN]
    /\ alerts \in SUBSET (Events \cup {Surface!None})
    /\ shown \in [Events -> Nat]
    /\ old \in [convo : Convos \cup {NoConvo}, found : SUBSET Events]

\* Announced once, or found when the policy began to watch its conversation.
Known(e) == shown[e] > 0 \/ e \in old.found

NoneTwice ==
    /\ \A c \in Convos : Distinct(said[c])
    /\ Distinct(poll.said) /\ Distinct(pol.seen) /\ Distinct(saved.seen)

\* What is known is in every later poll of its conversation, and seen by the policy that
\* watches it.
SurfaceInv ==
    /\ SurfaceTyped /\ NoneTwice
    /\ \E k \in 0 .. MaxEvents : Surface!Delivered = 1 .. k
    /\ \A e \in Events : shown[e] <= 1 /\ (Known(e) => e \in Surface!Delivered)
    /\ poll.busy =>
         /\ poll.convo \in Convos
         /\ Names(poll.said) \subseteq Names(said[poll.convo])
         /\ \A e \in Names(said[poll.convo]) : Known(e) => e \in Names(poll.said)
    /\ ~pol.baseline =>
         /\ pol.convo \in Convos /\ old.convo = pol.convo
         /\ \A e \in Names(said[pol.convo]) : Known(e) => e \in Names(pol.seen)
    /\ focused => over.payload # "check_in"
    /\ ~pol.enabled => alerts = {}

LEMMA KeysAreNames ==
    ASSUME NEW T, NEW s \in Seq(T)
    PROVE  Surface!Keys(s) = Names(s)
  BY DEF Surface!Keys, Names

LEMMA SameCardinality ==
    ASSUME NEW S
    PROVE  Surface!Cardinality(S) = Cardinality(S)
  BY DEF Surface!Cardinality, Cardinality

LEMMA SameOnly ==
    ASSUME NEW s, NEW S
    PROVE  Surface!Only(s, S) = Only(s, S)
  BY DEF Surface!Only, Only

\* The list of seen keys takes every key it is given, and forgets none.
LEMMA MarkedKeepsAll ==
    ASSUME SurfaceBounds, NEW s \in Seq(Events), NEW t \in Seq(Events), Distinct(s), Distinct(t)
    PROVE  /\ Surface!Marked(s, t) \in Seq(Events) /\ Distinct(Surface!Marked(s, t))
           /\ Names(Surface!Marked(s, t)) = Names(s) \cup Names(t)
  <1> DEFINE new == Only(t, Events \ Names(s))
             all == s \o new
  <1>1. /\ new \in Seq(Events) /\ Names(new) = Names(t) \cap (Events \ Names(s))
        /\ Distinct(new)
    BY OnlyFacts
  <1>2. Names(t) \subseteq Events
    BY DEF Names
  <1> HIDE DEF new
  <1>3. all \in Seq(Events) /\ Names(all) = Names(s) \cup Names(t) /\ Distinct(all)
    BY <1>1, <1>2, DistinctJoins
  <1>4. Len(all) <= MaxSeen
    <2>1. Len(all) <= MaxEvents
      <3> HIDE DEF all
      <3>1. QED
        BY <1>3, DistinctFits DEF SurfaceBounds, Events, Surface!Events
    <2>2. QED
      BY <1>3, <2>1 DEF SurfaceBounds
  <1>5. Surface!Marked(s, t) = all
    <2>1. Surface!Only(t, Surface!Events \ Surface!Keys(s)) = new
      BY SameOnly, KeysAreNames DEF new, Events
    <2>2. Surface!Marked(s, t) = Surface!Newest(MaxSeen, all)
      BY <2>1 DEF Surface!Marked
    <2> HIDE DEF all
    <2>3. QED
      BY <1>4, <2>2 DEF Surface!Newest
  <1>6. QED
    BY <1>3, <1>5

LEMMA SurfaceBegins ==
    ASSUME SurfaceBounds, Surface!SurfaceInit
    PROVE  SurfaceInv
  <1> USE DEF Surface!SurfaceInit
  <1>1. SurfaceTyped
    <2>1. (CHOOSE c \in Convos : TRUE) \in Convos
      BY DEF SurfaceBounds
    <2>2. <<>> \in Seq(Events)
      OBVIOUS
    <2>3. QED
      BY <2>1, <2>2 DEF SurfaceTyped, Surface!NoPoll, Surface!NoOver, Surface!NeverSaved, Events
  <1>2. NoneTwice
    BY DEF NoneTwice, Distinct, Surface!NoPoll, Surface!NeverSaved
  <1>3. Surface!Delivered = 1 .. 0
    BY DEF Surface!Delivered, Surface!Keys
  <1>4. \A e \in Events : ~Known(e) /\ shown[e] = 0
    BY DEF Known, Events
  <1>5. QED
    BY <1>1, <1>2, <1>3, <1>4 DEF SurfaceInv, SurfaceBounds, Surface!NoPoll
\* What nothing but the announcement depends on: the window, the overlay, the alerts.
LEMMA OutsideStays ==
    ASSUME SurfaceInv, UNCHANGED <<kind, said, convo, eligible, poll, pol, saved, shown, old>>,
           focused' \in BOOLEAN, alerts' \in SUBSET (Events \cup {Surface!None}),
           over' \in [payload : {"none", "check_in", "preview"}, ready : BOOLEAN],
           focused' => over'.payload # "check_in", ~pol.enabled => alerts' = {}
    PROVE  SurfaceInv'
  <1>1. SurfaceTyped' /\ NoneTwice'
    BY DEF SurfaceInv, SurfaceTyped, NoneTwice, Events, Surface!Events, Surface!None
  <1>2. Surface!Delivered' = Surface!Delivered /\ \A e : Known(e)' <=> Known(e)
    BY DEF Surface!Delivered, Known
  <1>3. QED
    BY <1>1, <1>2 DEF SurfaceInv, Events, Surface!Events

LEMMA SurfaceOutside ==
    ASSUME SurfaceInv, Surface!FocusChanges \/ Surface!AlertTested \/ Surface!AlertEnds
                       \/ Surface!PreviewOverlay \/ Surface!OverlayReady \/ Surface!OverlayEnds
                       \/ Surface!OverlayLoads
    PROVE  SurfaceInv'
  <1>1. /\ focused \in BOOLEAN /\ alerts \in SUBSET (Events \cup {Surface!None})
        /\ over \in [payload : {"none", "check_in", "preview"}, ready : BOOLEAN]
        /\ focused => over.payload # "check_in"
        /\ ~pol.enabled => alerts = {}
    BY DEF SurfaceInv, SurfaceTyped
  <1> DEFINE Still == UNCHANGED <<kind, said, convo, eligible, poll, pol, saved, shown, old>>
             Overs == [payload : {"none", "check_in", "preview"}, ready : BOOLEAN]
             Quiet == focused' \in BOOLEAN /\ over' \in Overs /\ (focused' => over'.payload # "check_in")
             Off == alerts' \in SUBSET (Events \cup {Surface!None}) /\ (~pol.enabled => alerts' = {})
  <1> USE DEF Surface!serviceVars, Surface!ShowsWindow, Surface!ClosesOverlay
  <1>2. Surface!NoOver \in Overs /\ Surface!NoOver.payload # "check_in"
    BY DEF Surface!NoOver
  <1>3. /\ [over EXCEPT !.ready = TRUE] \in Overs /\ [over EXCEPT !.ready = TRUE].payload = over.payload
        /\ [over EXCEPT !.payload = "preview"] \in Overs
        /\ [over EXCEPT !.payload = "preview"].payload # "check_in"
        /\ [payload |-> "preview", ready |-> FALSE] \in Overs
        /\ [payload |-> "preview", ready |-> FALSE].payload # "check_in"
    BY <1>1
  <1> HIDE DEF Overs
  <1>4. Quiet
    <2>1. over \in Overs
      BY <1>1 DEF Overs
    <2>2. CASE UNCHANGED <<focused, over>>
      BY <1>1, <2>1, <2>2
    <2>3. CASE focused' \in BOOLEAN /\ over' = Surface!NoOver
      BY <1>2, <2>3
    <2>4. CASE focused' = focused /\ over' = [over EXCEPT !.ready = TRUE]
      BY <1>1, <1>3, <2>4
    <2>5. CASE focused' = focused /\ over' \in {[over EXCEPT !.payload = "preview"], [payload |-> "preview", ready |-> FALSE]}
      BY <1>1, <1>3, <2>5
    <2>6. CASE focused' = FALSE /\ over' = over
      BY <2>1, <2>6
    <2>7. QED
      <3> HIDE DEF Quiet
      <3>1. CASE Surface!FocusChanges
        BY <1>1, <2>2, <2>3, <2>6, <3>1 DEF Surface!FocusChanges
      <3>2. CASE Surface!AlertTested
        BY <2>2, <3>2 DEF Surface!AlertTested
      <3>3. CASE Surface!AlertEnds
        BY <2>2, <2>3, <3>3 DEF Surface!AlertEnds
      <3>4. CASE Surface!PreviewOverlay
        BY <2>5, <3>4 DEF Surface!PreviewOverlay, Surface!Presents
      <3>5. CASE Surface!OverlayReady
        BY <2>4, <3>5 DEF Surface!OverlayReady
      <3>6. CASE Surface!OverlayEnds
        BY <1>1, <2>3, <3>6 DEF Surface!OverlayEnds
      <3>7. CASE Surface!OverlayLoads
        BY <1>1, <2>2, <2>3, <3>7 DEF Surface!OverlayLoads
      <3>8. QED
        BY <3>1, <3>2, <3>3, <3>4, <3>5, <3>6, <3>7
  <1>5. Still /\ Off
    BY <1>1 DEF Surface!FocusChanges, Surface!AlertTested, Surface!AlertEnds, Surface!PreviewOverlay,
       Surface!OverlayReady, Surface!OverlayEnds, Surface!OverlayLoads
  <1>6. QED
    BY <1>4, <1>5, OutsideStays DEF Overs

LEMMA SurfaceDelivers ==
    ASSUME SurfaceBounds, SurfaceInv, Surface!Delivers
    PROVE  SurfaceInv'
  <1> DEFINE D == Surface!Delivered
             e == Cardinality(D) + 1
             new == Append(said[convo], e)
  <1>1. PICK k \in 0 .. MaxEvents : D = 1 .. k
    BY DEF SurfaceInv
  <1>2. Cardinality(D) = k
    <2>1. k \in Nat /\ 1 \in Int
      BY DEF SurfaceBounds
    <2>2. Cardinality(1 .. k) = IF 1 > k THEN 0 ELSE k - 1 + 1
      BY <2>1, FS_Interval
    <2>3. QED
      BY <1>1, <2>1, <2>2
  <1> HIDE DEF D
  <1>3. /\ SurfaceTyped /\ NoneTwice /\ said[convo] \in Seq(Events) /\ convo \in Convos
        /\ said \in [Convos -> Seq(Events)]
    BY DEF SurfaceInv, SurfaceTyped
  <1>4. e = k + 1 /\ e \in Events /\ e \notin D /\ k + 1 \in 0 .. MaxEvents
    <2>1. k < IF kind = "overlay" THEN MaxEvents ELSE MaxAlerted
      BY <1>2, SameCardinality DEF Surface!Delivers, D
    <2>2. k < MaxEvents /\ k \in Nat /\ MaxEvents \in Nat
      BY <1>1, <2>1 DEF SurfaceBounds
    <2>3. QED
      BY <1>1, <1>2, <2>2 DEF Events, Surface!Events
  <1> HIDE DEF e
  <1>5. /\ new \in Seq(Events) /\ Len(new) = Len(said[convo]) + 1 /\ new[Len(new)] = e
        /\ Len(said[convo]) \in Nat /\ \A i \in 1 .. Len(said[convo]) : new[i] = said[convo][i]
    BY <1>3, <1>4
  <1>6. 1 .. Len(new) = (1 .. Len(said[convo])) \cup {Len(new)}
    BY <1>5
  <1>7. \A c \in Convos : Names(said[c]) \subseteq D
    BY <1>3, KeysAreNames DEF D, Surface!Delivered
  <1> HIDE DEF new
  <1>8. Names(new) = Names(said[convo]) \cup {e}
    BY <1>5, <1>6 DEF Names
  <1>9. Distinct(new)
    <2>1. e \notin Names(said[convo]) /\ Distinct(said[convo])
      BY <1>3, <1>4, <1>7 DEF NoneTwice
    <2>2. QED
      BY <1>5, <1>6, <2>1 DEF Distinct, Names
  <1>10. /\ said' = [said EXCEPT ![convo] = new] /\ eligible' = eligible \cup {e}
         /\ UNCHANGED <<kind, convo, poll, pol, saved, focused, over, loads, alerts, shown, old>>
    <2>1. /\ said' = [said EXCEPT ![convo] = Append(@, Cardinality(Surface!Delivered) + 1)]
          /\ eligible' = eligible \cup {Cardinality(Surface!Delivered) + 1}
          /\ UNCHANGED <<kind, convo, poll, pol, saved, focused, over, loads, alerts, shown, old>>
      BY SameCardinality DEF Surface!Delivers
    <2>2. [said EXCEPT ![convo] = Append(@, e)] = [said EXCEPT ![convo] = new]
      BY <1>3 DEF new
    <2>3. QED
      BY <2>1, <2>2 DEF e, D
  <1>11. \A c \in Convos : said'[c] = IF c = convo THEN new ELSE said[c]
    BY <1>3, <1>10
  <1>12. SurfaceTyped' /\ NoneTwice'
    BY <1>3, <1>4, <1>5, <1>9, <1>10, <1>11 DEF SurfaceTyped, NoneTwice, Events, Surface!Events
  <1>13. Surface!Delivered' = D \cup {e}
    <2>1. \A c \in Convos : Surface!Keys(said'[c]) = Names(said'[c])
      BY <1>3, <1>5, <1>11, KeysAreNames
    <2>2. \A c \in Convos : Surface!Keys(said[c]) = Names(said[c])
      BY <1>3, KeysAreNames
    <2>3. \A c \in Convos : Names(said'[c]) = Names(said[c]) \cup (IF c = convo THEN {e} ELSE {})
      BY <1>8, <1>11
    <2>4. /\ D = UNION {Surface!Keys(said[c]) : c \in Convos}
          /\ Surface!Delivered' = UNION {Surface!Keys(said'[c]) : c \in Convos}
      BY DEF D, Surface!Delivered
    <2>5. \A x : x \in D <=> \E c \in Convos : x \in Names(said[c])
      BY <2>2, <2>4
    <2>6. \A x : x \in Surface!Delivered' <=> \E c \in Convos : x \in Names(said'[c])
      BY <2>1, <2>4
    <2>7. \A x : x \in Surface!Delivered' <=> x \in D \/ x = e
      BY <1>3, <2>3, <2>5, <2>6
    <2>8. QED
      BY <2>7
  <1>14. D \cup {e} = 1 .. k + 1
    BY <1>1, <1>4
  <1>15. ~Known(e) /\ \A x : Known(x)' <=> Known(x)
    BY <1>4, <1>10 DEF SurfaceInv, Known, D
  <1>16. \A c \in Convos : Names(said[c]) \subseteq Names(said'[c])
                           /\ Names(said'[c]) \subseteq Names(said[c]) \cup {e}
    BY <1>8, <1>11
  <1>17. QED
    BY <1>4, <1>10, <1>12, <1>13, <1>14, <1>15, <1>16 DEF SurfaceInv, D, Events, Surface!Events
\* Steps that leave what was said, what is known and every list of keys as they are.
LEMMA KnownStays ==
    ASSUME SurfaceInv, UNCHANGED <<said, shown, old.found>>
    PROVE  /\ Surface!Delivered' = Surface!Delivered
           /\ \A e : Known(e)' <=> Known(e)
           /\ \A e \in Events' : shown'[e] <= 1 /\ (Known(e)' => e \in Surface!Delivered')
           /\ \E k \in 0 .. MaxEvents : Surface!Delivered' = 1 .. k
  <1>1. Surface!Delivered' = Surface!Delivered /\ \A e : Known(e)' <=> Known(e)
    BY DEF Surface!Delivered, Known
  <1>2. QED
    BY <1>1 DEF SurfaceInv, Events, Surface!Events

LEMMA SurfaceTurns ==
    ASSUME SurfaceInv, Surface!EligibilityEnds
    PROVE  SurfaceInv'
  <1>1. UNCHANGED <<said, shown, old.found>>
    BY DEF Surface!EligibilityEnds
  <1>2. SurfaceTyped' /\ NoneTwice'
    <2>1. /\ convo' \in Convos /\ eligible' \in SUBSET Events
          /\ UNCHANGED <<kind, said, poll, pol, saved, focused, over, loads, alerts, shown, old>>
      BY DEF SurfaceInv, SurfaceTyped, Surface!EligibilityEnds
    <2>2. QED
      BY <2>1 DEF SurfaceInv, SurfaceTyped, NoneTwice, Events, Surface!Events, Surface!None
  <1>3. QED
    BY <1>1, <1>2, KnownStays DEF SurfaceInv, Surface!EligibilityEnds

LEMMA SurfacePolls ==
    ASSUME SurfaceBounds, SurfaceInv, Surface!PollBegins
    PROVE  SurfaceInv'
  <1> USE DEF Surface!PollBegins, Surface!serviceVars
  <1>1. UNCHANGED <<said, shown, old.found>>
    OBVIOUS
  <1>2. said[convo] \in Seq(Events) /\ Distinct(said[convo]) /\ convo \in Convos
    BY DEF SurfaceInv, SurfaceTyped, NoneTwice
  <1>3. Len(said[convo]) <= MaxSeen
    <2>1. Len(said[convo]) <= MaxEvents
      BY <1>2, DistinctFits DEF SurfaceBounds, Events, Surface!Events
    <2>2. QED
      BY <1>2, <2>1 DEF SurfaceBounds
  <1>4. poll' = [busy |-> TRUE, said |-> said[convo], convo |-> convo,
                 eligible |-> eligible \cap Surface!Keys(said[convo])]
    BY <1>3 DEF Surface!Newest
  <1>5. SurfaceTyped' /\ NoneTwice'
    <2>1. /\ poll' \in [busy : BOOLEAN, said : Seq(Events), convo : Convos \cup {NoConvo},
                        eligible : SUBSET Events]
          /\ Distinct(poll'.said)
      <3>1. eligible \in SUBSET Events
        BY DEF SurfaceInv, SurfaceTyped
      <3>2. QED
        BY <1>2, <1>4, <3>1
    <2>2. UNCHANGED <<kind, said, convo, eligible, pol, saved, focused, over, loads, alerts, shown, old>>
      OBVIOUS
    <2>3. QED
      BY <2>1, <2>2 DEF SurfaceInv, SurfaceTyped, NoneTwice, Events, Surface!Events, Surface!None
  <1>6. QED
    BY <1>1, <1>2, <1>4, <1>5, KnownStays DEF SurfaceInv

LEMMA SurfacePollFails ==
    ASSUME SurfaceInv, Surface!PollFails
    PROVE  SurfaceInv'
  <1> USE DEF Surface!PollFails, Surface!serviceVars, Surface!NoPoll
  <1>1. UNCHANGED <<said, shown, old.found>> /\ Distinct(<<>>) /\ <<>> \in Seq(Events)
    BY DEF Distinct
  <1>2. SurfaceTyped' /\ NoneTwice'
    BY <1>1 DEF SurfaceInv, SurfaceTyped, NoneTwice, Events, Surface!Events
  <1>3. QED
    BY <1>1, <1>2, KnownStays DEF SurfaceInv

LEMMA SurfaceSets ==
    ASSUME SurfaceInv, Surface!SetsAlerts
    PROVE  SurfaceInv'
  <1> USE DEF Surface!SetsAlerts, Surface!serviceVars
  <1>1. UNCHANGED <<said, shown, old.found>>
    BY DEF SurfaceInv, SurfaceTyped
  <1>2. SurfaceTyped' /\ NoneTwice'
    <2>1. /\ SurfaceTyped /\ NoneTwice
          /\ pol' = [pol EXCEPT !.enabled = ~pol.enabled, !.baseline = TRUE]
          /\ saved' \in {[enabled |-> ~pol.enabled, seen |-> pol.seen], saved}
          /\ alerts' \in {alerts, {}} /\ old' = [old EXCEPT !.convo = NoConvo]
          /\ UNCHANGED <<kind, said, convo, eligible, poll, focused, over, loads, shown>>
      BY DEF SurfaceInv
    <2>2. /\ pol' \in [enabled : BOOLEAN, seen : Seq(Events), baseline : BOOLEAN,
                       convo : Convos \cup {NoConvo}]
          /\ pol'.seen = pol.seen
      BY <2>1 DEF SurfaceTyped
    <2>3. /\ saved' \in [enabled : BOOLEAN, seen : Seq(Events)]
          /\ Distinct(saved'.seen)
      BY <2>1 DEF SurfaceTyped, NoneTwice
    <2>4. /\ old' \in [convo : Convos \cup {NoConvo}, found : SUBSET Events]
          /\ alerts' \in SUBSET (Events \cup {Surface!None})
      BY <2>1 DEF SurfaceTyped
    <2>5. QED
      BY <2>1, <2>2, <2>3, <2>4 DEF SurfaceTyped, NoneTwice, Events, Surface!Events, Surface!None
  <1>3. pol'.baseline /\ (~pol'.enabled => alerts' = {})
    BY DEF SurfaceInv, SurfaceTyped
  <1>4. QED
    BY <1>1, <1>2, <1>3, KnownStays DEF SurfaceInv

LEMMA SurfaceRelaunches ==
    ASSUME SurfaceInv, Surface!Relaunches
    PROVE  SurfaceInv'
  <1> USE DEF Surface!Relaunches, Surface!serviceVars, Surface!NoPoll, Surface!NoOver, Surface!NeverSaved
  <1>1. UNCHANGED <<said, shown, old.found>> /\ Distinct(<<>>) /\ <<>> \in Seq(Events)
    BY DEF Distinct, SurfaceInv, SurfaceTyped
  <1>2. PICK read \in {saved, Surface!NeverSaved} :
          pol' = [enabled |-> read.enabled, seen |-> read.seen, baseline |-> TRUE, convo |-> NoConvo]
    OBVIOUS
  <1>3. read.enabled \in BOOLEAN /\ read.seen \in Seq(Events) /\ Distinct(read.seen)
    <2>1. CASE read = saved
      BY <2>1 DEF SurfaceInv, SurfaceTyped, NoneTwice
    <2>2. CASE read = Surface!NeverSaved
      BY <1>1, <2>2
    <2>3. QED
      BY <1>2, <2>1, <2>2
  <1>4. SurfaceTyped'
    BY <1>1, <1>2, <1>3 DEF SurfaceInv, SurfaceTyped, Events, Surface!Events, Surface!None
  <1>5. NoneTwice'
    BY <1>1, <1>2, <1>3 DEF SurfaceInv, NoneTwice
  <1>6. QED
    BY <1>1, <1>2, <1>4, <1>5, KnownStays DEF SurfaceInv
\* What is announced is not known: it was not announced before and not there at first.
LEMMA AnnouncedIsNew ==
    ASSUME SurfaceInv, poll.busy, NEW ok \in BOOLEAN, Surface!Announced(pol, ok) # Surface!None
    PROVE  LET ann == Surface!Announced(pol, ok)
           IN  /\ ann \in Events /\ ~Known(ann) /\ ann \in Names(poll.said)
               /\ pol.enabled /\ ~focused /\ ~pol.baseline /\ pol.convo = poll.convo
  <1> DEFINE ann == Surface!Announced(pol, ok)
             fresh == Only(poll.said, Surface!Events \ Surface!Keys(pol.seen))
             wanted == Only(fresh, poll.eligible)
  <1>1. pol.seen \in Seq(Events) /\ poll.said \in Seq(Events)
    BY DEF SurfaceInv, SurfaceTyped
  <1>2. /\ pol.enabled /\ ~Surface!Baselines(pol) /\ ~focused /\ wanted # <<>>
        /\ ann = wanted[Len(wanted)]
    BY SameOnly DEF Surface!Announced, Surface!Fresh
  <1>3. /\ fresh \in Seq(Events)
        /\ Names(fresh) = Names(poll.said) \cap (Surface!Events \ Surface!Keys(pol.seen))
    BY <1>1, OnlyFacts
  <1> HIDE DEF fresh
  <1>4. wanted \in Seq(Events) /\ Names(wanted) = Names(fresh) \cap poll.eligible
    BY <1>3, OnlyFacts
  <1> HIDE DEF wanted, ann
  <1>5. Len(wanted) \in 1 .. Len(wanted)
    BY <1>2, <1>4
  <1>6. ann \in Names(wanted)
    BY <1>2, <1>5 DEF Names
  <1>7. ann \in Names(poll.said) /\ ann \in Events /\ ann \notin Names(pol.seen)
    BY <1>1, <1>3, <1>4, <1>6, KeysAreNames DEF Events
  <1>8. ~pol.baseline /\ pol.convo = poll.convo
    BY <1>2 DEF Surface!Baselines
  <1>9. ~Known(ann)
    BY <1>7, <1>8 DEF SurfaceInv
  <1>10. QED
    BY <1>2, <1>7, <1>8, <1>9 DEF ann

LEMMA SurfaceInspects ==
    ASSUME SurfaceBounds, SurfaceInv, Surface!PollInspects
    PROVE  SurfaceInv' /\ Surface!OldIsQuiet
  <1>1. /\ SurfaceTyped /\ NoneTwice /\ poll.busy /\ poll.convo \in Convos
        /\ Names(poll.said) \subseteq Names(said[poll.convo])
    BY DEF SurfaceInv, Surface!PollInspects
  <1>2. PICK ok \in BOOLEAN :
          LET ann == Surface!Announced(pol, ok)
          IN /\ pol' = Surface!Inspected(pol)
             /\ saved' = IF ok /\ pol.enabled /\ (Surface!Baselines(pol) \/ Surface!Fresh(pol) # <<>>)
                         THEN [enabled |-> TRUE, seen |-> Surface!Inspected(pol).seen] ELSE saved
             /\ shown' = [e \in Surface!Events |-> shown[e] + (IF ann = e THEN 1 ELSE 0)]
             /\ IF ann # Surface!None /\ kind = "overlay"
                THEN Surface!CanPresent /\ Surface!Presents("check_in") /\ UNCHANGED alerts
                ELSE alerts' = alerts \cup ({ann} \ {Surface!None}) /\ UNCHANGED <<over, loads>>
    BY DEF Surface!PollInspects
  <1> DEFINE ann == Surface!Announced(pol, ok)
             next == Surface!Marked(pol.seen, poll.said)
  <1>3. ann # Surface!None =>
          /\ ann \in Events /\ ~Known(ann) /\ ann \in Names(poll.said)
          /\ pol.enabled /\ ~focused /\ ~pol.baseline /\ pol.convo = poll.convo
    BY <1>1, AnnouncedIsNew
  <1> HIDE DEF ann
  <1>4. /\ next \in Seq(Events) /\ Distinct(next)
        /\ Names(next) = Names(pol.seen) \cup Names(poll.said)
    BY <1>1, MarkedKeepsAll DEF SurfaceTyped, NoneTwice
  <1> HIDE DEF next
  <1>5. pol' = IF pol.enabled
               THEN [pol EXCEPT !.seen = next, !.baseline = FALSE, !.convo = poll.convo] ELSE pol
    BY <1>2 DEF Surface!Inspected, next
  <1>6. /\ saved' \in [enabled : BOOLEAN, seen : Seq(Events)] /\ Distinct(saved'.seen)
    <2>1. CASE saved' = saved
      BY <1>1, <2>1 DEF SurfaceTyped, NoneTwice
    <2>2. CASE pol.enabled /\ saved' = [enabled |-> TRUE, seen |-> Surface!Inspected(pol).seen]
      BY <1>1, <1>2, <1>4, <1>5, <2>2 DEF SurfaceTyped
    <2>3. QED
      BY <1>2, <2>1, <2>2
  <1>7. /\ shown' \in [Events -> Nat]
        /\ \A e \in Events : shown'[e] = shown[e] + (IF ann = e THEN 1 ELSE 0)
    <2>1. shown' = [e \in Events |-> shown[e] + (IF ann = e THEN 1 ELSE 0)]
      BY <1>2 DEF ann, Events
    <2>2. QED
      BY <1>1, <2>1 DEF SurfaceTyped
  <1> DEFINE Counts(e) == /\ shown[e] \in Nat /\ e # Surface!None
                          /\ shown'[e] = shown[e] + (IF ann = e THEN 1 ELSE 0)
  <1>7a. ASSUME NEW e \in Events PROVE Counts(e)
    <2>1. shown[e] \in Nat
      BY <1>1 DEF SurfaceTyped
    <2>2. e # Surface!None
      BY DEF Events, Surface!Events, Surface!None
    <2>3. QED
      BY <1>7, <2>1, <2>2
  <1>8. /\ poll' = Surface!NoPoll /\ UNCHANGED <<kind, said, convo, eligible, focused>>
        /\ old' = IF ~pol.enabled \/ old.convo = poll.convo THEN old
                  ELSE [convo |-> poll.convo, found |-> old.found \cup Names(poll.said)]
    BY <1>1, KeysAreNames DEF Surface!PollInspects, Surface!serviceVars, SurfaceTyped
  <1>9. /\ alerts' \in SUBSET (Events \cup {Surface!None})
        /\ over' \in [payload : {"none", "check_in", "preview"}, ready : BOOLEAN]
        /\ focused' => over'.payload # "check_in"
        /\ ~pol'.enabled => alerts' = {}
    <2>1. /\ alerts \in SUBSET (Events \cup {Surface!None})
          /\ over \in [payload : {"none", "check_in", "preview"}, ready : BOOLEAN]
          /\ focused => over.payload # "check_in"
          /\ ~pol.enabled => alerts = {}
          /\ pol'.enabled = pol.enabled /\ focused' = focused
      BY <1>1, <1>5, <1>8 DEF SurfaceInv, SurfaceTyped
    <2>2. CASE ann # Surface!None /\ kind = "overlay"
      <3>1. alerts' = alerts /\ (over' = [over EXCEPT !.payload = "check_in"]
                                \/ over' = [payload |-> "check_in", ready |-> FALSE])
        BY <1>2, <2>2 DEF ann, Surface!Presents
      <3>2. over' \in [payload : {"none", "check_in", "preview"}, ready : BOOLEAN]
        <4>1. /\ [over EXCEPT !.payload = "check_in"]
                   \in [payload : {"none", "check_in", "preview"}, ready : BOOLEAN]
              /\ [payload |-> "check_in", ready |-> FALSE]
                   \in [payload : {"none", "check_in", "preview"}, ready : BOOLEAN]
          BY <2>1
        <4>2. QED
          BY <3>1, <4>1
      <3>3. QED
        BY <1>3, <2>1, <2>2, <3>1, <3>2
    <2>3. CASE ~(ann # Surface!None /\ kind = "overlay")
      <3>1. alerts' = alerts \cup ({ann} \ {Surface!None}) /\ over' = over
        BY <1>2, <2>3 DEF ann
      <3>2. QED
        BY <1>3, <2>1, <3>1
    <2>4. QED
      BY <2>2, <2>3
  <1>10. Names(poll.said) \subseteq Events
    BY <1>1 DEF SurfaceTyped, Names
  <1>11. /\ old' \in [convo : Convos \cup {NoConvo}, found : SUBSET Events]
         /\ old'.found \subseteq old.found \cup Names(poll.said)
         /\ pol.enabled => old'.convo = poll.convo
         /\ ~pol.enabled => old' = old
    BY <1>1, <1>8, <1>10 DEF SurfaceTyped
  <1>12. SurfaceTyped'
    <2>1. pol' \in [enabled : BOOLEAN, seen : Seq(Events), baseline : BOOLEAN,
                    convo : Convos \cup {NoConvo}]
      BY <1>1, <1>4, <1>5 DEF SurfaceTyped
    <2>2. poll' \in [busy : BOOLEAN, said : Seq(Events), convo : Convos \cup {NoConvo},
                     eligible : SUBSET Events]
      BY <1>8 DEF Surface!NoPoll
    <2>3. QED
      BY <1>1, <1>6, <1>7, <1>8, <1>9, <1>11, <2>1, <2>2
      DEF SurfaceTyped, Events, Surface!Events, Surface!None
  <1>13. NoneTwice'
    BY <1>1, <1>4, <1>5, <1>6, <1>8 DEF NoneTwice, Surface!NoPoll, Distinct, SurfaceTyped
  <1>14. Surface!Delivered' = Surface!Delivered
    BY <1>8 DEF Surface!Delivered
  <1>15. Names(poll.said) \subseteq Surface!Delivered
    <2>1. Surface!Keys(said[poll.convo]) = Names(said[poll.convo])
      BY <1>1, KeysAreNames DEF SurfaceTyped
    <2>2. QED
      BY <1>1, <2>1 DEF Surface!Delivered
  <1>16. \A e \in Events : Known(e)' => Known(e) \/ e \in Names(poll.said)
    <2>1. SUFFICES ASSUME NEW e \in Events, Known(e)' PROVE Known(e) \/ e \in Names(poll.said)
      OBVIOUS
    <2>2. shown[e] \in Nat /\ shown'[e] = shown[e] + (IF ann = e THEN 1 ELSE 0) /\ e # Surface!None
      BY <1>7a
    <2>3. CASE shown'[e] > 0
      BY <1>3, <2>2, <2>3 DEF Known
    <2>4. CASE e \in old'.found
      BY <1>11, <2>4 DEF Known
    <2>5. QED
      BY <2>1, <2>3, <2>4 DEF Known
  <1>17. \A e \in Events : shown'[e] <= 1 /\ (Known(e)' => e \in Surface!Delivered)
    <2>1. SUFFICES ASSUME NEW e \in Events
                   PROVE  shown'[e] <= 1 /\ (Known(e)' => e \in Surface!Delivered)
      OBVIOUS
    <2>2. shown[e] \in Nat /\ shown[e] <= 1 /\ (Known(e) => e \in Surface!Delivered)
      BY <1>1 DEF SurfaceInv, SurfaceTyped
    <2>3. ann = e => shown[e] = 0
      BY <1>3, <2>2 DEF Known, Events, Surface!Events, Surface!None
    <2>4. QED
      BY <1>7, <1>15, <1>16, <2>2, <2>3
  <1>18. /\ ~pol'.baseline => /\ pol'.convo \in Convos /\ old'.convo = pol'.convo
                              /\ \A e \in Names(said[pol'.convo]) : Known(e)' => e \in Names(pol'.seen)
    <2>1. \A c \in Convos : Names(said[c]) \subseteq Events
      BY <1>1 DEF SurfaceTyped, Names
    <2>2. CASE pol.enabled
      <3>1. pol'.convo = poll.convo /\ pol'.seen = next
        BY <1>1, <1>5, <2>2 DEF SurfaceTyped
      <3>2. \A e \in Names(said[poll.convo]) : Known(e) => e \in Names(poll.said)
        BY <1>1 DEF SurfaceInv
      <3>3. QED
        BY <1>1, <1>4, <1>11, <1>16, <2>1, <2>2, <3>1, <3>2
    <2>3. CASE ~pol.enabled
      <3>1. ann = Surface!None /\ pol' = pol /\ old' = old
        BY <1>3, <1>5, <1>11, <2>3
      <3>2. \A e \in Events : Known(e)' => Known(e)
        <4>1. SUFFICES ASSUME NEW e \in Events PROVE Known(e)' => Known(e)
          OBVIOUS
        <4>2. shown[e] \in Nat /\ shown'[e] = shown[e] /\ e # Surface!None
          <5>1. Counts(e)
            BY <1>7a
          <5>2. QED
            BY <3>1, <5>1
        <4>3. QED
          BY <3>1, <4>2 DEF Known
      <3>3. QED
        BY <2>1, <3>1, <3>2 DEF SurfaceInv
    <2>4. QED
      BY <2>2, <2>3
  <1>19. SurfaceInv'
    BY <1>8, <1>9, <1>12, <1>13, <1>14, <1>17, <1>18
    DEF SurfaceInv, Surface!NoPoll, Events, Surface!Events
  <1>20. Surface!OldIsQuiet
    <2>1. SUFFICES ASSUME NEW e \in Events, shown'[e] > shown[e]
                   PROVE  e \notin old'.found
      BY DEF Surface!OldIsQuiet, Events
    <2>2. ann = e /\ ann # Surface!None
      <3>1. shown[e] \in Nat /\ shown'[e] = shown[e] + (IF ann = e THEN 1 ELSE 0) /\ e # Surface!None
        BY <1>7a
      <3>2. QED
        BY <2>1, <3>1
    <2>3. old' = old
      BY <1>3, <1>8, <2>2 DEF SurfaceInv
    <2>4. QED
      BY <1>3, <2>2, <2>3 DEF Known
  <1>21. QED
    BY <1>19, <1>20

LEMMA SurfaceGoesOn ==
    ASSUME SurfaceBounds, SurfaceInv, Surface!SurfaceNext
    PROVE  SurfaceInv' /\ Surface!OldIsQuiet
  <1>1. CASE Surface!PollInspects
    BY <1>1, SurfaceInspects
  <1>2. CASE ~Surface!PollInspects
    <2>1. shown' = shown
      BY <1>2 DEF Surface!SurfaceNext, Surface!Delivers, Surface!EligibilityEnds, Surface!PollBegins,
           Surface!PollFails, Surface!SetsAlerts, Surface!FocusChanges, Surface!AlertTested,
           Surface!AlertEnds, Surface!PreviewOverlay, Surface!OverlayReady, Surface!OverlayEnds,
           Surface!OverlayLoads, Surface!Relaunches
    <2>2. Surface!OldIsQuiet
      BY <2>1 DEF Surface!OldIsQuiet, SurfaceInv, SurfaceTyped, Events
    <2>3. SurfaceInv'
      BY <1>2, SurfaceOutside, SurfaceDelivers, SurfaceTurns, SurfacePolls, SurfacePollFails,
         SurfaceSets, SurfaceRelaunches DEF Surface!SurfaceNext
    <2>4. QED
      BY <2>2, <2>3
  <1>3. QED
    BY <1>1, <1>2

LEMMA SurfaceStandsStill ==
    ASSUME SurfaceInv, UNCHANGED <<kind, said, convo, eligible, poll, pol, saved, focused, over,
                                   loads, alerts, shown, old>>
    PROVE  SurfaceInv' /\ Surface!OldIsQuiet
  <1>1. SurfaceInv'
    BY OutsideStays DEF SurfaceInv, SurfaceTyped
  <1>2. Surface!OldIsQuiet
    BY DEF Surface!OldIsQuiet, SurfaceInv, SurfaceTyped, Events
  <1>3. QED
    BY <1>1, <1>2

LEMMA SurfaceSafe ==
    ASSUME SurfaceInv
    PROVE  Surface!ShownOnce /\ Surface!FocusIsQuiet /\ Surface!OffIsQuiet
  BY DEF SurfaceInv, Surface!ShownOnce, Surface!FocusIsQuiet, Surface!OffIsQuiet, Events

-----------------------------------------------------------------------------
(* ContextPanel.                                                            *)

LEMMA ContextTotal ==
    /\ Context!Total(<<>>) = 0
    /\ \A s \in Seq(Nat) : Context!Total(s) \in Nat
    /\ \A s \in Seq(Nat), x \in Nat : Context!Total(Append(s, x)) = Context!Total(s) + x
    /\ \A s : Context!Total(s) = Total(s)
  <1>1. \A s : Context!Total(s) = Total(s)
    BY DEF Context!Total, Total
  <1>2. QED
    BY <1>1, TotalFacts

LEMMA Quotient == ASSUME NEW a \in Nat, NEW b \in Nat, b > 0 PROVE a \div b \in Nat
  OBVIOUS

LEMMA Product == ASSUME NEW a \in Nat, NEW b \in Nat PROVE a * b \in Nat
  OBVIOUS

LEMMA RoundIsNat == ASSUME NEW a \in Nat, NEW b \in Nat, b > 0 PROVE Context!Round(a, b) \in Nat
  <1>1. 2 * a + b \in Nat /\ 2 * b \in Nat /\ 2 * b > 0
    OBVIOUS
  <1> DEFINE x == 2 * a + b
             y == 2 * b
  <1> HIDE DEF x, y
  <1>2. x \in Nat /\ y \in Nat /\ y > 0
    BY <1>1 DEF x, y
  <1>3. x \div y \in Nat
    BY <1>2, Quotient
  <1>4. QED
    BY <1>3 DEF Context!Round, x, y

\* What the next category gets when the earlier ones got t.
Left(f, t) == Context!AtLeast0(f.used - Context!Total(t))
Share(f, i, t) ==
    IF i = Len(f.categories) THEN Left(f, t)
    ELSE Context!Least(Left(f, t),
                       Context!Round(f.used * f.categories[i], Context!Total(f.categories)))

Measured(f) == f.categories \in Seq(Nat) /\ f.used \in Nat

LEMMA Shares ==
    ASSUME NEW f, Measured(f), Context!Total(f.categories) # 0,
           NEW i \in 1 .. Len(f.categories), NEW t \in Seq(Nat)
    PROVE  /\ Share(f, i, t) \in Nat
           /\ Context!Total(t) <= f.used => Context!Total(t) + Share(f, i, t) <= f.used
           /\ Context!Total(t) <= f.used /\ i = Len(f.categories) => Context!Total(t) + Share(f, i, t) = f.used
  <1> DEFINE u == f.used
             w == Context!Total(f.categories)
             T == Context!Total(t)
             c == f.categories[i]
             r == Context!Round(u * c, w)
  <1>1. u \in Nat /\ w \in Nat /\ w > 0 /\ T \in Nat /\ c \in Nat
    <2> DEFINE s == f.categories
    <2>1. s \in Seq(Nat) /\ u \in Nat
      BY DEF Measured
    <2>2. s[i] \in Nat
      BY <2>1
    <2> HIDE DEF s, u
    <2>3. Context!Total(s) \in Nat /\ T \in Nat
      BY <2>1, ContextTotal
    <2>4. Context!Total(s) # 0
      BY DEF s
    <2>5. QED
      BY <2>1, <2>2, <2>3, <2>4 DEF s
  <1> HIDE DEF u, w, T, c
  <1>2. r \in Nat
    <2>1. u * c \in Nat
      BY <1>1, Product
    <2>2. QED
      BY <2>1, <1>1, RoundIsNat
  <1> HIDE DEF r
  <1>3. Left(f, t) = IF u - T < 0 THEN 0 ELSE u - T
    BY DEF Left, Context!AtLeast0, u, T
  <1>4. Share(f, i, t) = IF i = Len(f.categories) THEN Left(f, t)
                         ELSE IF Left(f, t) < r THEN Left(f, t) ELSE r
    BY DEF Share, Context!Least, r, u, c, w
  <1>5. /\ Share(f, i, t) \in Nat
        /\ T <= u => T + Share(f, i, t) <= u
        /\ T <= u /\ i = Len(f.categories) => T + Share(f, i, t) = u
    BY <1>1, <1>2, <1>3, <1>4
  <1>6. QED
    BY <1>5 DEF u, T

\* The steps of Fitted: some function takes them.
LEMMA FitSteps ==
    ASSUME NEW f, Measured(f), Context!Total(f.categories) # 0
    PROVE  \E k \in [0 .. Len(f.categories) -> Seq(Nat)] :
             /\ k[0] = <<>> /\ Context!Fitted(f) = k[Len(f.categories)]
             /\ \A i \in 1 .. Len(f.categories) : k[i] = Append(k[i - 1], Share(f, i, k[i - 1]))
  <1> DEFINE N == Len(f.categories)
             Body(k) == [i \in 0 .. N |-> IF i = 0 THEN <<>> ELSE Append(k[i - 1], Share(f, i, k[i - 1]))]
             g == [i \in 1 .. N |-> [t \in Seq(Nat) |-> Append(t, Share(f, i, t))]]
             K == CHOOSE k : k = Body(k)
  <1>1. N \in Nat
    BY DEF Measured
  <1>2. \A i \in 1 .. N, t \in Seq(Nat) : Append(t, Share(f, i, t)) \in Seq(Nat)
    BY Shares
  <1>3. g \in [1 .. N -> [Seq(Nat) -> Seq(Nat)]]
    BY <1>2
  <1>4. PICK k : Course(k, Seq(Nat), <<>>, N, g)
    <2>1. <<>> \in Seq(Nat) /\ N \in Nat /\ StepsIn(g, N, Seq(Nat))
      BY <1>1, <1>3 DEF StepsIn
    <2> HIDE DEF g, N
    <2>2. QED
      BY <2>1, Iterates, Zenon
  <1>5. /\ k \in [0 .. N -> Seq(Nat)] /\ k[0] = <<>>
        /\ \A i \in 1 .. N : k[i] = Append(k[i - 1], Share(f, i, k[i - 1]))
    <2>1. k \in [0 .. N -> Seq(Nat)] /\ k[0] = <<>> /\ \A i \in 1 .. N : k[i] = g[i][k[i - 1]]
      BY <1>4 DEF Course
    <2>2. ASSUME NEW i \in 1 .. N PROVE k[i] = Append(k[i - 1], Share(f, i, k[i - 1]))
      <3>1. k[i - 1] \in Seq(Nat)
        BY <1>1, <2>1
      <3>2. k[i] = g[i][k[i - 1]]
        BY <2>1
      <3>3. QED
        BY <3>1, <3>2
    <2>3. QED
      BY <2>1, <2>2
  <1>6. k = Body(k)
    <2>1. \A i \in 0 .. N : k[i] = Body(k)[i]
      <3>1. SUFFICES ASSUME NEW i \in 0 .. N PROVE k[i] = Body(k)[i]
        OBVIOUS
      <3>2. CASE i = 0
        BY <3>2, <1>5
      <3>3. CASE i # 0
        <4>1. i \in 1 .. N
          BY <3>3, <1>1
        <4>2. QED
          BY <4>1, <3>3, <1>5
      <3>4. QED
        BY <3>2, <3>3
    <2>2. QED
      BY <1>5, <2>1
  <1>7. K = Body(K)
    BY <1>6
  <1>8. Context!Fitted(f) = K[N]
    BY DEF Context!Fitted, Share, Left
  <1> HIDE DEF K
  <1>9. DOMAIN K = 0 .. N /\ K[0] = <<>> /\ \A i \in 1 .. N : K[i] = Append(K[i - 1], Share(f, i, K[i - 1]))
    <2>1. 0 \in 0 .. N /\ \A i \in 1 .. N : i \in 0 .. N /\ i # 0
      BY <1>1
    <2>2. QED
      BY <2>1, <1>7
  <1>10. K \in [0 .. N -> Seq(Nat)]
    <2> DEFINE Q == {i \in Nat : i <= N => K[i] \in Seq(Nat)}
    <2>1. 0 \in Q
      <3>1. K[0] \in Seq(Nat)
        BY <1>9
      <3>2. QED
        BY <3>1
    <2>2. ASSUME NEW i \in Nat, i \in Q PROVE i + 1 \in Q
      <3>1. SUFFICES ASSUME i + 1 <= N PROVE K[i + 1] \in Seq(Nat)
        OBVIOUS
      <3>2. i + 1 \in 1 .. N /\ (i + 1) - 1 = i /\ K[i] \in Seq(Nat)
        BY <2>2, <3>1, <1>1
      <3>3. QED
        BY <3>2, <1>9, <1>2
    <2> HIDE DEF Q
    <2>3. \A i \in Nat : i \in Q
      BY <2>1, <2>2, Induct
    <2>4. \A i \in 0 .. N : K[i] \in Seq(Nat)
      BY <2>3, <1>1 DEF Q
    <2>5. K = [i \in 0 .. N |-> K[i]]
      BY <1>7
    <2>6. QED
      BY <2>4, <2>5
  <1>11. QED
    BY <1>8, <1>9, <1>10

\* The rounded categories give exactly what is used.
LEMMA FittedTotal ==
    ASSUME NEW f, Measured(f)
    PROVE  Context!Fitted(f) \in Seq(Nat) /\ Context!Total(Context!Fitted(f)) = f.used
  <1>1. CASE Context!Total(f.categories) = 0
    <2>1. Context!Fitted(f) = IF f.used > 0 THEN <<f.used>> ELSE <<>>
      BY <1>1 DEF Context!Fitted
    <2>2. Context!Total(<<f.used>>) = f.used /\ Context!Total(<<>>) = 0 /\ f.used \in Nat
      <3>1. <<f.used>> = Append(<<>>, f.used) /\ <<>> \in Seq(Nat)
        OBVIOUS
      <3>2. f.used \in Nat
        BY DEF Measured
      <3>3. Context!Total(Append(<<>>, f.used)) = Context!Total(<<>>) + f.used
        BY <3>1, <3>2, ContextTotal
      <3>4. QED
        BY <3>1, <3>2, <3>3, ContextTotal
    <2>3. QED
      BY <2>1, <2>2
  <1>2. CASE Context!Total(f.categories) # 0
    <2> DEFINE N == Len(f.categories)
    <2>1. PICK k \in [0 .. N -> Seq(Nat)] :
            /\ k[0] = <<>> /\ Context!Fitted(f) = k[N]
            /\ \A i \in 1 .. N : k[i] = Append(k[i - 1], Share(f, i, k[i - 1]))
      BY <1>2, FitSteps
    <2>2. N \in Nat /\ N # 0
      <3>1. f.categories \in Seq(Nat)
        BY DEF Measured
      <3>2. N = 0 => f.categories = <<>>
        BY <3>1
      <3>3. QED
        BY <3>1, <3>2, <1>2, ContextTotal
    <2>3. ASSUME NEW i \in 1 .. N
          PROVE  /\ Context!Total(k[i - 1]) <= f.used => Context!Total(k[i]) <= f.used
                 /\ Context!Total(k[i - 1]) <= f.used /\ i = N => Context!Total(k[i]) = f.used
      <3>1. k[i - 1] \in Seq(Nat)
        <4>1. i - 1 \in 0 .. N
          BY <2>2
        <4> HIDE DEF N
        <4>2. QED
          BY <4>1, <2>1
      <3>2. /\ Share(f, i, k[i - 1]) \in Nat
            /\ Context!Total(k[i - 1]) <= f.used => Context!Total(k[i - 1]) + Share(f, i, k[i - 1]) <= f.used
            /\ Context!Total(k[i - 1]) <= f.used /\ i = N => Context!Total(k[i - 1]) + Share(f, i, k[i - 1]) = f.used
        BY <1>2, <3>1, Shares
      <3>3. Context!Total(k[i]) = Context!Total(k[i - 1]) + Share(f, i, k[i - 1])
        BY <2>1, <3>1, <3>2, ContextTotal
      <3>4. QED
        BY <3>2, <3>3
    <2> DEFINE Q == {i \in Nat : i <= N => Context!Total(k[i]) <= f.used}
    <2>4. 0 \in Q
      BY <2>1, ContextTotal DEF Measured
    <2>5. ASSUME NEW i \in Nat, i \in Q PROVE i + 1 \in Q
      <3>1. SUFFICES ASSUME i + 1 <= N PROVE Context!Total(k[i + 1]) <= f.used
        OBVIOUS
      <3>2. i + 1 \in 1 .. N /\ (i + 1) - 1 = i /\ Context!Total(k[i]) <= f.used
        BY <2>2, <2>5, <3>1
      <3>3. QED
        BY <3>2, <2>3
    <2> HIDE DEF Q
    <2>6. \A i \in Nat : i \in Q
      BY <2>4, <2>5, Induct
    <2>7. Context!Total(k[N - 1]) <= f.used /\ N \in 1 .. N
      BY <2>2, <2>6 DEF Q
    <2>8. Context!Total(k[N]) = f.used
      BY <2>3, <2>7
    <2>9. QED
      <3>1. k[N] \in Seq(Nat)
        <4>1. N \in 0 .. N
          BY <2>2
        <4> HIDE DEF N
        <4>2. QED
          BY <4>1, <2>1
      <3>2. QED
        BY <3>1, <2>1, <2>8
  <1>3. QED
    BY <1>1, <1>2
\* What mountChatContext shows, of numbers that may be unknown.
Displayed(f) ==
    /\ Measured(f) /\ f.window \in Nat
    /\ f.threshold = Context!Unknown \/ (f.threshold \in Nat /\ f.threshold <= f.window)

LEMMA Segments ==
    ASSUME NEW s \in Seq(Nat), NEW x \in Nat, \A i \in DOMAIN s : s[i] > 0
    PROVE  LET t == s \o (IF x > 0 THEN <<x>> ELSE <<>>) IN
           /\ t \in Seq(Nat) /\ Context!Total(t) = Context!Total(s) + x
           /\ \A i \in DOMAIN t : t[i] > 0
  <1>1. CASE x > 0
    <2>1. s \o <<x>> = Append(s, x)
      OBVIOUS
    <2> DEFINE t == Append(s, x)
    <2>2. t \in Seq(Nat) /\ Context!Total(t) = Context!Total(s) + x
      BY ContextTotal
    <2>3. \A i \in DOMAIN t : t[i] > 0
      <3>1. /\ Len(s) \in Nat /\ DOMAIN s = 1 .. Len(s) /\ DOMAIN t = 1 .. Len(s) + 1
            /\ t[Len(s) + 1] = x /\ \A i \in 1 .. Len(s) : t[i] = s[i]
        OBVIOUS
      <3> HIDE DEF t
      <3>2. SUFFICES ASSUME NEW i \in DOMAIN t PROVE t[i] > 0
        OBVIOUS
      <3>3. i \in 1 .. Len(s) \/ i = Len(s) + 1
        BY <3>1
      <3>4. QED
        BY <1>1, <3>1, <3>3
    <2> HIDE DEF t
    <2>4. s \o (IF x > 0 THEN <<x>> ELSE <<>>) = t
      BY <1>1, <2>1 DEF t
    <2>5. QED
      BY <2>2, <2>3, <2>4
  <1>2. CASE ~(x > 0)
    <2>1. s \o <<>> = s /\ x = 0
      BY <1>2
    <2>2. Context!Total(s) \in Nat
      BY ContextTotal
    <2>3. s \o (IF x > 0 THEN <<x>> ELSE <<>>) = s
      BY <1>2, <2>1
    <2>4. QED
      BY <2>1, <2>2, <2>3
  <1>3. QED
    BY <1>1, <1>2

LEMMA BreakdownCovers ==
    ASSUME NEW f, Displayed(f)
    PROVE  LET b == Context!Breakdown(f) IN
           /\ Context!Total(b) = Context!Greatest(f.window, f.used) /\ \A i \in DOMAIN b : b[i] > 0
           /\ f.used + Context!Available(f) <= Context!Greatest(f.used, Context!Limit(f))
  <1> DEFINE u == f.used
             w == f.window
             l == Context!Limit(f)
             a == Context!Available(f)
             r == Context!Reserve(f)
             s == Context!Only(Context!Fitted(f), Nat \ {0})
             t == s \o (IF a > 0 THEN <<a>> ELSE <<>>)
             b == t \o (IF r > 0 THEN <<r>> ELSE <<>>)
  <1>1. u \in Nat /\ w \in Nat /\ l \in Nat /\ l <= w
    BY DEF Displayed, Measured, Context!Limit, Context!Unknown
  <1>2. /\ a = (IF l - u < 0 THEN 0 ELSE l - u)
        /\ r = (IF w - (IF l < u THEN u ELSE l) < 0 THEN 0 ELSE w - (IF l < u THEN u ELSE l))
    BY DEF Context!Available, Context!Reserve, Context!AtLeast0, Context!Greatest
  <1>3. s \in Seq(Nat) /\ Context!Total(s) = u /\ \A i \in DOMAIN s : s[i] > 0
    <2> DEFINE g == Context!Fitted(f)
    <2>1. g \in Seq(Nat) /\ Context!Total(g) = u
      BY FittedTotal DEF Displayed
    <2>2. s = Only(g, Nat \ {0})
      BY DEF Context!Only, Only
    <2> HIDE DEF g
    <2>3. Only(g, Nat \ {0}) \in Seq(Nat) /\ Names(Only(g, Nat \ {0})) = Names(g) \cap (Nat \ {0})
      BY <2>1, OnlyFacts
    <2>4. Context!Total(Only(g, Nat \ {0})) = Context!Total(g)
      BY <2>1, TotalOfPositive, ContextTotal
    <2> DEFINE o == Only(g, Nat \ {0})
    <2>5. \A i \in DOMAIN o : o[i] > 0
      <3>1. SUFFICES ASSUME NEW i \in DOMAIN o PROVE o[i] > 0
        OBVIOUS
      <3>2. o[i] \in Names(o)
        <4>1. o \in Seq(Nat)
          BY <2>3
        <4> HIDE DEF o
        <4>2. i \in 1 .. Len(o)
          BY <4>1
        <4>3. QED
          BY <4>2 DEF Names
      <3>3. QED
        BY <2>3, <3>2
    <2>6. QED
      BY <2>1, <2>2, <2>3, <2>4, <2>5
  <1> HIDE DEF u, w, l, a, r, s
  <1>4. a \in Nat /\ r \in Nat
    BY <1>1, <1>2
  <1>5. t \in Seq(Nat) /\ Context!Total(t) = u + a /\ \A i \in DOMAIN t : t[i] > 0
    BY <1>3, <1>4, Segments
  <1> HIDE DEF t
  <1>6. Context!Total(b) = u + a + r /\ \A i \in DOMAIN b : b[i] > 0
    BY <1>1, <1>4, <1>5, Segments
  <1>7. b = Context!Breakdown(f)
    BY DEF Context!Breakdown, b, t, s, a, r
  <1> HIDE DEF b
  <1>8. Context!Greatest(w, u) = (IF w < u THEN u ELSE w) /\ Context!Greatest(u, l) = (IF u < l THEN l ELSE u)
    BY DEF Context!Greatest
  <1>9. u + a + r = Context!Greatest(w, u) /\ u + a <= Context!Greatest(u, l)
    BY <1>1, <1>2, <1>8
  <1>10. Context!Total(b) = Context!Greatest(w, u)
    BY <1>6, <1>9
  <1>11. QED
    BY <1>6, <1>7, <1>9, <1>10 DEF u, w, l, a

ContextBounds == Talks # {} /\ MaxTokens \in Nat /\ MaxAsks \in Nat

\* What the segments need: the numbers of the service are numbers, or unknown.
ContextInv == Context!ContextTypeOK

LEMMA ContextBegins == ASSUME ContextBounds, Context!ContextInit PROVE ContextInv
  <1>1. (CHOOSE t \in Talks : TRUE) \in Talks
    BY DEF ContextBounds
  <1> USE DEF ContextInv, Context!ContextTypeOK, Context!ContextInit
  <1>2. usage \in [talk : Talks, connected : BOOLEAN, measures : Context!Measures,
                   status : Context!Statuses, may : BOOLEAN, manage : BOOLEAN]
    <2> HIDE DEF ContextInv, Context!ContextTypeOK
    <2>1. "idle" \in Context!Statuses
      BY DEF Context!Statuses
    <2>2. QED
      BY <1>1, <2>1
  <1>3. contextAsked \in 0 .. MaxAsks
    BY DEF ContextBounds
  <1>4. QED
    BY <1>2, <1>3

LEMMA ContextGoesOn ==
    ASSUME ContextBounds, ContextInv, Context!ContextNext
    PROVE  ContextInv'
  <1> DEFINE Usages == [talk : Talks, connected : BOOLEAN, measures : Context!Measures,
                        status : Context!Statuses, may : BOOLEAN, manage : BOOLEAN]
             Details == [expanded : BOOLEAN, mode : {"context", "usage"}, error : BOOLEAN,
                         flight : {"none", "sent"}]
  <1>1. usage \in Usages /\ detail \in Details /\ contextAsked \in 0 .. MaxAsks
    BY DEF ContextInv, Context!ContextTypeOK
  <1>2. Context!Asks => contextAsked' \in 0 .. MaxAsks
    BY <1>1 DEF ContextBounds, Context!Asks
  <1>3. SUFFICES usage' \in Usages /\ detail' \in Details /\ contextAsked' \in 0 .. MaxAsks
    BY DEF ContextInv, Context!ContextTypeOK
  <1>4. CASE Context!OpensDetail
    <2>1. detail' \in Details
      BY <1>1, <1>4 DEF Context!OpensDetail
    <2>2. QED
      BY <1>1, <1>2, <1>4, <2>1 DEF Context!OpensDetail
  <1>5. CASE Context!Summarizes
    <2>1. detail' \in Details
      BY <1>1, <1>5 DEF Context!Summarizes
    <2>2. usage' \in Usages
      BY <1>1, <1>5 DEF Context!Summarizes
    <2>3. QED
      BY <1>2, <1>5, <2>1, <2>2 DEF Context!Summarizes
  <1>6. CASE Context!SummarizeSettles
    <2>1. "compressing" \in Context!Statuses
      BY DEF Context!Statuses
    <2>2. detail' \in Details
      BY <1>1, <1>6 DEF Context!SummarizeSettles
    <2>3. usage' \in Usages
      BY <1>1, <1>6, <2>1 DEF Context!SummarizeSettles
    <2>4. QED
      BY <1>1, <1>6, <2>2, <2>3 DEF Context!SummarizeSettles
  <1>7. CASE Context!ContextUpdates
    <2>1. PICK t \in Talks, c \in BOOLEAN, st \in Context!Statuses :
            /\ usage' = [usage EXCEPT !.talk = t, !.connected = c, !.status = st]
            /\ detail' = [detail EXCEPT !.expanded = detail.expanded /\ t = usage.talk]
      BY <1>7 DEF Context!ContextUpdates
    <2>2. detail' \in Details
      BY <1>1, <2>1
    <2>3. usage' \in Usages
      BY <1>1, <2>1
    <2>4. QED
      BY <1>2, <1>7, <2>2, <2>3 DEF Context!ContextUpdates
  <1>8. QED
    BY <1>4, <1>5, <1>6, <1>7 DEF Context!ContextNext

LEMMA ContextStandsStill ==
    ASSUME ContextInv, UNCHANGED Context!contextVars
    PROVE  ContextInv'
  BY DEF ContextInv, Context!ContextTypeOK, Context!contextVars

LEMMA ContextSafe ==
    ASSUME ContextBounds, ContextInv
    PROVE  Context!BreakdownFits
  <1> DEFINE f == Context!Facts(usage)
             m == usage.measures
  <1>1. /\ m.window \in Nat \cup {-1} /\ m.used \in Nat \cup {-1} /\ m.threshold \in Nat \cup {-1}
        /\ m.categories \in Seq(Nat)
    <2>1. m \in Context!Measures
      BY DEF ContextInv, Context!ContextTypeOK
    <2> HIDE DEF m
    <2>2. Context!Tokens \subseteq Nat
      BY DEF Context!Tokens, ContextBounds
    <2> DEFINE N == Context!Tokens
               Ones == {<<x>> : x \in N}
               Threes == {<<x, y, z>> : x, y, z \in N}
               Shapes == {<<>>} \cup Ones \cup Threes
    <2>3. m \in [window : N \cup {Context!Unknown}, used : N \cup {Context!Unknown},
                 threshold : N \cup {Context!Unknown}, auto : BOOLEAN, categories : Shapes]
      BY <2>1 DEF Context!Measures
    <2> HIDE DEF N, Shapes
    <2>4. /\ m.window \in Nat \cup {-1} /\ m.used \in Nat \cup {-1} /\ m.threshold \in Nat \cup {-1}
          /\ m.categories \in Shapes
      BY <2>2, <2>3 DEF N, Context!Unknown
    <2>5. ASSUME NEW c \in Ones PROVE c \in Seq(Nat)
      <3>1. PICK x \in N : c = <<x>>
        BY <2>5
      <3>2. x \in Nat
        BY <2>2 DEF N
      <3>3. QED
        BY <3>1, <3>2
    <2>6. ASSUME NEW c \in Threes PROVE c \in Seq(Nat)
      <3>1. \E x, y, z \in N : c = <<x, y, z>>
        BY <2>6
      <3>2. PICK x \in N, y \in N, z \in N : c = <<x, y, z>>
        BY <3>1
      <3>3. x \in Nat /\ y \in Nat /\ z \in Nat
        BY <2>2 DEF N
      <3>4. QED
        BY <3>2, <3>3
    <2> HIDE DEF Ones, Threes
    <2>7. <<>> \in Seq(Nat)
      OBVIOUS
    <2>8. QED
      BY <2>4, <2>5, <2>6, <2>7 DEF Shapes
  <1>2. Only(m.categories, Nat \ {0}) \in Seq(Nat) /\ Context!Only(m.categories, Nat \ {0}) = Only(m.categories, Nat \ {0})
    <2> DEFINE c == m.categories
    <2>1. c \in Seq(Nat)
      BY <1>1
    <2> HIDE DEF c
    <2>2. Only(c, Nat \ {0}) \in Seq(Nat)
      BY <2>1, OnlyFacts
    <2>3. QED
      BY <2>2 DEF c, Context!Only, Only
  <1>3. SUFFICES ASSUME Context!Known(f)
                 PROVE  /\ Context!Total(Context!Breakdown(f)) = Context!Greatest(f.window, f.used)
                        /\ \A i \in DOMAIN Context!Breakdown(f) : Context!Breakdown(f)[i] > 0
                        /\ Context!Total(Context!Fitted(f)) = f.used
                        /\ f.used + Context!Available(f) <= Context!Greatest(f.used, Context!Limit(f))
    BY DEF Context!BreakdownFits
  <1>4. Displayed(f)
    BY <1>1, <1>2, <1>3 DEF Context!Known, Context!Facts, Context!Least, Context!Unknown, Displayed, Measured
  <1> HIDE DEF f
  <1>5. Context!Total(Context!Fitted(f)) = f.used
    BY <1>4, FittedTotal DEF Displayed
  <1>6. QED
    BY <1>4, <1>5, BreakdownCovers
=============================================================================
