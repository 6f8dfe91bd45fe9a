-------------------------- MODULE LiveUpdatesProofs --------------------------
(***************************************************************************)
(* Proofs about LiveUpdates, for any number of updates the page remembers, *)
(* any queue and any number of steps: nothing is announced twice, and no   *)
(* update is lost behind what covers the card.  The lemmas on lists are    *)
(* used by PartsProofs as well.                                            *)
(***************************************************************************)
EXTENDS Integers, Sequences, FiniteSets, FiniteSetTheorems, SequenceTheorems,
        WellFoundedInduction, Lists, TLAPS

CONSTANTS Convos, NoConvo, CheckIns, Replies, NoUpdate, SeenCap, QueueCap, UpdateBudgets

VARIABLES speech, card, kept, view, heard, closed, room

Updates == INSTANCE LiveUpdates

-----------------------------------------------------------------------------
(* Induction over the natural numbers, and what Lists computes.             *)

LEMMA Smallest ==
    ASSUME NEW T \in SUBSET Nat, T # {}
    PROVE  \E x \in T : \A y \in T : x <= y
  <1> DEFINE R == {p \in Nat \X Nat : p[1] < p[2]}
  <1>1. PICK x \in T : \A y \in T : <<y, x>> \notin R
    <2>1. IsWellFoundedOn(R, Nat)
      BY NatLessThanWellFounded DEF OpToRel
    <2> HIDE DEF R
    <2>2. QED
      BY <2>1, WFMin
  <1>2. \A y \in T : ~(y < x)
    BY <1>1
  <1>3. QED
    BY <1>2

LEMMA Induct ==
    ASSUME NEW S, 0 \in S, \A n \in Nat : n \in S => n + 1 \in S
    PROVE  \A n \in Nat : n \in S
  <1>1. SUFFICES ASSUME Nat \ S # {} PROVE FALSE
    OBVIOUS
  <1>2. PICK x \in Nat \ S : \A y \in Nat \ S : x <= y
    BY <1>1, Smallest
  <1>3. x # 0 /\ x - 1 \in Nat /\ x = (x - 1) + 1
    BY <1>2
  <1>4. QED
    BY <1>2, <1>3

\* The first n of a recursion on 1 .. n, of which a step is a function.
LEMMA Iterated ==
    ASSUME NEW T, NEW a \in T, NEW N \in Nat, NEW g \in [1 .. N -> [T -> T]]
    PROVE  \E f \in [0 .. N -> T] : f[0] = a /\ \A n \in 1 .. N : f[n] = g[n][f[n - 1]]
  <1> DEFINE Fits(f, m) == /\ f \in [0 .. N -> T] /\ f[0] = a
                           /\ \A n \in 1 .. N : n <= m => f[n] = g[n][f[n - 1]]
             S == {m \in Nat : m <= N => \E f \in [0 .. N -> T] : Fits(f, m)}
  <1>1. 0 \in S
    <2>1. Fits([n \in 0 .. N |-> a], 0)
      OBVIOUS
    <2>2. QED
      BY <2>1
  <1>2. ASSUME NEW m \in Nat, m \in S PROVE m + 1 \in S
    <2>1. SUFFICES ASSUME m + 1 <= N PROVE \E f \in [0 .. N -> T] : Fits(f, m + 1)
      <3> HIDE DEF Fits
      <3>1. QED
        OBVIOUS
    <2>2. PICK f \in [0 .. N -> T] : Fits(f, m)
      BY <1>2, <2>1
    <2>3. m \in 0 .. N /\ m + 1 \in 1 .. N /\ f[m] \in T /\ g[m + 1][f[m]] \in T
      BY <2>1, <2>2
    <2> DEFINE h == [f EXCEPT ![m + 1] = g[m + 1][f[m]]]
    <2>4. h \in [0 .. N -> T] /\ h[0] = a /\ h[m + 1] = g[m + 1][f[m]]
      BY <2>2, <2>3
    <2>5. ASSUME NEW n \in 1 .. N, n <= m + 1 PROVE h[n] = g[n][h[n - 1]]
      <3>1. n - 1 \in 0 .. N /\ n \in 0 .. N /\ n - 1 # m + 1 /\ h[n - 1] = f[n - 1]
        BY <2>2, <2>5, <1>2
      <3>2. CASE n = m + 1
        BY <3>1, <3>2, <2>4
      <3>3. CASE n # m + 1
        BY <3>1, <3>3, <2>2, <2>5
      <3>4. QED
        BY <3>2, <3>3
    <2>6. QED
      BY <2>4, <2>5
  <1> HIDE DEF S
  <1>3. N \in S
    BY <1>1, <1>2, Induct
  <1>4. QED
    BY <1>3 DEF S

\* The same, of steps known only by name.
Course(f, T, a, N, g) ==
    f \in [0 .. N -> T] /\ f[0] = a /\ \A n \in 1 .. N : f[n] = g[n][f[n - 1]]
StepsIn(g, N, T) == g \in [1 .. N -> [T -> T]]

LEMMA Iterates ==
    \A T, a, N, g : a \in T /\ N \in Nat /\ StepsIn(g, N, T) => \E f : Course(f, T, a, N, g)
  <1>1. ASSUME NEW T, NEW a \in T, NEW N \in Nat, NEW g, StepsIn(g, N, T)
        PROVE  \E f : Course(f, T, a, N, g)
    <2>1. g \in [1 .. N -> [T -> T]]
      BY <1>1 DEF StepsIn
    <2>2. PICK f \in [0 .. N -> T] : f[0] = a /\ \A n \in 1 .. N : f[n] = g[n][f[n - 1]]
      BY <2>1, Iterated
    <2>3. QED
      BY <2>2 DEF Course
  <1>2. QED
    BY <1>1

Distinct(s) == \A i, j \in 1 .. Len(s) : s[i] = s[j] => i = j
Names(s) == {s[i] : i \in 1 .. Len(s)}

\* The steps of Only: some function takes them.
LEMMA OnlySteps ==
    ASSUME NEW T, NEW s \in Seq(T), NEW S
    PROVE  \E f \in [0 .. Len(s) -> Seq(T)] :
             /\ f[0] = <<>> /\ Only(s, S) = f[Len(s)]
             /\ \A n \in 1 .. Len(s) :
                  f[n] = IF s[n] \in S THEN Append(f[n - 1], s[n]) ELSE f[n - 1]
  <1> DEFINE N == Len(s)
             Body(f) == [n \in 0 .. N |->
                           IF n = 0 THEN <<>> ELSE IF s[n] \in S THEN Append(f[n - 1], s[n]) ELSE f[n - 1]]
             g == [n \in 1 .. N |-> [t \in Seq(T) |-> IF s[n] \in S THEN Append(t, s[n]) ELSE t]]
             K == CHOOSE f : f = Body(f)
  <1>1. N \in Nat /\ s \in [1 .. N -> T]
    OBVIOUS
  <1>2. g \in [1 .. N -> [Seq(T) -> Seq(T)]]
    BY <1>1
  <1>3. PICK f \in [0 .. N -> Seq(T)] : f[0] = <<>> /\ \A n \in 1 .. N : f[n] = g[n][f[n - 1]]
    <2> DEFINE U == Seq(T)
               e == <<>>
    <2>1. e \in U /\ N \in Nat /\ g \in [1 .. N -> [U -> U]]
      BY <1>1, <1>2
    <2> HIDE DEF g, N, U, e
    <2>2. \E f \in [0 .. N -> U] : f[0] = e /\ \A n \in 1 .. N : f[n] = g[n][f[n - 1]]
      BY <2>1, Iterated
    <2>3. QED
      BY <2>2 DEF U, e
  <1>4. \A n \in 1 .. N : f[n] = IF s[n] \in S THEN Append(f[n - 1], s[n]) ELSE f[n - 1]
    <2>1. SUFFICES ASSUME NEW n \in 1 .. N
                   PROVE  f[n] = IF s[n] \in S THEN Append(f[n - 1], s[n]) ELSE f[n - 1]
      OBVIOUS
    <2>2. n - 1 \in 0 .. N /\ f[n - 1] \in Seq(T)
      BY <1>1, <1>3
    <2>3. f[n] = g[n][f[n - 1]]
      BY <2>2, <1>3
    <2>4. QED
      BY <2>3
  <1>5. f = Body(f)
    <2>1. DOMAIN f = DOMAIN Body(f)
      BY <1>3
    <2>2. \A n \in 0 .. N : f[n] = Body(f)[n]
      <3>1. SUFFICES ASSUME NEW n \in 0 .. N PROVE f[n] = Body(f)[n]
        OBVIOUS
      <3>2. CASE n = 0
        BY <3>2, <1>3
      <3>3. CASE n # 0
        <4>1. n \in 1 .. N
          BY <3>3, <1>1
        <4>2. QED
          BY <4>1, <3>3, <1>4
      <3>4. QED
        BY <3>2, <3>3
    <2>3. QED
      BY <1>3, <2>1, <2>2
  <1>6. K = Body(K)
    BY <1>5
  <1>7. Only(s, S) = K[N]
    BY DEF Only
  <1> HIDE DEF K
  <1>8. K \in [0 .. N -> Seq(T)]
    <2> DEFINE Q == {n \in Nat : n <= N => K[n] \in Seq(T)}
    <2>1. DOMAIN K = 0 .. N
      BY <1>6
    <2>2. 0 \in Q
      BY <1>1, <1>6
    <2>3. ASSUME NEW n \in Nat, n \in Q PROVE n + 1 \in Q
      <3>1. SUFFICES ASSUME n + 1 <= N PROVE K[n + 1] \in Seq(T)
        OBVIOUS
      <3>2. n \in 0 .. N /\ n + 1 \in 0 .. N /\ n + 1 # 0 /\ (n + 1) - 1 = n /\ K[n] \in Seq(T)
        BY <2>3, <3>1, <1>1
      <3>3. K[n + 1] = IF s[n + 1] \in S THEN Append(K[n], s[n + 1]) ELSE K[n]
        BY <1>6, <3>2
      <3>4. n + 1 \in 1 .. N /\ s[n + 1] \in T
        BY <1>1, <3>1
      <3>5. QED
        BY <3>2, <3>3, <3>4
    <2> HIDE DEF Q
    <2>4. \A n \in Nat : n \in Q
      BY <2>2, <2>3, Induct
    <2>5. \A n \in 0 .. N : K[n] \in Seq(T)
      BY <2>4, <1>1 DEF Q
    <2>6. K = [n \in 0 .. N |-> K[n]]
      BY <1>6
    <2>7. QED
      BY <2>5, <2>6
  <1>9. K[0] = <<>> /\ \A n \in 1 .. N : K[n] = IF s[n] \in S THEN Append(K[n - 1], s[n]) ELSE K[n - 1]
    <2>1. 0 \in 0 .. N /\ \A n \in 1 .. N : n \in 0 .. N /\ n # 0
      BY <1>1
    <2>2. QED
      BY <2>1, <1>6
  <1>10. QED
    BY <1>7, <1>8, <1>9

\* The same, of steps known only by name.
Kept(f, s, S, T) ==
    /\ f \in [0 .. Len(s) -> Seq(T)] /\ f[0] = <<>> /\ Only(s, S) = f[Len(s)]
    /\ \A n \in 1 .. Len(s) :
         f[n] = IF s[n] \in S THEN Append(f[n - 1], s[n]) ELSE f[n - 1]

LEMMA OnlyKeeps == \A T, S : \A s \in Seq(T) : \E f : Kept(f, s, S, T)
  <1>1. ASSUME NEW T, NEW S, NEW s \in Seq(T) PROVE \E f : Kept(f, s, S, T)
    <2>1. PICK f \in [0 .. Len(s) -> Seq(T)] :
            /\ f[0] = <<>> /\ Only(s, S) = f[Len(s)]
            /\ \A n \in 1 .. Len(s) :
                 f[n] = IF s[n] \in S THEN Append(f[n - 1], s[n]) ELSE f[n - 1]
      BY OnlySteps
    <2>2. QED
      BY <2>1 DEF Kept
  <1>2. QED
    BY <1>1

LEMMA OnlyFacts ==
    ASSUME NEW T, NEW s \in Seq(T), NEW S
    PROVE  /\ Only(s, S) \in Seq(T) /\ Names(Only(s, S)) = Names(s) \cap S
           /\ Distinct(s) => Distinct(Only(s, S))
  <1>1. PICK f \in [0 .. Len(s) -> Seq(T)] :
          /\ f[0] = <<>> /\ Only(s, S) = f[Len(s)]
          /\ \A n \in 1 .. Len(s) : f[n] = IF s[n] \in S THEN Append(f[n - 1], s[n]) ELSE f[n - 1]
    BY OnlySteps
  <1> DEFINE First(n) == {s[i] : i \in 1 .. n}
             Good(n) == /\ Names(f[n]) = First(n) \cap S
                        /\ Distinct(s) => Distinct(f[n])
             G == {n \in Nat : n <= Len(s) => Good(n)}
  <1>2. 0 \in G
    BY <1>1 DEF Names, Distinct
  <1>3. ASSUME NEW n \in Nat, n \in G PROVE n + 1 \in G
    <2>1. SUFFICES ASSUME n + 1 <= Len(s) PROVE Good(n + 1)
      <3> HIDE DEF Good
      <3>1. QED
        OBVIOUS
    <2>2. /\ n \in 0 .. Len(s) /\ n + 1 \in 1 .. Len(s) /\ (n + 1) - 1 = n /\ Good(n)
          /\ f[n] \in Seq(T) /\ s[n + 1] \in T
      <3>1. Len(s) \in Nat /\ n <= Len(s)
        BY <2>1
      <3>2. Good(n)
        <4> HIDE DEF Good
        <4>1. QED
          BY <1>3, <3>1
      <3>3. n \in 0 .. Len(s) /\ n + 1 \in 1 .. Len(s) /\ (n + 1) - 1 = n
        BY <2>1, <3>1
      <3>4. QED
        BY <1>1, <3>2, <3>3
    <2>3. f[n + 1] = IF s[n + 1] \in S THEN Append(f[n], s[n + 1]) ELSE f[n]
      BY <1>1, <2>2
    <2>4. First(n + 1) = First(n) \cup {s[n + 1]}
      <3>1. 1 .. n + 1 = (1 .. n) \cup {n + 1}
        OBVIOUS
      <3>2. QED
        BY <3>1
    <2>5. CASE s[n + 1] \notin S
      BY <2>2, <2>3, <2>4, <2>5
    <2>6. CASE s[n + 1] \in S
      <3> DEFINE x == s[n + 1]
                 g == Append(f[n], x)
      <3>1. /\ Len(g) = Len(f[n]) + 1 /\ g[Len(g)] = x /\ Len(f[n]) \in Nat
            /\ \A i \in 1 .. Len(f[n]) : g[i] = f[n][i]
        BY <2>2
      <3>2. 1 .. Len(g) = (1 .. Len(f[n])) \cup {Len(g)}
        BY <3>1
      <3>3. Names(g) = Names(f[n]) \cup {x}
        <4> HIDE DEF g, x
        <4>1. x \in Names(g)
          BY <3>1, <3>2 DEF Names
        <4>2. ASSUME NEW i \in 1 .. Len(g) PROVE g[i] \in Names(f[n]) \cup {x}
          BY <3>1, <3>2 DEF Names
        <4>3. ASSUME NEW i \in 1 .. Len(f[n]) PROVE f[n][i] \in Names(g)
          BY <3>1, <3>2 DEF Names
        <4>4. QED
          BY <4>1, <4>2, <4>3 DEF Names
      <3>4. ASSUME Distinct(s) PROVE Distinct(g)
        <4>1. x \notin Names(f[n])
          BY <2>2, <3>4 DEF Distinct
        <4>2. Distinct(f[n])
          BY <2>2, <3>4
        <4> HIDE DEF g, x
        <4>3. QED
          BY <3>1, <3>2, <4>1, <4>2 DEF Distinct, Names
      <3>5. f[n + 1] = g
        BY <2>3, <2>6
      <3> HIDE DEF g
      <3>6. QED
        BY <2>2, <2>4, <2>6, <3>3, <3>4, <3>5
    <2>7. QED
      BY <2>5, <2>6
  <1> HIDE DEF G
  <1>4. Len(s) \in G /\ Len(s) \in Nat
    BY <1>2, <1>3, Induct
  <1>5. Good(Len(s)) /\ First(Len(s)) = Names(s) /\ f[Len(s)] \in Seq(T)
    BY <1>1, <1>4 DEF G, Names
  <1>6. QED
    BY <1>1, <1>5

LEMMA DistinctJoins ==
    ASSUME NEW T, NEW s \in Seq(T), NEW t \in Seq(T)
    PROVE  /\ s \o t \in Seq(T) /\ Names(s \o t) = Names(s) \cup Names(t)
           /\ Distinct(s) /\ Distinct(t) /\ Names(s) \cap Names(t) = {} => Distinct(s \o t)
  <1> DEFINE st == s \o t
  <1>1. /\ st \in Seq(T) /\ Len(st) = Len(s) + Len(t) /\ Len(s) \in Nat /\ Len(t) \in Nat
        /\ \A i \in 1 .. Len(s) : st[i] = s[i]
        /\ \A i \in 1 .. Len(t) : Len(s) + i \in 1 .. Len(st) /\ st[Len(s) + i] = t[i]
    OBVIOUS
  <1>2. \A i \in 1 .. Len(st) : i \in 1 .. Len(s) \/ (i - Len(s) \in 1 .. Len(t) /\ st[i] = t[i - Len(s)])
    <2>1. \A i \in 1 .. Len(st) : i \in 1 .. Len(s) \/ (i - Len(s) \in 1 .. Len(t) /\ i = Len(s) + (i - Len(s)))
      BY <1>1
    <2>2. QED
      BY <1>1, <2>1
  <1> HIDE DEF st
  <1>3. Names(st) = Names(s) \cup Names(t)
    <2>1. ASSUME NEW i \in 1 .. Len(st) PROVE st[i] \in Names(s) \cup Names(t)
      BY <1>1, <1>2 DEF Names
    <2>2. ASSUME NEW i \in 1 .. Len(s) PROVE s[i] \in Names(st)
      <3>1. i \in 1 .. Len(st)
        BY <1>1
      <3>2. QED
        BY <3>1, <1>1 DEF Names
    <2>3. ASSUME NEW i \in 1 .. Len(t) PROVE t[i] \in Names(st)
      BY <1>1 DEF Names
    <2>4. QED
      BY <2>1, <2>2, <2>3 DEF Names
  <1>4. ASSUME Distinct(s), Distinct(t), Names(s) \cap Names(t) = {} PROVE Distinct(st)
    <2>1. \A i \in 1 .. Len(s), j \in 1 .. Len(t) : s[i] # t[j]
      BY <1>4 DEF Names
    <2>2. SUFFICES ASSUME NEW i \in 1 .. Len(st), NEW j \in 1 .. Len(st), st[i] = st[j] PROVE i = j
      BY DEF Distinct
    <2>3. CASE i \in 1 .. Len(s) /\ j \in 1 .. Len(s)
      BY <1>1, <1>4, <2>2, <2>3 DEF Distinct
    <2>4. CASE i \notin 1 .. Len(s) /\ j \notin 1 .. Len(s)
      <3>1. i - Len(s) = j - Len(s)
        BY <1>2, <1>4, <2>2, <2>4 DEF Distinct
      <3>2. QED
        BY <3>1, <1>1
    <2>5. QED
      BY <1>1, <1>2, <2>1, <2>2, <2>3, <2>4
  <1>5. QED
    BY <1>1, <1>3, <1>4 DEF st

-----------------------------------------------------------------------------
(* LiveUpdates: the queue of updates and its card.                          *)

Upds == Updates!Updates

UpdatesBounds ==
    /\ NoConvo \notin Convos /\ Convos # {} /\ NoUpdate \notin Upds /\ CheckIns \cap Replies = {}
    /\ SeenCap \in Nat \ {0} /\ QueueCap \in Nat \ {0}
    /\ UpdateBudgets \subseteq [said : Nat, moves : Nat]
    /\ IsFiniteSet(Upds) /\ Cardinality(Upds) <= SeenCap

Stores == [read : BOOLEAN, seen : Seq(Upds), gone : Seq(Upds)]
Faces == Updates!Item \cup {Updates!NoItem}
Lives == [convo : Convos \cup {NoConvo}, seen : Seq(Upds), gone : Seq(Upds),
          active : Faces, queue : Seq(Updates!Item), kept : Stores,
          shown : Upds \cup {NoUpdate}, ended : Upds \cup {NoUpdate},
          hidden : BOOLEAN, timer : BOOLEAN, paused : BOOLEAN]

\* What no step of the queue touches.
SameFlags(k, m) ==
    /\ m.convo = k.convo /\ m.shown = k.shown /\ m.ended = k.ended
    /\ m.hidden = k.hidden /\ m.timer = k.timer /\ m.paused = k.paused

\* The card m has the lists of k but for what is given.
Made(k, m, s, g, a, q, p) ==
    /\ m \in Lives /\ SameFlags(k, m)
    /\ m.seen = s /\ m.gone = g /\ m.active = a /\ m.queue = q /\ m.kept = p

Store(s, g) == [read |-> TRUE, seen |-> s, gone |-> g]

LEMMA LivesTyped ==
    ASSUME NEW k \in Lives
    PROVE  /\ k.convo \in Convos \cup {NoConvo} /\ k.seen \in Seq(Upds) /\ k.gone \in Seq(Upds)
           /\ k.active \in Faces /\ k.queue \in Seq(Updates!Item) /\ k.kept \in Stores
           /\ k.shown \in Upds \cup {NoUpdate} /\ k.ended \in Upds \cup {NoUpdate}
           /\ k.hidden \in BOOLEAN /\ k.timer \in BOOLEAN /\ k.paused \in BOOLEAN
  BY DEF Lives

\* A list of distinct elements is no longer than its set.
LEMMA FitsIn ==
    ASSUME NEW S, IsFiniteSet(S), NEW s \in Seq(S), Distinct(s)
    PROVE  Len(s) <= Cardinality(S)
  <1>1. /\ IsFiniteSet(1 .. Len(s)) /\ Cardinality(1 .. Len(s)) = Len(s) /\ Len(s) \in Nat
    <2>1. Len(s) \in Nat
      OBVIOUS
    <2>2. IsFiniteSet(1 .. Len(s)) /\ Cardinality(1 .. Len(s)) = IF 1 > Len(s) THEN 0 ELSE Len(s) - 1 + 1
      BY <2>1, FS_Interval
    <2>3. QED
      BY <2>1, <2>2
  <1>2. s \in [1 .. Len(s) -> S]
    OBVIOUS
  <1>3. s \in Injection(1 .. Len(s), S)
    BY <1>2 DEF Distinct, Injection, IsInjective
  <1>4. Cardinality(1 .. Len(s)) <= Cardinality(S)
    BY <1>1, <1>3, FS_Injection
  <1>5. QED
    BY <1>1, <1>4

LEMMA AppendFacts ==
    ASSUME NEW T, NEW s \in Seq(T), NEW x \in T
    PROVE  /\ Append(s, x) \in Seq(T) /\ Names(Append(s, x)) = Names(s) \cup {x}
           /\ Distinct(s) /\ x \notin Names(s) => Distinct(Append(s, x))
  <1> DEFINE w == Append(s, x)
  <1>1. /\ w \in Seq(T) /\ Len(w) = Len(s) + 1 /\ w[Len(s) + 1] = x
        /\ \A i \in 1 .. Len(s) : w[i] = s[i]
        /\ Len(s) \in Nat
    OBVIOUS
  <1> HIDE DEF w
  <1>2. 1 .. Len(w) = (1 .. Len(s)) \cup {Len(s) + 1}
    BY <1>1
  <1>3. Names(w) = Names(s) \cup {x}
    <2>1. \A i \in 1 .. Len(w) : w[i] \in Names(s) \cup {x}
      BY <1>1, <1>2 DEF Names
    <2>2. \A i \in 1 .. Len(s) : s[i] \in Names(w)
      BY <1>1, <1>2 DEF Names
    <2>3. x \in Names(w)
      BY <1>1, <1>2 DEF Names
    <2>4. QED
      BY <2>1, <2>2, <2>3 DEF Names
  <1>4. ASSUME Distinct(s), x \notin Names(s) PROVE Distinct(w)
    <2>1. \A i \in 1 .. Len(s) : s[i] # x
      BY <1>4 DEF Names
    <2>2. QED
      BY <1>1, <1>2, <1>4, <2>1 DEF Distinct
  <1>5. QED
    BY <1>1, <1>3, <1>4 DEF w

LEMMA LatestIsAll ==
    ASSUME NEW T, NEW s \in Seq(T), NEW n \in Nat, Len(s) <= n
    PROVE  Updates!Latest(s, n) = s
  <1>1. Len(s) \in Nat /\ ~(Len(s) > n)
    OBVIOUS
  <1>2. Updates!Latest(s, n) = SubSeq(s, 1, Len(s))
    BY Zenon, <1>1 DEF Updates!Latest
  <1>3. QED
    BY <1>2, SubSeqFull

\* The last n of a list: nothing that was not there, and nothing twice.
LEMMA LatestIsPart ==
    ASSUME NEW T, NEW s \in Seq(T), NEW n \in Nat \ {0}
    PROVE  LET l == Updates!Latest(s, n) IN
           /\ l \in Seq(T) /\ \E d \in Nat : \A i \in 1 .. Len(l) : i + d \in 1 .. Len(s) /\ l[i] = s[i + d]
  <1> DEFINE d == IF Len(s) > n THEN Len(s) - n ELSE 0
             l == SubSeq(s, d + 1, Len(s))
  <1>1. Len(s) \in Nat /\ d \in Nat /\ d <= Len(s)
    OBVIOUS
  <1>2. Updates!Latest(s, n) = l
    BY <1>1 DEF Updates!Latest
  <1>3. l \in Seq(T) /\ Len(l) = Len(s) - d /\ \A i \in 1 .. Len(l) : l[i] = s[i + d]
    <2> HIDE DEF d
    <2>1. QED
      BY <1>1
  <1>4. \A i \in 1 .. Len(l) : i + d \in 1 .. Len(s)
    <2> HIDE DEF d, l
    <2>1. QED
      BY <1>1, <1>3
  <1>5. QED
    BY <1>1, <1>2, <1>3, <1>4

LEMMA AddFacts ==
    ASSUME NEW s \in Seq(Upds), NEW i \in Upds, Distinct(s)
    PROVE  /\ Updates!Add(s, i) \in Seq(Upds) /\ Names(Updates!Add(s, i)) = Names(s) \cup {i}
           /\ Distinct(Updates!Add(s, i))
  <1>1. Updates!Range(s) = Names(s)
    BY DEF Updates!Range, Names
  <1>2. QED
    BY <1>1, AppendFacts DEF Updates!Add

LEMMA SeenFits ==
    ASSUME UpdatesBounds, NEW s \in Seq(Upds), Distinct(s)
    PROVE  Updates!Latest(s, SeenCap) = s
  <1>1. Len(s) \in Nat /\ Len(s) <= Cardinality(Upds) /\ Cardinality(Upds) \in Nat
    BY FitsIn, FS_CardinalityType DEF UpdatesBounds
  <1>2. Len(s) <= SeenCap /\ SeenCap \in Nat
    BY <1>1 DEF UpdatesBounds
  <1>3. QED
    BY <1>2, LatestIsAll

LEMMA MarkedMade ==
    ASSUME UpdatesBounds, NEW k \in Lives, NEW i \in Upds, Distinct(k.seen), Distinct(k.gone)
    PROVE  LET s == Updates!Add(k.seen, i) IN
           Made(k, Updates!Marked(k, i), s, k.gone, k.active, k.queue, Store(s, k.gone))
  <1> DEFINE s == Updates!Add(k.seen, i)
             m == [k EXCEPT !.seen = s]
             n == [m EXCEPT !.kept = Store(s, k.gone)]
  <1>1. k.seen \in Seq(Upds) /\ k.gone \in Seq(Upds)
    BY LivesTyped
  <1>2. s \in Seq(Upds) /\ Distinct(s)
    BY <1>1, AddFacts
  <1> HIDE DEF s
  <1>3. Updates!Latest(s, SeenCap) = s /\ Updates!Latest(k.gone, SeenCap) = k.gone
    BY <1>1, <1>2, SeenFits
  <1>4. m \in Lives /\ m.seen = s /\ m.gone = k.gone /\ SameFlags(k, m)
        /\ m.active = k.active /\ m.queue = k.queue
    BY <1>2 DEF Lives, SameFlags
  <1>5. Updates!Marked(k, i) = Updates!Persisted(m)
    BY <1>3 DEF Updates!Marked, s
  <1>6. Updates!Persisted(m) = n
    BY <1>3, <1>4 DEF Updates!Persisted, Store
  <1>7. Store(s, k.gone) \in Stores
    BY <1>1, <1>2 DEF Store, Stores
  <1>8. Made(k, n, s, k.gone, k.active, k.queue, Store(s, k.gone))
    <2> HIDE DEF m
    <2>1. QED
      BY <1>4, <1>7 DEF Made, Lives, SameFlags
  <1>9. QED
    BY <1>5, <1>6, <1>8 DEF s

LEMMA TombstonedMade ==
    ASSUME UpdatesBounds, NEW k \in Lives, NEW i \in Upds, Distinct(k.seen), Distinct(k.gone)
    PROVE  LET s == Updates!Add(k.seen, i)
               g == Updates!Add(k.gone, i)
           IN  Made(k, Updates!Tombstoned(k, i), s, g, k.active, k.queue, Store(s, g))
  <1> DEFINE s == Updates!Add(k.seen, i)
             g == Updates!Add(k.gone, i)
             m == [k EXCEPT !.seen = s, !.gone = g]
             n == [m EXCEPT !.kept = Store(s, g)]
  <1>1. k.seen \in Seq(Upds) /\ k.gone \in Seq(Upds)
    BY LivesTyped
  <1>2. s \in Seq(Upds) /\ Distinct(s) /\ g \in Seq(Upds) /\ Distinct(g)
    BY <1>1, AddFacts
  <1> HIDE DEF s, g
  <1>3. Updates!Latest(s, SeenCap) = s /\ Updates!Latest(g, SeenCap) = g
    BY <1>2, SeenFits
  <1>4. m \in Lives /\ m.seen = s /\ m.gone = g /\ SameFlags(k, m)
        /\ m.active = k.active /\ m.queue = k.queue
    BY <1>2 DEF Lives, SameFlags
  <1>5. Updates!Tombstoned(k, i) = Updates!Persisted(m)
    BY <1>3 DEF Updates!Tombstoned, s, g
  <1>6. Updates!Persisted(m) = n
    BY <1>3, <1>4 DEF Updates!Persisted, Store
  <1>7. Store(s, g) \in Stores
    BY <1>2 DEF Store, Stores
  <1>8. Made(k, n, s, g, k.active, k.queue, Store(s, g))
    <2> HIDE DEF m
    <2>1. QED
      BY <1>4, <1>7 DEF Made, Lives, SameFlags
  <1>9. QED
    BY <1>5, <1>6, <1>8 DEF s, g

\* The updates of a queue, each there once.
IdsOf(q) == {x.id : x \in Names(q)}
Once(q) == \A i, j \in 1 .. Len(q) : q[i].id = q[j].id => i = j

LEMMA OnceForm ==
    ASSUME NEW q \in Seq(Updates!Item)
    PROVE  Once(q) <=> Distinct(q) /\ \A x, y \in Names(q) : x.id = y.id => x = y
  <1>1. Len(q) \in Nat
    OBVIOUS
  <1>2. QED
    BY <1>1 DEF Once, Distinct, Names

LEMMA IdsAreOf ==
    ASSUME NEW k \in Lives
    PROVE  /\ Updates!Ids(k) = IdsOf(k.queue) /\ IdsOf(k.queue) \subseteq Upds
           /\ Names(k.queue) \subseteq Updates!Item
  <1>1. k.queue \in Seq(Updates!Item)
    BY LivesTyped
  <1>2. DOMAIN k.queue = 1 .. Len(k.queue) /\ Names(k.queue) \subseteq Updates!Item
    BY <1>1 DEF Names
  <1>3. \A x \in Updates!Item : x.id \in Upds
    BY DEF Updates!Item, Upds
  <1>4. Updates!Ids(k) = IdsOf(k.queue)
    BY <1>2 DEF Updates!Ids, IdsOf, Names
  <1>5. QED
    BY <1>2, <1>3, <1>4 DEF IdsOf

LEMMA QueueFilters ==
    ASSUME NEW q \in Seq(Updates!Item), NEW S
    PROVE  LET o == Updates!Only(q, Updates!Waiting(S)) IN
           /\ o \in Seq(Updates!Item) /\ IdsOf(o) = IdsOf(q) \ S /\ (Once(q) => Once(o))
           /\ Names(o) \subseteq Names(q)
  <1> DEFINE W == Updates!Waiting(S)
             o == Only(q, W)
  <1>1. Updates!Only(q, W) = o
    BY DEF Updates!Only, Only
  <1>2. /\ o \in Seq(Updates!Item) /\ Names(o) = Names(q) \cap W
        /\ Distinct(q) => Distinct(o)
    <2> HIDE DEF W
    <2>1. QED
      BY OnlyFacts
  <1> HIDE DEF o
  <1>3. Names(q) \subseteq Updates!Item
    BY DEF Names
  <1>4. IdsOf(o) = IdsOf(q) \ S
    BY <1>2, <1>3 DEF IdsOf, Updates!Waiting
  <1>5. Once(q) => Once(o)
    BY <1>2, OnceForm
  <1>6. QED
    BY <1>1, <1>2, <1>4, <1>5

LEMMA QueueGrows ==
    ASSUME UpdatesBounds, NEW q \in Seq(Updates!Item), NEW x \in Updates!Item, Once(q), x.id \notin IdsOf(q)
    PROVE  LET a == Append(q, x)
               l == Updates!Latest(a, QueueCap)
           IN  /\ l \in Seq(Updates!Item) /\ Names(l) \subseteq Names(q) \cup {x} /\ Once(l)
               /\ a \in Seq(Updates!Item) /\ Names(a) = Names(q) \cup {x} /\ Once(a)
  <1> DEFINE a == Append(q, x)
             l == Updates!Latest(a, QueueCap)
  <1>1. x \notin Names(q)
    BY DEF IdsOf
  <1>2. a \in Seq(Updates!Item) /\ Names(a) = Names(q) \cup {x} /\ (Distinct(q) => Distinct(a))
    BY <1>1, AppendFacts
  <1> HIDE DEF a
  <1>3. Once(a)
    BY <1>2, OnceForm DEF IdsOf
  <1>4. /\ l \in Seq(Updates!Item)
        /\ \E d \in Nat : \A i \in 1 .. Len(l) : i + d \in 1 .. Len(a) /\ l[i] = a[i + d]
    BY LatestIsPart, <1>2 DEF UpdatesBounds
  <1> HIDE DEF l
  <1>5. PICK d \in Nat : \A i \in 1 .. Len(l) : i + d \in 1 .. Len(a) /\ l[i] = a[i + d]
    BY <1>4
  <1>6. Names(l) \subseteq Names(a)
    BY <1>5 DEF Names
  <1>7. Once(l)
    <2>1. SUFFICES ASSUME NEW i \in 1 .. Len(l), NEW j \in 1 .. Len(l), l[i].id = l[j].id PROVE i = j
      BY DEF Once
    <2>2. i + d = j + d
      BY <1>3, <1>5, <2>1 DEF Once
    <2>3. QED
      BY <2>2, <1>4
  <1>8. QED
    BY <1>2, <1>3, <1>4, <1>6, <1>7 DEF l, a

\* A queue whose updates are all in a set of at most QueueCap drops none.
LEMMA QueueFits ==
    ASSUME UpdatesBounds, NEW q \in Seq(Updates!Item), Once(q), NEW W, IsFiniteSet(W), IdsOf(q) \subseteq W,
           Cardinality(W) <= QueueCap
    PROVE  Updates!Latest(q, QueueCap) = q
  <1> DEFINE s == [i \in 1 .. Len(q) |-> q[i].id]
  <1>1. Len(q) \in Nat
    OBVIOUS
  <1>2. s \in Seq(W) /\ Len(s) = Len(q)
    <2>1. \A i \in 1 .. Len(q) : s[i] \in W
      BY DEF IdsOf, Names
    <2>2. QED
      BY <1>1, <2>1
  <1>3. Distinct(s)
    BY <1>1, <1>2 DEF Once, Distinct
  <1> HIDE DEF s
  <1>4. Len(q) <= Cardinality(W) /\ Cardinality(W) \in Nat /\ QueueCap \in Nat
    BY <1>2, <1>3, FitsIn, FS_CardinalityType DEF UpdatesBounds
  <1>5. QED
    BY <1>1, <1>4, LatestIsAll

LEMMA QueueMoves ==
    ASSUME NEW q \in Seq(Updates!Item), Once(q), q # <<>>
    PROVE  /\ Head(q) \in Names(q) /\ Tail(q) \in Seq(Updates!Item) /\ Once(Tail(q))
           /\ Names(Tail(q)) = Names(q) \ {Head(q)} /\ Head(q).id \notin IdsOf(Tail(q))
           /\ IdsOf(q) = IdsOf(Tail(q)) \cup {Head(q).id}
  <1>1. /\ Len(q) \in Nat \ {0} /\ Head(q) = q[1] /\ Tail(q) \in Seq(Updates!Item)
        /\ Len(Tail(q)) = Len(q) - 1 /\ \A i \in 1 .. Len(q) - 1 : Tail(q)[i] = q[i + 1]
    OBVIOUS
  <1>2. \A i \in 1 .. Len(q) : i = 1 \/ (i - 1 \in 1 .. Len(q) - 1 /\ Tail(q)[i - 1] = q[i])
    <2>1. SUFFICES ASSUME NEW i \in 1 .. Len(q), i # 1
                   PROVE  i - 1 \in 1 .. Len(q) - 1 /\ Tail(q)[i - 1] = q[i]
      OBVIOUS
    <2>2. i - 1 \in 1 .. Len(q) - 1 /\ (i - 1) + 1 = i
      BY <1>1, <2>1
    <2>3. Tail(q)[i - 1] = q[(i - 1) + 1]
      BY <1>1, <2>2
    <2>4. QED
      BY <2>2, <2>3
  <1>3. 1 \in 1 .. Len(q) /\ \A i \in 1 .. Len(q) - 1 : i + 1 \in 1 .. Len(q) /\ i + 1 # 1
    BY <1>1
  <1> DEFINE t == Tail(q)
             h == Head(q)
  <1> HIDE DEF t, h
  <1>4. /\ h = q[1] /\ Len(t) = Len(q) - 1 /\ \A i \in 1 .. Len(q) - 1 : t[i] = q[i + 1]
        /\ \A i \in 1 .. Len(q) : i = 1 \/ (i - 1 \in 1 .. Len(q) - 1 /\ t[i - 1] = q[i])
    BY <1>1, <1>2 DEF t, h
  <1>5. h \in Names(q)
    BY <1>3, <1>4 DEF Names
  <1>6. \A x \in Names(t) : x \in Names(q) /\ x.id # h.id
    <2>1. SUFFICES ASSUME NEW i \in 1 .. Len(q) - 1 PROVE t[i] \in Names(q) /\ t[i].id # h.id
      BY <1>4 DEF Names
    <2>2. QED
      BY <1>3, <1>4 DEF Names, Once
  <1>7. Names(q) \subseteq Names(t) \cup {h}
    BY <1>4 DEF Names
  <1>8. Once(t)
    <2>1. SUFFICES ASSUME NEW i \in 1 .. Len(q) - 1, NEW j \in 1 .. Len(q) - 1, t[i].id = t[j].id PROVE i = j
      BY <1>4 DEF Once
    <2>2. i + 1 = j + 1
      BY <1>3, <1>4, <2>1 DEF Once
    <2>3. QED
      BY <2>2, <1>1
  <1>9. Names(t) = Names(q) \ {h} /\ h.id \notin IdsOf(t) /\ IdsOf(q) = IdsOf(t) \cup {h.id}
    BY <1>5, <1>6, <1>7 DEF IdsOf
  <1>10. QED
    BY <1>1, <1>5, <1>8, <1>9 DEF t, h

\* A queue in which update i has another status.
Relabelled(q, i, status) ==
    [n \in DOMAIN q |-> IF q[n].id = i THEN [q[n] EXCEPT !.status = status] ELSE q[n]]

LEMMA QueueBecomes ==
    ASSUME NEW q \in Seq(Updates!Item), Once(q), NEW i, NEW status \in {"writing", "complete"}
    PROVE  LET b == Relabelled(q, i, status) IN
           /\ b \in Seq(Updates!Item) /\ IdsOf(b) = IdsOf(q) /\ Once(b)
           /\ \A x \in Names(b) : x \in Names(q) \/ (x.id = i /\ x.status = status)
  <1> DEFINE b == Relabelled(q, i, status)
  <1>1. Len(q) \in Nat /\ DOMAIN q = 1 .. Len(q) /\ \A n \in 1 .. Len(q) : q[n] \in Updates!Item
    OBVIOUS
  <1>2. \A n \in 1 .. Len(q) : /\ b[n] \in Updates!Item /\ b[n].id = q[n].id
                               /\ b[n] = q[n] \/ (b[n].id = i /\ b[n].status = status)
    BY <1>1 DEF Updates!Item, Relabelled
  <1>3. b \in Seq(Updates!Item) /\ Len(b) = Len(q)
    BY <1>1, <1>2 DEF Relabelled
  <1> HIDE DEF b
  <1>4. Once(b)
    BY <1>2, <1>3 DEF Once
  <1>5. \A x \in Names(b) : x \in Names(q) \/ (x.id = i /\ x.status = status)
    BY <1>2, <1>3 DEF Names
  <1>6. IdsOf(b) = IdsOf(q)
    <2>1. \A n \in 1 .. Len(q) : b[n].id \in IdsOf(q) /\ q[n].id \in IdsOf(b)
      BY <1>2, <1>3 DEF IdsOf, Names
    <2>2. QED
      BY <1>3, <2>1 DEF IdsOf, Names
  <1>7. QED
    BY <1>3, <1>4, <1>5, <1>6 DEF b

\* What the service has said, and what it may still say.
RowsOf(c) == Names(speech.rows[c])
Streams == speech.stream.status # "none"
Writing(i) == speech.stream.status = "writing" /\ speech.stream.item = i

SaidInv ==
    /\ speech \in [rows : [Convos -> Seq(Upds)], stream : Updates!Frame, open : Convos,
                   begun : SUBSET CheckIns, reply : BOOLEAN]
    /\ \A c \in Convos : RowsOf(c) \cap CheckIns \subseteq speech.begun /\ Distinct(speech.rows[c])
    /\ \A c, d \in Convos : c # d => RowsOf(c) \cap RowsOf(d) = {}
    /\ Streams => speech.stream.item \in speech.begun
    /\ ~Streams => speech.stream = Updates!NoFrame
    /\ speech.stream.status = "complete" => speech.stream.item \in RowsOf(speech.open)
    /\ speech.stream.status \in {"writing", "interrupted"}
         => \A c \in Convos : speech.stream.item \notin RowsOf(c)

\* An update that conversation c can never hold: it is another's, or not said yet.
Foreign(i, c) ==
    \/ \E d \in Convos \ {c} : i \in RowsOf(d)
    \/ Streams /\ speech.stream.item = i /\ speech.open # c
    \/ i \in CheckIns \ speech.begun
    \/ i \in Replies /\ \A d \in Convos : i \notin RowsOf(d)
HomeOf(c) == {i \in Upds : ~Foreign(i, c)}

KnownIn(k) == IdsOf(k.queue) \cup ({k.active.id} \ {NoUpdate})

Tidy(k) ==
    /\ k \in Lives /\ k.convo \in Convos
    /\ Distinct(k.seen) /\ Distinct(k.gone) /\ Names(k.gone) \subseteq Names(k.seen)
    /\ Once(k.queue) /\ k.active.id \notin IdsOf(k.queue)
    /\ \A x \in Names(k.queue) \cup {k.active} : x.status = "complete" => x.id \in RowsOf(k.convo)
    /\ KnownIn(k) \cup Names(k.seen) \subseteq HomeOf(k.convo)

\* What the card knows is stored.
Stored(k) ==
    /\ k.kept.read /\ Distinct(k.kept.seen) /\ Distinct(k.kept.gone)
    /\ Names(k.seen) \subseteq Names(k.kept.seen) /\ Names(k.gone) \subseteq Names(k.kept.gone)
    /\ Names(k.kept.gone) \subseteq Names(k.kept.seen) /\ Names(k.kept.seen) \subseteq HomeOf(k.convo)

\* Update i was shown: the card has it, or will not take it up again.
MetIn(i, k) ==
    /\ i \in RowsOf(k.convo) => i \in Names(k.seen)
    /\ i \in KnownIn(k) => i = k.active.id /\ i \in Names(k.seen)
    /\ Writing(i) /\ speech.open = k.convo => k.active.id = i \/ i \in Names(k.gone)

\* ... and off the card.
Shut(i, k) == MetIn(i, k) /\ i \notin KnownIn(k)

\* All that can come into the queue of k is in W, and the queue can hold it.
Room(k, W) ==
    /\ IsFiniteSet(W) /\ Cardinality(W) <= QueueCap /\ speech.stream.item \in W
    /\ IdsOf(k.queue) \subseteq W /\ RowsOf(k.convo) \ Names(k.seen) \subseteq W

\* The card m follows card k in a reconciliation that presents H elsewhere.
Follows(k, m, H, W) ==
    /\ Tidy(m) /\ Stored(m) /\ SameFlags(k, m)
    /\ Names(k.seen) \subseteq Names(m.seen) /\ Names(m.seen) \subseteq Names(k.seen) \cup H
    /\ Names(m.kept.seen) \subseteq Names(k.kept.seen) \cup Names(k.seen) \cup H
    /\ m.active.id \in {k.active.id, NoUpdate}
    /\ \A i \in Upds : MetIn(i, k) => MetIn(i, m) /\ (i \notin KnownIn(k) => i \notin KnownIn(m))
    /\ Room(k, W) => /\ IdsOf(m.queue) \subseteq W
                     /\ Names(k.seen) \cup KnownIn(k) \subseteq Names(m.seen) \cup KnownIn(m)

LEMMA FollowsSelf ==
    ASSUME NEW k, Tidy(k), Stored(k), NEW H, NEW W
    PROVE  Follows(k, k, H, W)
  BY DEF Follows, SameFlags, Room

LEMMA FollowsOn ==
    ASSUME NEW k, NEW m, NEW n, NEW H, NEW W, Follows(k, m, H, W), Follows(m, n, H, W)
    PROVE  Follows(k, n, H, W)
  <1>1. Tidy(n) /\ Stored(n) /\ SameFlags(k, n)
    BY DEF Follows, SameFlags
  <1>2. /\ Names(k.seen) \subseteq Names(n.seen) /\ Names(n.seen) \subseteq Names(k.seen) \cup H
        /\ Names(n.kept.seen) \subseteq Names(k.kept.seen) \cup Names(k.seen) \cup H
        /\ n.active.id \in {k.active.id, NoUpdate}
    BY DEF Follows
  <1>3. \A i \in Upds : MetIn(i, k) => MetIn(i, n) /\ (i \notin KnownIn(k) => i \notin KnownIn(n))
    BY DEF Follows
  <1>4. Room(k, W) => Room(m, W)
    BY DEF Follows, Room, SameFlags
  <1>5. Room(k, W) => /\ IdsOf(n.queue) \subseteq W
                      /\ Names(k.seen) \cup KnownIn(k) \subseteq Names(n.seen) \cup KnownIn(n)
    BY <1>4 DEF Follows
  <1>6. QED
    BY <1>1, <1>2, <1>3, <1>5 DEF Follows

LEMMA NoItemIsNone ==
    ASSUME UpdatesBounds
    PROVE  /\ Updates!NoItem \in Faces /\ Updates!NoItem.id = NoUpdate /\ Updates!NoItem.status = "none"
           /\ NoUpdate \notin Upds
           /\ \A x \in Updates!Item : x.id \in Upds /\ x # Updates!NoItem /\ x.status \in {"writing", "complete"}
           /\ \A x \in Faces : x \in Updates!Item \/ x = Updates!NoItem
  BY DEF UpdatesBounds, Faces, Updates!NoItem, Updates!Item, Upds

\* What the rows and the stream of a conversation tell is of that conversation.
LEMMA SaidAtHome ==
    ASSUME UpdatesBounds, SaidInv
    PROVE  /\ \A c \in Convos : RowsOf(c) \subseteq HomeOf(c)
           /\ Streams => speech.stream.item \in HomeOf(speech.open) /\ speech.stream.item \in CheckIns
           /\ \A c, d \in Convos : c # d => HomeOf(c) \cap RowsOf(d) = {}
           /\ \A c \in Convos : c # speech.open /\ Streams => speech.stream.item \notin HomeOf(c)
  <1>1. \A c \in Convos : RowsOf(c) \subseteq Upds
    BY DEF SaidInv, RowsOf, Names
  <1>2. Upds = CheckIns \cup Replies
    BY DEF Upds, Updates!Updates
  <1>3. speech.begun \subseteq CheckIns /\ speech.open \in Convos
    BY DEF SaidInv
  <1>4. speech.stream.status \in {"none", "writing", "complete", "interrupted"}
    BY DEF SaidInv, Updates!Frame
  <1>5. ASSUME NEW c \in Convos, NEW i \in RowsOf(c) PROVE ~Foreign(i, c)
    BY <1>1, <1>2, <1>3, <1>4, <1>5 DEF SaidInv, Foreign, Streams
  <1>6. ASSUME Streams PROVE ~Foreign(speech.stream.item, speech.open) /\ speech.stream.item \in CheckIns
    <2>1. speech.stream.item \in speech.begun /\ speech.stream.item \notin Replies
      BY <1>3, <1>6 DEF SaidInv, UpdatesBounds
    <2>2. \A d \in Convos \ {speech.open} : speech.stream.item \notin RowsOf(d)
      <3>1. speech.stream.status \in {"writing", "complete", "interrupted"}
        BY <1>4, <1>6 DEF Streams
      <3>2. QED
        BY <3>1, <1>3 DEF SaidInv
    <2>3. QED
      BY <1>3, <2>1, <2>2 DEF Foreign
  <1>7. \A c, d \in Convos : c # d => HomeOf(c) \cap RowsOf(d) = {}
    BY DEF HomeOf, Foreign
  <1>8. \A c \in Convos : c # speech.open /\ Streams => speech.stream.item \notin HomeOf(c)
    BY DEF HomeOf, Foreign
  <1>9. QED
    BY <1>1, <1>2, <1>5, <1>6, <1>7, <1>8 DEF HomeOf

\* A card whose lists of seen updates are as stored, or just grew.
StoreFits(k, s, g) ==
    /\ s \in Seq(Upds) /\ g \in Seq(Upds) /\ Distinct(s) /\ Distinct(g)
    /\ Names(g) \subseteq Names(s) /\ Names(s) \subseteq HomeOf(k.convo)

LEMMA StoresSoFar ==
    ASSUME NEW k, NEW m, NEW s, NEW g, NEW a, NEW q, Made(k, m, s, g, a, q, Store(s, g)), StoreFits(k, s, g)
    PROVE  Stored(m) /\ Names(m.kept.seen) = Names(s)
  BY DEF Made, Store, StoreFits, Stored, SameFlags

LEMMA ForgottenMade ==
    ASSUME UpdatesBounds, NEW k, NEW m \in Lives, NEW s, NEW g, NEW a, NEW q, NEW p,
           Made(k, m, s, g, a, q, p), NEW i \in Upds
    PROVE  Made(k, Updates!Forgotten(m, i), s, g, IF a.id = i THEN Updates!NoItem ELSE a,
                Updates!Only(q, Updates!Waiting({i})), p)
  <1> DEFINE b == IF a.id = i THEN Updates!NoItem ELSE a
             o == Updates!Only(q, Updates!Waiting({i}))
             n == [m EXCEPT !.active = b, !.queue = o]
  <1>1. m.active = a /\ m.queue = q /\ q \in Seq(Updates!Item) /\ a \in Faces
    BY LivesTyped DEF Made
  <1>2. o \in Seq(Updates!Item)
    BY <1>1, QueueFilters
  <1>3. b \in Faces
    BY <1>1, NoItemIsNone
  <1>4. Updates!Forgotten(m, i) = n
    BY <1>1 DEF Updates!Forgotten
  <1> HIDE DEF b, o
  <1>5. Made(k, n, s, g, b, o, p)
    BY <1>2, <1>3 DEF Made, Lives, SameFlags
  <1>6. QED
    BY <1>4, <1>5 DEF b, o

\* Taken as seen and off the card: a reply read in the chat, or a withdrawn draft.
LEMMA WithdrawnFollows ==
    ASSUME UpdatesBounds, SaidInv, NEW k, Tidy(k), Stored(k), NEW H, NEW W,
           NEW i \in HomeOf(k.convo), i \in H, ~Writing(i)
    PROVE  LET m == Updates!Forgotten(Updates!Marked(k, i), i) IN
           Follows(k, m, H, W) /\ Shut(i, m)
  <1> DEFINE s == Updates!Add(k.seen, i)
             g == k.gone
             b == IF k.active.id = i THEN Updates!NoItem ELSE k.active
             o == Updates!Only(k.queue, Updates!Waiting({i}))
             m == Updates!Forgotten(Updates!Marked(k, i), i)
  <1>1. /\ k \in Lives /\ i \in Upds /\ Distinct(k.seen) /\ Distinct(k.gone) /\ k.seen \in Seq(Upds)
        /\ k.gone \in Seq(Upds) /\ k.queue \in Seq(Updates!Item) /\ k.active \in Faces
    BY LivesTyped DEF Tidy, HomeOf
  <1>2. Made(k, Updates!Marked(k, i), s, g, k.active, k.queue, Store(s, g))
    BY <1>1, MarkedMade
  <1>3. Made(k, m, s, g, b, o, Store(s, g))
    <2>1. Updates!Marked(k, i) \in Lives
      BY <1>2 DEF Made
    <2> HIDE DEF s, g
    <2>2. QED
      BY <1>1, <1>2, <2>1, ForgottenMade
  <1>4. s \in Seq(Upds) /\ Distinct(s) /\ Names(s) = Names(k.seen) \cup {i}
    BY <1>1, AddFacts
  <1>5. /\ o \in Seq(Updates!Item) /\ IdsOf(o) = IdsOf(k.queue) \ {i} /\ Once(o)
        /\ Names(o) \subseteq Names(k.queue)
    BY <1>1, QueueFilters DEF Tidy
  <1>6. b.id # i /\ b.id \in {k.active.id, NoUpdate} /\ b \in {k.active, Updates!NoItem}
        /\ (k.active.id # i => b = k.active)
    BY <1>1, NoItemIsNone
  <1> HIDE DEF s, b, o, m
  <1>7. m \in Lives /\ SameFlags(k, m) /\ m.seen = s /\ m.gone = k.gone /\ m.active = b /\ m.queue = o
    BY <1>3 DEF Made
  <1>8. KnownIn(m) = KnownIn(k) \ {i}
    <2>1. {b.id} \ {NoUpdate} = ({k.active.id} \ {NoUpdate}) \ {i}
      BY <1>6, NoItemIsNone
    <2>2. QED
      BY <1>5, <1>7, <2>1 DEF KnownIn
  <1>9. Tidy(m)
    <2>1. m.convo = k.convo /\ m.convo \in Convos /\ Distinct(m.seen) /\ Distinct(m.gone)
          /\ Names(m.gone) \subseteq Names(m.seen) /\ Once(m.queue)
      BY <1>4, <1>5, <1>7 DEF Tidy, SameFlags
    <2>2. m.active.id \notin IdsOf(m.queue)
      <3>1. IdsOf(k.queue) \subseteq Upds
        BY <1>1, IdsAreOf
      <3>2. QED
        BY <1>5, <1>6, <1>7, <3>1, NoItemIsNone DEF Tidy
    <2>3. \A x \in Names(m.queue) \cup {m.active} : x.status = "complete" => x.id \in RowsOf(m.convo)
      BY <1>5, <1>6, <1>7, <2>1, NoItemIsNone DEF Tidy
    <2>4. KnownIn(m) \cup Names(m.seen) \subseteq HomeOf(m.convo)
      BY <1>4, <1>7, <1>8, <2>1 DEF Tidy
    <2>5. QED
      BY <1>7, <2>1, <2>2, <2>3, <2>4 DEF Tidy
  <1>10. Stored(m) /\ Names(m.kept.seen) = Names(s)
    <2>1. StoreFits(k, s, g)
      BY <1>1, <1>4 DEF StoreFits, Tidy
    <2>2. QED
      BY <1>3, <2>1, StoresSoFar
  <1>11. ASSUME NEW j \in Upds, MetIn(j, k)
         PROVE  MetIn(j, m) /\ (j \notin KnownIn(k) => j \notin KnownIn(m))
    <2>1. m.convo = k.convo
      BY <1>7 DEF SameFlags
    <2>2. j \in RowsOf(m.convo) => j \in Names(m.seen)
      BY <1>4, <1>7, <1>11, <2>1 DEF MetIn
    <2>3. j \in KnownIn(m) => j = m.active.id /\ j \in Names(m.seen)
      BY <1>4, <1>6, <1>7, <1>8, <1>11 DEF MetIn
    <2>4. Writing(j) /\ speech.open = m.convo => m.active.id = j \/ j \in Names(m.gone)
      BY <1>6, <1>7, <1>11, <2>1 DEF MetIn
    <2>5. QED
      BY <1>8, <2>2, <2>3, <2>4 DEF MetIn
  <1>12. /\ Names(m.seen) = Names(k.seen) \cup {i} /\ i \in H
         /\ Names(m.kept.seen) = Names(k.seen) \cup {i}
         /\ m.active.id \in {k.active.id, NoUpdate} /\ IdsOf(m.queue) \subseteq IdsOf(k.queue)
    BY <1>4, <1>5, <1>6, <1>7, <1>10
  <1>13. Room(k, W) => /\ IdsOf(m.queue) \subseteq W
                       /\ Names(k.seen) \cup KnownIn(k) \subseteq Names(m.seen) \cup KnownIn(m)
    BY <1>8, <1>12 DEF Room
  <1>14. Follows(k, m, H, W)
    <2>1. SameFlags(k, m)
      BY <1>7
    <2>2. QED
      BY <1>9, <1>10, <1>11, <1>12, <1>13, <2>1 DEF Follows
  <1>16. Shut(i, m)
    BY <1>8, <1>12 DEF Shut, MetIn
  <1>15. QED
    BY <1>14, <1>16 DEF m

\* A waiting or shown update gets its status.
LEMMA BecameFollows ==
    ASSUME UpdatesBounds, SaidInv, NEW k, Tidy(k), Stored(k), NEW H, NEW W,
           NEW i \in Upds, NEW status \in {"writing", "complete"},
           status = "complete" => i \in RowsOf(k.convo)
    PROVE  LET m == Updates!Became(k, i, status) IN
           Follows(k, m, H, W) /\ KnownIn(m) = KnownIn(k)
  <1> DEFINE a == IF k.active.id = i THEN [k.active EXCEPT !.status = status] ELSE k.active
             b == Relabelled(k.queue, i, status)
             m == [k EXCEPT !.active = a, !.queue = b]
  <1>1. /\ k \in Lives /\ k.queue \in Seq(Updates!Item) /\ k.active \in Faces /\ Once(k.queue)
    BY LivesTyped DEF Tidy
  <1>2. Updates!Became(k, i, status) = m
    BY <1>1 DEF Updates!Became, Relabelled
  <1>3. /\ b \in Seq(Updates!Item) /\ IdsOf(b) = IdsOf(k.queue) /\ Once(b)
        /\ \A x \in Names(b) : x \in Names(k.queue) \/ (x.id = i /\ x.status = status)
    BY <1>1, QueueBecomes
  <1>4. a \in Faces /\ a.id = k.active.id /\ (a = k.active \/ (a.id = i /\ a.status = status))
    <2>1. CASE k.active.id # i
      BY <1>1, <2>1
    <2>2. CASE k.active.id = i
      <3>1. k.active \in Updates!Item
        BY <1>1, <2>2, NoItemIsNone
      <3>2. QED
        BY <2>2, <3>1 DEF Updates!Item, Faces
    <2>3. QED
      BY <2>1, <2>2
  <1> HIDE DEF a, b
  <1>5. /\ m \in Lives /\ SameFlags(k, m) /\ m.seen = k.seen /\ m.gone = k.gone /\ m.active = a /\ m.queue = b
        /\ m.kept = k.kept
    BY <1>1, <1>3, <1>4 DEF Lives, SameFlags
  <1> HIDE DEF m
  <1>6. KnownIn(m) = KnownIn(k) /\ m.active.id = k.active.id /\ m.convo = k.convo
    BY <1>3, <1>4, <1>5 DEF KnownIn, SameFlags
  <1>7. Tidy(m)
    <2>1. \A x \in Names(m.queue) \cup {m.active} : x.status = "complete" => x.id \in RowsOf(m.convo)
      BY <1>3, <1>4, <1>5, <1>6 DEF Tidy
    <2>2. QED
      BY <1>3, <1>5, <1>6, <2>1 DEF Tidy
  <1>8. Stored(m)
    BY <1>5, <1>6 DEF Stored
  <1>9. ASSUME NEW j \in Upds, MetIn(j, k) PROVE MetIn(j, m)
    BY <1>5, <1>6, <1>9 DEF MetIn
  <1>10. Follows(k, m, H, W)
    BY <1>3, <1>5, <1>6, <1>7, <1>8, <1>9 DEF Follows, Room
  <1>11. QED
    BY <1>2, <1>6, <1>10

\* An update that is new to the card waits for it; one that was shown does not.
LEMMA EnqueuedFollows ==
    ASSUME UpdatesBounds, SaidInv, NEW k, Tidy(k), Stored(k), NEW H, NEW W,
           NEW i \in HomeOf(k.convo), NEW status \in {"writing", "complete"}, NEW allow \in BOOLEAN,
           status = "complete" => i \in RowsOf(k.convo),
           (i \in RowsOf(k.convo) /\ ~allow) \/ (Writing(i) /\ speech.open = k.convo)
    PROVE  LET m == Updates!Enqueued(k, i, status, allow) IN
           Follows(k, m, H, W) /\ (Room(k, W) => i \in Names(m.seen) \cup KnownIn(m))
  <1> DEFINE x == [id |-> i, status |-> status]
             w == Append(k.queue, x)
             l == Updates!Latest(w, QueueCap)
             m == [k EXCEPT !.queue = l]
             Stays == \/ i \in Names(k.gone) \/ (~allow /\ i \in Names(k.seen))
                      \/ k.active.id = i \/ i \in IdsOf(k.queue)
  <1>1. /\ k \in Lives /\ k.queue \in Seq(Updates!Item) /\ k.active \in Faces
        /\ i \in Upds /\ i # NoUpdate /\ x \in Updates!Item
    BY LivesTyped, NoItemIsNone DEF Tidy, HomeOf, Updates!Item, Upds
  <1>2. Updates!Range(k.gone) = Names(k.gone) /\ Updates!Range(k.seen) = Names(k.seen)
        /\ Updates!Ids(k) = IdsOf(k.queue) /\ IdsOf(k.queue) \subseteq Upds
    <2>1. k.gone \in Seq(Upds) /\ k.seen \in Seq(Upds)
      BY <1>1, LivesTyped
    <2>2. QED
      BY <1>1, <2>1, IdsAreOf DEF Updates!Range, Names
  <1>3. Updates!Enqueued(k, i, status, allow) = IF Stays THEN k ELSE m
    BY <1>2 DEF Updates!Enqueued
  <1>4. CASE Stays
    <2>1. i \in Names(k.seen) \cup KnownIn(k)
      BY <1>1, <1>4 DEF KnownIn, Tidy
    <2>2. Follows(k, k, H, W)
      BY FollowsSelf
    <2>3. QED
      BY <1>3, <1>4, <2>1, <2>2
  <1>5. CASE ~Stays
    <2> HIDE DEF x, w, l
    <2>1. /\ l \in Seq(Updates!Item) /\ Names(l) \subseteq Names(k.queue) \cup {x} /\ Once(l)
          /\ w \in Seq(Updates!Item) /\ Names(w) = Names(k.queue) \cup {x} /\ Once(w)
      <3>1. x.id \notin IdsOf(k.queue) /\ Once(k.queue)
        BY <1>5 DEF x, Tidy
      <3>2. QED
        BY <1>1, <3>1, QueueGrows DEF w, l
    <2>2. /\ m \in Lives /\ SameFlags(k, m) /\ m.seen = k.seen /\ m.gone = k.gone /\ m.active = k.active
          /\ m.queue = l /\ m.kept = k.kept
      BY <1>1, <2>1 DEF Lives, SameFlags
    <2> HIDE DEF m
    <2>3. IdsOf(l) \subseteq IdsOf(k.queue) \cup {i} /\ IdsOf(w) = IdsOf(k.queue) \cup {i} /\ m.convo = k.convo
          /\ KnownIn(m) \subseteq KnownIn(k) \cup {i}
      <3>1. IdsOf(l) \subseteq IdsOf(k.queue) \cup {i} /\ IdsOf(w) = IdsOf(k.queue) \cup {i}
        <4>1. x.id = i
          BY DEF x
        <4>2. QED
          BY <2>1, <4>1 DEF IdsOf
      <3>2. m.convo = k.convo
        BY <2>2 DEF SameFlags
      <3>3. QED
        BY <2>2, <3>1, <3>2 DEF KnownIn
    <2>4. Tidy(m)
      <3>1. \A y \in Names(m.queue) \cup {m.active} : y.status = "complete" => y.id \in RowsOf(m.convo)
        BY <2>1, <2>2, <2>3 DEF Tidy, x
      <3>2. KnownIn(m) \cup Names(m.seen) \subseteq HomeOf(m.convo)
        BY <2>2, <2>3 DEF Tidy
      <3>3. m.active.id \notin IdsOf(m.queue)
        BY <1>5, <2>2, <2>3 DEF Tidy
      <3>4. QED
        BY <2>1, <2>2, <2>3, <3>1, <3>2, <3>3 DEF Tidy
    <2>5. Stored(m)
      BY <2>2, <2>3 DEF Stored
    <2>6. ~MetIn(i, k)
      BY <1>1, <1>5 DEF MetIn
    <2>7. ASSUME NEW j \in Upds, MetIn(j, k)
          PROVE  MetIn(j, m) /\ (j \notin KnownIn(k) => j \notin KnownIn(m))
      <3>1. j # i
        BY <2>6, <2>7
      <3>2. QED
        BY <2>2, <2>3, <2>7, <3>1 DEF MetIn
    <2>8. Room(k, W) => IdsOf(l) \subseteq W /\ IdsOf(l) = IdsOf(k.queue) \cup {i}
      <3>1. SUFFICES ASSUME Room(k, W) PROVE IdsOf(l) \subseteq W /\ IdsOf(l) = IdsOf(k.queue) \cup {i}
        OBVIOUS
      <3>2. i \in W
        BY <1>5, <3>1 DEF Room, Writing
      <3>3. IdsOf(w) \subseteq W
        BY <2>3, <3>1, <3>2 DEF Room
      <3>4. l = w
        BY <2>1, <3>1, <3>3, QueueFits DEF Room, l
      <3>5. QED
        BY <2>3, <3>3, <3>4
    <2>9. Room(k, W) => /\ IdsOf(m.queue) \subseteq W /\ i \in KnownIn(m)
                        /\ Names(k.seen) \cup KnownIn(k) \subseteq Names(m.seen) \cup KnownIn(m)
      BY <2>2, <2>8 DEF KnownIn
    <2>10. Follows(k, m, H, W)
      BY <2>2, <2>4, <2>5, <2>7, <2>9 DEF Follows
    <2>11. QED
      BY <1>3, <1>5, <2>9, <2>10
  <1>6. QED
    BY <1>4, <1>5

LEMMA RoomStays ==
    ASSUME NEW k, NEW m, NEW H, NEW W, Follows(k, m, H, W), Room(k, W)
    PROVE  Room(m, W) /\ Names(k.seen) \cup KnownIn(k) \subseteq Names(m.seen) \cup KnownIn(m)
  BY DEF Follows, Room, SameFlags

\* What the replies read in the open chat are.
ReadThere(c, suppress, defer) == IF suppress /\ ~defer THEN RowsOf(c) \cap Replies ELSE {}

LEMMA ToldFollows ==
    ASSUME UpdatesBounds, SaidInv, NEW k, Tidy(k), Stored(k), NEW H, NEW W,
           NEW i \in RowsOf(k.convo), NEW suppress, NEW defer, ReadThere(k.convo, suppress, defer) \subseteq H
    PROVE  LET m == Updates!Told(k, i, suppress, defer) IN
           /\ Follows(k, m, H, W) /\ (Room(k, W) => i \in Names(m.seen) \cup KnownIn(m))
           /\ i \in ReadThere(k.convo, suppress, defer) => Shut(i, m)
  <1>1. i \in HomeOf(k.convo) /\ k.convo \in Convos /\ i \in Upds /\ i # NoUpdate
    BY SaidAtHome, NoItemIsNone DEF Tidy, HomeOf
  <1>2. Updates!Ids(k) = IdsOf(k.queue)
    BY IdsAreOf DEF Tidy
  <1>3. CASE i \in Replies /\ suppress /\ ~defer
    <2>1. i \in H
      BY <1>3 DEF ReadThere
    <2>2. ~Writing(i)
      BY <1>1 DEF SaidInv, Writing
    <2>3. Updates!Told(k, i, suppress, defer) = Updates!Forgotten(Updates!Marked(k, i), i)
      BY <1>3 DEF Updates!Told
    <2> DEFINE m == Updates!Forgotten(Updates!Marked(k, i), i)
    <2>4. Follows(k, m, H, W) /\ Shut(i, m)
      BY <1>1, <2>1, <2>2, WithdrawnFollows
    <2> HIDE DEF m
    <2>5. i \in Names(m.seen)
      BY <2>4 DEF Shut, MetIn, Follows, SameFlags
    <2>6. QED
      BY <2>3, <2>4, <2>5 DEF m
  <1>4. CASE ~(i \in Replies /\ suppress /\ ~defer) /\ (k.active.id = i \/ i \in Updates!Ids(k))
    <2>1. Updates!Told(k, i, suppress, defer) = Updates!Became(k, i, "complete")
      BY <1>4 DEF Updates!Told
    <2>2. i \in KnownIn(k)
      BY <1>1, <1>2, <1>4 DEF KnownIn
    <2> DEFINE m == Updates!Became(k, i, "complete")
    <2>3. Follows(k, m, H, W) /\ KnownIn(m) = KnownIn(k)
      BY <1>1, BecameFollows
    <2> HIDE DEF m
    <2>4. i \notin ReadThere(k.convo, suppress, defer)
      BY <1>4 DEF ReadThere
    <2>5. QED
      BY <2>1, <2>2, <2>3, <2>4 DEF m
  <1>5. CASE ~(i \in Replies /\ suppress /\ ~defer) /\ ~(k.active.id = i \/ i \in Updates!Ids(k))
    <2>1. Updates!Told(k, i, suppress, defer) = Updates!Enqueued(k, i, "complete", FALSE)
      BY <1>5 DEF Updates!Told
    <2>2. i \notin ReadThere(k.convo, suppress, defer)
      BY <1>5 DEF ReadThere
    <2>3. QED
      BY <1>1, <2>1, <2>2, EnqueuedFollows
  <1>6. QED
    BY <1>3, <1>4, <1>5

\* Heeded is a course of steps.
Telling(T, rows, suppress, defer) ==
    \A t \in T : \A n \in 1 .. Len(rows) : Updates!Told(t, rows[n], suppress, defer) \in T
Heeds(f, T, k, rows, suppress, defer) ==
    /\ f \in [0 .. Len(rows) -> T]
    /\ f[0] = k /\ Updates!Heeded(k, rows, suppress, defer) = f[Len(rows)]
    /\ \A n \in 1 .. Len(rows) : f[n] = Updates!Told(f[n - 1], rows[n], suppress, defer)

\* The steps of Heeded: some function takes them.
LEMMA HeededSteps ==
    ASSUME NEW T, NEW k \in T, NEW rows \in Seq(Upds), NEW suppress, NEW defer,
           Telling(T, rows, suppress, defer)
    PROVE  \E f : Heeds(f, T, k, rows, suppress, defer)
  <1> DEFINE N == Len(rows)
             Step(t, n) == Updates!Told(t, rows[n], suppress, defer)
             Body(f) == [n \in 0 .. N |-> IF n = 0 THEN k ELSE Step(f[n - 1], n)]
             g == [n \in 1 .. N |-> [t \in T |-> Step(t, n)]]
             K == CHOOSE f : f = Body(f)
  <1>1. N \in Nat
    OBVIOUS
  <1>7. Updates!Heeded(k, rows, suppress, defer) = K[N]
    BY DEF Updates!Heeded
  <1>0. \A t \in T : \A n \in 1 .. N : Step(t, n) \in T
    BY DEF Telling
  <1> HIDE DEF Step
  <1>2. g \in [1 .. N -> [T -> T]]
    BY <1>0
  <1>3. PICK f \in [0 .. N -> T] : f[0] = k /\ \A n \in 1 .. N : f[n] = g[n][f[n - 1]]
    <2>1. k \in T /\ N \in Nat /\ StepsIn(g, N, T)
      BY <1>1, <1>2 DEF StepsIn
    <2> HIDE DEF g, N
    <2>2. \E f : Course(f, T, k, N, g)
      BY <2>1, Iterates, Zenon
    <2>3. QED
      BY <2>2 DEF Course
  <1>4. \A n \in 1 .. N : f[n] = Step(f[n - 1], n)
    <2>1. SUFFICES ASSUME NEW n \in 1 .. N PROVE f[n] = Step(f[n - 1], n)
      OBVIOUS
    <2>2. n - 1 \in 0 .. N /\ f[n - 1] \in T
      BY <1>1, <1>3
    <2>3. f[n] = g[n][f[n - 1]]
      BY <2>2, <1>3
    <2>4. QED
      BY <2>2, <2>3
  <1>5. f = Body(f)
    <2>1. \A n \in 0 .. N : f[n] = Body(f)[n]
      <3>1. SUFFICES ASSUME NEW n \in 0 .. N PROVE f[n] = Body(f)[n]
        OBVIOUS
      <3>2. CASE n = 0
        BY <3>2, <1>3
      <3>3. CASE n # 0
        <4>1. n \in 1 .. N
          BY <3>3, <1>1
        <4>2. QED
          BY <4>1, <3>3, <1>4
      <3>4. QED
        BY <3>2, <3>3
    <2>2. QED
      BY <1>3, <2>1
  <1>6. K = Body(K)
    BY <1>5
  <1> HIDE DEF K
  <1>8. DOMAIN K = 0 .. N /\ K[0] = k /\ \A n \in 1 .. N : K[n] = Step(K[n - 1], n)
    <2>1. 0 \in 0 .. N /\ \A n \in 1 .. N : n \in 0 .. N /\ n # 0
      BY <1>1
    <2>2. QED
      BY <2>1, <1>6
  <1>9. K \in [0 .. N -> T]
    <2> DEFINE Q == {n \in Nat : n <= N => K[n] \in T}
    <2>1. 0 \in Q
      BY <1>8
    <2>2. ASSUME NEW n \in Nat, n \in Q PROVE n + 1 \in Q
      <3>1. SUFFICES ASSUME n + 1 <= N PROVE K[n + 1] \in T
        OBVIOUS
      <3>2. n + 1 \in 1 .. N /\ (n + 1) - 1 = n /\ K[n] \in T
        BY <2>2, <3>1, <1>1
      <3>3. K[n + 1] = Step(K[n], n + 1)
        BY <3>2, <1>8
      <3>4. QED
        BY <3>2, <3>3, <1>0
    <2> HIDE DEF Q
    <2>3. \A n \in Nat : n \in Q
      BY <2>1, <2>2, Induct
    <2>4. \A n \in 0 .. N : K[n] \in T
      BY <2>3, <1>1 DEF Q
    <2>5. K = [n \in 0 .. N |-> K[n]]
      BY <1>6
    <2>6. QED
      BY <2>4, <2>5
  <1>10. QED
    BY <1>7, <1>8, <1>9 DEF Step, Heeds

LEMMA HeededCourse ==
    \A T, k, rows, suppress, defer :
        k \in T /\ rows \in Seq(Upds) /\ Telling(T, rows, suppress, defer)
            => \E f : Heeds(f, T, k, rows, suppress, defer)
  BY HeededSteps

\* A card that has heeded every row has each of them, or has seen it, if there is room.
LEMMA HeededFollows ==
    ASSUME UpdatesBounds, SaidInv, NEW k, Tidy(k), Stored(k), NEW H, NEW W,
           NEW suppress, NEW defer, ReadThere(k.convo, suppress, defer) \subseteq H
    PROVE  LET m == Updates!Heeded(k, speech.rows[k.convo], suppress, defer) IN
           /\ Follows(k, m, H, W)
           /\ Room(k, W) => RowsOf(k.convo) \subseteq Names(m.seen) \cup KnownIn(m)
           /\ \A i \in ReadThere(k.convo, suppress, defer) : Shut(i, m)
  <1> DEFINE rows == speech.rows[k.convo]
             T == {t \in Lives : Follows(k, t, H, W)}
             N == Len(rows)
             Tells(t, n) == Updates!Told(t, rows[n], suppress, defer)
  <1>1. k.convo \in Convos /\ rows \in Seq(Upds) /\ N \in Nat
    BY DEF Tidy, SaidInv
  <1>2. k \in T
    BY FollowsSelf DEF Tidy
  <1>3. ASSUME NEW t, Follows(k, t, H, W), NEW n \in 1 .. N
        PROVE  /\ Follows(t, Tells(t, n), H, W) /\ Follows(k, Tells(t, n), H, W) /\ Tells(t, n) \in T
               /\ Room(t, W) => rows[n] \in Names(Tells(t, n).seen) \cup KnownIn(Tells(t, n))
               /\ rows[n] \in ReadThere(k.convo, suppress, defer) => Shut(rows[n], Tells(t, n))
    <2>1. Tidy(t) /\ Stored(t) /\ t.convo = k.convo /\ rows[n] \in RowsOf(t.convo)
      BY <1>1, <1>3 DEF Follows, SameFlags, RowsOf, Names
    <2>2. /\ Follows(t, Tells(t, n), H, W)
          /\ Room(t, W) => rows[n] \in Names(Tells(t, n).seen) \cup KnownIn(Tells(t, n))
          /\ rows[n] \in ReadThere(k.convo, suppress, defer) => Shut(rows[n], Tells(t, n))
      BY <2>1, ToldFollows
    <2> HIDE DEF Tells
    <2>3. Follows(k, Tells(t, n), H, W)
      BY <1>3, <2>2, FollowsOn
    <2>4. Tells(t, n) \in Lives
      BY <2>3 DEF Follows, Tidy
    <2>5. QED
      BY <2>2, <2>3, <2>4
  <1>4. PICK f \in [0 .. N -> T] :
          /\ f[0] = k /\ Updates!Heeded(k, rows, suppress, defer) = f[N]
          /\ \A n \in 1 .. N : f[n] = Tells(f[n - 1], n)
    <2>1. Telling(T, rows, suppress, defer)
      BY <1>3 DEF Telling
    <2> HIDE DEF T, rows
    <2>2. \E f : Heeds(f, T, k, rows, suppress, defer)
      BY <1>1, <1>2, <2>1, HeededCourse, Zenon
    <2>3. QED
      BY <2>2 DEF Heeds
  <1> HIDE DEF Tells
  <1>5. \A n \in 0 .. N : Follows(k, f[n], H, W)
    BY <1>4
  <1> HIDE DEF T, rows
  <1>6. ASSUME Room(k, W)
        PROVE  \A j \in 1 .. N : rows[j] \in Names(f[N].seen) \cup KnownIn(f[N])
    <2> DEFINE Q == {n \in Nat : n <= N => \A j \in 1 .. n : rows[j] \in Names(f[n].seen) \cup KnownIn(f[n])}
    <2>1. 0 \in Q
      OBVIOUS
    <2>2. ASSUME NEW n \in Nat, n \in Q PROVE n + 1 \in Q
      <3>1. SUFFICES ASSUME n + 1 <= N, NEW j \in 1 .. n + 1
                     PROVE  rows[j] \in Names(f[n + 1].seen) \cup KnownIn(f[n + 1])
        OBVIOUS
      <3>2. n \in 0 .. N /\ n + 1 \in 1 .. N /\ (n + 1) - 1 = n
        BY <1>1, <3>1
      <3>3. f[n + 1] = Tells(f[n], n + 1) /\ Follows(k, f[n], H, W)
        BY <1>4, <1>5, <3>2
      <3>4. Room(f[n], W)
        BY <1>6, <3>3, RoomStays
      <3>5. /\ Follows(f[n], f[n + 1], H, W)
            /\ rows[n + 1] \in Names(f[n + 1].seen) \cup KnownIn(f[n + 1])
        BY <1>3, <3>2, <3>3, <3>4
      <3>6. Names(f[n].seen) \cup KnownIn(f[n]) \subseteq Names(f[n + 1].seen) \cup KnownIn(f[n + 1])
        BY <3>4, <3>5, RoomStays
      <3>7. CASE j = n + 1
        BY <3>5, <3>7
      <3>8. CASE j # n + 1
        <4>1. j \in 1 .. n /\ n <= N
          BY <3>1, <3>2, <3>8
        <4>2. rows[j] \in Names(f[n].seen) \cup KnownIn(f[n])
          BY <2>2, <4>1
        <4>3. QED
          BY <3>6, <4>2
      <3>9. QED
        BY <3>7, <3>8
    <2> HIDE DEF Q
    <2>3. \A n \in Nat : n \in Q
      BY <2>1, <2>2, Induct
    <2>4. QED
      BY <1>1, <2>3 DEF Q
  <1>7. \A j \in 1 .. N : rows[j] \in ReadThere(k.convo, suppress, defer) => Shut(rows[j], f[N])
    <2> DEFINE Q == {n \in Nat : n <= N => \A j \in 1 .. n :
                        rows[j] \in ReadThere(k.convo, suppress, defer) => Shut(rows[j], f[n])}
    <2>1. 0 \in Q
      OBVIOUS
    <2>2. ASSUME NEW n \in Nat, n \in Q PROVE n + 1 \in Q
      <3>1. SUFFICES ASSUME n + 1 <= N, NEW j \in 1 .. n + 1,
                            rows[j] \in ReadThere(k.convo, suppress, defer)
                     PROVE  Shut(rows[j], f[n + 1])
        OBVIOUS
      <3>2. n \in 0 .. N /\ n + 1 \in 1 .. N /\ (n + 1) - 1 = n /\ j \in 1 .. N
        BY <1>1, <3>1
      <3>3. f[n + 1] = Tells(f[n], n + 1) /\ Follows(k, f[n], H, W)
        BY <1>4, <1>5, <3>2
      <3>4. /\ Follows(f[n], f[n + 1], H, W)
            /\ rows[n + 1] \in ReadThere(k.convo, suppress, defer) => Shut(rows[n + 1], f[n + 1])
        BY <1>3, <3>2, <3>3
      <3>5. CASE j = n + 1
        BY <3>1, <3>4, <3>5
      <3>6. CASE j # n + 1
        <4>1. j \in 1 .. n /\ n <= N
          BY <3>1, <3>2, <3>6
        <4>2. Shut(rows[j], f[n])
          BY <2>2, <3>1, <4>1
        <4>3. rows[j] \in Upds
          BY <1>1, <3>2
        <4>4. QED
          BY <3>4, <4>2, <4>3 DEF Follows, Shut
      <3>7. QED
        BY <3>5, <3>6
    <2> HIDE DEF Q
    <2>3. \A n \in Nat : n \in Q
      BY <2>1, <2>2, Induct
    <2>4. QED
      BY <1>1, <2>3 DEF Q
  <1>8. Follows(k, f[N], H, W)
    BY <1>1, <1>5
  <1>9. RowsOf(k.convo) = {rows[j] : j \in 1 .. N}
    BY DEF RowsOf, Names, rows
  <1>10. \A i \in ReadThere(k.convo, suppress, defer) : Shut(i, f[N])
    <2>1. ReadThere(k.convo, suppress, defer) \subseteq RowsOf(k.convo)
      BY DEF ReadThere
    <2>2. QED
      BY <1>7, <1>9, <2>1
  <1>11. QED
    BY <1>4, <1>6, <1>8, <1>9, <1>10 DEF rows

\* The stream, after the rows: a draft waits, a withdrawn one leaves the card.
LEMMA StreamedFollows ==
    ASSUME UpdatesBounds, SaidInv, NEW k, Tidy(k), Stored(k), k.convo = speech.open, NEW H, NEW W,
           speech.stream.status = "interrupted" => speech.stream.item \in H
    PROVE  LET m == Updates!Streamed(k, speech.stream) IN
           /\ Follows(k, m, H, W)
           /\ speech.stream.status = "interrupted" => Shut(speech.stream.item, m)
  <1> DEFINE f == speech.stream
             i == f.item
  <1>1. f.status \in {"none", "writing", "complete", "interrupted"}
    BY DEF SaidInv, Updates!Frame
  <1>2. CASE f.status = "none"
    <2>1. Updates!Streamed(k, f) = k
      BY <1>2 DEF Updates!Streamed
    <2>2. QED
      BY <1>2, <2>1, FollowsSelf
  <1>3. CASE f.status = "interrupted"
    <2>1. Updates!Streamed(k, f) = Updates!Forgotten(Updates!Marked(k, i), i)
      BY <1>3 DEF Updates!Streamed
    <2>2. i \in HomeOf(k.convo) /\ i \in H /\ ~Writing(i)
      BY <1>3, SaidAtHome DEF Streams, Writing
    <2>3. QED
      BY <2>1, <2>2, WithdrawnFollows
  <1>4. CASE f.status \in {"writing", "complete"}
    <2>1. \/ Updates!Streamed(k, f) = Updates!Became(k, i, f.status)
          \/ Updates!Streamed(k, f) = Updates!Enqueued(k, i, f.status, f.status = "writing")
      BY <1>4 DEF Updates!Streamed
    <2>2. i \in HomeOf(k.convo) /\ i \in Upds /\ (f.status = "complete" => i \in RowsOf(k.convo))
      BY <1>4, SaidAtHome DEF Streams, HomeOf, SaidInv
    <2>3. Follows(k, Updates!Became(k, i, f.status), H, W)
      BY <1>4, <2>2, BecameFollows
    <2>4. Follows(k, Updates!Enqueued(k, i, f.status, f.status = "writing"), H, W)
      <3> DEFINE a == f.status = "writing"
      <3>1. a \in BOOLEAN /\ ((i \in RowsOf(k.convo) /\ ~a) \/ (Writing(i) /\ speech.open = k.convo))
        BY <1>4, <2>2 DEF Writing
      <3> HIDE DEF a
      <3>2. Follows(k, Updates!Enqueued(k, i, f.status, a), H, W)
        BY <1>4, <2>2, <3>1, EnqueuedFollows
      <3>3. QED
        BY <3>2 DEF a
    <2>5. QED
      BY <1>4, <2>1, <2>3, <2>4
  <1>5. QED
    BY <1>1, <1>2, <1>3, <1>4

\* What a conversation has seen, on the card and stored.
Reads(c) == IF card.convo = c THEN Names(card.seen) ELSE Names(kept[c].seen)
Buries(c) == IF card.convo = c THEN Names(card.gone) ELSE Names(kept[c].gone)

\* Update i was said and then shown, read or withdrawn: it is not announced any more.
Met(i) ==
    /\ i \in CheckIns => i \in speech.begun
    /\ i \in Replies => \E c \in Convos : i \in RowsOf(c)
    /\ \A c \in Convos : i \in RowsOf(c) => i \in Reads(c)
    /\ i \in KnownIn(card) => i = card.active.id /\ i \in Names(card.seen)
    /\ Writing(i) => (card.convo = speech.open /\ card.active.id = i) \/ i \in Buries(speech.open)

KeptInv ==
    /\ kept \in [Convos -> Stores]
    /\ \A c \in Convos :
         /\ Distinct(kept[c].seen) /\ Distinct(kept[c].gone)
         /\ Names(kept[c].gone) \subseteq Names(kept[c].seen) /\ Names(kept[c].seen) \subseteq HomeOf(c)
         /\ ~kept[c].read => kept[c] = Updates!Unread

FaceInv ==
    /\ card \in Lives /\ view \in [away : BOOLEAN, chat : BOOLEAN]
    /\ card.hidden = (card.active = Updates!NoItem \/ ~Updates!Visible)
    /\ ~card.hidden => card.shown = card.active.id
    /\ card.timer => ~card.hidden

CardInv ==
    /\ card.convo = NoConvo
         => card.seen = <<>> /\ card.gone = <<>> /\ card.queue = <<>> /\ card.active = Updates!NoItem
    /\ card.convo # NoConvo
         => /\ Tidy(card) /\ kept[card.convo].read
            /\ Names(card.seen) \subseteq Names(kept[card.convo].seen)
            /\ Names(card.gone) \subseteq Names(kept[card.convo].gone)

HeardInv ==
    /\ heard \subseteq Upds /\ closed \subseteq Upds
    /\ Names(card.seen) \subseteq heard /\ \A c \in Convos : Names(kept[c].seen) \subseteq heard

MetInv ==
    /\ \A i \in closed \cup ({card.shown} \cap Upds) : Met(i)
    /\ closed \cap KnownIn(card) = {}

UpdInv == SaidInv /\ KeptInv /\ FaceInv /\ CardInv /\ HeardInv /\ MetInv

\* The card n takes up the open conversation; its list of seen updates grows by F.
Starts(n, F) ==
    /\ Tidy(n) /\ Stored(n) /\ n.convo = speech.open
    /\ n.shown = card.shown /\ n.ended = card.ended
    /\ n.hidden = card.hidden /\ n.timer = card.timer /\ n.paused = card.paused
    /\ n.active.id \in {card.active.id, NoUpdate}
    /\ Names(n.seen) \cup Names(n.kept.seen) \subseteq Names(kept[speech.open].seen) \cup F
    /\ \A i \in Upds : Met(i) => MetIn(i, n) /\ (i \notin KnownIn(card) => i \notin KnownIn(n))

LEMMA UnreadIs ==
    /\ Updates!Unread.read = FALSE /\ Updates!Unread.seen = <<>> /\ Updates!Unread.gone = <<>>
    /\ Names(<<>>) = {} /\ Distinct(<<>>) /\ Once(<<>>) /\ IdsOf(<<>>) = {}
    /\ <<>> \in Seq(Upds) /\ <<>> \in Seq(Updates!Item)
  <1>1. Len(<<>>) = 0
    OBVIOUS
  <1>2. 1 .. 0 = {}
    OBVIOUS
  <1>3. Names(<<>>) = {} /\ Distinct(<<>>) /\ Once(<<>>)
    BY <1>1, <1>2 DEF Names, Distinct, Once
  <1>4. QED
    BY <1>3 DEF Updates!Unread, IdsOf

\* synchronizeSeen, on the page that shows the open conversation.
LEMMA SynchronizedStarts ==
    ASSUME UpdatesBounds, UpdInv, card.convo = speech.open, NEW W
    PROVE  LET n == Updates!Synchronized(card) IN
           Starts(n, {}) /\ (Room(card, W) => Room(n, W))
  <1> DEFINE was == kept[card.convo]
             ext == Names(was.seen) \ Names(card.seen)
             o == Only(was.seen, ext)
             s == card.seen \o o
             q == Updates!Only(card.queue, Updates!Waiting(ext))
             a == IF card.active.status # "writing" /\ card.active.id \in ext THEN Updates!NoItem ELSE card.active
             n == [card EXCEPT !.kept = was, !.seen = s, !.queue = q, !.active = a]
  <1>1. /\ card \in Lives /\ card.convo \in Convos /\ card.convo # NoConvo /\ Tidy(card) /\ was.read
        /\ Names(card.seen) \subseteq Names(was.seen) /\ Names(card.gone) \subseteq Names(was.gone)
    BY DEF UpdInv, FaceInv, CardInv, SaidInv, UpdatesBounds
  <1>2. /\ was \in Stores /\ was.seen \in Seq(Upds) /\ was.gone \in Seq(Upds)
        /\ Distinct(was.seen) /\ Distinct(was.gone)
        /\ Names(was.gone) \subseteq Names(was.seen) /\ Names(was.seen) \subseteq HomeOf(card.convo)
    BY <1>1 DEF UpdInv, KeptInv, Stores
  <1>3. /\ card.seen \in Seq(Upds) /\ card.gone \in Seq(Upds) /\ card.queue \in Seq(Updates!Item)
        /\ card.active \in Faces
    BY <1>1, LivesTyped
  <1>4. Updates!Range(was.seen) = Names(was.seen) /\ Updates!Range(card.seen) = Names(card.seen)
    BY <1>2, <1>3 DEF Updates!Range, Names
  <1>5. Updates!Synchronized(card) = n
    BY <1>4 DEF Updates!Synchronized, Updates!Only, Only
  <1>6. o \in Seq(Upds) /\ Names(o) = ext /\ Distinct(o)
    <2> HIDE DEF ext
    <2>1. o \in Seq(Upds) /\ Names(o) = Names(was.seen) \cap ext /\ Distinct(o)
      BY <1>2, OnlyFacts
    <2>2. QED
      BY <2>1 DEF ext
  <1> HIDE DEF o
  <1>7. s \in Seq(Upds) /\ Names(s) = Names(was.seen) /\ Distinct(s)
    <2>1. s \in Seq(Upds) /\ Names(s) = Names(card.seen) \cup Names(o) /\ Distinct(s)
      BY <1>1, <1>3, <1>6, DistinctJoins DEF Tidy
    <2>2. QED
      BY <1>1, <1>6, <2>1
  <1>8. q \in Seq(Updates!Item) /\ IdsOf(q) = IdsOf(card.queue) \ ext /\ Once(q) /\ Names(q) \subseteq Names(card.queue)
    BY <1>1, <1>3, QueueFilters DEF Tidy
  <1>9. a \in {card.active, Updates!NoItem} /\ a \in Faces /\ (card.active.id \notin ext => a = card.active)
    BY <1>3, NoItemIsNone
  <1> HIDE DEF s, q, a
  <1>10. /\ n \in Lives /\ SameFlags(card, n) /\ n.seen = s /\ n.gone = card.gone /\ n.active = a /\ n.queue = q
         /\ n.kept = was
    BY <1>1, <1>2, <1>7, <1>8, <1>9 DEF Lives, SameFlags
  <1> HIDE DEF n
  <1>11. n.convo = card.convo /\ KnownIn(n) \subseteq KnownIn(card)
    BY <1>8, <1>9, <1>10, NoItemIsNone DEF KnownIn, SameFlags
  <1>12. Tidy(n)
    <2>1. \A x \in Names(n.queue) \cup {n.active} : x.status = "complete" => x.id \in RowsOf(n.convo)
      BY <1>1, <1>8, <1>9, <1>10, <1>11, NoItemIsNone DEF Tidy
    <2>2. n.active.id \notin IdsOf(n.queue)
      <3>1. IdsOf(card.queue) \subseteq Upds
        BY <1>1, IdsAreOf
      <3>2. QED
        BY <1>1, <1>8, <1>9, <1>10, <3>1, NoItemIsNone DEF Tidy
    <2>3. Names(n.gone) \subseteq Names(n.seen) /\ Distinct(n.gone)
      BY <1>1, <1>7, <1>10 DEF Tidy
    <2>4. KnownIn(n) \cup Names(n.seen) \subseteq HomeOf(n.convo)
      BY <1>1, <1>2, <1>7, <1>10, <1>11 DEF Tidy
    <2>5. QED
      BY <1>1, <1>7, <1>8, <1>10, <1>11, <2>1, <2>2, <2>3, <2>4 DEF Tidy
  <1>13. Stored(n)
    BY <1>1, <1>2, <1>7, <1>10, <1>11 DEF Stored
  <1>14. ASSUME NEW i \in Upds, Met(i) PROVE MetIn(i, n)
    <2>1. i \in RowsOf(n.convo) => i \in Names(n.seen)
      BY <1>1, <1>7, <1>10, <1>11, <1>14 DEF Met, Reads
    <2>2. i \in KnownIn(card) => n.active = card.active /\ i = n.active.id /\ i \in Names(n.seen)
      BY <1>1, <1>7, <1>9, <1>10, <1>14 DEF Met
    <2>3. Writing(i) => n.active.id = i \/ i \in Names(n.gone)
      <3>1. SUFFICES ASSUME Writing(i), i \notin Names(card.gone) PROVE n.active.id = i
        BY <1>10
      <3>2. card.active.id = i
        BY <1>14, <3>1 DEF Met, Buries
      <3>3. i \in KnownIn(card)
        BY <3>2, NoItemIsNone DEF KnownIn
      <3>4. QED
        BY <2>2, <3>3
    <2>4. QED
      BY <1>11, <2>1, <2>2, <2>3 DEF MetIn
  <1>15. Room(card, W) => Room(n, W)
    BY <1>1, <1>7, <1>8, <1>10, <1>11 DEF Room
  <1>16. Starts(n, {})
    <2>1. n.active.id \in {card.active.id, NoUpdate}
      BY <1>9, <1>10, NoItemIsNone
    <2>2. Names(n.seen) \cup Names(n.kept.seen) \subseteq Names(kept[speech.open].seen)
      BY <1>7, <1>10
    <2>3. QED
      BY <1>10, <1>11, <1>12, <1>13, <1>14, <2>1, <2>2 DEF Starts, SameFlags
  <1>17. QED
    BY <1>5, <1>15, <1>16

\* The card takes up a conversation it did not show.
LEMMA SwitchedStarts ==
    ASSUME UpdatesBounds, UpdInv, card.convo # speech.open, NEW W
    PROVE  LET c == speech.open
               n == Updates!Switched(card, c, speech.rows[c], speech.stream)
               F == IF Updates!First(c) THEN RowsOf(c) ELSE {}
           IN  /\ Starts(n, F)
               /\ Updates!First(c) => RowsOf(c) \subseteq Names(n.seen) /\ \A i \in RowsOf(c) : Shut(i, n)
               /\ IsFiniteSet(W) /\ Cardinality(W) <= QueueCap /\ speech.stream.item \in W /\ RowsOf(c) \subseteq W
                    => Room(n, W)
  <1> DEFINE c == speech.open
             rows == speech.rows[c]
             was == kept[c]
             F == IF Updates!First(c) THEN RowsOf(c) ELSE {}
             s == IF was.read THEN was.seen ELSE rows
             st == IF was.read THEN was ELSE Store(rows, was.gone)
             k == [card EXCEPT !.convo = c, !.active = Updates!NoItem, !.queue = <<>>, !.kept = was,
                               !.seen = s, !.gone = was.gone]
             p == [k EXCEPT !.kept = st]
             n == Updates!Switched(card, c, rows, speech.stream)
  <1>1. /\ card \in Lives /\ c \in Convos /\ rows \in Seq(Upds) /\ Distinct(rows) /\ Names(rows) = RowsOf(c)
        /\ RowsOf(c) \subseteq HomeOf(c) /\ SaidInv /\ (Updates!First(c) <=> ~was.read)
    BY SaidAtHome DEF UpdInv, FaceInv, SaidInv, RowsOf, Updates!First
  <1>2. /\ was \in Stores /\ was.seen \in Seq(Upds) /\ was.gone \in Seq(Upds) /\ was.read \in BOOLEAN
        /\ Distinct(was.seen) /\ Distinct(was.gone)
        /\ Names(was.gone) \subseteq Names(was.seen) /\ Names(was.seen) \subseteq HomeOf(c)
        /\ ~was.read => was = Updates!Unread
    BY <1>1 DEF UpdInv, KeptInv, Stores
  <1>3. s \in Seq(Upds) /\ Distinct(s) /\ Names(was.gone) \subseteq Names(s) /\ Names(s) \subseteq HomeOf(c)
        /\ Names(s) \subseteq Names(was.seen) \cup F /\ Names(was.seen) \subseteq Names(s)
        /\ (Updates!First(c) => Names(s) = RowsOf(c))
    BY <1>1, <1>2, UnreadIs
  <1>4. /\ st \in Stores /\ st.read = TRUE /\ st.seen = s /\ st.gone = was.gone
    BY <1>1, <1>2, <1>3 DEF Store, Stores
  <1>5. (IF was.read THEN k ELSE Updates!Persisted(k)) = p
    <2> HIDE DEF s, st
    <2>1. k \in Lives /\ k.seen = s /\ k.gone = was.gone
      BY <1>1, <1>2, <1>3, NoItemIsNone, UnreadIs DEF Lives
    <2>2. Updates!Latest(s, SeenCap) = s /\ Updates!Latest(was.gone, SeenCap) = was.gone
      BY <1>2, <1>3, SeenFits
    <2>3. CASE was.read
      <3>1. st = was
        BY <2>3 DEF st
      <3>2. QED
        BY <2>3, <3>1
    <2>4. CASE ~was.read
      <3>1. st = Store(s, was.gone)
        BY <2>4 DEF st, s
      <3>2. QED
        BY <2>1, <2>2, <2>4, <3>1 DEF Updates!Persisted, Store
    <2>5. QED
      BY <2>3, <2>4
  <1>6. n = IF speech.stream.status = "writing" THEN Updates!Enqueued(p, speech.stream.item, "writing", TRUE) ELSE p
    BY <1>5 DEF Updates!Switched
  <1> HIDE DEF n, F, st, s
  <1>7. /\ p \in Lives /\ p.seen = s /\ p.gone = was.gone /\ p.active = Updates!NoItem /\ p.queue = <<>>
        /\ p.kept = st /\ p.convo = c
        /\ p.shown = card.shown /\ p.ended = card.ended
        /\ p.hidden = card.hidden /\ p.timer = card.timer /\ p.paused = card.paused
    BY <1>1, <1>2, <1>3, <1>4, NoItemIsNone, UnreadIs DEF Lives
  <1> HIDE DEF p
  <1>8. IdsOf(p.queue) = {} /\ KnownIn(p) = {} /\ Names(p.queue) = {} /\ Once(p.queue) /\ p.active.id = NoUpdate
        /\ p.active.status = "none"
    BY <1>7, UnreadIs, NoItemIsNone DEF KnownIn
  <1>9. Tidy(p)
    BY <1>1, <1>2, <1>3, <1>7, <1>8 DEF Tidy
  <1>10. Stored(p)
    BY <1>2, <1>3, <1>4, <1>7 DEF Stored
  <1>11. ASSUME NEW i \in Upds, Met(i) PROVE MetIn(i, p)
    BY <1>1, <1>3, <1>7, <1>8, <1>11 DEF MetIn, Met, Reads, Buries
  <1>12. Follows(p, n, {}, W)
    <2>1. CASE speech.stream.status = "writing"
      <3> DEFINE i == speech.stream.item
      <3>1. i \in HomeOf(p.convo) /\ Writing(i) /\ TRUE \in BOOLEAN
        BY <1>1, <1>7, <2>1, SaidAtHome DEF Streams, Writing
      <3>2. Follows(p, Updates!Enqueued(p, i, "writing", TRUE), {}, W)
        BY <1>1, <1>7, <1>9, <1>10, <3>1, EnqueuedFollows
      <3>3. QED
        BY <1>6, <2>1, <3>2
    <2>2. CASE speech.stream.status # "writing"
      BY <1>6, <1>9, <1>10, <2>2, FollowsSelf
    <2>3. QED
      BY <2>1, <2>2
  <1>13. Starts(n, F)
    <2>1. Tidy(n) /\ Stored(n) /\ n.convo = c /\ n.active.id = NoUpdate
      BY <1>7, <1>8, <1>12 DEF Follows, SameFlags
    <2>2. /\ n.shown = card.shown /\ n.ended = card.ended
          /\ n.hidden = card.hidden /\ n.timer = card.timer /\ n.paused = card.paused
      BY <1>7, <1>12 DEF Follows, SameFlags
    <2>3. Names(n.seen) \cup Names(n.kept.seen) \subseteq Names(was.seen) \cup F
      BY <1>3, <1>4, <1>7, <1>12 DEF Follows
    <2>4. \A i \in Upds : Met(i) => MetIn(i, n) /\ i \notin KnownIn(n)
      BY <1>8, <1>11, <1>12 DEF Follows
    <2>5. QED
      BY <2>1, <2>2, <2>3, <2>4 DEF Starts
  <1>14. ASSUME Updates!First(c) PROVE RowsOf(c) \subseteq Names(n.seen) /\ \A i \in RowsOf(c) : Shut(i, n)
    <2>1. RowsOf(c) \subseteq Names(n.seen)
      BY <1>3, <1>7, <1>12, <1>14 DEF Follows
    <2>2. ASSUME NEW i \in RowsOf(c) PROVE Shut(i, n)
      <3>1. i \in Upds /\ ~Writing(i)
        BY <1>1, <2>2 DEF HomeOf, SaidInv, Writing
      <3>2. MetIn(i, p)
        BY <1>3, <1>7, <1>8, <1>14, <3>1 DEF MetIn
      <3>3. QED
        BY <1>8, <1>12, <3>1, <3>2 DEF Follows, Shut
    <2>3. QED
      BY <2>1, <2>2
  <1>15. ASSUME IsFiniteSet(W), Cardinality(W) <= QueueCap, speech.stream.item \in W, RowsOf(c) \subseteq W
         PROVE  Room(n, W)
    <2>1. Room(p, W)
      BY <1>7, <1>8, <1>15 DEF Room
    <2>2. QED
      BY <1>12, <2>1, RoomStays
  <1>16. QED
    BY <1>13, <1>14, <1>15 DEF n, F

\* The next update that waits comes on a visible card that is empty.
LEMMA ActivatedKeeps ==
    ASSUME UpdatesBounds, NEW k, Tidy(k), NEW visible \in BOOLEAN
    PROVE  LET m == Updates!Activated(k, visible) IN
           /\ Tidy(m) /\ SameFlags(k, m) /\ m.seen = k.seen /\ m.gone = k.gone /\ m.kept = k.kept
           /\ KnownIn(m) = KnownIn(k) /\ (~visible => m = k)
           /\ \A i \in Upds : MetIn(i, k) => MetIn(i, m)
  <1> DEFINE h == Head(k.queue)
             t == Tail(k.queue)
             n == [k EXCEPT !.active = h, !.queue = t]
             Now == visible /\ k.active = Updates!NoItem /\ k.queue # <<>>
  <1>1. Updates!Activated(k, visible) = IF Now THEN n ELSE k
    BY DEF Updates!Activated
  <1>2. CASE ~Now
    BY <1>1, <1>2 DEF SameFlags
  <1>3. CASE Now
    <2>1. /\ k \in Lives /\ k.queue \in Seq(Updates!Item) /\ Names(k.queue) \subseteq Updates!Item
          /\ IdsOf(k.queue) \subseteq Upds /\ Once(k.queue)
      BY LivesTyped, IdsAreOf DEF Tidy
    <2>2. /\ h \in Names(k.queue) /\ t \in Seq(Updates!Item) /\ Once(t)
          /\ Names(t) = Names(k.queue) \ {h} /\ h.id \notin IdsOf(t)
          /\ IdsOf(k.queue) = IdsOf(t) \cup {h.id}
      BY <1>3, <2>1, QueueMoves
    <2>3. h \in Updates!Item /\ h \in Faces /\ h.id \in Upds /\ h.id # NoUpdate
      BY <2>1, <2>2, NoItemIsNone DEF Faces
    <2> HIDE DEF h, t
    <2>4. /\ n \in Lives /\ SameFlags(k, n) /\ n.seen = k.seen /\ n.gone = k.gone /\ n.kept = k.kept
          /\ n.active = h /\ n.queue = t /\ n.convo = k.convo
      BY <2>1, <2>2, <2>3 DEF Lives, SameFlags
    <2> HIDE DEF n
    <2>5. KnownIn(n) = KnownIn(k)
      BY <1>3, <2>2, <2>3, <2>4, NoItemIsNone DEF KnownIn
    <2>6. Tidy(n)
      <3>1. \A x \in Names(n.queue) \cup {n.active} : x.status = "complete" => x.id \in RowsOf(n.convo)
        BY <2>2, <2>4 DEF Tidy
      <3>2. QED
        BY <2>2, <2>4, <2>5, <3>1 DEF Tidy
    <2>7. ASSUME NEW i \in Upds, MetIn(i, k) PROVE MetIn(i, n)
      <3>1. i # k.active.id /\ i \notin KnownIn(k)
        BY <1>3, <2>7, NoItemIsNone DEF MetIn
      <3>2. QED
        BY <2>4, <2>5, <2>7, <3>1 DEF MetIn
    <2>8. QED
      BY <1>1, <1>3, <2>4, <2>5, <2>6, <2>7
  <1>4. QED
    BY <1>2, <1>3

\* The card is drawn: what is new and visible counts as seen.
Draws(k, m, visible) ==
    /\ Tidy(m) /\ Stored(m) /\ m.convo = k.convo /\ m.active = k.active /\ m.queue = k.queue
    /\ KnownIn(m) = KnownIn(k) /\ Names(k.seen) \subseteq Names(m.seen)
    /\ Names(m.seen) \subseteq Names(k.seen) \cup (IF m.hidden THEN {} ELSE {m.active.id})
    /\ Names(m.kept.seen) \subseteq Names(k.kept.seen) \cup Names(m.seen)
    /\ m.hidden = (m.active = Updates!NoItem \/ ~visible)
    /\ ~m.hidden => m.shown = m.active.id
    /\ m.shown = k.shown \/ (m.shown = m.active.id /\ m.active.id \in Names(m.seen))
    /\ m.timer => ~m.hidden
    /\ \A i \in Upds : MetIn(i, k) => MetIn(i, m)

LEMMA RenderedDraws ==
    ASSUME UpdatesBounds, NEW k, Tidy(k), Stored(k), NEW visible \in BOOLEAN
    PROVE  Draws(k, Updates!Rendered(k, visible), visible)
  <1>1. k \in Lives /\ k.active \in Faces /\ k.convo \in Convos /\ k.paused \in BOOLEAN /\ k.seen \in Seq(Upds)
        /\ k.gone \in Seq(Upds) /\ k.timer \in BOOLEAN /\ Distinct(k.seen) /\ Distinct(k.gone)
    BY LivesTyped DEF Tidy
  <1>2. CASE k.active = Updates!NoItem \/ ~visible
    <2> DEFINE m == [k EXCEPT !.hidden = TRUE, !.timer = FALSE]
    <2>1. Updates!Rendered(k, visible) = m
      BY <1>2 DEF Updates!Rendered
    <2>2. /\ m \in Lives /\ m.seen = k.seen /\ m.gone = k.gone /\ m.kept = k.kept /\ m.active = k.active
          /\ m.queue = k.queue /\ m.convo = k.convo /\ m.shown = k.shown /\ m.hidden = TRUE /\ m.timer = FALSE
      BY <1>1 DEF Lives
    <2> HIDE DEF m
    <2>3. KnownIn(m) = KnownIn(k)
      BY <2>2 DEF KnownIn
    <2>4. Tidy(m) /\ Stored(m)
      BY <2>2, <2>3 DEF Tidy, Stored
    <2>5. \A i \in Upds : MetIn(i, k) => MetIn(i, m)
      BY <2>2, <2>3 DEF MetIn
    <2>6. QED
      BY <1>2, <2>1, <2>2, <2>3, <2>4, <2>5 DEF Draws
  <1>3. CASE ~(k.active = Updates!NoItem \/ ~visible)
    <2> DEFINE i == k.active.id
               new == k.shown # i
               s == Updates!Add(k.seen, i)
               done == k.active.status = "complete"
               q == [Updates!Marked(k, i) EXCEPT !.shown = i, !.ended = NoUpdate]
               p == IF new THEN q ELSE k
               e == IF done THEN i ELSE p.ended
               t == IF done /\ (p.ended # i \/ k.hidden) THEN ~k.paused ELSE p.timer
               m == [p EXCEPT !.hidden = FALSE, !.ended = e, !.timer = t]
    <2>1. i \in Upds /\ i \in KnownIn(k)
      BY <1>1, <1>3, NoItemIsNone DEF KnownIn
    <2>2. Updates!Rendered(k, visible) = m
      BY <1>3 DEF Updates!Rendered
    <2>3. /\ q \in Lives /\ q.seen = s /\ q.gone = k.gone /\ q.kept = Store(s, k.gone) /\ q.active = k.active
          /\ q.queue = k.queue /\ q.convo = k.convo /\ q.shown = i
      <3> DEFINE b == Updates!Marked(k, i)
      <3>1. Made(k, b, s, k.gone, k.active, k.queue, Store(s, k.gone))
        BY <1>1, <2>1, MarkedMade
      <3> HIDE DEF b, s, i
      <3>2. /\ b \in Lives /\ b.seen = s /\ b.gone = k.gone /\ b.kept = Store(s, k.gone) /\ b.active = k.active
            /\ b.queue = k.queue /\ b.convo = k.convo
        BY <3>1 DEF Made, SameFlags
      <3>3. q = [b EXCEPT !.shown = i, !.ended = NoUpdate]
        BY DEF b
      <3> HIDE DEF q
      <3>4. QED
        BY <2>1, <3>2, <3>3 DEF Lives
    <2>4. s \in Seq(Upds) /\ Distinct(s) /\ Names(s) = Names(k.seen) \cup {i}
      BY <1>1, <2>1, AddFacts
    <2>5. /\ p \in Lives /\ p.gone = k.gone /\ p.active = k.active /\ p.queue = k.queue /\ p.convo = k.convo
          /\ p.shown = i /\ (IF new THEN p.seen = s /\ p.kept = Store(s, k.gone) ELSE p.seen = k.seen /\ p.kept = k.kept)
      BY <1>1, <2>3
    <2> HIDE DEF q, p, s
    <2>6. e \in Upds \cup {NoUpdate} /\ t \in BOOLEAN
      BY <1>1, <2>1, <2>5, LivesTyped
    <2> HIDE DEF e, t
    <2>7. /\ m \in Lives /\ m.gone = k.gone /\ m.active = k.active /\ m.queue = k.queue /\ m.convo = k.convo
          /\ m.shown = i /\ m.hidden = FALSE
          /\ (IF new THEN m.seen = s /\ m.kept = Store(s, k.gone) ELSE m.seen = k.seen /\ m.kept = k.kept)
      BY <2>5, <2>6 DEF Lives
    <2> HIDE DEF m
    <2>8. KnownIn(m) = KnownIn(k)
      BY <2>7 DEF KnownIn
    <2>9. Names(k.seen) \subseteq Names(m.seen) /\ Names(m.seen) \subseteq Names(k.seen) \cup {i} /\ Distinct(m.seen)
          /\ (new => i \in Names(m.seen)) /\ Names(m.seen) \subseteq HomeOf(k.convo)
      BY <1>1, <2>1, <2>4, <2>7 DEF Tidy
    <2>10. Tidy(m)
      <3>1. \A x \in Names(m.queue) \cup {m.active} : x.status = "complete" => x.id \in RowsOf(m.convo)
        BY <2>7 DEF Tidy
      <3>2. Names(m.gone) \subseteq Names(m.seen)
        BY <2>7, <2>9 DEF Tidy
      <3>3. QED
        BY <2>7, <2>8, <2>9, <3>1, <3>2 DEF Tidy
    <2>11. Stored(m) /\ Names(m.kept.seen) \subseteq Names(k.kept.seen) \cup Names(m.seen)
      <3>1. CASE new
        BY <2>7, <2>9, <2>10, <3>1 DEF Stored, Store, Tidy
      <3>2. CASE ~new
        BY <2>7, <3>2 DEF Stored
      <3>3. QED
        BY <3>1, <3>2
    <2>12. \A j \in Upds : MetIn(j, k) => MetIn(j, m)
      BY <2>7, <2>8, <2>9 DEF MetIn
    <2>13. m.shown = k.shown \/ (m.shown = m.active.id /\ m.active.id \in Names(m.seen))
      BY <2>7, <2>9
    <2>14. m.hidden = (m.active = Updates!NoItem \/ ~visible)
      BY <1>3, <2>7
    <2>15. QED
      BY <2>2, <2>7, <2>8, <2>9, <2>10, <2>11, <2>12, <2>13, <2>14 DEF Draws
  <1>4. QED
    BY <1>2, <1>3

\* The card k without its update: it has been seen, and the next one takes its place.
Leaves(k, n) ==
    /\ Tidy(n) /\ Stored(n) /\ n.convo = k.convo /\ n.shown = NoUpdate
    /\ Names(k.seen) \subseteq Names(n.seen)
    /\ Names(n.seen) \subseteq Names(k.seen) \cup ({k.active.id} \ {NoUpdate})
    /\ Names(n.kept.seen) \subseteq Names(n.seen) \cup (IF k.active = Updates!NoItem THEN Names(k.kept.seen) ELSE {})
    /\ KnownIn(n) = KnownIn(k) \ {k.active.id}
    /\ k.active.id \in Upds => Shut(k.active.id, n) /\ k.active.id \in Names(n.seen)
    /\ \A j \in Upds : MetIn(j, k) => MetIn(j, n)

\* The card of Dismissed before it is drawn.
Emptied(k) ==
    LET m == IF k.active.status = "writing" THEN Updates!Tombstoned(k, k.active.id)
             ELSE Updates!Marked(k, k.active.id)
        n == IF k.active = Updates!NoItem THEN k
             ELSE Updates!Activated([m EXCEPT !.active = Updates!NoItem], TRUE)
    IN  [n EXCEPT !.timer = FALSE, !.shown = NoUpdate, !.ended = NoUpdate]

LEMMA EmptiedLeaves ==
    ASSUME UpdatesBounds, SaidInv, NEW k, Tidy(k), k.active = Updates!NoItem => Stored(k)
    PROVE  Leaves(k, Emptied(k))
  <1> DEFINE i == k.active.id
             m == IF k.active.status = "writing" THEN Updates!Tombstoned(k, i) ELSE Updates!Marked(k, i)
             b == [m EXCEPT !.active = Updates!NoItem]
             a == Updates!Activated(b, TRUE)
             n == IF k.active = Updates!NoItem THEN k ELSE a
             e == [n EXCEPT !.timer = FALSE, !.shown = NoUpdate, !.ended = NoUpdate]
             s == Updates!Add(k.seen, i)
             g == IF k.active.status = "writing" THEN Updates!Add(k.gone, i) ELSE k.gone
  <1>1. k \in Lives /\ k.active \in Faces /\ k.convo \in Convos /\ k.seen \in Seq(Upds) /\ k.gone \in Seq(Upds)
        /\ Distinct(k.seen) /\ Distinct(k.gone) /\ k.queue \in Seq(Updates!Item) /\ i \notin IdsOf(k.queue)
    BY LivesTyped DEF Tidy
  <1>2. Emptied(k) = e
    BY DEF Emptied
  <1>3. ASSUME NEW x, Tidy(x), Stored(x)
        PROVE  LET y == [x EXCEPT !.timer = FALSE, !.shown = NoUpdate, !.ended = NoUpdate] IN
               /\ Tidy(y) /\ Stored(y) /\ y.convo = x.convo /\ y.shown = NoUpdate /\ y.seen = x.seen
               /\ y.kept = x.kept /\ KnownIn(y) = KnownIn(x)
               /\ \A j \in Upds : MetIn(j, x) => MetIn(j, y)
    <2> DEFINE y == [x EXCEPT !.timer = FALSE, !.shown = NoUpdate, !.ended = NoUpdate]
    <2>1. x \in Lives
      BY <1>3 DEF Tidy
    <2>2. /\ y \in Lives /\ y.convo = x.convo /\ y.shown = NoUpdate /\ y.seen = x.seen /\ y.gone = x.gone
          /\ y.active = x.active /\ y.queue = x.queue /\ y.kept = x.kept
      BY <2>1 DEF Lives
    <2> HIDE DEF y
    <2>3. KnownIn(y) = KnownIn(x)
      BY <2>2 DEF KnownIn
    <2>4. Tidy(y) /\ Stored(y)
      BY <1>3, <2>2, <2>3 DEF Tidy, Stored
    <2>5. \A j \in Upds : MetIn(j, x) => MetIn(j, y)
      BY <2>2, <2>3 DEF MetIn
    <2>6. QED
      BY <2>2, <2>3, <2>4, <2>5 DEF y
  <1>4. CASE k.active = Updates!NoItem
    <2>1. Tidy(k) /\ Stored(k) /\ i = NoUpdate /\ i \notin Upds /\ i \notin KnownIn(k) /\ n = k
      BY <1>1, <1>4, NoItemIsNone DEF KnownIn
    <2> HIDE DEF n
    <2>2. /\ Tidy(e) /\ Stored(e) /\ e.convo = k.convo /\ e.shown = NoUpdate /\ e.seen = k.seen
          /\ e.kept = k.kept /\ KnownIn(e) = KnownIn(k)
          /\ \A j \in Upds : MetIn(j, k) => MetIn(j, e)
      BY <1>3, <2>1
    <2> HIDE DEF e
    <2>3. QED
      BY <1>2, <1>4, <2>1, <2>2 DEF Leaves
  <1>5. CASE k.active # Updates!NoItem
    <2>1. i \in Upds /\ i # NoUpdate /\ i \in KnownIn(k) /\ k.active.status \in {"writing", "complete"}
          /\ (k.active.status = "complete" => i \in RowsOf(k.convo))
      BY <1>1, <1>5, NoItemIsNone DEF KnownIn, Tidy
    <2>2. s \in Seq(Upds) /\ Distinct(s) /\ Names(s) = Names(k.seen) \cup {i}
      BY <1>1, <2>1, AddFacts
    <2>3. /\ g \in Seq(Upds) /\ Distinct(g) /\ Names(k.gone) \subseteq Names(g) /\ Names(g) \subseteq Names(k.gone) \cup {i}
          /\ (k.active.status = "writing" => i \in Names(g))
      <3>1. LET h == Updates!Add(k.gone, i) IN
            h \in Seq(Upds) /\ Distinct(h) /\ Names(h) = Names(k.gone) \cup {i}
        BY <1>1, <2>1, AddFacts
      <3>2. CASE k.active.status = "writing"
        <4>1. g = Updates!Add(k.gone, i)
          BY <3>2
        <4> HIDE DEF g
        <4>2. QED
          BY <3>1, <4>1
      <3>3. CASE k.active.status # "writing"
        BY <1>1, <3>3
      <3>4. QED
        BY <3>2, <3>3
    <2>4. Made(k, m, s, g, k.active, k.queue, Store(s, g))
      BY <1>1, <2>1, MarkedMade, TombstonedMade
    <2> HIDE DEF s, g, m
    <2>5. /\ b \in Lives /\ b.seen = s /\ b.gone = g /\ b.active = Updates!NoItem /\ b.queue = k.queue
          /\ b.kept = Store(s, g) /\ b.convo = k.convo
      <3>1. m \in Lives /\ m.seen = s /\ m.gone = g /\ m.queue = k.queue /\ m.kept = Store(s, g) /\ m.convo = k.convo
        BY <2>4 DEF Made, SameFlags
      <3>2. Updates!NoItem \in Faces
        BY NoItemIsNone
      <3>3. QED
        BY <3>1, <3>2 DEF Lives
    <2> HIDE DEF b
    <2>6. KnownIn(b) = KnownIn(k) \ {i}
      BY <1>1, <2>5, NoItemIsNone DEF KnownIn
    <2>7. Names(s) \subseteq HomeOf(k.convo) /\ Names(g) \subseteq Names(s)
      BY <2>1, <2>2, <2>3 DEF Tidy
    <2>8. Tidy(b)
      <3>1. b.active.id \notin IdsOf(b.queue)
        <4>1. IdsOf(k.queue) \subseteq Upds
          BY <1>1, IdsAreOf
        <4>2. QED
          BY <2>5, <4>1, NoItemIsNone
      <3>2. \A x \in Names(b.queue) \cup {b.active} : x.status = "complete" => x.id \in RowsOf(b.convo)
        BY <2>5, NoItemIsNone DEF Tidy
      <3>3. KnownIn(b) \cup Names(b.seen) \subseteq HomeOf(b.convo)
        BY <2>5, <2>6, <2>7 DEF Tidy
      <3>4. QED
        BY <2>2, <2>3, <2>5, <2>7, <3>1, <3>2, <3>3 DEF Tidy
    <2>9. Stored(b)
      BY <2>2, <2>3, <2>5, <2>7 DEF Stored, Store
    <2>10. Shut(i, b)
      <3>1. Writing(i) => k.active.status = "writing"
        BY <2>1, <1>1 DEF SaidInv, Writing
      <3>2. QED
        BY <2>2, <2>3, <2>5, <2>6, <3>1 DEF Shut, MetIn
    <2>11. ASSUME NEW j \in Upds, MetIn(j, k) PROVE MetIn(j, b)
      <3>1. CASE j = i
        BY <2>10, <3>1 DEF Shut
      <3>2. CASE j # i
        BY <2>2, <2>3, <2>5, <2>6, <2>11, <3>2 DEF MetIn
      <3>3. QED
        BY <3>1, <3>2
    <2>12. /\ Tidy(a) /\ SameFlags(b, a) /\ a.seen = b.seen /\ a.gone = b.gone /\ a.kept = b.kept
           /\ KnownIn(a) = KnownIn(b) /\ \A j \in Upds : MetIn(j, b) => MetIn(j, a)
      BY <2>8, ActivatedKeeps
    <2> HIDE DEF a
    <2>13. Stored(a) /\ a.convo = b.convo
      BY <2>9, <2>12 DEF Stored, SameFlags
    <2>14. n = a
      BY <1>5
    <2> HIDE DEF n
    <2>15. /\ Tidy(e) /\ Stored(e) /\ e.convo = a.convo /\ e.shown = NoUpdate /\ e.seen = a.seen
           /\ e.kept = a.kept /\ KnownIn(e) = KnownIn(a)
           /\ \A j \in Upds : MetIn(j, a) => MetIn(j, e)
      BY <1>3, <2>12, <2>13, <2>14
    <2> HIDE DEF e
    <2>16. Names(e.seen) = Names(k.seen) \cup {i} /\ Names(e.kept.seen) = Names(e.seen) /\ KnownIn(e) = KnownIn(k) \ {i}
           /\ e.convo = k.convo
      BY <2>2, <2>5, <2>6, <2>12, <2>13, <2>15 DEF Store
    <2>17. \A j \in Upds : MetIn(j, k) => MetIn(j, e)
      BY <2>11, <2>12, <2>15
    <2>18. Shut(i, e)
      BY <2>1, <2>10, <2>12, <2>15, <2>16 DEF Shut
    <2>19. QED
      BY <1>2, <2>1, <2>15, <2>16, <2>17, <2>18 DEF Leaves
  <1>6. QED
    BY <1>4, <1>5

LEMMA ShutStays ==
    ASSUME NEW k, NEW m, NEW H, NEW W, Follows(k, m, H, W), NEW i \in Upds, Shut(i, k)
    PROVE  Shut(i, m)
  BY DEF Follows, Shut

\* All that can wait for the card has room in its queue.
AllFit(W) ==
    /\ IsFiniteSet(W) /\ Cardinality(W) <= QueueCap /\ speech.stream.item \in W
    /\ IdsOf(card.queue) \subseteq W /\ RowsOf(speech.open) \ Names(card.seen) \subseteq W

\* The card m after a snapshot of the open conversation, which presents E elsewhere.
Lands(m, E, visible, W) ==
    /\ Tidy(m) /\ Stored(m) /\ m.convo = speech.open
    /\ m.hidden = (m.active = Updates!NoItem \/ ~visible)
    /\ ~m.hidden => m.shown = m.active.id
    /\ m.timer => ~m.hidden
    /\ m.shown = card.shown \/ (m.shown = m.active.id /\ m.active.id \in Names(m.seen))
    /\ ~visible => m.active.id \in {card.active.id, NoUpdate}
    /\ Names(m.seen) \cup Names(m.kept.seen)
         \subseteq Names(kept[speech.open].seen) \cup E \cup (IF m.hidden THEN {} ELSE {m.active.id})
    /\ E \subseteq Upds \cap HomeOf(speech.open) /\ \A i \in E : Shut(i, m)
    /\ \A i \in Upds : Met(i) => MetIn(i, m) /\ (i \notin KnownIn(card) => i \notin KnownIn(m))
    /\ AllFit(W) => RowsOf(speech.open) \subseteq Names(m.seen) \cup KnownIn(m)

LEMMA DrawnLands ==
    ASSUME UpdatesBounds, UpdInv, NEW v \in [away : BOOLEAN, chat : BOOLEAN], NEW W
    PROVE  Lands(Updates!Drawn(card, v), Updates!Elsewhere(v), ~v.away /\ ~v.chat, W)
  <1> DEFINE c == speech.open
             rows == speech.rows[c]
             E == Updates!Elsewhere(v)
             vis == ~v.away /\ ~v.chat
             defer == Updates!Deferred(v)
             first == Updates!First(c)
             F == IF first THEN RowsOf(c) ELSE {}
             st == IF card.convo # c THEN Updates!Switched(card, c, rows, speech.stream)
                   ELSE Updates!Synchronized(card)
             heeded == IF first THEN st ELSE Updates!Heeded(st, rows, v.chat, defer)
             str == Updates!Streamed(heeded, speech.stream)
             act == Updates!Activated(str, vis)
             m == Updates!Rendered(act, vis)
  <1>1. /\ SaidInv /\ c \in Convos /\ RowsOf(c) \subseteq Upds /\ vis \in BOOLEAN
        /\ Names(rows) = RowsOf(c)
    BY SaidAtHome DEF UpdInv, SaidInv, HomeOf, RowsOf
  <1>2. Updates!Drawn(card, v) = m
    BY DEF Updates!Drawn, Updates!Reconciled
  <1>3. E = F \cup ReadThere(c, v.chat, defer)
            \cup (IF speech.stream.status = "interrupted" THEN {speech.stream.item} ELSE {})
    <2>1. Updates!Range(rows) = RowsOf(c)
      BY <1>1 DEF SaidInv, Updates!Range, RowsOf, Names
    <2>2. QED
      BY <2>1 DEF Updates!Elsewhere, ReadThere
  <1>4. E \subseteq Upds \cap HomeOf(c)
    BY <1>1, <1>3, SaidAtHome DEF ReadThere, Streams, HomeOf
  <1>5. /\ Starts(st, F) /\ (first => \A i \in RowsOf(c) : Shut(i, st))
        /\ first => RowsOf(c) \subseteq Names(st.seen)
        /\ AllFit(W) => Room(st, W)
    <2>1. CASE card.convo = c
      <3>1. st = Updates!Synchronized(card) /\ ~first
        BY <2>1 DEF Updates!First
      <3>2. AllFit(W) => Room(card, W)
        BY <2>1 DEF AllFit, Room
      <3>3. Starts(st, {}) /\ (Room(card, W) => Room(st, W))
        BY <2>1, <3>1, SynchronizedStarts
      <3>4. F = {}
        BY <3>1
      <3>5. QED
        BY <3>1, <3>2, <3>3, <3>4
    <2>2. CASE card.convo # c
      <3>1. st = Updates!Switched(card, c, rows, speech.stream)
        BY <2>2
      <3>2. AllFit(W) => IsFiniteSet(W) /\ Cardinality(W) <= QueueCap /\ speech.stream.item \in W /\ RowsOf(c) \subseteq W
        <4>1. Names(card.seen) \cap RowsOf(c) = {}
          <5>1. CASE card.convo = NoConvo
            BY <5>1, UnreadIs DEF UpdInv, CardInv
          <5>2. CASE card.convo # NoConvo
            BY <1>1, <2>2, <5>2, SaidAtHome DEF UpdInv, CardInv, Tidy
          <5>3. QED
            BY <5>1, <5>2
        <4>2. QED
          BY <4>1 DEF AllFit
      <3>3. QED
        BY <2>2, <3>1, <3>2, SwitchedStarts
    <2>3. QED
      BY <2>1, <2>2
  <1> HIDE DEF st
  <1>6. Tidy(st) /\ Stored(st) /\ st.convo = c
    BY <1>5 DEF Starts
  <1>7. /\ Follows(st, heeded, E, W)
        /\ \A i \in F \cup ReadThere(c, v.chat, defer) : Shut(i, heeded)
        /\ AllFit(W) => RowsOf(c) \subseteq Names(heeded.seen) \cup KnownIn(heeded)
    <2>1. CASE first
      BY <1>5, <1>6, <2>1, FollowsSelf DEF ReadThere
    <2>2. CASE ~first
      <3>1. ReadThere(st.convo, v.chat, defer) \subseteq E
        BY <1>3, <1>6
      <3>2. heeded = Updates!Heeded(st, speech.rows[st.convo], v.chat, defer) /\ F = {}
        BY <1>6, <2>2
      <3> HIDE DEF E, heeded, defer, F
      <3>3. /\ Follows(st, heeded, E, W)
            /\ Room(st, W) => RowsOf(c) \subseteq Names(heeded.seen) \cup KnownIn(heeded)
            /\ \A i \in ReadThere(c, v.chat, defer) : Shut(i, heeded)
        BY <1>1, <1>6, <3>1, <3>2, HeededFollows
      <3>4. QED
        BY <1>5, <3>2, <3>3
    <2>3. QED
      BY <2>1, <2>2
  <1> HIDE DEF heeded
  <1>8. Tidy(heeded) /\ Stored(heeded) /\ heeded.convo = c
    BY <1>6, <1>7 DEF Follows, SameFlags
  <1>9. /\ Follows(heeded, str, E, W)
        /\ speech.stream.status = "interrupted" => Shut(speech.stream.item, str)
    <2>1. speech.stream.status = "interrupted" => speech.stream.item \in E
      BY <1>3
    <2> HIDE DEF E
    <2>2. QED
      BY <1>1, <1>8, <2>1, StreamedFollows
  <1> HIDE DEF str
  <1>10. Follows(st, str, E, W)
    BY <1>7, <1>9, FollowsOn
  <1>11. \A i \in E : Shut(i, str)
    <2>1. SUFFICES ASSUME NEW i \in E PROVE Shut(i, str)
      OBVIOUS
    <2>2. CASE i \in F \cup ReadThere(c, v.chat, defer)
      BY <1>4, <1>7, <1>9, <2>2, ShutStays
    <2>3. CASE i \notin F \cup ReadThere(c, v.chat, defer)
      BY <1>3, <1>9, <2>3
    <2>4. QED
      BY <2>2, <2>3
  <1>12. AllFit(W) => RowsOf(c) \subseteq Names(str.seen) \cup KnownIn(str)
    <2>1. AllFit(W) => Room(heeded, W)
      BY <1>5, <1>7, RoomStays
    <2>2. QED
      BY <1>7, <1>9, <2>1, RoomStays
  <1> HIDE DEF E, F, vis, first, defer
  <1>13. Tidy(str) /\ Stored(str) /\ str.convo = c
    BY <1>6, <1>10 DEF Follows, SameFlags
  <1>14. /\ Tidy(act) /\ SameFlags(str, act) /\ act.seen = str.seen /\ act.gone = str.gone /\ act.kept = str.kept
         /\ KnownIn(act) = KnownIn(str) /\ (~vis => act = str)
         /\ \A i \in Upds : MetIn(i, str) => MetIn(i, act)
    BY <1>1, <1>13, ActivatedKeeps
  <1> HIDE DEF act
  <1>15. Stored(act) /\ act.convo = c /\ act.shown = str.shown
    BY <1>13, <1>14 DEF Stored, SameFlags
  <1>16. Draws(act, m, vis)
    BY <1>1, <1>14, <1>15, RenderedDraws
  <1> HIDE DEF m
  <1>17. /\ Tidy(m) /\ Stored(m) /\ m.convo = c /\ KnownIn(m) = KnownIn(str) /\ Names(str.seen) \subseteq Names(m.seen)
         /\ m.hidden = (m.active = Updates!NoItem \/ ~vis) /\ (~m.hidden => m.shown = m.active.id)
         /\ (m.timer => ~m.hidden) /\ (~vis => m.active = str.active)
         /\ m.shown = str.shown \/ (m.shown = m.active.id /\ m.active.id \in Names(m.seen))
    BY <1>14, <1>15, <1>16 DEF Draws
  <1>18. /\ st.shown = card.shown /\ st.active.id \in {card.active.id, NoUpdate}
         /\ Names(st.seen) \cup Names(st.kept.seen) \subseteq Names(kept[c].seen) \cup F
         /\ \A i \in Upds : Met(i) => MetIn(i, st) /\ (i \notin KnownIn(card) => i \notin KnownIn(st))
    BY <1>5 DEF Starts
  <1>19. /\ str.shown = st.shown /\ str.active.id \in {st.active.id, NoUpdate}
         /\ Names(str.seen) \subseteq Names(st.seen) \cup E
         /\ Names(str.kept.seen) \subseteq Names(st.kept.seen) \cup Names(st.seen) \cup E
         /\ \A i \in Upds : MetIn(i, st) => MetIn(i, str) /\ (i \notin KnownIn(st) => i \notin KnownIn(str))
    BY <1>10 DEF Follows, SameFlags
  <1>20. /\ Names(m.seen) \subseteq Names(str.seen) \cup (IF m.hidden THEN {} ELSE {m.active.id})
         /\ Names(m.kept.seen) \subseteq Names(str.kept.seen) \cup Names(m.seen)
         /\ \A i \in Upds : MetIn(i, str) => MetIn(i, m)
    BY <1>14, <1>16 DEF Draws
  <1>21. F \subseteq E
    BY <1>3
  <1>22. Names(m.seen) \cup Names(m.kept.seen)
           \subseteq Names(kept[c].seen) \cup E \cup (IF m.hidden THEN {} ELSE {m.active.id})
    BY <1>18, <1>19, <1>20, <1>21
  <1>23. \A i \in E : Shut(i, m)
    BY <1>4, <1>11, <1>17, <1>20 DEF Shut
  <1>24. \A i \in Upds : Met(i) => MetIn(i, m) /\ (i \notin KnownIn(card) => i \notin KnownIn(m))
    BY <1>17, <1>18, <1>19, <1>20
  <1>25. AllFit(W) => RowsOf(c) \subseteq Names(m.seen) \cup KnownIn(m)
    BY <1>12, <1>17
  <1>26. Lands(m, E, vis, W)
    <2>1. ~vis => m.active.id \in {card.active.id, NoUpdate}
      BY <1>17, <1>18, <1>19
    <2>2. m.shown = card.shown \/ (m.shown = m.active.id /\ m.active.id \in Names(m.seen))
      BY <1>17, <1>18, <1>19
    <2>3. QED
      BY <1>4, <1>17, <1>22, <1>23, <1>24, <1>25, <2>1, <2>2 DEF Lands
  <1>27. QED
    BY <1>2, <1>26 DEF E, vis

\* The step leaves the card as it should be, and what it took off was shown.
Arrives ==
    /\ speech' = speech /\ Tidy(card') /\ Stored(card') /\ card'.convo \in {speech.open, card.convo}
    /\ kept' = [kept EXCEPT ![card'.convo] = card'.kept]
    /\ view' \in [away : BOOLEAN, chat : BOOLEAN]
    /\ card'.hidden = (card'.active = Updates!NoItem \/ view'.away \/ view'.chat)
    /\ ~card'.hidden => card'.shown = card'.active.id
    /\ card'.timer => ~card'.hidden
    /\ heard \subseteq heard' /\ heard' \subseteq Upds
    /\ Names(card'.seen) \cup Names(card'.kept.seen) \subseteq heard'
    /\ closed' \subseteq Upds /\ \A i \in closed' : i \in closed \/ (Shut(i, card') /\ (Met(i) \/ i \in HomeOf(card'.convo)))
    /\ \A i \in Upds : Met(i) => MetIn(i, card') /\ (i \notin KnownIn(card) => i \notin KnownIn(card'))
    /\ \/ card'.shown \in {card.shown, NoUpdate}
       \/ card'.shown = card'.active.id /\ card'.active.id \in Names(card'.seen)

LEMMA SpeechSame ==
    ASSUME speech' = speech
    PROVE  /\ SaidInv => SaidInv'
           /\ \A c : RowsOf(c)' = RowsOf(c) /\ HomeOf(c)' = HomeOf(c)
           /\ \A i : Writing(i)' = Writing(i)
  BY DEF SaidInv, RowsOf, HomeOf, Foreign, Streams, Writing

LEMMA ArrivedWell ==
    ASSUME UpdatesBounds, UpdInv, Arrives
    PROVE  UpdInv'
  <1> DEFINE d == card'.convo
  <1>1. /\ SaidInv' /\ \A c : RowsOf(c)' = RowsOf(c) /\ HomeOf(c)' = HomeOf(c)
        /\ \A i : Writing(i)' = Writing(i)
    BY SpeechSame DEF UpdInv, Arrives
  <1>2. /\ speech' = speech /\ speech.open \in Convos /\ d \in Convos /\ d # NoConvo /\ SaidInv
        /\ card' \in Lives /\ card'.kept \in Stores
    BY LivesTyped DEF Arrives, UpdInv, SaidInv, Tidy, UpdatesBounds
  <1>3. Tidy(card)'
    BY <1>1 DEF Arrives, Tidy
  <1>4. /\ kept' \in [Convos -> Stores] /\ kept'[d] = card'.kept
        /\ \A c \in Convos \ {d} : kept'[c] = kept[c]
    <2>1. kept \in [Convos -> Stores]
      BY DEF UpdInv, KeptInv
    <2>2. QED
      BY <1>2, <2>1 DEF Arrives
  <1>5. KeptInv'
    <2>1. SUFFICES ASSUME NEW c \in Convos
                   PROVE  /\ Distinct(kept'[c].seen) /\ Distinct(kept'[c].gone)
                          /\ Names(kept'[c].gone) \subseteq Names(kept'[c].seen)
                          /\ Names(kept'[c].seen) \subseteq HomeOf(c)
                          /\ ~kept'[c].read => kept'[c] = Updates!Unread
      BY <1>1, <1>4 DEF KeptInv
    <2>2. CASE c = d
      <3>1. Stored(card')
        BY DEF Arrives
      <3>2. QED
        BY <1>4, <2>2, <3>1 DEF Stored
    <2>3. CASE c # d
      BY <1>4, <2>3 DEF UpdInv, KeptInv
    <2>4. QED
      BY <2>2, <2>3
  <1>6. FaceInv'
    <2>1. view' \in [away : BOOLEAN, chat : BOOLEAN]
      BY DEF Arrives
    <2>2. QED
      BY <1>2, <2>1 DEF Arrives, FaceInv, Updates!Visible
  <1>7. CardInv'
    <2>1. Stored(card')
      BY DEF Arrives
    <2>2. QED
      BY <1>2, <1>3, <1>4, <2>1 DEF CardInv, Stored
  <1>8. HeardInv'
    <2>1. ASSUME NEW c \in Convos PROVE Names(kept'[c].seen) \subseteq heard'
      <3>1. CASE c = d
        BY <1>4, <3>1 DEF Arrives
      <3>2. CASE c # d
        BY <1>4, <3>2 DEF Arrives, UpdInv, HeardInv
      <3>3. QED
        BY <3>1, <3>2
    <2>2. QED
      BY <2>1 DEF Arrives, HeardInv
  <1>9. ASSUME NEW i \in HomeOf(d), MetIn(i, card') PROVE Met(i)'
    <2>1. /\ i \in CheckIns => i \in speech.begun
          /\ i \in Replies => \E c \in Convos : i \in RowsOf(c)
      BY <1>9 DEF HomeOf, Foreign
    <2>2. \A c \in Convos : i \in RowsOf(c) => c = d
      BY <1>2, <1>9, SaidAtHome
    <2>3. Writing(i) => speech.open = d
      BY <1>2, <1>9, SaidAtHome DEF Writing, Streams
    <2>4. i \in KnownIn(card') => i = card'.active.id /\ i \in Names(card'.seen)
      BY <1>9 DEF MetIn
    <2>5. i \in RowsOf(d) => i \in Names(card'.seen)
      BY <1>9 DEF MetIn
    <2>6. Writing(i) => card'.active.id = i \/ i \in Names(card'.gone)
      BY <1>9, <2>3 DEF MetIn
    <2>7. QED
      BY <1>1, <1>2, <2>1, <2>2, <2>3, <2>4, <2>5, <2>6 DEF Met, Reads, Buries, KnownIn
  <1>10. ASSUME NEW i \in Upds, Met(i) PROVE Met(i)'
    <2>1. MetIn(i, card')
      BY <1>10 DEF Arrives
    <2>2. ASSUME NEW c \in Convos, c # d, i \in RowsOf(c) PROVE i \in Names(kept'[c].seen)
      <3>1. i \in Reads(c)
        BY <1>10, <2>2 DEF Met
      <3>2. i \in Names(kept[c].seen)
        BY <1>2, <2>2, <3>1 DEF Reads, UpdInv, CardInv, UpdatesBounds
      <3>3. QED
        BY <1>4, <2>2, <3>2
    <2>3. ASSUME Writing(i), speech.open # d PROVE i \in Names(kept'[speech.open].gone)
      <3>1. card.convo # speech.open
        BY <2>3 DEF Arrives
      <3>2. i \in Names(kept[speech.open].gone)
        BY <1>10, <2>3, <3>1 DEF Met, Buries
      <3>3. QED
        BY <1>2, <1>4, <2>3, <3>2
    <2>4. i \in KnownIn(card') => i = card'.active.id /\ i \in Names(card'.seen)
      BY <2>1 DEF MetIn
    <2>5. i \in RowsOf(d) => i \in Names(card'.seen)
      BY <2>1 DEF MetIn
    <2>6. Writing(i) /\ speech.open = d => card'.active.id = i \/ i \in Names(card'.gone)
      BY <2>1 DEF MetIn
    <2>7. /\ i \in CheckIns => i \in speech.begun
          /\ i \in Replies => \E c \in Convos : i \in RowsOf(c)
      BY <1>10 DEF Met
    <2>8. \A c \in Convos : i \in RowsOf(c) => i \in Reads(c)'
      BY <2>2, <2>5 DEF Reads
    <2>9. Writing(i) => (d = speech.open /\ card'.active.id = i) \/ i \in Buries(speech.open)'
      BY <1>2, <2>3, <2>6 DEF Buries
    <2>10. QED
      BY <1>1, <1>2, <2>4, <2>7, <2>8, <2>9 DEF Met, KnownIn
  <1>11. ASSUME NEW i \in closed' PROVE Met(i)' /\ i \notin KnownIn(card')
    <2>1. i \in Upds
      BY DEF Arrives
    <2>2. CASE i \in closed
      BY <1>10, <2>1, <2>2 DEF UpdInv, MetInv, Arrives
    <2>3. CASE i \notin closed
      <3>1. Shut(i, card') /\ (Met(i) \/ i \in HomeOf(d))
        BY <2>3 DEF Arrives
      <3>2. QED
        BY <1>9, <1>10, <2>1, <3>1 DEF Shut
    <2>4. QED
      BY <2>2, <2>3
  <1>12. ASSUME NEW i \in Upds, i = card'.shown PROVE Met(i)'
    <2>1. CASE i = card.shown
      BY <1>10, <1>12, <2>1 DEF UpdInv, MetInv
    <2>2. CASE i # card.shown
      <3>1. i = card'.active.id /\ i \in Names(card'.seen)
        BY <1>12, <2>2, NoItemIsNone DEF Arrives
      <3>2. i \in HomeOf(d)
        BY <3>1 DEF Arrives, Tidy
      <3>3. MetIn(i, card')
        BY <3>1 DEF MetIn
      <3>4. QED
        BY <1>9, <3>2, <3>3
    <2>3. QED
      BY <2>1, <2>2
  <1>13. MetInv'
    BY <1>11, <1>12 DEF MetInv, KnownIn
  <1>14. QED
    BY <1>1, <1>5, <1>6, <1>7, <1>8, <1>13 DEF UpdInv

LEMMA MetHere ==
    ASSUME card.convo \in Convos, NEW i, Met(i)
    PROVE  MetIn(i, card)
  BY DEF Met, MetIn, Reads, Buries

\* What is on the card is known, and what was shown there was seen.
LEMMA OnCardIs ==
    ASSUME UpdatesBounds, UpdInv
    PROVE  /\ \A i \in Updates!OnCard : i = card.active.id /\ i \in Upds /\ Met(i) /\ i \in Names(card.seen)
           /\ ~card.hidden => /\ card.active \in Updates!Item /\ Updates!OnCard = {card.active.id}
                              /\ card.convo \in Convos /\ Tidy(card) /\ Updates!Visible
  <1>1. ASSUME NEW i \in Updates!OnCard
        PROVE  i = card.active.id /\ i \in Upds /\ Met(i) /\ i \in Names(card.seen)
    <2>1. i = card.active.id /\ i \in Upds /\ i = card.shown
      BY DEF Updates!OnCard, Upds
    <2>2. Met(i)
      BY <2>1 DEF UpdInv, MetInv
    <2>3. i \in KnownIn(card)
      BY <2>1, NoItemIsNone DEF KnownIn
    <2>4. QED
      BY <2>1, <2>2, <2>3 DEF Met
  <1>2. ASSUME ~card.hidden
        PROVE  /\ card.active \in Updates!Item /\ Updates!OnCard = {card.active.id}
               /\ card.convo \in Convos /\ Tidy(card) /\ Updates!Visible
    <2>1. card.active \in Faces /\ card.active # Updates!NoItem /\ Updates!Visible /\ card.shown = card.active.id
      BY <1>2, LivesTyped DEF UpdInv, FaceInv
    <2>2. card.active \in Updates!Item /\ card.active.id \in Upds
      BY <2>1, NoItemIsNone
    <2>3. Tidy(card) /\ card.convo \in Convos
      BY <2>1 DEF UpdInv, CardInv, Tidy
    <2>4. QED
      BY <2>1, <2>2, <2>3 DEF Updates!OnCard, Upds
  <1>3. QED
    BY <1>1, <1>2

\* All the rows of the open conversation are on the card, or were seen.
Covered == RowsOf(speech.open) \subseteq Names(card'.seen) \cup KnownIn(card')

LEMMA ShowsArrives ==
    ASSUME UpdatesBounds, UpdInv, speech' = speech, view' \in [away : BOOLEAN, chat : BOOLEAN],
           Updates!Shows(card, view'), NEW W
    PROVE  Arrives /\ (AllFit(W) => Covered)
  <1> DEFINE m == Updates!Drawn(card, view')
             E == Updates!Elsewhere(view')
             vis == ~view'.away /\ ~view'.chat
  <1>1. Lands(m, E, vis, W)
    BY DrawnLands
  <1>2. Updates!Becomes(m, E)
    BY DEF Updates!Shows
  <1> HIDE DEF m, E
  <1>3. m.convo = speech.open /\ speech.open \in Convos /\ m.convo # NoConvo /\ m \in Lives /\ m.active \in Faces
    BY <1>1, LivesTyped DEF Lands, Tidy, UpdInv, SaidInv, UpdatesBounds
  <1>4. /\ card' = m /\ kept' = [kept EXCEPT ![m.convo] = m.kept]
        /\ heard' = heard \cup E \cup (IF m.hidden THEN {} ELSE {m.active.id})
        /\ closed' = closed \cup E \cup (Updates!OnCard \ {m.active.id})
    BY <1>2, <1>3 DEF Updates!Becomes
  <1>5. ~m.hidden => m.active.id \in Upds
    BY <1>1, <1>3, NoItemIsNone DEF Lands
  <1>6. ASSUME NEW i \in Updates!OnCard \ {m.active.id} PROVE i \in Upds /\ Met(i) /\ Shut(i, m)
    <2>1. i \in Upds /\ Met(i)
      BY OnCardIs
    <2>2. MetIn(i, m)
      BY <1>1, <2>1 DEF Lands
    <2>3. QED
      BY <1>6, <2>1, <2>2 DEF MetIn, Shut
  <1>7. /\ heard' \subseteq Upds /\ closed' \subseteq Upds
        /\ Names(card'.seen) \cup Names(card'.kept.seen) \subseteq heard'
    BY <1>1, <1>3, <1>4, <1>5, <1>6 DEF Lands, UpdInv, HeardInv
  <1>8. \A i \in closed' : i \in closed \/ (Shut(i, card') /\ (Met(i) \/ i \in HomeOf(card'.convo)))
    BY <1>1, <1>3, <1>4, <1>6 DEF Lands
  <1>9. Arrives
    BY <1>1, <1>3, <1>4, <1>7, <1>8 DEF Lands, Arrives
  <1>10. QED
    BY <1>1, <1>4, <1>9 DEF Lands, Covered

\* The card is dismissed where it is, by the button or by the timer.
LEMMA DismissArrives ==
    ASSUME UpdatesBounds, UpdInv, speech' = speech, view' = view, ~card.hidden,
           Updates!Becomes(Updates!Dismissed(card, Updates!Visible), {})
    PROVE  Arrives
  <1> DEFINE e == Emptied(card)
             m == Updates!Dismissed(card, Updates!Visible)
             i == card.active.id
  <1>1. /\ card.active \in Updates!Item /\ Updates!OnCard = {i} /\ card.convo \in Convos /\ Tidy(card)
        /\ Updates!Visible /\ i \in Upds /\ Met(i) /\ i \in Names(card.seen) /\ card.active # Updates!NoItem
        /\ i # NoUpdate /\ SaidInv
    BY OnCardIs, NoItemIsNone DEF UpdInv
  <1>2. m = Updates!Rendered(e, TRUE)
    BY <1>1 DEF Updates!Dismissed, Emptied
  <1>3. Leaves(card, e)
    BY <1>1, EmptiedLeaves
  <1> HIDE DEF e, m
  <1>4. Draws(e, m, TRUE)
    BY <1>2, <1>3, RenderedDraws DEF Leaves
  <1>5. /\ Tidy(m) /\ Stored(m) /\ m.convo = card.convo /\ KnownIn(m) = KnownIn(card) \ {i}
        /\ m \in Lives /\ m.active \in Faces /\ m.convo # NoConvo
    BY <1>1, <1>3, <1>4, LivesTyped DEF Leaves, Draws, Tidy, UpdatesBounds
  <1>6. /\ card' = m /\ kept' = [kept EXCEPT ![m.convo] = m.kept]
        /\ heard' = heard \cup (IF m.hidden THEN {} ELSE {m.active.id})
        /\ closed' = closed \cup ({i} \ {m.active.id})
    BY <1>1, <1>5 DEF Updates!Becomes, m
  <1>7. Names(m.seen) \cup Names(m.kept.seen) \subseteq heard' /\ heard' \subseteq Upds /\ closed' \subseteq Upds
    <2>1. Names(e.seen) \subseteq heard /\ Names(e.kept.seen) \subseteq Names(e.seen)
      BY <1>1, <1>3 DEF Leaves, UpdInv, HeardInv
    <2>2. ~m.hidden => m.active.id \in Upds
      BY <1>4, <1>5, NoItemIsNone DEF Draws
    <2>3. QED
      BY <1>1, <1>4, <1>6, <2>1, <2>2 DEF Draws, UpdInv, HeardInv
  <1>8. Shut(i, m)
    BY <1>1, <1>3, <1>4, <1>5 DEF Leaves, Draws, Shut
  <1>9. ASSUME NEW j \in Upds, Met(j) PROVE MetIn(j, m) /\ (j \notin KnownIn(card) => j \notin KnownIn(m))
    BY <1>1, <1>3, <1>4, <1>5, <1>9, MetHere DEF Leaves, Draws
  <1>10. /\ m.hidden = (m.active = Updates!NoItem \/ view'.away \/ view'.chat)
         /\ ~m.hidden => m.shown = m.active.id
         /\ m.timer => ~m.hidden
         /\ m.shown = NoUpdate \/ (m.shown = m.active.id /\ m.active.id \in Names(m.seen))
    <2>1. ~view'.away /\ ~view'.chat
      BY <1>1 DEF Updates!Visible
    <2>2. QED
      BY <1>3, <1>4, <2>1 DEF Leaves, Draws
  <1>11. view' \in [away : BOOLEAN, chat : BOOLEAN]
    BY DEF UpdInv, FaceInv
  <1>12. QED
    BY <1>1, <1>5, <1>6, <1>7, <1>8, <1>9, <1>10, <1>11 DEF Arrives

\* The Open button shows the chat and takes the update off the card.
LEMMA OpensArrives ==
    ASSUME UpdatesBounds, UpdInv, Updates!Opens, NEW W
    PROVE  Arrives /\ (AllFit(W) => Covered)
  <1> DEFINE d == Updates!Drawn(card, view')
             E == Updates!Elsewhere(view')
             e == Emptied(d)
             m == Updates!Dismissed(d, FALSE)
             i == d.active.id
  <1>1. /\ ~card.hidden /\ view' \in [away : BOOLEAN, chat : BOOLEAN] /\ view'.chat = TRUE
        /\ speech' = speech /\ Updates!Becomes(m, E)
    BY DEF Updates!Opens, UpdInv, FaceInv
  <1>2. Lands(d, E, FALSE, W)
    BY <1>1, DrawnLands
  <1>3. m = Updates!Rendered(e, FALSE)
    BY DEF Updates!Dismissed, Emptied
  <1> HIDE DEF d, E, e, m
  <1>4. /\ Tidy(d) /\ Stored(d) /\ d.convo = speech.open /\ speech.open \in Convos /\ d.active \in Faces /\ SaidInv
        /\ d.convo # NoConvo
    BY <1>2, LivesTyped DEF Lands, Tidy, UpdInv, UpdatesBounds
  <1>5. Leaves(d, e)
    BY <1>4, EmptiedLeaves DEF e
  <1>6. Draws(e, m, FALSE)
    BY <1>3, <1>5, RenderedDraws DEF Leaves
  <1>7. /\ Tidy(m) /\ Stored(m) /\ m.convo = d.convo /\ KnownIn(m) = KnownIn(d) \ {i} /\ m.hidden = TRUE
        /\ m.timer = FALSE
    <2>1. Tidy(m) /\ Stored(m) /\ m.convo = d.convo /\ KnownIn(m) = KnownIn(d) \ {i} /\ m.hidden = TRUE
      BY <1>5, <1>6 DEF Leaves, Draws
    <2>2. m.timer \in BOOLEAN
      BY <2>1, LivesTyped DEF Tidy
    <2>3. QED
      BY <1>6, <2>1, <2>2 DEF Draws
  <1>8. /\ card' = m /\ kept' = [kept EXCEPT ![m.convo] = m.kept]
        /\ heard' = heard \cup E
        /\ closed' = closed \cup E \cup (Updates!OnCard \ {m.active.id})
    BY <1>1, <1>4, <1>7 DEF Updates!Becomes
  <1>9. /\ Updates!OnCard = {card.active.id} /\ card.active.id \in Upds /\ Met(card.active.id)
        /\ card.active.id \in Names(card.seen)
    BY <1>1, OnCardIs
  <1>10. i \in {card.active.id, NoUpdate}
    BY <1>2 DEF Lands
  <1>11. Names(m.seen) \cup Names(m.kept.seen) \subseteq heard' /\ heard' \subseteq Upds /\ closed' \subseteq Upds
    <2>1. d.hidden = TRUE
      BY <1>2 DEF Lands
    <2>2. Names(d.seen) \cup Names(d.kept.seen) \subseteq heard' /\ Names(card.seen) \subseteq heard
      BY <1>2, <1>4, <1>8, <2>1 DEF Lands, UpdInv, HeardInv
    <2>3. Names(e.seen) \cup Names(e.kept.seen) \subseteq heard'
      BY <1>5, <1>8, <1>9, <1>10, <2>2 DEF Leaves
    <2>4. E \subseteq Upds
      BY <1>2 DEF Lands
    <2>5. QED
      BY <1>6, <1>7, <1>8, <1>9, <2>3, <2>4 DEF Draws, UpdInv, HeardInv
  <1>12. ASSUME NEW j \in Upds, MetIn(j, d) PROVE MetIn(j, m)
    BY <1>5, <1>6, <1>12 DEF Leaves, Draws
  <1>13. ASSUME NEW j \in Upds, Met(j) PROVE MetIn(j, m) /\ (j \notin KnownIn(card) => j \notin KnownIn(m))
    BY <1>2, <1>7, <1>12, <1>13 DEF Lands
  <1>14. ASSUME NEW j \in E PROVE Shut(j, m) /\ j \in HomeOf(m.convo)
    BY <1>2, <1>4, <1>7, <1>12, <1>14 DEF Lands, Shut
  <1>15. ASSUME NEW j \in Updates!OnCard \ {m.active.id} PROVE Shut(j, m) /\ Met(j)
    BY <1>9, <1>13, <1>15 DEF Shut, MetIn
  <1>16. m.shown = NoUpdate \/ (m.shown = m.active.id /\ m.active.id \in Names(m.seen))
    BY <1>5, <1>6 DEF Leaves, Draws
  <1>17. Arrives
    BY <1>1, <1>4, <1>7, <1>8, <1>11, <1>13, <1>14, <1>15, <1>16 DEF Arrives
  <1>18. AllFit(W) => Covered
    <2>1. AllFit(W) => RowsOf(speech.open) \subseteq Names(d.seen) \cup KnownIn(d)
      BY <1>2 DEF Lands
    <2>2. RowsOf(speech.open) \subseteq Upds
      BY <1>4 DEF SaidInv, RowsOf, Names
    <2>3. Names(d.seen) \subseteq Names(m.seen) /\ (i \in Upds => i \in Names(m.seen))
      BY <1>5, <1>6 DEF Leaves, Draws
    <2>4. QED
      BY <1>7, <1>8, <2>1, <2>2, <2>3 DEF Covered
  <1>19. QED
    BY <1>17, <1>18

LEMMA NewCardIs ==
    ASSUME UpdatesBounds
    PROVE  LET k == Updates!NewCard IN
           /\ k \in Lives /\ k.convo = NoConvo /\ k.seen = <<>> /\ k.gone = <<>> /\ k.queue = <<>>
           /\ k.active = Updates!NoItem /\ k.shown = NoUpdate /\ k.hidden = TRUE /\ k.timer = FALSE
           /\ KnownIn(k) = {}
  <1> DEFINE k == Updates!NewCard
  <1>1. Updates!Unread \in Stores
    BY UnreadIs DEF Stores, Updates!Unread
  <1>2. /\ k \in Lives /\ k.convo = NoConvo /\ k.seen = <<>> /\ k.gone = <<>> /\ k.queue = <<>>
        /\ k.active = Updates!NoItem /\ k.shown = NoUpdate /\ k.hidden = TRUE /\ k.timer = FALSE
    BY <1>1, UnreadIs, NoItemIsNone DEF Updates!NewCard, Lives
  <1>3. KnownIn(k) = {}
    BY <1>2, UnreadIs, NoItemIsNone DEF KnownIn
  <1>4. QED
    BY <1>2, <1>3

\* The pointer enters or leaves the card.
LEMMA PointsKeeps ==
    ASSUME UpdatesBounds, UpdInv, Updates!Points
    PROVE  UpdInv'
  <1>1. /\ speech' = speech /\ kept' = kept /\ view' = view /\ heard' = heard /\ closed' = closed
        /\ card' = [card EXCEPT !.paused = ~@,
                      !.timer = card.paused /\ Updates!Visible /\ card.active.status = "complete"]
    BY DEF Updates!Points
  <1>2. card \in Lives /\ card.active \in Faces /\ card.paused \in BOOLEAN
    BY LivesTyped DEF UpdInv, FaceInv
  <1>3. /\ card' \in Lives /\ card'.convo = card.convo /\ card'.seen = card.seen /\ card'.gone = card.gone
        /\ card'.active = card.active /\ card'.queue = card.queue /\ card'.shown = card.shown
        /\ card'.hidden = card.hidden
        /\ card'.timer = (card.paused /\ Updates!Visible /\ card.active.status = "complete")
    <2> DEFINE p == ~card.paused
               t == card.paused /\ Updates!Visible /\ card.active.status = "complete"
    <2>1. p \in BOOLEAN /\ t \in BOOLEAN /\ card' = [card EXCEPT !.paused = p, !.timer = t]
      BY <1>1, <1>2
    <2> HIDE DEF p, t
    <2>2. /\ card' \in Lives /\ card'.convo = card.convo /\ card'.seen = card.seen /\ card'.gone = card.gone
          /\ card'.active = card.active /\ card'.queue = card.queue /\ card'.shown = card.shown
          /\ card'.hidden = card.hidden /\ card'.timer = t
      BY <1>2, <2>1 DEF Lives
    <2>3. QED
      BY <2>2 DEF t
  <1>4. /\ SaidInv' /\ \A c : RowsOf(c)' = RowsOf(c) /\ HomeOf(c)' = HomeOf(c)
        /\ \A i : Writing(i)' = Writing(i)
    BY <1>1, SpeechSame DEF UpdInv
  <1>5. KnownIn(card)' = KnownIn(card) /\ (Tidy(card) => Tidy(card)')
    <2>1. KnownIn(card') = KnownIn(card)
      BY <1>3 DEF KnownIn
    <2>2. Tidy(card) => Tidy(card)'
      BY <1>3, <1>4, <2>1 DEF Tidy, KnownIn
    <2>3. QED
      BY <2>1, <2>2 DEF KnownIn
  <1>6. FaceInv'
    <2>1. card'.timer => card.active # Updates!NoItem /\ Updates!Visible
      BY <1>3, NoItemIsNone
    <2>2. Updates!Visible' = Updates!Visible
      BY <1>1 DEF Updates!Visible
    <2>3. QED
      BY <1>1, <1>3, <2>1, <2>2 DEF UpdInv, FaceInv
  <1>7. \A i : Met(i) => Met(i)'
    BY <1>1, <1>3, <1>4, <1>5 DEF Met, Reads, Buries
  <1>8. KeptInv' /\ CardInv' /\ HeardInv' /\ MetInv'
    BY <1>1, <1>3, <1>4, <1>5, <1>7 DEF UpdInv, KeptInv, CardInv, HeardInv, MetInv
  <1>9. QED
    BY <1>4, <1>6, <1>8 DEF UpdInv

\* Another window of the page shows an update.
LEMMA OtherShowsKeeps ==
    ASSUME UpdatesBounds, UpdInv, Updates!OtherShows
    PROVE  UpdInv'
  <1> DEFINE c == speech.open
  <1>1. /\ speech' = speech /\ card' = card /\ view' = view /\ closed' = closed
        /\ SaidInv /\ c \in Convos /\ kept \in [Convos -> Stores] /\ kept[c].seen \in Seq(Upds)
    BY DEF Updates!OtherShows, UpdInv, SaidInv, KeptInv, Stores
  <1>2. PICK i \in Updates!Range(speech.rows[c]) \ Updates!Range(kept[c].seen) :
          /\ kept[c].read /\ kept' = [kept EXCEPT ![c].seen = Append(@, i)]
          /\ heard' = heard \cup {i}
    BY DEF Updates!OtherShows
  <1>3. i \in RowsOf(c) /\ i \notin Names(kept[c].seen) /\ i \in Upds /\ i \in HomeOf(c)
    <2>1. Updates!Range(speech.rows[c]) = RowsOf(c) /\ Updates!Range(kept[c].seen) = Names(kept[c].seen)
      BY <1>1 DEF SaidInv, Updates!Range, RowsOf, Names
    <2>2. QED
      BY <1>1, <2>1, SaidAtHome DEF HomeOf
  <1>4. /\ Append(kept[c].seen, i) \in Seq(Upds)
        /\ Names(Append(kept[c].seen, i)) = Names(kept[c].seen) \cup {i}
        /\ Distinct(Append(kept[c].seen, i))
    BY <1>1, <1>3, AppendFacts DEF UpdInv, KeptInv
  <1>5. /\ kept' \in [Convos -> Stores] /\ \A d \in Convos \ {c} : kept'[d] = kept[d]
        /\ kept'[c].seen = Append(kept[c].seen, i) /\ kept'[c].gone = kept[c].gone /\ kept'[c].read = kept[c].read
    <2> DEFINE r == [kept[c] EXCEPT !.seen = Append(kept[c].seen, i)]
    <2>1. kept[c] \in Stores
      BY <1>1
    <2>2. r \in Stores /\ r.seen = Append(kept[c].seen, i) /\ r.gone = kept[c].gone /\ r.read = kept[c].read
      <3> DEFINE u == Append(kept[c].seen, i)
      <3>1. u \in Seq(Upds) /\ r = [kept[c] EXCEPT !.seen = u]
        BY <1>4
      <3> HIDE DEF r, u
      <3>2. r \in Stores /\ r.seen = u /\ r.gone = kept[c].gone /\ r.read = kept[c].read
        BY <2>1, <3>1 DEF Stores
      <3>3. QED
        BY <3>2 DEF u
    <2>3. kept' = [kept EXCEPT ![c] = r]
      BY <1>2
    <2> HIDE DEF r
    <2>4. QED
      BY <1>1, <2>2, <2>3
  <1>6. /\ SaidInv' /\ \A d : RowsOf(d)' = RowsOf(d) /\ HomeOf(d)' = HomeOf(d)
        /\ \A j : Writing(j)' = Writing(j)
    BY <1>1, SpeechSame DEF UpdInv
  <1>7. \A d \in Convos : /\ Names(kept[d].seen) \subseteq Names(kept'[d].seen) /\ kept'[d].gone = kept[d].gone
                          /\ Names(kept'[d].seen) \subseteq Names(kept[d].seen) \cup {i}
                          /\ kept'[d].read = kept[d].read
    BY <1>4, <1>5
  <1>8. KeptInv'
    <2>1. SUFFICES ASSUME NEW d \in Convos
                   PROVE  /\ Distinct(kept'[d].seen) /\ Distinct(kept'[d].gone)
                          /\ Names(kept'[d].gone) \subseteq Names(kept'[d].seen)
                          /\ Names(kept'[d].seen) \subseteq HomeOf(d)
                          /\ ~kept'[d].read => kept'[d] = Updates!Unread
      BY <1>5, <1>6 DEF KeptInv
    <2>2. CASE d = c
      <3>1. /\ Distinct(kept[c].gone) /\ Names(kept[c].gone) \subseteq Names(kept[c].seen)
            /\ Names(kept[c].seen) \subseteq HomeOf(c)
        BY <1>1 DEF UpdInv, KeptInv
      <3>2. /\ Distinct(kept'[c].seen) /\ Distinct(kept'[c].gone)
            /\ Names(kept'[c].gone) \subseteq Names(kept'[c].seen) /\ Names(kept'[c].seen) \subseteq HomeOf(c)
        BY <1>3, <1>4, <1>5, <3>1
      <3>3. kept'[c].read
        BY <1>2, <1>5
      <3>4. QED
        BY <2>2, <3>2, <3>3
    <2>3. CASE d # c
      BY <1>5, <2>3 DEF UpdInv, KeptInv
    <2>4. QED
      BY <2>2, <2>3
  <1>9. KnownIn(card)' = KnownIn(card) /\ (Tidy(card) => Tidy(card)')
    BY <1>1, <1>6 DEF Tidy, KnownIn
  <1>10. FaceInv'
    BY <1>1 DEF UpdInv, FaceInv, Updates!Visible
  <1>11. CardInv'
    <2>1. CASE card.convo = NoConvo
      BY <1>1, <2>1 DEF UpdInv, CardInv
    <2>2. CASE card.convo # NoConvo
      <3>1. card.convo \in Convos
        BY <2>2 DEF UpdInv, CardInv, Tidy
      <3>2. QED
        BY <1>1, <1>7, <1>9, <2>2, <3>1 DEF UpdInv, CardInv
    <2>3. QED
      BY <2>1, <2>2
  <1>12. HeardInv'
    BY <1>1, <1>2, <1>3, <1>7 DEF UpdInv, HeardInv
  <1>13. \A j : Met(j) => Met(j)'
    BY <1>1, <1>6, <1>7, <1>9 DEF Met, Reads, Buries
  <1>14. MetInv'
    BY <1>1, <1>9, <1>13 DEF UpdInv, MetInv
  <1>15. QED
    BY <1>6, <1>8, <1>10, <1>11, <1>12, <1>14 DEF UpdInv

\* The page is loaded again: what was finished is not taken up any more.
LEMMA ReloadedKeeps ==
    ASSUME UpdatesBounds, UpdInv, Updates!Reloaded
    PROVE  UpdInv'
  <1> DEFINE D == IF card.active.status = "complete" THEN Updates!OnCard ELSE {}
  <1>1. /\ speech' = speech /\ kept' = kept /\ view' = view /\ heard' = heard
        /\ card' = Updates!NewCard /\ closed' = closed \cup D
    BY DEF Updates!Reloaded
  <1>2. /\ card' \in Lives /\ card'.convo = NoConvo /\ card'.seen = <<>> /\ card'.gone = <<>> /\ card'.queue = <<>>
        /\ card'.active = Updates!NoItem /\ card'.shown = NoUpdate /\ card'.hidden = TRUE /\ card'.timer = FALSE
        /\ KnownIn(card') = {}
    BY <1>1, NewCardIs
  <1>3. /\ SaidInv' /\ \A d : RowsOf(d)' = RowsOf(d) /\ HomeOf(d)' = HomeOf(d)
        /\ \A j : Writing(j)' = Writing(j)
    BY <1>1, SpeechSame DEF UpdInv
  <1>4. speech.open \in Convos /\ NoConvo \notin Convos /\ NoUpdate \notin Upds /\ SaidInv
    BY DEF UpdInv, SaidInv, UpdatesBounds
  <1>5. \A c \in Convos : Reads(c) \subseteq Names(kept[c].seen) /\ Buries(c) \subseteq Names(kept[c].gone)
    BY <1>4 DEF Reads, Buries, UpdInv, CardInv
  <1>6. ASSUME NEW i \in closed' PROVE i \in Upds /\ Met(i)'
    <2>1. i \in Upds /\ Met(i)
      BY <1>1, OnCardIs DEF UpdInv, HeardInv, MetInv
    <2>2. Writing(i) => i \in Names(kept[speech.open].gone)
      <3>1. CASE i \in closed
        <4>1. i # card.active.id
          BY <2>1, <3>1, <1>4 DEF UpdInv, MetInv, KnownIn
        <4>2. QED
          BY <1>4, <1>5, <2>1, <4>1 DEF Met
      <3>2. CASE i \notin closed
        <4>1. card.active.status = "complete" /\ i = card.active.id /\ i \in Updates!OnCard
          BY <1>1, <3>2, OnCardIs
        <4>2. card.convo \in Convos /\ i \in RowsOf(card.convo)
          <5>1. card.active # Updates!NoItem
            BY <4>1, NoItemIsNone
          <5>2. Tidy(card)
            BY <5>1 DEF UpdInv, CardInv
          <5>3. QED
            BY <4>1, <5>2 DEF Tidy
        <4>3. QED
          BY <1>4, <4>2 DEF SaidInv, Writing
      <3>3. QED
        BY <3>1, <3>2
    <2>3. \A c \in Convos : i \in RowsOf(c) => i \in Names(kept[c].seen)
      BY <1>5, <2>1 DEF Met
    <2>4. /\ i \in CheckIns => i \in speech.begun
          /\ i \in Replies => \E c \in Convos : i \in RowsOf(c)
      BY <2>1 DEF Met
    <2>5. /\ Reads(speech.open)' = Names(kept[speech.open].seen)
          /\ Buries(speech.open)' = Names(kept[speech.open].gone)
          /\ \A c \in Convos : Reads(c)' = Names(kept[c].seen)
      BY <1>1, <1>2, <1>4 DEF Reads, Buries
    <2>6. i \notin KnownIn(card)'
      BY <1>2 DEF KnownIn
    <2>7. QED
      BY <1>1, <1>3, <1>4, <2>1, <2>2, <2>3, <2>4, <2>5, <2>6 DEF Met
  <1>7. KeptInv'
    BY <1>1, <1>3 DEF UpdInv, KeptInv
  <1>8. FaceInv'
    BY <1>1, <1>2 DEF UpdInv, FaceInv, Updates!Visible
  <1>9. CardInv'
    BY <1>2 DEF CardInv
  <1>10. HeardInv'
    BY <1>1, <1>2, <1>6, UnreadIs DEF UpdInv, HeardInv
  <1>11. MetInv'
    BY <1>2, <1>4, <1>6 DEF MetInv, KnownIn
  <1>12. QED
    BY <1>3, <1>7, <1>8, <1>9, <1>10, <1>11 DEF UpdInv

\* The service says more: what was met stays met.
LEMMA SpeechGrows ==
    ASSUME UpdatesBounds, UpdInv, SaidInv',
           card' = card, kept' = kept, view' = view, heard' = heard, closed' = closed,
           \A c \in Convos : RowsOf(c) \subseteq RowsOf(c)' /\ HomeOf(c) \subseteq HomeOf(c)',
           \A i \in Upds : Met(i) => Met(i)'
    PROVE  UpdInv'
  <1>1. KnownIn(card)' = KnownIn(card) /\ (Tidy(card) => Tidy(card)')
    BY DEF Tidy, KnownIn
  <1>2. KeptInv'
    BY DEF UpdInv, KeptInv
  <1>3. FaceInv'
    BY DEF UpdInv, FaceInv, Updates!Visible
  <1>4. CardInv'
    BY <1>1 DEF UpdInv, CardInv
  <1>5. HeardInv'
    BY DEF UpdInv, HeardInv
  <1>6. MetInv'
    BY <1>1 DEF UpdInv, MetInv, HeardInv
  <1>7. QED
    BY <1>2, <1>3, <1>4, <1>5, <1>6 DEF UpdInv

\* A step of the service that leaves the rows and the open chat as they are.
LEMMA StreamMoves ==
    ASSUME UpdatesBounds, UpdInv, NEW b \in SUBSET CheckIns, NEW f \in Updates!Frame, NEW r \in BOOLEAN,
           NEW o \in Convos,
           speech' = [speech EXCEPT !.stream = f, !.begun = b, !.reply = r, !.open = o],
           card' = card, kept' = kept, view' = view, heard' = heard, closed' = closed,
           speech.begun \subseteq b,
           \/ f = speech.stream /\ o = speech.open
           \/ f = Updates!NoFrame
           \/ f.status = "writing" /\ f.item \in b \ speech.begun /\ o = speech.open
           \/ /\ f.status = "interrupted" /\ speech.stream.status = "writing"
              /\ f.item = speech.stream.item /\ o = speech.open
    PROVE  UpdInv'
  <1>1. /\ speech'.rows = speech.rows /\ speech'.stream = f /\ speech'.begun = b /\ speech'.reply = r
        /\ speech'.open = o
        /\ speech' \in [rows : [Convos -> Seq(Upds)], stream : Updates!Frame, open : Convos,
                        begun : SUBSET CheckIns, reply : BOOLEAN]
    BY DEF UpdInv, SaidInv
  <1>2. \A c : RowsOf(c)' = RowsOf(c)
    BY <1>1 DEF RowsOf
  <1>3. Updates!NoFrame.status = "none"
    BY DEF Updates!NoFrame
  <1>4. ASSUME f.status = "writing", f # speech.stream PROVE f.item \in b \ speech.begun /\ o = speech.open
    BY <1>3, <1>4
  <1>5. \A c \in Convos : RowsOf(c) \cap CheckIns \subseteq speech.begun
    BY DEF UpdInv, SaidInv
  <1>6. f.item \in CheckIns \ speech.begun => \A c \in Convos : f.item \notin RowsOf(c)
    BY <1>5
  <1>7. SaidInv'
    <2>1. Streams' => f.item \in b
      BY <1>1, <1>3 DEF Streams, UpdInv, SaidInv
    <2>2. ~Streams' => f = Updates!NoFrame
      BY <1>1, <1>3 DEF Streams, UpdInv, SaidInv
    <2>3. f.status = "complete" => f.item \in RowsOf(o)
      BY <1>3 DEF UpdInv, SaidInv
    <2>4. f.status \in {"writing", "interrupted"} => \A c \in Convos : f.item \notin RowsOf(c)
      BY <1>3, <1>6 DEF UpdInv, SaidInv
    <2>5. /\ \A c \in Convos : RowsOf(c) \cap CheckIns \subseteq b /\ Distinct(speech.rows[c])
          /\ \A c, d \in Convos : c # d => RowsOf(c) \cap RowsOf(d) = {}
      BY DEF UpdInv, SaidInv
    <2>6. QED
      BY <1>1, <1>2, <2>1, <2>2, <2>3, <2>4, <2>5 DEF SaidInv
  <1>8. \A c \in Convos : HomeOf(c) \subseteq HomeOf(c)'
    <2>1. SUFFICES ASSUME NEW c \in Convos, NEW i \in Upds, Foreign(i, c)' PROVE Foreign(i, c)
      BY DEF HomeOf
    <2>2. CASE Streams' /\ f.item = i /\ o # c
      <3>1. f # Updates!NoFrame
        BY <1>1, <1>3, <2>2 DEF Streams
      <3>2. CASE f.status = "writing" /\ f.item \in b \ speech.begun /\ o = speech.open
        BY <2>2, <3>2 DEF Foreign
      <3>3. CASE o = speech.open /\ speech.stream.item = i /\ Streams
        BY <2>2, <3>3 DEF Foreign
      <3>4. QED
        BY <1>1, <2>2, <3>1, <3>2, <3>3 DEF Streams
    <2>3. CASE ~(Streams' /\ f.item = i /\ o # c)
      BY <1>1, <1>2, <2>1, <2>3 DEF Foreign
    <2>4. QED
      BY <2>2, <2>3
  <1>9. ASSUME NEW i \in Upds, Met(i) PROVE Met(i)'
    <2>1. /\ i \in CheckIns => i \in b
          /\ i \in Replies => \E c \in Convos : i \in RowsOf(c)
          /\ \A c \in Convos : i \in RowsOf(c) => i \in Reads(c)
          /\ i \in KnownIn(card) => i = card.active.id /\ i \in Names(card.seen)
      BY <1>9 DEF Met
    <2>2. ASSUME f.status = "writing", f.item = i
          PROVE  (card.convo = o /\ card.active.id = i) \/ i \in Buries(o)
      <3>1. CASE f = speech.stream /\ o = speech.open
        BY <1>9, <2>2, <3>1 DEF Met, Writing
      <3>2. CASE f.item \in b \ speech.begun
        BY <1>9, <2>2, <3>2 DEF Met
      <3>3. QED
        BY <1>3, <2>2, <3>1, <3>2
    <2>3. \A c \in Convos : Reads(c)' = Reads(c) /\ Buries(c)' = Buries(c)
      BY DEF Reads, Buries
    <2>4. KnownIn(card)' = KnownIn(card)
      BY DEF KnownIn
    <2>5. Writing(i)' <=> f.status = "writing" /\ f.item = i
      BY <1>1 DEF Writing
    <2>6. Buries(speech.open)' = Buries(o)
      BY <1>1 DEF Buries
    <2>7. QED
      BY <1>1, <1>2, <2>1, <2>2, <2>3, <2>4, <2>5, <2>6 DEF Met
  <1>10. QED
    BY <1>2, <1>7, <1>8, <1>9, SpeechGrows

\* A step that adds a row to the open conversation.
LEMMA RowAdded ==
    ASSUME UpdatesBounds, UpdInv, NEW i \in Upds, NEW f \in Updates!Frame,
           speech' = [speech EXCEPT !.stream = f, !.rows[speech.open] = Append(@, i)],
           card' = card, kept' = kept, view' = view, heard' = heard, closed' = closed,
           \A c \in Convos : i \notin RowsOf(c),
           \/ i \in Replies /\ f = speech.stream
           \/ Writing(i) /\ f = [item |-> i, status |-> "complete"]
    PROVE  UpdInv'
  <1> DEFINE o == speech.open
             w == Append(speech.rows[o], i)
             R == [speech.rows EXCEPT ![o] = w]
  <1>1. /\ o \in Convos /\ speech.rows \in [Convos -> Seq(Upds)] /\ speech.rows[o] \in Seq(Upds) /\ SaidInv
        /\ speech \in [rows : [Convos -> Seq(Upds)], stream : Updates!Frame, open : Convos,
                       begun : SUBSET CheckIns, reply : BOOLEAN]
    BY DEF UpdInv, SaidInv
  <1>2. w \in Seq(Upds) /\ Names(w) = RowsOf(o) \cup {i} /\ Distinct(w)
    BY <1>1, AppendFacts DEF SaidInv, RowsOf
  <1> HIDE DEF w
  <1>3. R \in [Convos -> Seq(Upds)] /\ R[o] = w /\ \A c \in Convos \ {o} : R[c] = speech.rows[c]
    BY <1>1, <1>2
  <1>4. speech' = [speech EXCEPT !.stream = f, !.rows = R]
    BY <1>1 DEF w
  <1> HIDE DEF R
  <1>5. /\ speech'.rows = R /\ speech'.stream = f /\ speech'.begun = speech.begun /\ speech'.reply = speech.reply
        /\ speech'.open = o
        /\ speech' \in [rows : [Convos -> Seq(Upds)], stream : Updates!Frame, open : Convos,
                        begun : SUBSET CheckIns, reply : BOOLEAN]
    BY <1>1, <1>3, <1>4
  <1>6. RowsOf(o)' = RowsOf(o) \cup {i} /\ \A c \in Convos \ {o} : RowsOf(c)' = RowsOf(c)
    BY <1>2, <1>3, <1>5 DEF RowsOf
  <1>7. Streams' = Streams /\ f.item = speech.stream.item
    BY <1>5 DEF Streams, Writing
  <1>8. i \in CheckIns => i \in speech.begun /\ f = [item |-> i, status |-> "complete"] /\ Writing(i)
    BY <1>1 DEF UpdatesBounds, SaidInv, Streams, Writing
  <1>9. SaidInv'
    <2>1. \A c \in Convos : (RowsOf(c) \cap CheckIns \subseteq speech.begun)' /\ Distinct(speech'.rows[c])
      <3>1. SUFFICES ASSUME NEW c \in Convos
                     PROVE  (RowsOf(c) \cap CheckIns \subseteq speech.begun)' /\ Distinct(speech'.rows[c])
        OBVIOUS
      <3>2. CASE c = o
        <4>1. Distinct(speech'.rows[o])
          BY <1>2, <1>3, <1>5
        <4>2. (RowsOf(o) \cup {i}) \cap CheckIns \subseteq speech.begun
          BY <1>1, <1>8 DEF SaidInv
        <4>3. RowsOf(c)' = RowsOf(o) \cup {i} /\ speech'.begun = speech.begun
          BY <1>5, <1>6, <3>2
        <4>4. QED
          BY <3>2, <4>1, <4>2, <4>3
      <3>3. CASE c # o
        BY <1>1, <1>3, <1>5, <1>6, <3>3 DEF SaidInv
      <3>4. QED
        BY <3>2, <3>3
    <2>2. \A c, d \in Convos : c # d => (RowsOf(c) \cap RowsOf(d) = {})'
      <3>1. SUFFICES ASSUME NEW c \in Convos, NEW d \in Convos, c # d PROVE RowsOf(c)' \cap RowsOf(d)' = {}
        OBVIOUS
      <3>2. RowsOf(c) \cap RowsOf(d) = {} /\ i \notin RowsOf(c) /\ i \notin RowsOf(d)
        BY <1>1, <3>1 DEF SaidInv
      <3>3. /\ RowsOf(c)' = IF c = o THEN RowsOf(c) \cup {i} ELSE RowsOf(c)
            /\ RowsOf(d)' = IF d = o THEN RowsOf(d) \cup {i} ELSE RowsOf(d)
        BY <1>6
      <3>4. QED
        BY <3>1, <3>2, <3>3
    <2>3. /\ Streams' => f.item \in speech.begun
          /\ ~Streams' => f = Updates!NoFrame
      BY <1>1, <1>7 DEF SaidInv, Streams, Writing
    <2>4. f.status = "complete" => f.item \in RowsOf(o)'
      BY <1>1, <1>6 DEF SaidInv
    <2>5. f.status \in {"writing", "interrupted"} => \A c \in Convos : f.item \notin RowsOf(c)'
      <3>1. SUFFICES ASSUME f.status \in {"writing", "interrupted"} PROVE \A c \in Convos : f.item \notin RowsOf(c)'
        OBVIOUS
      <3>2. f = speech.stream /\ i \in Replies
        BY <3>1
      <3>3. f.item \in CheckIns
        BY <1>1, <3>1, <3>2, SaidAtHome DEF Streams
      <3>4. f.item # i
        BY <3>2, <3>3 DEF UpdatesBounds
      <3>5. QED
        BY <1>1, <1>6, <3>1, <3>2, <3>4 DEF SaidInv
    <2>6. QED
      BY <1>5, <2>1, <2>2, <2>3, <2>4, <2>5 DEF SaidInv
  <1>10. \A c \in Convos : RowsOf(c) \subseteq RowsOf(c)'
    BY <1>6
  <1>11. \A c \in Convos : HomeOf(c) \subseteq HomeOf(c)'
    <2>1. SUFFICES ASSUME NEW c \in Convos, NEW j \in Upds, Foreign(j, c)' PROVE Foreign(j, c)
      BY DEF HomeOf
    <2>2. CASE j = i
      <3>1. CASE i \in Replies
        BY <2>2, <3>1 DEF Foreign
      <3>2. CASE i \notin Replies
        <4>1. Writing(i) /\ f = [item |-> i, status |-> "complete"]
          BY <3>2
        <4>2. CASE c # o
          BY <2>2, <4>1, <4>2 DEF Foreign, Writing, Streams
        <4>3. CASE c = o
          <5>1. i \in CheckIns /\ i \in speech.begun
            BY <3>2, <1>8 DEF Upds, Updates!Updates
          <5>2. \A d \in Convos \ {o} : i \notin RowsOf(d)'
            BY <1>6
          <5>3. QED
            BY <1>5, <2>1, <2>2, <3>2, <4>3, <5>1, <5>2 DEF Foreign
        <4>4. QED
          BY <4>2, <4>3
      <3>3. QED
        BY <3>1, <3>2
    <2>3. CASE j # i
      <3>1. \A d \in Convos : j \in RowsOf(d)' <=> j \in RowsOf(d)
        BY <1>6, <2>3
      <3>2. QED
        BY <1>5, <1>7, <2>1, <3>1 DEF Foreign
    <2>4. QED
      BY <2>2, <2>3
  <1>12. ASSUME NEW j \in Upds, Met(j) PROVE Met(j)'
    <2>1. /\ j \in CheckIns => j \in speech.begun
          /\ j \in Replies => \E c \in Convos : j \in RowsOf(c)
          /\ \A c \in Convos : j \in RowsOf(c) => j \in Reads(c)
          /\ j \in KnownIn(card) => j = card.active.id /\ j \in Names(card.seen)
          /\ Writing(j) => (card.convo = o /\ card.active.id = j) \/ j \in Buries(o)
      BY <1>12 DEF Met
    <2>2. \A c \in Convos : Reads(c)' = Reads(c) /\ Buries(c)' = Buries(c)
      BY DEF Reads, Buries
    <2>3. KnownIn(card)' = KnownIn(card)
      BY DEF KnownIn
    <2>4. Writing(j)' => Writing(j)
      BY <1>5 DEF Writing
    <2>5. \A c \in Convos : j \in RowsOf(c)' => j \in Reads(c)
      <3>1. CASE j # i
        BY <1>6, <2>1, <3>1
      <3>2. CASE j = i
        <4>1. Writing(j)
          BY <2>1, <3>2
        <4>2. j \in Reads(o)
          <5>1. CASE card.convo = o
            <6>1. j \in Names(card.seen)
              <7>1. CASE card.active.id = j
                BY <2>1, <7>1, NoItemIsNone DEF KnownIn
              <7>2. CASE j \in Names(card.gone)
                <8>1. Tidy(card)
                  BY <1>1, <5>1 DEF UpdInv, CardInv, UpdatesBounds
                <8>2. QED
                  BY <7>2, <8>1 DEF Tidy
              <7>3. QED
                BY <2>1, <4>1, <5>1, <7>1, <7>2 DEF Buries
            <6>2. QED
              BY <5>1, <6>1 DEF Reads
          <5>2. CASE card.convo # o
            BY <1>1, <2>1, <4>1, <5>2 DEF Buries, Reads, UpdInv, KeptInv
          <5>3. QED
            BY <5>1, <5>2
        <4>3. QED
          BY <1>6, <2>1, <3>2, <4>2
      <3>3. QED
        BY <3>1, <3>2
    <2>6. Buries(speech.open)' = Buries(o)
      BY <1>5 DEF Buries
    <2>7. j \in Replies => \E c \in Convos : j \in RowsOf(c)'
      BY <1>10, <2>1
    <2>8. QED
      BY <1>5, <2>1, <2>2, <2>3, <2>4, <2>5, <2>6, <2>7 DEF Met
  <1>13. QED
    BY <1>9, <1>10, <1>11, <1>12, SpeechGrows

\* What the service says.
LEMMA ServiceKeeps ==
    ASSUME UpdatesBounds, UpdInv,
           \/ Updates!CheckInStarts \/ Updates!CheckInEnds \/ Updates!ReplyStarts \/ Updates!ReplyStored
           \/ Updates!ReplyEnds \/ Updates!Selects
    PROVE  UpdInv'
  <1>1. /\ speech \in [rows : [Convos -> Seq(Upds)], stream : Updates!Frame, open : Convos,
                       begun : SUBSET CheckIns, reply : BOOLEAN]
        /\ SaidInv /\ CheckIns \cap Replies = {} /\ Upds = CheckIns \cup Replies
    BY DEF UpdInv, SaidInv, UpdatesBounds, Upds, Updates!Updates
  <1>2. card' = card /\ kept' = kept /\ view' = view /\ heard' = heard /\ closed' = closed
    BY DEF Updates!CheckInStarts, Updates!CheckInEnds, Updates!ReplyStarts, Updates!ReplyStored, Updates!ReplyEnds,
           Updates!Selects, Updates!Speaks
  <1>3. /\ speech.stream \in Updates!Frame /\ speech.open \in Convos /\ speech.begun \in SUBSET CheckIns
        /\ speech.reply \in BOOLEAN /\ speech.rows[speech.open] \in Seq(Upds)
        /\ Updates!NoFrame \in Updates!Frame
    BY <1>1 DEF Updates!NoFrame, Updates!Frame
  <1>4. CASE Updates!CheckInStarts
    <2>1. PICK i \in CheckIns \ speech.begun :
            speech' = [speech EXCEPT !.stream = [item |-> i, status |-> "writing"], !.begun = @ \cup {i}]
      BY <1>4 DEF Updates!CheckInStarts, Updates!Speaks
    <2> DEFINE f == [item |-> i, status |-> "writing"]
               b == speech.begun \cup {i}
    <2>2. f \in Updates!Frame /\ f.status = "writing" /\ f.item \in b \ speech.begun /\ b \in SUBSET CheckIns
          /\ speech.begun \subseteq b
      BY <1>3 DEF Updates!Frame
    <2>3. speech' = [speech EXCEPT !.stream = f, !.begun = b, !.reply = speech.reply, !.open = speech.open]
      BY <1>1, <2>1
    <2> HIDE DEF f, b
    <2>4. QED
      BY <1>2, <1>3, <2>2, <2>3, StreamMoves
  <1>5. CASE Updates!CheckInEnds
    <2> DEFINE i == speech.stream.item
               f == [item |-> i, status |-> "complete"]
               g == [item |-> i, status |-> "interrupted"]
    <2>1. /\ Writing(i) /\ speech.stream.status = "writing" /\ i \in CheckIns /\ i \in Upds
          /\ \A c \in Convos : i \notin RowsOf(c)
      BY <1>1, <1>5, SaidAtHome DEF Updates!CheckInEnds, Writing, Streams, SaidInv
    <2>2. f \in Updates!Frame /\ g \in Updates!Frame
      BY <2>1 DEF Updates!Frame
    <2>3. speech.stream = [item |-> i, status |-> "writing"]
      BY <1>3, <2>1 DEF Updates!Frame
    <2>4. \/ speech' = [speech EXCEPT !.stream = f, !.rows[speech.open] = Append(@, i)]
          \/ speech' = [speech EXCEPT !.stream = g, !.begun = speech.begun, !.reply = speech.reply, !.open = speech.open]
      <3>1. \/ speech' = [speech EXCEPT !.stream.status = "complete",
                                        !.rows[speech.open] = Append(@, speech.stream.item)]
            \/ speech' = [speech EXCEPT !.stream.status = "interrupted"]
        BY <1>5 DEF Updates!CheckInEnds, Updates!Speaks
      <3>2. [speech.stream EXCEPT !.status = "complete"] = f /\ [speech.stream EXCEPT !.status = "interrupted"] = g
        BY <2>3
      <3>3. [speech EXCEPT !.stream.status = "interrupted"] = [speech EXCEPT !.stream = g]
        BY <1>1, <3>2
      <3>4. [speech EXCEPT !.stream.status = "complete", !.rows[speech.open] = Append(@, speech.stream.item)]
              = [speech EXCEPT !.stream = f, !.rows[speech.open] = Append(@, i)]
        BY <1>1, <3>2
      <3>5. [speech EXCEPT !.stream = g]
              = [speech EXCEPT !.stream = g, !.begun = speech.begun, !.reply = speech.reply, !.open = speech.open]
        BY <1>1
      <3>6. QED
        BY <3>1, <3>3, <3>4, <3>5
    <2>5. f.status = "complete" /\ g.status = "interrupted" /\ g.item = i
      OBVIOUS
    <2> HIDE DEF g
    <2>6. CASE speech' = [speech EXCEPT !.stream = f, !.rows[speech.open] = Append(@, i)]
      BY <1>2, <2>1, <2>2, <2>6, RowAdded
    <2>7. CASE speech' = [speech EXCEPT !.stream = g, !.begun = speech.begun, !.reply = speech.reply,
                                        !.open = speech.open]
      BY <1>2, <1>3, <2>1, <2>2, <2>5, <2>7, StreamMoves
    <2>8. QED
      BY <2>4, <2>6, <2>7
  <1>6. CASE Updates!ReplyStarts \/ Updates!ReplyEnds
    <2>1. PICK r \in BOOLEAN :
            speech' = [speech EXCEPT !.stream = speech.stream, !.begun = speech.begun, !.reply = r, !.open = speech.open]
      BY <1>1, <1>6 DEF Updates!ReplyStarts, Updates!ReplyEnds, Updates!Speaks
    <2>2. QED
      BY <1>2, <1>3, <2>1, StreamMoves
  <1>7. CASE Updates!ReplyStored
    <2>1. PICK i \in Replies \ Updates!Said : speech' = [speech EXCEPT !.rows[speech.open] = Append(@, i)]
      BY <1>7 DEF Updates!ReplyStored, Updates!Speaks
    <2>2. \A c \in Convos : i \notin RowsOf(c)
      <3>1. \A c \in Convos : Updates!Range(speech.rows[c]) = RowsOf(c)
        BY <1>1 DEF Updates!Range, RowsOf, Names
      <3>2. QED
        BY <2>1, <3>1 DEF Updates!Said
    <2>3. speech' = [speech EXCEPT !.stream = speech.stream, !.rows[speech.open] = Append(@, i)]
      BY <1>1, <2>1
    <2>4. QED
      BY <1>1, <1>2, <1>3, <2>1, <2>2, <2>3, RowAdded
  <1>8. CASE Updates!Selects
    <2>1. PICK c \in Convos : speech' = [speech EXCEPT !.open = c, !.stream = Updates!NoFrame]
      BY <1>8 DEF Updates!Selects
    <2>2. speech' = [speech EXCEPT !.stream = Updates!NoFrame, !.begun = speech.begun, !.reply = speech.reply, !.open = c]
      BY <1>1, <2>1
    <2>3. QED
      BY <1>2, <1>3, <2>2, StreamMoves
  <1>9. QED
    BY <1>4, <1>5, <1>6, <1>7, <1>8

LEMMA UpdatesStarts ==
    ASSUME UpdatesBounds, Updates!UpdatesInit
    PROVE  UpdInv
  <1>1. PICK older \in {<<>>} \cup {<<r>> : r \in Replies}, c \in {CHOOSE d \in Convos : TRUE} :
          speech = [rows |-> [d \in Convos |-> IF d = c THEN older ELSE <<>>],
                    stream |-> Updates!NoFrame, begun |-> {}, open |-> c, reply |-> FALSE]
    BY DEF Updates!UpdatesInit
  <1>2. card = Updates!NewCard /\ kept = [d \in Convos |-> Updates!Unread]
        /\ view = [away |-> FALSE, chat |-> FALSE] /\ heard = {} /\ closed = {}
    BY DEF Updates!UpdatesInit
  <1>3. c \in Convos /\ CheckIns \cap Replies = {} /\ Upds = CheckIns \cup Replies
    BY DEF UpdatesBounds, Upds, Updates!Updates
  <1>4. older \in Seq(Upds) /\ Distinct(older) /\ Names(older) \subseteq Replies
    <2>1. CASE older = <<>>
      BY <2>1, UnreadIs
    <2>2. ASSUME NEW r \in Replies, older = <<r>> PROVE older \in Seq(Upds) /\ Distinct(older) /\ Names(older) \subseteq Replies
      <3>1. older \in Seq(Upds) /\ Len(older) = 1 /\ older[1] = r
        BY <1>3, <2>2
      <3>2. QED
        BY <2>2, <3>1 DEF Distinct, Names
    <2>3. QED
      BY <2>1, <2>2
  <1>5. RowsOf(c) = Names(older) /\ speech.rows[c] = older /\ \A d \in Convos \ {c} : RowsOf(d) = {} /\ speech.rows[d] = <<>>
    BY <1>1, <1>3, UnreadIs DEF RowsOf
  <1>6. ~Streams /\ speech.stream = Updates!NoFrame /\ speech.stream.status = "none" /\ speech.open = c
        /\ speech.begun = {}
    BY <1>1 DEF Streams, Updates!NoFrame
  <1>7. SaidInv
    <2>1. speech \in [rows : [Convos -> Seq(Upds)], stream : Updates!Frame, open : Convos,
                      begun : SUBSET CheckIns, reply : BOOLEAN]
      <3>1. [d \in Convos |-> IF d = c THEN older ELSE <<>>] \in [Convos -> Seq(Upds)]
        BY <1>4, UnreadIs
      <3>2. Updates!NoFrame \in Updates!Frame
        BY DEF Updates!NoFrame, Updates!Frame
      <3>3. QED
        BY <1>1, <1>3, <3>1, <3>2
    <2>2. \A d \in Convos : RowsOf(d) \cap CheckIns \subseteq speech.begun /\ Distinct(speech.rows[d])
      BY <1>3, <1>4, <1>5, UnreadIs
    <2>3. \A d, e \in Convos : d # e => RowsOf(d) \cap RowsOf(e) = {}
      BY <1>5
    <2>4. QED
      BY <1>6, <2>1, <2>2, <2>3 DEF SaidInv
  <1>8. KeptInv
    <2>1. Updates!Unread \in Stores
      BY UnreadIs DEF Stores, Updates!Unread
    <2>2. QED
      BY <1>2, <2>1, UnreadIs DEF KeptInv
  <1>9. /\ card \in Lives /\ card.convo = NoConvo /\ card.seen = <<>> /\ card.gone = <<>> /\ card.queue = <<>>
        /\ card.active = Updates!NoItem /\ card.shown = NoUpdate /\ card.hidden = TRUE /\ card.timer = FALSE
        /\ KnownIn(card) = {}
    BY <1>2, NewCardIs
  <1>10. FaceInv
    BY <1>2, <1>9 DEF FaceInv
  <1>11. CardInv
    BY <1>9 DEF CardInv
  <1>12. HeardInv
    BY <1>2, <1>9, UnreadIs DEF HeardInv
  <1>13. MetInv
    BY <1>2, <1>9 DEF MetInv, UpdatesBounds
  <1>14. QED
    BY <1>7, <1>8, <1>10, <1>11, <1>12, <1>13 DEF UpdInv

LEMMA UpdatesStep ==
    ASSUME UpdatesBounds, UpdInv, Updates!UpdatesNext
    PROVE  UpdInv'
  <1>1. view \in [away : BOOLEAN, chat : BOOLEAN]
    BY DEF UpdInv, FaceInv
  <1>2. CASE \/ Updates!CheckInStarts \/ Updates!CheckInEnds \/ Updates!ReplyStarts \/ Updates!ReplyStored
             \/ Updates!ReplyEnds \/ Updates!Selects
    BY <1>2, ServiceKeeps
  <1>3. CASE Updates!Updated
    <2>1. speech' = speech /\ view' = view /\ Updates!Shows(card, view')
      BY <1>3 DEF Updates!Updated
    <2>2. QED
      BY <1>1, <2>1, ShowsArrives, ArrivedWell
  <1>4. CASE Updates!Dismiss
    BY <1>4, DismissArrives, ArrivedWell DEF Updates!Dismiss
  <1>5. CASE Updates!Opens
    BY <1>5, OpensArrives, ArrivedWell
  <1>6. CASE Updates!TimerFires
    <2>1. ~card.hidden
      BY <1>6 DEF Updates!TimerFires, UpdInv, FaceInv
    <2>2. QED
      BY <1>6, <2>1, DismissArrives, ArrivedWell DEF Updates!TimerFires
  <1>7. CASE Updates!Points
    BY <1>7, PointsKeeps
  <1>8. CASE Updates!Covers
    <2>1. speech' = speech /\ view' \in [away : BOOLEAN, chat : BOOLEAN]
      BY <1>8 DEF Updates!Covers
    <2>2. CASE card.convo = NoConvo
      <3>1. card' = card /\ kept' = kept /\ heard' = heard /\ closed' = closed
        BY <1>8, <2>2 DEF Updates!Covers
      <3>2. card.active = Updates!NoItem /\ card.hidden = TRUE
        BY <2>2 DEF UpdInv, CardInv, FaceInv
      <3>3. FaceInv'
        BY <2>1, <3>1, <3>2 DEF UpdInv, FaceInv, Updates!Visible
      <3>4. /\ SaidInv' /\ \A d : RowsOf(d)' = RowsOf(d) /\ HomeOf(d)' = HomeOf(d)
            /\ \A j : Writing(j)' = Writing(j)
        BY <2>1, SpeechSame DEF UpdInv
      <3>5. KnownIn(card)' = KnownIn(card)
        BY <3>1 DEF KnownIn
      <3>6. \A j : Met(j) => Met(j)'
        BY <2>1, <3>1, <3>4, <3>5 DEF Met, Reads, Buries
      <3>7. KeptInv' /\ CardInv' /\ HeardInv' /\ MetInv'
        BY <2>2, <3>1, <3>4, <3>5, <3>6 DEF UpdInv, KeptInv, CardInv, HeardInv, MetInv
      <3>8. QED
        BY <3>3, <3>4, <3>7 DEF UpdInv
    <2>3. CASE card.convo # NoConvo
      <3>1. Updates!Shows(card, view')
        BY <1>8, <2>3 DEF Updates!Covers
      <3>2. QED
        BY <2>1, <3>1, ShowsArrives, ArrivedWell
    <2>4. QED
      BY <2>2, <2>3
  <1>9. CASE Updates!OtherShows
    BY <1>9, OtherShowsKeeps
  <1>10. CASE Updates!Reloaded
    BY <1>10, ReloadedKeeps
  <1>11. QED
    BY <1>2, <1>3, <1>4, <1>5, <1>6, <1>7, <1>8, <1>9, <1>10 DEF Updates!UpdatesNext

LEMMA UpdatesStandsStill ==
    ASSUME UpdatesBounds, UpdInv, UNCHANGED Updates!updateVars
    PROVE  UpdInv'
  <1>1. /\ speech' = speech /\ card' = card /\ kept' = kept /\ view' = view /\ heard' = heard /\ closed' = closed
    BY DEF Updates!updateVars
  <1>2. /\ SaidInv' /\ \A c : RowsOf(c)' = RowsOf(c) /\ HomeOf(c)' = HomeOf(c)
        /\ \A j : Writing(j)' = Writing(j)
    BY <1>1, SpeechSame DEF UpdInv
  <1>3. \A j : Met(j) => Met(j)'
    BY <1>1, <1>2 DEF Met, Reads, Buries, KnownIn
  <1>4. QED
    BY <1>1, <1>2, <1>3, SpeechGrows

\* What the invariant says of a step: nothing is announced twice, nor lost.
LEMMA UpdatesPromise ==
    ASSUME UpdatesBounds, UpdInv, UpdInv', closed \subseteq closed',
           NEW W, AllFit(W) /\ (Updates!Updated \/ Updates!Covers \/ Updates!Opens) /\ card'.convo = speech.open => Covered,
           W = (RowsOf(speech.open) \ Names(card.seen)) \cup IdsOf(card.queue) \cup {speech.stream.item},
           speech' = speech \/ ~(Updates!Updated \/ Updates!Covers \/ Updates!Opens)
    PROVE  Updates!AnnouncedOnce /\ Updates!NothingIsLost
  <1> DEFINE rows == RowsOf(speech.open)
  <1>1. /\ card \in Lives /\ card' \in Lives /\ speech.open \in Convos /\ rows \subseteq Upds
        /\ speech.rows[speech.open] \in Seq(Upds) /\ speech.stream.item \in CheckIns \cup {NoUpdate}
    BY DEF UpdInv, FaceInv, SaidInv, Updates!Frame, RowsOf, Names
  <1>2. /\ Updates!Range(speech.rows[speech.open]) = rows /\ Updates!Range(card'.seen) = Names(card'.seen)
        /\ Updates!Range(card.seen) = Names(card.seen) /\ Updates!Ids(card) = IdsOf(card.queue)
        /\ Updates!Ids(card') = IdsOf(card'.queue) /\ IdsOf(card.queue) \subseteq Upds
    <2>1. ASSUME NEW s \in Seq(Upds) PROVE Updates!Range(s) = Names(s)
      BY <2>1 DEF Updates!Range, Names
    <2>2. card.seen \in Seq(Upds) /\ card'.seen \in Seq(Upds)
      BY <1>1 DEF Lives
    <2>3. /\ Updates!Ids(card) = IdsOf(card.queue) /\ IdsOf(card.queue) \subseteq Upds
          /\ Updates!Ids(card') = IdsOf(card'.queue)
      BY <1>1, IdsAreOf
    <2>4. QED
      BY <1>1, <2>1, <2>2, <2>3 DEF RowsOf
  <1>3. Updates!AnnouncedOnce
    <2>1. SUFFICES ASSUME NEW i \in Upds, card'.active.id = i, i \in closed PROVE FALSE
      BY DEF Updates!AnnouncedOnce, Upds
    <2>2. i \in KnownIn(card')
      BY <2>1, NoItemIsNone DEF KnownIn
    <2>3. closed' \cap KnownIn(card') = {}
      BY DEF UpdInv, MetInv, KnownIn
    <2>4. QED
      BY <2>1, <2>2, <2>3
  <1>4. Names(card'.seen) \subseteq heard'
    BY DEF UpdInv, HeardInv
  <1>5. IsFiniteSet(W)
    <2>1. IsFiniteSet(Upds \cup {NoUpdate})
      BY FS_AddElement DEF UpdatesBounds
    <2>2. W \subseteq Upds \cup {NoUpdate}
      BY <1>1, <1>2 DEF Upds, Updates!Updates
    <2>3. QED
      BY <2>1, <2>2, FS_Subset
  <1>6. Cardinality(W) <= QueueCap => AllFit(W)
    BY <1>5 DEF AllFit
  <1>7. Updates!Cardinality(W) = Cardinality(W)
    BY DEF Updates!Cardinality, Cardinality
  <1>8. ASSUME Updates!Updated \/ Updates!Covers \/ Updates!Opens, card'.convo = speech.open,
               Updates!Cardinality(W) <= QueueCap
        PROVE  rows \ Names(card'.seen) \subseteq IdsOf(card'.queue) \cup {card'.active.id}
    BY <1>6, <1>7, <1>8 DEF Covered, KnownIn
  <1>9. Updates!NothingIsLost
    BY <1>2, <1>4, <1>8 DEF Updates!NothingIsLost
  <1>10. QED
    BY <1>3, <1>9

LEMMA UpdatesKeepPromise ==
    ASSUME UpdatesBounds, UpdInv, UpdInv', Updates!UpdatesNext
    PROVE  Updates!AnnouncedOnce /\ Updates!NothingIsLost
  <1> DEFINE Presents == Updates!Updated \/ Updates!Covers \/ Updates!Opens
             W == (RowsOf(speech.open) \ Names(card.seen)) \cup IdsOf(card.queue) \cup {speech.stream.item}
  <1>1. closed \subseteq closed'
    BY DEF Updates!UpdatesNext, Updates!CheckInStarts, Updates!CheckInEnds, Updates!ReplyStarts, Updates!ReplyStored,
           Updates!ReplyEnds, Updates!Selects, Updates!Updated, Updates!Dismiss, Updates!Opens, Updates!TimerFires,
           Updates!Points, Updates!Covers, Updates!OtherShows, Updates!Reloaded, Updates!Speaks, Updates!Shows,
           Updates!Becomes
  <1>2. ASSUME Presents, card'.convo = speech.open
        PROVE  speech' = speech /\ (AllFit(W) => Covered)
    <2>1. view \in [away : BOOLEAN, chat : BOOLEAN] /\ speech.open # NoConvo
      BY DEF UpdInv, FaceInv, SaidInv, UpdatesBounds
    <2> HIDE DEF W
    <2>2. CASE Updates!Updated
      <3>1. speech' = speech /\ view' = view /\ Updates!Shows(card, view')
        BY <2>2 DEF Updates!Updated
      <3>2. QED
        BY <2>1, <3>1, ShowsArrives
    <2>3. CASE Updates!Covers
      <3>1. speech' = speech /\ view' \in [away : BOOLEAN, chat : BOOLEAN]
        BY <2>3 DEF Updates!Covers
      <3>2. card.convo # NoConvo
        BY <1>2, <2>1, <2>3 DEF Updates!Covers
      <3>3. Updates!Shows(card, view')
        BY <2>3, <3>2 DEF Updates!Covers
      <3>4. QED
        BY <3>1, <3>3, ShowsArrives
    <2>4. CASE Updates!Opens
      <3>1. speech' = speech
        BY <2>4 DEF Updates!Opens
      <3>2. QED
        BY <2>4, <3>1, OpensArrives
    <2>5. QED
      BY <1>2, <2>2, <2>3, <2>4
  <1>3. Presents => speech' = speech
    BY DEF Updates!Updated, Updates!Covers, Updates!Opens
  <1>4. QED
    <2> DEFINE V == W
    <2>1. AllFit(V) /\ Presents /\ card'.convo = speech.open => Covered
      BY <1>2
    <2> HIDE DEF Presents
    <2>2. QED
      BY <1>1, <1>3, <2>1, UpdatesPromise DEF Presents
=============================================================================
