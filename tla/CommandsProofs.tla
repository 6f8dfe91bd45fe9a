---------------------------- MODULE CommandsProofs ----------------------------
(***************************************************************************)
(* Proofs about what the person asks for by hand: a permission, the goal   *)
(* of the setup, a change of a goal, a recording.  Each part has an        *)
(* inductive invariant of its own, with a lemma on Init and one on Next,   *)
(* for any values of its constants.  ClientsProofs puts them together.     *)
(***************************************************************************)
EXTENDS Integers, Sequences, FiniteSets, SequenceTheorems, TLAPS

CONSTANTS
    Rooms, MaxGestures, MaxSays, SpeechBudgets,
    MaxGuideEvents,
    Domains, MaxAsked, MaxOutside,
    GoalRooms, MaxCount, MaxPresses

VARIABLES
    mic, starts, stops, tracks, flights, drafted, cancelled, gestures, voice, ends, replies,
    says,
    setup, guide, guideTold, post, guideLate, events,
    privacy, known, settings, change, waiting, bounds,
    tasks, goals, drafts, undos, order, presses

Speech == INSTANCE SpeechControls
Guide == INSTANCE Onboarding WITH told <- guideTold, late <- guideLate, MaxEvents <- MaxGuideEvents
Privacy == INSTANCE Permissions
Goal == INSTANCE GoalControls

-----------------------------------------------------------------------------
(* Permissions: at the revision there is, what a window knows, and what a    *)
(* command was made of, differ from the policy in the flags the service      *)
(* changed without moving the revision.                                      *)

PrivacyRecords == [policy : Privacy!Policies, saved : SUBSET Privacy!Flags,
                   own : SUBSET Privacy!Flags, revision : Nat]
KnownRecords == [policy : Privacy!Policies, revision : Nat, connected : BOOLEAN]

\* What the window k knows, when p is at the service.
KnownFits(p, k) ==
    /\ k \in KnownRecords /\ k.revision <= p.revision
    /\ k.revision = p.revision =>
         /\ Privacy!Differ(p.policy.flags, k.policy.flags) \subseteq p.own
         /\ k.policy.sites = p.policy.sites

\* A command, when p is at the service: it would change no more than was asked.
ChangeShape(c) ==
    c = [policy |-> c.policy, shown |-> c.shown, revision |-> c.revision, asked |-> c.asked,
         site |-> c.site, of |-> c.of, desktop |-> c.desktop]
ChangeFits(p, c) ==
    c # Privacy!NoChange =>
      /\ ChangeShape(c) /\ c.policy \in Privacy!Policies
      /\ c.shown \in Nat /\ c.shown <= p.revision
      /\ c.shown = p.revision =>
           /\ Privacy!Differ(p.policy.flags, c.policy.flags) \subseteq c.asked \cup p.own
           /\ Privacy!Differ(p.policy.sites, c.policy.sites) \subseteq c.site

PrivacyInv ==
    /\ privacy \in PrivacyRecords /\ KnownFits(privacy, known)
    /\ ChangeFits(privacy, change) /\ ChangeFits(privacy, waiting)

LEMMA PrivacyBegins ==
    ASSUME Privacy!PermissionsInit
    PROVE  PrivacyInv
  <1>1. PICK on \in SUBSET Privacy!Sources, live \in BOOLEAN :
          LET flags == on \cup {f \in {"enabled"} : live /\ on # {}} IN
          privacy = [policy |-> [flags |-> flags, sites |-> {}], saved |-> flags,
                     own |-> {}, revision |-> 0]
    BY DEF Privacy!PermissionsInit
  <1>2. PICK flags : flags = on \cup {f \in {"enabled"} : live /\ on # {}}
    OBVIOUS
  <1>3. PICK pol : pol = [flags |-> flags, sites |-> {}]
    OBVIOUS
  <1>4. flags \in SUBSET Privacy!Flags /\ pol \in Privacy!Policies
    BY <1>2, <1>3 DEF Privacy!Flags, Privacy!Sources, Privacy!Policies
  <1>5. privacy = [policy |-> pol, saved |-> flags, own |-> {}, revision |-> 0]
    BY <1>1, <1>2, <1>3
  <1>6. privacy \in PrivacyRecords /\ privacy.revision = 0 /\ privacy.policy = pol
    BY <1>4, <1>5 DEF PrivacyRecords
  <1>7. /\ change = Privacy!NoChange /\ waiting = Privacy!NoChange
        /\ known = [policy |-> pol, revision |-> 0, connected |-> TRUE]
    BY <1>6 DEF Privacy!PermissionsInit
  <1>8. KnownFits(privacy, known)
    BY <1>4, <1>6, <1>7 DEF KnownFits, KnownRecords, Privacy!Differ
  <1> QED
    BY <1>6, <1>7, <1>8 DEF PrivacyInv, ChangeFits

LEMMA PatchedPolicy ==
    ASSUME NEW p \in Privacy!Policies, NEW d, d.add \subseteq Privacy!Flags
    PROVE  /\ Privacy!Patched(p, d) \in Privacy!Policies
           /\ Privacy!Patched(p, d).flags = (p.flags \cup d.add) \ d.drop
           /\ Privacy!Patched(p, d).sites = p.sites
  BY DEF Privacy!Patched, Privacy!Policies

\* What is kept when the policy of the service is replaced.
LEMMA PrivacyReplaces ==
    ASSUME privacy \in PrivacyRecords, NEW q \in Privacy!Policies
    PROVE  LET r == Privacy!Replaces(q) IN
           /\ r \in PrivacyRecords /\ r.revision = privacy.revision + 1 /\ r.policy = q
           /\ \A k : KnownFits(privacy, k) => KnownFits(r, k)
           /\ \A c : ChangeFits(privacy, c) => ChangeFits(r, c)
  <1>1. q.flags \in SUBSET Privacy!Flags /\ privacy.revision \in Nat
    BY DEF Privacy!Policies, PrivacyRecords
  <1>2. PICK r : r = Privacy!Replaces(q)
    OBVIOUS
  <1>3. PICK n \in Nat : n = privacy.revision + 1
    BY <1>1
  <1>4. r = [privacy EXCEPT !.policy = q, !.saved = q.flags, !.own = {}, !.revision = n]
    BY <1>2, <1>3 DEF Privacy!Replaces
  <1>5. r \in PrivacyRecords /\ r.revision = n /\ r.policy = q
    BY <1>1, <1>4 DEF PrivacyRecords
  <1>6. \A k : KnownFits(privacy, k) => KnownFits(r, k)
    <2> TAKE k
    <2> HAVE KnownFits(privacy, k)
    <2>1. k \in KnownRecords /\ k.revision <= privacy.revision /\ k.revision \in Nat
      BY DEF KnownFits, KnownRecords
    <2> QED
      BY <1>1, <1>3, <1>5, <2>1 DEF KnownFits
  <1>7. \A c : ChangeFits(privacy, c) => ChangeFits(r, c)
    BY <1>1, <1>3, <1>5 DEF ChangeFits
  <1> QED
    BY <1>2, <1>3, <1>5, <1>6, <1>7

\* A command is made of what the window knows.
LEMMA PrivacyAsks ==
    ASSUME PrivacyInv, NEW p \in Privacy!Policies, NEW asked, NEW site, NEW of, NEW desktop,
           Privacy!Ask(p, asked, site, of, desktop),
           Privacy!Differ(known.policy.flags, p.flags) \subseteq asked,
           Privacy!Differ(known.policy.sites, p.sites) \subseteq site
    PROVE  PrivacyInv' /\ UNCHANGED privacy
  <1>1. PICK c : c = [policy |-> p, shown |-> known.revision, revision |-> known.revision,
                      asked |-> asked, site |-> site, of |-> of, desktop |-> desktop]
    OBVIOUS
  <1>2. /\ UNCHANGED <<privacy, known>>
        /\ \/ change' = c /\ UNCHANGED waiting
           \/ waiting' = c /\ UNCHANGED change
    BY <1>1 DEF Privacy!Ask
  <1>3. /\ c.policy = p /\ c.shown = known.revision /\ c.asked = asked /\ c.site = site
        /\ ChangeShape(c)
    BY <1>1 DEF ChangeShape
  <1>4. known.revision \in Nat /\ known.revision <= privacy.revision
    BY DEF PrivacyInv, KnownFits, KnownRecords
  <1>5. ASSUME known.revision = privacy.revision
        PROVE  /\ Privacy!Differ(privacy.policy.flags, p.flags) \subseteq asked \cup privacy.own
               /\ Privacy!Differ(privacy.policy.sites, p.sites) \subseteq site
    <2>1. /\ Privacy!Differ(privacy.policy.flags, known.policy.flags) \subseteq privacy.own
          /\ known.policy.sites = privacy.policy.sites
      BY <1>5 DEF PrivacyInv, KnownFits
    <2> QED
      BY <2>1 DEF Privacy!Differ
  <1>6. ChangeFits(privacy, c)
    BY <1>3, <1>4, <1>5 DEF ChangeFits
  <1>7. privacy' = privacy /\ known' = known /\ ChangeFits(privacy, change')
        /\ ChangeFits(privacy, waiting')
    BY <1>2, <1>6 DEF PrivacyInv
  <1> QED
    BY <1>7 DEF PrivacyInv

LEMMA PrivacyPatches ==
    ASSUME PrivacyInv, NEW d, d.add \subseteq Privacy!Flags, NEW asked, NEW site, NEW of,
           NEW desktop, Privacy!Ask(Privacy!Patched(known.policy, d), asked, site, of, desktop),
           d.add \cup d.drop \subseteq asked
    PROVE  PrivacyInv' /\ UNCHANGED privacy
  <1>1. known.policy \in Privacy!Policies
    BY DEF PrivacyInv, KnownFits, KnownRecords
  <1>2. QED
    BY <1>1, PatchedPolicy, PrivacyAsks DEF Privacy!Differ

LEMMA PrivacyToggles ==
    ASSUME PrivacyInv, Privacy!TogglesSwitch
    PROVE  PrivacyInv' /\ UNCHANGED privacy
  <1> DEFINE pol == known.policy
             first(f) == {x \in {"enabled"} : ~Privacy!On(f) /\ pol.flags \cap Privacy!Sources = {}}
  <1>0. pol \in Privacy!Policies
    BY DEF PrivacyInv, KnownFits, KnownRecords
  <1>1. PICK f \in Privacy!Flags \ {"enabled"} :
          IF f \in Privacy!Sources
          THEN Privacy!Ask(Privacy!SourcePolicy(pol, f, ~Privacy!On(f)), {f} \cup first(f), {},
                           "panel", f = "desktop" /\ ~Privacy!On(f))
          ELSE Privacy!Ask(Privacy!Patched(pol, Privacy!Flag(f, ~Privacy!On(f))), {f}, {}, "panel",
                           f = "text" /\ ~Privacy!On(f) /\ Privacy!On("desktop"))
    BY Zenon DEF Privacy!TogglesSwitch
  <1> DEFINE d == Privacy!Flag(f, ~Privacy!On(f))
  <1>2. d.add \subseteq {f} /\ d.drop \subseteq {f} /\ d.add \subseteq Privacy!Flags
    BY DEF Privacy!Flag
  <1>3. CASE f \notin Privacy!Sources
    BY <1>1, <1>2, <1>3, PrivacyPatches
  <1>4. CASE f \in Privacy!Sources
    <2>1. PICK q : q = Privacy!SourcePolicy(pol, f, ~Privacy!On(f))
      OBVIOUS
    <2>2. /\ Privacy!Patched(pol, d) \in Privacy!Policies
          /\ Privacy!Patched(pol, d).flags = (pol.flags \cup d.add) \ d.drop
          /\ Privacy!Patched(pol, d).sites = pol.sites
      BY <1>0, <1>2, PatchedPolicy
    <2>3. /\ q \in Privacy!Policies /\ q.sites = pol.sites
          /\ Privacy!Differ(pol.flags, q.flags) \subseteq {f} \cup first(f)
      <3> HIDE DEF d
      <3>1. CASE ~Privacy!On(f) /\ pol.flags \cap Privacy!Sources = {}
        <4>1. q = [Privacy!Patched(pol, d) EXCEPT !.flags = @ \cup {"enabled"}]
          BY <2>1, <3>1 DEF Privacy!SourcePolicy, d
        <4>2. PICK r : r = Privacy!Patched(pol, d)
          OBVIOUS
        <4>3. q \in Privacy!Policies /\ q.sites = r.sites /\ q.flags = r.flags \cup {"enabled"}
          BY <4>1, <4>2, <2>2 DEF Privacy!Policies, Privacy!Flags
        <4>4. "enabled" \in first(f)
          BY <3>1
        <4>5. QED
          BY <4>2, <4>3, <4>4, <2>2, <1>2 DEF Privacy!Differ
      <3>2. CASE ~(~Privacy!On(f) /\ pol.flags \cap Privacy!Sources = {})
        <4>1. q = Privacy!Patched(pol, d)
          BY <2>1, <3>2 DEF Privacy!SourcePolicy, d
        <4>2. QED
          BY <4>1, <2>2, <1>2 DEF Privacy!Differ
      <3>3. QED
        BY <3>1, <3>2
    <2>4. Privacy!Differ(pol.sites, q.sites) \subseteq {}
      BY <2>3 DEF Privacy!Differ
    <2>5. Privacy!Ask(q, {f} \cup first(f), {}, "panel", f = "desktop" /\ ~Privacy!On(f))
      BY <1>1, <1>4, <2>1
    <2>6. QED
      BY <2>3, <2>4, <2>5, PrivacyAsks
  <1>5. QED
    BY <1>3, <1>4

LEMMA PrivacyExcludes ==
    ASSUME PrivacyInv, Privacy!ExcludesSite
    PROVE  PrivacyInv' /\ UNCHANGED privacy
  <1>1. PICK d \in Domains :
          Privacy!Ask([known.policy EXCEPT !.sites = IF d \in @ THEN @ \ {d} ELSE @ \cup {d}],
                      {}, {d}, "panel", FALSE)
    BY DEF Privacy!ExcludesSite
  <1>2. PICK t : t = IF d \in known.policy.sites THEN known.policy.sites \ {d}
                     ELSE known.policy.sites \cup {d}
    OBVIOUS
  <1>3. PICK q : q = [known.policy EXCEPT !.sites = t]
    OBVIOUS
  <1>4. q \in Privacy!Policies /\ q.flags = known.policy.flags /\ q.sites = t
    BY <1>2, <1>3 DEF PrivacyInv, KnownFits, KnownRecords, Privacy!Policies
  <1>5. Privacy!Ask(q, {}, {d}, "panel", FALSE)
    BY <1>1, <1>2, <1>3
  <1>6. Privacy!Differ(known.policy.flags, q.flags) \subseteq {}
    BY <1>4 DEF Privacy!Differ
  <1>7. Privacy!Differ(known.policy.sites, q.sites) \subseteq {d}
    BY <1>2, <1>4 DEF Privacy!Differ
  <1>8. QED
    BY <1>4, <1>5, <1>6, <1>7, PrivacyAsks

LEMMA PrivacyConfigures ==
    ASSUME PrivacyInv,
           Privacy!PausesOrResumes \/ Privacy!GuideConfigures \/ Privacy!CardConfigures
    PROVE  PrivacyInv' /\ UNCHANGED privacy
  <1>1. ASSUME NEW on, NEW f \in Privacy!Flags, NEW of,
               Privacy!Ask(Privacy!Patched(known.policy, Privacy!Flag(f, on)), {f}, {}, of, FALSE)
        PROVE  PrivacyInv' /\ UNCHANGED privacy
    <2>1. PICK d : d = Privacy!Flag(f, on)
      OBVIOUS
    <2>2. d.add \subseteq Privacy!Flags /\ d.add \cup d.drop \subseteq {f}
      BY <2>1 DEF Privacy!Flag
    <2>3. QED
      BY <1>1, <2>1, <2>2, PrivacyPatches
  <1>2. CASE Privacy!PausesOrResumes
    <2>1. "enabled" \in Privacy!Flags
      BY DEF Privacy!Flags
    <2>2. QED
      BY <1>1, <1>2, <2>1 DEF Privacy!PausesOrResumes
  <1>3. CASE Privacy!GuideConfigures
    <2>1. PICK asked : /\ asked = IF Privacy!On("desktop") THEN {"enabled"} ELSE {"enabled", "desktop"}
                       /\ Privacy!Ask(Privacy!Patched(known.policy, [add |-> asked, drop |-> {}]),
                                      asked, {}, "guide", FALSE)
      BY <1>3 DEF Privacy!GuideConfigures
    <2>2. asked \in SUBSET Privacy!Flags
      BY <2>1 DEF Privacy!Flags
    <2>3. PICK d : d = [add |-> asked, drop |-> {}]
      OBVIOUS
    <2>4. d.add \subseteq Privacy!Flags /\ d.add \cup d.drop \subseteq asked
      BY <2>2, <2>3
    <2>5. QED
      BY <2>1, <2>3, <2>4, PrivacyPatches
  <1>4. CASE Privacy!CardConfigures
    <2>1. PICK p \in {[add |-> {"enabled", "browser"}, drop |-> {}],
                      [add |-> {"enabled", "desktop"}, drop |-> {}],
                      Privacy!Flag("enabled", TRUE), Privacy!Flag("browser", FALSE),
                      Privacy!Flag("ai", TRUE)} :
            Privacy!Ask(Privacy!Patched(known.policy, p), p.add \cup p.drop, {}, "card", FALSE)
      BY <1>4 DEF Privacy!CardConfigures
    <2>2. p.add \subseteq Privacy!Flags
      BY DEF Privacy!Flag, Privacy!Flags
    <2>3. QED
      BY <2>1, <2>2, PrivacyPatches
  <1>5. QED
    BY <1>2, <1>3, <1>4

\* A command that runs changes of the policy what its gesture was about, and the one that
\* waited comes to the revision there is then.
LEMMA PrivacySettles ==
    ASSUME PrivacyInv, Privacy!ChangeSettles
    PROVE  PrivacyInv' /\ Privacy!OnlyTheAskedChanges
  <1>1. /\ change # Privacy!NoChange
        /\ privacy' = Privacy!Commanded(change) \/ privacy' = privacy
        /\ \/ known' = known
           \/ known' = [policy |-> privacy'.policy, revision |-> privacy'.revision,
                        connected |-> TRUE]
        /\ \E s : Privacy!Follows(s)
    BY DEF Privacy!ChangeSettles, Privacy!Told
  <1>2. privacy \in PrivacyRecords /\ privacy.policy \in Privacy!Policies
        /\ change.policy \in Privacy!Policies
    BY <1>1 DEF PrivacyInv, PrivacyRecords, ChangeFits
  <1>3. \/ privacy' = privacy
        \/ /\ change.revision = privacy.revision
           /\ privacy' = Privacy!Replaces(IF change.of = "forget" THEN privacy.policy
                                          ELSE change.policy)
    BY <1>1 DEF Privacy!Commanded, Privacy!CurrentRevision
  <1>4. /\ privacy' \in PrivacyRecords /\ privacy'.revision \in Nat
        /\ privacy'.policy \in Privacy!Policies
        /\ \A k : KnownFits(privacy, k) => KnownFits(privacy', k)
        /\ \A c : ChangeFits(privacy, c) => ChangeFits(privacy', c)
    <2>1. PICK q \in Privacy!Policies :
            q = IF change.of = "forget" THEN privacy.policy ELSE change.policy
      BY <1>2
    <2>2. /\ privacy' \in PrivacyRecords
          /\ \A k : KnownFits(privacy, k) => KnownFits(privacy', k)
          /\ \A c : ChangeFits(privacy, c) => ChangeFits(privacy', c)
      BY <1>2, <1>3, <2>1, PrivacyReplaces
    <2> QED
      BY <2>2 DEF PrivacyRecords
  <1>5. KnownFits(privacy', known')
    <2>1. CASE known' = known
      BY <1>4, <2>1 DEF PrivacyInv
    <2>2. CASE known' = [policy |-> privacy'.policy, revision |-> privacy'.revision,
                         connected |-> TRUE]
      <3>1. /\ known' \in KnownRecords /\ known'.revision = privacy'.revision
            /\ known'.policy = privacy'.policy
        BY <1>4, <2>2 DEF KnownRecords
      <3> QED
        BY <1>4, <3>1 DEF KnownFits, Privacy!Differ
    <2> QED
      BY <1>1, <2>1, <2>2
  <1>6. ChangeFits(privacy', change') /\ ChangeFits(privacy', waiting')
    <2>1. ChangeFits(privacy', Privacy!NoChange)
      BY DEF ChangeFits
    <2>2. waiting' = Privacy!NoChange
          /\ \/ change' = Privacy!NoChange
             \/ waiting # Privacy!NoChange /\ change' = Privacy!Started(waiting)
      BY <1>1 DEF Privacy!Follows
    <2>3. ASSUME waiting # Privacy!NoChange
          PROVE  ChangeFits(privacy', Privacy!Started(waiting))
      <3>1. ChangeFits(privacy', waiting)
        BY <1>4 DEF PrivacyInv
      <3>2. PICK n : n = known'.revision
        OBVIOUS
      <3>3. PICK c : c = [waiting EXCEPT !.revision = n]
        OBVIOUS
      <3>4. /\ c.policy = waiting.policy /\ c.shown = waiting.shown /\ c.asked = waiting.asked
            /\ c.site = waiting.site /\ ChangeShape(c)
        BY <2>3, <3>1, <3>3 DEF ChangeFits, ChangeShape
      <3>5. ChangeFits(privacy', c)
        BY <2>3, <3>1, <3>4 DEF ChangeFits
      <3>6. Privacy!Started(waiting) \in {waiting, c}
        BY <3>2, <3>3 DEF Privacy!Started
      <3> QED
        BY <3>1, <3>5, <3>6
    <2> QED
      BY <2>1, <2>2, <2>3
  <1>7. Privacy!OnlyTheAskedChanges
    <2> SUFFICES ASSUME privacy' # privacy, change.shown = change.revision
                 PROVE  /\ Privacy!Differ(privacy.policy.flags, privacy'.policy.flags)
                             \subseteq change.asked \cup privacy.own
                        /\ Privacy!Differ(privacy.policy.sites, privacy'.policy.sites)
                             \subseteq change.site
      BY DEF Privacy!OnlyTheAskedChanges, Privacy!AppliesChange
    <2>1. privacy'.policy \in {privacy.policy, change.policy}
      BY <1>2, <1>3, PrivacyReplaces
    <2>2. change.shown = privacy.revision
      BY <1>3
    <2>3. /\ Privacy!Differ(privacy.policy.flags, change.policy.flags)
               \subseteq change.asked \cup privacy.own
          /\ Privacy!Differ(privacy.policy.sites, change.policy.sites) \subseteq change.site
      BY <1>1, <2>2 DEF PrivacyInv, ChangeFits
    <2>4. /\ Privacy!Differ(privacy.policy.flags, privacy.policy.flags) = {}
          /\ Privacy!Differ(privacy.policy.sites, privacy.policy.sites) = {}
      BY DEF Privacy!Differ
    <2> QED
      BY <2>1, <2>3, <2>4
  <1> QED
    BY <1>4, <1>5, <1>6, <1>7 DEF PrivacyInv

\* The service changes flags of its own, and remembers which.
LEMMA PrivacyServiceChanges ==
    ASSUME PrivacyInv, Privacy!ServiceChanges
    PROVE  PrivacyInv'
  <1>1. privacy \in PrivacyRecords /\ privacy.policy \in Privacy!Policies
        /\ privacy.policy.flags \subseteq Privacy!Flags /\ privacy.saved \subseteq Privacy!Flags
        /\ privacy.own \subseteq Privacy!Flags
    BY DEF PrivacyInv, PrivacyRecords, Privacy!Policies
  <1>2. PICK flags \in {privacy.policy.flags \ {"enabled", "ai"}, privacy.saved, {}} :
          /\ privacy' = [privacy EXCEPT !.policy.flags = flags,
                            !.saved = IF flags = {} THEN {} ELSE @,
                            !.own = @ \cup Privacy!Differ(flags, privacy.policy.flags)]
          /\ UNCHANGED <<known, change, waiting>>
    BY Zenon DEF Privacy!ServiceChanges
  <1>3. PICK saved, own, pol :
          /\ saved = IF flags = {} THEN {} ELSE privacy.saved
          /\ own = privacy.own \cup Privacy!Differ(flags, privacy.policy.flags)
          /\ pol = [privacy.policy EXCEPT !.flags = flags]
    OBVIOUS
  <1>4. privacy' = [privacy EXCEPT !.policy = pol, !.saved = saved, !.own = own]
    BY <1>2, <1>3
  <1>5. /\ flags \subseteq Privacy!Flags /\ saved \subseteq Privacy!Flags
        /\ own \subseteq Privacy!Flags
        /\ pol \in Privacy!Policies /\ pol.flags = flags /\ pol.sites = privacy.policy.sites
    BY <1>1, <1>3 DEF Privacy!Differ, Privacy!Policies
  <1>6. /\ privacy' \in PrivacyRecords /\ privacy'.revision = privacy.revision
        /\ privacy'.policy = pol /\ privacy'.own = own
    BY <1>1, <1>4, <1>5 DEF PrivacyRecords
  <1>7. KnownFits(privacy', known)
    BY <1>3, <1>5, <1>6 DEF PrivacyInv, KnownFits, Privacy!Differ
  <1>8. \A c : ChangeFits(privacy, c) => ChangeFits(privacy', c)
    BY <1>3, <1>5, <1>6 DEF ChangeFits, Privacy!Differ
  <1> QED
    BY <1>2, <1>6, <1>7, <1>8 DEF PrivacyInv

\* A command changes of the policy what its gesture was about.
LEMMA PrivacyGoesOn ==
    ASSUME PrivacyInv, Privacy!PermissionsNext
    PROVE  PrivacyInv' /\ Privacy!OnlyTheAskedChanges
  <1>1. ASSUME PrivacyInv', UNCHANGED privacy \/ UNCHANGED change
        PROVE  Privacy!OnlyTheAskedChanges
    <2>1. ASSUME Privacy!ChangeSettles, UNCHANGED change
          PROVE  Privacy!OnlyTheAskedChanges
      BY <2>1, PrivacySettles
    <2> QED
      BY <1>1, <2>1 DEF Privacy!OnlyTheAskedChanges, Privacy!AppliesChange
  <1>2. CASE Privacy!ForgetsActivity
    <2>1. Privacy!Ask(known.policy, {}, {}, "forget", FALSE)
      BY <1>2 DEF Privacy!ForgetsActivity
    <2>2. Privacy!Differ(known.policy.flags, known.policy.flags) \subseteq {}
          /\ Privacy!Differ(known.policy.sites, known.policy.sites) \subseteq {}
      BY DEF Privacy!Differ
    <2>3. known.policy \in Privacy!Policies
      BY DEF PrivacyInv, KnownFits, KnownRecords
    <2>4. QED
      BY <2>1, <2>2, <2>3, PrivacyAsks, <1>1
  <1>3. CASE Privacy!UsesPanel
    <2>1. UNCHANGED <<privacy, known, change, waiting>>
      BY <1>3 DEF Privacy!UsesPanel
    <2>2. QED
      BY <2>1, <1>1 DEF PrivacyInv
  <1>4. CASE Privacy!OthersChange
    <2>1. PICK f \in Privacy!Flags, on \in BOOLEAN :
            privacy' = Privacy!Replaces(Privacy!Patched(privacy.policy, Privacy!Flag(f, on)))
      BY <1>4 DEF Privacy!OthersChange
    <2>2. PICK q : q = Privacy!Patched(privacy.policy, Privacy!Flag(f, on))
      OBVIOUS
    <2>3. privacy \in PrivacyRecords /\ privacy.policy \in Privacy!Policies
      BY DEF PrivacyInv, PrivacyRecords
    <2>4. Privacy!Flag(f, on).add \subseteq Privacy!Flags
      BY DEF Privacy!Flag
    <2>5. q \in Privacy!Policies
      BY <2>2, <2>3, <2>4, PatchedPolicy
    <2>6. UNCHANGED <<known, change, waiting>>
      BY <1>4 DEF Privacy!OthersChange
    <2>7. PrivacyInv'
      BY <2>1, <2>2, <2>3, <2>5, <2>6, PrivacyReplaces DEF PrivacyInv
    <2> QED
      BY <1>1, <2>6, <2>7
  <1>5. CASE Privacy!SnapshotUpdates
    <2>1. /\ UNCHANGED <<privacy, change, waiting>>
          /\ \/ known' = [policy |-> privacy.policy, revision |-> privacy.revision, connected |-> TRUE]
             \/ known' = [known EXCEPT !.connected = FALSE]
      BY <1>5 DEF Privacy!SnapshotUpdates, Privacy!Told
    <2>2. /\ known' \in KnownRecords
          /\ \/ known'.policy = privacy.policy /\ known'.revision = privacy.revision
             \/ known'.policy = known.policy /\ known'.revision = known.revision
      <3>1. PICK k : k = [known EXCEPT !.connected = FALSE]
        OBVIOUS
      <3>2. k \in KnownRecords
        BY <3>1 DEF PrivacyInv, KnownFits, KnownRecords
      <3>3. k.policy = known.policy /\ k.revision = known.revision
        BY <3>1 DEF PrivacyInv, KnownFits, KnownRecords
      <3>4. CASE known' = k
        BY <3>2, <3>3, <3>4
      <3>5. CASE known' = [policy |-> privacy.policy, revision |-> privacy.revision, connected |-> TRUE]
        BY <3>5 DEF PrivacyInv, PrivacyRecords, KnownRecords
      <3>6. QED
        BY <2>1, <3>1, <3>4, <3>5
    <2>3. KnownFits(privacy, known')
      BY <2>2 DEF PrivacyInv, PrivacyRecords, KnownFits, Privacy!Differ
    <2>4. PrivacyInv'
      BY <2>1, <2>3 DEF PrivacyInv
    <2> QED
      BY <1>1, <2>1, <2>4
  <1>6. CASE Privacy!ServiceChanges
    <2>1. UNCHANGED change
      BY <1>6 DEF Privacy!ServiceChanges
    <2> QED
      BY <1>1, <1>6, <2>1, PrivacyServiceChanges
  <1>7. QED
    BY <1>1, <1>2, <1>3, <1>4, <1>5, <1>6, PrivacyToggles, PrivacyExcludes, PrivacyConfigures,
       PrivacySettles DEF Privacy!PermissionsNext

-----------------------------------------------------------------------------
(* Onboarding: a revision stands for one plan, and an approval that can still *)
(* be applied is of a plan the person approved.                              *)

Asked == [action : Guide!Orders \cup {"none"}, request : Nat, revision : Nat]
Supports == {"pending", "dismissed", "complete"}
GuidePlans == [goal : Nat, rest : Nat]
SetupRecords ==
    [status : Guide!SetupStatuses, revision : Nat, plan : GuidePlans, kept : GuidePlans,
     support : Supports, busy : BOOLEAN, moved : BOOLEAN, receipts : SUBSET Asked]
GuideRecords ==
    [mounted : BOOLEAN, home : BOOLEAN, pending : Asked, busy : BOOLEAN, error : BOOLEAN,
     applied : Nat, started : Nat, next : Nat, shown : SUBSET Nat,
     meant : SUBSET GuidePlans]
ToldRecords ==
    [status : Guide!SetupStatuses, revision : Nat, plan : GuidePlans, support : Supports,
     busy : BOOLEAN, connected : BOOLEAN]

Wanted(s, meant, c) ==
    /\ c \in Asked
    /\ c.action = "accept" =>
         /\ c.revision <= s.revision
         /\ c.revision = s.revision => s.plan \in meant

\* What the service (s), the guide (g) and its snapshot (t) say of each other, with a
\* command of this window (p) and a late one (l).
GuideFits(s, g, t, p, l) ==
    /\ s \in SetupRecords /\ g \in GuideRecords /\ t \in ToldRecords
    /\ t.revision <= s.revision
    /\ t.revision = s.revision => t.plan = s.plan
    /\ Wanted(s, g.meant, p) /\ Wanted(s, g.meant, l) /\ Wanted(s, g.meant, g.pending)
    /\ s.status = "complete" => s.kept \in g.meant
    /\ \A m \in g.meant : m.goal \in g.shown
    /\ g.started <= 1
    /\ g.started = 1 => s.status = "complete" /\ t.status = "complete" /\ p.action # "accept"

GuideInv == GuideFits(setup, guide, guideTold, post, guideLate)

LEMMA GuideBegins ==
    ASSUME Guide!OnboardingInit
    PROVE  GuideInv
  <1>1. Guide!NoPost \in Asked /\ Guide!NoPost.action = "none"
    BY DEF Guide!NoPost, Asked
  <1>2. /\ setup \in SetupRecords /\ setup.revision = 0 /\ setup.status = "draft"
    BY DEF Guide!OnboardingInit, SetupRecords, GuidePlans, Guide!SetupStatuses, Supports
  <1>3. /\ guideTold \in ToldRecords /\ guideTold.revision = 0 /\ guideTold.plan = setup.plan
    BY <1>2 DEF Guide!OnboardingInit, Guide!Public, ToldRecords, SetupRecords
  <1>4. /\ guide \in GuideRecords /\ guide.pending = Guide!NoPost /\ guide.started = 0
        /\ guide.meant = {}
    BY <1>1 DEF Guide!OnboardingInit, GuideRecords
  <1>5. post = Guide!NoPost /\ guideLate = Guide!NoPost
    BY DEF Guide!OnboardingInit
  <1>6. QED
    BY <1>1, <1>2, <1>3, <1>4, <1>5 DEF GuideInv, GuideFits, Wanted

\* What a command does to the service: nothing, or what it says, at its own revision.
LEMMA GuideHandles ==
    ASSUME NEW s \in SetupRecords, NEW c \in Asked, NEW t, t = Guide!Handled(s, c), t # s
    PROVE  /\ t \in SetupRecords /\ c.revision = s.revision
           /\ t.revision = s.revision + 1 /\ t.plan = s.plan
           /\ \/ c.action = "accept" /\ s.status = "proposed" /\ t.status = "complete" /\ t.kept = s.plan
              \/ c.action # "accept" /\ t.status = s.status /\ t.kept = s.kept
              \/ c.action # "accept" /\ s.status # "complete" /\ t.status = "skipped"
  <1>1. Guide!Allowed(s, c) /\ t = Guide!Applied(s, c)
    BY Zenon DEF Guide!Handled
  <1>2. c.revision = s.revision /\ s.revision \in Nat
    BY <1>1 DEF Guide!Allowed, SetupRecords
  <1>3. PICK n \in Nat : n = s.revision + 1
    BY <1>2
  <1>4. PICK r \in SUBSET Asked : r = s.receipts \cup {c}
    BY DEF SetupRecords
  <1>5. PICK d : d = [s EXCEPT !.revision = n, !.receipts = r]
    OBVIOUS
  <1>6. /\ d \in SetupRecords /\ d.revision = n /\ d.plan = s.plan
        /\ d.status = s.status /\ d.kept = s.kept
    BY <1>5 DEF SetupRecords
  <1>7. d = [s EXCEPT !.revision = @ + 1, !.receipts = @ \cup {c}]
    BY <1>3, <1>4, <1>5
  <1>8. CASE c.action = "accept"
    <2>1. s.status = "proposed" /\ t = [d EXCEPT !.status = "complete", !.kept = s.plan]
      BY <1>1, <1>7, <1>8 DEF Guide!Allowed, Guide!Applied
    <2>2. /\ t \in SetupRecords /\ t.revision = d.revision /\ t.plan = d.plan
          /\ t.status = "complete" /\ t.kept = s.plan
      BY <2>1, <1>6 DEF SetupRecords, Guide!SetupStatuses
    <2>3. QED
      BY <2>1, <2>2, <1>2, <1>3, <1>6, <1>8
  <1>9. CASE c.action = "skip"
    <2>1. s.status \in {"draft", "proposed"} /\ t = [d EXCEPT !.status = "skipped"]
      BY <1>1, <1>7, <1>9 DEF Guide!Allowed, Guide!Applied, Guide!Active
    <2>2. /\ t \in SetupRecords /\ t.revision = d.revision /\ t.plan = d.plan /\ t.status = "skipped"
      BY <2>1, <1>6 DEF SetupRecords, Guide!SetupStatuses
    <2>3. QED
      BY <2>1, <2>2, <1>2, <1>3, <1>6, <1>9
  <1>10. CASE c.action \notin {"accept", "skip"}
    <2>1. PICK u \in Supports : t = [d EXCEPT !.support = u]
      <3>1. t = [d EXCEPT !.support = IF c.action = "finish" THEN "complete" ELSE "dismissed"]
        BY <1>1, <1>7, <1>10 DEF Guide!Applied
      <3>2. QED
        BY <3>1 DEF Supports
    <2>2. /\ t \in SetupRecords /\ t.revision = d.revision /\ t.plan = d.plan
          /\ t.status = d.status /\ t.kept = d.kept
      BY <2>1, <1>6 DEF SetupRecords
    <2>3. QED
      BY <2>2, <1>2, <1>3, <1>6, <1>10
  <1>11. QED
    BY <1>8, <1>9, <1>10

\* The service takes a command that was on its way.
LEMMA GuideServes ==
    ASSUME NEW s, NEW g, NEW t, NEW p, NEW l, GuideFits(s, g, t, p, l), NEW c \in {p, l}
    PROVE  /\ GuideFits(Guide!Handled(s, c), g, t, p, l)
           /\ s.status = "complete" => Guide!Handled(s, c).status = "complete"
  <1>1. PICK u : u = Guide!Handled(s, c)
    OBVIOUS
  <1>2. CASE u = s
    BY <1>1, <1>2
  <1>3. CASE u # s
    <2>1. s \in SetupRecords /\ c \in Asked /\ s.revision \in Nat /\ t.revision \in Nat
      BY DEF GuideFits, Wanted, SetupRecords, ToldRecords
    <2>2. /\ u \in SetupRecords /\ c.revision = s.revision
          /\ u.revision = s.revision + 1 /\ u.plan = s.plan
          /\ \/ c.action = "accept" /\ s.status = "proposed" /\ u.status = "complete" /\ u.kept = s.plan
             \/ c.action # "accept" /\ u.status = s.status /\ u.kept = s.kept
             \/ c.action # "accept" /\ s.status # "complete" /\ u.status = "skipped"
      BY <1>1, <1>3, <2>1, GuideHandles
    <2>3. \A k : Wanted(s, g.meant, k) => Wanted(u, g.meant, k)
      BY <2>1, <2>2 DEF Wanted, Asked
    <2>4. c.action = "accept" => s.plan \in g.meant
      BY <2>2 DEF GuideFits, Wanted
    <2>5. u.status = "complete" => u.kept \in g.meant
      BY <2>2, <2>4 DEF GuideFits
    <2>6. s.status = "complete" => u.status = "complete"
      BY <2>2
    <2>7. GuideFits(u, g, t, p, l)
      BY <2>1, <2>2, <2>3, <2>5, <2>6 DEF GuideFits
    <2>8. QED
      BY <1>1, <2>6, <2>7
  <1>4. QED
    BY <1>2, <1>3
\* A step of the conversation, or of another window.
LEMMA GuideTurns ==
    ASSUME NEW s, NEW g, NEW t, NEW p, NEW l, GuideFits(s, g, t, p, l), NEW u \in SetupRecords,
           \/ u.revision = s.revision /\ u.plan = s.plan /\ u.status = s.status /\ u.kept = s.kept
           \/ u.revision = s.revision + 1 /\ s.status # "complete" /\ u.status # "complete"
    PROVE  GuideFits(u, g, t, p, l)
  <1>1. s.revision \in Nat /\ t.revision \in Nat
    BY DEF GuideFits, SetupRecords, ToldRecords
  <1>2. \A k : Wanted(s, g.meant, k) => Wanted(u, g.meant, k)
    BY <1>1 DEF Wanted, Asked
  <1>3. QED
    BY <1>1, <1>2 DEF GuideFits

LEMMA GuideTurnChanges ==
    ASSUME GuideInv, Guide!TurnChanges
    PROVE  GuideInv'
  <1>0. setup \in SetupRecords /\ setup.revision \in Nat
    BY DEF GuideInv, GuideFits, SetupRecords
  <1>1. PICK n \in Nat : n = setup.revision + 1
    BY <1>0
  <1>2. UNCHANGED <<guide, guideTold, post, guideLate>>
    BY DEF Guide!TurnChanges
  <1>3. \/ \E b \in BOOLEAN : setup' = [setup EXCEPT !.busy = b]
        \/ setup' = [setup EXCEPT !.moved = TRUE]
        \/ Guide!Active(setup) /\ \E st \in {"draft", "proposed"} :
             \E q \in GuidePlans :
             setup' = [setup EXCEPT !.busy = FALSE, !.revision = n, !.status = st, !.plan = q]
        \/ Guide!Active(setup) /\ setup' = [setup EXCEPT !.status = "skipped", !.revision = n]
    <2>1. ASSUME NEW st \in {"draft", "proposed"}, NEW c \in {setup.plan.goal, setup.revision + 1},
                 NEW d \in {setup.plan.rest, setup.revision + 1},
                 setup' = [setup EXCEPT !.busy = FALSE, !.revision = @ + 1, !.status = st,
                                        !.plan = [goal |-> c, rest |-> d]]
          PROVE  \E q \in GuidePlans :
                   setup' = [setup EXCEPT !.busy = FALSE, !.revision = n, !.status = st, !.plan = q]
      <3>1. c \in Nat /\ d \in Nat
        BY <1>0, <1>1 DEF SetupRecords, GuidePlans
      <3>2. PICK q \in GuidePlans : q = [goal |-> c, rest |-> d]
        BY <3>1 DEF GuidePlans
      <3> QED
        BY <1>1, <2>1, <3>2
    <2> QED
      BY <1>0, <1>1, <2>1 DEF Guide!TurnChanges
  <1>4. CASE \E b \in BOOLEAN : setup' = [setup EXCEPT !.busy = b]
    <2>1. PICK b \in BOOLEAN : setup' = [setup EXCEPT !.busy = b]
      BY <1>4
    <2>2. setup' \in SetupRecords
      BY <2>1, <1>0 DEF SetupRecords
    <2>3. /\ setup'.revision = setup.revision /\ setup'.plan = setup.plan
          /\ setup'.status = setup.status /\ setup'.kept = setup.kept
      BY <2>1, <1>0 DEF SetupRecords
    <2>4. QED
      BY <2>2, <2>3, <1>2, GuideTurns DEF GuideInv
  <1>5. CASE setup' = [setup EXCEPT !.moved = TRUE]
    <2>2. setup' \in SetupRecords
      BY <1>5, <1>0 DEF SetupRecords
    <2>3. /\ setup'.revision = setup.revision /\ setup'.plan = setup.plan
          /\ setup'.status = setup.status /\ setup'.kept = setup.kept
      BY <1>5, <1>0 DEF SetupRecords
    <2>4. QED
      BY <2>2, <2>3, <1>2, GuideTurns DEF GuideInv
  <1>6. CASE Guide!Active(setup) /\ \E st \in {"draft", "proposed"}, q \in GuidePlans :
               setup' = [setup EXCEPT !.busy = FALSE, !.revision = n, !.status = st, !.plan = q]
    <2>1. PICK st \in {"draft", "proposed"}, q \in GuidePlans :
            setup' = [setup EXCEPT !.busy = FALSE, !.revision = n, !.status = st, !.plan = q]
      BY <1>6
    <2>2. setup' \in SetupRecords
      BY <2>1, <1>0 DEF SetupRecords, Guide!SetupStatuses
    <2>3. setup'.revision = setup.revision + 1 /\ setup'.status # "complete"
      BY <2>1, <1>0, <1>1 DEF SetupRecords
    <2>4. QED
      BY <2>2, <2>3, <1>2, <1>6, GuideTurns DEF GuideInv, Guide!Active
  <1>7. CASE Guide!Active(setup) /\ setup' = [setup EXCEPT !.status = "skipped", !.revision = n]
    <2>2. setup' \in SetupRecords
      BY <1>7, <1>0 DEF SetupRecords, Guide!SetupStatuses
    <2>3. setup'.revision = setup.revision + 1 /\ setup'.status # "complete"
      BY <1>7, <1>0, <1>1 DEF SetupRecords
    <2>4. QED
      BY <2>2, <2>3, <1>2, <1>7, GuideTurns DEF GuideInv, Guide!Active
  <1>8. QED
    BY <1>3, <1>4, <1>5, <1>6, <1>7

\* What the guide shows and drops matters to no command.
LEMMA GuideLooks ==
    ASSUME NEW s, NEW g, NEW t, NEW p, NEW l, GuideFits(s, g, t, p, l), NEW h \in GuideRecords,
           h.pending \in {g.pending, Guide!NoPost}, h.meant = g.meant, h.shown = g.shown,
           h.started = g.started
    PROVE  GuideFits(s, h, t, p, l)
  BY DEF GuideFits, Wanted, Guide!NoPost, Asked

LEMMA GuideShows ==
    ASSUME NEW g \in GuideRecords, NEW t \in ToldRecords
    PROVE  /\ Guide!Shown(g, t) \in GuideRecords
           /\ Guide!Shown(g, t).pending = g.pending /\ Guide!Shown(g, t).meant = g.meant
           /\ Guide!Shown(g, t).shown = g.shown
           /\ Guide!Shown(g, t).started = g.started
  <1>1. PICK m \in BOOLEAN, a \in Nat : Guide!Shown(g, t) = [g EXCEPT !.mounted = m, !.applied = a]
    <2>1. PICK m \in BOOLEAN : m = (g.home /\ t.status \in {"draft", "proposed"})
      BY DEF GuideRecords
    <2>2. PICK a \in Nat : a = IF t.status = "complete" THEN t.revision ELSE g.applied
      BY DEF GuideRecords, ToldRecords
    <2>3. QED
      BY <2>1, <2>2 DEF Guide!Shown
  <1>2. [g EXCEPT !.mounted = m, !.applied = a] \in GuideRecords
    BY DEF GuideRecords
  <1>3. PICK h : h = [g EXCEPT !.mounted = m, !.applied = a]
    OBVIOUS
  <1>4. h.pending = g.pending /\ h.meant = g.meant /\ h.shown = g.shown
        /\ h.started = g.started
    BY <1>3 DEF GuideRecords
  <1>5. QED
    BY <1>1, <1>2, <1>3, <1>4

\* A snapshot of the service as it is, or none.
LEMMA GuideTells ==
    ASSUME NEW s, NEW g, NEW t, NEW p, NEW l, GuideFits(s, g, t, p, l), NEW c \in BOOLEAN
    PROVE  /\ GuideFits(s, g, Guide!Public(s, TRUE), p, l)
           /\ Guide!Public(s, TRUE).status = s.status
           /\ GuideFits(s, g, [t EXCEPT !.connected = c], p, l)
  <1>1. PICK q : q = Guide!Public(s, TRUE)
    OBVIOUS
  <1>2. /\ q \in ToldRecords /\ q.revision = s.revision /\ q.plan = s.plan /\ q.status = s.status
        /\ s.revision \in Nat
    BY <1>1 DEF Guide!Public, GuideFits, SetupRecords, ToldRecords
  <1>3. GuideFits(s, g, q, p, l)
    BY <1>2 DEF GuideFits
  <1>4. PICK r : r = [t EXCEPT !.connected = c]
    OBVIOUS
  <1>5. r \in ToldRecords /\ r.revision = t.revision /\ r.plan = t.plan /\ r.status = t.status
    BY <1>4 DEF GuideFits, ToldRecords
  <1>6. GuideFits(s, g, r, p, l)
    BY <1>5 DEF GuideFits
  <1>7. QED
    BY <1>1, <1>2, <1>3, <1>4, <1>6

LEMMA GuideUpdates ==
    ASSUME GuideInv, Guide!OnboardingUpdates
    PROVE  GuideInv'
  <1>1. /\ UNCHANGED <<setup, post, guideLate>> /\ guide' = Guide!Shown(guide, guideTold')
        /\ \/ guideTold' = Guide!Public(setup, TRUE)
           \/ guideTold' = [guideTold EXCEPT !.connected = FALSE]
    BY DEF Guide!OnboardingUpdates
  <1>2. GuideFits(setup, guide, guideTold', post, guideLate)
    <2>1. GuideFits(setup, guide, guideTold, post, guideLate)
      BY DEF GuideInv
    <2>2. GuideFits(setup, guide, Guide!Public(setup, TRUE), post, guideLate)
      BY Zenon, <2>1, GuideTells
    <2>3. GuideFits(setup, guide, [guideTold EXCEPT !.connected = FALSE], post, guideLate)
      BY <2>1, GuideTells
    <2>4. QED
      BY <1>1, <2>2, <2>3
  <1>3. guide \in GuideRecords /\ guideTold' \in ToldRecords
    BY <1>2 DEF GuideFits
  <1>4. GuideFits(setup, guide', guideTold', post, guideLate)
    BY <1>1, <1>2, <1>3, GuideShows, GuideLooks
  <1>5. QED
    BY <1>1, <1>4 DEF GuideInv

LEMMA GuideChangesPage ==
    ASSUME GuideInv, Guide!ChangesPage
    PROVE  GuideInv'
  <1>1. UNCHANGED <<setup, guideTold, post, guideLate>>
    BY DEF Guide!ChangesPage
  <1>2. guide \in GuideRecords /\ guideTold \in ToldRecords
    BY DEF GuideInv, GuideFits
  <1>3. PICK b \in BOOLEAN : b = ~guide.home
    BY <1>2 DEF GuideRecords
  <1>4. PICK h : h = [guide EXCEPT !.home = b]
    OBVIOUS
  <1>5. h \in GuideRecords
    BY <1>2, <1>4 DEF GuideRecords
  <1>6. h.pending = guide.pending /\ h.meant = guide.meant /\ h.shown = guide.shown
        /\ h.started = guide.started
    BY <1>2, <1>4 DEF GuideRecords
  <1>7. guide' = Guide!Shown(h, guideTold)
    BY <1>3, <1>4 DEF Guide!ChangesPage
  <1>8. GuideFits(setup, guide', guideTold, post, guideLate)
    BY <1>2, <1>5, <1>6, <1>7, GuideShows, GuideLooks DEF GuideInv
  <1>9. QED
    BY <1>1, <1>8 DEF GuideInv
LEMMA GuideApproves ==
    ASSUME GuideInv, Guide!Approves
    PROVE  GuideInv'
  <1>0. /\ setup \in SetupRecords /\ guide \in GuideRecords /\ guideTold \in ToldRecords
        /\ guideTold.revision \in Nat /\ guideTold.plan \in GuidePlans /\ guide.next \in Nat
        /\ guide.pending \in Asked /\ guide.meant \in SUBSET GuidePlans
        /\ guide.shown \in SUBSET Nat
    BY DEF GuideInv, GuideFits, GuideRecords, ToldRecords
  <1>1. /\ UNCHANGED <<setup, guideTold, guideLate>> /\ post' = Guide!Approval
        /\ guideTold.status = "proposed"
    BY DEF Guide!Approves, Guide!CanAccept
  <1>2. PICK a : a = Guide!Approval
    OBVIOUS
  <1>3. PICK n \in Nat : n = IF guide.pending = Guide!NoPost THEN guide.next + 1 ELSE guide.next
    BY <1>0
  <1>4. PICK S \in SUBSET GuidePlans, T \in SUBSET Nat :
          S = guide.meant \cup {guideTold.plan} /\ T = guide.shown \cup {guideTold.plan.goal}
    BY <1>0 DEF GuidePlans
  <1>5. PICK h : h = [guide EXCEPT !.pending = a, !.busy = TRUE, !.error = FALSE, !.next = n,
                                   !.shown = T, !.meant = S]
    OBVIOUS
  <1>6. guide' = h
    BY <1>2, <1>3, <1>4, <1>5 DEF Guide!Approves
  <1>7. Wanted(setup, S, a)
    <2>1. CASE guide.pending # Guide!NoPost
      <3>1. a = guide.pending
        BY <1>2, <2>1 DEF Guide!Approval
      <3>2. QED
        BY <3>1, <1>4 DEF GuideInv, GuideFits, Wanted
    <2>2. CASE guide.pending = Guide!NoPost
      <3>1. a = [action |-> "accept", request |-> guide.next + 1, revision |-> guideTold.revision]
        BY <1>2, <2>2 DEF Guide!Approval
      <3>2. a \in Asked /\ a.revision = guideTold.revision
        BY <3>1, <1>0 DEF Asked, Guide!Orders
      <3>3. QED
        BY <3>2, <1>4 DEF GuideInv, GuideFits, Wanted
    <2>3. QED
      BY <2>1, <2>2
  <1>8. a \in Asked
    BY <1>7 DEF Wanted
  <1>9. h \in GuideRecords
    BY <1>5, <1>8, <1>0 DEF GuideRecords
  <1>10. h.pending = a /\ h.meant = S /\ h.shown = T /\ h.started = guide.started
    BY <1>5, <1>0 DEF GuideRecords
  <1>11. guide.started # 1
    BY <1>1 DEF GuideInv, GuideFits
  <1>12. GuideFits(setup, h, guideTold, a, guideLate)
    BY <1>4, <1>7, <1>9, <1>10, <1>11 DEF GuideInv, GuideFits, Wanted
  <1>13. QED
    BY <1>1, <1>2, <1>6, <1>12 DEF GuideInv

LEMMA GuideCommands ==
    ASSUME GuideInv, Guide!Commands
    PROVE  GuideInv'
  <1>0. /\ setup \in SetupRecords /\ guide \in GuideRecords /\ guideTold \in ToldRecords
        /\ guideTold.revision \in Nat /\ guide.next \in Nat
    BY DEF GuideInv, GuideFits, GuideRecords, ToldRecords
  <1>1. PICK o \in Guide!Offered :
          /\ post' = [action |-> o, request |-> guide.next + 1, revision |-> guideTold.revision]
          /\ guide' = [guide EXCEPT !.busy = TRUE, !.error = FALSE, !.next = @ + 1]
    BY DEF Guide!Commands
  <1>2. o \in Guide!Orders /\ o # "accept"
    BY DEF Guide!Offered
  <1>3. PICK p : p = post'
    OBVIOUS
  <1>4. Wanted(setup, guide.meant, p) /\ p.action # "accept"
    BY <1>0, <1>1, <1>2, <1>3 DEF Wanted, Asked
  <1>5. PICK n \in Nat : n = guide.next + 1
    BY <1>0
  <1>6. PICK h : h = [guide EXCEPT !.busy = TRUE, !.error = FALSE, !.next = n]
    OBVIOUS
  <1>7. h \in GuideRecords
    BY <1>0, <1>6 DEF GuideRecords
  <1>8. h.pending = guide.pending /\ h.meant = guide.meant /\ h.shown = guide.shown
        /\ h.started = guide.started
    BY <1>0, <1>6 DEF GuideRecords
  <1>9. guide' = h
    BY <1>1, <1>5, <1>6
  <1>10. UNCHANGED <<setup, guideTold, guideLate>>
    BY DEF Guide!Commands
  <1>11. GuideFits(setup, h, guideTold, p, guideLate)
    BY <1>4, <1>7, <1>8 DEF GuideInv, GuideFits
  <1>12. QED
    BY <1>3, <1>9, <1>10, <1>11 DEF GuideInv

\* A command that is no longer waited for, or waits elsewhere.
LEMMA GuideLetsGo ==
    ASSUME NEW s, NEW g, NEW t, NEW p, NEW l, GuideFits(s, g, t, p, l)
    PROVE  /\ GuideFits(s, g, t, Guide!NoPost, l) /\ GuideFits(s, g, t, p, Guide!NoPost)
           /\ GuideFits(s, g, t, Guide!NoPost, p)
  BY DEF GuideFits, Wanted, Guide!NoPost, Asked

LEMMA GuidePostLost ==
    ASSUME GuideInv, Guide!PostLost
    PROVE  GuideInv'
  <1>0. guide \in GuideRecords
    BY DEF GuideInv, GuideFits
  <1>1. PICK h : h = [guide EXCEPT !.busy = FALSE, !.error = TRUE]
    OBVIOUS
  <1>2. h \in GuideRecords
    BY <1>0, <1>1 DEF GuideRecords
  <1>3. h.pending = guide.pending /\ h.meant = guide.meant /\ h.shown = guide.shown
        /\ h.started = guide.started
    BY <1>0, <1>1 DEF GuideRecords
  <1>4. /\ guide' = h /\ post' = Guide!NoPost /\ UNCHANGED guideTold
        /\ \/ setup' = Guide!Handled(setup, post) /\ UNCHANGED guideLate
           \/ UNCHANGED <<setup, guideLate>>
           \/ guideLate' = post /\ UNCHANGED setup
    BY <1>1 DEF Guide!PostLost
  <1>5. PICK u : u = setup'
    OBVIOUS
  <1>6. GuideFits(setup, guide, guideTold, post, guideLate)
    BY DEF GuideInv
  <1>7. GuideFits(Guide!Handled(setup, post), guide, guideTold, post, guideLate)
    BY <1>6, GuideServes
  <1>8. \/ GuideFits(u, guide, guideTold, post, guideLate) /\ UNCHANGED guideLate
        \/ GuideFits(u, guide, guideTold, Guide!NoPost, post) /\ guideLate' = post
    BY Zenon, <1>4, <1>5, <1>6, <1>7, GuideLetsGo
  <1>9. GuideFits(u, guide, guideTold, Guide!NoPost, guideLate')
    BY Zenon, <1>8, GuideLetsGo
  <1>10. GuideFits(u, h, guideTold, Guide!NoPost, guideLate')
    BY <1>2, <1>3, <1>9, GuideLooks
  <1>11. QED
    BY <1>4, <1>5, <1>10 DEF GuideInv

LEMMA GuideLateComes ==
    ASSUME GuideInv, Guide!LateCommandComes
    PROVE  GuideInv'
  <1>1. /\ setup' = Guide!Handled(setup, guideLate) /\ guideLate' = Guide!NoPost
        /\ UNCHANGED <<guide, guideTold, post>>
    BY DEF Guide!LateCommandComes
  <1>2. GuideFits(Guide!Handled(setup, guideLate), guide, guideTold, post, guideLate)
    BY GuideServes DEF GuideInv
  <1>3. GuideFits(Guide!Handled(setup, guideLate), guide, guideTold, post, Guide!NoPost)
    BY <1>2, GuideLetsGo
  <1>4. QED
    BY <1>1, <1>3 DEF GuideInv

LEMMA GuideAnswered ==
    ASSUME GuideInv, Guide!PostAnswered
    PROVE  GuideInv'
  <1> DEFINE ok == Guide!Answered(setup, post)
             accept == post.action = "accept"
             won == ok /\ accept /\ setup'.status = "complete"
  <1>0. GuideFits(setup, guide, guideTold, post, guideLate)
    BY DEF GuideInv
  <1>1. /\ setup' = Guide!Handled(setup, post) /\ post' = Guide!NoPost /\ UNCHANGED guideLate
        /\ guideTold' = IF ok THEN Guide!Public(setup', TRUE) ELSE guideTold
    BY DEF Guide!PostAnswered
  <1>2. PICK next : /\ next = [guide EXCEPT !.busy = FALSE, !.error = ~ok \/ (accept /\ ~won),
                                            !.pending = IF accept THEN Guide!NoPost ELSE @,
                                            !.started = IF won /\ @ < 2 THEN @ + 1 ELSE @]
                    /\ guide' = Guide!Shown(next, guideTold')
    BY DEF Guide!PostAnswered
  <1>3. PICK u : u = setup'
    OBVIOUS
  <1>4. GuideFits(u, guide, guideTold, post, guideLate)
    BY <1>0, <1>1, <1>3, GuideServes
  <1>5. PICK t : t = guideTold'
    OBVIOUS
  <1>6. t = (IF ok THEN Guide!Public(u, TRUE) ELSE guideTold)
    BY <1>1, <1>3, <1>5
  <1>7. GuideFits(u, guide, t, post, guideLate)
    <2>1. GuideFits(u, guide, Guide!Public(u, TRUE), post, guideLate)
      BY Zenon, <1>4, GuideTells
    <2>2. QED
      BY <1>4, <1>6, <2>1
  <1>8. won => u.status = "complete" /\ t.status = "complete" /\ guide.started = 0
    <2>1. SUFFICES ASSUME won PROVE u.status = "complete" /\ t.status = "complete" /\ guide.started = 0
      OBVIOUS
    <2>2. ok /\ accept /\ u.status = "complete"
      BY <2>1, <1>3
    <2>3. Guide!Public(u, TRUE).status = u.status
      BY DEF Guide!Public
    <2>4. guide.started = 0
      BY <2>2, <1>7 DEF GuideFits, GuideRecords
    <2>5. QED
      BY <2>2, <2>3, <2>4, <1>6
  <1>9. guide \in GuideRecords /\ guide.started \in Nat /\ guide.pending \in Asked
        /\ Guide!NoPost \in Asked /\ t \in ToldRecords
    BY <1>7 DEF GuideFits, GuideRecords, Guide!NoPost, Asked
  <1>10. PICK e \in BOOLEAN : e = (~ok \/ (accept /\ ~won))
    OBVIOUS
  <1>11. PICK q \in Asked : /\ q = IF accept THEN Guide!NoPost ELSE guide.pending
                            /\ q \in {guide.pending, Guide!NoPost}
    BY <1>9
  <1>12. PICK n \in Nat : n = IF won /\ guide.started < 2 THEN guide.started + 1 ELSE guide.started
    BY <1>9
  <1>13. next = [guide EXCEPT !.busy = FALSE, !.error = e, !.pending = q, !.started = n]
    BY <1>2, <1>10, <1>11, <1>12
  <1>14. next \in GuideRecords
    BY <1>9, <1>13 DEF GuideRecords
  <1>15. next.pending = q /\ next.meant = guide.meant /\ next.shown = guide.shown
        /\ next.started = n
    BY <1>9, <1>13 DEF GuideRecords
  <1>16. GuideFits(u, guide, t, Guide!NoPost, guideLate)
    BY <1>7, GuideLetsGo
  <1>17. Guide!NoPost.action # "accept"
    BY DEF Guide!NoPost
  <1>18. n <= 1 /\ (n = 1 => u.status = "complete" /\ t.status = "complete")
    BY <1>8, <1>9, <1>12, <1>16 DEF GuideFits
  <1>19. Wanted(u, guide.meant, q)
    BY <1>11, <1>16 DEF GuideFits
  <1>20. GuideFits(u, next, t, Guide!NoPost, guideLate)
    BY <1>14, <1>15, <1>16, <1>17, <1>18, <1>19 DEF GuideFits
  <1>21. GuideFits(u, guide', t, Guide!NoPost, guideLate)
    <2>1. guide' = Guide!Shown(next, t)
      BY <1>2, <1>5
    <2>2. QED
      BY <2>1, <1>9, <1>14, <1>20, GuideShows, GuideLooks
  <1>22. QED
    BY <1>1, <1>3, <1>5, <1>21 DEF GuideInv

\* Only a proposal is saved whose card the person approved.
LEMMA GuideGoesOn ==
    ASSUME GuideInv, Guide!OnboardingNext
    PROVE  GuideInv'
  BY GuideTurnChanges, GuideApproves, GuideCommands, GuideAnswered, GuidePostLost,
     GuideLateComes, GuideUpdates, GuideChangesPage DEF Guide!OnboardingNext

LEMMA GuideKeepsGoals ==
    ASSUME GuideInv
    PROVE  Guide!ProposalIsTheOneApproved
  BY DEF GuideInv, GuideFits, Guide!ProposalIsTheOneApproved

-----------------------------------------------------------------------------
(* SpeechControls: what a generation of the microphone has gone through.      *)

Mics == [state : Speech!MicStates, gen : Nat, stream : Nat, context : BOOLEAN, hold : BOOLEAN,
         held : BOOLEAN]
StartCalls == [gen : Nat, at : {"asked", "module", "failing"}]
StopCalls == [gen : Nat, cancel : BOOLEAN, at : {"flush", "close", "quit"}]

\* The stops of a recording of generation n: the others quit a request.
Recorded(n, st) == {s \in st : s.gen = n /\ s.at # "quit"}

\* Nothing was done with what generation n recorded.
Clean(n, st, fl, dr, ca) ==
    n \notin fl /\ n \notin dr /\ n \notin ca /\ Recorded(n, st) = {}

Shows == {"recording", "stopping", "transcribing"}

MicTyped(n, sa, so, fl, dr, ca) ==
    /\ n \in Nat /\ sa \subseteq StartCalls /\ so \subseteq StopCalls
    /\ fl \subseteq Nat /\ dr \subseteq Nat /\ ca \subseteq Nat
    /\ \A k \in fl \cup dr \cup ca : k <= n
    /\ \A s \in sa : s.gen <= n
    /\ \A s \in so : s.gen <= n

\* The state x of the microphone and its generation n, with the calls of start (sa) and of
\* stop (so), the transcriptions (fl), the drafts (dr) and the cancelled recordings (ca).
MicFits(x, n, sa, so, fl, dr, ca) ==
    /\ MicTyped(n, sa, so, fl, dr, ca)
    /\ dr \cap ca = {}
    /\ \A s, t \in sa : s.gen = t.gen => s = t
    /\ \A s \in sa : s.gen = n /\ s.at # "failing" => Clean(n, so, fl, dr, ca) /\ x \notin Shows
    /\ x = "recording" => Clean(n, so, fl, dr, ca)
    /\ \A s, t \in Recorded(n, so) : s = t
    /\ n \in fl => Recorded(n, so) = {} /\ n \notin ca /\ n \notin dr
    /\ n \in ca => \A s \in Recorded(n, so) : s.cancel
    /\ n \in dr => x \notin Shows /\ Recorded(n, so) = {}

MicInv == mic \in Mics /\ MicFits(mic.state, mic.gen, starts, stops, flights, drafted, cancelled)

\* A new generation begins with nothing: whatever the older ones still wait for.
LEMMA MicBumps ==
    ASSUME NEW x, NEW n, NEW sa, NEW so, NEW fl, NEW dr, NEW ca, MicFits(x, n, sa, so, fl, dr, ca),
           NEW y, NEW m, m = n + 1
    PROVE  /\ MicFits(y, m, sa, so, fl, dr, ca)
           /\ n \notin dr => MicFits(y, m, sa, so, fl, dr, ca \cup {n})
           /\ MicFits(y, m, sa, so \cup {[gen |-> m, cancel |-> TRUE, at |-> "quit"]}, fl, dr, ca)
           /\ y \notin Shows => MicFits(y, m, sa \cup {[gen |-> m, at |-> "asked"]}, so, fl, dr, ca)
  <1>1. n \in Nat /\ m \in Nat /\ n < m /\ ~(m <= n)
    BY DEF MicFits, MicTyped
  <1>2. m \notin fl /\ m \notin dr /\ m \notin ca
    BY <1>1 DEF MicFits, MicTyped
  <1>3. Recorded(m, so) = {}
    BY <1>1 DEF MicFits, MicTyped, Recorded
  <1>4. \A s \in sa : s.gen # m
    BY <1>1 DEF MicFits, MicTyped
  <1>5. MicTyped(m, sa, so, fl, dr, ca) /\ MicTyped(m, sa, so, fl, dr, ca \cup {n})
    BY <1>1 DEF MicFits, MicTyped, StartCalls, StopCalls
  <1>6. MicFits(y, m, sa, so, fl, dr, ca)
    BY <1>2, <1>3, <1>4, <1>5 DEF MicFits, Clean
  <1>7. n \notin dr => MicFits(y, m, sa, so, fl, dr, ca \cup {n})
    BY <1>1, <1>2, <1>3, <1>4, <1>5 DEF MicFits, Clean
  <1>8. MicFits(y, m, sa, so \cup {[gen |-> m, cancel |-> TRUE, at |-> "quit"]}, fl, dr, ca)
    <2>1. PICK q : q = [gen |-> m, cancel |-> TRUE, at |-> "quit"]
      OBVIOUS
    <2>2. q \in StopCalls /\ q.gen = m /\ q.at = "quit"
      BY <1>1, <2>1 DEF StopCalls
    <2>3. Recorded(m, so \cup {q}) = {}
      BY <1>3, <2>2 DEF Recorded
    <2>4. MicTyped(m, sa, so \cup {q}, fl, dr, ca)
      BY <1>1, <1>5, <2>2 DEF MicTyped
    <2>5. QED
      BY <1>2, <1>4, <1>6, <2>1, <2>3, <2>4 DEF MicFits, Clean
  <1>9. ASSUME y \notin Shows
        PROVE  MicFits(y, m, sa \cup {[gen |-> m, at |-> "asked"]}, so, fl, dr, ca)
    <2>1. PICK q : q = [gen |-> m, at |-> "asked"]
      OBVIOUS
    <2>2. q \in StartCalls /\ q.gen = m
      BY <1>1, <2>1 DEF StartCalls
    <2>3. MicTyped(m, sa \cup {q}, so, fl, dr, ca)
      BY <1>1, <1>5, <2>2 DEF MicTyped
    <2>4. \A s, t \in sa \cup {q} : s.gen = t.gen => s = t
      BY <1>4, <2>2 DEF MicFits
    <2>5. QED
      BY <1>2, <1>3, <1>6, <1>9, <2>1, <2>3, <2>4 DEF MicFits, Clean
  <1>10. QED
    BY <1>6, <1>7, <1>8, <1>9

\* The state may always fall back to one that shows no recording.
LEMMA MicFallsBack ==
    ASSUME NEW x, NEW n, NEW sa, NEW so, NEW fl, NEW dr, NEW ca, MicFits(x, n, sa, so, fl, dr, ca),
           NEW y, y \notin Shows
    PROVE  MicFits(y, n, sa, so, fl, dr, ca)
  BY DEF MicFits, Shows

\* Calls may return.
LEMMA MicReturns ==
    ASSUME NEW x, NEW n, NEW sa, NEW so, NEW fl, NEW dr, NEW ca, MicFits(x, n, sa, so, fl, dr, ca),
           NEW sb, sb \subseteq sa, NEW sq, sq \subseteq so, NEW fk, fk \subseteq fl
    PROVE  MicFits(x, n, sb, sq, fk, dr, ca)
  <1>1. Recorded(n, sq) \subseteq Recorded(n, so)
    BY DEF Recorded
  <1>2. MicTyped(n, sb, sq, fk, dr, ca)
    BY DEF MicFits, MicTyped
  <1>3. Clean(n, so, fl, dr, ca) => Clean(n, sq, fk, dr, ca)
    BY <1>1 DEF Clean
  <1>4. QED
    BY <1>1, <1>2, <1>3 DEF MicFits
\* stop() up to its first wait; what is shown and called off counts as cancelled.
LEMMA MicStops ==
    ASSUME NEW m \in Mics, NEW sa, NEW so, NEW fl, NEW dr, NEW ca,
           MicFits(m.state, m.gen, sa, so, fl, dr, ca),
           so = stops, fl = flights, NEW cancel \in BOOLEAN, Speech!BeginsStop(m, cancel)
    PROVE  /\ mic' \in Mics
           /\ MicFits(mic'.state, mic'.gen, sa, stops', flights', dr, ca)
           /\ cancel => MicFits(mic'.state, mic'.gen, sa, stops', flights', dr,
                                ca \cup {k \in {m.gen} : m.state \in Shows})
  <1> DEFINE under == {k \in {m.gen} : m.state \in Shows}
  <1>0. /\ m.state \in Speech!MicStates /\ m.gen \in Nat /\ m.context \in BOOLEAN
    BY DEF Mics
  <1>1. PICK n \in Nat : n = m.gen + 1
    BY <1>0
  <1>2. \A y : /\ MicFits(y, n, sa, so, fl, dr, ca)
               /\ m.gen \notin dr => MicFits(y, n, sa, so, fl, dr, ca \cup {m.gen})
               /\ MicFits(y, n, sa, so \cup {[gen |-> n, cancel |-> TRUE, at |-> "quit"]}, fl, dr, ca)
    <2>1. TAKE y
    <2>2. PICK x, k : x = m.state /\ k = m.gen
      OBVIOUS
    <2>3. MicFits(x, k, sa, so, fl, dr, ca) /\ n = k + 1
      BY <1>1, <2>2
    <2>4. /\ MicFits(y, n, sa, so, fl, dr, ca)
          /\ k \notin dr => MicFits(y, n, sa, so, fl, dr, ca \cup {k})
          /\ MicFits(y, n, sa, so \cup {[gen |-> n, cancel |-> TRUE, at |-> "quit"]}, fl, dr, ca)
      BY Zenon, <2>3, MicBumps
    <2>5. QED
      BY <2>2, <2>4
  <1>3. m.state \notin Shows => under = {}
    OBVIOUS
  <1>4. m.state \in Shows => under = {m.gen} /\ m.gen \notin dr
    BY DEF MicFits
  <1>5. CASE m.state \in Speech!Quiet
    <2>1. mic' = m /\ UNCHANGED <<stops, flights>> /\ m.state \notin Shows
      BY <1>5 DEF Speech!BeginsStop, Speech!Quiet, Shows
    <2>2. ca \cup under = ca
      BY <1>3, <2>1
    <2>3. QED
      BY <2>1, <2>2
  <1>6. CASE m.state = "requesting"
    <2>1. Speech!QuitsRequest(m) /\ m.state \notin Shows
      BY <1>6 DEF Speech!BeginsStop, Speech!Quiet, Shows
    <2>2. PICK q : q = [m EXCEPT !.gen = n]
      OBVIOUS
    <2>3. q \in Mics /\ q.gen = n /\ q.state = "requesting"
      BY <2>2, <1>6 DEF Mics
    <2>4. PICK r : /\ r \in Mics /\ r.gen = n /\ r.state \in {"requesting", "idle"}
                   /\ mic' = [r EXCEPT !.stream = 0, !.context = FALSE]
      <3>1. PICK r : r = IF m.context THEN q ELSE [q EXCEPT !.state = "idle"]
        OBVIOUS
      <3>2. mic' = [r EXCEPT !.stream = 0, !.context = FALSE]
        BY <2>1, <2>2, <3>1, <1>1 DEF Speech!QuitsRequest, Speech!CloseGraph
      <3>3. r \in Mics
        BY <2>3, <3>1 DEF Mics, Speech!MicStates, Speech!Quiet
      <3>4. r.gen = n /\ r.state \in {"requesting", "idle"}
        BY <2>3, <3>1 DEF Mics
      <3>5. QED
        BY <3>2, <3>3, <3>4
    <2>5. mic' \in Mics
      BY <2>4 DEF Mics
    <2>6. mic'.gen = n
      BY <2>4 DEF Mics
    <2>7. \/ UNCHANGED stops
          \/ stops' = stops \cup {[gen |-> n, cancel |-> TRUE, at |-> "quit"]}
      BY <2>1, <1>1 DEF Speech!QuitsRequest
    <2>8. UNCHANGED flights
      BY <2>1 DEF Speech!QuitsRequest
    <2>9. MicFits(mic'.state, mic'.gen, sa, stops', flights', dr, ca)
      BY <1>2, <2>6, <2>7, <2>8
    <2>10. ca \cup under = ca
      BY <1>3, <2>1
    <2>11. QED
      BY <2>5, <2>9, <2>10
  <1>7. CASE m.state \in {"transcribing", "stopping"}
    <2>1. /\ UNCHANGED <<stops, flights>>
          /\ mic' = IF cancel THEN (IF m.state = "transcribing"
                                    THEN [m EXCEPT !.gen = n, !.state = "idle"]
                                    ELSE [m EXCEPT !.gen = n]) ELSE m
      BY <1>1, <1>7 DEF Speech!BeginsStop, Speech!Quiet
    <2>2. CASE ~cancel
      BY <2>1, <2>2
    <2>3. CASE cancel
      <3>1. mic' \in Mics
        BY <2>1, <2>3 DEF Mics, Speech!MicStates, Speech!Quiet
      <3>2. mic'.gen = n
        BY <2>1, <2>3 DEF Mics
      <3>3. under = {m.gen} /\ m.gen \notin dr
        BY <1>4, <1>7 DEF Shows
      <3>4. QED
        BY <1>2, <2>1, <3>1, <3>2, <3>3
    <2>4. QED
      BY <2>2, <2>3
  <1>8. CASE m.state = "recording"
    <2>1. PICK e \in {"flush", "close"} :
             stops' = stops \cup {[gen |-> m.gen, cancel |-> cancel, at |-> e]}
      BY <1>8 DEF Speech!BeginsStop, Speech!Quiet
    <2>2. PICK r : r = [m EXCEPT !.state = "stopping"]
      OBVIOUS
    <2>3. r \in Mics
      BY <2>2 DEF Mics, Speech!MicStates, Speech!Quiet
    <2>4. r.gen = m.gen /\ r.state = "stopping"
      BY <2>2 DEF Mics
    <2>5. UNCHANGED flights /\ (mic' = r \/ mic' = [r EXCEPT !.stream = 0, !.context = FALSE])
      BY <1>8, <2>2 DEF Speech!BeginsStop, Speech!Quiet, Speech!CloseGraph
    <2>6. mic' \in Mics
      <3>1. [r EXCEPT !.stream = 0, !.context = FALSE] \in Mics
        BY <2>3 DEF Mics
      <3>2. QED
        BY <2>3, <2>5, <3>1
    <2>7. mic'.gen = m.gen /\ mic'.state = "stopping"
      <3>1. CASE mic' = r
        BY <2>4, <3>1
      <3>2. CASE mic' = [r EXCEPT !.stream = 0, !.context = FALSE]
        <4>1. PICK k : k = [r EXCEPT !.stream = 0, !.context = FALSE]
          OBVIOUS
        <4>2. k.gen = r.gen /\ k.state = r.state
          BY <2>3, <4>1 DEF Mics
        <4>3. QED
          BY <2>4, <3>2, <4>1, <4>2
      <3>3. QED
        BY <2>5, <3>1, <3>2
    <2>8. PICK q : q = [gen |-> m.gen, cancel |-> cancel, at |-> e]
      OBVIOUS
    <2>9. q \in StopCalls /\ q.gen = m.gen /\ q.at # "quit" /\ q.cancel = cancel
      BY <1>0, <2>8 DEF StopCalls
    <2>10. Clean(m.gen, so, fl, dr, ca)
      BY <1>8 DEF MicFits
    <2>11. Recorded(m.gen, so \cup {q}) = {q}
      BY <2>9, <2>10 DEF Recorded, Clean
    <2>12. /\ MicTyped(m.gen, sa, so \cup {q}, fl, dr, ca)
           /\ MicTyped(m.gen, sa, so \cup {q}, fl, dr, ca \cup {m.gen})
      <3>1. PICK k \in Nat : k = m.gen
        BY <1>0
      <3>2. MicTyped(k, sa, so, fl, dr, ca) /\ q.gen = k
        BY <2>9, <3>1 DEF MicFits
      <3>3. MicTyped(k, sa, so \cup {q}, fl, dr, ca)
        BY <2>9, <3>2 DEF MicTyped
      <3>4. MicTyped(k, sa, so \cup {q}, fl, dr, ca \cup {k})
        BY <3>3 DEF MicTyped
      <3>5. QED
        BY <3>1, <3>3, <3>4
    <2>13. \A s \in sa : s.gen = m.gen => s.at = "failing"
      BY <1>8 DEF MicFits, Shows
    <2>14. MicFits("stopping", m.gen, sa, so \cup {q}, fl, dr, ca)
      BY <2>10, <2>11, <2>12, <2>13 DEF MicFits, Clean
    <2>15. cancel => MicFits("stopping", m.gen, sa, so \cup {q}, fl, dr, ca \cup {m.gen})
      <3>1. SUFFICES ASSUME cancel
                     PROVE  MicFits("stopping", m.gen, sa, so \cup {q}, fl, dr, ca \cup {m.gen})
        OBVIOUS
      <3>2. dr \cap (ca \cup {m.gen}) = {} /\ m.gen \notin fl /\ m.gen \notin dr
        BY <2>10 DEF MicFits, Clean
      <3>3. \A s \in Recorded(m.gen, so \cup {q}) : s = q /\ s.cancel
        BY <2>9, <2>11, <3>1
      <3>4. \A s, t \in sa : s.gen = t.gen => s = t
        BY DEF MicFits
      <3>5. QED
        BY <2>12, <2>13, <3>2, <3>3, <3>4 DEF MicFits
    <2>16. under = {m.gen}
      BY <1>4, <1>8 DEF Shows
    <2>17. QED
      BY <2>1, <2>5, <2>6, <2>7, <2>8, <2>14, <2>15, <2>16
  <1>9. QED
    BY <1>0, <1>5, <1>6, <1>7, <1>8 DEF Speech!MicStates, Speech!Quiet
\* The hold and held fields matter to no call.
LEMMA MicHolds ==
    ASSUME NEW m \in Mics, NEW b \in BOOLEAN, NEW q, q \in {[m EXCEPT !.held = b], [m EXCEPT !.hold = b]}
    PROVE  q \in Mics /\ q.state = m.state /\ q.gen = m.gen
  BY DEF Mics

LEMMA MicPresses ==
    ASSUME MicInv, Speech!Presses
    PROVE  MicInv'
  <1>1. CASE Speech!BeginsStop(mic, FALSE) /\ UNCHANGED <<starts, drafted, cancelled>>
    <2>1. mic' \in Mics /\ MicFits(mic'.state, mic'.gen, starts, stops', flights', drafted, cancelled)
      BY <1>1, MicStops DEF MicInv
    <2>2. QED
      BY <1>1, <2>1 DEF MicInv
  <1>2. CASE /\ Speech!BeginsStart([mic EXCEPT !.held = mic.hold])
             /\ UNCHANGED <<stops, flights, drafted, cancelled>>
    <2>1. PICK m : m = [mic EXCEPT !.held = mic.hold]
      OBVIOUS
    <2>2. m \in Mics /\ m.state = mic.state /\ m.gen = mic.gen /\ m.gen \in Nat
      BY <2>1, MicHolds DEF MicInv, Mics
    <2>3. MicFits(m.state, m.gen, starts, stops, flights, drafted, cancelled)
      BY <2>2 DEF MicInv
    <2>4. CASE m.state \in Speech!Quiet
      <3>1. PICK n \in Nat : n = m.gen + 1
        BY <2>2
      <3>2. /\ mic' = [m EXCEPT !.state = "requesting", !.gen = n, !.context = TRUE]
            /\ starts' = starts \cup {[gen |-> n, at |-> "asked"]}
        BY <1>2, <2>1, <2>4, <3>1 DEF Speech!BeginsStart
      <3>3. mic' \in Mics
        BY <2>2, <3>2 DEF Mics, Speech!MicStates
      <3>4. mic'.gen = n /\ mic'.state = "requesting"
        BY <2>2, <3>2 DEF Mics
      <3>5. MicFits("requesting", n, starts \cup {[gen |-> n, at |-> "asked"]}, stops, flights,
                    drafted, cancelled)
        <4>1. PICK k : k = m.gen
          OBVIOUS
        <4>2. n = k + 1 /\ MicFits(m.state, k, starts, stops, flights, drafted, cancelled)
          BY <2>3, <3>1, <4>1
        <4>3. "requesting" \notin Shows
          BY DEF Shows
        <4>4. QED
          BY Zenon, <4>2, <4>3, MicBumps
      <3>6. QED
        BY <1>2, <3>2, <3>3, <3>4, <3>5 DEF MicInv
    <2>5. CASE m.state \notin Speech!Quiet
      <3>1. mic' = m /\ UNCHANGED starts
        BY <1>2, <2>1, <2>5 DEF Speech!BeginsStart
      <3>2. QED
        BY <1>2, <2>2, <2>3, <3>1 DEF MicInv
    <2>6. QED
      BY <2>4, <2>5
  <1>3. QED
    BY <1>1, <1>2 DEF Speech!Presses

LEMMA MicReleases ==
    ASSUME MicInv, Speech!Releases \/ Speech!CallsOff
    PROVE  MicInv'
  <1>1. PICK m : m = [mic EXCEPT !.held = FALSE]
    OBVIOUS
  <1>2. m \in Mics /\ m.state = mic.state /\ m.gen = mic.gen
    BY <1>1, MicHolds DEF MicInv
  <1>3. MicFits(m.state, m.gen, starts, stops, flights, drafted, cancelled)
    BY <1>2 DEF MicInv
  <1>4. CASE Speech!Releases
    <2>1. Speech!BeginsStop(m, FALSE) /\ UNCHANGED <<starts, drafted, cancelled>>
      BY <1>1, <1>4 DEF Speech!Releases
    <2>2. mic' \in Mics /\ MicFits(mic'.state, mic'.gen, starts, stops', flights', drafted, cancelled)
      BY <1>2, <1>3, <2>1, MicStops
    <2>3. QED
      BY <2>1, <2>2 DEF MicInv
  <1>5. CASE Speech!CallsOff
    <2>1. /\ Speech!BeginsStop(m, TRUE) /\ UNCHANGED <<starts, drafted>>
          /\ cancelled' = cancelled \cup {k \in {m.gen} : m.state \in Shows}
      BY <1>1, <1>2, <1>5 DEF Speech!CallsOff, Speech!Underway, Shows
    <2>2. /\ mic' \in Mics
          /\ MicFits(mic'.state, mic'.gen, starts, stops', flights', drafted,
                     cancelled \cup {k \in {m.gen} : m.state \in Shows})
      BY <1>2, <1>3, <2>1, MicStops
    <2>3. QED
      BY <2>1, <2>2 DEF MicInv
  <1>6. QED
    BY <1>4, <1>5

LEMMA MicChoosesMode ==
    ASSUME MicInv, Speech!ChoosesMode
    PROVE  MicInv'
  <1>1. PICK b \in BOOLEAN : b = ~mic.hold
    BY DEF MicInv, Mics
  <1>2. mic' = [mic EXCEPT !.hold = b] /\ UNCHANGED <<starts, stops, flights, drafted, cancelled>>
    BY <1>1 DEF Speech!ChoosesMode
  <1>3. mic' \in Mics /\ mic'.state = mic.state /\ mic'.gen = mic.gen
    BY <1>2, MicHolds DEF MicInv
  <1>4. QED
    BY <1>2, <1>3 DEF MicInv

\* The graph of a microphone that was closed or opened matters to no call.
LEMMA MicGraph ==
    ASSUME NEW m \in Mics, NEW k \in Nat, NEW q,
           q \in {[m EXCEPT !.stream = k], [m EXCEPT !.stream = 0, !.context = FALSE]}
    PROVE  q \in Mics /\ q.state = m.state /\ q.gen = m.gen
  <1>1. CASE q = [m EXCEPT !.stream = k]
    BY <1>1 DEF Mics
  <1>2. CASE q = [m EXCEPT !.stream = 0, !.context = FALSE]
    <2>1. q \in Mics
      BY <1>2 DEF Mics
    <2>2. q.state = m.state /\ q.gen = m.gen
      BY <1>2 DEF Mics
    <2>3. QED
      BY <2>1, <2>2
  <1>3. QED
    BY <1>1, <1>2

LEMMA MicSays ==
    ASSUME NEW m \in Mics, NEW y \in Speech!MicStates, NEW q, q = [m EXCEPT !.state = y]
    PROVE  q \in Mics /\ q.state = y /\ q.gen = m.gen
  BY DEF Mics

\* A start that goes on stays the start of its generation.
LEMMA MicStartMoves ==
    ASSUME NEW x, NEW n, NEW sa, NEW so, NEW fl, NEW dr, NEW ca, MicFits(x, n, sa, so, fl, dr, ca),
           NEW s \in sa, s.at # "failing", NEW e \in {"module", "failing"}
    PROVE  MicFits(x, n, (sa \ {s}) \cup {[s EXCEPT !.at = e]}, so, fl, dr, ca)
  <1>1. PICK q : q = [s EXCEPT !.at = e]
    OBVIOUS
  <1>2. s \in StartCalls
    BY DEF MicFits, MicTyped
  <1>3. q \in StartCalls /\ q.gen = s.gen
    BY <1>1, <1>2 DEF StartCalls
  <1>4. MicTyped(n, (sa \ {s}) \cup {q}, so, fl, dr, ca)
    BY <1>3 DEF MicFits, MicTyped
  <1>5. \A t, u \in (sa \ {s}) \cup {q} : t.gen = u.gen => t = u
    BY <1>3 DEF MicFits
  <1>6. \A t \in (sa \ {s}) \cup {q} :
           t.gen = n /\ t.at # "failing" => Clean(n, so, fl, dr, ca) /\ x \notin Shows
    BY <1>3 DEF MicFits
  <1>7. QED
    BY <1>1, <1>4, <1>5, <1>6 DEF MicFits

LEMMA MicStarts ==
    ASSUME MicInv, Speech!Granted \/ Speech!ModuleLoads \/ Speech!StartFails
    PROVE  MicInv'
  <1>0. UNCHANGED <<stops, flights, drafted, cancelled>>
    BY DEF Speech!Granted, Speech!ModuleLoads, Speech!StartFails
  <1>1. mic \in Mics /\ MicFits(mic.state, mic.gen, starts, stops, flights, drafted, cancelled)
    BY DEF MicInv
  <1>2. ASSUME NEW s, starts' = starts \ {s}, UNCHANGED mic
        PROVE  MicInv'
    BY <1>0, <1>1, <1>2, MicReturns DEF MicInv
  <1>3. CASE Speech!Granted
    <2>1. PICK s \in starts :
            /\ s.at = "asked"
            /\ IF Speech!Counts(s)
               THEN /\ mic' = [mic EXCEPT !.stream = s.gen]
                    /\ starts' = (starts \ {s}) \cup {[s EXCEPT !.at = "module"]}
               ELSE starts' = starts \ {s} /\ UNCHANGED mic
      BY <1>3 DEF Speech!Granted
    <2>2. CASE Speech!Counts(s)
      <3>1. s.gen \in Nat
        BY <1>1 DEF MicFits, MicTyped, StartCalls
      <3>2. mic' \in Mics /\ mic'.state = mic.state /\ mic'.gen = mic.gen
        BY <1>1, <2>1, <2>2, <3>1, MicGraph
      <3>3. MicFits(mic.state, mic.gen, starts', stops, flights, drafted, cancelled)
        <4>1. s.at # "failing" /\ starts' = (starts \ {s}) \cup {[s EXCEPT !.at = "module"]}
          BY <2>1, <2>2
        <4>2. MicFits(mic.state, mic.gen, (starts \ {s}) \cup {[s EXCEPT !.at = "module"]}, stops,
                      flights, drafted, cancelled)
          BY <1>1, <4>1, MicStartMoves
        <4>3. QED
          BY <4>1, <4>2
      <3>4. QED
        BY <1>0, <3>2, <3>3 DEF MicInv
    <2>3. QED
      BY <1>2, <2>1, <2>2
  <1>4. CASE Speech!ModuleLoads
    <2>1. PICK s \in starts :
            /\ s.at = "module" /\ starts' = starts \ {s}
            /\ IF Speech!Counts(s) THEN mic' = [mic EXCEPT !.state = "recording"] ELSE UNCHANGED mic
      BY <1>4 DEF Speech!ModuleLoads, Speech!Abandons
    <2>2. CASE Speech!Counts(s)
      <3>1. mic' \in Mics /\ mic'.state = "recording" /\ mic'.gen = mic.gen
        BY <1>1, <2>1, <2>2, MicSays DEF Speech!MicStates
      <3>2. s.gen = mic.gen /\ Clean(mic.gen, stops, flights, drafted, cancelled)
        BY <1>1, <2>1, <2>2 DEF MicFits, Speech!Counts
      <3>3. \A t \in starts \ {s} : t.gen # mic.gen
        BY <1>1, <3>2 DEF MicFits
      <3>4. MicFits(mic.state, mic.gen, starts \ {s}, stops, flights, drafted, cancelled)
        BY <1>1, MicReturns
      <3>5. MicFits("recording", mic.gen, starts \ {s}, stops, flights, drafted, cancelled)
        BY <3>2, <3>3, <3>4 DEF MicFits, Clean
      <3>6. QED
        BY <1>0, <2>1, <3>1, <3>5 DEF MicInv
    <2>3. QED
      BY <1>2, <2>1, <2>2
  <1>5. CASE Speech!StartFails
    <2>1. PICK s \in starts :
            \/ starts' = starts \ {s} /\ UNCHANGED mic
            \/ /\ s.at # "failing" /\ mic' = [mic EXCEPT !.stream = 0, !.context = FALSE]
               /\ starts' = (starts \ {s}) \cup {[s EXCEPT !.at = "failing"]}
            \/ mic' = [mic EXCEPT !.state = "error"] /\ starts' = starts \ {s}
      BY <1>5 DEF Speech!StartFails, Speech!Abandons
    <2>2. CASE /\ s.at # "failing" /\ mic' = [mic EXCEPT !.stream = 0, !.context = FALSE]
               /\ starts' = (starts \ {s}) \cup {[s EXCEPT !.at = "failing"]}
      <3>1. mic' \in Mics /\ mic'.state = mic.state /\ mic'.gen = mic.gen
        BY <1>1, <2>2, MicGraph
      <3>2. MicFits(mic.state, mic.gen, starts', stops, flights, drafted, cancelled)
        <4>1. MicFits(mic.state, mic.gen, (starts \ {s}) \cup {[s EXCEPT !.at = "failing"]}, stops,
                      flights, drafted, cancelled)
          BY <1>1, <2>2, MicStartMoves
        <4>2. QED
          BY <2>2, <4>1
      <3>3. QED
        BY <1>0, <3>1, <3>2 DEF MicInv
    <2>3. CASE mic' = [mic EXCEPT !.state = "error"] /\ starts' = starts \ {s}
      <3>1. mic' \in Mics /\ mic'.state = "error" /\ mic'.gen = mic.gen
        BY <1>1, <2>3, MicSays DEF Speech!MicStates, Speech!Quiet
      <3>2. MicFits(mic.state, mic.gen, starts \ {s}, stops, flights, drafted, cancelled)
        BY <1>1, MicReturns
      <3>3. "error" \notin Shows
        BY DEF Shows
      <3>4. MicFits("error", mic.gen, starts \ {s}, stops, flights, drafted, cancelled)
        BY <3>2, <3>3, MicFallsBack
      <3>5. QED
        BY <1>0, <2>3, <3>1, <3>4 DEF MicInv
    <2>4. QED
      BY <1>2, <2>1, <2>2, <2>3
  <1>6. QED
    BY <1>3, <1>4, <1>5
LEMMA MicFlushes ==
    ASSUME MicInv, Speech!Flushes
    PROVE  MicInv'
  <1>0. UNCHANGED <<starts, flights, drafted, cancelled>>
    BY DEF Speech!Flushes
  <1>1. PICK s \in stops :
          /\ s.at = "flush" /\ mic' = [mic EXCEPT !.stream = 0, !.context = FALSE]
          /\ stops' = (stops \ {s}) \cup {[s EXCEPT !.at = "close"]}
    BY DEF Speech!Flushes, Speech!CloseGraph
  <1>2. mic' \in Mics /\ mic'.state = mic.state /\ mic'.gen = mic.gen
    BY <1>1, MicGraph DEF MicInv
  <1>3. PICK n \in Nat : n = mic.gen
    BY DEF MicInv, Mics
  <1>4. PICK q : q = [s EXCEPT !.at = "close"]
    OBVIOUS
  <1>5. s \in StopCalls
    BY DEF MicInv, MicFits, MicTyped
  <1>6. q \in StopCalls /\ q.at = "close" /\ q.gen = s.gen /\ q.cancel = s.cancel
    BY <1>4, <1>5 DEF StopCalls
  <1>7. PICK so : so = (stops \ {s}) \cup {q}
    OBVIOUS
  <1>8. MicFits(mic.state, n, starts, stops, flights, drafted, cancelled)
    BY <1>3 DEF MicInv
  <1>9. MicTyped(n, starts, so, flights, drafted, cancelled)
    BY <1>6, <1>7, <1>8 DEF MicFits, MicTyped
  <1>10. /\ s.gen # n => Recorded(n, so) = Recorded(n, stops)
         /\ s.gen = n => s \in Recorded(n, stops) /\ Recorded(n, so) = {q}
    <2>1. s.gen # n => Recorded(n, so) = Recorded(n, stops)
      BY <1>6, <1>7 DEF Recorded
    <2>2. s.gen = n => s \in Recorded(n, stops)
      BY <1>1 DEF Recorded
    <2>3. ASSUME s.gen = n PROVE Recorded(n, so) = {q}
      <3>1. \A t \in Recorded(n, stops) : t = s
        BY <2>2, <2>3, <1>8 DEF MicFits
      <3>2. \A t \in Recorded(n, so) : t = q
        BY <3>1, <1>7 DEF Recorded
      <3>3. q \in Recorded(n, so)
        BY <2>3, <1>6, <1>7 DEF Recorded
      <3>4. QED
        BY <3>2, <3>3
    <2>4. QED
      BY <2>1, <2>2, <2>3
  <1>11. MicFits(mic.state, n, starts, so, flights, drafted, cancelled)
    <2>1. CASE s.gen # n
      BY <2>1, <1>8, <1>9, <1>10 DEF MicFits, Clean
    <2>2. CASE s.gen = n
      <3>1. ~Clean(n, stops, flights, drafted, cancelled)
        BY <2>2, <1>10 DEF Clean
      <3>2. n \in cancelled => q.cancel
        BY <2>2, <1>6, <1>8, <1>10 DEF MicFits
      <3>3. n \notin flights /\ n \notin drafted
        BY <2>2, <1>8, <1>10 DEF MicFits
      <3>4. QED
        BY <2>2, <3>1, <3>2, <3>3, <1>8, <1>9, <1>10 DEF MicFits
    <2>3. QED
      BY <2>1, <2>2
  <1>12. QED
    BY <1>0, <1>1, <1>2, <1>3, <1>4, <1>7, <1>11 DEF MicInv

LEMMA MicClosed ==
    ASSUME MicInv, Speech!GraphClosed
    PROVE  MicInv'
  <1>0. UNCHANGED <<starts, drafted, cancelled>>
    BY DEF Speech!GraphClosed
  <1>1. PICK s \in stops :
          /\ s.at # "flush" /\ stops' = stops \ {s}
          /\ \/ s.at = "quit" /\ mic' = [mic EXCEPT !.state = "idle"] /\ UNCHANGED flights
             \/ mic' = [mic EXCEPT !.gen = @ + 1, !.state = "idle"] /\ UNCHANGED flights
             \/ mic' = [mic EXCEPT !.state = "error"] /\ UNCHANGED flights
             \/ /\ s.at = "close" /\ ~s.cancel /\ Speech!Counts(s)
                /\ mic' = [mic EXCEPT !.state = "transcribing"]
                /\ flights' = flights \cup {s.gen}
    <2>1. PICK s \in stops :
            /\ s.at # "flush" /\ stops' = stops \ {s}
            /\ CASE s.at = "quit" -> mic' = [mic EXCEPT !.state = "idle"] /\ UNCHANGED flights
                 [] s.at = "close" /\ (s.cancel \/ ~Speech!Counts(s)) ->
                      mic' = [mic EXCEPT !.gen = @ + 1, !.state = "idle"] /\ UNCHANGED flights
                 [] OTHER ->
                      \/ mic' = [mic EXCEPT !.state = "error"] /\ UNCHANGED flights
                      \/ /\ mic' = [mic EXCEPT !.state = "transcribing"]
                         /\ flights' = flights \cup {s.gen}
      BY DEF Speech!GraphClosed
    <2>2. s.at \in {"flush", "close", "quit"}
      BY DEF MicInv, MicFits, MicTyped, StopCalls
    <2>3. QED
      BY <2>1, <2>2
  <1>2. PICK n \in Nat : n = mic.gen
    BY DEF MicInv, Mics
  <1>3. mic \in Mics /\ MicFits(mic.state, n, starts, stops \ {s}, flights, drafted, cancelled)
    BY <1>2, MicReturns DEF MicInv
  <1>4. ASSUME NEW y \in {"idle", "error"}, mic' = [mic EXCEPT !.state = y], UNCHANGED flights
        PROVE  MicInv'
    <2>1. mic' \in Mics /\ mic'.state = y /\ mic'.gen = n
      BY <1>2, <1>3, <1>4, MicSays DEF Speech!MicStates, Speech!Quiet
    <2>2. y \notin Shows
      BY DEF Shows
    <2>3. MicFits(y, n, starts, stops \ {s}, flights, drafted, cancelled)
      BY <1>3, <2>2, MicFallsBack
    <2>4. QED
      BY <1>0, <1>1, <1>4, <2>1, <2>3 DEF MicInv
  <1>5. CASE mic' = [mic EXCEPT !.gen = @ + 1, !.state = "idle"] /\ UNCHANGED flights
    <2>1. PICK k \in Nat : k = n + 1
      OBVIOUS
    <2>2. mic' = [mic EXCEPT !.gen = k, !.state = "idle"]
      BY <1>2, <1>5, <2>1
    <2>3. mic' \in Mics
      BY <1>3, <2>2 DEF Mics, Speech!MicStates, Speech!Quiet
    <2>4. mic'.gen = k /\ mic'.state = "idle"
      BY <1>3, <2>2 DEF Mics
    <2>5. MicFits("idle", k, starts, stops \ {s}, flights, drafted, cancelled)
      BY Zenon, <1>3, <2>1, MicBumps
    <2>6. QED
      BY <1>0, <1>1, <1>5, <2>3, <2>4, <2>5 DEF MicInv
  <1>6. CASE /\ s.at = "close" /\ ~s.cancel /\ Speech!Counts(s)
             /\ mic' = [mic EXCEPT !.state = "transcribing"]
             /\ flights' = flights \cup {s.gen}
    <2>1. mic' \in Mics /\ mic'.state = "transcribing" /\ mic'.gen = n
      BY <1>2, <1>3, <1>6, MicSays DEF Speech!MicStates
    <2>2. s \in Recorded(n, stops) /\ s.gen = n
      BY <1>2, <1>6 DEF Recorded, Speech!Counts
    <2>3. MicFits(mic.state, n, starts, stops, flights, drafted, cancelled)
      BY <1>2 DEF MicInv
    <2>4. Recorded(n, stops \ {s}) = {}
      BY <2>2, <2>3 DEF MicFits, Recorded
    <2>5. n \notin cancelled /\ n \notin drafted
      BY <1>6, <2>2, <2>3 DEF MicFits
    <2>6. \A t \in starts : t.gen = n => t.at = "failing"
      BY <2>2, <2>3 DEF MicFits, Clean
    <2>7. MicTyped(n, starts, stops \ {s}, flights \cup {n}, drafted, cancelled)
      BY <1>3 DEF MicFits, MicTyped
    <2>8. MicFits("transcribing", n, starts, stops \ {s}, flights \cup {n}, drafted, cancelled)
      BY <1>3, <2>4, <2>5, <2>6, <2>7 DEF MicFits
    <2>9. QED
      BY <1>0, <1>1, <1>6, <2>1, <2>2, <2>8 DEF MicInv
  <1>7. QED
    BY <1>1, <1>4, <1>5, <1>6

LEMMA MicTranscribes ==
    ASSUME MicInv, Speech!TranscriptArrives
    PROVE  MicInv'
  <1>0. UNCHANGED <<starts, stops, cancelled>>
    BY DEF Speech!TranscriptArrives
  <1>1. PICK g \in flights :
          /\ flights' = flights \ {g}
          /\ \/ UNCHANGED <<mic, drafted>>
             \/ g = mic.gen /\ drafted' = drafted \cup {g} /\ mic' = [mic EXCEPT !.state = "idle"]
             \/ UNCHANGED drafted /\ mic' = [mic EXCEPT !.state = "error"]
    BY DEF Speech!TranscriptArrives, Speech!Transcribed
  <1>2. PICK n \in Nat : n = mic.gen
    BY DEF MicInv, Mics
  <1>3. mic \in Mics /\ MicFits(mic.state, n, starts, stops, flights \ {g}, drafted, cancelled)
    BY <1>2, MicReturns DEF MicInv
  <1>4. CASE UNCHANGED <<mic, drafted>>
    BY <1>0, <1>1, <1>2, <1>3, <1>4 DEF MicInv
  <1>5. CASE UNCHANGED drafted /\ mic' = [mic EXCEPT !.state = "error"]
    <2>1. mic' \in Mics /\ mic'.state = "error" /\ mic'.gen = n
      BY <1>2, <1>3, <1>5, MicSays DEF Speech!MicStates, Speech!Quiet
    <2>2. "error" \notin Shows
      BY DEF Shows
    <2>3. MicFits("error", n, starts, stops, flights \ {g}, drafted, cancelled)
      BY <1>3, <2>2, MicFallsBack
    <2>4. QED
      BY <1>0, <1>1, <1>5, <2>1, <2>3 DEF MicInv
  <1>6. CASE g = mic.gen /\ drafted' = drafted \cup {g} /\ mic' = [mic EXCEPT !.state = "idle"]
    <2>1. mic' \in Mics /\ mic'.state = "idle" /\ mic'.gen = n
      BY <1>2, <1>3, <1>6, MicSays DEF Speech!MicStates, Speech!Quiet
    <2>2. n \in flights /\ MicFits(mic.state, n, starts, stops, flights, drafted, cancelled)
      BY <1>2, <1>6 DEF MicInv
    <2>3. Recorded(n, stops) = {} /\ n \notin cancelled
      BY <2>2 DEF MicFits
    <2>4. \A t \in starts : t.gen = n => t.at = "failing"
      BY <2>2 DEF MicFits, Clean
    <2>5. "idle" \notin Shows /\ "idle" # "recording"
      BY DEF Shows
    <2>6. MicTyped(n, starts, stops, flights \ {n}, drafted \cup {n}, cancelled)
      BY <2>2 DEF MicFits, MicTyped
    <2>7. MicFits("idle", n, starts, stops, flights \ {n}, drafted \cup {n}, cancelled)
      BY <2>2, <2>3, <2>4, <2>5, <2>6 DEF MicFits
    <2>8. QED
      BY <1>0, <1>1, <1>2, <1>6, <2>1, <2>7 DEF MicInv
  <1>7. QED
    BY <1>1, <1>4, <1>5, <1>6
-----------------------------------------------------------------------------
(* SpeechControls: the voice.                                                 *)

Voices == [room : Rooms, known : SUBSET (Rooms \X Nat), spoken : SUBSET (Rooms \X Nat),
           token : Nat, speaking : BOOLEAN, on : BOOLEAN, visible : BOOLEAN, twice : BOOLEAN]

\* The replies of a room that are known are the first ones, and those that were read aloud
\* are among them: of another room, among those it holds.
Hears(v, q, en) ==
    /\ v \in Voices /\ ~v.twice
    /\ en \subseteq 0 .. v.token
    /\ v.speaking <=> v.token \in en
    /\ \A k \in Rooms, i \in Nat : <<k, i>> \in v.spoken => 1 <= i /\ i <= q[k]
    /\ \E m \in 0 .. q[v.room] :
         /\ v.known = {<<v.room, i>> : i \in 1 .. m}
         /\ \A i \in Nat : <<v.room, i>> \in v.spoken => i <= m

VoiceInv == replies \in [Rooms -> Nat] /\ Hears(voice, replies, ends)

LEMMA SpeechBegins ==
    ASSUME Rooms # {}, Speech!SpeechInit
    PROVE  MicInv /\ VoiceInv
  <1>1. MicInv
    <2>1. mic \in Mics /\ mic.state = "idle" /\ mic.gen = 0
      BY DEF Speech!SpeechInit, Mics, Speech!MicStates, Speech!Quiet
    <2>2. starts = {} /\ stops = {} /\ flights = {} /\ drafted = {} /\ cancelled = {}
      BY DEF Speech!SpeechInit
    <2>3. QED
      BY <2>1, <2>2 DEF MicInv, MicFits, MicTyped, Recorded, Shows
  <1>2. VoiceInv
    <2>1. PICK k : k = CHOOSE q \in Rooms : TRUE
      OBVIOUS
    <2>2. k \in Rooms
      BY <2>1
    <2>3. voice = [room |-> k, known |-> {}, spoken |-> {}, token |-> 0, speaking |-> FALSE,
                   on |-> TRUE, visible |-> TRUE, twice |-> FALSE]
      BY <2>1 DEF Speech!SpeechInit
    <2>4. ends = {} /\ replies = [q \in Rooms |-> 0]
      BY DEF Speech!SpeechInit
    <2>5. /\ voice \in Voices /\ ~voice.twice /\ voice.token = 0 /\ ~voice.speaking
          /\ voice.spoken = {} /\ voice.known = {} /\ voice.room = k
      BY <2>2, <2>3 DEF Voices
    <2>6. replies \in [Rooms -> Nat] /\ replies[k] = 0
      BY <2>2, <2>4
    <2>7. {<<k, i>> : i \in 1 .. 0} = {}
      OBVIOUS
    <2>8. \E m \in 0 .. replies[voice.room] :
            /\ voice.known = {<<voice.room, i>> : i \in 1 .. m}
            /\ \A i \in Nat : <<voice.room, i>> \in voice.spoken => i <= m
      BY <2>5, <2>6, <2>7
    <2>9. QED
      BY <2>4, <2>5, <2>6, <2>8 DEF VoiceInv, Hears
  <1>3. QED
    BY <1>1, <1>2

\* Nothing is being read with a token no utterance has.
LEMMA VoiceSilenced ==
    ASSUME NEW v, NEW q, NEW en, Hears(v, q, en)
    PROVE  Hears(Speech!Silenced(v), q, en)
  <1>1. PICK n \in Nat : n = v.token + 1
    BY DEF Hears, Voices
  <1>2. PICK w : w = [v EXCEPT !.token = n, !.speaking = FALSE]
    OBVIOUS
  <1>3. w \in Voices
    BY <1>2 DEF Hears, Voices
  <1>4. /\ w.token = n /\ w.speaking = FALSE /\ w.room = v.room /\ w.known = v.known
        /\ w.spoken = v.spoken /\ w.twice = v.twice
    BY <1>2 DEF Hears, Voices
  <1>5. v.token \in Nat
    BY DEF Hears, Voices
  <1>6. n \notin en /\ en \subseteq 0 .. n
    BY <1>1, <1>5 DEF Hears
  <1>7. Hears(w, q, en)
    BY <1>3, <1>4, <1>6 DEF Hears
  <1>8. QED
    BY <1>1, <1>2, <1>7 DEF Speech!Silenced

\* Replies are only added.
LEMMA VoiceReplies ==
    ASSUME NEW v, NEW q, NEW en, Hears(v, q, en), NEW p \in [Rooms -> Nat], q \in [Rooms -> Nat],
           \A k \in Rooms : q[k] <= p[k]
    PROVE  Hears(v, p, en)
  <1>1. v.room \in Rooms
    BY DEF Hears, Voices
  <1>2. \A k \in Rooms : q[k] \in Nat /\ p[k] \in Nat
    OBVIOUS
  <1>3. \A k \in Rooms, i \in Nat : <<k, i>> \in v.spoken => 1 <= i /\ i <= p[k]
    BY <1>2 DEF Hears
  <1>4. \E m \in 0 .. p[v.room] :
         /\ v.known = {<<v.room, i>> : i \in 1 .. m}
         /\ \A i \in Nat : <<v.room, i>> \in v.spoken => i <= m
    <2>1. PICK m \in 0 .. q[v.room] :
            /\ v.known = {<<v.room, i>> : i \in 1 .. m}
            /\ \A i \in Nat : <<v.room, i>> \in v.spoken => i <= m
      BY DEF Hears
    <2>2. m \in 0 .. p[v.room]
      BY <1>1, <1>2
    <2>3. QED
      BY <2>1, <2>2
  <1>5. QED
    BY <1>3, <1>4 DEF Hears

LEMMA VoiceSwitches ==
    ASSUME NEW v, NEW q \in [Rooms -> Nat], NEW en, Hears(v, q, en), NEW k \in Rooms,
           NEW w, w = [v EXCEPT !.room = k, !.known = {<<k, i>> : i \in 1 .. q[k]}]
    PROVE  Hears(w, q, en)
  <1>0. q[k] \in Nat
    OBVIOUS
  <1>1. PICK S \in SUBSET (Rooms \X Nat) : S = {<<k, i>> : i \in 1 .. q[k]}
    <2>1. \A i \in 1 .. q[k] : <<k, i>> \in Rooms \X Nat
      BY <1>0
    <2>2. QED
      BY <2>1
  <1>2. w = [v EXCEPT !.room = k, !.known = S]
    BY <1>1
  <1>3. w \in Voices
    BY <1>2 DEF Hears, Voices
  <1>4. /\ w.token = v.token /\ w.speaking = v.speaking /\ w.room = k /\ w.known = S
        /\ w.spoken = v.spoken /\ w.twice = v.twice
    BY <1>2 DEF Hears, Voices
  <1>5. q[k] \in 0 .. q[k] /\ \A i \in Nat : <<k, i>> \in w.spoken => i <= q[k]
    BY <1>4 DEF Hears
  <1>6. \E m \in 0 .. q[w.room] :
         /\ w.known = {<<w.room, i>> : i \in 1 .. m}
         /\ \A i \in Nat : <<w.room, i>> \in w.spoken => i <= m
    BY <1>1, <1>4, <1>5
  <1>7. QED
    BY <1>3, <1>4, <1>6 DEF Hears
\* The replies of the room that is open: learned, and the last one read aloud when it can
\* be, which was not known and so never read.
LEMMA VoiceUpdates ==
    ASSUME NEW v, replies' \in [Rooms -> Nat], NEW en, en = ends, Hears(v, replies', en),
           NEW k \in Rooms, Speech!Updated(v, k)
    PROVE  Hears(voice', replies', ends')
  <1> DEFINE fresh == Speech!IdsOf(k) \ v.known
  <1>0. v \in Voices /\ v.room \in Rooms /\ v.token \in Nat /\ replies'[k] \in Nat
    BY DEF Hears, Voices
  <1>1. Speech!IdsOf(k) = {<<k, i>> : i \in 1 .. replies'[k]}
    BY DEF Speech!IdsOf
  <1>2. CASE k # v.room
    <2>1. PICK u : u = Speech!Silenced(v)
      OBVIOUS
    <2>2. Hears(u, replies', en)
      BY <2>1, VoiceSilenced
    <2>3. voice' = [u EXCEPT !.room = k, !.known = {<<k, i>> : i \in 1 .. replies'[k]}] /\ ends' = ends
      BY <1>1, <1>2, <2>1 DEF Speech!Updated
    <2>4. QED
      BY <2>2, <2>3, VoiceSwitches
  <1>3. CASE k = v.room
    <2>1. PICK S \in SUBSET (Rooms \X Nat) : S = {<<k, i>> : i \in 1 .. replies'[k]}
      <3>1. \A i \in 1 .. replies'[k] : <<k, i>> \in Rooms \X Nat
        BY <1>0
      <3>2. QED
        BY <3>1
    <2>2. PICK m \in 0 .. replies'[k] :
            /\ v.known = {<<k, i>> : i \in 1 .. m}
            /\ \A i \in Nat : <<k, i>> \in v.spoken => i <= m
      BY <1>3 DEF Hears
    <2>3. v.known \subseteq S /\ v.known \cup fresh = S
      <3>1. m \in Nat /\ m <= replies'[k]
        BY <1>0, <2>2
      <3>2. v.known \subseteq S
        BY <1>0, <2>1, <2>2, <3>1
      <3>3. QED
        BY <1>1, <2>1, <3>2
    <2>4. PICK w : w = [v EXCEPT !.known = S]
      OBVIOUS
    <2>5. w \in Voices
      BY <1>0, <2>4 DEF Voices
    <2>6. /\ w.token = v.token /\ w.speaking = v.speaking /\ w.room = k /\ w.known = S
          /\ w.spoken = v.spoken /\ w.twice = v.twice /\ w.on = v.on /\ w.visible = v.visible
      BY <1>0, <1>3, <2>4 DEF Voices
    <2>7. Hears(w, replies', en)
      <3>1. \A i \in Nat : <<k, i>> \in w.spoken => i <= replies'[k]
        BY <2>6 DEF Hears
      <3>2. replies'[k] \in 0 .. replies'[k]
        BY <1>0
      <3>3. \E j \in 0 .. replies'[w.room] :
              /\ w.known = {<<w.room, i>> : i \in 1 .. j}
              /\ \A i \in Nat : <<w.room, i>> \in w.spoken => i <= j
        BY <2>1, <2>6, <3>1, <3>2
      <3>4. QED
        BY <2>5, <2>6, <3>3 DEF Hears
    <2>8. CASE fresh # {} /\ Speech!CanSpeak(v)
      <3>1. PICK x : x = Speech!Silenced(w)
        OBVIOUS
      <3>2. Hears(x, replies', en)
        BY <2>7, <3>1, VoiceSilenced
      <3>3. x \in Voices /\ x.token \in Nat
        BY <3>2 DEF Hears, Voices
      <3>4. PICK n \in Nat : n = x.token + 1
        BY <3>3
      <3>5. x.known = S /\ x.spoken = v.spoken /\ x.room = k /\ ~x.twice
        <4>1. x = [w EXCEPT !.token = @ + 1, !.speaking = FALSE]
          BY <3>1 DEF Speech!Silenced
        <4>2. x.known = w.known /\ x.spoken = w.spoken /\ x.room = w.room
          BY <2>5, <4>1 DEF Voices
        <4>3. QED
          BY <2>6, <4>2, <3>2 DEF Hears
      <3>6. PICK new : new = Speech!Newest(k)
        OBVIOUS
      <3>7. new = <<k, replies'[k]>>
        BY <3>6 DEF Speech!Newest
      <3>8. m < replies'[k]
        <4>1. S # v.known
          BY <2>3, <2>8
        <4>2. m # replies'[k]
          BY <4>1, <2>1, <2>2
        <4>3. QED
          BY <4>2, <2>2, <1>0
      <3>9. new \notin x.spoken
        BY <1>0, <2>2, <3>5, <3>7, <3>8
      <3>10. PICK T \in SUBSET (Rooms \X Nat) : T = x.spoken \cup {new}
        <4>1. x.spoken \subseteq Rooms \X Nat
          BY <3>3 DEF Voices
        <4>2. new \in Rooms \X Nat
          BY <3>7, <1>0
        <4>3. QED
          BY <4>1, <4>2
      <3>11. PICK y : y = [x EXCEPT !.token = n, !.speaking = TRUE, !.twice = FALSE, !.spoken = T]
        OBVIOUS
      <3>12. voice' = y /\ ends' = ends \cup {n}
        <4>1. [v EXCEPT !.known = @ \cup fresh] = w
          BY <2>3, <2>4
        <4>2. /\ voice' = [x EXCEPT !.token = @ + 1, !.speaking = TRUE, !.twice = @ \/ new \in x.spoken,
                                    !.spoken = @ \cup {new}]
              /\ ends' = ends \cup {x.token + 1}
          <5>1. x.spoken = v.spoken
            BY <3>5
          <5>2. /\ voice' = [Speech!Silenced([v EXCEPT !.known = @ \cup fresh]) EXCEPT
                               !.token = @ + 1, !.speaking = TRUE,
                               !.twice = @ \/ Speech!Newest(k) \in v.spoken,
                               !.spoken = @ \cup {Speech!Newest(k)}]
                /\ ends' = ends \cup {Speech!Silenced([v EXCEPT !.known = @ \cup fresh]).token + 1}
            BY <1>3, <2>8 DEF Speech!Updated
          <5>3. QED
            BY <4>1, <5>1, <5>2, <3>1, <3>6
        <4>3. (x.twice \/ new \in x.spoken) = FALSE
          BY <3>5, <3>9
        <4>4. QED
          BY <4>2, <4>3, <3>4, <3>10, <3>11
      <3>13. y \in Voices
        BY <3>3, <3>10, <3>11 DEF Voices
      <3>14. /\ y.token = n /\ y.speaking = TRUE /\ y.room = k /\ y.known = S /\ y.spoken = T
             /\ y.twice = FALSE
        BY <3>3, <3>5, <3>11 DEF Voices
      <3>15. \A j \in Rooms, i \in Nat : <<j, i>> \in y.spoken => 1 <= i /\ i <= replies'[j]
        <4>1. TAKE j \in Rooms, i \in Nat
        <4>2. HAVE <<j, i>> \in y.spoken
        <4>3. CASE <<j, i>> = new
          <5>1. i = replies'[k] /\ j = k
            BY <4>3, <3>7
          <5>2. QED
            BY <5>1, <3>8, <2>2, <1>0
        <4>4. CASE <<j, i>> \in x.spoken
          BY <4>4, <3>2 DEF Hears
        <4>5. QED
          BY <4>2, <4>3, <4>4, <3>10, <3>14
      <3>16. \E j \in 0 .. replies'[y.room] :
              /\ y.known = {<<y.room, i>> : i \in 1 .. j}
              /\ \A i \in Nat : <<y.room, i>> \in y.spoken => i <= j
        <4>1. replies'[k] \in 0 .. replies'[k]
          BY <1>0
        <4>2. \A i \in Nat : <<k, i>> \in y.spoken => i <= replies'[k]
          BY <3>15
        <4>3. QED
          BY <4>1, <4>2, <3>14, <2>1
      <3>17. n \in en \cup {n} /\ en \cup {n} \subseteq 0 .. n
        BY <3>2, <3>3, <3>4 DEF Hears
      <3>18. QED
        BY <3>12, <3>13, <3>14, <3>15, <3>16, <3>17 DEF Hears
    <2>9. CASE ~(fresh # {} /\ Speech!CanSpeak(v))
      <3>1. voice' = [v EXCEPT !.known = @ \cup fresh] /\ ends' = ends
        BY <1>3, <2>9 DEF Speech!Updated
      <3>2. voice' = w
        BY <3>1, <2>3, <2>4
      <3>3. QED
        BY <3>1, <3>2, <2>7
    <2>10. QED
      BY <2>8, <2>9
  <1>4. QED
    BY <1>2, <1>3
LEMMA VoiceHearsReplies ==
    ASSUME VoiceInv, Speech!ReplyComes
    PROVE  VoiceInv'
  <1>1. PICK k \in Rooms, n \in 0 .. 2, other \in 0 .. 1 :
          /\ replies' = [q \in Rooms |->
                           LET more == replies[q] + (IF q = k THEN n ELSE other) IN
                           IF more > MaxSays THEN replies[q] ELSE more]
          /\ Speech!Updated(voice, k)
    BY Zenon DEF Speech!ReplyComes
  <1>2. replies \in [Rooms -> Nat]
    BY DEF VoiceInv
  <1>3. replies' \in [Rooms -> Nat] /\ \A q \in Rooms : replies[q] <= replies'[q]
    BY <1>1, <1>2
  <1>4. Hears(voice, replies, ends)
    BY DEF VoiceInv
  <1>5. Hears(voice, replies', ends)
    BY <1>2, <1>3, <1>4, VoiceReplies
  <1>6. Hears(voice', replies', ends')
    BY <1>1, <1>3, <1>5, VoiceUpdates
  <1>7. QED
    BY <1>3, <1>6 DEF VoiceInv

LEMMA VoiceEnds ==
    ASSUME VoiceInv, Speech!UtteranceEnds
    PROVE  VoiceInv'
  <1>1. PICK t \in ends :
          /\ ends' = ends \ {t}
          /\ voice' = IF t = voice.token /\ voice.speaking THEN [voice EXCEPT !.speaking = FALSE]
                      ELSE voice
          /\ UNCHANGED replies
    BY DEF Speech!UtteranceEnds, Speech!Finishes
  <1>2. Hears(voice, replies, ends)
    BY DEF VoiceInv
  <1>3. CASE t = voice.token /\ voice.speaking
    <2>1. PICK w : w = [voice EXCEPT !.speaking = FALSE]
      OBVIOUS
    <2>2. w \in Voices
      BY <1>2, <2>1 DEF Hears, Voices
    <2>3. /\ w.token = voice.token /\ w.speaking = FALSE /\ w.room = voice.room
          /\ w.known = voice.known /\ w.spoken = voice.spoken /\ w.twice = voice.twice
      BY <1>2, <2>1 DEF Hears, Voices
    <2>4. Hears(w, replies, ends \ {t})
      BY <1>2, <1>3, <2>2, <2>3 DEF Hears
    <2>5. QED
      BY <1>1, <1>3, <2>1, <2>4 DEF VoiceInv
  <1>4. CASE ~(t = voice.token /\ voice.speaking)
    <2>1. t # voice.token
      BY <1>2, <1>4 DEF Hears
    <2>2. Hears(voice, replies, ends \ {t})
      BY <1>2, <2>1 DEF Hears
    <2>3. voice' = voice
      BY <1>1, <1>4
    <2>4. QED
      BY <1>1, <2>2, <2>3 DEF VoiceInv
  <1>5. QED
    BY <1>3, <1>4

LEMMA VoiceChanged ==
    ASSUME VoiceInv, Speech!VoiceChanges
    PROVE  VoiceInv'
  <1>1. UNCHANGED <<ends, replies>> /\ Hears(voice, replies, ends)
    BY DEF VoiceInv, Speech!VoiceChanges
  <1>2. \A b \in BOOLEAN : /\ Hears([voice EXCEPT !.on = b], replies, ends)
                           /\ Hears([voice EXCEPT !.visible = b], replies, ends)
    <2>1. TAKE b \in BOOLEAN
    <2>2. ASSUME NEW w, w \in {[voice EXCEPT !.on = b], [voice EXCEPT !.visible = b]}
          PROVE  Hears(w, replies, ends)
      <3>1. w \in Voices
        BY <1>1, <2>2 DEF Hears, Voices
      <3>2. /\ w.token = voice.token /\ w.speaking = voice.speaking /\ w.room = voice.room
            /\ w.known = voice.known /\ w.spoken = voice.spoken /\ w.twice = voice.twice
        BY <1>1, <2>2 DEF Hears, Voices
      <3>3. QED
        BY <1>1, <3>1, <3>2 DEF Hears
    <2>3. QED
      BY <2>2
  <1>3. CASE voice' = Speech!Silenced(voice)
    BY <1>1, <1>3, VoiceSilenced DEF VoiceInv
  <1>4. CASE voice' = [voice EXCEPT !.visible = ~@]
    <2>1. PICK b \in BOOLEAN : b = ~voice.visible
      BY <1>1 DEF Hears, Voices
    <2>2. QED
      BY <1>1, <1>2, <1>4, <2>1 DEF VoiceInv
  <1>5. CASE \E b \in BOOLEAN :
               LET v == [voice EXCEPT !.on = b] IN
               voice' = IF Speech!CanSpeak(v) THEN v ELSE Speech!Silenced(v)
    <2>1. PICK b, v : /\ b \in BOOLEAN /\ v = [voice EXCEPT !.on = b]
                      /\ voice' = v \/ voice' = Speech!Silenced(v)
      BY <1>5
    <2>2. Hears(v, replies, ends)
      BY <1>2, <2>1
    <2>3. Hears(Speech!Silenced(v), replies, ends)
      BY <2>2, VoiceSilenced
    <2>4. QED
      BY <1>1, <2>1, <2>2, <2>3 DEF VoiceInv
  <1>6. QED
    BY <1>3, <1>4, <1>5 DEF Speech!VoiceChanges

LEMMA SpeechGoesOn ==
    ASSUME MicInv, VoiceInv, Speech!SpeechNext
    PROVE  MicInv' /\ VoiceInv'
  <1>1. CASE Speech!ReplyComes \/ Speech!UtteranceEnds \/ Speech!VoiceChanges
    <2>1. UNCHANGED <<mic, starts, stops, flights, drafted, cancelled>>
      BY <1>1 DEF Speech!ReplyComes, Speech!UtteranceEnds, Speech!VoiceChanges, Speech!micVars
    <2>2. MicInv'
      BY <2>1 DEF MicInv
    <2>3. QED
      BY <1>1, <2>2, VoiceHearsReplies, VoiceEnds, VoiceChanged
  <1>2. CASE ~(Speech!ReplyComes \/ Speech!UtteranceEnds \/ Speech!VoiceChanges)
    <2>1. UNCHANGED <<voice, ends, replies>>
      BY <1>2 DEF Speech!SpeechNext, Speech!Granted, Speech!ModuleLoads, Speech!StartFails,
         Speech!Flushes, Speech!GraphClosed, Speech!TranscriptArrives, Speech!Presses,
         Speech!Releases, Speech!CallsOff, Speech!ChoosesMode, Speech!voiceVars
    <2>2. VoiceInv'
      BY <2>1 DEF VoiceInv
    <2>3. QED
      BY <1>2, <2>2, MicStarts, MicFlushes, MicClosed, MicTranscribes, MicPresses, MicReleases,
         MicChoosesMode DEF Speech!SpeechNext
  <1>3. QED
    BY <1>1, <1>2

LEMMA SpeechFollows ==
    ASSUME MicInv, VoiceInv
    PROVE  Speech!TranscriptIsWanted /\ Speech!VoiceIsTrue
  BY DEF MicInv, MicFits, VoiceInv, Hears, Speech!TranscriptIsWanted, Speech!VoiceIsTrue

-----------------------------------------------------------------------------
(* Goals: a revision stands for one goal and one focus.                     *)

GoalShape(g) ==
    /\ g = [status |-> g.status, prior |-> g.prior, target |-> g.target, count |-> g.count,
            words |-> g.words]
    /\ g.status # "deleted" => g.prior = "open"

\* What one action of the menus makes of a goal and a focus.
ActionAfter(b, a) ==
    Goal!AfterOne([goal |-> b.goal, focus |-> b.focus, ok |-> TRUE],
                  Goal!ActionOperations(a, b.focus)[1])

\* s is still at revision r.
Unchanged(s, r, b) == r = s.revision => s.goal = b.goal /\ s.focus = b.focus

EditFits(s, c) == c.revision = s.revision => s.goal = c.before

ActionFits(s, c) ==
    /\ c.action \in Goal!Offers(c.before.goal)
    /\ c.ops = Goal!ActionOperations(c.action, c.before.focus)
    /\ GoalShape(c.before.goal) /\ Unchanged(s, c.revision, c.before)

UndoFits(s, u) ==
    /\ u.revision \in Nat /\ u.revision <= s.revision
    /\ u.of \in Goal!Offers(u.before.goal) /\ GoalShape(u.before.goal)
    /\ u.ops = Goal!UndoOperations(u.before.goal, u.of, u.before.focus) /\ u.ops # << >>
    /\ u.revision = s.revision =>
         /\ s.goal = ActionAfter(u.before, u.of).goal
         /\ s.focus = ActionAfter(u.before, u.of).focus

OrderFits(s, c) ==
    c # Goal!NoOrder =>
      /\ c.revision \in Nat /\ c.revision <= s.revision
      /\ c.by = "editor" => EditFits(s, c)
      /\ c.by # "editor" =>
           /\ c.by \in Goal!Surfaces
           /\ IF c.action = "undo" THEN UndoFits(s, c) ELSE ActionFits(s, c)

DraftFits(s, d) ==
    d # Goal!NoDraft =>
      /\ d = [open |-> d.open, shown |-> d.shown, task |-> d.task, values |-> d.values,
              revision |-> d.revision, room |-> d.room, saving |-> d.saving,
              conflict |-> d.conflict, kept |-> d.kept]
      /\ d.revision \in Nat /\ d.revision <= s.revision
      /\ d.revision = s.revision => s.goal = d.task

TaskShape(s) ==
    /\ s = [goal |-> s.goal, focus |-> s.focus, revision |-> s.revision, room |-> s.room]
    /\ s.revision \in Nat /\ GoalShape(s.goal)

GoalInv ==
    /\ TaskShape(tasks) /\ TaskShape(goals)
    /\ goals.revision <= tasks.revision /\ Unchanged(tasks, goals.revision, goals)
    /\ DraftFits(tasks, drafts) /\ OrderFits(tasks, order)
    /\ DOMAIN undos = Goal!Surfaces
    /\ \A s \in Goal!Surfaces : undos[s] # Goal!NoUndo => UndoFits(tasks, undos[s])

LEMMA GoalBegins ==
    ASSUME Goal!GoalsInit
    PROVE  GoalInv
  <1>1. PICK t \in 0 .. MaxCount, r \in {CHOOSE q \in GoalRooms : TRUE}, f \in Goal!Foci :
          tasks = [goal |-> [status |-> "open", prior |-> "open", target |-> t, count |-> 0,
                             words |-> "w0"],
                   focus |-> f, revision |-> 0, room |-> r]
    BY Zenon DEF Goal!GoalsInit
  <1>2. TaskShape(tasks)
    BY <1>1 DEF TaskShape, GoalShape
  <1>3. /\ goals = tasks /\ drafts = Goal!NoDraft /\ order = Goal!NoOrder
        /\ undos = [s \in Goal!Surfaces |-> Goal!NoUndo]
    BY DEF Goal!GoalsInit
  <1>4. QED
    BY <1>2, <1>3 DEF GoalInv, TaskShape, Unchanged, DraftFits, OrderFits

LEMMA GoalShapeKept ==
    ASSUME NEW g, GoalShape(g), NEW o, Goal!Permitted(g, o)
    PROVE  GoalShape(Goal!GoalAfter(g, o))
  <1>1. CASE o.op \in {"complete", "cancel", "reopen"}
    <2>1. Goal!GoalAfter(g, o) =
            [g EXCEPT !.status = Goal!StatusAfter[o.op],
                      !.count = IF o.op = "complete" /\ g.target # 0 THEN g.target ELSE g.count]
      BY <1>1 DEF Goal!GoalAfter, Goal!StatusAfter
    <2>2. g.status # "deleted"
      BY <1>1 DEF Goal!Permitted
    <2>3. QED
      BY <2>1, <2>2 DEF GoalShape
  <1>2. CASE o.op \in {"delete", "restore", "progress", "edit"}
    BY <1>2 DEF Goal!GoalAfter, Goal!StatusAfter, Goal!Permitted, GoalShape
  <1>3. CASE o.op \notin {"complete", "cancel", "reopen", "delete", "restore", "progress", "edit"}
    BY <1>3 DEF Goal!GoalAfter, Goal!StatusAfter
  <1>4. QED
    BY <1>1, <1>2, <1>3
Begun(s) == [goal |-> s.goal, focus |-> s.focus, ok |-> TRUE]
NextOne(acc, ops, i) == IF i <= Len(ops) THEN Goal!AfterOne(acc, ops[i]) ELSE acc

LEMMA BatchInSteps ==
    ASSUME NEW s, NEW ops
    PROVE  Goal!Batch(s, ops) = NextOne(NextOne(NextOne(Begun(s), ops, 1), ops, 2), ops, 3)
  BY Zenon DEF Goal!Batch, NextOne, Begun

LEMMA OneKeepsShape ==
    ASSUME NEW acc, acc.ok => GoalShape(acc.goal), NEW ops, NEW i,
           NextOne(acc, ops, i).ok
    PROVE  GoalShape(NextOne(acc, ops, i).goal) /\ acc.ok
  <1>1. CASE i <= Len(ops)
    <2>1. NextOne(acc, ops, i) = Goal!AfterOne(acc, ops[i])
      BY <1>1 DEF NextOne
    <2>2. /\ Goal!AfterOne(acc, ops[i]).goal = Goal!GoalAfter(acc.goal, ops[i])
          /\ Goal!AfterOne(acc, ops[i]).ok = (acc.ok /\ Goal!Permitted(acc.goal, ops[i]))
      BY Zenon DEF Goal!AfterOne
    <2>3. acc.ok /\ Goal!Permitted(acc.goal, ops[i])
      BY <2>1, <2>2
    <2>4. QED
      BY <2>1, <2>2, <2>3, GoalShapeKept
  <1>2. CASE ~(i <= Len(ops))
    BY <1>2 DEF NextOne
  <1>3. QED
    BY <1>1, <1>2

LEMMA BatchKeepsShape ==
    ASSUME NEW s, GoalShape(s.goal), NEW ops, Goal!Batch(s, ops).ok
    PROVE  GoalShape(Goal!Batch(s, ops).goal)
  <1>0. Begun(s).goal = s.goal
    BY DEF Begun
  <1>1. PICK x : x = NextOne(Begun(s), ops, 1)
    OBVIOUS
  <1>2. PICK y : y = NextOne(x, ops, 2)
    OBVIOUS
  <1>3. Goal!Batch(s, ops) = NextOne(y, ops, 3)
    BY <1>1, <1>2, BatchInSteps
  <1>4. x.ok => GoalShape(x.goal)
    BY <1>0, <1>1, OneKeepsShape
  <1>5. y.ok => GoalShape(y.goal)
    BY <1>2, <1>4, OneKeepsShape
  <1>6. QED
    BY <1>3, <1>5, OneKeepsShape

LEMMA ShortBatches ==
    ASSUME NEW s, NEW ops
    PROVE  /\ Len(ops) = 1 => Goal!Batch(s, ops) = Goal!AfterOne(Begun(s), ops[1])
           /\ Len(ops) = 2 =>
                Goal!Batch(s, ops) = Goal!AfterOne(Goal!AfterOne(Begun(s), ops[1]), ops[2])
           /\ Len(ops) = 3 =>
                Goal!Batch(s, ops) =
                  Goal!AfterOne(Goal!AfterOne(Goal!AfterOne(Begun(s), ops[1]), ops[2]), ops[3])
  <1>1. CASE Len(ops) = 1
    <2>1. \A acc : /\ NextOne(acc, ops, 1) = Goal!AfterOne(acc, ops[1])
                   /\ NextOne(acc, ops, 2) = acc /\ NextOne(acc, ops, 3) = acc
      BY <1>1 DEF NextOne
    <2>2. QED
      BY <1>1, <2>1, BatchInSteps
  <1>2. CASE Len(ops) = 2
    <2>1. \A acc : /\ NextOne(acc, ops, 1) = Goal!AfterOne(acc, ops[1])
                   /\ NextOne(acc, ops, 2) = Goal!AfterOne(acc, ops[2])
                   /\ NextOne(acc, ops, 3) = acc
      BY <1>2 DEF NextOne
    <2>2. QED
      BY <1>2, <2>1, BatchInSteps
  <1>3. CASE Len(ops) = 3
    <2>1. \A acc : /\ NextOne(acc, ops, 1) = Goal!AfterOne(acc, ops[1])
                   /\ NextOne(acc, ops, 2) = Goal!AfterOne(acc, ops[2])
                   /\ NextOne(acc, ops, 3) = Goal!AfterOne(acc, ops[3])
      BY <1>3 DEF NextOne
    <2>2. QED
      BY <1>3, <2>1, BatchInSteps
  <1>4. QED
    BY <1>1, <1>2, <1>3

\* An operation, then x, then y, each of which has one operation at the most.
LEMMA Joined ==
    ASSUME NEW S, NEW a \in S, NEW x \in Seq(S), NEW y \in Seq(S), Len(x) <= 1, Len(y) <= 1
    PROVE  /\ <<a>> \o x \in Seq(S) /\ Len(<<a>> \o x) = 1 + Len(x) /\ (<<a>> \o x)[1] = a
           /\ Len(x) = 1 => (<<a>> \o x)[2] = x[1]
           /\ Len((<<a>> \o x) \o y) = 1 + Len(x) + Len(y) /\ ((<<a>> \o x) \o y)[1] = a
           /\ Len(x) = 1 => ((<<a>> \o x) \o y)[2] = x[1]
           /\ Len(y) = 1 => ((<<a>> \o x) \o y)[2 + Len(x)] = y[1]
  <1>1. <<a>> \in Seq(S) /\ Len(<<a>>) = 1 /\ <<a>>[1] = a
    OBVIOUS
  <1>2. PICK z : z = <<a>> \o x
    OBVIOUS
  <1>3. /\ z \in Seq(S) /\ Len(z) = 1 + Len(x)
        /\ \A i \in 1 .. 1 + Len(x) : z[i] = IF i <= 1 THEN <<a>>[i] ELSE x[i - 1]
    BY <1>1, <1>2, ConcatProperties
  <1>4. Len(x) \in Nat /\ Len(y) \in Nat
    OBVIOUS
  <1>5. z[1] = a /\ (Len(x) = 1 => z[2] = x[1])
    BY <1>1, <1>3, <1>4
  <1>6. PICK w : w = z \o y
    OBVIOUS
  <1>7. /\ Len(w) = Len(z) + Len(y)
        /\ \A i \in 1 .. Len(z) + Len(y) : w[i] = IF i <= Len(z) THEN z[i] ELSE y[i - Len(z)]
    BY <1>3, <1>6, ConcatProperties
  <1>8. w[1] = a /\ (Len(x) = 1 => w[2] = x[1]) /\ (Len(y) = 1 => w[2 + Len(x)] = y[1])
    BY <1>3, <1>4, <1>5, <1>7
  <1>9. QED
    BY <1>2, <1>3, <1>4, <1>5, <1>6, <1>7, <1>8

\* One operation after another, field by field.
LEMMA OneIs ==
    ASSUME NEW acc, NEW o
    PROVE  /\ Goal!AfterOne(acc, o).goal = Goal!GoalAfter(acc.goal, o)
           /\ Goal!AfterOne(acc, o).focus = Goal!FocusAfter(acc.goal, acc.focus, o)
           /\ Goal!AfterOne(acc, o).ok = (acc.ok /\ Goal!Permitted(acc.goal, o))
           /\ Begun(acc).goal = acc.goal /\ Begun(acc).focus = acc.focus /\ Begun(acc).ok
  BY Zenon DEF Goal!AfterOne, Begun
\* Undo after the action it belongs to, as long as nothing else was changed.
LEMMA UndoingIsExact ==
    ASSUME NEW b, GoalShape(b.goal), NEW a \in Goal!Offers(b.goal), a \notin {"reopen", "restore"},
           NEW s, s.goal = ActionAfter(b, a).goal, s.focus = ActionAfter(b, a).focus,
           NEW ops, ops = Goal!UndoOperations(b.goal, a, b.focus), Goal!Batch(s, ops).ok
    PROVE  Goal!Batch(s, ops).goal = b.goal /\ Goal!Batch(s, ops).focus = b.focus
  <1> DEFINE Here == Goal!Focus("here")
             Count == Goal!Progress(b.goal.count)
             refocus == IF b.focus = "here" THEN <<Here>> ELSE << >>
             recount == IF b.goal.target # 0 THEN <<Count>> ELSE << >>
             S == {Goal!Op("reopen"), Goal!Op("restore"), Count, Here}
  <1>0. Begun(s).goal = s.goal /\ Begun(s).focus = s.focus
    BY OneIs
  <1>1. PICK acc : acc = Begun(s)
    OBVIOUS
  <1>2. /\ refocus \in Seq(S) /\ Len(refocus) = IF b.focus = "here" THEN 1 ELSE 0
        /\ b.focus = "here" => refocus[1] = Here
    <2>1. <<Here>> \in Seq(S) /\ Len(<<Here>>) = 1 /\ <<Here>>[1] = Here
      OBVIOUS
    <2>2. << >> \in Seq(S) /\ Len(<< >>) = 0
      OBVIOUS
    <2> HIDE DEF S, Here
    <2>3. CASE b.focus = "here"
      BY <2>1, <2>3
    <2>4. CASE b.focus # "here"
      BY <2>2, <2>4
    <2>5. QED
      BY <2>3, <2>4
  <1>3. /\ recount \in Seq(S) /\ Len(recount) = IF b.goal.target # 0 THEN 1 ELSE 0
        /\ b.goal.target # 0 => recount[1] = Count
    <2>1. <<Count>> \in Seq(S) /\ Len(<<Count>>) = 1 /\ <<Count>>[1] = Count
      OBVIOUS
    <2>2. << >> \in Seq(S) /\ Len(<< >>) = 0
      OBVIOUS
    <2> HIDE DEF S, Count
    <2>3. CASE b.goal.target # 0
      BY <2>1, <2>3
    <2>4. CASE b.goal.target = 0
      BY <2>2, <2>4
    <2>5. QED
      BY <2>3, <2>4
  <1>4. Len(refocus) \in 0 .. 1 /\ Len(recount) \in 0 .. 1
    BY <1>2, <1>3
  <1>5. PICK o : o = Goal!ActionOperations(a, b.focus)[1]
    OBVIOUS
  <1>6. /\ s.goal = Goal!GoalAfter(b.goal, o) /\ s.focus = Goal!FocusAfter(b.goal, b.focus, o)
        /\ o = IF a = "focus" THEN Goal!Focus(IF b.focus = "here" THEN "none" ELSE "here")
                              ELSE Goal!Op(a)
    <2>1. o = IF a = "focus" THEN Goal!Focus(IF b.focus = "here" THEN "none" ELSE "here")
                              ELSE Goal!Op(a)
      BY <1>5 DEF Goal!ActionOperations
    <2>2. PICK c : c = [goal |-> b.goal, focus |-> b.focus, ok |-> TRUE]
      OBVIOUS
    <2>3. s.goal = Goal!AfterOne(c, o).goal /\ s.focus = Goal!AfterOne(c, o).focus
          /\ c.goal = b.goal /\ c.focus = b.focus
      BY <1>5, <2>2 DEF ActionAfter
    <2>4. QED
      BY <2>1, <2>3, OneIs
  <1>7. CASE a = "delete"
    <2>1. ops = <<Goal!Op("restore")>> \o refocus
      BY <1>7 DEF Goal!UndoOperations
    <2>2. b.goal.status # "deleted" /\ b.goal.prior = "open"
      BY <1>7 DEF Goal!Offers, GoalShape
    <2>3. s.goal = [b.goal EXCEPT !.status = "deleted", !.prior = b.goal.status]
          /\ s.focus = IF b.focus = "here" THEN "none" ELSE b.focus
      BY <1>6, <1>7, <2>2 DEF Goal!GoalAfter, Goal!FocusAfter, Goal!Op, Goal!StatusAfter
    <2>4. PICK g : g = Goal!GoalAfter(s.goal, Goal!Op("restore"))
      OBVIOUS
    <2>5. g = b.goal
      <3>1. g = [s.goal EXCEPT !.status = s.goal.prior, !.prior = "open"]
        BY <2>4 DEF Goal!GoalAfter, Goal!Op, Goal!StatusAfter
      <3>2. PICK st, t, n, w : b.goal = [status |-> st, prior |-> "open", target |-> t,
                                         count |-> n, words |-> w]
        BY <2>2 DEF GoalShape
      <3>3. PICK x, y : x = b.goal /\ y = s.goal
        OBVIOUS
      <3>4. x = [status |-> st, prior |-> "open", target |-> t, count |-> n, words |-> w]
        BY <3>2, <3>3
      <3>5. y = [x EXCEPT !.status = "deleted", !.prior = st]
        BY <2>3, <3>3, <3>4
      <3>6. y = [status |-> "deleted", prior |-> st, target |-> t, count |-> n, words |-> w]
        BY <3>4, <3>5
      <3>7. g = [y EXCEPT !.status = st, !.prior = "open"]
        BY <3>1, <3>3, <3>6
      <3>8. g = [status |-> st, prior |-> "open", target |-> t, count |-> n, words |-> w]
        BY <3>6, <3>7
      <3>9. QED
        BY <3>3, <3>4, <3>8
    <2>6. Goal!FocusAfter(s.goal, s.focus, Goal!Op("restore")) = s.focus
      BY DEF Goal!FocusAfter, Goal!Op
    <2>7. CASE b.focus = "here"
      <3>1. Len(ops) = 2 /\ ops[1] = Goal!Op("restore") /\ ops[2] = Here
        BY <1>2, <1>4, <2>1, <2>7, Joined
      <3>2. Goal!Batch(s, ops) =
              Goal!AfterOne(Goal!AfterOne(acc, Goal!Op("restore")), Here)
        BY <1>1, <3>1, ShortBatches
      <3>3. PICK c : c = Goal!AfterOne(acc, Goal!Op("restore"))
        OBVIOUS
      <3>4. c.goal = g
        BY <1>0, <1>1, <2>4, <3>3, OneIs
      <3>5. /\ Goal!Batch(s, ops).goal = Goal!GoalAfter(g, Here)
            /\ Goal!Batch(s, ops).focus = Goal!FocusAfter(g, c.focus, Here)
        BY <3>2, <3>3, <3>4, OneIs
      <3>6. QED
        BY <2>5, <2>7, <3>5 DEF Goal!GoalAfter, Goal!FocusAfter, Goal!Focus, Goal!StatusAfter
    <2>8. CASE b.focus # "here"
      <3>1. Len(ops) = 1 /\ ops[1] = Goal!Op("restore")
        BY <1>2, <1>4, <2>1, <2>8, Joined
      <3>2. Goal!Batch(s, ops) = Goal!AfterOne(acc, Goal!Op("restore"))
        BY <1>1, <3>1, ShortBatches
      <3>3. Goal!Batch(s, ops).goal = g /\ Goal!Batch(s, ops).focus = s.focus
        BY <1>0, <1>1, <2>4, <2>6, <3>2, OneIs
      <3>4. QED
        BY <2>3, <2>5, <2>8, <3>3
    <2>9. QED
      BY <2>7, <2>8
  <1>8. CASE a = "focus"
    <2>1. ops = <<Goal!Focus(b.focus)>>
      BY <1>8 DEF Goal!UndoOperations
    <2>2. Len(ops) = 1 /\ ops[1] = Goal!Focus(b.focus)
      BY <2>1
    <2>3. Goal!Batch(s, ops) = Goal!AfterOne(acc, Goal!Focus(b.focus))
      BY <1>1, <2>2, ShortBatches
    <2>4. /\ Goal!Batch(s, ops).goal = Goal!GoalAfter(s.goal, Goal!Focus(b.focus))
          /\ Goal!Batch(s, ops).focus = Goal!FocusAfter(s.goal, s.focus, Goal!Focus(b.focus))
      BY <1>0, <1>1, <2>3, OneIs
    <2>5. s.goal = b.goal
      BY <1>6, <1>8 DEF Goal!GoalAfter, Goal!Focus, Goal!StatusAfter
    <2>6. QED
      BY <2>4, <2>5 DEF Goal!GoalAfter, Goal!FocusAfter, Goal!Focus, Goal!StatusAfter
  <1>9. CASE a \in {"complete", "cancel"}
    <2>1. ops = (<<Goal!Op("reopen")>> \o recount) \o refocus
      BY <1>9 DEF Goal!UndoOperations
    <2>2. b.goal.status = "open"
      BY <1>9 DEF Goal!Offers
    <2>3. /\ s.goal = [b.goal EXCEPT !.status = s.goal.status, !.count = s.goal.count]
          /\ b.goal.target = 0 => s.goal.count = b.goal.count
          /\ s.focus = IF b.focus = "here" THEN "none" ELSE b.focus
      <3>1. s.goal = [b.goal EXCEPT !.status = Goal!StatusAfter[a],
                        !.count = IF a = "complete" /\ b.goal.target # 0 THEN b.goal.target
                                  ELSE b.goal.count]
        BY <1>6, <1>9 DEF Goal!GoalAfter, Goal!Op, Goal!StatusAfter
      <3>2. s.focus = IF b.focus = "here" THEN "none" ELSE b.focus
        BY <1>6, <1>9 DEF Goal!FocusAfter, Goal!Op
      <3>3. QED
        BY <3>1, <3>2 DEF GoalShape
    <2>4. PICK c : c = Goal!AfterOne(acc, Goal!Op("reopen"))
      OBVIOUS
    <2>5. c.goal = [b.goal EXCEPT !.count = s.goal.count] /\ c.focus = s.focus
      <3>1. /\ c.goal = Goal!GoalAfter(s.goal, Goal!Op("reopen"))
            /\ c.focus = Goal!FocusAfter(s.goal, s.focus, Goal!Op("reopen"))
        BY <1>0, <1>1, <2>4, OneIs
      <3>2. c.goal = [s.goal EXCEPT !.status = "open", !.count = s.goal.count]
        BY <3>1 DEF Goal!GoalAfter, Goal!Op, Goal!StatusAfter
      <3>3. c.focus = s.focus
        BY <3>1 DEF Goal!FocusAfter, Goal!Op
      <3>4. PICK pr, t, n, w : b.goal = [status |-> "open", prior |-> pr, target |-> t,
                                         count |-> n, words |-> w]
        BY <2>2 DEF GoalShape
      <3>5. PICK st, m : s.goal = [b.goal EXCEPT !.status = st, !.count = m] /\ m = s.goal.count
        BY <2>3
      <3>6. PICK x, y, z : x = b.goal /\ y = s.goal /\ z = c.goal
        OBVIOUS
      <3>7. x = [status |-> "open", prior |-> pr, target |-> t, count |-> n, words |-> w]
        BY <3>4, <3>6
      <3>8. y = [x EXCEPT !.status = st, !.count = m]
        BY <3>5, <3>6
      <3>9. y = [status |-> st, prior |-> pr, target |-> t, count |-> m, words |-> w]
        BY <3>7, <3>8
      <3>10. z = [y EXCEPT !.status = "open", !.count = m]
        BY <3>2, <3>5, <3>6
      <3>11. z = [status |-> "open", prior |-> pr, target |-> t, count |-> m, words |-> w]
        BY <3>9, <3>10
      <3>12. z = [x EXCEPT !.count = m]
        BY <3>7, <3>11
      <3>13. QED
        BY <3>3, <3>5, <3>6, <3>12
    <2>6. /\ Len(ops) = 1 + Len(recount) + Len(refocus) /\ ops[1] = Goal!Op("reopen")
          /\ Len(recount) = 1 => ops[2] = Count
          /\ Len(refocus) = 1 => ops[2 + Len(recount)] = Here
      BY <1>2, <1>3, <1>4, <2>1, Joined
    <2> DEFINE d == IF b.goal.target # 0 THEN Goal!AfterOne(c, Count) ELSE c
    <2>7. d.goal = b.goal /\ d.focus = s.focus
      <3>1. CASE b.goal.target = 0
        BY <2>3, <2>5, <3>1 DEF GoalShape
      <3>2. CASE b.goal.target # 0
        <4>1. d.goal = Goal!GoalAfter(c.goal, Count) /\ d.focus = Goal!FocusAfter(c.goal, c.focus, Count)
          BY <3>2, OneIs
        <4>2. d.goal = [c.goal EXCEPT !.count = b.goal.count] /\ d.focus = c.focus
          BY <4>1 DEF Goal!GoalAfter, Goal!FocusAfter, Goal!Progress, Goal!StatusAfter
        <4>3. QED
          BY <2>5, <4>2 DEF GoalShape
      <3>3. QED
        BY <3>1, <3>2
    <2>8. Goal!Batch(s, ops) = IF b.focus = "here" THEN Goal!AfterOne(d, Here) ELSE d
      <3>1. Len(ops) = 1 + (IF b.goal.target # 0 THEN 1 ELSE 0) + (IF b.focus = "here" THEN 1 ELSE 0)
        BY <1>2, <1>3, <2>6
      <3>2. CASE b.goal.target # 0
        <4>1. ops[2] = Count /\ (b.focus = "here" => ops[3] = Here)
          BY <1>2, <1>3, <2>6, <3>2
        <4>2. Len(ops) = IF b.focus = "here" THEN 3 ELSE 2
          BY <3>1, <3>2
        <4>3. CASE b.focus = "here"
          <5>1. Len(ops) = 3
            BY <4>2, <4>3
          <5>2. Goal!Batch(s, ops) =
                  Goal!AfterOne(Goal!AfterOne(Goal!AfterOne(Begun(s), ops[1]), ops[2]), ops[3])
            BY <5>1, ShortBatches
          <5>3. Goal!Batch(s, ops) = Goal!AfterOne(Goal!AfterOne(c, Count), Here)
            BY <1>1, <2>4, <2>6, <4>1, <4>3, <5>2
          <5>4. Goal!Batch(s, ops) = Goal!AfterOne(d, Here)
            BY <3>2, <5>3
          <5>5. QED
            BY <4>3, <5>4
        <4>4. CASE b.focus # "here"
          <5>1. Len(ops) = 2
            BY <4>2, <4>4
          <5>2. Goal!Batch(s, ops) = d
            BY <1>1, <2>4, <2>6, <3>2, <4>1, <5>1, ShortBatches, Zenon
          <5>3. QED
            BY <4>4, <5>2
        <4>5. QED
          BY <4>3, <4>4
      <3>3. CASE b.goal.target = 0
        <4>1. b.focus = "here" => ops[2] = Here
          BY <1>2, <1>3, <2>6, <3>3
        <4>2. Len(ops) = IF b.focus = "here" THEN 2 ELSE 1
          BY <3>1, <3>3
        <4>3. CASE b.focus = "here"
          <5>1. Len(ops) = 2
            BY <4>2, <4>3
          <5>2. Goal!Batch(s, ops) = Goal!AfterOne(Goal!AfterOne(Begun(s), ops[1]), ops[2])
            BY <5>1, ShortBatches
          <5>3. Goal!Batch(s, ops) = Goal!AfterOne(c, Here)
            BY <1>1, <2>4, <2>6, <4>1, <4>3, <5>2
          <5>4. Goal!Batch(s, ops) = Goal!AfterOne(d, Here)
            BY <3>3, <5>3
          <5>5. QED
            BY <4>3, <5>4
        <4>4. CASE b.focus # "here"
          <5>1. Len(ops) = 1
            BY <4>2, <4>4
          <5>2. Goal!Batch(s, ops) = Goal!AfterOne(Begun(s), ops[1])
            BY <5>1, ShortBatches
          <5>3. Goal!Batch(s, ops) = c
            BY <1>1, <2>4, <2>6, <5>2
          <5>4. Goal!Batch(s, ops) = d
            BY <3>3, <5>3
          <5>5. QED
            BY <4>4, <5>4
        <4>5. QED
          BY <4>3, <4>4
      <3>4. QED
        BY <3>2, <3>3
    <2>9. CASE b.focus = "here"
      <3>1. /\ Goal!Batch(s, ops).goal = Goal!GoalAfter(d.goal, Here)
            /\ Goal!Batch(s, ops).focus = Goal!FocusAfter(d.goal, d.focus, Here)
        BY <2>8, <2>9, OneIs
      <3>2. QED
        BY <2>7, <2>9, <3>1 DEF Goal!GoalAfter, Goal!FocusAfter, Goal!Focus, Goal!StatusAfter
    <2>10. CASE b.focus # "here"
      BY <2>3, <2>7, <2>8, <2>10
    <2>11. QED
      BY <2>9, <2>10
  <1>10. a \in {"complete", "focus", "cancel", "delete", "restore", "reopen"}
    BY DEF Goal!Offers
  <1>11. QED
    BY <1>7, <1>8, <1>9, <1>10
\* t is s or a later state.
Later(s, t) ==
    /\ s.revision \in Nat /\ t.revision \in Nat
    /\ \/ s.revision < t.revision
       \/ t.revision = s.revision /\ t.goal = s.goal /\ t.focus = s.focus

LEMMA LaterFits ==
    ASSUME NEW s, NEW t, Later(s, t)
    PROVE  /\ \A u : UndoFits(s, u) => UndoFits(t, u)
           /\ \A d : DraftFits(s, d) => DraftFits(t, d)
           /\ \A c : OrderFits(s, c) => OrderFits(t, c)
           /\ \A r \in Nat : \A b : r <= s.revision /\ Unchanged(s, r, b) => Unchanged(t, r, b)
  <1>1. \A r \in Nat : \A b : r <= s.revision /\ Unchanged(s, r, b) => Unchanged(t, r, b)
    BY DEF Later, Unchanged
  <1>2. ASSUME NEW u, UndoFits(s, u)
        PROVE  UndoFits(t, u)
    <2>1. u.revision <= t.revision /\ (u.revision = t.revision => s.revision = t.revision)
      BY <1>2 DEF UndoFits, Later
    <2>2. QED
      BY <1>2, <2>1 DEF UndoFits, Later
  <1>3. ASSUME NEW d, DraftFits(s, d)
        PROVE  DraftFits(t, d)
    BY <1>3 DEF DraftFits, Later
  <1>4. ASSUME NEW c, OrderFits(s, c)
        PROVE  OrderFits(t, c)
    <2>1. CASE c = Goal!NoOrder
      BY <2>1 DEF OrderFits
    <2>2. CASE c # Goal!NoOrder
      <3>1. c.revision \in Nat /\ c.revision <= t.revision
        BY <1>4, <2>2 DEF OrderFits, Later
      <3>2. c.by = "editor" => EditFits(t, c)
        BY <1>4, <2>2 DEF OrderFits, EditFits, Later
      <3>3. c.by # "editor" /\ c.action = "undo" => UndoFits(t, c)
        BY <1>2, <1>4, <2>2 DEF OrderFits
      <3>4. c.by # "editor" /\ c.action # "undo" => ActionFits(t, c)
        BY <1>1, <1>4, <2>2 DEF OrderFits, ActionFits
      <3>5. QED
        BY <1>4, <2>2, <3>1, <3>2, <3>3, <3>4 DEF OrderFits
    <2>3. QED
      BY <2>1, <2>2
  <1>5. QED
    BY <1>1, <1>2, <1>3, <1>4

\* A step that leaves the window alone keeps what the window knows.
LEMMA TasksMoveOn ==
    ASSUME GoalInv, TaskShape(tasks'), Later(tasks, tasks')
    PROVE  /\ goals.revision <= tasks'.revision /\ Unchanged(tasks', goals.revision, goals)
           /\ DraftFits(tasks', drafts) /\ OrderFits(tasks', order)
           /\ \A s \in Goal!Surfaces : undos[s] # Goal!NoUndo => UndoFits(tasks', undos[s])
  <1>1. PICK t : t = tasks'
    OBVIOUS
  <1>2. Later(tasks, t)
    BY <1>1
  <1>3. goals.revision \in Nat /\ goals.revision <= t.revision
    BY <1>2 DEF GoalInv, TaskShape, Later
  <1>4. QED
    BY <1>1, <1>2, <1>3, LaterFits DEF GoalInv

\* What the service makes of a command: nothing, or a later state with the batch applied.
LEMMA ServedIs ==
    ASSUME GoalInv, NEW c, NEW t, t = Goal!Served(c)
    PROVE  /\ TaskShape(t) /\ Later(tasks, t)
           /\ t # tasks =>
                /\ c.revision = tasks.revision /\ t.revision = tasks.revision + 1
                /\ Goal!Batch(tasks, c.ops).ok
                /\ t.goal = Goal!Batch(tasks, c.ops).goal /\ t.focus = Goal!Batch(tasks, c.ops).focus
  <1>1. PICK b : b = Goal!Batch(tasks, c.ops)
    OBVIOUS
  <1>2. CASE Goal!Fits(tasks, c) /\ b.ok
    <2>1. t = [tasks EXCEPT !.goal = b.goal, !.focus = b.focus, !.revision = tasks.revision + 1]
      BY <1>1, <1>2 DEF Goal!Served
    <2>2. GoalShape(tasks.goal) /\ tasks.revision \in Nat
      BY DEF GoalInv, TaskShape
    <2>3. GoalShape(b.goal)
      BY <1>1, <1>2, <2>2, BatchKeepsShape
    <2>4. tasks = [goal |-> tasks.goal, focus |-> tasks.focus, revision |-> tasks.revision,
                   room |-> tasks.room]
      BY DEF GoalInv, TaskShape
    <2>5. t = [goal |-> b.goal, focus |-> b.focus, revision |-> tasks.revision + 1,
               room |-> tasks.room]
      BY <2>1, <2>4
    <2>6. QED
      BY <1>1, <1>2, <2>2, <2>3, <2>5 DEF TaskShape, Later, Goal!Fits
  <1>3. CASE ~(Goal!Fits(tasks, c) /\ b.ok)
    BY <1>1, <1>3 DEF Goal!Served, GoalInv, TaskShape, Later
  <1>4. QED
    BY <1>2, <1>3
\* What a command, once settled, does with the editor's draft and with the notices.
LEMMA DraftAfterFits ==
    ASSUME NEW t, DraftFits(t, drafts), NEW c, NEW ok \in BOOLEAN, NEW conflict \in BOOLEAN
    PROVE  DraftFits(t, Goal!DraftAfter(c, ok, conflict))
  <1>1. PICK d : d = Goal!DraftAfter(c, ok, conflict)
    OBVIOUS
  <1>2. CASE d = drafts \/ d = Goal!NoDraft
    BY <1>1, <1>2 DEF DraftFits
  <1>3. CASE d # drafts /\ d # Goal!NoDraft
    <2>1. drafts # Goal!NoDraft
      BY <1>1, <1>3 DEF Goal!DraftAfter
    <2>2. PICK e, k : \/ d = [drafts EXCEPT !.kept = k]
                      \/ d = [drafts EXCEPT !.saving = e, !.conflict = k]
      BY <1>1, <1>3 DEF Goal!DraftAfter
    <2>3. d.revision = drafts.revision /\ d.task = drafts.task
          /\ d = [open |-> d.open, shown |-> d.shown, task |-> d.task, values |-> d.values,
                  revision |-> d.revision, room |-> d.room, saving |-> d.saving,
                  conflict |-> d.conflict, kept |-> d.kept]
      <3>1. CASE d = [drafts EXCEPT !.kept = k]
        BY <2>1, <3>1 DEF DraftFits
      <3>2. CASE d = [drafts EXCEPT !.saving = e, !.conflict = k]
        BY <2>1, <3>2 DEF DraftFits
      <3>3. QED
        BY <2>2, <3>1, <3>2
    <2>4. QED
      BY <1>1, <2>1, <2>3 DEF DraftFits
  <1>4. QED
    BY <1>2, <1>3

LEMMA NoUndoFits ==
    ASSUME NEW t, NEW u, u = Goal!NoUndo \/ UndoFits(t, u)
    PROVE  u # Goal!NoUndo => UndoFits(t, u)
  OBVIOUS

\* The notice that an action leaves.
LEMMA NoticeFits ==
    ASSUME GoalInv, NEW c, c.by \in Goal!Surfaces, c.action # "undo", ActionFits(tasks, c),
           NEW t, t = Goal!Served(c), t # tasks,
           Goal!UndoOperations(c.before.goal, c.action, c.before.focus) # << >>,
           NEW u, u = [of |-> c.action, revision |-> t.revision, room |-> c.room,
                       ops |-> Goal!UndoOperations(c.before.goal, c.action, c.before.focus),
                       before |-> c.before]
    PROVE  UndoFits(t, u)
  <1>1. /\ c.revision = tasks.revision /\ t.revision = tasks.revision + 1
        /\ t.goal = Goal!Batch(tasks, c.ops).goal /\ t.focus = Goal!Batch(tasks, c.ops).focus
    BY ServedIs
  <1>2. tasks.goal = c.before.goal /\ tasks.focus = c.before.focus
    BY <1>1 DEF ActionFits, Unchanged
  <1>3. PICK o : c.ops = <<o>> /\ o = Goal!ActionOperations(c.action, c.before.focus)[1]
    <2>1. PICK o : Goal!ActionOperations(c.action, c.before.focus) = <<o>>
      BY DEF Goal!ActionOperations
    <2>2. QED
      BY <2>1 DEF ActionFits
  <1>4. Len(c.ops) = 1 /\ c.ops[1] = o
    BY <1>3
  <1>5. Goal!Batch(tasks, c.ops) = Goal!AfterOne(Begun(tasks), o)
    BY <1>4, ShortBatches
  <1>6. Begun(tasks) = [goal |-> c.before.goal, focus |-> c.before.focus, ok |-> TRUE]
    BY <1>2 DEF Begun
  <1>7. Goal!Batch(tasks, c.ops) = ActionAfter(c.before, c.action)
    BY <1>3, <1>5, <1>6 DEF ActionAfter
  <1>8. tasks.revision \in Nat
    BY DEF GoalInv, TaskShape
  <1>9. u.revision = t.revision /\ u.of = c.action /\ u.before = c.before
        /\ u.ops = Goal!UndoOperations(c.before.goal, c.action, c.before.focus)
    OBVIOUS
  <1>10. QED
    BY <1>1, <1>7, <1>8, <1>9 DEF UndoFits, ActionFits

LEMMA GoalPresses ==
    ASSUME GoalInv, Goal!PressesAction
    PROVE  GoalInv' /\ order = Goal!NoOrder
  <1>1. PICK s \in Goal!Surfaces, a \in Goal!Offers(goals.goal) :
          /\ Goal!Orders([by |-> s, action |-> a, ops |-> Goal!ActionOperations(a, goals.focus),
                          revision |-> goals.revision, room |-> goals.room,
                          before |-> [goal |-> goals.goal, focus |-> goals.focus]])
          /\ UNCHANGED <<tasks, goals, drafts, undos>>
    BY Zenon DEF Goal!PressesAction
  <1>2. PICK c : c = [by |-> s, action |-> a, ops |-> Goal!ActionOperations(a, goals.focus),
                      revision |-> goals.revision, room |-> goals.room,
                      before |-> [goal |-> goals.goal, focus |-> goals.focus]]
    OBVIOUS
  <1>3. order' = c /\ order = Goal!NoOrder
    BY <1>1, <1>2 DEF Goal!Orders
  <1>4. /\ c.by = s /\ c.action = a /\ c.ops = Goal!ActionOperations(a, goals.focus)
        /\ c.revision = goals.revision /\ c.before.goal = goals.goal /\ c.before.focus = goals.focus
    BY <1>2
  <1>5. a # "undo" /\ s # "editor"
    BY DEF Goal!Offers, Goal!Surfaces
  <1>6. goals.revision \in Nat /\ GoalShape(goals.goal)
    BY DEF GoalInv, TaskShape
  <1>7. ActionFits(tasks, c)
    BY <1>4, <1>6 DEF ActionFits, GoalInv, Unchanged
  <1>8. OrderFits(tasks, c)
    BY <1>4, <1>5, <1>6, <1>7 DEF OrderFits, GoalInv
  <1>9. QED
    BY <1>1, <1>3, <1>8 DEF GoalInv

LEMMA GoalUndoes ==
    ASSUME GoalInv, Goal!PressesUndo
    PROVE  GoalInv' /\ order = Goal!NoOrder
  <1>1. PICK s \in Goal!Surfaces :
          /\ undos[s] # Goal!NoUndo
          /\ Goal!Orders([by |-> s, action |-> "undo", ops |-> undos[s].ops,
                          revision |-> undos[s].revision, room |-> undos[s].room,
                          before |-> undos[s].before, of |-> undos[s].of])
          /\ UNCHANGED <<tasks, goals, drafts, undos>>
    BY Zenon DEF Goal!PressesUndo
  <1>2. PICK u : u = undos[s]
    OBVIOUS
  <1>3. PICK c : c = [by |-> s, action |-> "undo", ops |-> u.ops, revision |-> u.revision,
                      room |-> u.room, before |-> u.before, of |-> u.of]
    OBVIOUS
  <1>4. order' = c /\ order = Goal!NoOrder
    BY <1>1, <1>2, <1>3 DEF Goal!Orders
  <1>5. UndoFits(tasks, u)
    BY <1>1, <1>2 DEF GoalInv
  <1>6. /\ c.by = s /\ c.action = "undo" /\ c.ops = u.ops /\ c.revision = u.revision
        /\ c.before = u.before /\ c.of = u.of
    BY <1>3
  <1>7. UndoFits(tasks, c)
    BY <1>5, <1>6 DEF UndoFits
  <1>8. OrderFits(tasks, c)
    BY <1>6, <1>7 DEF OrderFits, UndoFits, Goal!Surfaces
  <1>9. QED
    BY <1>1, <1>4, <1>8 DEF GoalInv

LEMMA GoalEdits ==
    ASSUME GoalInv, Goal!OpensEditor \/ Goal!LeavesEditor \/ Goal!SavesEdit
    PROVE  GoalInv'
  <1>1. CASE Goal!OpensEditor
    <2>1. UNCHANGED <<tasks, goals, undos, order>>
      BY <1>1 DEF Goal!OpensEditor
    <2>2. DraftFits(tasks, drafts')
      <3>1. CASE drafts = Goal!NoDraft
        <4>1. PICK v : drafts' = [open |-> TRUE, shown |-> TRUE, task |-> goals.goal, values |-> v,
                                  revision |-> goals.revision, room |-> goals.room,
                                  saving |-> FALSE, conflict |-> FALSE, kept |-> TRUE]
          BY <1>1, <3>1, Zenon DEF Goal!OpensEditor
        <4>2. drafts'.revision = goals.revision /\ drafts'.task = goals.goal
          BY <4>1
        <4>3. QED
          BY <4>1, <4>2 DEF DraftFits, GoalInv, TaskShape, Unchanged
      <3>2. CASE drafts # Goal!NoDraft
        <4>1. drafts' = [drafts EXCEPT !.shown = TRUE]
          BY <1>1, <3>2 DEF Goal!OpensEditor
        <4>2. QED
          BY <3>2, <4>1 DEF DraftFits, GoalInv
      <3>3. QED
        BY <3>1, <3>2
    <2>3. QED
      BY <2>1, <2>2 DEF GoalInv
  <1>2. CASE Goal!LeavesEditor
    <2>1. UNCHANGED <<tasks, goals, undos, order>> /\ drafts # Goal!NoDraft
      BY <1>2 DEF Goal!LeavesEditor
    <2>2. drafts' = Goal!NoDraft \/ drafts' = [drafts EXCEPT !.shown = FALSE]
      BY <1>2 DEF Goal!LeavesEditor
    <2>3. DraftFits(tasks, drafts')
      BY <2>1, <2>2 DEF DraftFits, GoalInv
    <2>4. QED
      BY <2>1, <2>3 DEF GoalInv
  <1>3. CASE Goal!SavesEdit
    <2>1. UNCHANGED <<tasks, goals, undos>> /\ drafts # Goal!NoDraft
      BY <1>3 DEF Goal!SavesEdit
    <2>2. PICK ops : ops = Goal!EditOperations(drafts.task, drafts.values)
      OBVIOUS
    <2>3. CASE ops = << >>
      <3>1. drafts' = Goal!NoDraft /\ order' = order
        BY <1>3, <2>2, <2>3 DEF Goal!SavesEdit
      <3>2. QED
        BY <2>1, <3>1 DEF GoalInv, DraftFits
    <2>4. CASE ops # << >>
      <3>1. /\ order' = [by |-> "editor", ops |-> ops, revision |-> drafts.revision,
                         room |-> drafts.room, before |-> drafts.task]
            /\ drafts' = [drafts EXCEPT !.saving = TRUE, !.conflict = FALSE]
        BY <1>3, <2>2, <2>4, Zenon DEF Goal!SavesEdit, Goal!Orders
      <3>2. /\ order'.by = "editor" /\ order'.revision = drafts.revision
            /\ order'.before = drafts.task
        BY <3>1
      <3>3. DraftFits(tasks, drafts')
        BY <2>1, <3>1 DEF DraftFits, GoalInv
      <3>4. OrderFits(tasks, order')
        BY <2>1, <3>2 DEF OrderFits, EditFits, DraftFits, GoalInv
      <3>5. QED
        BY <2>1, <3>3, <3>4 DEF GoalInv
    <2>5. QED
      BY <2>3, <2>4
  <1>4. QED
    BY <1>1, <1>2, <1>3
LEMMA NoticesAfterFit ==
    ASSUME GoalInv, order # Goal!NoOrder, NEW ok \in BOOLEAN,
           ok => tasks' = Goal!Served(order) /\ tasks' # tasks,
           \A s \in Goal!Surfaces : undos[s] # Goal!NoUndo => UndoFits(tasks', undos[s]),
           undos' = Goal!NoticeAfter(order, ok)
    PROVE  /\ DOMAIN undos' = Goal!Surfaces
           /\ \A s \in Goal!Surfaces : undos'[s] # Goal!NoUndo => UndoFits(tasks', undos'[s])
  <1>1. DOMAIN undos = Goal!Surfaces /\ "goals" \in Goal!Surfaces
    BY DEF GoalInv, Goal!Surfaces
  <1>2. CASE order.by = "editor"
    <2>1. undos' = [undos EXCEPT !["goals"] = IF ok THEN Goal!NoUndo ELSE undos["goals"]]
      BY <1>2 DEF Goal!NoticeAfter
    <2>2. QED
      BY <1>1, <2>1
  <1>3. CASE order.by # "editor"
    <2>1. order.by \in Goal!Surfaces
      BY <1>3 DEF GoalInv, OrderFits
    <2> DEFINE ops == Goal!UndoOperations(order.before.goal, order.action, order.before.focus)
    <2>2. PICK u : u = [of |-> order.action, revision |-> tasks'.revision, room |-> order.room,
                        ops |-> ops, before |-> order.before]
      OBVIOUS
    <2>3. CASE ~ok \/ order.action = "undo" \/ ops = << >>
      <3>1. undos' = [undos EXCEPT ![order.by] = Goal!NoUndo]
        BY <1>3, <2>3, Zenon DEF Goal!NoticeAfter
      <3>2. QED
        BY <1>1, <2>1, <3>1
    <2>4. CASE ok /\ order.action # "undo" /\ ops # << >>
      <3>1. undos' = [undos EXCEPT ![order.by] = u]
        BY <1>3, <2>2, <2>4, Zenon DEF Goal!NoticeAfter
      <3>2. ActionFits(tasks, order)
        BY <1>3, <2>4 DEF GoalInv, OrderFits
      <3>3. PICK t : t = tasks'
        OBVIOUS
      <3>4. UndoFits(t, u)
        BY <2>1, <2>2, <2>4, <3>2, <3>3, NoticeFits
      <3>5. QED
        BY <1>1, <2>1, <3>1, <3>3, <3>4
    <2>5. QED
      BY <2>3, <2>4
  <1>4. QED
    BY <1>2, <1>3

LEMMA GoalSettles ==
    ASSUME GoalInv, Goal!OrderSettles
    PROVE  /\ GoalInv'
           /\ tasks' # tasks =>
                /\ order.by = "editor" => tasks.goal = order.before
                /\ order.by # "editor" /\ order.action = "undo" =>
                     /\ UndoFits(tasks, order) /\ order.revision = tasks.revision
                     /\ Goal!Batch(tasks, order.ops).ok
                     /\ tasks'.goal = Goal!Batch(tasks, order.ops).goal
                     /\ tasks'.focus = Goal!Batch(tasks, order.ops).focus
  <1>1. order # Goal!NoOrder /\ order' = Goal!NoOrder
    BY DEF Goal!OrderSettles
  <1>2. tasks' = Goal!Served(order) \/ tasks' = tasks
    BY DEF Goal!OrderSettles
  <1>3. TaskShape(tasks') /\ Later(tasks, tasks')
    <2>1. PICK t : t = tasks'
      OBVIOUS
    <2>2. TaskShape(t) /\ Later(tasks, t)
      BY <1>2, <2>1, ServedIs DEF GoalInv, TaskShape, Later
    <2>3. QED
      BY <2>1, <2>2
  <1>4. /\ goals.revision <= tasks'.revision /\ Unchanged(tasks', goals.revision, goals)
        /\ DraftFits(tasks', drafts)
        /\ \A s \in Goal!Surfaces : undos[s] # Goal!NoUndo => UndoFits(tasks', undos[s])
    BY <1>3, TasksMoveOn
  <1>5. PICK ok \in BOOLEAN, conflict \in BOOLEAN :
          /\ ok => tasks' = Goal!Served(order) /\ tasks' # tasks
          /\ goals' = (IF ok THEN tasks' ELSE goals)
          /\ undos' = Goal!NoticeAfter(order, ok) /\ drafts' = Goal!DraftAfter(order, ok, conflict)
    <2>1. CASE /\ tasks' = Goal!Served(order)
               /\ goals' = (IF tasks' # tasks THEN tasks' ELSE goals)
               /\ undos' = Goal!NoticeAfter(order, tasks' # tasks)
               /\ drafts' = Goal!DraftAfter(order, tasks' # tasks, ~Goal!Fits(tasks, order))
      <3>1. PICK ok \in BOOLEAN : ok = (tasks' # tasks)
        OBVIOUS
      <3>2. PICK conflict \in BOOLEAN : conflict = (~Goal!Fits(tasks, order))
        BY DEF Goal!Fits
      <3>3. QED
        BY <2>1, <3>1, <3>2
    <2>2. CASE /\ goals' = goals
               /\ undos' = Goal!NoticeAfter(order, FALSE)
               /\ drafts' = Goal!DraftAfter(order, FALSE, FALSE)
      BY <2>2
    <2>3. QED
      BY <2>1, <2>2, Zenon DEF Goal!OrderSettles
  <1>6. TaskShape(goals') /\ goals'.revision <= tasks'.revision
        /\ Unchanged(tasks', goals'.revision, goals')
    <2>1. CASE ok
      BY <1>3, <1>5, <2>1 DEF TaskShape, Unchanged
    <2>2. CASE ~ok
      BY <1>4, <1>5, <2>2 DEF GoalInv
    <2>3. QED
      BY <2>1, <2>2
  <1>7. DraftFits(tasks', drafts')
    <2>1. PICK t : t = tasks'
      OBVIOUS
    <2>2. DraftFits(t, Goal!DraftAfter(order, ok, conflict))
      BY <1>4, <2>1, DraftAfterFits
    <2>3. QED
      BY <1>5, <2>1, <2>2
  <1>8. /\ DOMAIN undos' = Goal!Surfaces
        /\ \A s \in Goal!Surfaces : undos'[s] # Goal!NoUndo => UndoFits(tasks', undos'[s])
    BY <1>1, <1>4, <1>5, NoticesAfterFit
  <1>9. OrderFits(tasks', order')
    BY <1>1 DEF OrderFits
  <1>10. GoalInv'
    BY <1>3, <1>6, <1>7, <1>8, <1>9 DEF GoalInv
  <1>11. ASSUME tasks' # tasks
         PROVE  /\ order.revision = tasks.revision
                /\ Goal!Batch(tasks, order.ops).ok
                /\ tasks'.goal = Goal!Batch(tasks, order.ops).goal
                /\ tasks'.focus = Goal!Batch(tasks, order.ops).focus
    <2>1. PICK t : t = tasks'
      OBVIOUS
    <2>2. QED
      BY <1>2, <1>11, <2>1, ServedIs
  <1>12. OrderFits(tasks, order)
    BY DEF GoalInv
  <1>13. QED
    BY <1>1, <1>10, <1>11, <1>12 DEF OrderFits, EditFits

LEMMA GoalIsChangedElsewhere ==
    ASSUME GoalInv, Goal!OthersEdit
    PROVE  GoalInv'
  <1>1. UNCHANGED <<goals, drafts, undos, order>>
    BY DEF Goal!OthersEdit
  <1>2. TaskShape(tasks) /\ GoalShape(tasks.goal) /\ tasks.revision \in Nat
    BY DEF GoalInv, TaskShape
  <1>3. TaskShape(tasks') /\ Later(tasks, tasks')
    <2>1. ASSUME NEW r, tasks' = [tasks EXCEPT !.room = r]
          PROVE  TaskShape(tasks') /\ Later(tasks, tasks')
      BY <1>2, <2>1 DEF TaskShape, Later
    <2>2. ASSUME NEW o, Goal!Permitted(tasks.goal, o),
                 tasks' = [tasks EXCEPT !.goal = Goal!GoalAfter(tasks.goal, o),
                                        !.focus = Goal!FocusAfter(tasks.goal, tasks.focus, o),
                                        !.revision = tasks.revision + 1]
          PROVE  TaskShape(tasks') /\ Later(tasks, tasks')
      <3>1. PICK g, f : g = Goal!GoalAfter(tasks.goal, o)
                        /\ f = Goal!FocusAfter(tasks.goal, tasks.focus, o)
        OBVIOUS
      <3>2. GoalShape(g)
        BY <1>2, <2>2, <3>1, GoalShapeKept
      <3>3. tasks' = [goal |-> g, focus |-> f, revision |-> tasks.revision + 1, room |-> tasks.room]
        BY <1>2, <2>2, <3>1 DEF TaskShape
      <3>4. QED
        BY <1>2, <3>2, <3>3 DEF TaskShape, Later
    <2>3. \/ \E o : /\ Goal!Permitted(tasks.goal, o)
                     /\ tasks' = [tasks EXCEPT !.goal = Goal!GoalAfter(tasks.goal, o),
                                    !.focus = Goal!FocusAfter(tasks.goal, tasks.focus, o),
                                    !.revision = tasks.revision + 1]
          \/ \E r : tasks' = [tasks EXCEPT !.room = r]
      BY Zenon DEF Goal!OthersEdit
    <2>4. QED
      BY <2>1, <2>2, <2>3
  <1>4. QED
    BY <1>1, <1>3, TasksMoveOn DEF GoalInv

LEMMA GoalIsShown ==
    ASSUME GoalInv, Goal!SnapshotArrives
    PROVE  GoalInv' /\ order = Goal!NoOrder
  <1>1. UNCHANGED <<tasks, drafts, order>> /\ goals' = tasks /\ order = Goal!NoOrder
    BY DEF Goal!SnapshotArrives
  <1>2. PICK u : /\ undos' = [undos EXCEPT !["home"] = u]
                 /\ u = Goal!NoUndo \/ u = undos["home"]
    BY DEF Goal!SnapshotArrives
  <1>3. DOMAIN undos' = Goal!Surfaces
    BY <1>2 DEF GoalInv
  <1>4. ASSUME NEW s \in Goal!Surfaces, undos'[s] # Goal!NoUndo
        PROVE  UndoFits(tasks, undos'[s])
    BY <1>2, <1>4 DEF GoalInv, Goal!Surfaces
  <1>5. Unchanged(tasks, tasks.revision, tasks) /\ tasks.revision <= tasks.revision
    BY DEF Unchanged, GoalInv, TaskShape
  <1>6. QED
    BY <1>1, <1>3, <1>4, <1>5 DEF GoalInv

\* Every step keeps the invariant, and overwrites nothing.
LEMMA GoalGoesOn ==
    ASSUME GoalInv, Goal!GoalsNext
    PROVE  GoalInv' /\ Goal!NothingIsOverwritten
  <1>1. GoalInv'
    BY GoalPresses, GoalUndoes, GoalEdits, GoalSettles, GoalIsChangedElsewhere, GoalIsShown
       DEF Goal!GoalsNext
  <1>2. ASSUME Goal!OrderSettles, tasks' # tasks, order.by = "editor"
        PROVE  tasks.goal = order.before
    BY <1>2, GoalSettles
  <1>3. ASSUME Goal!Undoes, order.of # "reopen"
        PROVE  Goal!UndoIsExact
    <2>1. Goal!OrderSettles /\ tasks' # tasks /\ order.by # "editor" /\ order.action = "undo"
      BY <1>3 DEF Goal!Undoes, Goal!Surfaces
    <2>2. /\ UndoFits(tasks, order) /\ order.revision = tasks.revision
          /\ Goal!Batch(tasks, order.ops).ok
          /\ tasks'.goal = Goal!Batch(tasks, order.ops).goal
          /\ tasks'.focus = Goal!Batch(tasks, order.ops).focus
      BY <2>1, GoalSettles
    <2>3. PICK b, a, ops : b = order.before /\ a = order.of /\ ops = order.ops
      OBVIOUS
    <2>4. /\ GoalShape(b.goal) /\ a \in Goal!Offers(b.goal)
          /\ ops = Goal!UndoOperations(b.goal, a, b.focus) /\ ops # << >>
          /\ tasks.goal = ActionAfter(b, a).goal /\ tasks.focus = ActionAfter(b, a).focus
      BY <2>2, <2>3 DEF UndoFits
    <2>5. a \notin {"reopen", "restore"}
      <3>1. a # "reopen"
        BY <1>3, <2>3
      <3>2. a # "restore"
        BY <2>4 DEF Goal!UndoOperations
      <3>3. QED
        BY <3>1, <3>2
    <2>6. Goal!Batch(tasks, ops).goal = b.goal /\ Goal!Batch(tasks, ops).focus = b.focus
      BY <2>2, <2>3, <2>4, <2>5, UndoingIsExact
    <2>7. QED
      BY <2>2, <2>3, <2>6 DEF Goal!UndoIsExact
  <1>4. QED
    BY <1>1, <1>2, <1>3 DEF Goal!NothingIsOverwritten
=============================================================================
