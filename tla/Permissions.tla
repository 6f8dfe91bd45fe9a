------------------------------ MODULE Permissions ------------------------------
(***************************************************************************)
(* What felis may record and share: the policy of the service              *)
(* (app/context_service.py) and the surfaces of one window that change it, *)
(* which are the panel of web/adaptive (context-panel.js, controller.js),  *)
(* the card that connects Chrome and the recording control of Home         *)
(* (workspace.js), and the optional support of the setup (onboarding/      *)
(* support.js).  Each sends the whole policy it was shown at the gesture,  *)
(* with its changes.  The panel sends it under the revision it was shown,  *)
(* the others under the revision there is when the client comes to the     *)
(* command (chat/client.js, adaptiveControl): one runs at a time.          *)
(***************************************************************************)
EXTENDS Integers

CONSTANTS Domains,     \* websites that may be excluded
          MaxAsked,    \* bound: changes asked for in this window
          MaxOutside   \* bound: other windows, analyses, faults, and uses of the panel

VARIABLES
    privacy,  \* the policy of the service and its revision
    known,    \* the snapshot of this window
    settings, \* the closure of createContextPanel
    change,   \* the command of this window that runs (adaptiveQueue), if one does
    waiting,  \* the command behind it
    bounds    \* bound: what may still happen

permissionVars == <<privacy, known, settings, change, waiting, bounds>>

Sources == {"desktop", "browser"}
Flags == {"enabled", "desktop", "browser", "text", "visuals", "ai"}
Policies == [flags : SUBSET Flags, sites : SUBSET Domains]
Changes == [policy : Policies, shown : Nat, revision : Nat, asked : SUBSET Flags,
            site : SUBSET Domains, of : {"panel", "guide", "card", "home", "forget"},
            desktop : BOOLEAN]
NoChange == [of |-> "none"]

PermissionsTypeOK ==
    /\ privacy.policy \in Policies /\ privacy.revision \in Nat
    /\ privacy.saved \in SUBSET Flags /\ privacy.own \in SUBSET Flags
    /\ known.policy \in Policies /\ known.revision \in Nat /\ known.connected \in BOOLEAN
    /\ settings \in [tab : {"general", "sources", "memory"}, open : BOOLEAN, busy : BOOLEAN,
                     guide : BOOLEAN, confirm : BOOLEAN, error : BOOLEAN]
    /\ change = NoChange \/ change \in Changes
    /\ waiting = NoChange \/ waiting \in Changes
    /\ bounds.asks \in 0 .. MaxAsked /\ bounds.outside \in 0 .. MaxOutside

\* The panel is closed, or open at its choices or at what it keeps.
PermissionsInit ==
    /\ \E on \in SUBSET Sources, live \in BOOLEAN :
         LET flags == on \cup {f \in {"enabled"} : live /\ on # {}} IN
         privacy = [policy |-> [flags |-> flags, sites |-> {}], saved |-> flags,
                    own |-> {}, revision |-> 0]
    /\ known = [policy |-> privacy.policy, revision |-> 0, connected |-> TRUE]
    /\ \E tab \in {"general", "sources", "memory"} :
         settings = [tab |-> tab, open |-> tab # "general", busy |-> FALSE, guide |-> FALSE,
                     confirm |-> FALSE, error |-> FALSE]
    /\ change = NoChange /\ waiting = NoChange
    /\ bounds = [asks |-> MaxAsked, outside |-> MaxOutside]

-----------------------------------------------------------------------------
(* contextPolicyPatch and sourcePolicyPatch. *)

Flag(f, on) == [add |-> {x \in {f} : on}, drop |-> {x \in {f} : ~on}]
Patched(policy, delta) ==
    [policy EXCEPT !.flags = (@ \cup delta.add) \ delta.drop]

\* Mutant: a source that is turned on always turns the recording on.
MutSourcePolicy(policy, f, on) ==
    [Patched(policy, Flag(f, on)) EXCEPT !.flags = IF on THEN @ \cup {"enabled"} ELSE @]

\* "Choosing an additional source must not silently restart an intentional pause."
SourcePolicy(policy, f, on) ==
    LET next == Patched(policy, Flag(f, on)) IN
    IF on /\ policy.flags \cap Sources = {}
    THEN [next EXCEPT !.flags = @ \cup {"enabled"}] ELSE next

-----------------------------------------------------------------------------
(* The surfaces. *)

\* contextCommand: the command runs, or waits for the one that does.
Ask(policy, asked, site, of, desktop) ==
    LET c == [policy |-> policy, shown |-> known.revision, revision |-> known.revision,
              asked |-> asked, site |-> site, of |-> of, desktop |-> desktop] IN
    /\ known.connected
    /\ bounds.asks > 0 /\ bounds' = [bounds EXCEPT !.asks = @ - 1]
    /\ IF change = NoChange THEN change' = c /\ UNCHANGED waiting
       ELSE waiting = NoChange /\ waiting' = c /\ UNCHANGED change
    /\ UNCHANGED <<privacy, known>>

\* run: one command of the panel at a time.
Panel == settings.open /\ ~settings.busy /\ settings' = [settings EXCEPT !.busy = TRUE, !.error = FALSE]
On(f) == f \in known.policy.flags

\* A switch of the panel; a source that is the first one also starts the recording.
TogglesSwitch ==
    /\ Panel /\ settings.tab = "sources"
    /\ \E f \in Flags \ {"enabled"} :
         IF f \in Sources
         THEN Ask(SourcePolicy(known.policy, f, ~On(f)),
                  {f} \cup {x \in {"enabled"} : ~On(f) /\ known.policy.flags \cap Sources = {}},
                  {}, "panel", f = "desktop" /\ ~On(f))
         ELSE Ask(Patched(known.policy, Flag(f, ~On(f))), {f}, {}, "panel",
                  f = "text" /\ ~On(f) /\ On("desktop"))

\* Pause or Resume recording, of the panel or of Home, which are shown once there is a source.
PausesOrResumes ==
    /\ known.policy.flags \cap Sources # {}
    /\ \/ Panel /\ settings.tab = "sources"
            /\ Ask(Patched(known.policy, Flag("enabled", ~On("enabled"))), {"enabled"}, {}, "panel", FALSE)
       \/ /\ Ask(Patched(known.policy, Flag("enabled", ~On("enabled"))), {"enabled"}, {}, "home", FALSE)
          /\ UNCHANGED settings

\* Excludes a website, or includes it again.
ExcludesSite ==
    /\ Panel /\ settings.tab = "sources"
    /\ \E d \in Domains :
         Ask([known.policy EXCEPT !.sites = IF d \in @ THEN @ \ {d} ELSE @ \cup {d}],
             {}, {d}, "panel", FALSE)

\* The guide of the Mac: Connect desktop, or Resume capture.
GuideConfigures ==
    /\ Panel /\ settings.tab = "sources" /\ settings.guide
    /\ LET asked == IF On("desktop") THEN {"enabled"} ELSE {"enabled", "desktop"} IN
       /\ ~(asked \subseteq known.policy.flags)
       /\ Ask(Patched(known.policy, [add |-> asked, drop |-> {}]), asked, {}, "guide", FALSE)

\* The card of Chrome, here and in the support of the setup: connect, resume, or pause,
\* which turns the source off; the support also connects the Mac and lets the AI use it.
CardConfigures ==
    /\ \E p \in {[add |-> {"enabled", "browser"}, drop |-> {}],
                [add |-> {"enabled", "desktop"}, drop |-> {}],
                Flag("enabled", TRUE), Flag("browser", FALSE), Flag("ai", TRUE)} :
         /\ ~(p.add \subseteq known.policy.flags) \/ p.drop \cap known.policy.flags # {}
         /\ Ask(Patched(known.policy, p), p.add \cup p.drop, {}, "card", FALSE)
    /\ UNCHANGED settings

\* Forget activity & context, confirmed.
ForgetsActivity ==
    /\ Panel /\ settings.confirm /\ settings.tab = "memory"
    /\ Ask(known.policy, {}, {}, "forget", FALSE)

\* The rest of the panel: it is opened, closed, shows another section (which hides the
\* guide and the confirmation no further than the section goes), or the guide is done.
UsesPanel ==
    /\ bounds.outside > 0 /\ bounds' = [bounds EXCEPT !.outside = @ - 1]
    /\ \/ settings' = [settings EXCEPT !.open = ~@]
       \/ settings.open /\ \E t \in {"general", "sources", "memory"} \ {settings.tab} :
            settings' = [settings EXCEPT !.tab = t]
       \/ settings.open /\ settings.tab = "memory" /\ settings' = [settings EXCEPT !.confirm = ~@]
       \/ settings.open /\ settings.tab = "sources" /\ On("desktop")
            /\ settings' = [settings EXCEPT !.guide = ~@]
    /\ UNCHANGED <<privacy, known, change, waiting>>

-----------------------------------------------------------------------------
(* The service, and what comes back. *)

\* Mutant: the revision of a command is not compared.
MutCurrentRevision(c) == TRUE

CurrentRevision(c) == c.revision = privacy.revision

Differ(S, T) == (S \ T) \cup (T \ S)

\* command() and _configure: the whole policy replaces the one there is.
Replaces(policy) ==
    [privacy EXCEPT !.policy = policy, !.saved = policy.flags, !.own = {}, !.revision = @ + 1]
Commanded(c) ==
    IF ~CurrentRevision(c) THEN privacy
    ELSE Replaces(IF c.of = "forget" THEN privacy.policy ELSE c.policy)

\* Once the command settles the panel shows the guide of a Mac that was just turned on
\* and, after a failure, the error; the history is forgotten only once.
PanelAfter(s, c, ok) ==
    IF c.of \in {"card", "home"} THEN s
    ELSE [s EXCEPT !.busy = FALSE, !.error = ~ok /\ s.open, !.guide = @ \/ c.desktop,
                   !.confirm = @ /\ ~(ok /\ c.of = "forget")]

\* `revision ?? snapshot.adaptive.revision', when the client comes to the command.
Started(c) ==
    IF c.of \in {"card", "home"} THEN [c EXCEPT !.revision = known'.revision] ELSE c

\* The command that waited runs, or fails when the client is not connected.
Follows(s) ==
    /\ waiting' = NoChange
    /\ IF waiting # NoChange /\ known'.connected
       THEN change' = Started(waiting) /\ settings' = s
       ELSE /\ change' = NoChange
            /\ settings' = IF waiting = NoChange THEN s ELSE PanelAfter(s, waiting, FALSE)

\* What a snapshot of the service shows.
Told == [policy |-> privacy.policy, revision |-> privacy.revision, connected |-> TRUE]

ChangeSettles ==
    /\ change # NoChange
    /\ \/ /\ privacy' = Commanded(change) /\ UNCHANGED bounds
          /\ known' = IF CurrentRevision(change) THEN Told' ELSE known
          /\ Follows(PanelAfter(settings, change, CurrentRevision(change)))
       \/ \* no answer, or an error: applied or not
          /\ bounds.outside > 0 /\ bounds' = [bounds EXCEPT !.outside = @ - 1]
          /\ privacy' \in {privacy, Commanded(change)} /\ UNCHANGED known
          /\ Follows(PanelAfter(settings, change, FALSE))

\* Another window changes one flag, or an analysis moves the revision.
OthersChange ==
    /\ bounds.outside > 0 /\ bounds' = [bounds EXCEPT !.outside = @ - 1]
    /\ \E f \in Flags \ {"visuals"}, on \in BOOLEAN :
         privacy' = Replaces(Patched(privacy.policy, Flag(f, on)))
    /\ UNCHANGED <<known, settings, change, waiting>>

\* The service changes flags and not the revision: it cannot read its memory
\* (memory_unavailable), or a restart reads the policy again, or finds the memory locked.
ServiceChanges ==
    /\ bounds.outside > 0 /\ bounds' = [bounds EXCEPT !.outside = @ - 1]
    /\ \E flags \in {privacy.policy.flags \ {"enabled", "ai"}, privacy.saved, {}} :
         /\ flags # privacy.policy.flags
         /\ privacy' = [privacy EXCEPT !.policy.flags = flags,
                            !.saved = IF flags = {} THEN {} ELSE @,
                            !.own = @ \cup Differ(flags, privacy.policy.flags)]
    /\ UNCHANGED <<known, settings, change, waiting>>

\* A snapshot, of a poll or with the answer to something else the window asked, or none.
SnapshotUpdates ==
    /\ \/ known' = Told /\ known # Told /\ UNCHANGED bounds
       \/ /\ bounds.outside > 0 /\ bounds' = [bounds EXCEPT !.outside = @ - 1]
          /\ known' = [known EXCEPT !.connected = FALSE]
    /\ UNCHANGED <<privacy, settings, change, waiting>>

PermissionsNext ==
    \/ TogglesSwitch \/ PausesOrResumes \/ ExcludesSite \/ GuideConfigures \/ CardConfigures
    \/ ForgetsActivity \/ UsesPanel \/ ChangeSettles \/ OthersChange \/ ServiceChanges
    \/ SnapshotUpdates

PermissionsSpec == PermissionsInit /\ [][PermissionsNext]_permissionVars

-----------------------------------------------------------------------------
(* Properties. *)

AppliesChange == ChangeSettles /\ privacy' # privacy

\* "Updating one permission never grants a different source or data flow"
\* (context-panel.js:20): a command that sends the whole policy changes no flag and no
\* exclusion but the ones its gesture was about, even when another window changed the
\* policy after it was shown or while the command was on its way.  Two exceptions: flags
\* the service changed since without moving the revision, and a command of the card or of
\* Home that waited while a snapshot moved the revision: that one overwrites what changed.
OnlyTheAskedChanges ==
    AppliesChange /\ change.shown = change.revision =>
      /\ Differ(privacy.policy.flags, privacy'.policy.flags) \subseteq change.asked \cup privacy.own
      /\ Differ(privacy.policy.sites, privacy'.policy.sites) \subseteq change.site
=============================================================================
