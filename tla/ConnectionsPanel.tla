--------------------------- MODULE ConnectionsPanel ---------------------------
(***************************************************************************)
(* web/connections/manager.js: the list of apps and MCPs the service       *)
(* returns, with the commands that change it (app/connections.py).  Every  *)
(* answer is a whole snapshot; its revision moves when a snapshot is taken *)
(* that differs from the last one.  A read and a command may be in flight  *)
(* at the same time, and other windows change the connections too.         *)
(***************************************************************************)
EXTENDS Integers, FiniteSets

CONSTANTS Apps,      \* apps: calendar, mail, browser activity
          Mcps,      \* MCPs that may be added
          Nobody,    \* no item
          MaxTouches \* bound: what the person, other windows and the network do

VARIABLES
    conns,    \* the service: what is on, the MCPs there are and the ones being tested, the
              \* revision, and what the last snapshot showed (fingerprint)
    manager,  \* the closure of mountConnectionsManager
    reading,  \* refresh(): the GETs in flight, two when a command came between
    writing,  \* mutate(): the POST in flight
    touches   \* bound: touches left

connectionVars == <<conns, manager, reading, writing, touches>>

Items == Apps \cup Mcps
Reads == 1 .. 2
Writing == 0
NoRequest == -1
NotLoaded == [rev |-> -1, on |-> {}, mcps |-> {}]
NoRead == [at |-> "none", got |-> NotLoaded, quiet |-> TRUE]
NoWrite == [at |-> "none", action |-> "none", id |-> Nobody, on |-> FALSE, base |-> -1,
            got |-> NotLoaded]
Snapshots == [rev : Int, on : SUBSET Items, mcps : SUBSET Mcps]
Fingerprints == [on : SUBSET Items, mcps : SUBSET Mcps, testing : SUBSET Mcps]
Actions == {"set_enabled", "test_mcp", "add_mcp", "remove_mcp"}

ConnectionsTypeOK ==
    /\ conns \in [rev : Int, on : SUBSET Items, mcps : SUBSET Mcps, testing : SUBSET Mcps,
                  seen : Fingerprints]
    /\ manager \in [shown : Snapshots, tab : {"all", "apps", "mcps"},
                    selected : Items \cup {Nobody}, adding : BOOLEAN,
                    removing : Mcps \cup {Nobody}, mounted : Apps \cup {Nobody},
                    active : Reads \cup {Writing, NoRequest}, busy : BOOLEAN,
                    message : {"none", "error", "conflict"}]
    /\ reading \in [Reads -> [at : {"none", "sent", "served", "failed"}, got : Snapshots,
                             quiet : BOOLEAN]]
    /\ writing \in [at : {"none", "sent", "served", "refused", "conflict"},
                    action : Actions \cup {"none"}, id : Items \cup {Nobody}, on : BOOLEAN,
                    base : Int, got : Snapshots]
    /\ touches \in 0 .. MaxTouches

ConnectionsInit ==
    /\ \E m \in {{}, Mcps} :  \* no MCP yet, or all of them on
         conns = [rev |-> 0, on |-> m, mcps |-> m, testing |-> {},
                  seen |-> [on |-> m, mcps |-> m, testing |-> {}]]
    /\ manager = [shown |-> NotLoaded, tab |-> "apps", selected |-> Nobody, adding |-> FALSE,
                  removing |-> Nobody, mounted |-> Nobody, active |-> 1, busy |-> FALSE,
                  message |-> "none"]
    /\ reading = [i \in Reads |-> IF i = 1  \* refresh() at mount
                                   THEN [NoRead EXCEPT !.at = "sent", !.quiet = FALSE] ELSE NoRead]
    /\ writing = NoWrite
    /\ touches = MaxTouches

Touch == touches > 0 /\ touches' = touches - 1

-----------------------------------------------------------------------------
(* What the manager shows. *)

Loaded(m) == m.shown # NotLoaded
Listed(m) == Apps \cup m.shown.mcps
Chosen(m) == Loaded(m) /\ m.selected \in Listed(m)

\* render(): the details of a chosen item, the form, or the list of the tab; the
\* panel of an item that is no longer selected is destroyed.
View(m) == IF Chosen(m) THEN "detail" ELSE IF m.adding THEN "form"
           ELSE IF Loaded(m) THEN "list" ELSE "loading"

Rows(m) == IF View(m) # "list" THEN {}
           ELSE (IF m.tab = "mcps" THEN {} ELSE Apps)
                \cup (IF m.tab = "apps" THEN {} ELSE m.shown.mcps)

Rendered(m) ==
    [m EXCEPT !.mounted = IF Chosen(m) /\ m.selected \in Apps THEN m.selected
                          ELSE IF m.selected # @ THEN Nobody ELSE @]

\* Mutant: the answer that arrives last is shown.
MutAccepted(m, s) == Rendered([m EXCEPT !.shown = s])

\* accept(): an answer older than what is shown is dropped.
Accepted(m, s) == IF s.rev < m.shown.rev THEN m ELSE Rendered([m EXCEPT !.shown = s])

-----------------------------------------------------------------------------
(* refresh(). *)

MayRead(m, i) == ~m.busy /\ m.active = NoRequest /\ reading[i].at = "none"

Released(m, x) == [m EXCEPT !.active = IF @ = x THEN NoRequest ELSE @]

\* refresh({quiet}) from the workspace, when the snapshot of the client names
\* another revision, and from the embedded panels.
Rereads ==
    /\ Touch
    /\ \E i \in Reads :
         /\ MayRead(manager, i)
         /\ manager' = [manager EXCEPT !.active = i]
         /\ reading' = [reading EXCEPT ![i].at = "sent"]
    /\ UNCHANGED <<conns, writing>>

\* snapshot(): the revision moves when something differs from what was shown last.
Fingerprint(c) == [on |-> c.on, mcps |-> c.mcps, testing |-> c.testing]
Current(c) ==
    IF Fingerprint(c) = c.seen THEN c
    ELSE [c EXCEPT !.rev = @ + 1, !.seen = Fingerprint(c)]
Shows(c) == [rev |-> c.rev, on |-> c.on, mcps |-> c.mcps]

ReadServed(i) ==
    /\ reading[i].at = "sent"
    /\ \/ /\ conns' = Current(conns) /\ UNCHANGED touches
          /\ reading' = [reading EXCEPT ![i].at = "served", ![i].got = Shows(conns')]
       \/ /\ Touch /\ conns' \in {conns, Current(conns)}
          /\ reading' = [reading EXCEPT ![i].at = "failed"]
    /\ UNCHANGED <<manager, writing>>

ReadSettles(i) ==
    /\ reading[i].at \in {"served", "failed"}
    /\ LET m == Released(manager, i) IN
       manager' = IF reading[i].at = "served" THEN Accepted(m, reading[i].got)
                  ELSE IF reading[i].quiet THEN m ELSE Rendered([m EXCEPT !.message = "error"])
    /\ reading' = [reading EXCEPT ![i] = NoRead]
    /\ UNCHANGED <<conns, writing, touches>>

-----------------------------------------------------------------------------
(* mutate(). *)

\* A command carries the revision it was decided on.
Sends(m, action, id, on) ==
    IF ~Loaded(m) \/ m.busy
    THEN manager' = Rendered(m) /\ UNCHANGED writing
    ELSE /\ manager' = Rendered([m EXCEPT !.busy = TRUE, !.active = Writing])
         /\ writing' = [at |-> "sent", action |-> action, id |-> id, on |-> on,
                        base |-> m.shown.rev, got |-> NotLoaded]

\* control(): what a command needs, besides the revision; an app may need its setup first.
Permitted(c, w) ==
    /\ w.action = "test_mcp" => w.id \in c.on /\ w.id \notin c.testing
    /\ w.action \in {"test_mcp", "remove_mcp"} => w.id \in c.mcps
NeedsSetup(w) == w.action = "set_enabled" /\ w.on /\ w.id \in Apps

\* A test goes on after the answer; another command of the MCP cancels it.
Applied(c, w) ==
    CASE w.action = "set_enabled" ->
            [c EXCEPT !.on = IF w.on THEN @ \cup {w.id} ELSE @ \ {w.id}, !.testing = @ \ {w.id}]
      [] w.action = "add_mcp" -> [c EXCEPT !.mcps = @ \cup {w.id}]
      [] w.action = "remove_mcp" ->
            [c EXCEPT !.mcps = @ \ {w.id}, !.on = @ \ {w.id}, !.testing = @ \ {w.id}]
      [] OTHER -> [c EXCEPT !.testing = @ \cup {w.id}]

WriteServed ==
    LET c == Current(conns)
        may == writing.base = c.rev /\ Permitted(c, writing)
    IN
    /\ writing.at = "sent"
    /\ \/ /\ may /\ conns' = Current(Applied(c, writing))
          /\ writing' = [writing EXCEPT !.at = "served", !.got = Shows(conns')]
          /\ UNCHANGED touches
       \/ /\ ~may \/ NeedsSetup(writing)
          /\ writing' = [writing EXCEPT !.at = "conflict"] /\ conns' = c /\ UNCHANGED touches
       \/ /\ Touch /\ writing' = [writing EXCEPT !.at = "refused"]
          /\ \/ UNCHANGED conns
             \/ may /\ conns' = Current(Applied(c, writing))  \* the answer is lost
    /\ UNCHANGED <<manager, reading>>

\* The answer.  After a conflict the list is read again, quietly; a switch that
\* could not be turned on opens its details, and an added MCP closes the form.
WriteSettles ==
    /\ writing.at \in {"served", "refused", "conflict"}
    /\ LET m == Released([manager EXCEPT !.busy = FALSE], Writing)
           done == Accepted([m EXCEPT !.message = "none"], writing.got)
           opened == IF writing.action = "set_enabled" /\ writing.on
                     THEN [m EXCEPT !.selected = writing.id] ELSE m
           failed == Rendered([opened EXCEPT
                        !.message = IF writing.at = "conflict" THEN "conflict" ELSE "error"])
       IN  IF writing.at = "served"
           THEN /\ manager' = Rendered(IF writing.action = "add_mcp"
                                       THEN [done EXCEPT !.adding = FALSE] ELSE done)
                /\ UNCHANGED reading
           ELSE IF writing.at = "conflict" /\ \E i \in Reads : MayRead(m, i)
           THEN LET i == CHOOSE i \in Reads : MayRead(m, i) IN
                /\ manager' = [failed EXCEPT !.active = i]
                /\ reading' = [reading EXCEPT ![i].at = "sent"]
           ELSE manager' = failed /\ UNCHANGED reading
    /\ writing' = NoWrite
    /\ UNCHANGED <<conns, touches>>

-----------------------------------------------------------------------------
(* The controls: a row, its switch, the details, the form, the tabs. *)

SelectsRow ==
    /\ Touch /\ \E i \in Rows(manager) :
         manager' = Rendered([manager EXCEPT !.selected = i, !.removing = Nobody])
    /\ UNCHANGED <<conns, reading, writing>>

Switches ==
    /\ Touch /\ ~manager.busy
    /\ \E i \in Rows(manager) : Sends(manager, "set_enabled", i, i \notin manager.shown.on)
    /\ UNCHANGED <<conns, reading>>

\* Test, Remove, and the confirmation of Remove.
UsesMcp ==
    /\ View(manager) = "detail" /\ manager.selected \in Mcps /\ Touch
    /\ LET i == manager.selected IN
       \/ Sends(manager, "test_mcp", i, FALSE)
       \/ /\ manager.removing # i /\ manager' = [manager EXCEPT !.removing = i]
          /\ UNCHANGED writing
       \/ /\ manager.removing = i
          /\ \/ manager' = [manager EXCEPT !.removing = Nobody] /\ UNCHANGED writing
             \/ Sends([manager EXCEPT !.removing = Nobody, !.selected = Nobody],
                      "remove_mcp", i, FALSE)
    /\ UNCHANGED <<conns, reading>>

\* Add MCP: a draft that is not complete only gets a message.
Adds ==
    /\ Touch
    /\ \/ /\ View(manager) = "list" /\ manager.tab = "mcps"
          /\ manager' = [manager EXCEPT !.adding = TRUE] /\ UNCHANGED writing
       \/ /\ View(manager) = "form"
          /\ \/ manager' = [manager EXCEPT !.message = "error"] /\ UNCHANGED writing
             \/ manager' = [manager EXCEPT !.adding = FALSE] /\ UNCHANGED writing
             \/ \E i \in Mcps \ manager.shown.mcps : Sends(manager, "add_mcp", i, FALSE)
    /\ UNCHANGED <<conns, reading>>

\* Back, the tabs, the search, and show() of the workspace.
Moves ==
    /\ Touch
    /\ \/ /\ View(manager) \in {"detail", "form"}
          /\ manager' = Rendered([manager EXCEPT !.selected = Nobody, !.adding = FALSE,
                                                 !.removing = Nobody, !.message = "none"])
       \/ \E t \in {"all", "apps", "mcps"}, i \in Items \cup {Nobody} :
            /\ i # Nobody \/ View(manager) \in {"list", "loading"}
            /\ manager' = Rendered([manager EXCEPT !.tab = t, !.selected = i])
    /\ UNCHANGED <<conns, reading, writing>>

\* Another window, a sign-in or a test that ended changes the connections; the revision
\* moves when somebody next asks for a snapshot, which every window does.
ElsewhereChanges ==
    /\ Touch
    /\ \/ \E i \in Apps \cup conns.mcps :
            conns' = [conns EXCEPT !.on = IF i \in @ THEN @ \ {i} ELSE @ \cup {i},
                                   !.testing = @ \ {i}]
       \/ \E i \in conns.testing : conns' = [conns EXCEPT !.testing = @ \ {i}]
    /\ UNCHANGED <<manager, reading, writing>>

ElsewhereAsks ==
    /\ conns # Current(conns) /\ conns' = Current(conns)
    /\ UNCHANGED <<manager, reading, writing, touches>>

ConnectionsNext ==
    \/ Rereads \/ (\E i \in Reads : ReadServed(i) \/ ReadSettles(i)) \/ WriteServed \/ WriteSettles
    \/ SelectsRow \/ Switches \/ UsesMcp \/ Adds \/ Moves \/ ElsewhereChanges
    \/ ElsewhereAsks

ConnectionsSpec == ConnectionsInit /\ [][ConnectionsNext]_connectionVars

-----------------------------------------------------------------------------
(* Properties. *)

\* "A source-of-truth Connections workspace" (manager.js): a read that was sent
\* before a command and is answered after it never brings the old list back, no
\* command is decided on a list newer than the one that was shown, and the panel of
\* an app is mounted only while that app is the one chosen.
ConnectionsNeverGoBack ==
    /\ manager'.shown.rev >= manager.shown.rev
    /\ writing'.base <= manager'.shown.rev
    /\ manager'.mounted # Nobody => manager'.mounted = manager'.selected
=============================================================================
