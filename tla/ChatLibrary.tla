----------------------------- MODULE ChatLibrary -----------------------------
(***************************************************************************)
(* mountChatLibrary of web/chat/library.js: the list of chats and projects.*)
(* It reads the catalog on its own, changes it with commands that name the *)
(* revision they were given on, and is also handed the catalog of every    *)
(* snapshot the page receives.  The service (app/chat_catalog.py) and      *)
(* other windows are the environment.                                      *)
(***************************************************************************)
EXTENDS Integers, FiniteSets

CONSTANTS LibChats, Projects, Nothing,
          LibBudgets  \* bounds of a behaviour: commands, edits by other windows, faults, clicks

VARIABLES
    store,   \* the service's catalog
    lib,     \* the closure of mountChatLibrary
    wire,    \* its requests: two reads and one command (seen: history, the list when it was given)
    manage,  \* what canManage() of the client says
    allot    \* bound: what is left of the budget

libVars == <<store, lib, wire, manage, allot>>

NoCatalog == [rev |-> 0, active |-> Nothing, chats |-> {}, projects |-> {}]
ChatRow == [id : LibChats, project : Projects \cup {Nothing}, archived : BOOLEAN, pinned : BOOLEAN]
ProjectRow == [id : Projects, archived : BOOLEAN]

NoEdit == [kind |-> "none", id |-> Nothing]
NoCommand == [do |-> "none", id |-> Nothing, to |-> Nothing, flag |-> FALSE]
NoLibReq == [st |-> "none", cmd |-> NoCommand, based |-> 0, seen |-> NoCatalog, answer |-> NoCatalog]
Slots == {"read", "again", "command"}

LibTypeOK ==
    /\ \A c \in {store, lib.catalog} :
         /\ c.rev \in Nat /\ c.active \in LibChats \cup {Nothing}
         /\ c.chats \subseteq ChatRow /\ c.projects \subseteq ProjectRow
    /\ lib.project \in Projects \cup {Nothing}
    /\ {lib.archived, lib.pinned, lib.options, lib.notice, lib.busy} \subseteq BOOLEAN
    /\ lib.menu \in LibChats \cup {Nothing}
    /\ lib.editor.kind \in {"none", "chat", "project"}
    /\ lib.owner \in Slots \cup {"none"}
    /\ \A s \in Slots : wire[s].st \in {"none", "sent", "answered", "conflict", "lost"}
    /\ manage \in BOOLEAN

\* The chats are alike: which one there is at first makes no difference.
LibInit ==
    /\ LET c == CHOOSE c \in LibChats : TRUE IN
         store = [rev |-> 1, active |-> c, projects |-> {},
                  chats |-> {[id |-> c, project |-> Nothing, archived |-> FALSE, pinned |-> FALSE]}]
    /\ lib = [catalog |-> NoCatalog, project |-> Nothing, archived |-> FALSE, pinned |-> FALSE,
              menu |-> Nothing, options |-> FALSE, editor |-> NoEdit, notice |-> FALSE,
              busy |-> FALSE, owner |-> "read"]
    /\ wire = [s \in Slots |-> IF s = "read" THEN [NoLibReq EXCEPT !.st = "sent"] ELSE NoLibReq]
    /\ manage = TRUE /\ allot \in LibBudgets

-----------------------------------------------------------------------------
(* The service: a command applies on the revision it names, and an accepted *)
(* change moves the revision on; a command that changes nothing does not.   *)

Rows(c, p) == {r \in c.chats : r.id = p}
Update(c, id, f, v) ==
    [c EXCEPT !.chats = (@ \ Rows(c, id)) \cup {[r EXCEPT ![f] = v] : r \in Rows(c, id)}]

ProjectOpen(c, p) == [id |-> p, archived |-> FALSE] \in c.projects
Exists(c, id) == Rows(c, id) # {}

FreshChats(c) == {i \in LibChats : ~Exists(c, i)}
FreshProjects(c) == Projects \ {r.id : r \in c.projects}

Allowed(c, m) ==
    /\ m.do = "new_chat" => FreshChats(c) # {}
    /\ m.do \in {"new_chat", "move_chat"} => m.to = Nothing \/ ProjectOpen(c, m.to)
    /\ m.do = "switch_chat" => \E r \in Rows(c, m.id) : ~r.archived
    /\ m.do = "archive_chat" => ~(m.flag /\ m.id = c.active)
    /\ m.do = "create_project" => FreshProjects(c) # {}

\* The catalog a command leads to.
Target(c, m) ==
    CASE m.do = "new_chat" ->
           LET i == CHOOSE i \in FreshChats(c) : TRUE IN
           [c EXCEPT !.active = i, !.chats = @ \cup
               {[id |-> i, project |-> m.to, archived |-> FALSE, pinned |-> FALSE]}]
      [] m.do = "switch_chat" -> [c EXCEPT !.active = m.id]
      [] m.do = "archive_chat" -> Update(c, m.id, "archived", m.flag)
      [] m.do = "pin_chat" -> Update(c, m.id, "pinned", m.flag)
      [] m.do = "move_chat" -> Update(c, m.id, "project", m.to)
      [] m.do = "create_project" ->
           LET p == CHOOSE p \in FreshProjects(c) : TRUE IN
           [c EXCEPT !.projects = @ \cup {[id |-> p, archived |-> FALSE]}]
      [] m.do = "archive_project" ->
           [c EXCEPT !.projects = {IF r.id = m.id THEN [r EXCEPT !.archived = m.flag] ELSE r : r \in @}]
      [] OTHER -> c

Renames(m) == m.do \in {"rename_chat", "rename_project"}
Applied(c, m) ==
    LET n == Target(c, m) IN IF n = c /\ ~Renames(m) THEN c ELSE [n EXCEPT !.rev = @ + 1]

-----------------------------------------------------------------------------
(* The controls the panel shows (render, rowMenu, inlineEditor). *)

Selected == {r \in lib.catalog.projects : r.id = lib.project}
Listed ==
    {r \in lib.catalog.chats : /\ r.archived = lib.archived /\ (lib.pinned => r.pinned)
                               /\ (lib.project # Nothing => r.project = lib.project)}
Loaded == lib.catalog # NoCatalog
OpenProjects == {r \in lib.catalog.projects : ~r.archived}

Command(do, id, to, flag) == [do |-> do, id |-> id, to |-> to, flag |-> flag]

\* New chat, and the row that opens a chat.
HeaderOffers ==
    IF ~Loaded \/ lib.archived \/ \E r \in Selected : r.archived THEN {}
    ELSE {Command("new_chat", Nothing, lib.project, FALSE)}
RowOffers == {Command("switch_chat", r.id, Nothing, FALSE) : r \in Listed}

\* The menu of a row: pin, move, archive or restore; the open chat is not archived.
MenuOffers ==
    UNION {{Command("pin_chat", r.id, Nothing, ~r.pinned)}
           \cup {Command("move_chat", r.id, p, FALSE) :
                    p \in ({q.id : q \in OpenProjects} \ {r.project}) \cup {Nothing}}
           \cup (IF r.archived \/ r.id # lib.catalog.active
                 THEN {Command("archive_chat", r.id, Nothing, ~r.archived)} ELSE {})
              : r \in {r \in Listed : r.id = lib.menu}}

\* The project panel, and the list of archived projects.
ProjectOffers ==
    (IF lib.options /\ OpenProjects # {}
     THEN {Command("archive_project", r.id, Nothing, TRUE) : r \in Selected} ELSE {})
    \cup {Command("archive_project", r.id, Nothing, FALSE) : r \in lib.catalog.projects \ OpenProjects}

\* Save in the editor.
EditorOffers ==
    CASE lib.editor.kind = "chat" -> {Command("rename_chat", lib.editor.id, Nothing, FALSE)}
      [] lib.editor.kind = "project" /\ lib.editor.id = Nothing ->
           {Command("create_project", Nothing, Nothing, FALSE)}
      [] lib.editor.kind = "project" -> {Command("rename_project", lib.editor.id, Nothing, FALSE)}
      [] OTHER -> {}

Offers == HeaderOffers \cup RowOffers \cup MenuOffers \cup ProjectOffers \cup EditorOffers

-----------------------------------------------------------------------------
(* The panel. *)

\* Mutant: whatever arrives last is shown.
MutTakes(l, c) == [l EXCEPT !.catalog = c]

\* accept: an older catalog than the one shown is dropped.
Takes(l, c) == IF c.rev < l.catalog.rev THEN l ELSE [l EXCEPT !.catalog = c]

Spend(b) == allot[b] > 0 /\ allot' = [allot EXCEPT ![b] = @ - 1]

\* Mutant: a command names the newest revision the service has.
MutBasis == store.rev

\* The revision a command is based on is that of the catalog on screen.
Basis == lib.catalog.rev

\* mutate: while busy, or when the client may not manage chats, nothing is sent.
Commands ==
    /\ Loaded /\ ~lib.busy /\ manage
    /\ \E m \in Offers :
         /\ wire' = [wire EXCEPT !["command"] = [NoLibReq EXCEPT !.st = "sent", !.cmd = m,
                                                                 !.based = Basis, !.seen = lib.catalog]]
         /\ lib' = [lib EXCEPT !.busy = TRUE, !.owner = "command",
                               !.menu = IF m.id = @ /\ ~Renames(m) /\ m.do # "switch_chat"
                                        THEN Nothing ELSE @]
    /\ Spend("commands") /\ UNCHANGED <<store, manage>>

Done(l, s) == [l EXCEPT !.owner = IF @ = s THEN "none" ELSE @]

\* A read answers: shown if it is not older; a failure is noted.
ReadSettles ==
    \E s \in {"read", "again"} :
        /\ wire[s].st \in {"answered", "lost"}
        /\ lib' = Done(IF wire[s].st = "answered" THEN Takes(lib, wire[s].answer)
                       ELSE [lib EXCEPT !.notice = TRUE], s)
        /\ wire' = [wire EXCEPT ![s] = NoLibReq]
        /\ UNCHANGED <<store, manage, allot>>

\* What the panel does with the answer to its command m.
Followed(l, m, c) ==
    LET made == {r.id : r \in c.projects} \ {r.id : r \in l.catalog.projects}
        saved == Renames(m) \/ m.do = "create_project" IN
    [Takes(l, c) EXCEPT
        !.editor = IF saved THEN NoEdit ELSE @,
        !.project = IF m.do = "create_project"
                    THEN (IF made = {} THEN Nothing ELSE CHOOSE p \in made : TRUE)
                    ELSE IF m.do = "archive_project" /\ m.flag THEN Nothing ELSE @,
        !.options = IF m.do = "archive_project" /\ m.flag THEN FALSE ELSE @,
        !.archived = IF m.do = "create_project" THEN FALSE ELSE @,
        !.pinned = IF m.do = "create_project" THEN FALSE ELSE @,
        !.notice = FALSE, !.busy = FALSE]

\* A read is asked for, unless one is the panel's own request or it is busy.
Asked(l, w) ==
    LET free == {s \in {"read", "again"} : w[s].st = "none"} IN
    IF l.busy \/ l.owner # "none" \/ free = {} THEN lib' = l /\ wire' = w
    ELSE LET s == CHOOSE s \in free : TRUE IN
         /\ lib' = [l EXCEPT !.owner = s]
         /\ wire' = [w EXCEPT ![s] = [NoLibReq EXCEPT !.st = "sent"]]

\* The command settles; a conflict asks for the catalog again.
CommandSettles ==
    LET w == [wire EXCEPT !["command"] = NoLibReq]
        m == wire["command"].cmd
        l == Done(lib, "command") IN
    /\ \/ /\ wire["command"].st = "answered"
          /\ lib' = Followed(l, m, wire["command"].answer) /\ wire' = w
       \/ /\ wire["command"].st = "lost"
          /\ lib' = [l EXCEPT !.notice = TRUE, !.busy = FALSE] /\ wire' = w
       \/ /\ wire["command"].st = "conflict"
          /\ Asked([l EXCEPT !.notice = TRUE, !.busy = FALSE], w)
    /\ UNCHANGED <<store, manage, allot>>

\* refresh and update, by the page: the panel is opened again, or a snapshot comes.
LibRefreshes == Asked(lib, wire) /\ UNCHANGED <<store, manage, allot>>
Snapshot == lib' = Takes(lib, store) /\ UNCHANGED <<store, wire, manage, allot>>

\* Filters, menus and the editor; they work while a command is on its way.
Clicks ==
    /\ Spend("clicks") /\ UNCHANGED <<store, wire, manage>>
    /\ \/ \E a, p \in BOOLEAN : ~(a /\ p) /\ lib' = [lib EXCEPT !.archived = a, !.pinned = p]
       \/ /\ OpenProjects # {}
          /\ \E p \in {r.id : r \in OpenProjects} \cup {Nothing} : lib' = [lib EXCEPT !.project = p]
       \/ /\ ~lib.busy /\ manage
          /\ \E r \in Listed :
               lib' = [lib EXCEPT !.menu = IF @ = r.id THEN Nothing ELSE r.id]
       \/ /\ ~lib.busy /\ manage /\ Selected # {} /\ OpenProjects # {}
          /\ lib' = [lib EXCEPT !.options = ~@]
       \/ lib.menu # Nothing /\ lib' = [lib EXCEPT !.menu = Nothing]
       \/ \E r \in Listed : lib.menu = r.id
            /\ lib' = [lib EXCEPT !.editor = [kind |-> "chat", id |-> r.id], !.menu = Nothing]
       \/ /\ ~lib.busy /\ manage
          /\ lib' = [lib EXCEPT !.editor = [kind |-> "project", id |-> Nothing], !.menu = Nothing]
       \/ \E r \in Selected : lib.options /\ OpenProjects # {}
            /\ lib' = [lib EXCEPT !.editor = [kind |-> "project", id |-> r.id], !.menu = Nothing]
       \/ lib.editor # NoEdit /\ lib' = [lib EXCEPT !.editor = NoEdit]

-----------------------------------------------------------------------------
(* The environment. *)

\* The service takes a request.  A command on another revision, or while a reply is
\* being made, is a conflict (409); one that is not allowed is an error.
LibServes ==
    \E s \in Slots :
        LET r == wire[s]
            goes == s = "command" /\ r.based = store.rev IN
        \E free \in (IF goes THEN BOOLEAN ELSE {TRUE}) :
            LET done == goes /\ free /\ Allowed(store, r.cmd) IN
            /\ r.st = "sent"
            /\ store' = IF done THEN Applied(store, r.cmd) ELSE store
            /\ wire' = [wire EXCEPT ![s].answer = store',
                                    ![s].st = CASE s # "command" \/ done -> "answered"
                                                [] goes /\ free -> "lost"
                                                [] OTHER -> "conflict"]
            /\ UNCHANGED <<lib, manage, allot>>

\* A request or its answer is lost, or takes more than 15 seconds.
LibBreaks ==
    /\ \E s \in Slots :
         wire[s].st \in {"sent", "answered"} /\ wire' = [wire EXCEPT ![s].st = "lost"]
    /\ Spend("faults") /\ UNCHANGED <<store, lib, manage>>

\* Another window changes the catalog.
OtherCommands ==
    /\ \E i \in LibChats, p \in Projects, f \in BOOLEAN :
         \E do \in {"new_chat", "switch_chat", "archive_chat", "create_project", "archive_project"} :
            LET m == Command(do, IF do = "archive_project" THEN p ELSE i, Nothing, f) IN
            Allowed(store, m) /\ store' = Applied(store, m) /\ store' # store
    /\ Spend("others") /\ UNCHANGED <<lib, wire, manage>>

MayManage == Spend("clicks") /\ manage' = ~manage /\ UNCHANGED <<store, lib, wire>>

LibNext ==
    \/ Commands \/ ReadSettles \/ CommandSettles \/ LibRefreshes \/ Snapshot \/ Clicks
    \/ LibServes \/ LibBreaks \/ OtherCommands \/ MayManage

LibSpec == LibInit /\ [][LibNext]_libVars

-----------------------------------------------------------------------------
(* Properties. *)

\* The list never goes back to an older catalog, whichever of the reads, the command
\* and the snapshots of the page answers last; and a command only changes a catalog
\* that was on screen, whole, when the person gave it.
FollowsTheCatalog ==
    /\ lib'.catalog.rev >= lib.catalog.rev
    /\ LibServes /\ store' # store => wire["command"].seen = store
=============================================================================
