----------------------------- MODULE ActivityLink -----------------------------
(***************************************************************************)
(* The older way to share the page in front: a page of felis open in       *)
(* Chrome holds a lease of the service (web/activity/session.js), keeps    *)
(* one port to the extension (web/activity/bridge.js) and forwards each    *)
(* sample request of the service; the extension (activity/extension/       *)
(* background.js, onConnectExternal) answers a request once, with the page *)
(* in front.  Messages cross the port, and requests the network, later     *)
(* than they are sent; the service (app/proactive.py) checks an            *)
(* observation, looks which application is in front, and takes it.         *)
(***************************************************************************)
EXTENDS Integers, FiniteSets

CONSTANTS MaxPorts,     \* bound: connections a page opens
          MaxRequests,  \* bound: sample requests of the service
          MaxSteps      \* bound: connections, requests, and what goes wrong or is changed

VARIABLES
    lease,    \* the service: who owns the lease, and the request that is open
    posts,    \* the requests of the page that the service or the page still works on
    page,     \* the closure of createActivitySession and the variables of bridge.js
    wire,     \* the messages between the page and the extension
    ports,    \* the extension's side of each port
    share,    \* whether the page may be shared, and privacyRevision (NativeBridge has the delay)
    taken,    \* history: how often the answer to a request became context
    steps     \* bound: steps left

linkVars == <<lease, posts, page, wire, ports, share, taken, steps>>

Ports == 1 .. MaxPorts
Requests == 1 .. MaxRequests
None == 0
Closed == [open |-> FALSE, known |-> FALSE, nonce |-> None, seen |-> {}, at |-> 0, asOf |-> 0]
Posts == [kind : {"enable", "pause", "renew", "observation"}, port : Ports \cup {None},
          nonce : Requests \cup {None}, at : {"sent", "checking", "done", "failed"}]
Messages == [port : Ports, kind : {"ready", "snapshot", "observation"},
             nonce : Requests \cup {None}, ok : BOOLEAN, asOf : Nat]

LinkTypeOK ==
    /\ lease \in [owner : {"none", "me", "other"}, nonce : Requests \cup {None},
                  made : Requests \cup {None}, expired : SUBSET Requests]
    /\ page.allowed \in BOOLEAN /\ page.timer \in BOOLEAN
    /\ page.seen \in [owner : {"none", "me", "other"}, nonce : Requests \cup {None}]
    /\ page.port \in Ports \cup {None} /\ page.opened \in Ports \cup {None}
    /\ page.pending \in Requests \cup {None}
    /\ page.enable \in {"none", "ready"} /\ posts \subseteq Posts
    /\ wire \subseteq Messages
    /\ ports \in [Ports -> [open : BOOLEAN, known : BOOLEAN, nonce : Requests \cup {None},
                            seen : SUBSET Requests, at : 0 .. 4, asOf : Nat]]
    /\ share \in [ok : BOOLEAN, changes : Nat]
    /\ taken \in [Requests -> Nat]
    /\ steps \in 0 .. MaxSteps

LinkInit ==
    /\ lease = [owner |-> "none", nonce |-> None, made |-> None, expired |-> {}]
    /\ page = [allowed |-> FALSE, timer |-> FALSE, seen |-> [owner |-> "none", nonce |-> None],
               port |-> None, opened |-> None, pending |-> None, enable |-> "none"]
    /\ posts = {} /\ wire = {} /\ ports = [p \in Ports |-> Closed]
    /\ share = [ok |-> TRUE, changes |-> 0]
    /\ taken = [n \in Requests |-> 0] /\ steps = MaxSteps

Step == steps > 0 /\ steps' = steps - 1

-----------------------------------------------------------------------------
(* bridge.js. *)

\* disconnect(): the port of the page is forgotten, the extension learns of it.
Forgotten(pg) == [pg EXCEPT !.port = None, !.pending = None]

\* session.js disconnect().
LetGo(pg) == [Forgotten(pg) EXCEPT !.allowed = FALSE, !.timer = FALSE]

Post(k) == [kind |-> k, port |-> None, nonce |-> None, at |-> "sent"]

\* The status callback of enable(): a connection that ends while it is allowed lets go
\* and pauses the lease (activityControl refuses that while a message is being sent).
Ended(pg) == IF pg.allowed THEN LetGo(pg) ELSE Forgotten(pg)
EndIsPosted ==
    \/ UNCHANGED posts
    \/ page.allowed /\ page.port # None /\ posts' = posts \cup {Post("pause")}

\* enable() and connect(): the old port is left, and its callback told; the new one is
\* asked whether it is ready.
Opens ==
    /\ page.opened < MaxPorts /\ Step
    /\ LET p == page.opened + 1 IN
       /\ page' = [Ended(page) EXCEPT !.port = p, !.opened = p, !.enable = "ready"]
       /\ ports' = [ports EXCEPT ![p] = [Closed EXCEPT !.open = TRUE]]
    /\ EndIsPosted
    /\ UNCHANGED <<lease, wire, share, taken>>

\* Presence handshake of the extension: whether Chrome granted the access.
Greets(p) ==
    /\ ports[p].open /\ ~ports[p].known
    /\ ports' = [ports EXCEPT ![p].known = TRUE]
    /\ wire' = wire \cup {[port |-> p, kind |-> "ready", nonce |-> None, ok |-> share.ok,
                           asOf |-> 0]}
    /\ UNCHANGED <<lease, posts, page, share, taken, steps>>

\* readiness(): the answer, or the timeout of 3 s; then session.js asks for the lease,
\* unless a message is being sent.
Readied ==
    /\ page.enable = "ready"
    /\ \/ \E m \in wire :
            /\ m.kind = "ready" /\ m.port = page.opened
            /\ wire' = wire \ {m}
            /\ IF m.ok /\ page.port = m.port
               THEN \/ /\ page' = [page EXCEPT !.enable = "none", !.allowed = TRUE]
                       /\ posts' = posts \cup {Post("enable")} /\ UNCHANGED steps
                    \/ Step /\ page' = [LetGo(page) EXCEPT !.enable = "none"] /\ UNCHANGED posts
               ELSE /\ page' = [(IF page.port = m.port THEN Forgotten(page) ELSE page)
                                    EXCEPT !.enable = "none"]
                    /\ UNCHANGED <<posts, steps>>
       \/ /\ Step /\ page' = [Forgotten(page) EXCEPT !.enable = "none"]
          /\ UNCHANGED <<wire, posts>>
    /\ UNCHANGED <<lease, ports, share, taken>>

\* Mutant: an answer of an older connection is as good as one of this one.
MutAnswers(m) == m.kind = "observation" /\ m.nonce = page.pending /\ page.port # None

\* The observation listener of connect().
Answers(m) == m.kind = "observation" /\ m.port = page.port /\ m.nonce = page.pending

-----------------------------------------------------------------------------
(* session.js. *)

Owns(pg) == pg.allowed /\ pg.seen.owner = "me"

\* The page reads the state of the service: it forwards a new request while it
\* owns the lease, and lets the connection go when it lost it.
Updated(pg, s) ==
    LET q == [pg EXCEPT !.seen = s] IN
    IF ~Owns(q) THEN IF q.allowed /\ s.owner # "me" THEN LetGo(q) ELSE q
    ELSE [q EXCEPT !.timer = TRUE]

\* bridge.update.
Forwards(pg) ==
    /\ Owns(pg) /\ pg.port # None /\ pg.seen.nonce # None
    /\ pg.seen.nonce \notin lease.expired /\ pg.pending # pg.seen.nonce

Shows(s) ==
    LET q == Updated(page, s) IN
    IF Forwards(q)
    THEN /\ page' = [q EXCEPT !.pending = s.nonce]
         /\ wire' = wire \cup {[port |-> q.port, kind |-> "snapshot", nonce |-> s.nonce,
                                ok |-> TRUE, asOf |-> 0]}
    ELSE page' = q /\ UNCHANGED wire

\* The activity part of the service's snapshot.
State == [owner |-> lease.owner, nonce |-> lease.nonce]

\* The client emits: a poll answered, or something else changed in the page.
Polls ==
    /\ State # page.seen /\ Shows(State)
    /\ UNCHANGED <<lease, posts, ports, share, taken, steps>>

Emits ==
    /\ page.allowed /\ Step /\ Shows(page.seen)
    /\ UNCHANGED <<lease, posts, ports, share, taken>>

\* control('pause') or ('off'), of a lease this page or another has, and pagehide.
Pauses ==
    /\ page.seen.owner # "none" /\ Step
    /\ page' = LetGo(page) /\ posts' = posts \cup {Post("pause")}
    /\ UNCHANGED <<lease, wire, ports, share, taken>>

\* The lease timer: renew().
Renews ==
    /\ page.timer /\ Owns(page) /\ \A q \in posts : q.kind # "renew"
    /\ posts' = posts \cup {Post("renew")}
    /\ UNCHANGED <<lease, page, wire, ports, share, taken, steps>>

\* An answer of the extension: the page posts it while it owns the lease.
Observes(m) ==
    /\ m \in wire /\ m.kind = "observation"
    /\ wire' = wire \ {m}
    /\ page' = IF Answers(m) THEN [page EXCEPT !.pending = None] ELSE page
    /\ posts' = IF Answers(m) /\ Owns(page)
                THEN posts \cup {[kind |-> "observation", port |-> m.port, nonce |-> m.nonce,
                                  at |-> "sent"]}
                ELSE posts
    /\ UNCHANGED <<lease, ports, share, taken, steps>>

\* The answer to a request, or its failure, reaches the page: after the lease was
\* granted or paused it shows the state it was told, without it it lets go.
Hears(q) ==
    /\ posts' = posts \ {q}
    /\ \/ q.at = "done" /\ q.kind = "enable" /\ Shows([owner |-> "me", nonce |-> None])
       \/ q.at = "done" /\ q.kind = "pause" /\ Shows([owner |-> "none", nonce |-> None])
       \/ q.at = "failed" /\ page' = LetGo(page) /\ UNCHANGED wire
    /\ UNCHANGED <<lease, ports, share, taken, steps>>

-----------------------------------------------------------------------------
(* proactive.py: control, renew and observe.  What the requests of other pages do *)
(* and what time does is Serves, below.                                            *)

Moves(q, at) == posts' = (posts \ {q}) \cup {[q EXCEPT !.at = at]}

\* The lease is granted unless another page has it.
ServesEnable(q) ==
    /\ q.kind = "enable" /\ q.at = "sent"
    /\ IF lease.owner = "other" THEN Moves(q, "failed") /\ UNCHANGED lease
       ELSE /\ Moves(q, "done")
            /\ lease' = [lease EXCEPT !.owner = "me", !.nonce = None]
    /\ UNCHANGED <<page, wire, ports, share, taken, steps>>

\* "Any local page can make the stop effective."
ServesPause(q) ==
    /\ q.kind = "pause" /\ q.at = "sent" /\ Moves(q, "done")
    /\ lease' = [lease EXCEPT !.owner = "none", !.nonce = None]
    /\ UNCHANGED <<page, wire, ports, share, taken, steps>>

ServesRenew(q) ==
    /\ q.kind = "renew" /\ q.at = "sent"
    /\ IF lease.owner = "me" THEN posts' = posts \ {q} ELSE Moves(q, "failed")
    /\ UNCHANGED <<lease, page, wire, ports, share, taken, steps>>

\* Mutant: the request is closed only when the observation is taken.
MutChecks(q) ==
    /\ q.kind = "observation" /\ q.at = "sent"
    /\ IF lease.owner = "me" /\ lease.nonce = q.nonce
       THEN Moves(q, "checking") ELSE posts' = posts \ {q}
    /\ UNCHANGED <<lease, page, wire, ports, share, taken, steps>>

\* observe() up to its await: the owner of the lease answers the request that is open,
\* in time; that request is closed.
Checks(q) ==
    /\ q.kind = "observation" /\ q.at = "sent"
    /\ IF lease.owner = "me" /\ lease.nonce = q.nonce
       THEN Moves(q, "checking") /\ lease' = [lease EXCEPT !.nonce = None]
       ELSE posts' = posts \ {q} /\ UNCHANGED lease
    /\ UNCHANGED <<page, wire, ports, share, taken, steps>>

\* Mutant: what was allowed before the await is not asked again.
MutTakes(q) ==
    /\ q.at = "checking" /\ posts' = posts \ {q}
    /\ taken' \in {taken, [taken EXCEPT ![q.nonce] = @ + 1]}
    /\ UNCHANGED <<lease, page, wire, ports, share, steps>>

\* observe() after foreground_is_chrome(): Chrome is in front or not, and a lease is
\* active, this page's or, since, another's.
Takes(q) ==
    /\ q.at = "checking" /\ posts' = posts \ {q}
    /\ \/ UNCHANGED taken
       \/ lease.owner # "none" /\ taken' = [taken EXCEPT ![q.nonce] = @ + 1]
    /\ UNCHANGED <<lease, page, wire, ports, share, steps>>

\* The request or its answer is lost, or the service refuses it.
Fails(q) ==
    /\ q.at \in {"sent", "done"} /\ Step
    /\ IF q.kind \in {"enable", "renew"} THEN Moves(q, "failed") ELSE posts' = posts \ {q}
    /\ UNCHANGED <<lease, page, wire, ports, share, taken>>

-----------------------------------------------------------------------------
(* The extension: onConnectExternal and activeSnapshot. *)

\* A request is answered once, and one at a time; an expired one is not.
TakesRequest(m) ==
    /\ m \in wire /\ m.kind = "snapshot"
    /\ wire' = wire \ {m}
    /\ LET q == ports[m.port] IN
       ports' = IF q.open /\ m.nonce \notin lease.expired /\ q.nonce = None /\ m.nonce \notin q.seen
                THEN [ports EXCEPT ![m.port] = [q EXCEPT !.nonce = m.nonce, !.at = 1,
                            !.seen = @ \cup {m.nonce}, !.asOf = share.changes]]
                ELSE ports
    /\ UNCHANGED <<lease, posts, page, share, taken, steps>>

\* stillAllowed, and the privacy revision the snapshot began with.
StillAllowed(p) ==
    /\ ports[p].open /\ ports[p].nonce \notin lease.expired
    /\ ports[p].asOf = share.changes

\* Mutant: the page in front is read after the last check.
MutLooks(p) ==
    LET q == ports[p] IN
    /\ q.nonce # None
    /\ IF q.at < 3
       THEN ports' = [ports EXCEPT ![p].at = @ + 1] /\ UNCHANGED wire
       ELSE /\ ports' = [ports EXCEPT ![p].nonce = None, ![p].at = 0]
            /\ wire' = wire \cup {[port |-> p, kind |-> "observation", nonce |-> q.nonce,
                                   ok |-> TRUE, asOf |-> q.asOf]}
    /\ UNCHANGED <<lease, posts, page, share, taken, steps>>

\* The awaits of activeSnapshot: the grant, the tab and the exclusions, the tab
\* again and the exclusions again; it gives up when one is not what it was.
Looks(p) ==
    LET q == ports[p]
        done == [ports EXCEPT ![p].nonce = None, ![p].at = 0]
        says(shared) == wire' = wire \cup
            {[port |-> p, kind |-> "observation", nonce |-> q.nonce, ok |-> shared,
              asOf |-> IF shared THEN q.asOf ELSE share.changes]}
    IN
    /\ q.nonce # None
    /\ IF ~StillAllowed(p)
       THEN ports' = done /\ UNCHANGED wire
       ELSE \/ q.at < 4 /\ share.ok /\ ports' = [ports EXCEPT ![p].at = @ + 1] /\ UNCHANGED wire
            \/ q.at = 4 /\ share.ok /\ ports' = done /\ says(TRUE)
            \/ ~share.ok /\ ports' = done /\ says(FALSE)         \* activity_unshared
            \/ q.at > 1 /\ ports' = done /\ UNCHANGED wire       \* another tab is in front
    /\ UNCHANGED <<lease, posts, page, share, taken, steps>>

\* The port closes on the extension's side after the page left it, or when the
\* extension stops; the page is told of that.  A look at the page that was under
\* way finds its port gone and ends without a word.
Disconnects(p) ==
    /\ ports[p].open
    /\ \/ page.port # p /\ UNCHANGED <<page, posts, steps>>
       \/ /\ page.port = p /\ Step
          /\ page' = [Ended(page) EXCEPT !.enable = "none"]
          /\ EndIsPosted
    /\ ports' = [ports EXCEPT ![p] = Closed]
    /\ UNCHANGED <<lease, wire, share, taken>>

-----------------------------------------------------------------------------
(* The environment: the service asks, a request or the lease expires, another    *)
(* page takes the lease, and the person changes what is shared.                  *)

Serves ==
    \/ /\ lease.owner = "me" /\ lease.made < MaxRequests /\ Step
       /\ lease' = [lease EXCEPT !.nonce = lease.made + 1, !.made = @ + 1] /\ UNCHANGED share
    \/ /\ lease.nonce # None
       /\ lease' = [lease EXCEPT !.expired = @ \cup {lease.nonce}, !.nonce = None]
       /\ UNCHANGED <<share, steps>>
    \/ /\ Step /\ lease.owner # "none"
       /\ lease' = [lease EXCEPT !.owner = "none", !.nonce = None] /\ UNCHANGED share
    \/ /\ Step /\ lease.owner = "none"
       /\ lease' = [lease EXCEPT !.owner = "other"] /\ UNCHANGED share
    \/ Step /\ share' = [ok |-> ~share.ok, changes |-> share.changes + 1] /\ UNCHANGED lease

LinkNext ==
    \/ Opens \/ Readied \/ Polls \/ Emits \/ Pauses \/ Renews
    \/ \E p \in Ports : Greets(p) \/ Looks(p) \/ Disconnects(p)
    \/ \E m \in wire : Observes(m) \/ TakesRequest(m)
    \/ \E q \in posts :
          \/ Hears(q) \/ ServesEnable(q) \/ ServesPause(q) \/ ServesRenew(q)
          \/ Checks(q) \/ Takes(q) \/ Fails(q)
    \/ Serves /\ UNCHANGED <<posts, page, wire, ports, taken>>

LinkSpec == LinkInit /\ [][LinkNext]_linkVars

-----------------------------------------------------------------------------
(* Properties. *)

\* "Recheck after the Chrome reads so revocation or an exclusion also wins over a
\* sample already in flight" (background.js): whatever of the port, the lease, the
\* request and the exclusions changes while the extension looks at the page, an
\* answer it posts is for a request that is still open and not expired, on a port
\* still connected, with sharing as it was when it was asked.
AnswersAreAllowed ==
    \A m \in wire' \ wire : m.kind = "observation" =>
      /\ ports[m.port].open /\ m.asOf = share.changes
      /\ m.nonce \notin lease.expired /\ (m.ok => share.ok)

\* An observation leaves the page only from the connection it has now, while it is
\* allowed (bridge.js, session.js); whatever is paused, granted again, lost or answered
\* twice while the service looks which application is in front, the answer to a request
\* becomes context at most once, and only while a lease is active (proactive.py, observe).
TakenIsCurrent ==
    /\ \A q \in posts' \ posts : q.kind = "observation" /\ q.at = "sent" =>
         page.allowed /\ q.port = page.port /\ q.nonce = page.pending
    /\ \A n \in Requests : taken'[n] # taken[n] =>
         taken[n] = 0 /\ taken'[n] = 1 /\ lease.owner # "none"
=============================================================================
