----------------------------- MODULE NativeBridge -----------------------------
(***************************************************************************)
(* The service worker of the Chrome extension (activity/extension:         *)
(* background.js and native.js): it keeps one native port to the local     *)
(* service, reconnects it a bounded number of times, and answers each      *)
(* sample request of the service with the page in front, when the person   *)
(* still shares it.  Chrome (the grant, the excluded sites, the tabs) and  *)
(* the native host are the environment; Chrome tells the worker of a       *)
(* change later than it happens.                                           *)
(***************************************************************************)
EXTENDS Integers, Sequences

CONSTANTS Sites,       \* hosts of the pages the person visits
          NoSite,      \* no page that may be sampled is in front
          RetryLimit,  \* NATIVE_RECONNECT_LIMIT (11)
          MaxActs      \* bound: what the person, Chrome and the native host do

VARIABLES
    chrome,   \* the grant, excludedHosts, the page in front, and what the worker was not told
    worker,   \* the globals of background.js and the closure of createNativeContext
    calls,    \* the functions of the worker that await: refreshes, a verification, a sample
    shared,   \* the last event sent
    told,     \* how often the worker learned that sharing changed
    acts      \* bound: acts left

nativeVars == <<chrome, worker, calls, shared, told, acts>>

NoPolicy == [on |-> FALSE, banned |-> {}, text |-> FALSE, got |-> FALSE]
Policies == [on : BOOLEAN, banned : {{}} \cup {{s} : s \in Sites}, text : BOOLEAN, got : {TRUE}]
Idle == [at |-> 0, gen |-> 0, policy |-> NoPolicy, site |-> NoSite, asOf |-> 0, never |-> {}]
NoEvent == [site |-> NoSite, asOf |-> 0, never |-> {}, gen |-> 0]

\* The awaits of sample(), in order.
Awaits == <<"grant", "window", "tab", "stored", "grant", "text",
            "window", "tab", "stored", "grant">>

NativeTypeOK ==
    /\ chrome.granted \in BOOLEAN /\ chrome.excluded \subseteq Sites
    /\ chrome.page \in Sites \cup {NoSite} /\ chrome.news \in Seq({"removed", "added", "excluded"})
    /\ worker.port \in BOOLEAN /\ worker.policy \in Policies \cup {NoPolicy}
    /\ worker.gen \in Nat /\ worker.verified \in BOOLEAN /\ worker.made \in BOOLEAN
    /\ worker.state \in {"unavailable", "connected", "ready", "disabled", "unshared", "shared",
                         "error", "disconnected", "browser-access-off"}
    /\ worker.timer \in BOOLEAN /\ worker.tries \in 0 .. RetryLimit /\ worker.blocked \in BOOLEAN
    /\ calls.refreshes \subseteq {"timer", "other"}
    /\ calls.verify \in Nat /\ calls.sample.at \in 0 .. Len(Awaits)
    /\ shared.site \in Sites \cup {NoSite} /\ told \in Nat /\ acts \in 0 .. MaxActs

NativeInit ==
    /\ chrome \in [granted : BOOLEAN, excluded : {{}}, page : {CHOOSE s \in Sites : TRUE},
                   news : {<<>>}]
    /\ worker = [port |-> FALSE, policy |-> NoPolicy, gen |-> 0, verified |-> FALSE,
                 made |-> FALSE, state |-> "unavailable", timer |-> FALSE, tries |-> 0,
                 blocked |-> FALSE]
    /\ calls = [refreshes |-> {"other"}, verify |-> 0, sample |-> Idle]  \* the call at load
    /\ shared = NoEvent /\ told = 0 /\ acts = MaxActs

Acts == acts > 0 /\ acts' = acts - 1

-----------------------------------------------------------------------------
(* The bounded reconnect of background.js. *)

StopsReconnect(w) == [w EXCEPT !.timer = FALSE, !.tries = 0]

\* Mutant: one retry too many.
MutSchedulesReconnect(w) ==
    IF w.blocked \/ w.timer \/ w.tries > RetryLimit THEN w
    ELSE [w EXCEPT !.timer = TRUE, !.tries = @ + 1]

SchedulesReconnect(w) ==
    IF w.blocked \/ w.timer \/ w.tries >= RetryLimit THEN w
    ELSE [w EXCEPT !.timer = TRUE, !.tries = @ + 1]

\* report() and the onStatus that background.js passes: a verified handshake ends
\* the retries, a lost connection starts them.
Reports(w, s) ==
    LET v == [w EXCEPT !.state = s] IN
    IF v.verified THEN StopsReconnect(v)
    ELSE IF ~v.port /\ s \in {"disconnected", "error"} THEN SchedulesReconnect(v)
    ELSE v

\* The port is gone: disconnect(), or the onDisconnect of the current port.
Closed(w) ==
    Reports([w EXCEPT !.gen = @ + 1, !.port = FALSE, !.policy = NoPolicy, !.verified = FALSE],
            "disconnected")

\* Mutant: the retry that waits is not cancelled.
MutAccessOff(w) ==
    LET v == [w EXCEPT !.blocked = TRUE] IN
    [(IF v.made THEN Closed(v) ELSE v) EXCEPT !.state = "browser-access-off"]

\* The access was taken back: no retry may open the port again.
AccessOff(w) ==
    LET v == StopsReconnect([w EXCEPT !.blocked = TRUE]) IN
    [(IF v.made THEN Closed(v) ELSE v) EXCEPT !.state = "browser-access-off"]

\* connect(): one port at a time.
Connected(w) ==
    IF w.port THEN w
    ELSE Reports([w EXCEPT !.gen = @ + 1, !.port = TRUE], "connected")

\* refreshNativeStatus: Chrome answers hasGrant, and connectNative may throw.  A
\* retry that did not connect schedules the next one.
Refreshes(r) ==
    /\ r \in calls.refreshes
    /\ LET w == [worker EXCEPT !.blocked = FALSE, !.made = TRUE]
           thrown == SchedulesReconnect([w EXCEPT !.state = "error", !.gen = @ + 1])
           again(v) == IF r = "timer" /\ ~v.port /\ v.state # "browser-access-off"
                       THEN SchedulesReconnect(v) ELSE v
       IN  IF ~chrome.granted THEN worker' = AccessOff(worker) /\ told' = told + 1
           ELSE /\ \/ worker' = again(Connected(w))
                   \/ ~worker.port /\ worker' = again(thrown)
                /\ UNCHANGED told
    /\ calls' = [calls EXCEPT !.refreshes = @ \ {r}]
    /\ UNCHANGED <<chrome, shared, acts>>

\* The timer of scheduleNativeReconnect.
Reconnects ==
    /\ worker.timer /\ "timer" \notin calls.refreshes
    /\ worker' = [worker EXCEPT !.timer = FALSE]
    /\ calls' = [calls EXCEPT !.refreshes = @ \cup {"timer"}]
    /\ UNCHANGED <<chrome, shared, told, acts>>

\* connectNativeWhenAllowed, at start and when Chrome is focused again; the popup
\* and the page of felis also ask for the status.
Asks ==
    /\ "other" \notin calls.refreshes /\ Acts
    /\ calls' = [calls EXCEPT !.refreshes = @ \cup {"other"}]
    /\ worker' \in {worker, [worker EXCEPT !.blocked = FALSE]}
    /\ UNCHANGED <<chrome, shared, told>>

-----------------------------------------------------------------------------
(* What Chrome tells the worker. *)

\* Mutant: a changed exclusion does not invalidate what is in flight.
MutInvalidated(w) == w

\* invalidatePrivacy.
Invalidated(w) == [w EXCEPT !.gen = @ + 1]

Hears ==
    /\ chrome.news # <<>>
    /\ chrome' = [chrome EXCEPT !.news = Tail(@)]
    /\ CASE Head(chrome.news) = "removed" ->
                worker' = AccessOff(worker) /\ told' = told + 1 /\ UNCHANGED calls
         [] Head(chrome.news) = "excluded" ->
                /\ worker' = IF worker.made THEN Invalidated(worker) ELSE worker
                /\ told' = told + 1 /\ UNCHANGED calls
         [] OTHER ->
                /\ worker' = [worker EXCEPT !.blocked = FALSE]
                /\ calls' = [calls EXCEPT !.refreshes = @ \cup {"other"}]
                /\ UNCHANGED told
    /\ UNCHANGED <<shared, acts>>

-----------------------------------------------------------------------------
(* The native port. *)

PortDrops ==
    /\ worker.port /\ Acts
    /\ worker' = Closed(worker) /\ told' = told + 1
    /\ UNCHANGED <<chrome, calls, shared>>

\* A policy replaces the one before it, and has to be verified.
TakesPolicy ==
    /\ worker.port /\ Acts
    /\ \E p \in Policies :
         worker' = [worker EXCEPT !.policy = p, !.gen = @ + 1, !.verified = FALSE]
    /\ calls' = [calls EXCEPT !.verify = worker.gen + 1]
    /\ told' = told + 1
    /\ UNCHANGED <<chrome, shared>>

\* samePolicy and current: the generation the function began with is still there.
Current(gen, p) == worker.port /\ worker.gen = gen /\ p.on

\* verifyPolicy: the grant is read again before the handshake.
Verifies ==
    /\ calls.verify # 0
    /\ calls' = [calls EXCEPT !.verify = 0]
    /\ worker' = IF ~(worker.port /\ worker.gen = calls.verify) THEN worker
                 ELSE IF ~chrome.granted THEN Reports(worker, "browser-access-off")
                 ELSE Reports([worker EXCEPT !.verified = TRUE],
                              IF worker.policy.on THEN "ready" ELSE "disabled")
    /\ UNCHANGED <<chrome, shared, told, acts>>

\* A sample request of the session and the epoch of the policy.
TakesSample ==
    /\ worker.port /\ worker.policy.on /\ calls.sample.at = 0 /\ Acts
    /\ calls' = [calls EXCEPT !.sample =
                    [at |-> 1, gen |-> worker.gen, policy |-> worker.policy, site |-> NoSite,
                     asOf |-> told, never |-> chrome.excluded]]
    /\ UNCHANGED <<chrome, worker, shared, told>>

\* Mutant: the tab is compared, the policy and the grant are not looked at again.
MutGoesOn(s) ==
    LET what == Awaits[s.at] IN
    CASE what = "grant" -> chrome.granted
      [] what = "window" -> chrome.page # NoSite
      [] what = "tab" -> chrome.page # NoSite /\ (s.site # NoSite => chrome.page = s.site)
      [] what = "stored" -> s.site \notin s.policy.banned \cup chrome.excluded
      [] OTHER -> TRUE

\* What sample() checks when an await is answered, and the value it read then.
GoesOn(s) ==
    LET what == Awaits[s.at]
        current == Current(s.gen, s.policy) IN
    CASE what = "grant" -> chrome.granted /\ current
      [] what = "window" -> chrome.page # NoSite /\ (s.at < 6 => current)
      [] what = "tab" -> /\ chrome.page # NoSite /\ current
                         /\ s.site # NoSite => chrome.page = s.site
      [] what = "stored" -> current /\ s.site \notin s.policy.banned \cup chrome.excluded
      [] OTHER -> current

Samples ==
    LET s == calls.sample
        last == s.at = Len(Awaits)
        next == IF s.at = 5 /\ ~s.policy.text THEN 7 ELSE s.at + 1
    IN
    /\ s.at # 0
    /\ IF ~GoesOn(s)
       THEN /\ calls' = [calls EXCEPT !.sample = Idle]
            /\ worker' = Reports(worker, "unshared") /\ UNCHANGED shared
       ELSE IF last
       THEN /\ shared' = [site |-> s.site, asOf |-> s.asOf, never |-> s.never, gen |-> s.gen]
            /\ calls' = [calls EXCEPT !.sample = Idle] /\ worker' = Reports(worker, "shared")
       ELSE /\ calls' = [calls EXCEPT !.sample =
                            [@ EXCEPT !.at = next,
                                      !.site = IF Awaits[s.at] = "tab" THEN chrome.page
                                                ELSE s.site]]
            /\ UNCHANGED <<worker, shared>>
    /\ UNCHANGED <<chrome, told, acts>>

\* Chrome throws: nothing is sent.
SampleThrows ==
    /\ calls.sample.at # 0 /\ Acts
    /\ calls' = [calls EXCEPT !.sample = Idle]
    /\ worker' = IF Current(calls.sample.gen, calls.sample.policy) THEN Reports(worker, "error")
                 ELSE worker
    /\ UNCHANGED <<chrome, shared, told>>

-----------------------------------------------------------------------------
(* The person: the grant, the excluded sites and the page in front. *)

Chooses ==
    /\ Acts
    /\ \/ \E s \in (Sites \cup {NoSite}) \ {chrome.page} :
            chrome' = [chrome EXCEPT !.page = s] /\ UNCHANGED calls
       \/ /\ chrome' = [chrome EXCEPT !.granted = ~@,
                             !.news = Append(@, IF chrome.granted THEN "removed" ELSE "added")]
          /\ UNCHANGED calls
       \/ \E x \in (SUBSET Sites) \ {chrome.excluded} :
            /\ chrome' = [chrome EXCEPT !.excluded = x, !.news = Append(@, "excluded")]
            /\ calls' = [calls EXCEPT !.sample =
                                [@ EXCEPT !.never = calls.sample.never \cap x]]
    /\ UNCHANGED <<worker, shared, told>>

NativeNext ==
    \/ \E r \in {"timer", "other"} : Refreshes(r)
    \/ Reconnects \/ Asks \/ Hears \/ PortDrops \/ TakesPolicy \/ Verifies
    \/ TakesSample \/ Samples \/ SampleThrows \/ Chooses

NativeSpec == NativeInit /\ [][NativeNext]_nativeVars

-----------------------------------------------------------------------------
(* Properties. *)

\* "Recheck after the Chrome reads so revocation or an exclusion also wins over a
\* sample already in flight" (background.js): an event is sent only when, since
\* the service asked for it, the worker was told of no new policy, no lost port,
\* no removed grant and no changed exclusion, and it is never of a site that was
\* excluded all that time.
SharedIsAllowed ==
    shared' # shared =>
      /\ shared'.asOf = told /\ shared'.site \notin shared'.never
      /\ worker.port /\ shared'.site \notin worker.policy.banned

\* "Reconnect only after a known local bridge failure.  This is deliberately
\* bounded" (background.js): when nothing is in flight and the person allows it, a
\* worker without a port has a retry waiting, unless it used them all; after
\* the access was removed neither a port nor a retry is left.
LostPortIsRetried ==
    chrome.news = <<>> /\ calls.refreshes = {} =>
        IF chrome.granted
        THEN worker.port \/ worker.timer \/ worker.tries = RetryLimit
        ELSE ~worker.port /\ ~worker.timer
=============================================================================
