------------------------------ MODULE ButbHttp ------------------------------
\* The conversation with zakupki.butb.by (mcp/procurement/src/butb-http.ts): one
\* server-side session whose table is a cursor that every call moves, and which a
\* search or a card leaves degraded. On top of it the calls of butb-source.ts: a
\* page of the registry ("list"), a search for its terms, two pages of each
\* ("find"), a card that is located and opened ("card"). Calls overlap when the
\* caller of an earlier one has given it up.
EXTENDS Naturals, Sequences, FiniteSets

CONSTANTS
    Callers,            \* calls of the child that may be under way at once
    Terms, Barren,      \* the sequence of what is searched for; what has no rows
    FailuresMax,        \* circuitFailureThreshold
    CallsLimit, Deaths, Breaks     \* bounds on calls, lost sessions, failed requests

NoFilter == "no filter"
Criteria == {Terms[i] : i \in DOMAIN Terms}
Following(want) == {Terms[i + 1] : i \in {j \in 1..(Len(Terms) - 1) : Terms[j] = want}}

ASSUME ButbBounds ==
    /\ Barren \subseteq Criteria /\ FailuresMax \in Nat \ {0} /\ IsFiniteSet(Callers)
    /\ Terms \in Seq(Criteria) /\ NoFilter \notin Criteria

VARIABLES
    http,       \* what the client believes: its view, card, panel, search, circuit
    site,       \* the session that view belongs to, while it lives
    conv,       \* the calls
    lockQueue,  \* #operationQueue, the holder first
    depth,      \* #sessionDepth
    begun, deaths, breaks,
    seen        \* history: what has gone wrong for a call, or has been in its way

butbVars == <<http, site, conv, lockQueue, depth, begun, deaths, breaks, seen>>

Pages == 1..2
Requests == {"boot", "page", "expand", "submit", "restore", "open", "card"}
Quiet == [script |-> "none", want |-> NoFilter, at |-> 1, op |-> "none", pc |-> "idle",
          holds |-> FALSE, try |-> 1, whole |-> 1]
Fresh == [filter |-> NoFilter, page |-> 1, panel |-> FALSE, degraded |-> FALSE]

\* #resetSession: all that was known of the session, cookies included.
Reset(h) == [h EXCEPT !.view = "none", !.card = FALSE, !.expanded = FALSE, !.applied = NoFilter]

\* #recordSuccess, #recordFailure.
Succeeded(h) == [h EXCEPT !.failures = 0, !.open = FALSE]
Failed(h) == IF h.failures + 1 >= FailuresMax THEN [h EXCEPT !.failures = 0, !.open = TRUE]
             ELSE [h EXCEPT !.failures = @ + 1]

\* A session the client has dropped is nobody's.
SiteKept == site' = IF http'.view = "live" THEN site ELSE Fresh

----------------------------------------------------------------------------
\* #serialized: a call waits for the lock, or passes it while somebody is inside
\* withSession, whoever that is.
Inside(r) == IF r.script = "card" THEN 1 ELSE 0
Serialized(c, r, d, q, why) ==
    /\ seen' = seen \union why \union (IF d > 0 THEN {"barged"} ELSE {})
    /\ IF d > 0
       THEN /\ conv' = [conv EXCEPT ![c] = [r EXCEPT !.pc = "start", !.holds = FALSE]]
            /\ depth' = d + Inside(r) /\ lockQueue' = q
       ELSE /\ conv' = [conv EXCEPT ![c] = [r EXCEPT !.pc = "wait", !.holds = TRUE]]
            /\ depth' = d /\ lockQueue' = Append(q, c)

Released(c) == IF conv[c].holds THEN Tail(lockQueue) ELSE lockQueue
Left(c) == depth - Inside(conv[c])

Call(c, script, want, at) ==
    /\ conv[c].pc = "idle" /\ begun < CallsLimit /\ begun' = begun + 1
    /\ (script = "find") = (want # NoFilter) /\ (script = "find" => at = 1)
    /\ Serialized(c, [Quiet EXCEPT !.script = script, !.want = want, !.at = at,
                         !.op = IF script = "find" THEN "filtered" ELSE "registry"], depth, lockQueue, {})
    /\ UNCHANGED <<http, site, deaths, breaks>>

Enter(c) ==
    /\ conv[c].pc = "wait" /\ Head(lockQueue) = c
    /\ conv' = [conv EXCEPT ![c].pc = "start"]
    /\ depth' = depth + Inside(conv[c])
    /\ UNCHANGED <<http, site, lockQueue, begun, deaths, breaks, seen>>

Goes(c, r, why) ==
    conv' = [conv EXCEPT ![c] = r] /\ seen' = seen \union why /\ UNCHANGED <<lockQueue, depth>>
Continues(c, r) == Goes(c, r, {})

\* A call ends and frees the lock; a search has its filter still to drop.
Ends(c, why) ==
    /\ conv' = [conv EXCEPT ![c] = [Quiet EXCEPT
                    !.pc = IF conv[c].script = "find" THEN "clear" ELSE "idle"]]
    /\ lockQueue' = Released(c) /\ depth' = Left(c) /\ seen' = seen \union why

\* clearSearch, in the finally of ButbSource.search. Who has begun in the session
\* meanwhile loses it.
Clear(c) ==
    /\ conv[c].pc = "clear"
    /\ http' = IF http.expanded \/ http.applied # NoFilter THEN Reset(http) ELSE http
    /\ SiteKept
    /\ conv' = [conv EXCEPT ![c].pc = "idle"]
    /\ seen' = IF http' # http /\ \E d \in Callers : conv[d].pc \in Requests
                  THEN seen \union {"cleared"} ELSE seen
    /\ UNCHANGED <<lockQueue, depth, begun, deaths, breaks>>

\* A call that joined the bootstrap of another.
Joined(c) == conv[c].pc = "boot" /\ http.view # "none"

\* Both go on before anything more is heard of the network.
NetworkIsHeard == \A c \in Callers : conv[c].pc # "clear" /\ ~ Joined(c)

\* #load runs the whole of locate and open again when the view died in it.
LoadsAgain(c) == conv[c].script = "card" /\ conv[c].whole = 1

\* #guarded: a view that died is replaced and the operation replayed, once.
Expires(c) ==
    IF conv[c].try = 1
    THEN http' = Reset(http) /\ Continues(c, [conv[c] EXCEPT !.try = 2, !.pc = "start"])
    ELSE /\ http' = Failed(http)
         /\ IF LoadsAgain(c)
            THEN Serialized(c, [conv[c] EXCEPT !.op = "registry", !.try = 1, !.whole = 2],
                            Left(c), Released(c), {})
            ELSE Ends(c, {"failed"})

\* What the caller reads next: the second page of a term, the next term.
NextRead(r) ==
    IF r.script # "find" THEN {}
    ELSE IF r.at = 1 /\ r.want \notin Barren THEN {[r EXCEPT !.at = 2, !.try = 1]}
    ELSE {[r EXCEPT !.want = t, !.at = 1, !.try = 1] : t \in Following(r.want)}

\* What it does with a table: a degraded one is refused (registryPageRows), a card
\* is opened once its row was found, a search reads on.
Usable(t) == ~ t.degraded \/ t.filter \in Barren
Answers(c, h, t) ==
    LET r   == conv[c]
        why == IF t.filter = r.want /\ t.page = r.at THEN {} ELSE {"mistaken"}
    IN  /\ http' = Succeeded(h)
        /\ IF ~ Usable(t) THEN Ends(c, why \union {"poisoned"})
           ELSE IF r.script = "card"
           THEN Goes(c, [r EXCEPT !.op = "open", !.pc = "start", !.try = 1], why)
           ELSE \/ NextRead(r) = {} /\ Ends(c, why)
                \/ \E next \in NextRead(r) : Serialized(c, next, Left(c), Released(c), why)

----------------------------------------------------------------------------
\* The first request of an operation: registryPage wants a session without a
\* search or a card, the others one without a card.
MustReset(op) == http.card \/ (op = "registry" /\ http.expanded)

AfterAnySearch(r, h) ==
    CASE r.op = "registry" -> "page"
      [] r.op = "open"     -> "open"
      [] r.op = "filtered" -> IF h.applied # NoFilter THEN "page"
                              ELSE IF h.expanded THEN "submit" ELSE "expand"
After(r, h) ==
    CASE r.op = "registry" -> "page"
      [] r.op = "open"     -> "open"
      [] r.op = "filtered" -> IF h.applied = r.want THEN "page"
                              ELSE IF h.expanded THEN "submit" ELSE "expand"

Start(c) ==
    /\ conv[c].pc = "start"
    /\ IF http.open /\ conv[c].try = 1
       THEN UNCHANGED http /\ Ends(c, {})
       ELSE /\ http' = IF MustReset(conv[c].op) THEN Reset(http) ELSE http
            /\ Continues(c, [conv[c] EXCEPT !.pc = IF http'.view = "none" THEN "boot"
                                              ELSE After(conv[c], http')])
    /\ SiteKept
    /\ UNCHANGED <<begun, deaths, breaks>>

\* #ensureSession: a new session, whose first page is the answer to all who wait
\* for it. (A bootstrap that fails is asked for again by the others.)
Boot(c) ==
    LET r == conv[c]
        h == IF Joined(c) THEN http ELSE [http EXCEPT !.view = "live", !.card = FALSE]
    IN  /\ r.pc = "boot" /\ (Joined(c) \/ NetworkIsHeard)
        /\ site' = IF Joined(c) THEN site ELSE Fresh
        /\ IF r.op = "registry" /\ r.at = 1
           THEN Answers(c, h, Fresh)
           ELSE http' = h /\ Continues(c, [r EXCEPT !.pc = After(r, h)])
        /\ UNCHANGED <<begun, deaths, breaks>>

\* What a request does to the session, whether or not its answer arrives.
Resolves(r) == site.page = r.at /\ site.filter = NoFilter
Moved(r) ==
    CASE r.pc = "page"    -> [site EXCEPT !.page = r.at]
      [] r.pc = "expand"  -> [site EXCEPT !.panel = TRUE, !.degraded = TRUE]
      [] r.pc = "submit" /\ site.panel  -> [site EXCEPT !.filter = r.want, !.page = 1, !.degraded = TRUE]
      [] r.pc = "restore" /\ site.panel -> [site EXCEPT !.degraded = FALSE]
      [] r.pc = "open" /\ Resolves(r)   -> [site EXCEPT !.degraded = TRUE]
      [] OTHER -> site

\* Markup that only a session in the expected state answers with. A request goes
\* out with the cookies of the moment: with none once its session was dropped.
Recognized(r) ==
    /\ http.view = "live"
    /\ r.pc \in {"submit", "restore"} => site.panel
    /\ r.pc = "open" => Resolves(r)

\* An operation takes other markup for a dead view; but the search panel is not
\* recognized at all, and a page that is no card is not parsed.
Unrecognized(c) ==
    /\ conv[c].pc \in Requests \ {"boot"} /\ NetworkIsHeard /\ ~ Recognized(conv[c])
    /\ CASE conv[c].pc = "expand" /\ http.view = "stale" -> http' = Failed(http) /\ Ends(c, {})
         [] conv[c].pc = "card" -> http' = Succeeded([http EXCEPT !.card = TRUE]) /\ Ends(c, {})
         [] OTHER -> Expires(c)
    /\ SiteKept
    /\ UNCHANGED <<begun, deaths, breaks>>

\* #applySearch, #pageChange, #postbackForCard: an empty search needs no columns.
Page(c) ==
    conv[c].pc = "page" /\ Answers(c, http, site')
Expand(c) ==
    /\ conv[c].pc = "expand" /\ http' = [http EXCEPT !.expanded = TRUE]
    /\ Continues(c, [conv[c] EXCEPT !.pc = "submit"])
Searched(c) ==
    LET h == [http EXCEPT !.applied = conv[c].want, !.card = FALSE]
    IN  IF conv[c].at = 1 THEN Answers(c, h, site')
        ELSE http' = h /\ Continues(c, [conv[c] EXCEPT !.pc = "page"])
SubmitSearch(c) ==
    /\ conv[c].pc = "submit"
    /\ IF conv[c].want \in Barren THEN Searched(c)
       ELSE Continues(c, [conv[c] EXCEPT !.pc = "restore"]) /\ UNCHANGED http
Restore(c) == conv[c].pc = "restore" /\ Searched(c)
OpenCard(c) ==
    conv[c].pc = "open" /\ Continues(c, [conv[c] EXCEPT !.pc = "card"]) /\ UNCHANGED http
Card(c) ==
    /\ conv[c].pc = "card" /\ http' = Succeeded([http EXCEPT !.card = TRUE])
    /\ Ends(c, {})

Served(c) ==
    /\ conv[c].pc \in Requests \ {"boot"} /\ NetworkIsHeard /\ Recognized(conv[c])
    /\ site' = Moved(conv[c])
    /\ Page(c) \/ Expand(c) \/ SubmitSearch(c) \/ Restore(c) \/ OpenCard(c) \/ Card(c)
    /\ UNCHANGED <<begun, deaths, breaks>>

----------------------------------------------------------------------------
\* A request fails, or its caller gives it up; the site may have served it.
Reached(c) == site' = Moved(conv[c]) \/ UNCHANGED site
RequestFails(c) ==
    /\ conv[c].pc \in Requests /\ NetworkIsHeard
    /\ breaks < Breaks /\ breaks' = breaks + 1
    /\ IF http.view = "live" THEN Reached(c) ELSE UNCHANGED site
    /\ http' \in {http, Failed(http)}
    /\ Ends(c, {})
    /\ UNCHANGED <<begun, deaths>>

SessionDies ==
    /\ http.view = "live" /\ deaths < Deaths /\ deaths' = deaths + 1
    /\ http' = [http EXCEPT !.view = "stale"] /\ site' = Fresh
    /\ UNCHANGED <<conv, lockQueue, depth, begun, breaks, seen>>

CircuitCloses ==
    /\ http.open /\ http' = [http EXCEPT !.open = FALSE]
    /\ UNCHANGED <<site, conv, lockQueue, depth, begun, deaths, breaks, seen>>

ButbInit ==
    /\ http = [view |-> "none", card |-> FALSE, expanded |-> FALSE, applied |-> NoFilter,
               failures |-> 0, open |-> FALSE]
    /\ site = Fresh /\ conv = [c \in Callers |-> Quiet] /\ lockQueue = <<>> /\ depth = 0
    /\ begun = 0 /\ deaths = 0 /\ breaks = 0 /\ seen = {}

Carries(c) == Enter(c) \/ Start(c) \/ Boot(c) \/ Served(c) \/ Unrecognized(c) \/ Clear(c)
ButbNext ==
    \/ \E c \in Callers :
          \/ Carries(c) \/ RequestFails(c)
          \/ \E script \in {"list", "find", "card"}, want \in Criteria \union {NoFilter}, at \in Pages :
                Call(c, script, want, at)
    \/ SessionDies \/ CircuitCloses

ButbSpec == ButbInit /\ [][ButbNext]_butbVars

----------------------------------------------------------------------------
ButbTypeOK ==
    /\ http.view \in {"none", "live", "stale"} /\ http.failures < FailuresMax
    /\ http.applied \in Criteria \union {NoFilter}
    /\ site.filter \in Criteria \union {NoFilter} /\ site.page \in Pages
    /\ depth \in 0..Cardinality(Callers)
    /\ \A c \in Callers : conv[c].pc \in Requests \union {"idle", "wait", "start", "clear"}

\* The table handed on is the page of the search that was asked for, whoever has
\* used the session before and wherever it was lost; but for calls that passed
\* the lock.
AnsweredAsAsked == "mistaken" \in seen => "barged" \in seen

\* One lost session costs nobody his call, and no call is given the degraded
\* table an earlier one left; but for calls that got in each other's way, and
\* answers that were lost.
OneDeathIsInvisible ==
    seen \intersect {"barged", "cleared"} = {} =>
        /\ "failed" \in seen => deaths > 1
        /\ "poisoned" \in seen => breaks > 0

\* A known gap: "after a card was opened the whole session is degraded, so it is
\* dropped and rebuilt instead of reused" (registryPage), also when the answer
\* with the card is lost; and so with an expanded search panel.
DegradedIsDropped == "poisoned" \in seen => "barged" \in seen
=============================================================================
