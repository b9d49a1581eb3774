----------------------------- MODULE SubjectScan -----------------------------
\* The subject search of the exchange BUTB (nativeSearch in
\* mcp/procurement/src/butb-source.ts) and the caller that reads it to its end.
\* Phrases are submitted one after another; the pages of each are read, newest
\* first, until a deadline, a full budget or the watermark stops the call. What
\* was collected stays in the process, in a small cache of windows keyed by the
\* question; the token only remembers the last row handed over (the anchor) and
\* the phrase and page to go on from. The cache is lost at a restart and evicted
\* by other questions; an answer may never reach its caller.
EXTENDS Naturals, Sequences, FiniteSetsExt, SequencesExt

CONSTANTS
    Rows,         \* registry rows, in the order of their publication
    Subjects,     \* the questions: each a sequence of phrases
    Registries,   \* what the registry may hold at first: phrase -> rows
    Titled,       \* the rows whose title shows the phrase (the fallback's view)
    PageSize,     \* PAGE_SIZE
    Limit,        \* hits of one answer
    Floor,        \* the watermark: older rows were read by an earlier pass
    MaxSearchPages,
    Events        \* bound: posts, withdrawals, faults, losses, other questions

Phrases == UNION {ToSet(s) : s \in Subjects}
\* The registry lists each row of a phrase once, the newest first.
NewestFirst(s) == \A i, j \in DOMAIN s : i < j => s[i] > s[j]
SubjectBounds ==
    /\ PageSize \in Nat \ {0} /\ Limit \in Nat \ {0}
    /\ {MaxSearchPages, Floor, Events} \subseteq Nat /\ Rows \subseteq Nat \ {0}
    /\ \A q \in Subjects : DOMAIN q = 1..Len(q)
    /\ Registries \subseteq [Phrases -> Seq(Rows)]
    /\ \A R \in Registries, ph \in Phrases : NewestFirst(R[ph])

VARIABLES
    found,      \* phrase -> the registry's filtered model, newest first
    query,      \* the caller's phrases
    token,      \* the resume token the caller holds
    window,     \* #windows[query]: candidates, leading phrases read, next page
    call,       \* the search in flight
    events,
    \* What the properties speak of: the rows a reading owes, those it handed over,
    \* and those it lost. `passed` are left out of an answer for good, `stale` stand
    \* before a place a reading began at, `torn` before a token's place in a window
    \* that was rebuilt for it, `slipped` moved behind a place when a row was
    \* withdrawn, `narrow` only the subject search shows.
    owed, got, passed, stale, torn, slipped, narrow, closed

vars == <<found, query, token, window, call, events,
          owed, got, passed, stale, torn, slipped, narrow, closed>>
history == <<owed, got, passed, stale, torn, slipped, narrow, closed>>

None == 0
NoToken  == [ret |-> 0, anchor |-> None, term |-> None, page |-> None]
NoWindow == [rows |-> {}]
NoCall   == [term |-> None]

Current(S) == {r \in S : r >= Floor}
Listed(ph) == Current(ToSet(found[ph]))

\* The rows at the n places that follow the first `from`.
Slice(s, from, n) == {s[i] : i \in {j \in DOMAIN s : from < j /\ j <= from + n}}
PageRows(ph, n) == Slice(found[ph], (n - 1) * PageSize, PageSize)
LastPage(ph) == (Len(found[ph]) + PageSize - 1) \div PageSize

\* Where a call begins: the token's place counts only against the candidates
\* it was read into; a cached window is gone on with even without a token.
StartTerm == IF window = NoWindow THEN 1
             ELSE IF token # NoToken THEN token.term ELSE window.done + 1
Opened(page) == IF page = None THEN 1 ELSE page
StartPage == IF window = NoWindow THEN 1
             ELSE Opened(IF token # NoToken THEN token.page ELSE window.page)

\* The rows a place is past.
Before(term, page) ==
    UNION ({Listed(query[k]) : k \in {j \in DOMAIN query : j < term}} \union
           {Current(Slice(found[query[k]], 0, (page - 1) * PageSize)) :
               k \in {term} \intersect DOMAIN query})

\* Rows that a cached window puts a new reading past, although nobody has read
\* them: those before its place, and those of the open phrase that are newer than
\* a row it holds, which is the first to be handed over.
Overlooked ==
    (Before(StartTerm, StartPage) \union
        UNION {{r \in Listed(query[k]) : \E s \in window.rows \intersect Listed(query[k]) : s < r} :
                  k \in {StartTerm} \intersect DOMAIN query}) \ window.rows

Ask ==
    /\ call = NoCall /\ ~closed
    /\ call' = [term  |-> StartTerm, page |-> StartPage, rows |-> window.rows,
                budget |-> token.ret + Limit, read |-> 0, open |-> FALSE,
                stop  |-> StartTerm > Len(query), more |-> FALSE]
    /\ IF token = NoToken
       THEN /\ owed' = UNION {Listed(ph) : ph \in ToSet(query)}
            /\ stale' = stale \union Overlooked
       ELSE UNCHANGED <<owed, stale>>
    /\ UNCHANGED <<found, query, token, window, events, got, passed, torn, slipped, narrow, closed>>

Truncated(c) == [c EXCEPT !.stop = TRUE, !.more = TRUE]

NextPhrase(c) ==
    [c EXCEPT !.term = @ + 1, !.page = 1, !.open = FALSE, !.stop = c.term = Len(query)]

AfterPage(c, ph, rows) ==
    LET read == [c EXCEPT !.rows = @ \union Current(rows), !.read = @ + 1, !.open = TRUE]
        next == [read EXCEPT !.page = @ + 1]
    IN  IF rows = {} \/ rows # Current(rows) THEN NextPhrase(read)
        ELSE IF Cardinality(read.rows) >= c.budget THEN Truncated(next)
        ELSE IF c.page >= LastPage(ph) THEN NextPhrase(read) ELSE next

FilteredPage ==
    /\ call # NoCall /\ ~call.stop /\ call.page <= MaxSearchPages
    /\ call' = AfterPage(call, query[call.term], PageRows(query[call.term], call.page))
    /\ UNCHANGED <<found, query, token, window, events>> /\ UNCHANGED history

\* Out of pages: the phrase is not read, and the call ends. A call that was to
\* begin past the bound does not even open its phrase.
PageBound ==
    /\ call # NoCall /\ ~call.stop /\ call.page > MaxSearchPages
    /\ call' = Truncated(call)
    /\ UNCHANGED <<found, query, token, window, events>> /\ UNCHANGED history

\* The deadline of a call cuts it between two pages or inside a page. The page
\* it was about to read stays the next one. A call that has read nothing yet is
\* cut only by a page that takes the whole budget (an event).
Deadline ==
    /\ call # NoCall /\ ~call.stop
    /\ call.read > 0 \/ events < Events
    /\ events' = IF call.read > 0 THEN events ELSE events + 1
    /\ \E open \in {call.open, TRUE} : call' = Truncated([call EXCEPT !.open = open])
    /\ UNCHANGED <<found, query, token, window>> /\ UNCHANGED history

Depth(S, r) == Cardinality({s \in S : s >= r})

\* Rows the answer leaves above its first hit: down to the anchor, or as many
\* as were returned before when the anchor is not among the candidates.
Skipped(c) ==
    IF token.anchor \in c.rows THEN Depth(c.rows, token.anchor) ELSE token.ret

Hits(c) == {r \in c.rows : Depth(c.rows, r) \in Skipped(c) + 1 .. Skipped(c) + Limit}

HasMore(c) == c.more \/ Cardinality(c.rows) > c.budget

\* Rows an answer leaves out for good: those above its first hit and, when it
\* ends the reading, those below its last one.
LeftOut(c) ==
    {r \in (owed \intersect c.rows) \ got :
        LET place == Depth(c.rows, r) - Skipped(c)
        IN  place <= 0 \/ (~HasMore(c) /\ place > Limit)}

TokenAtTheDeepest(c) ==
    [ret |-> Skipped(c) + Cardinality(Hits(c)), anchor |-> IF c.rows = {} THEN None ELSE Min(c.rows),
     term |-> c.term, page |-> IF c.open THEN c.page ELSE None]
TokenWithoutPage(c) ==
    [ret |-> Skipped(c) + Cardinality(Hits(c)), anchor |-> token.anchor,
     term |-> c.term, page |-> None]

\* The anchor is the last row handed over; with none there the old one stays.
TokenAfter(c) ==
    [ret    |-> Skipped(c) + Cardinality(Hits(c)),
     anchor |-> LET last == {r \in c.rows : Depth(c.rows, r) = Skipped(c) + Cardinality(Hits(c))}
                IN  IF last = {} THEN token.anchor ELSE Min(last),
     term   |-> c.term,
     page   |-> IF c.open THEN c.page ELSE None]

\* The window is kept whatever became of the call, a finished one too.
WindowAfter(c) ==
    [rows |-> c.rows, done |-> c.term - 1, page |-> IF c.open THEN c.page ELSE None]

\* An answer is built and the window kept; `heard` says whether it arrives.
Answer(heard) ==
    /\ call # NoCall /\ call.stop
    /\ heard \/ events < Events
    /\ window' = WindowAfter(call)
    /\ IF heard
       THEN /\ got'    = got \union Hits(call)
            /\ passed' = passed \union LeftOut(call)
            /\ token'  = IF HasMore(call) THEN TokenAfter(call) ELSE NoToken
            /\ closed' = ~HasMore(call)
            /\ UNCHANGED <<events, torn>>
       ELSE /\ events' = events + 1
            /\ torn' = IF token = NoToken \/ window # NoWindow THEN torn
                       ELSE torn \union (Before(token.term, Opened(token.page)) \ call.rows)
            /\ UNCHANGED <<got, passed, token, closed>>
    /\ call' = NoCall
    /\ UNCHANGED <<found, query, owed, stale, slipped, narrow>>

\* The caller gives up. Rows read so far stay in a window that was cached (the
\* map is shared), but its place does not move; a first window is lost whole.
Kept == IF window = NoWindow THEN NoWindow ELSE [window EXCEPT !.rows = call.rows]

Abort ==
    /\ call # NoCall /\ ~call.stop /\ events < Events
    /\ events' = events + 1
    /\ window' = Kept /\ call' = NoCall
    /\ UNCHANGED <<found, query, token>> /\ UNCHANGED history

\* The form cannot be driven: the same call falls back to the registry scan,
\* which sees titles only and starts at its head. Its token is of no use to this
\* search, so the next call has none.
FallBack ==
    /\ call # NoCall /\ ~call.stop /\ events < Events
    /\ events' = events + 1
    /\ window' = Kept
    /\ \E hits \in SUBSET (owed \intersect Titled) :
         /\ got' = got \union hits
         /\ closed' \in {FALSE, hits = owed \intersect Titled}
    /\ narrow' = narrow \union (owed \ Titled)
    /\ token' = NoToken /\ call' = NoCall
    /\ UNCHANGED <<found, query, owed, passed, stale, torn, slipped>>

----------------------------------------------------------------------------
\* The registry, the process, the other questions, the next reading.

Post(r, phs) ==
    /\ events < Events
    /\ \A ph \in Phrases : \A s \in ToSet(found[ph]) : s < r
    /\ found' = [ph \in Phrases |-> IF ph \in phs THEN <<r>> \o found[ph] ELSE found[ph]]
    /\ events' = events + 1
    /\ UNCHANGED <<query, token, window, call>> /\ UNCHANGED history

\* The first rows of the pages to read next, which move up when r leaves.
Slips(r) ==
    {found[x[1]][(x[2] - 1) * PageSize + 1] :
        x \in {y \in ToSet(query) \X {c.page : c \in {token, window, call} \ {NoWindow, NoCall}} :
                 /\ y[2] # None /\ (y[2] - 1) * PageSize < Len(found[y[1]])
                 /\ r \in Slice(found[y[1]], 0, (y[2] - 1) * PageSize)}}

Withdraw(r) ==
    /\ events < Events
    /\ \E ph \in Phrases : Contains(found[ph], r)
    /\ found' = [ph \in Phrases |-> RemoveFirst(found[ph], r)]
    /\ slipped' = slipped \union {r} \union Slips(r)
    /\ events' = events + 1
    /\ UNCHANGED <<query, token, window, call, owed, got, passed, stale, torn, narrow, closed>>

\* The server restarts, or other questions push the window out of the cache.
Forget ==
    /\ events < Events /\ call = NoCall /\ window # NoWindow
    /\ window' = NoWindow /\ events' = events + 1
    /\ UNCHANGED <<found, query, token, call>> /\ UNCHANGED history

\* The same question is asked anew after it was read to its end.
ReadAgain ==
    /\ closed /\ events < Events
    /\ closed' = FALSE /\ events' = events + 1
    /\ UNCHANGED <<found, query, token, window, call, owed, got, passed, stale, torn, slipped, narrow>>

Init ==
    /\ found \in Registries /\ query \in Subjects
    /\ token = NoToken /\ window = NoWindow /\ call = NoCall /\ events = 0
    /\ owed = {} /\ got = {} /\ passed = {} /\ stale = {} /\ torn = {} /\ slipped = {} /\ narrow = {}
    /\ closed = FALSE

Reading == Ask \/ FilteredPage \/ PageBound \/ Answer(TRUE)
Disturbance ==
    \/ Deadline \/ Answer(FALSE) \/ Abort \/ FallBack \/ Forget \/ ReadAgain
    \/ \E r \in Rows, phs \in (SUBSET Phrases) \ {{}} : Post(r, phs)
    \/ \E r \in Rows : Withdraw(r)

Next == Reading \/ Disturbance
Spec == Init /\ [][Next]_vars /\ WF_vars(Reading)

----------------------------------------------------------------------------
TypeOK ==
    /\ found \in [Phrases -> Seq(Rows)] /\ query \in Subjects /\ events \in 0..Events
    /\ window.rows \subseteq Rows /\ window # NoWindow => window.done <= Len(query)
    /\ UNION {owed, got, passed, stale, torn, slipped, narrow} \subseteq Rows
    /\ token.anchor \in Rows \union {None} /\ closed \in BOOLEAN

\* The scan implements the abstract reading, but for the rows an answer leaves out
\* for good, those a cached place is past when a reading begins, those a rebuilt
\* window lacks, those that slip when a row is withdrawn and those only the subject
\* search shows.
Abstract == INSTANCE WindowRead WITH
    Row <- Rows, window <- owed, dropped <- UNION {passed, stale, torn, slipped, narrow}
WindowIsRead == Abstract!Spec

\* For one phrase the anchor is sound: an answer leaves nothing out but what a cached
\* place was past, whatever is posted, cached, evicted, restarted or cut short; as
\* long as no row was withdrawn and no answer that rebuilt a window was lost.
OnePhraseKeepsItsAnchor ==
    Len(query) = 1 /\ slipped = {} /\ torn = {} => owed \intersect passed \subseteq stale

\* Nothing is passed over: a row collected for a later phrase is handed over
\* too (the skip is to be exact, butb-source.ts:401).
NothingIsPassedOver == closed => owed \intersect passed \subseteq got \union slipped

\* A reading that begins without a token reads the registry, not what the
\* process remembers of an earlier one ("A fresh call ... starts from term zero
\* and re-reads the whole window", butb-source.ts:419).
FreshReadingIsFresh == closed => owed \intersect stale \subseteq got \union slipped

\* A reading ends, although every call may be cut after a page: the place of the
\* open phrase moves on, and no call begins a long phrase over.
ReadingEnds == <>[]closed
=============================================================================
