----------------------------- MODULE PhraseScan -----------------------------
\* The goszakupki.by search (mcp/procurement/src/goszakupki-by-source.ts) and
\* the caller that reads it to its end, call after call, with the resume token.
\* Every phrase of a profile is a query of its own: the site answers each with
\* a paged list, newest first. A call reads one page of every unfinished phrase,
\* then goes on round after round until it has `limit` different rows; it
\* returns the first `limit` of what it read and a token with every phrase's
\* next page. Requests fail, rows are posted and withdrawn between any two
\* pages, and the profile is edited between two calls.
EXTENDS Naturals, Sequences, FiniteSetsExt, SequencesExt

CONSTANTS
    Rows,         \* procedures, numbered by the site: a later one is greater
    Questions,    \* the questions of the caller: [phrases, kept]
    Listings,     \* what the site may hold at first: phrase -> rows
    PageSize,     \* rows on a page of the site
    Limit,        \* hits of one answer
    PhrasePages,  \* MAX_SEARCH_PAGES_PER_TERM
    Events        \* bound: posts, withdrawals, failures and edits together

Phrases == UNION {ToSet(q.phrases) : q \in Questions}
\* The site lists each row of a phrase once, the newest first.
NewestFirst(s) == \A i, j \in DOMAIN s : i < j => s[i] > s[j]
ScanBounds ==
    /\ PageSize \in Nat \ {0} /\ Limit \in Nat \ {0} /\ PhrasePages \in Nat \ {0}
    /\ Events \in Nat /\ Rows \subseteq Nat
    /\ \A q \in Questions : DOMAIN q.phrases = 1..Len(q.phrases) /\ q.kept \subseteq Rows
    /\ Listings \subseteq [Phrases -> Seq(Rows)]
    /\ \A L \in Listings, ph \in Phrases : NewestFirst(L[ph])

VARIABLES
    found,    \* phrase -> the site's list, newest first
    query,    \* the caller's question; `kept` stands for the kinds filter
    token,    \* the resume token the caller holds
    call,     \* the search in flight
    events,
    \* What the properties speak of; the program keeps none of it.
    owed,     \* phrase -> the rows it listed when its reading began
    got, cut, slipped, closed

vars == <<found, query, token, call, events, owed, got, cut, slipped, closed>>

NoToken == [at |-> <<>>, ended |-> {}, kept |-> {}]
NoCall  == [at |-> <<>>]

\* A token written under other filters is not trusted; other phrases are no
\* reason to drop it (goszakupkiSearchFingerprint leaves the keywords out).
Resumes == token # NoToken /\ token.kept = query.kept

EndedUnderAnyFilter(ph) == ph \in token.ended
Ended(ph) == Resumes /\ ph \in token.ended

PlaceOf(ph) ==
    IF Resumes /\ ph \in DOMAIN token.at THEN token.at[ph] ELSE 1

PhraseSet == ToSet(query.phrases)

Listed(ph) == ToSet(found[ph]) \intersect query.kept

\* What a reading owes: for a phrase it resumes, what it owed before; for a
\* phrase it begins, what the site lists now.
OwedBy(ph) ==
    IF Resumes /\ ph \in token.ended \union DOMAIN token.at THEN owed[ph] ELSE Listed(ph)

Ask ==
    /\ call = NoCall /\ ~closed
    /\ call' = [at    |-> [ph \in PhraseSet |-> IF Ended(ph) THEN 1 ELSE PlaceOf(ph)],
                more  |-> [ph \in PhraseSet |-> ~Ended(ph)],
                pages |-> [ph \in PhraseSet |-> 0],
                rows  |-> [ph \in PhraseSet |-> {}],
                owes  |-> [ph \in PhraseSet |-> OwedBy(ph)],
                first |-> TRUE,
                todo  |-> {k \in DOMAIN query.phrases : ~Ended(query.phrases[k])}]
    /\ UNCHANGED <<found, query, token, events, owed, got, cut, slipped, closed>>

\* The rows at the n places that follow the first `from`.
Slice(s, from, n) == {s[i] : i \in {j \in DOMAIN s : from < j /\ j <= from + n}}
PageRows(ph, n) == Slice(found[ph], (n - 1) * PageSize, PageSize)
HasNextPage(ph, n) == n * PageSize < Len(found[ph])

Unique(c) == UNION {c.rows[ph] : ph \in DOMAIN c.rows}

\* Phrases that still have pages and are below the page bound of one call.
Alive(c) ==
    {k \in DOMAIN query.phrases :
        c.more[query.phrases[k]] /\ c.pages[query.phrases[k]] < PhrasePages}

\* The first round reads a page of every unfinished phrase whatever the
\* budget; the later ones stop as soon as the budget is full.
NextTodo(c, rest) ==
    IF rest # {} /\ (c.first \/ Cardinality(Unique(c)) < Limit) THEN rest
    ELSE IF Cardinality(Unique(c)) < Limit THEN Alive(c)
    ELSE {}

\* The page of a phrase that its next request answers.
AfterPage(c, ph) ==
    LET n == c.at[ph]
    IN  [c EXCEPT !.at[ph]    = n + 1,
                  !.pages[ph] = @ + 1,
                  !.rows[ph]  = @ \union (PageRows(ph, n) \intersect query.kept),
                  !.more[ph]  = HasNextPage(ph, n)]

\* Of the phrases of a round the first one comes next.
FetchNextPage ==
    /\ call # NoCall /\ call.todo # {}
    /\ LET k    == Min(call.todo)
           read == AfterPage(call, query.phrases[k])
           rest == call.todo \ {k}
           todo == NextTodo(read, rest)
       IN  call' = [read EXCEPT !.todo = todo, !.first = @ /\ todo = rest]
    /\ UNCHANGED <<found, query, token, events, owed, got, cut, slipped, closed>>

\* A page that cannot be read fails the whole call; the caller keeps its token.
FetchFails ==
    /\ call # NoCall /\ call.todo # {} /\ events < Events
    /\ call' = NoCall /\ events' = events + 1
    /\ UNCHANGED <<found, query, token, owed, got, cut, slipped, closed>>

\* interleaveSearchBuckets: the newest row of every phrase, in the order of the
\* phrases, then the second ones, and so on; a row that several phrases found
\* stands where it comes first.
Depth(c, ph, r) == Cardinality({s \in c.rows[ph] : s >= r})
Standing(c, r) ==
    Min({Depth(c, query.phrases[k], r) * Len(query.phrases) + k :
           k \in {j \in DOMAIN query.phrases : r \in c.rows[query.phrases[j]]}})

\* The first `limit` rows of the merged list.
Hits(c) ==
    {r \in Unique(c) :
        Cardinality({s \in Unique(c) : Standing(c, s) < Standing(c, r)}) < Limit}

TokenOf(c) ==
    [at    |-> [ph \in {p \in PhraseSet : c.more[p]} |-> c.at[ph]],
     ended |-> {ph \in PhraseSet : ~c.more[ph]},
     kept  |-> query.kept]

Answer ==
    /\ call # NoCall /\ call.todo = {}
    /\ LET hits    == Hits(call)
           hasMore == \E ph \in PhraseSet : call.more[ph]
       IN  /\ got'    = got \union hits
           /\ cut'    = cut \union (Unique(call) \ hits)
           /\ token'  = IF hasMore THEN TokenOf(call) ELSE NoToken
           /\ closed' = ~hasMore
    /\ owed' = [ph \in Phrases |-> IF ph \in PhraseSet THEN call.owes[ph] ELSE owed[ph]]
    /\ call' = NoCall
    /\ UNCHANGED <<found, query, events, slipped>>

----------------------------------------------------------------------------
\* The site and the specialist.

Post(r, phs) ==
    /\ events < Events /\ ~closed
    /\ \A ph \in Phrases : r \notin ToSet(found[ph])
    /\ \A ph \in Phrases : \A s \in ToSet(found[ph]) : s < r
    /\ found' = [ph \in Phrases |-> IF ph \in phs THEN <<r>> \o found[ph] ELSE found[ph]]
    /\ events' = events + 1
    /\ UNCHANGED <<query, token, call, owed, got, cut, slipped, closed>>

\* The pages of a phrase that are behind the reading, in the call and in the token.
NextPages(ph) ==
    {c.at[ph] : c \in {d \in {token, call} : ph \in DOMAIN d.at}}

\* The rows that move under a page boundary when r leaves the list of ph.
Slips(ph, r) ==
    {found[ph][(n - 1) * PageSize + 1] :
        n \in {m \in NextPages(ph) :
                 /\ (m - 1) * PageSize < Len(found[ph])
                 /\ r \in Slice(found[ph], 0, (m - 1) * PageSize)}}

\* A procedure leaves the list of posted ones: the rows below it move up, and
\* the first row of a next page moves to a page that is behind the reading.
Withdraw(r) ==
    /\ events < Events /\ ~closed
    /\ \E ph \in Phrases : Contains(found[ph], r)
    /\ found' = [ph \in Phrases |-> RemoveFirst(found[ph], r)]
    /\ slipped' = slipped \union {r} \union UNION {Slips(ph, r) : ph \in Phrases}
    /\ events' = events + 1
    /\ UNCHANGED <<query, token, call, owed, got, cut, closed>>

\* The profile is edited between two calls.
Edit(q) ==
    /\ events < Events /\ call = NoCall /\ ~closed /\ q # query
    /\ query' = q
    /\ events' = events + 1
    /\ UNCHANGED <<found, token, call, owed, got, cut, slipped, closed>>

Init ==
    /\ found \in Listings /\ query \in Questions
    /\ token = NoToken /\ call = NoCall /\ events = 0
    /\ owed = [ph \in Phrases |-> {}]
    /\ got = {} /\ cut = {} /\ slipped = {} /\ closed = FALSE

Reading == Ask \/ FetchNextPage \/ Answer
Disturbance ==
    \/ FetchFails
    \/ \E r \in Rows, phs \in (SUBSET Phrases) \ {{}} : Post(r, phs)
    \/ \E r \in Rows : Withdraw(r)
    \/ \E q \in Questions : Edit(q)

Next == Reading \/ Disturbance

\* The caller asks again while the source says that more follows, and a call
\* that was begun is carried on.
Spec == Init /\ [][Next]_vars /\ WF_vars(Reading)

----------------------------------------------------------------------------
Owed == UNION {IF call = NoCall THEN owed[ph] ELSE call.owes[ph] : ph \in PhraseSet}

TypeOK ==
    /\ found \in [Phrases -> Seq(Rows)] /\ query \in Questions
    /\ events \in 0..Events /\ closed \in BOOLEAN
    /\ got \subseteq Rows /\ cut \subseteq Rows /\ slipped \subseteq Rows
    /\ token.ended \subseteq Phrases /\ DOMAIN token.at \subseteq Phrases
    /\ token # NoToken => DOMAIN token.at # {} \/ query.phrases # <<>>

\* The scan implements the abstract reading: "nothing more" is said only when
\* every owed row was handed over, or was cut from an answer that was full, or
\* slipped under a page boundary when another row was withdrawn.
Abstract == INSTANCE WindowRead WITH
                Row <- Rows, window <- Owed, dropped <- cut \union slipped
WindowIsRead == Abstract!Spec

\* No row is cut: what a page of the site showed is handed over sooner or
\* later. The token points past the pages a call has read, also when the answer
\* had no room for all their rows (goszakupki-by-source.ts:200).
NothingIsCut == closed => Owed \subseteq got \union slipped

\* Every reading ends: each call takes every unfinished phrase further,
\* whatever the page bound of a call.
ReadingEnds == <>[]closed
=============================================================================
