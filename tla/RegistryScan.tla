---------------------------- MODULE RegistryScan ----------------------------
\* The plain registry scan of the exchange BUTB (search in
\* mcp/procurement/src/butb-source.ts without the subject form): the retrieval
\* of questions without phrases and the fallback of the subject search. Every
\* call walks the one registry from its first page, newest day first. The token
\* of a truncated call is the deepest row whose page was handed over whole; the
\* next call walks the head again down to that row, or to the first older day
\* when the row is gone, and only then counts what it collects.
EXTENDS Naturals, Sequences, FiniteSetsExt, SequencesExt

CONSTANTS
    Rows,        \* registry rows; a later one is greater
    Registries,  \* what the registry may hold at first
    DayOf,       \* the date column: the only order the page shows
    Matching,    \* the rows this question is about
    Floor,       \* the watermark's day: older rows were read by an earlier pass
    PageSize, Limit, MaxSearchPages,
    Events       \* bound: posts, withdrawals, cut calls

\* The registry lists each row once, the newest first, and by its days.
NewestFirst(s) == \A i, j \in DOMAIN s : i < j => s[i] > s[j]
RegistryBounds ==
    /\ PageSize \in Nat \ {0} /\ Limit \in Nat \ {0} /\ {MaxSearchPages, Floor, Events} \subseteq Nat
    /\ Rows \subseteq Nat \ {0} /\ Matching \subseteq Rows
    /\ \A R \in Registries : R \in Seq(Rows) /\ NewestFirst(R)
    /\ \A r \in Rows : DayOf[r] \in Nat /\ \A s \in Rows : r < s => DayOf[r] <= DayOf[s]

VARIABLES
    registry,  \* the table, newest first
    token,     \* the cursor row and its day
    call,      \* the scan in flight (`upward`: a page lay above the one before it)
    events,
    \* What the properties speak of.
    owed, got, cut, slipped, closed

vars == <<registry, token, call, events, owed, got, cut, slipped, closed>>
history == <<owed, got, cut, slipped, closed>>

None == 0
NoToken == [row |-> None, day |-> None]
NoCall  == [page |-> None]

\* The rows at the n places that follow the first `from`.
Slice(s, from, n) == {s[i] : i \in {j \in DOMAIN s : from < j /\ j <= from + n}}
Page(n) == Slice(registry, (n - 1) * PageSize, PageSize)
Wanted(S) == {r \in S \intersect Matching : DayOf[r] >= Floor}

Ask ==
    /\ call = NoCall /\ ~closed
    /\ call' = [page |-> 1, rows |-> {}, tail |-> token = NoToken,
                deepest |-> None, before |-> None, stop |-> FALSE, more |-> FALSE,
                upward |-> FALSE]
    /\ owed' = IF token = NoToken THEN Wanted(ToSet(registry)) ELSE owed
    /\ UNCHANGED <<registry, token, events, got, cut, slipped, closed>>

\* The cursor row, or a row of a day before it: all below is the unread tail.
BelowCursor(rows) ==
    \E r \in rows : DayOf[r] >= Floor /\ (r = token.row \/ DayOf[r] < token.day)

BehindWatermark(rows) == \E r \in rows : DayOf[r] < Floor

\* The last row of a page is its oldest one.
AfterPage(c, rows) ==
    LET read == [c EXCEPT !.rows = @ \union Wanted(rows),
                          !.before = c.deepest, !.deepest = Min(rows),
                          !.upward = @ \/ (c.deepest # None /\ Min(rows) > c.deepest)]
        full == c.tail /\ Cardinality(read.rows) >= Limit
    IN  IF BehindWatermark(rows) THEN [read EXCEPT !.stop = TRUE]
        ELSE IF full \/ c.page = MaxSearchPages
             THEN [read EXCEPT !.stop = TRUE, !.more = TRUE,
                               !.tail = @ \/ BelowCursor(rows)]
             ELSE [read EXCEPT !.page = @ + 1, !.tail = @ \/ BelowCursor(rows)]

ReadPage ==
    /\ call # NoCall /\ ~call.stop
    /\ call' = IF Page(call.page) = {} THEN [call EXCEPT !.stop = TRUE]
               ELSE AfterPage(call, Page(call.page))
    /\ UNCHANGED <<registry, token, events>> /\ UNCHANGED history

\* The call runs out of wall clock between two pages.
Deadline ==
    /\ call # NoCall /\ ~call.stop /\ events < Events
    /\ call' = [call EXCEPT !.stop = TRUE, !.more = TRUE]
    /\ events' = events + 1
    /\ UNCHANGED <<registry, token>> /\ UNCHANGED history

\* A page that cannot be read fails the call.
PageFails ==
    /\ call # NoCall /\ ~call.stop /\ events < Events
    /\ call' = NoCall /\ events' = events + 1
    /\ UNCHANGED <<registry, token>> /\ UNCHANGED history

\* The rows of one day keep the order they were collected in; here the later
\* row comes first, as the registry lists them.
Hits(c) == {r \in c.rows : Cardinality({s \in c.rows : s > r}) < Limit}

CursorAt(r) == [row |-> r, day |-> DayOf[r]]

TokenAtDeepest(c) == IF c.deepest = None THEN token ELSE CursorAt(c.deepest)

\* Overflow of the last page is read again: the cursor is the page before it.
TokenAfter(c) ==
    LET anchor == IF ~c.tail THEN None
                  ELSE IF Cardinality(c.rows) > Limit /\ c.before # None THEN c.before
                  ELSE c.deepest
    IN  IF anchor # None THEN CursorAt(anchor) ELSE token

Answer ==
    /\ call # NoCall /\ call.stop
    /\ got' = got \union Hits(call)
    /\ cut' = IF call.more THEN cut ELSE cut \union (call.rows \ Hits(call))
    /\ token' = IF call.more THEN TokenAfter(call) ELSE NoToken
    /\ closed' = ~call.more
    /\ call' = NoCall
    /\ UNCHANGED <<registry, events, owed, slipped>>

Post(r) ==
    /\ events < Events /\ ~closed
    /\ \A s \in ToSet(registry) : s < r
    /\ registry' = <<r>> \o registry
    /\ events' = events + 1
    /\ UNCHANGED <<token, call>> /\ UNCHANGED history

\* A row leaves: when the scan is below it, the row it was to read next moves
\* up to a page the scan is past.
Withdraw(i) ==
    /\ events < Events /\ ~closed
    /\ registry' = RemoveAt(registry, i)
    /\ slipped' = slipped \union {registry[i]} \union
         (IF call # NoCall /\ i <= (call.page - 1) * PageSize
          THEN Slice(registry, (call.page - 1) * PageSize, 1) ELSE {})
    /\ events' = events + 1
    /\ UNCHANGED <<token, call, owed, got, cut, closed>>

Init ==
    /\ registry \in Registries /\ token = NoToken /\ call = NoCall /\ events = 0
    /\ owed = {} /\ got = {} /\ cut = {} /\ slipped = {} /\ closed = FALSE

Reading == Ask \/ ReadPage \/ Answer
Disturbance ==
    \/ Deadline \/ PageFails
    \/ \E r \in Rows : Post(r)
    \/ \E i \in DOMAIN registry : Withdraw(i)

Next == Reading \/ Disturbance
Spec == Init /\ [][Next]_vars /\ WF_vars(Reading)

----------------------------------------------------------------------------
TypeOK ==
    /\ registry \in Seq(Rows) /\ events \in 0..Events
    /\ UNION {owed, got, cut, slipped} \subseteq Rows
    /\ token.row \in Rows \union {None} /\ closed \in BOOLEAN

\* The scan implements the abstract reading, but for the rows that slip under
\* a page boundary during a call and those cut when the page that fills the
\* answer also reaches the watermark.
Abstract == INSTANCE WindowRead WITH
    Row <- Rows, window <- owed, dropped <- cut \union slipped
WindowIsRead == Abstract!Spec

\* A truncated scan never hands back a place above the one it was given: the
\* cursor moves down the registry or stays, whatever is posted or withdrawn ("would
\* rewind the window", butb-source.ts:328). Excused: a call that collected more than
\* an answer holds goes back to the page before, which may lie above the cursor when
\* the call ended soon after passing it (butb-source.ts:318); and a call one of whose
\* pages lay above the one before it, since more rows than a page were posted meanwhile.
Overflows == call # NoCall /\ Cardinality(call.rows) > Limit
Outrun    == call # NoCall /\ call.upward
CursorMovesDown ==
    token # NoToken /\ token' # NoToken => token'.day <= token.day \/ Overflows \/ Outrun
CursorNeverRewinds == [][CursorMovesDown]_vars

\* Every reading ends: a truncated scan reaches the tail it did not read
\* ("the next pass re-read the same head forever and the rows below the budget
\* were never seen" is the regression butb-source.test.ts:191 guards against).
ReadingEnds == <>[]closed
=============================================================================
