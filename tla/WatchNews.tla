----------------------------- MODULE WatchNews -----------------------------
\* What is news about a case the specialist takes part in: the snapshot the card
\* keeps of its page, the difference to the next reading, and the rows of the
\* inbox (packages/domain/src/specialist/watch.ts, source-card.ts, catalog.ts;
\* applyFreshSourceCard and monitorDecidedCases of apps/api/src/app.ts). The page
\* is read by the watch pass, which also downloads one listed file each time to
\* see whether it was replaced, and by the specialist's own requests.
\* Left out: the delay of the writes and the download that new files start
\* (module CaseFile), the names of files, the answers to rows that read nothing.
EXTENDS Naturals, Sequences, FiniteSets, SequencesExt, FiniteSetsExt

CONSTANTS
    Absent,                    \* what a page does not show, or nobody has looked at
    Statuses, Prices, Urls,     \* what it can show; files are numbered by their URLs
    Subjects,                   \* bound: fields of the page that move in one behaviour
    Contents, LastDay,          \* bounds: contents of a file, days
    Posts, Visits, Misses       \* bounds: changes of each field, requests, failed reads

ASSUME NewsBounds ==
    /\ Urls \subseteq Nat /\ IsFiniteSet(Urls) /\ Absent \notin Urls
    /\ {Contents, LastDay, Visits, Misses} \subseteq Nat
    /\ \A S \in Subjects : S \subseteq DOMAIN Posts

VARIABLES
    subject,
    page,       \* what the registry serves; `files` has the content of the listed ones
    day,
    card,       \* what the specialist sees, and the snapshot of the last reading
    inbox,      \* the rows about the case, in order of arrival
    dismissed,  \* rows that were resolved
    watch,      \* the pass: its place, its copy of the card, its page and its day
    desk,       \* a request: its place, its copy, the row it resolves
    spent,      \* changes, requests and failed reads so far
    first,      \* history: the first value of everything shown
    gaps        \* history: what was not shown for a while, and what else went wrong

newsVars == <<subject, page, day, card, inbox, dismissed, watch, desk, spent, first, gaps>>

About(field, file) == [field |-> field, file |-> file]
Field(field) == About(field, Absent)
Row(about, was, is) == [about |-> about, was |-> was, is |-> is]

Unread == [status |-> Absent, price |-> Absent, due |-> Absent, events |-> {},
           files |-> << >>, checked |-> << >>, read |-> FALSE]

----------------------------------------------------------------------------
\* mergeDocumentProbes: what was last seen of a file stays with it while it is
\* listed. `probed` is what this reading has downloaded: at most one file, with
\* Absent for one that failed.
Heard(probed, f) == f \in DOMAIN probed /\ probed[f] # Absent
BaselinesOfThisReading(was, listed, probed) ==
    [f \in listed |-> IF Heard(probed, f) THEN probed[f] ELSE Absent]
Baselines(was, listed, probed) ==
    [f \in listed |-> IF Heard(probed, f) THEN probed[f]
                      ELSE IF f \in DOMAIN was THEN was[f] ELSE Absent]

\* cardSnapshot; `checked` has the order in which the files were last tried: who is
\* tried now comes last.
Checked(was, listed, tried) ==
    LET others == (DOMAIN was \intersect listed) \ tried
    IN  [f \in others \union tried |->
            IF f \in tried THEN Cardinality(others) + 1
            ELSE Cardinality({g \in others : was[g] <= was[f]})]
Snapshot(was, seen, probed) ==
    LET listed == DOMAIN seen.files
    IN  [status |-> seen.status, price |-> seen.price, due |-> seen.due, events |-> seen.events,
         files |-> Baselines(was.files, listed, probed),
         checked |-> Checked(was.checked, listed, DOMAIN probed), read |-> TRUE]

\* nextDocumentProbeTarget: a file never tried, else the one tried longest ago.
FirstBy(key, listed) ==
    CHOOSE f \in listed : \A g \in listed : key[f] < key[g] \/ (key[f] = key[g] /\ f <= g)
NextTargetByUrl(checked, listed) == FirstBy([f \in listed |-> 0], listed)
NextTarget(checked, listed) ==
    FirstBy([f \in listed |-> IF f \in DOMAIN checked THEN checked[f] ELSE 0], listed)

\* diffCardSnapshots. A field that is missing on either side is no news.
Altered(about, was, is) == IF was = is \/ Absent \in {was, is} THEN {} ELSE {Row(about, was, is)}
Diff(was, now) ==
    LET before == DOMAIN was.files
        after  == DOMAIN now.files
    IN  (IF was.status = now.status THEN {} ELSE {Row(Field("status"), was.status, now.status)})
        \union Altered(Field("price"), was.price, now.price)
        \union Altered(Field("due"), was.due, now.due)
        \union {Row(About("listing", f), Absent, f) : f \in after \ before}
        \union {Row(About("listing", f), f, Absent) : f \in before \ after}
        \union (UNION {Altered(About("content", f), was.files[f], now.files[f]) : f \in before \cap after})
        \union {Row(Field("event"), Absent, e) : e \in now.events \ was.events}

\* bidsDeadlinePassed, deadlineWithin: rows about the state, not about a change.
\* They wait while the date itself has just moved.
Overdue(due, today) == due # Absent /\ today > due
Tomorrow(due, today) == due # Absent /\ today <= due /\ due <= today + 1
ExpiresAtTheCrossing(news, due, today) ==
    IF \E r \in news : r.about = Field("due") THEN {}
    ELSE (IF due # Absent /\ today = due + 1 THEN {Row(Field("expired"), Absent, Absent)} ELSE {})
         \union (IF Tomorrow(due, today) THEN {Row(Field("soon"), Absent, Absent)} ELSE {})
StateRows(news, due, today) ==
    IF \E r \in news : r.about = Field("due") THEN {}
    ELSE (IF Overdue(due, today) THEN {Row(Field("expired"), Absent, Absent)} ELSE {})
         \union (IF Tomorrow(due, today) THEN {Row(Field("soon"), Absent, Absent)} ELSE {})

\* The id of a row: an event and a state have one for ever, a change has one for
\* each time it is read (dedupeKey). The inbox records an id once.
OnceByText(r) == TRUE
OnceForEver(r) == r.about.field \in {"event", "expired", "soon"}
Recorded(news) == {r \in news : ~ (OnceForEver(r) /\ r \in Range(inbox))}

----------------------------------------------------------------------------
\* The value of a field on a card, and what the history says of it.
Value(snap, a) ==
    CASE a.field = "status"  -> snap.status
      [] a.field = "price"   -> snap.price
      [] a.field = "due"     -> snap.due
      [] a.field = "listing" -> IF a.file \in DOMAIN snap.files THEN a.file ELSE Absent
      [] a.field = "content" -> IF a.file \in DOMAIN snap.files THEN snap.files[a.file] ELSE Absent
Abouts == {Field(x) : x \in {"status", "price", "due"}}
          \union {About(x, f) : x \in {"listing", "content"}, f \in Urls}
Optional(a) == a.field \in {"price", "due", "content"}
Vanished(was, now) ==
    {a \in Abouts : /\ Optional(a) /\ Value(was, a) # Absent /\ Value(now, a) = Absent
                    /\ a.field = "content" => a.file \notin DOMAIN now.files}

\* applySourceCard: a blank badge or a missing sum leaves what the card shows. A
\* change of status then writes its own text (applyInboxChangeToCard).
Merged(old, seen, snap, news) ==
    [status |-> IF seen.status = Absent THEN old.status ELSE seen.status,
     label  |-> IF seen.status # Absent THEN seen.status
                ELSE IF \E r \in news : r.about = Field("status") THEN Absent ELSE old.label,
     amount |-> IF seen.price = Absent THEN old.amount ELSE seen.price,
     snap   |-> snap]

\* applyFreshSourceCard: `copy` is the card the reader has, `consumed` the row he
\* resolves by reading. (Each \E has one value to take: it is worked out once.)
Apply(copy, seen, probed, today, consumed) ==
    \E was \in {copy.snap}, now \in {Snapshot(copy.snap, seen, probed)} :
    \E diff \in {IF was.read THEN Diff(was, now) ELSE {}} :
    \E news \in {diff \union StateRows(diff, now.due, today)} :
        /\ card' = Merged(copy, seen, now, news)
        /\ \E told \in {Recorded(news \ consumed)} : inbox' = inbox \o SetToSeq(told)
        /\ first' = [a \in Abouts |-> IF ~ was.read \/ (Optional(a) /\ first[a] = Absent)
                                      THEN Value(now, a) ELSE first[a]]
        /\ gaps' = gaps \union Vanished(was, now)
                        \union {Field("overlap") : x \in {copy} \ {card}}
                        \union {Field("consumed") : r \in Recorded(diff) \cap consumed}

Misfires == spent.misses < Misses /\ spent' = [spent EXCEPT !.misses = @ + 1]
Nobody == [at |-> "idle", copy |-> Absent, seen |-> Absent, today |-> 0, row |-> 0]

\* The watch pass lists the case, reads its page, downloads a file, applies.
PassLists ==
    /\ watch.at = "idle"
    /\ watch' = [Nobody EXCEPT !.at = "reading", !.copy = card, !.today = day]
    /\ UNCHANGED <<subject, page, day, card, inbox, dismissed, desk, spent, first, gaps>>

PassReads ==
    /\ watch.at = "reading"
    /\ IF DOMAIN page.files = {}
       THEN watch' = Nobody /\ Apply(watch.copy, page, << >>, watch.today, {})
       ELSE /\ watch' = [watch EXCEPT !.at = "probing", !.seen = page]
            /\ UNCHANGED <<card, inbox, first, gaps>>
    /\ UNCHANGED <<subject, page, day, dismissed, desk, spent>>

\* probeWatchedDocument. A file that is not listed any more cannot be had.
Target == NextTarget(watch.copy.snap.checked, DOMAIN watch.seen.files)
Probed(content) ==
    /\ watch' = Nobody
    /\ Apply(watch.copy, watch.seen, [f \in {Target} |-> content], watch.today, {})
    /\ UNCHANGED <<subject, page, day, dismissed, desk>>
PassProbes ==
    /\ watch.at = "probing"
    /\ Probed(IF Target \in DOMAIN page.files THEN page.files[Target] ELSE Absent)
    /\ UNCHANGED spent
ProbeFails == watch.at = "probing" /\ Misfires /\ Probed(Absent)

PassReadFails ==
    /\ watch.at = "reading" /\ Misfires /\ watch' = Nobody
    /\ UNCHANGED <<subject, page, day, card, inbox, dismissed, desk, first, gaps>>

\* The specialist opens the case again, or resolves a row by reading the page.
Refreshable == {i \in DOMAIN inbox \ dismissed : inbox[i].about.field \notin {"listing", "content"}}
DeskAsks ==
    /\ desk.at = "idle" /\ spent.visits < Visits
    /\ spent' = [spent EXCEPT !.visits = @ + 1]
    /\ \E i \in Refreshable \union {0} : desk' = [Nobody EXCEPT !.at = "reading", !.copy = card, !.row = i]
    /\ UNCHANGED <<subject, page, day, card, inbox, dismissed, watch, first, gaps>>

Resolved == {i \in {desk.row} : i # 0}
DeskReads ==
    /\ desk.at = "reading"
    /\ Apply(desk.copy, page, << >>, day, {inbox[i] : i \in Resolved})
    /\ dismissed' = dismissed \union Resolved /\ desk' = Nobody
    /\ UNCHANGED <<subject, page, day, watch, spent>>

DeskReadFails ==
    /\ desk.at = "reading" /\ Misfires /\ desk' = Nobody
    /\ UNCHANGED <<subject, page, day, card, inbox, dismissed, watch, first, gaps>>

----------------------------------------------------------------------------
\* What the registry does: any field changes or is not printed for a while, files
\* are listed, replaced under their URL and taken away.
Posted(field, next) ==
    /\ field \in subject /\ next # page /\ page' = next
    /\ spent.posts < Posts[field] /\ spent' = [spent EXCEPT !.posts = @ + 1]
    /\ UNCHANGED <<subject, day, card, inbox, dismissed, watch, desk, first, gaps>>

StatusMoves == \E x \in Statuses \union {Absent} : Posted("status", [page EXCEPT !.status = x])
PriceMoves  == \E x \in Prices \union {Absent} : Posted("price", [page EXCEPT !.price = x])
DueMoves    == \E x \in (1..LastDay) \union {Absent} : Posted("due", [page EXCEPT !.due = x])
EventMoves  == \E S \in SUBSET {1} : Posted("event", [page EXCEPT !.events = S])
FileMoves   ==
    \E f \in Urls :
        \/ \E c \in 1..Contents : Posted("files", [page EXCEPT !.files =
                [g \in DOMAIN page.files \union {f} |-> IF g = f THEN c ELSE page.files[g]]])
        \/ Posted("files", [page EXCEPT !.files = [g \in DOMAIN page.files \ {f} |-> page.files[g]]])
NextDay ==
    /\ "due" \in subject /\ day < LastDay + 1 /\ day' = day + 1
    /\ UNCHANGED <<subject, page, card, inbox, dismissed, watch, desk, spent, first, gaps>>

NewsInit ==
    /\ subject \in Subjects
    /\ \E s \in Statuses, p \in Prices :
          /\ page = [status |-> s, price |-> IF "price" \in subject THEN p ELSE Absent, due |-> Absent, events |-> {},
                     files |-> IF "files" \in subject THEN [f \in Urls |-> 1] ELSE << >>]
          /\ card = [status |-> s, label |-> s, amount |-> Absent, snap |-> Unread]
    /\ day = 1 /\ inbox = << >> /\ dismissed = {}
    /\ watch = Nobody /\ desk = Nobody /\ spent = [posts |-> 0, visits |-> 0, misses |-> 0]
    /\ first = [a \in Abouts |-> Absent] /\ gaps = {}

WatchPass == PassLists \/ PassReads \/ PassProbes
NewsNext ==
    \/ WatchPass \/ ProbeFails \/ PassReadFails
    \/ DeskAsks \/ DeskReads \/ DeskReadFails
    \/ StatusMoves \/ PriceMoves \/ DueMoves \/ EventMoves \/ FileMoves \/ NextDay
NewsSpec == NewsInit /\ [][NewsNext]_newsVars

----------------------------------------------------------------------------
NewsTypeOK ==
    /\ DOMAIN page.files \subseteq Urls /\ DOMAIN card.snap.files \subseteq Urls
    /\ card.status \in Statuses /\ card.label \in Statuses \union {Absent}
    /\ DOMAIN card.snap.checked \subseteq DOMAIN card.snap.files
    /\ dismissed \subseteq DOMAIN inbox
    /\ watch.at \in {"idle", "reading", "probing"} /\ desk.at \in {"idle", "reading"}

\* The rows of the inbox tell a story that is true: of every field, each row begins
\* where the one before it ended, and the last one ends at what the card shows. The
\* story is broken by two readings at once, by a field that vanished between two
\* values, and by a row resolved when its change had happened again.
LeftAt(a, n) ==
    LET told == {i \in 1..(n - 1) : inbox[i].about = a}
    IN  IF told = {} THEN first[a] ELSE inbox[Max(told)].is
StoryIsTrue ==
    gaps \intersect {Field("overlap"), Field("consumed")} = {} =>
        \A a \in Abouts \ gaps :
            /\ \A i \in DOMAIN inbox : inbox[i].about = a => inbox[i].was = LeftAt(a, i)
            /\ Value(card.snap, a) = LeftAt(a, Len(inbox) + 1)

\* An event of the chronology and a deadline that passed are told once, although
\* the page may lose them and show them again.
EventsAreToldOnce ==
    \A i, j \in DOMAIN inbox :
        inbox[i] = inbox[j] /\ inbox[i].about.field \in {"event", "expired", "soon"} => i = j

\* A known gap: what vanished for a reading and came back different is told, too.
StoryHasNoHoles ==
    gaps \intersect {Field("overlap"), Field("consumed")} = {} =>
        \A a \in Abouts : Value(card.snap, a) \in {Absent, LeftAt(a, Len(inbox) + 1)}

\* A page without a badge does not wipe the status of the card (applySourceCard:
\* "Do not wipe the listing status").
StatusIsNotWiped == card.label # Absent

\* A file whose present content was not looked at, or a deadline that passed and
\* was not announced. Neither lasts: a pass tries the files in turn, and tells the
\* state of a deadline however late it reads it.
NotFoundYet ==
    \/ \E f \in DOMAIN page.files : Value(card.snap, About("content", f)) # page.files[f]
    \/ /\ Overdue(card.snap.due, day)
       /\ Row(Field("expired"), Absent, Absent) \notin Range(inbox)
=============================================================================
