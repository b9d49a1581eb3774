----------------------------- MODULE Discovery -----------------------------
(***************************************************************************)
(* The background discovery pass of the specialist console                 *)
(* (apps/api/src/app.ts, fetchProfileHits and discoveryPass) over the      *)
(* procurement registries, for one working profile.                        *)
(*                                                                         *)
(* A pass asks every enabled registry ("lane") for the procedures posted   *)
(* since the profile's watermark.  A lane answers one window of rows, says *)
(* whether more follow, and hands out a resume token when they do.  A pass *)
(* reads at most MaxPages windows; when the lanes were read to the end the *)
(* watermark moves to the start of the pass, otherwise it is held and the  *)
(* tokens are kept, so that the next pass resumes below them.              *)
(*                                                                         *)
(* Time is counted in calendar days: the registries filter by day and the  *)
(* fingerprint of a resume token sees the day only (publishedFrom).        *)
(*                                                                         *)
(* Simplifications.  One profile, with no derived search terms (the branch *)
(* extraTerms.length === 0).  A lane is one list, newest row first, that   *)
(* only grows at its head: rows are never withdrawn or posted with a past  *)
(* date.  A lane returns exactly Limit rows while it has them, so an       *)
(* answer that reports more is never empty (lastPageSize > 0 is implied).  *)
(* The lanes of one page answer in one step: they share no state.          *)
(***************************************************************************)
EXTENDS Integers, Sequences, FiniteSets

CONSTANTS
    Lanes,           \* the enabled sources
    KeywordBlind,    \* lanes whose token fingerprint ignores the keywords
    Limit,           \* rows one lane call returns
    MaxPages,        \* DISCOVERY_MAX_PAGES
    Margin,          \* DISCOVERY_WATERMARK_MARGIN_MS, in days
    Bootstrap,       \* DISCOVERY_BOOTSTRAP_LOOKBACK_MS, in days
    CursorsDurable,  \* TRUE: workspace file; FALSE: PostgreSQL (no column)
    MaxTime,         \* bound: last day
    MaxRows,         \* bound: rows of one lane
    MaxEdits,        \* bound: profile edits
    MaxFaults        \* bound: failed calls, dead passes and restarts

ASSUME LanesAssumption == IsFiniteSet(Lanes) /\ Lanes # {} /\ KeywordBlind \subseteq Lanes
ASSUME SizesAssumption == Limit \in Nat \ {0} /\ MaxPages \in Nat \ {0}
ASSUME TimesAssumption == Margin \in Nat /\ Bootstrap \in Nat /\ Margin <= Bootstrap
ASSUME DurableAssumption == CursorsDurable \in BOOLEAN
ASSUME BoundsAssumption ==
    MaxTime \in Nat /\ MaxRows \in Nat /\ MaxEdits \in Nat /\ MaxFaults \in Nat

VARIABLES
    now,        \* the day
    registry,   \* registry[lane]: day of posting of each row, oldest first
    cabinet,    \* the profile and its cards in the process's memory
    saved,      \* the same as the durable store holds it
    pass,       \* the pass in progress
    faults      \* failures so far

vars == <<now, registry, cabinet, saved, pass, faults>>

NoTime == -(Bootstrap + Margin + 1)

(* A resume token: the next unread position of a window, and the           *)
(* fingerprint of the query it was read for.                               *)
NoToken == [next |-> 0, from |-> 0, terms |-> 0]
NoCursors == [l \in Lanes |-> NoToken]
Never == [l \in Lanes |-> NoTime]

Tokens == [next : Nat, from : Int, terms : Nat]
Rows == Lanes \X Nat

(***************************************************************************)
(* What the cabinet holds for the profile.  The last three fields are      *)
(* history, not state of the code:                                         *)
(*   since[l]  every row lane l posted before this day, in the open window *)
(*             and ahead of the lane's token, has been delivered;          *)
(*   floor     where the first window began;                               *)
(*   gaps      the ways in which a recorded pass has fallen short so far:  *)
(*     "head"   a lane's window was closed, its head never delivered,      *)
(*     "aged"   a lane's head was read longer ago than the margin,         *)
(*     "terms"  the pass had read for terms the profile no longer has,     *)
(*     "cards"  the profile was made durable without the cards it is about *)
(***************************************************************************)
Gaps == {"head", "aged", "terms", "cards"}

Cabinets == [terms : Nat,
             watermark : Int,
             cursors : [Lanes -> Tokens],
             found : SUBSET Rows,
             since : [Lanes -> Int],
             floor : Int,
             gaps : SUBSET Gaps]

NewCabinet(terms) == [terms |-> terms,
                      watermark |-> NoTime,
                      cursors |-> NoCursors,
                      found |-> {},
                      since |-> Never,
                      floor |-> NoTime,
                      gaps |-> {}]

Passes == [phase : {"idle", "search", "score"},
           startedAt : Int,
           from : Int,
           terms : Nat,
           page : Nat,
           cursors : [Lanes -> Tokens],
           since : [Lanes -> Int],
           hits : SUBSET Rows,
           answered : SUBSET Lanes,
           more : BOOLEAN,
           failed : BOOLEAN]

NoPass == [phase |-> "idle", startedAt |-> NoTime, from |-> NoTime, terms |-> 0,
           page |-> 0, cursors |-> NoCursors, since |-> Never, hits |-> {},
           answered |-> {}, more |-> FALSE, failed |-> FALSE]

(***************************************************************************)
(* The registries.                                                         *)
(***************************************************************************)
(* The place of row i of a lane's list, counted from the newest row. *)
Position(list, i) == Len(list) - i + 1

(* The rows of one window, and whether rows follow it. *)
WindowRows(list, from, start) ==
    {i \in 1..Len(list) : /\ list[i] >= from
                          /\ Position(list, i) \in start..(start + Limit - 1)}

(* Mutated: the row right after the window is overlooked. *)
MoreBelowOffByOne(list, from, start) ==
    \E i \in 1..Len(list) : list[i] >= from /\ Position(list, i) > start + Limit

MoreBelow(list, from, start) ==
    \E i \in 1..Len(list) : list[i] >= from /\ Position(list, i) >= start + Limit

(* The lane takes the token only for the query it was read for; otherwise  *)
(* it scans afresh, at the offset of the call.                             *)
Resumes(l, token, from, terms) ==
    /\ token.next > 0
    /\ token.from = from
    /\ l \in KeywordBlind \/ token.terms = terms

(***************************************************************************)
(* One pass.                                                               *)
(***************************************************************************)
(* discoveryPublishedFrom *)
PublishedFrom(c, today) ==
    IF c.watermark = NoTime THEN today - Bootstrap ELSE c.watermark - Margin

LaneResumes(l) == Resumes(l, pass.cursors[l], pass.from, pass.terms)

LaneStart(l) == IF LaneResumes(l) THEN pass.cursors[l].next ELSE pass.page * Limit + 1

LaneMore(l) == MoreBelow(registry[l], pass.from, LaneStart(l))

LaneHits(l) == {l} \X WindowRows(registry[l], pass.from, LaneStart(l))

(* Mutated: the token is counted from the offset of the call before. *)
NewTokenFromOffset(l) ==
    [next |-> (pass.page - 1) * Limit, from |-> pass.from, terms |-> pass.terms]

NewToken(l) == [next |-> LaneStart(l) + Limit, from |-> pass.from, terms |-> pass.terms]

(* Mutated: the reported tokens replace the old ones, as before STAGE-130. *)
ReplaceCursors(failing) ==
    [l \in Lanes |-> IF l \notin failing /\ LaneMore(l) THEN NewToken(l) ELSE NoToken]

(* mergePageCursors: a lane that failed keeps its token, a lane that       *)
(* answered has the token it reported, or none.                            *)
MergePageCursors(failing) ==
    [l \in Lanes |-> IF l \in failing THEN pass.cursors[l]
                     ELSE IF LaneMore(l) THEN NewToken(l)
                     ELSE NoToken]

(* History: a fresh scan of page 0 is a scan from the head. *)
ReadHeads(failing) ==
    [l \in Lanes |-> IF l \notin failing /\ pass.page = 0 /\ ~LaneResumes(l)
                     THEN now ELSE pass.since[l]]

(* The history of a lane goes on where its scan does. *)
SinceAtStart ==
    [l \in Lanes |->
        IF \/ cabinet.cursors[l] = NoToken
           \/ Resumes(l, cabinet.cursors[l], PublishedFrom(cabinet, now), cabinet.terms)
        THEN cabinet.since[l] ELSE NoTime]

StartPass ==
    /\ pass.phase = "idle"
    /\ pass' = [phase |-> "search", startedAt |-> now, from |-> PublishedFrom(cabinet, now),
                terms |-> cabinet.terms, page |-> 0, cursors |-> cabinet.cursors,
                since |-> SinceAtStart, hits |-> {}, answered |-> {},
                more |-> FALSE, failed |-> FALSE]
    /\ UNCHANGED <<now, registry, cabinet, saved, faults>>

(* The loop reads deeper while some lane reports more, up to MaxPages. *)
PhaseAfter(page, more) == IF more /\ page < MaxPages THEN "search" ELSE "score"

PageAnswers(failing) ==
    LET answering == Lanes \ failing
        more == \E l \in answering : LaneMore(l)
    IN /\ pass.phase = "search"
       /\ answering # {}
       /\ failing # {} => faults < MaxFaults
       /\ pass' = [phase |-> PhaseAfter(pass.page + 1, more),
                   startedAt |-> pass.startedAt,
                   from |-> pass.from,
                   terms |-> pass.terms,
                   page |-> pass.page + 1,
                   cursors |-> MergePageCursors(failing),
                   since |-> ReadHeads(failing),
                   hits |-> pass.hits \cup UNION {LaneHits(l) : l \in answering},
                   answered |-> pass.answered \cup answering,
                   more |-> more,
                   failed |-> pass.failed \/ failing # {}]
       /\ faults' = IF failing = {} THEN faults ELSE faults + 1
       /\ UNCHANGED <<now, registry, cabinet, saved>>

(* Mutated: a failed first page is paged over like a later one. *)
FirstPageSkipped ==
    /\ pass.phase = "search"
    /\ pass.page = 0
    /\ faults < MaxFaults
    /\ pass' = [pass EXCEPT !.page = 1, !.failed = TRUE]
    /\ faults' = faults + 1
    /\ UNCHANGED <<now, registry, cabinet, saved>>

(* Every lane failed the first page: the profile is left as it was. *)
FirstPageFails ==
    /\ pass.phase = "search"
    /\ pass.page = 0
    /\ faults < MaxFaults
    /\ pass' = NoPass
    /\ faults' = faults + 1
    /\ UNCHANGED <<now, registry, cabinet, saved>>

(* Mutated: the hits of the earlier pages are thrown away. *)
LaterPageDropsHits ==
    /\ pass.phase = "search"
    /\ pass.page > 0
    /\ faults < MaxFaults
    /\ pass' = [pass EXCEPT !.phase = "score", !.failed = TRUE, !.hits = {}]
    /\ faults' = faults + 1
    /\ UNCHANGED <<now, registry, cabinet, saved>>

(* Every lane failed a later page: what the earlier pages delivered stays. *)
LaterPageFails ==
    /\ pass.phase = "search"
    /\ pass.page > 0
    /\ faults < MaxFaults
    /\ pass' = [pass EXCEPT !.phase = "score", !.failed = TRUE]
    /\ faults' = faults + 1
    /\ UNCHANGED <<now, registry, cabinet, saved>>

(* Scoring or the store threw: nothing is recorded. *)
PassDies ==
    /\ pass.phase = "score"
    /\ faults < MaxFaults
    /\ pass' = NoPass
    /\ faults' = faults + 1
    /\ UNCHANGED <<now, registry, cabinet, saved>>

(* Mutated: a failed lane does not degrade the pass. *)
FullyReadIgnoringFailures == ~pass.more

(* The code's test: no reason to call the pass degraded. *)
FullyRead == ~pass.failed /\ ~pass.more

SameTerms == pass.terms = cabinet.terms

Delivered == IF SameTerms THEN cabinet.found \cup pass.hits ELSE cabinet.found

SinceRecorded == IF SameTerms THEN pass.since ELSE Never

(* History: what the pass being closed falls short of. *)
Shortfalls ==
    (IF SameTerms THEN {} ELSE {"terms"})
      \cup (IF \E l \in Lanes : pass.since[l] = NoTime THEN {"head"} ELSE {})
      \cup (IF \E l \in Lanes : pass.since[l] \in (NoTime + 1)..(pass.startedAt - Margin - 1)
              THEN {"aged"} ELSE {})

(* markDiscovered(startedAt), setDiscoveryScanCursors(undefined) *)
RecordClosedWindow ==
    /\ pass.phase = "score"
    /\ FullyRead
    /\ cabinet' = [cabinet EXCEPT
                     !.watermark = pass.startedAt,
                     !.cursors = NoCursors,
                     !.found = Delivered,
                     !.since = SinceRecorded,
                     !.floor = IF cabinet.watermark = NoTime THEN pass.from ELSE cabinet.floor,
                     !.gaps = cabinet.gaps \cup Shortfalls]
    /\ pass' = NoPass
    /\ UNCHANGED <<now, registry, saved, faults>>

(* Mutated: the position a truncated pass reached is not stored. *)
RecordHeldWithoutCursors ==
    /\ pass.phase = "score"
    /\ ~FullyRead
    /\ cabinet' = [cabinet EXCEPT !.found = Delivered, !.since = SinceRecorded]
    /\ pass' = NoPass
    /\ UNCHANGED <<now, registry, saved, faults>>

(* setDiscoveryScanCursors(scanCursors): the watermark is held *)
RecordHeldWindow ==
    /\ pass.phase = "score"
    /\ ~FullyRead
    /\ cabinet' = [cabinet EXCEPT
                     !.cursors = pass.cursors,
                     !.found = Delivered,
                     !.since = SinceRecorded]
    /\ pass' = NoPass
    /\ UNCHANGED <<now, registry, saved, faults>>

(***************************************************************************)
(* The specialist, the store and the process.                              *)
(***************************************************************************)
(* A change of the search signature: the source must be re-read. *)
EditProfile ==
    /\ cabinet.terms < MaxEdits
    /\ cabinet' = NewCabinet(cabinet.terms + 1)
    /\ UNCHANGED <<now, registry, saved, pass, faults>>

ProfileRow(c) == [terms |-> c.terms, watermark |-> c.watermark,
                  cursors |-> IF CursorsDurable THEN c.cursors ELSE NoCursors]

Durable(c) == IF CursorsDurable THEN c
              ELSE [c EXCEPT !.cursors = NoCursors, !.since = Never]

(* persist: profile, cards and inbox in one transaction. *)
SaveCabinet ==
    /\ saved # Durable(cabinet)
    /\ saved' = Durable(cabinet)
    /\ UNCHANGED <<now, registry, cabinet, pass, faults>>

(* persistWorkspaceOnly: the profile row alone, on a profile operation of  *)
(* the specialist; the cards stay as they were saved last.                 *)
CardsSaved == IF saved.terms = cabinet.terms THEN saved.found ELSE {}
CardsStranded == ~(cabinet.found \subseteq CardsSaved)

SaveProfile ==
    /\ ProfileRow(saved) # ProfileRow(cabinet)
    /\ saved' = [Durable(cabinet) EXCEPT
                   !.found = CardsSaved,
                   !.since = IF CardsStranded THEN Never ELSE Durable(cabinet).since,
                   !.gaps = IF CardsStranded THEN cabinet.gaps \cup {"cards"} ELSE cabinet.gaps]
    /\ UNCHANGED <<now, registry, cabinet, pass, faults>>

Restart ==
    /\ faults < MaxFaults
    /\ cabinet' = saved
    /\ pass' = NoPass
    /\ faults' = faults + 1
    /\ UNCHANGED <<now, registry, saved>>

(* The registries and the calendar. *)
Post(l) ==
    /\ Len(registry[l]) < MaxRows
    /\ registry' = [registry EXCEPT ![l] = Append(@, now)]
    /\ UNCHANGED <<now, cabinet, saved, pass, faults>>

Tick ==
    /\ now < MaxTime
    /\ now' = now + 1
    /\ UNCHANGED <<registry, cabinet, saved, pass, faults>>

-----------------------------------------------------------------------------
Init ==
    /\ now = 0
    /\ registry = [l \in Lanes |-> <<>>]
    /\ cabinet = NewCabinet(0)
    /\ saved = NewCabinet(0)
    /\ pass = NoPass
    /\ faults = 0

ReadPage == \/ \E failing \in SUBSET Lanes : PageAnswers(failing)
            \/ FirstPageFails
            \/ LaterPageFails

Next ==
    \/ StartPass
    \/ ReadPage
    \/ PassDies
    \/ RecordClosedWindow
    \/ RecordHeldWindow
    \/ EditProfile
    \/ SaveCabinet
    \/ SaveProfile
    \/ Restart
    \/ \E l \in Lanes : Post(l)
    \/ Tick

Spec == Init /\ [][Next]_vars

(* The timer starts a pass again and again, every lane call ends (its      *)
(* timeout), and a pass that was read is recorded.  Nothing is assumed of  *)
(* the specialist, the registries, the calendar or the restarts.           *)
Fairness ==
    /\ WF_vars(StartPass)
    /\ WF_vars(ReadPage)
    /\ WF_vars(RecordClosedWindow \/ RecordHeldWindow)

FairSpec == Spec /\ Fairness

-----------------------------------------------------------------------------
TypeOK ==
    /\ now \in Nat
    /\ registry \in [Lanes -> Seq(Nat)]
    /\ cabinet \in Cabinets
    /\ saved \in Cabinets
    /\ pass \in Passes
    /\ faults \in Nat

(* The rows of the profile's windows that lie behind the watermark and its *)
(* margin - no later pass will ask a registry for them - were delivered.   *)
NothingBehindWatermark(c, reg) ==
    c.watermark # NoTime =>
        \A l \in Lanes : \A i \in 1..Len(reg[l]) :
            reg[l][i] >= c.floor /\ reg[l][i] < c.watermark - Margin => <<l, i>> \in c.found

(* Every row behind the watermark has been delivered to the profile's      *)
(* cards, in memory and in the store, unless a recorded pass fell short in *)
(* a way that is not in excused.                                           *)
HonestBut(excused) ==
    \A c \in {cabinet, saved} : c.gaps \subseteq excused => NothingBehindWatermark(c, registry)

(* "It moves only over a fully-read window" (discoveryPass): a recorded    *)
(* pass loses no row, over any interleaving of posts, failed lanes, dead   *)
(* passes, edits, saves and restarts, but for the four shortfalls of Gaps. *)
WatermarkHonest == HonestBut({})

(* The same promise without excusing a lane whose head was not delivered:  *)
(* a failed lane holds the window until its own rows were read.            *)
FailedLaneHoldsItsRows == HonestBut({"head"})

(* The same promise without excusing a pass that read for other terms:     *)
(* after an edit "the source must be re-read" (#replace, R12).             *)
EditedTermsAreReread == HonestBut({"terms"})

(* The same promise without excusing a profile row saved on its own: what  *)
(* the watermark covers survives a restart.                                *)
WatermarkSurvivesRestart == HonestBut({"cards"})

(***************************************************************************)
(* The inductive strengthening of WatermarkHonest.                         *)
(***************************************************************************)
(* What since promises of one lane's list: of the rows posted before that  *)
(* day, those ahead of the lane's token (all of the window that opens on   *)
(* day from, when it has none) have been delivered.                        *)
Ahead(list, i, token, from) ==
    IF token = NoToken THEN list[i] >= from
    ELSE list[i] >= token.from /\ Position(list, i) < token.next

LanePromise(l, list, today, token, since, from, delivered) ==
    since # NoTime =>
        /\ since \in 0..today
        /\ \A i \in 1..Len(list) :
              list[i] < since /\ Ahead(list, i, token, from) => <<l, i>> \in delivered

CabinetInv(c, reg, today) ==
    /\ c.watermark # NoTime => c.watermark \in 0..today
    /\ c.gaps = {} =>
          /\ NothingBehindWatermark(c, reg)
          /\ \A l \in Lanes : LanePromise(l, reg[l], today, c.cursors[l], c.since[l],
                                         PublishedFrom(c, today), c.found)

PassInv ==
    pass.phase # "idle" =>
        /\ pass.startedAt \in 0..now
        /\ pass.terms <= cabinet.terms
        /\ pass.phase = "score" /\ FullyRead => pass.cursors = NoCursors
        /\ \A l \in Lanes : pass.since[l] # NoTime => pass.cursors[l] = NoToken \/ LaneResumes(l)
        /\ SameTerms => /\ pass.from = PublishedFrom(cabinet, pass.startedAt)
                        /\ pass.from <= pass.startedAt - Margin
        /\ SameTerms /\ cabinet.gaps = {} =>
              \A l \in Lanes : LanePromise(l, registry[l], now, pass.cursors[l], pass.since[l],
                                           pass.from, cabinet.found \cup pass.hits)

IInv ==
    /\ TypeOK
    /\ CabinetInv(cabinet, registry, now)
    /\ CabinetInv(saved, registry, now)
    /\ PassInv

Recorded == pass.phase = "score" /\ pass'.phase = "idle" /\ faults' = faults

(* A lane that answered nothing during a pass neither lets the watermark   *)
(* move nor loses the place earlier passes had reached (mergePageCursors,  *)
(* the defect STAGE-130 repaired).                                         *)
SilentLaneKeepsItsPlace ==
    [][\A l \in Lanes : Recorded /\ l \notin pass.answered =>
          /\ cabinet'.watermark = cabinet.watermark
          /\ SameTerms => cabinet'.cursors[l] = cabinet.cursors[l]]_vars

(* With the one default source no failed call, dead pass or restart makes  *)
(* a pass close a window whose head was not delivered, as long as nobody   *)
(* edits and the store was not left with a profile ahead of its cards.     *)
OneSourceReadsTheHead ==
    Cardinality(Lanes) = 1 /\ cabinet.terms = 0 =>
        \/ "head" \notin cabinet.gaps
        \/ "cards" \in cabinet.gaps

(* "A bootstrap bound makes the first pass converge": a profile is never   *)
(* left without a watermark for ever, also not after edits and restarts.   *)
WindowCloses == []<>(cabinet.watermark # NoTime)

(* A posted row reaches the profile's cards, unless a shortfall is on      *)
(* record: truncation is "self-recovering, the cursor resumes next pass".  *)
(* (Rows are never withdrawn, so this is Posted ~> Delivered.)             *)
PostedRowIsDelivered ==
    \A l \in Lanes, i \in 1..MaxRows :
        []<>(i <= Len(registry[l]) => <<l, i>> \in cabinet.found \/ cabinet.gaps # {})

=============================================================================
