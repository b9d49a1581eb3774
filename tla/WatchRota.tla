----------------------------- MODULE WatchRota -----------------------------
\* Whose turn it is in the watch pass: more cases are followed than one pass may
\* read, and it takes those whose snapshot is oldest (monitorDecidedCases of
\* apps/api/src/app.ts over listWatchedCases of packages/db/src/specialist-store.ts
\* or, without a database, of cabinets.ts and persist.ts). What a reading finds is
\* the subject of WatchNews, the copies and the queue of writes that of CaseFile;
\* here a save is one step that works or fails.
EXTENDS Naturals, FiniteSets, Sequences

CONSTANTS
    Cases,          \* the cases of a cabinet
    WatchLimit,     \* how many a pass reads (SPECIALIST_WATCH_LIMIT)
    Withdrawn,      \* the sets of cases whose pages the source may not give any more
    Decisions, Visits, Misses   \* bounds: decisions, readings at the desk, failures

ASSUME RotaBounds == /\ IsFiniteSet(Cases) /\ WatchLimit \in Nat \ {0}
                     /\ Withdrawn \subseteq SUBSET Cases
                     /\ {Decisions, Visits, Misses} \subseteq Nat

VARIABLES
    lists,      \* where the pass looks for its cases: "rows" or "memory"
    gone,       \* the cases whose pages cannot be read, for good
    followed,   \* decided for and not archived
    memory,     \* capturedAt of each snapshot; 0 for a case that has none
    rows,       \* the same in the store
    round,      \* the pass: whom it has still to read, its time, whom it has read
    spent,      \* decisions, readings at the desk, failures so far
    patient,    \* history: a case that is watched waiting
    passedBy,   \* history: how often each other was read since its last turn
    unsaved     \* history: a save has failed, or the process ended before one

rotaVars == <<lists, gone, followed, memory, rows, round, spent, patient, passedBy, unsaved>>

Unread == 0
Resting == [at |-> "rest", left |-> << >>, now |-> 0, read |-> {}]
NobodyYet == [c \in Cases |-> 0]

\* Only the order of times matters: they are numbered anew at every step.
Times(m, r, p) == {m[c] : c \in Cases} \union {r[c] : c \in Cases} \union {p.now}
Clock(T) == Cardinality(T \ {Unread}) + 1
Among(T, t) == Cardinality({u \in T \ {Unread} : u <= t})
Settle(m, r, p) ==
    LET T == Times(m, r, p)
    IN  /\ memory' = [c \in Cases |-> Among(T, m[c])]
        /\ rows'   = [c \in Cases |-> Among(T, r[c])]
        /\ round'  = [p EXCEPT !.now = Among(T, @)]
Now == Clock(Times(memory, rows, round))

\* listWatchedCases: cases without a snapshot first, then by capturedAt, at most
\* WatchLimit. Equal ones come in any order.
Captured == IF lists = "rows" THEN rows ELSE memory
Ceiling == IF Cardinality(followed) < WatchLimit THEN Cardinality(followed) ELSE WatchLimit
Listings == {s \in [1..Ceiling -> followed] : \A i, j \in 1..Ceiling : i # j => s[i] # s[j]}
Left(s) == followed \ {s[i] : i \in 1..Ceiling}
NewestFirst(s) ==
    /\ \A i, j \in 1..Ceiling : i <= j => Captured[s[i]] >= Captured[s[j]]
    /\ \A i \in 1..Ceiling, c \in Left(s) : Captured[s[i]] >= Captured[c]
OldestFirst(s) ==
    /\ \A i, j \in 1..Ceiling : i <= j => Captured[s[i]] <= Captured[s[j]]
    /\ \A i \in 1..Ceiling, c \in Left(s) : Captured[s[i]] <= Captured[c]

Spends(what, bound) == spent[what] < bound /\ spent' = [spent EXCEPT ![what] = @ + 1]

\* The pass begins: its cases, and one time stamp for all it will read (`now`).
StartRound ==
    /\ round.at = "rest"
    /\ \E s \in Listings :
          OldestFirst(s) /\ Settle(memory, rows, [at |-> "read", left |-> s, now |-> Now, read |-> {}])
    /\ UNCHANGED <<lists, gone, followed, spent, patient, passedBy, unsaved>>

\* The next case of the list, which has its turn now.
TurnOf == Head(round.left)
GoesOn(read) == [round EXCEPT !.left = Tail(@), !.read = read]
PassesBy(c) ==
    passedBy' = IF c = patient THEN NobodyYet
                ELSE IF patient \in followed THEN [passedBy EXCEPT ![c] = IF @ < 3 THEN @ + 1 ELSE 3]
                ELSE passedBy

\* The page is read: upsertCase keeps its snapshot, with or without a change.
StampOfChanged(c) == memory
Stamped(c) == [memory EXCEPT ![c] = round.now]
Reads ==
    /\ round.at = "read" /\ round.left # << >> /\ TurnOf \notin gone
    /\ Settle(Stamped(TurnOf), rows, GoesOn(round.read \union {TurnOf}))
    /\ PassesBy(TurnOf)
    /\ UNCHANGED <<lists, gone, followed, spent, patient, unsaved>>

\* `fresh === undefined`: the pass goes on with the next one, nothing is kept.
Unreadable ==
    /\ round.at = "read" /\ round.left # << >>
    /\ \/ TurnOf \in gone    /\ UNCHANGED spent
       \/ TurnOf \notin gone /\ Spends("misses", Misses)
    /\ round' = GoesOn(round.read)
    /\ passedBy' = IF TurnOf = patient THEN NobodyYet ELSE passedBy
    /\ UNCHANGED <<lists, gone, followed, memory, rows, patient, unsaved>>

\* The pass ends with a save of the whole cabinet, or with none when it read no
\* page and no profile looks for new ones (finishMonitoringOnly).
Done == round.at = "read" /\ round.left = << >>
Saves ==
    /\ Done /\ \E r \in {memory} \union (IF round.read = {} THEN {rows} ELSE {}) :
                  Settle(memory, r, Resting)
    /\ UNCHANGED <<lists, gone, followed, spent, patient, passedBy, unsaved>>
SaveFails ==
    /\ Done /\ Spends("misses", Misses) /\ Settle(memory, rows, Resting) /\ unsaved' = TRUE
    /\ UNCHANGED <<lists, gone, followed, patient, passedBy>>

\* A case is read on a request of the specialist and the cabinet saved.
DeskReads(c) ==
    /\ c \notin gone /\ Spends("visits", Visits)
    /\ \E m \in {[memory EXCEPT ![c] = Now]} : Settle(m, m, round)
    /\ passedBy' = IF c = patient THEN NobodyYet ELSE passedBy
    /\ UNCHANGED <<lists, gone, followed, patient, unsaved>>

\* A case is decided for, or rejected or archived; its snapshot stays with it.
Decides(c) ==
    /\ Spends("decisions", Decisions)
    /\ followed' = IF c \in followed THEN followed \ {c} ELSE followed \union {c}
    /\ passedBy' = IF c = patient THEN NobodyYet ELSE passedBy
    /\ Settle(memory, memory, round)
    /\ UNCHANGED <<lists, gone, patient, unsaved>>

\* The process ends, the rows are what it starts from.
RotaRestart ==
    /\ Spends("misses", Misses)
    /\ Settle(rows, rows, Resting)
    /\ unsaved' = (unsaved \/ memory # rows)
    /\ UNCHANGED <<lists, gone, followed, patient, passedBy>>

RotaInit ==
    /\ lists \in {"rows", "memory"} /\ gone \in Withdrawn /\ patient \in Cases
    /\ followed = Cases /\ memory \in {NobodyYet, [c \in Cases |-> 1]} /\ rows = memory
    /\ round = Resting /\ passedBy = NobodyYet /\ unsaved = FALSE
    /\ spent = [decisions |-> 0, visits |-> 0, misses |-> 0]

PassStep == StartRound \/ Reads \/ Unreadable \/ Saves
RotaNext ==
    \/ StartRound \/ Reads \/ Unreadable \/ Saves \/ SaveFails \/ RotaRestart
    \/ \E c \in Cases : DeskReads(c) \/ Decides(c)

----------------------------------------------------------------------------
RotaTypeOK ==
    /\ lists \in {"rows", "memory"} /\ gone \in Withdrawn /\ followed \subseteq Cases
    /\ {memory, rows} \subseteq [Cases -> Nat]
    /\ round.at \in {"rest", "read"} /\ round.read \subseteq Cases
    /\ patient \in Cases /\ passedBy \in [Cases -> 0..3] /\ unsaved \in BOOLEAN

\* Round-robin: while one followed case waits, no other is read more than twice,
\* although the passes are cut short, cases are opened at the desk in between and
\* the list is made from the store or from memory. Excused, for the rest of the
\* behaviour: a save that failed or was never made, which leaves the old times.
InTurn == ~unsaved => \A c \in Cases : passedBy[c] <= 2

\* "A watch list longer than the per-pass ceiling still gets round-robin coverage
\* instead of starving its tail" (app.ts:1713).
Readable == followed \ gone
TailIsCovered == \A c \in Cases : <>[](c \in Readable) => []<>(c \in round.read)

\* The same as long as the pages that cannot be read leave room in a pass: a case
\* without a new snapshot is first again in every one.
TailIsCoveredBehindFew ==
    \A c \in Cases :
        <>[](c \in Readable /\ Cardinality(gone \intersect followed) < WatchLimit)
            => []<>(c \in round.read)
=============================================================================
