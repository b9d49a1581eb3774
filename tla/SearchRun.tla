------------------------------ MODULE SearchRun ------------------------------
\* The searches a specialist starts by button for one profile (apps/api/src/
\* app.ts, search-progress.ts): each reads a listing, takes over the profile's
\* progress slot and scores its rows one by one in the background, while other
\* searches start, the specialist cancels or decides, and the process restarts.
EXTENDS Naturals, FiniteSets

CONSTANTS
    Searches,   \* presses of the button
    Hits,      \* the rows of a listing, 1..n in the order they are scored
    RunFaults   \* bound on failed writes and restarts

ASSUME HitsAreNumbered == IsFiniteSet(Hits) /\ Hits = 1..Cardinality(Hits)
ASSUME RunConstants == RunFaults \in Nat /\ "none" \notin Searches

VARIABLES
    search,     \* per press: where it stands, the row it is at
    slot,       \* the run that owns the progress slot of the profile
    ahead,      \* a cancellation waits for the next run
    runQueue,   \* the search queue: card -> the press that found it
    triaged,    \* cards the specialist has decided
    kept,       \* the run as last stored
    mishaps,
    over        \* history: runs that reached an end

searchVars == <<search, slot, ahead, runQueue, triaged, kept, mishaps, over>>

NoRun == [run |-> "none", status |-> "none"]
Terminal == {"done", "failed", "interrupted", "cancelled"}
Live == {"retrieving", "scoring"}
Runs == {NoRun} \union [run : Searches, status : Terminal \union Live]

IsCurrent(s) == slot.run = s /\ slot.status \in Live
At(s, step) == search[s].step = step
StepTo(s, step) == search' = [search EXCEPT ![s].step = step]

\* Every mutation of the hub is a no-op for a run that does not own the slot or
\* has ended.
MovedByOwner(s, status) ==
    IF slot.run = s THEN [slot EXCEPT !.status = status] ELSE slot
Moved(s, status) ==
    IF IsCurrent(s) THEN [slot EXCEPT !.status = status] ELSE slot

\* POST /api/procurements/search: a new search, or the next page of one.
Ask(s) ==
    /\ At(s, "idle")
    /\ \E fresh \in BOOLEAN : search' = [search EXCEPT ![s] = [step |-> "listing", fresh |-> fresh, row |-> 1]]
    /\ UNCHANGED <<slot, ahead, runQueue, triaged, kept, mishaps, over>>

ListingFails(s) ==
    /\ At(s, "listing") /\ StepTo(s, "ended")
    /\ UNCHANGED <<slot, ahead, runQueue, triaged, kept, mishaps, over>>

\* A fresh search empties the queue, then reads what is known of its rows.
ListingArrives(s) ==
    /\ At(s, "listing") /\ StepTo(s, "collecting")
    /\ runQueue' = IF search[s].fresh THEN <<>> ELSE runQueue
    /\ UNCHANGED <<slot, ahead, triaged, kept, mishaps, over>>

\* The run takes the slot, cancelled if a cancellation waited for it.
Begin(s) ==
    /\ At(s, "collecting") /\ StepTo(s, "saving")
    /\ slot' = [run |-> s, status |-> IF ahead THEN "cancelled"
                                      ELSE IF Hits \subseteq triaged THEN "done" ELSE "retrieving"]
    /\ ahead' = FALSE
    /\ over' = IF slot'.status \in Terminal THEN over \union {s} ELSE over
    /\ UNCHANGED <<runQueue, triaged, kept, mishaps>>

\* The queue is stored before the rows are scored; a failed write fails the
\* request, and nobody scores.
SaveBegun(s) ==
    /\ At(s, "saving")
    /\ \/ StepTo(s, "next") /\ kept' = slot /\ UNCHANGED mishaps
       \/ /\ mishaps < RunFaults /\ mishaps' = mishaps + 1
          /\ StepTo(s, "ended") /\ UNCHANGED kept
    /\ UNCHANGED <<slot, ahead, runQueue, triaged, over>>

\* The loop of scorePendingHits: a row the specialist decided meanwhile is
\* skipped, another one is read and judged.
NextRow(s) ==
    /\ At(s, "next")
    /\ search' = [search EXCEPT ![s] =
         IF search[s].row \notin Hits \/ ~IsCurrent(s) THEN [@ EXCEPT !.step = "closing"]
         ELSE IF search[s].row \in triaged THEN [@ EXCEPT !.row = search[s].row + 1]
         ELSE [@ EXCEPT !.step = "judging"]]
    /\ slot' = IF search[s].row \in Hits /\ search[s].row \in triaged THEN Moved(s, "scoring") ELSE slot
    /\ UNCHANGED <<ahead, runQueue, triaged, kept, mishaps, over>>

\* After the card, the model and the store have answered.
JudgedUnowned(s) ==
    /\ At(s, "judging")
    /\ \E verdict \in {"relevant", "other"} :
         runQueue' = IF verdict = "relevant" /\ search[s].row \notin triaged
                     THEN [c \in DOMAIN runQueue \union {search[s].row} |->
                             IF c \in DOMAIN runQueue THEN runQueue[c] ELSE s]
                     ELSE [c \in DOMAIN runQueue \ {search[s].row} |-> runQueue[c]]
    /\ slot' = Moved(s, "scoring")
    /\ StepTo(s, "storing")
    /\ UNCHANGED <<ahead, triaged, kept, mishaps, over>>

JudgedOnce(s) ==
    /\ At(s, "judging")
    /\ IF IsCurrent(s)
       THEN /\ \E verdict \in {"relevant", "other"} :
                 runQueue' = IF verdict = "relevant"
                             THEN [c \in DOMAIN runQueue \union {search[s].row} |->
                                     IF c \in DOMAIN runQueue THEN runQueue[c] ELSE s]
                             ELSE [c \in DOMAIN runQueue \ {search[s].row} |-> runQueue[c]]
            /\ slot' = Moved(s, "scoring") /\ StepTo(s, "storing")
       ELSE StepTo(s, "closing") /\ UNCHANGED <<runQueue, slot>>
    /\ UNCHANGED <<ahead, triaged, kept, mishaps, over>>

Judged(s) ==
    /\ At(s, "judging")
    /\ IF ~IsCurrent(s)
       THEN StepTo(s, "closing") /\ UNCHANGED <<runQueue, slot>>
       ELSE /\ slot' = Moved(s, "scoring")
            /\ IF search[s].row \in triaged
               THEN /\ search' = [search EXCEPT ![s].step = "next", ![s].row = @ + 1]
                    /\ UNCHANGED runQueue
               ELSE /\ StepTo(s, "storing")
                    /\ \/ runQueue' = [c \in DOMAIN runQueue \union {search[s].row} |->
                                         IF c \in DOMAIN runQueue THEN runQueue[c] ELSE s]
                       \/ runQueue' = [c \in DOMAIN runQueue \ {search[s].row} |-> runQueue[c]]
    /\ UNCHANGED <<ahead, triaged, kept, mishaps, over>>

\* A failed write of the job ends it, and its run with it.
Failed(s) ==
    /\ slot' = Moved(s, "failed")
    /\ over' = IF IsCurrent(s) THEN over \union {s} ELSE over

StoreFailsSilently(s) ==
    /\ At(s, "storing") \/ At(s, "closing")
    /\ mishaps < RunFaults /\ mishaps' = mishaps + 1
    /\ StepTo(s, "ended")
    /\ UNCHANGED <<slot, over, ahead, runQueue, triaged, kept>>

StoreFails(s) ==
    /\ At(s, "storing") \/ At(s, "closing")
    /\ mishaps < RunFaults /\ mishaps' = mishaps + 1
    /\ Failed(s) /\ StepTo(s, "ended")
    /\ UNCHANGED <<ahead, runQueue, triaged, kept>>

StoreRow(s) ==
    /\ At(s, "storing")
    /\ kept' = slot
    /\ search' = [search EXCEPT ![s].step = "next", ![s].row = @ + 1]
    /\ UNCHANGED <<slot, ahead, runQueue, triaged, mishaps, over>>

\* The job prunes, stores the cabinet and only then ends its run.
Close(s) ==
    /\ At(s, "closing")
    /\ kept' = slot /\ StepTo(s, "finishing")
    /\ UNCHANGED <<slot, ahead, runQueue, triaged, mishaps, over>>

Finish(s) ==
    /\ At(s, "finishing") /\ StepTo(s, "ended")
    /\ slot' = Moved(s, "done")
    /\ over' = IF IsCurrent(s) THEN over \union {s} ELSE over
    /\ UNCHANGED <<ahead, runQueue, triaged, kept, mishaps>>

\* POST .../search/cancel: the live run, or whichever run begins next.
Cancel ==
    /\ IF slot.status \in Live
       THEN /\ slot' = [slot EXCEPT !.status = "cancelled"] /\ over' = over \union {slot.run}
            /\ UNCHANGED ahead
       ELSE ahead' = TRUE /\ UNCHANGED <<slot, over>>
    /\ UNCHANGED <<search, runQueue, triaged, kept, mishaps>>

\* A minute passes, and a cancellation ahead has lost its run.
AheadExpires ==
    /\ ahead /\ ahead' = FALSE
    /\ UNCHANGED <<search, slot, runQueue, triaged, kept, mishaps, over>>

\* applyTriageDecision, up to its first await.
Triage(c) ==
    /\ c \notin triaged /\ triaged' = triaged \union {c}
    /\ runQueue' = [d \in DOMAIN runQueue \ {c} |-> runQueue[d]]
    /\ UNCHANGED <<search, slot, ahead, kept, mishaps, over>>

\* The process restarts and the cabinet is opened: a run stored mid-flight is
\* marked as interrupted.
Restored == IF kept.status \in Live THEN [kept EXCEPT !.status = "interrupted"] ELSE kept

RunRestart ==
    /\ mishaps < RunFaults /\ mishaps' = mishaps + 1
    /\ search' = [s \in Searches |-> IF At(s, "idle") THEN search[s] ELSE [search[s] EXCEPT !.step = "ended"]]
    /\ slot' = Restored /\ kept' = Restored /\ ahead' = FALSE
    /\ over' = IF slot'.status \in Terminal THEN over \union {slot'.run} ELSE over
    /\ UNCHANGED <<runQueue, triaged>>

SearchInit ==
    /\ search = [s \in Searches |-> [step |-> "idle", fresh |-> FALSE, row |-> 1]]
    /\ slot = NoRun /\ ahead = FALSE /\ runQueue = <<>> /\ triaged = {}
    /\ kept = NoRun /\ mishaps = 0 /\ over = {}

Job(s) == SaveBegun(s) \/ NextRow(s) \/ Judged(s) \/ StoreRow(s) \/ Close(s) \/ Finish(s)
Request(s) == ListingFails(s) \/ ListingArrives(s) \/ Begin(s)

SearchNext ==
    \/ \E s \in Searches : Ask(s) \/ Request(s) \/ Job(s) \/ StoreFails(s)
    \/ Cancel \/ AheadExpires \/ RunRestart
    \/ \E c \in Hits : Triage(c)

SearchSpec == SearchInit /\ [][SearchNext]_searchVars

----------------------------------------------------------------------------
SearchTypeOK ==
    /\ slot \in Runs /\ kept \in Runs /\ ahead \in BOOLEAN
    /\ DOMAIN runQueue \subseteq Hits /\ \A c \in DOMAIN runQueue : runQueue[c] \in Searches
    /\ triaged \subseteq Hits /\ mishaps \in 0..RunFaults /\ over \subseteq Searches \union {"none"}
    /\ \A s \in Searches : search[s].row \in 1..Cardinality(Hits) + 1

\* A run that has ended is not live again, whichever of its steps comes late:
\* "a late scored/finish write cannot flip cancelled back to scoring or done".
EndedRunStaysEnded == slot.run \in over => slot.status \in Terminal

\* While a run owns the slot no other search adds a card to the queue.
SupersededIsSilent ==
    [][\A c \in DOMAIN runQueue' \ DOMAIN runQueue :
         runQueue'[c] = slot.run /\ slot.status \in Live]_searchVars

\* A card the specialist has decided is in no search queue.
TriagedLeavesQueue == DOMAIN runQueue \intersect triaged = {}

\* A run whose rows are being scored ends, unless another takes the slot.
RunSettles ==
    \A s \in Searches : slot.run = s /\ At(s, "next") ~> slot.run # s \/ slot.status \in Terminal

\* Every run that gets the slot ends, also one whose first write fails.
BegunRunSettles ==
    \A s \in Searches : slot.run = s ~> slot.run # s \/ slot.status \in Terminal

\* A stop leaves no search at work: "a still-in-flight listing lands cancelled".
CancelStopsAll ==
    [][Cancel /\ ~AheadExpires =>
         \A s \in Searches : search[s].step \in {"listing", "collecting"} => ahead']_searchVars

\* A run that finished is not reported as interrupted after a restart.
FinishedIsNotInterrupted ==
    [][slot.status = "done" => slot'.status # "interrupted"]_searchVars
=============================================================================
