-------------------------- MODULE WorkspaceProofs --------------------------
\* The parts of the API process and what they promise together, for any number of
\* searches, rows, users, codes, events, profiles, cards, waiting writes, files,
\* days, faults and restarts. A search that lost its slot stays silent, an event is
\* told once, a job over linked files is bounded and loses nothing the case had
\* read; what was deleted is not stored again, what was decided is not deleted with
\* the profile that found it, the rows catch up with memory when the writes are
\* through, and the inbox tells a true story.
EXTENDS Workspace, FiniteSetTheorems, SequenceTheorems, WellFoundedInduction, TLAPS

----------------------------------------------------------------------------
\* The manual searches (SearchRun).

Steps == {"idle", "listing", "collecting", "saving", "next", "judging", "storing",
          "closing", "finishing", "ended"}

SearchShape ==
    /\ search \in [Searches -> [step : Steps, fresh : BOOLEAN, row : 1..Cardinality(Hits) + 1]]
    /\ slot \in Runs /\ kept \in Runs /\ ahead \in BOOLEAN
    /\ DOMAIN runQueue \subseteq Hits /\ \A c \in DOMAIN runQueue : runQueue[c] \in Searches
    /\ triaged \subseteq Hits /\ mishaps \in 0..RunFaults /\ over \subseteq Searches

\* A row that is judged or stored is a row of the listing.
AtARow == \A s \in Searches : search[s].step \in {"judging", "storing"} => search[s].row \in Hits

\* A search that has not begun owns nothing and has not ended.
NotBegun ==
    \A s \in Searches : search[s].step \in {"idle", "listing", "collecting"} =>
        s \notin over /\ slot.run # s /\ kept.run # s

SearchInv == SearchShape /\ AtARow /\ NotBegun /\ EndedRunStaysEnded

LEMMA RowsAreCounted ==
    /\ Cardinality(Hits) \in Nat
    /\ \A r \in 1..Cardinality(Hits) + 1 : r \in Nat
    /\ \A r \in Hits : r \in 1..Cardinality(Hits) + 1 /\ r + 1 \in 1..Cardinality(Hits) + 1
<1>1. Cardinality(Hits) \in Nat  BY FS_CardinalityType, HitsAreNumbered
<1>2. \A n \in Nat : \A r \in 1..n : r \in 1..n + 1 /\ r + 1 \in 1..n + 1  OBVIOUS
<1> QED  BY <1>1, <1>2, HitsAreNumbered

\* The run that owns the slot, moved on.
LEMMA SlotMoves ==
    ASSUME SearchShape, NEW s \in Searches, NEW status \in Terminal \union Live
    PROVE  /\ Moved(s, status) \in Runs /\ Moved(s, status).run = slot.run
           /\ slot.status \in Terminal => Moved(s, status) = slot
           /\ slot.run # s => Moved(s, status) = slot
           /\ slot.run = s /\ slot.status \in Live => Moved(s, status).status = status
BY RunConstants DEF SearchShape, Moved, IsCurrent, Runs, NoRun, Terminal, Live

\* Init.
LEMMA SearchStarts == SearchInit => SearchInv
<1> SUFFICES ASSUME SearchInit PROVE SearchInv  OBVIOUS
<1>1. 1 \in 1..Cardinality(Hits) + 1  BY RowsAreCounted
<1>2. DOMAIN runQueue = {}  BY DEF SearchInit
<1>3. SearchShape
  <2>1. search \in [Searches -> [step : Steps, fresh : BOOLEAN, row : 1..Cardinality(Hits) + 1]]
    BY <1>1 DEF SearchInit, Steps
  <2>2. mishaps \in 0..RunFaults  BY RunConstants DEF SearchInit
  <2> QED  BY <1>2, <2>1, <2>2 DEF SearchInit, SearchShape, Runs
<1>4. NoRun.run \notin Searches  BY RunConstants DEF NoRun
<1> QED  BY <1>3, <1>4 DEF SearchInit, SearchInv, AtARow, NotBegun, EndedRunStaysEnded

\* A step of one search that leaves the slot, the stored run and the ends alone.
LEMMA QuietSearch ==
    ASSUME SearchInv, NEW s \in Searches,
           NEW step \in Steps, NEW fresh \in BOOLEAN, NEW row \in 1..Cardinality(Hits) + 1,
           search' = [search EXCEPT ![s] = [step |-> step, fresh |-> fresh, row |-> row]],
           step \in {"judging", "storing"} => row \in Hits,
           step \in {"idle", "listing", "collecting"} => search[s].step \in {"idle", "listing", "collecting"},
           DOMAIN runQueue' \subseteq Hits, \A c \in DOMAIN runQueue' : runQueue'[c] \in Searches,
           slot' \in Runs, slot'.run = slot.run,
           slot.status \in Terminal => slot' = slot,
           kept' \in {slot, kept},
           mishaps' \in 0..RunFaults,
           over' \in {over, over \union {s}},
           over' # over => slot.run = s /\ slot'.status \in Terminal,
           UNCHANGED <<ahead, triaged>>
    PROVE  SearchInv'
<1> USE DEF SearchInv
<1>0. search[s].step \in {"idle", "listing", "collecting"} => slot.run # s
  BY DEF NotBegun
<1>1. \A t \in Searches : search'[t] = IF t = s THEN [step |-> step, fresh |-> fresh, row |-> row] ELSE search[t]
  BY DEF SearchShape
<1>2. SearchShape'  BY DEF SearchShape
<1>3. AtARow'  BY <1>1 DEF AtARow
<1>4. NotBegun'  BY <1>0, <1>1 DEF NotBegun, SearchShape
<1>5. EndedRunStaysEnded'  BY DEF EndedRunStaysEnded
<1> QED  BY <1>2, <1>3, <1>4, <1>5

\* The record of one search, step by step.
LEMMA SearchSteps ==
    ASSUME SearchInv, NEW s \in Searches
    PROVE  /\ search[s] = [step |-> search[s].step, fresh |-> search[s].fresh, row |-> search[s].row]
           /\ search[s].fresh \in BOOLEAN /\ search[s].row \in 1..Cardinality(Hits) + 1
           /\ \A step : [search EXCEPT ![s].step = step] =
                   [search EXCEPT ![s] = [step |-> step, fresh |-> search[s].fresh, row |-> search[s].row]]
           /\ \A step : [search EXCEPT ![s].step = step, ![s].row = @ + 1] =
                   [search EXCEPT ![s] = [step |-> step, fresh |-> search[s].fresh, row |-> search[s].row + 1]]
<1> DEFINE Place == 1..Cardinality(Hits) + 1
<1>1. search \in [Searches -> [step : Steps, fresh : BOOLEAN, row : Place]]  BY DEF SearchInv, SearchShape
<1> HIDE DEF Place
<1>2. search[s] = [step |-> search[s].step, fresh |-> search[s].fresh, row |-> search[s].row]  BY <1>1
<1>3. search[s].fresh \in BOOLEAN /\ search[s].row \in Place  BY <1>1
<1>4. ASSUME NEW step
      PROVE  [search EXCEPT ![s].step = step] =
                [search EXCEPT ![s] = [step |-> step, fresh |-> search[s].fresh, row |-> search[s].row]]
  <2>1. [search[s] EXCEPT !.step = step] = [step |-> step, fresh |-> search[s].fresh, row |-> search[s].row]
    BY <1>2
  <2> QED  BY <2>1
<1>5. ASSUME NEW step
      PROVE  [search EXCEPT ![s].step = step, ![s].row = @ + 1] =
                [search EXCEPT ![s] = [step |-> step, fresh |-> search[s].fresh, row |-> search[s].row + 1]]
  <2>1. [[search[s] EXCEPT !.step = step] EXCEPT !.row = search[s].row + 1]
          = [step |-> step, fresh |-> search[s].fresh, row |-> search[s].row + 1]
    <3>1. [search[s] EXCEPT !.step = step] = [step |-> step, fresh |-> search[s].fresh, row |-> search[s].row]
      BY <1>2
    <3>2. [[step |-> step, fresh |-> search[s].fresh, row |-> search[s].row] EXCEPT !.row = search[s].row + 1]
             = [step |-> step, fresh |-> search[s].fresh, row |-> search[s].row + 1]
      OBVIOUS
    <3> QED  BY <3>1, <3>2
  <2>2. [search EXCEPT ![s].step = step, ![s].row = @ + 1]
          = [search EXCEPT ![s] = [[search[s] EXCEPT !.step = step] EXCEPT !.row = search[s].row + 1]]
    BY <1>1
  <2> QED  BY <2>1, <2>2
<1> QED  BY <1>2, <1>3, <1>4, <1>5 DEF Place

LEMMA AskKeeps == ASSUME SearchInv, NEW s \in Searches, Ask(s) PROVE SearchInv'
<1>1. PICK fresh \in BOOLEAN : search' = [search EXCEPT ![s] = [step |-> "listing", fresh |-> fresh, row |-> 1]]
  BY DEF Ask
<1>2. 1 \in 1..Cardinality(Hits) + 1  BY RowsAreCounted
<1> QED  BY <1>1, <1>2, QuietSearch DEF Ask, At, Steps, SearchInv, SearchShape

LEMMA RequestKeeps ==
    ASSUME SearchInv, NEW s \in Searches, ListingFails(s) \/ ListingArrives(s) PROVE SearchInv'
<1>1. PICK step \in {"ended", "collecting"} :
         search' = [search EXCEPT ![s] = [step |-> step, fresh |-> search[s].fresh, row |-> search[s].row]]
  BY SearchSteps DEF ListingFails, ListingArrives, StepTo
<1>2. /\ search[s].step = "listing"
      /\ DOMAIN runQueue' \subseteq Hits /\ \A c \in DOMAIN runQueue' : runQueue'[c] \in Searches
      /\ UNCHANGED <<slot, ahead, triaged, kept, mishaps, over>>
  <2>1. DOMAIN <<>> = {}  OBVIOUS
  <2> QED  BY <2>1 DEF ListingFails, ListingArrives, At, SearchInv, SearchShape
<1> QED  BY <1>1, <1>2, SearchSteps, QuietSearch DEF Steps, SearchInv, SearchShape
LEMMA BeginKeeps == ASSUME SearchInv, NEW s \in Searches, Begin(s) PROVE SearchInv'
<1> USE DEF SearchInv
<1>1. /\ search[s].step = "collecting"
      /\ search' = [search EXCEPT ![s] = [step |-> "saving", fresh |-> search[s].fresh, row |-> search[s].row]]
  BY SearchSteps DEF Begin, At, StepTo
<1>2. \A t \in Searches :
         search'[t] = IF t = s THEN [step |-> "saving", fresh |-> search[s].fresh, row |-> search[s].row] ELSE search[t]
  BY <1>1 DEF SearchShape
<1>3. /\ slot'.run = s /\ slot' \in Runs
      /\ over' \in {over, over \union {s}} /\ (s \in over' => slot'.status \in Terminal)
  <2>1. slot'.run = s /\ slot' \in Runs  BY DEF Begin, Runs, Terminal, Live
  <2>2. s \notin over  BY <1>1 DEF NotBegun
  <2> QED  BY <2>1, <2>2 DEF Begin
<1>4. SearchShape'
  <2>1. search' \in [Searches -> [step : Steps, fresh : BOOLEAN, row : 1..Cardinality(Hits) + 1]]
    BY <1>1, SearchSteps DEF SearchShape, Steps
  <2> QED  BY <1>3, <2>1 DEF SearchShape, Begin
<1>5. AtARow'  BY <1>2 DEF AtARow
<1>6. NotBegun'  BY <1>2, <1>3 DEF NotBegun, Begin
<1>7. EndedRunStaysEnded'  BY <1>3 DEF EndedRunStaysEnded
<1> QED  BY <1>4, <1>5, <1>6, <1>7

LEMMA SaveBegunKeeps == ASSUME SearchInv, NEW s \in Searches, SaveBegun(s) PROVE SearchInv'
<1>1. PICK step \in {"next", "ended"} :
         search' = [search EXCEPT ![s] = [step |-> step, fresh |-> search[s].fresh, row |-> search[s].row]]
  BY SearchSteps DEF SaveBegun, StepTo
<1>2. mishaps' \in 0..RunFaults /\ kept' \in {slot, kept}
  BY RunConstants DEF SaveBegun, SearchInv, SearchShape
<1> QED  BY ZenonT(40), <1>1, <1>2, SearchSteps, QuietSearch DEF SaveBegun, Steps, SearchInv, SearchShape

LEMMA NextRowKeeps == ASSUME SearchInv, NEW s \in Searches, NextRow(s) PROVE SearchInv'
<1> DEFINE To(step, row) == search' = [search EXCEPT ![s] = [step |-> step, fresh |-> search[s].fresh, row |-> row]]
<1>1. PICK step \in {"closing", "next", "judging"}, row \in 1..Cardinality(Hits) + 1 :
         To(step, row) /\ (step = "judging" => row \in Hits)
  <2>1. CASE search[s].row \notin Hits \/ ~IsCurrent(s)
    BY <2>1, SearchSteps DEF NextRow
  <2>2. CASE search[s].row \in Hits /\ IsCurrent(s) /\ search[s].row \in triaged
    <3>1. search' = [search EXCEPT ![s] = [search[s] EXCEPT !.row = search[s].row + 1]]  BY <2>2 DEF NextRow
    <3>2. [search[s] EXCEPT !.row = search[s].row + 1]
            = [step |-> search[s].step, fresh |-> search[s].fresh, row |-> search[s].row + 1]
      <4>1. search[s] = [step |-> search[s].step, fresh |-> search[s].fresh, row |-> search[s].row]
        BY SearchSteps
      <4> QED  BY <4>1
    <3>3. search[s].step = "next"  BY DEF NextRow, At
    <3> QED  BY <2>2, <3>1, <3>2, <3>3, RowsAreCounted
  <2>3. CASE search[s].row \in Hits /\ IsCurrent(s) /\ search[s].row \notin triaged
    BY <2>3, SearchSteps DEF NextRow
  <2> QED  BY <2>1, <2>2, <2>3
<1>2. /\ slot' \in Runs /\ slot'.run = slot.run /\ (slot.status \in Terminal => slot' = slot)
  BY SlotMoves DEF NextRow, SearchInv, SearchShape, Live
<1>3. step \notin {"idle", "listing", "collecting", "storing"} /\ step \in Steps  BY <1>1 DEF Steps
<1>4. UNCHANGED <<ahead, runQueue, triaged, kept, mishaps, over>>  BY DEF NextRow
<1> QED  BY <1>1, <1>2, <1>3, <1>4, SearchSteps, QuietSearch DEF SearchInv, SearchShape

\* A judged row joins the queue or leaves it.
LEMMA QueueMoves ==
    ASSUME SearchInv, NEW s \in Searches, Judged(s)
    PROVE  /\ DOMAIN runQueue' \subseteq Hits /\ \A c \in DOMAIN runQueue' : runQueue'[c] \in Searches
           /\ \A c \in DOMAIN runQueue' \ DOMAIN runQueue :
                 runQueue'[c] = s /\ c \notin triaged /\ IsCurrent(s)
<1>1. search[s].row \in Hits  BY DEF Judged, At, SearchInv, AtARow
<1>2. CASE UNCHANGED runQueue  BY <1>2 DEF SearchInv, SearchShape
<1>3. CASE /\ IsCurrent(s) /\ search[s].row \notin triaged
           /\ runQueue' = [c \in DOMAIN runQueue \union {search[s].row} |->
                              IF c \in DOMAIN runQueue THEN runQueue[c] ELSE s]
  BY <1>1, <1>3 DEF SearchInv, SearchShape
<1>4. CASE runQueue' = [c \in DOMAIN runQueue \ {search[s].row} |-> runQueue[c]]
  BY <1>4 DEF SearchInv, SearchShape
<1> QED  BY <1>2, <1>3, <1>4 DEF Judged

LEMMA JudgedKeeps == ASSUME SearchInv, NEW s \in Searches, Judged(s) PROVE SearchInv'
<1> DEFINE To(step, row) == search' = [search EXCEPT ![s] = [step |-> step, fresh |-> search[s].fresh, row |-> row]]
<1>0. search[s].row \in Hits  BY DEF Judged, At, SearchInv, AtARow
<1>1. PICK step \in {"closing", "next", "storing"}, row \in 1..Cardinality(Hits) + 1 :
         To(step, row) /\ (step = "storing" => row \in Hits)
  <2>1. CASE search' = [search EXCEPT ![s].step = "next", ![s].row = @ + 1]
    BY <1>0, <2>1, SearchSteps, RowsAreCounted
  <2>2. CASE StepTo(s, "closing") \/ StepTo(s, "storing")
    BY <1>0, <2>2, SearchSteps DEF StepTo
  <2> QED  BY <2>1, <2>2 DEF Judged
<1>2. /\ slot' \in Runs /\ slot'.run = slot.run /\ (slot.status \in Terminal => slot' = slot)
  BY SlotMoves DEF Judged, SearchInv, SearchShape, Live
<1>3. step \notin {"idle", "listing", "collecting"} /\ step \in Steps  BY <1>1 DEF Steps
<1> QED  BY <1>1, <1>2, <1>3, SearchSteps, QueueMoves, QuietSearch DEF Judged, SearchInv, SearchShape

\* A failed write and the end of a run.
LEMMA EndsKeep == ASSUME SearchInv, NEW s \in Searches, StoreFails(s) \/ Finish(s) PROVE SearchInv'
<1>1. search' = [search EXCEPT ![s] = [step |-> "ended", fresh |-> search[s].fresh, row |-> search[s].row]]
  BY SearchSteps DEF StoreFails, Finish, StepTo
<1>2. PICK status \in {"failed", "done"} : slot' = Moved(s, status)  BY DEF StoreFails, Finish, Failed
<1>3. /\ slot' \in Runs /\ slot'.run = slot.run /\ (slot.status \in Terminal => slot' = slot)
      /\ (IsCurrent(s) => slot.run = s /\ slot'.status \in Terminal)
  BY <1>2, SlotMoves DEF SearchInv, IsCurrent, Terminal
<1>4. /\ over' \in {over, over \union {s}} /\ (over' # over => slot.run = s /\ slot'.status \in Terminal)
  BY <1>3 DEF StoreFails, Finish, Failed
<1>5. mishaps' \in 0..RunFaults
  BY RunConstants DEF StoreFails, Finish, SearchInv, SearchShape
<1>6. UNCHANGED <<ahead, runQueue, triaged, kept>>  BY DEF StoreFails, Finish
<1>7. "ended" \in Steps \ {"judging", "storing", "idle", "listing", "collecting"}  BY DEF Steps
<1>8. DOMAIN runQueue \subseteq Hits /\ \A c \in DOMAIN runQueue : runQueue[c] \in Searches
  BY DEF SearchInv, SearchShape
<1>9. search[s].fresh \in BOOLEAN /\ search[s].row \in 1..Cardinality(Hits) + 1  BY SearchSteps
<1> QED  BY <1>1, <1>3, <1>4, <1>5, <1>6, <1>7, <1>8, <1>9, QuietSearch

LEMMA WritesKeep == ASSUME SearchInv, NEW s \in Searches, StoreRow(s) \/ Close(s) PROVE SearchInv'
<1>1. PICK step \in {"next", "finishing"}, row \in 1..Cardinality(Hits) + 1 :
         search' = [search EXCEPT ![s] = [step |-> step, fresh |-> search[s].fresh, row |-> row]]
  <2>1. CASE StoreRow(s)
    <3>1. search[s].row \in Hits  BY <2>1 DEF StoreRow, At, SearchInv, AtARow
    <3> QED  BY ZenonT(40), <2>1, <3>1, SearchSteps, RowsAreCounted DEF StoreRow
  <2>2. CASE Close(s)
    <3>1. search[s].row \in 1..Cardinality(Hits) + 1  BY SearchSteps
    <3>2. search' = [search EXCEPT ![s] = [step |-> "finishing", fresh |-> search[s].fresh, row |-> search[s].row]]
      BY <2>2, SearchSteps DEF Close, StepTo
    <3> QED  BY <3>1, <3>2
  <2> QED  BY <2>1, <2>2
<1>2. kept' = slot /\ UNCHANGED <<slot, ahead, runQueue, triaged, mishaps, over>>  BY DEF StoreRow, Close
<1> QED  BY <1>1, <1>2, QuietSearch DEF Steps, SearchInv, SearchShape

LEMMA DeskKeeps ==
    ASSUME SearchInv, Cancel \/ AheadExpires \/ \E c \in Hits : Triage(c) PROVE SearchInv'
<1> USE DEF SearchInv
<1>1. CASE Cancel
  <2>1. slot.status \in Live => slot.run \in Searches  BY DEF SearchShape, Runs, NoRun, Live
  <2>2. slot' \in Runs /\ slot'.run = slot.run /\ (slot.status \in Terminal => slot' = slot)
    BY <1>1 DEF Cancel, SearchShape, Runs, NoRun, Terminal, Live
  <2>3. over' \in {over, over \union {slot.run}} /\ (over' # over => slot'.status \in Terminal)
    BY <1>1, <2>1 DEF Cancel, SearchShape, Runs, NoRun, Terminal, Live
  <2>4. UNCHANGED <<search, runQueue, triaged, kept, mishaps>>  BY <1>1 DEF Cancel
  <2>5. ahead' \in BOOLEAN  BY <1>1 DEF Cancel, SearchShape
  <2>6. SearchShape'  BY <1>1, <2>1, <2>2, <2>4, <2>5 DEF SearchShape, Cancel
  <2>7. AtARow'  BY <2>4 DEF AtARow
  <2>8. NotBegun'  BY <2>2, <2>3, <2>4 DEF NotBegun
  <2>9. EndedRunStaysEnded'  BY <2>2, <2>3 DEF EndedRunStaysEnded
  <2> QED  BY <2>6, <2>7, <2>8, <2>9
<1>2. CASE AheadExpires
  BY <1>2 DEF AheadExpires, SearchShape, AtARow, NotBegun, EndedRunStaysEnded
<1>3. ASSUME NEW c \in Hits, Triage(c) PROVE SearchInv'
  BY <1>3 DEF Triage, SearchShape, AtARow, NotBegun, EndedRunStaysEnded
<1> QED  BY <1>1, <1>2, <1>3

LEMMA RunRestartKeeps == ASSUME SearchInv, RunRestart PROVE SearchInv'
<1> USE DEF SearchInv
<1>1. /\ slot' \in Runs /\ slot' = kept' /\ slot'.run = kept.run
      /\ (slot' = NoRun \/ (slot'.status \in Terminal /\ slot'.run \in Searches))
  BY DEF RunRestart, Restored, SearchShape, Runs, NoRun, Terminal, Live
<1>2. \A s \in Searches : search'[s] = IF search[s].step = "idle" THEN search[s] ELSE [search[s] EXCEPT !.step = "ended"]
  BY DEF RunRestart, At
<1>3. ASSUME NEW s \in Searches
      PROVE  /\ [search[s] EXCEPT !.step = "ended"] = [step |-> "ended", fresh |-> search[s].fresh, row |-> search[s].row]
             /\ search[s].fresh \in BOOLEAN /\ search[s].row \in 1..Cardinality(Hits) + 1
  <2>1. search[s] = [step |-> search[s].step, fresh |-> search[s].fresh, row |-> search[s].row]
    BY SearchSteps
  <2>2. [search[s] EXCEPT !.step = "ended"] = [step |-> "ended", fresh |-> search[s].fresh, row |-> search[s].row]
    BY <2>1
  <2> QED  BY <2>2, SearchSteps
<1>4. search' \in [Searches -> [step : Steps, fresh : BOOLEAN, row : 1..Cardinality(Hits) + 1]]
  <2>1. \A s \in Searches : search'[s] \in [step : Steps, fresh : BOOLEAN, row : 1..Cardinality(Hits) + 1]
    BY ZenonT(40), <1>2, <1>3 DEF SearchShape, Steps
  <2> QED  BY <2>1 DEF RunRestart
<1>5. over' \in {over, over \union {slot'.run}} /\ (over' # over => slot'.status \in Terminal)
  BY DEF RunRestart
<1>6. over' \subseteq Searches  BY <1>1 DEF RunRestart, SearchShape, NoRun, Terminal
<1>7. mishaps' \in 0..RunFaults  BY RunConstants DEF RunRestart, SearchShape
<1>8. UNCHANGED <<runQueue, triaged>> /\ ahead' = FALSE  BY DEF RunRestart
<1>9. SearchShape'  BY <1>1, <1>4, <1>6, <1>7, <1>8 DEF SearchShape
<1>10. \A s \in Searches : search'[s].step # "ended" => search[s].step = "idle" /\ search'[s] = search[s]
  BY <1>2, <1>3
<1>11. AtARow'  BY <1>10 DEF AtARow
<1>12. NotBegun'  BY <1>1, <1>5, <1>10 DEF NotBegun
<1>13. EndedRunStaysEnded'
  <2>1. NoRun.run \notin Searches  BY RunConstants DEF NoRun
  <2> QED  BY <1>1, <1>6, <2>1 DEF EndedRunStaysEnded
<1> QED  BY <1>9, <1>11, <1>12, <1>13
THEOREM SearchInduction == SearchSpec => []SearchInv
<1>1. SearchInit => SearchInv  BY SearchStarts
<1>2. SearchInv /\ [SearchNext]_searchVars => SearchInv'
  <2> SUFFICES ASSUME SearchInv, [SearchNext]_searchVars PROVE SearchInv'  OBVIOUS
  <2>1. CASE UNCHANGED searchVars
    BY <2>1 DEF searchVars, SearchInv, SearchShape, AtARow, NotBegun, EndedRunStaysEnded
  <2>2. ASSUME NEW s \in Searches, Ask(s) \/ Request(s) \/ Job(s) \/ StoreFails(s) PROVE SearchInv'
    BY <2>2, AskKeeps, RequestKeeps, BeginKeeps, SaveBegunKeeps, NextRowKeeps, JudgedKeeps, WritesKeep, EndsKeep
    DEF Request, Job
  <2>3. CASE Cancel \/ AheadExpires \/ \E c \in Hits : Triage(c)  BY <2>3, DeskKeeps
  <2>4. CASE RunRestart  BY <2>4, RunRestartKeeps
  <2> QED  BY <2>1, <2>2, <2>3, <2>4 DEF SearchNext
<1> QED  BY <1>1, <1>2, PTL DEF SearchSpec

\* Types: what owns the slot or is stored is a run, a queued card is a row of the
\* listing, and the loop over the rows never leaves them.
THEOREM SearchTypesHold == SearchSpec => []SearchTypeOK
<1>1. SearchInv => SearchTypeOK  BY DEF SearchInv, SearchShape, SearchTypeOK
<1> QED  BY <1>1, SearchInduction, PTL

\* A run that ended, was cancelled or interrupted is never live again: a late write
\* of a row, of the end or of a failure finds it closed (search-progress.ts), for
\* any number of searches, restarts and failed writes.
THEOREM EndedStaysEnded == SearchSpec => []EndedRunStaysEnded
<1>1. SearchInv => EndedRunStaysEnded  BY DEF SearchInv
<1> QED  BY <1>1, SearchInduction, PTL

\* A card the specialist has decided is in no search queue, also when the model's
\* answer for it arrives after the decision (scorePendingHits, applyTriageDecision).
THEOREM DecidedIsNotQueued == SearchSpec => []TriagedLeavesQueue
<1>1. SearchInit => TriagedLeavesQueue
  <2>1. DOMAIN <<>> = {}  OBVIOUS
  <2> QED  BY <2>1 DEF SearchInit, TriagedLeavesQueue
<1>2. SearchInv /\ TriagedLeavesQueue /\ [SearchNext]_searchVars => TriagedLeavesQueue'
  <2> SUFFICES ASSUME SearchInv, TriagedLeavesQueue, [SearchNext]_searchVars PROVE TriagedLeavesQueue'  OBVIOUS
  <2>1. CASE UNCHANGED <<runQueue, triaged>>  BY <2>1 DEF TriagedLeavesQueue
  <2>2. ASSUME NEW s \in Searches, Judged(s) PROVE TriagedLeavesQueue'
    <3>1. UNCHANGED triaged  BY <2>2 DEF Judged
    <3>2. \A c \in DOMAIN runQueue' \ DOMAIN runQueue : c \notin triaged  BY <2>2, QueueMoves
    <3> QED  BY <3>1, <3>2 DEF TriagedLeavesQueue
  <2>3. ASSUME NEW s \in Searches, ListingArrives(s) PROVE TriagedLeavesQueue'
    <3>1. DOMAIN <<>> = {}  OBVIOUS
    <3> QED  BY <2>3, <3>1 DEF ListingArrives, TriagedLeavesQueue
  <2>4. ASSUME NEW c \in Hits, Triage(c) PROVE TriagedLeavesQueue'
    BY <2>4 DEF Triage, TriagedLeavesQueue
  <2>5. CASE Cancel \/ AheadExpires \/ RunRestart
    BY <2>1, <2>5 DEF Cancel, AheadExpires, RunRestart
  <2>6. ASSUME NEW s \in Searches,
               \/ Ask(s) \/ ListingFails(s) \/ Begin(s) \/ SaveBegun(s) \/ NextRow(s)
               \/ StoreRow(s) \/ Close(s) \/ Finish(s) \/ StoreFails(s)
        PROVE  UNCHANGED <<runQueue, triaged>>
    BY <2>6 DEF Ask, ListingFails, Begin, SaveBegun, NextRow, StoreRow, Close, Finish, StoreFails
  <2> QED  BY <2>1, <2>2, <2>3, <2>4, <2>5, <2>6 DEF SearchNext, Request, Job, searchVars
<1> QED  BY <1>1, <1>2, SearchInduction, PTL DEF SearchSpec

\* Whatever a search adds to the queue it adds while its run is the live owner of the
\* slot: one that was superseded, cancelled or interrupted while a row was with the
\* model writes no card (scorePendingHits asks again after its awaits).
THEOREM OthersAreSilent == SearchSpec => SupersededIsSilent
<1> DEFINE Added == \A c \in DOMAIN runQueue' \ DOMAIN runQueue : runQueue'[c] = slot.run /\ slot.status \in Live
<1>1. SearchInv /\ [SearchNext]_searchVars => [Added]_searchVars
  <2> SUFFICES ASSUME SearchInv, SearchNext PROVE Added  OBVIOUS
  <2>1. ASSUME NEW s \in Searches, Judged(s) PROVE Added
    BY <2>1, QueueMoves DEF IsCurrent
  <2>2. ASSUME NEW s \in Searches, ListingArrives(s) PROVE Added
    <3>1. DOMAIN <<>> = {}  OBVIOUS
    <3> QED  BY <2>2, <3>1 DEF ListingArrives
  <2>3. ASSUME NEW s \in Searches,
               \/ Ask(s) \/ ListingFails(s) \/ Begin(s) \/ SaveBegun(s) \/ NextRow(s)
               \/ StoreRow(s) \/ Close(s) \/ Finish(s) \/ StoreFails(s)
        PROVE  Added
    BY <2>3 DEF Ask, ListingFails, Begin, SaveBegun, NextRow, StoreRow, Close, Finish, StoreFails
  <2>4. CASE Cancel \/ AheadExpires \/ RunRestart  BY <2>4 DEF Cancel, AheadExpires, RunRestart
  <2>5. ASSUME NEW c \in Hits, Triage(c) PROVE Added  BY <2>5 DEF Triage
  <2> QED  BY <2>1, <2>2, <2>3, <2>4, <2>5 DEF SearchNext, Request, Job
<1> QED  BY <1>1, SearchInduction, PTL DEF SearchSpec, SupersededIsSilent

----------------------------------------------------------------------------
\* The Telegram bot (TelegramBot).

LinkTable ==
    /\ DOMAIN links \subseteq Users
    /\ links = [u \in DOMAIN links |-> [chat |-> links[u].chat, mode |-> links[u].mode]]
    /\ \A u \in DOMAIN links : links[u].chat \in Chats /\ links[u].mode \in {"all", "urgent"}
    /\ \A u, v \in DOMAIN links : links[u].chat = links[v].chat => u = v

PollShape ==
    /\ posted \in Seq(Updates) /\ restarts \in 0..Restarts
    /\ confirmed \in Nat /\ offset \in Nat /\ batch \in Nat
    /\ confirmed <= Len(posted) /\ batch <= Len(posted) /\ offset <= batch
    /\ handler # Idle => offset < batch

\* What is being handled has the fields its step reads.
HandlerShape ==
    \/ handler = Idle
    \/ /\ handler = [step |-> "set", verb |-> handler.verb, user |-> handler.user]
       /\ handler.verb \in {"stop", "urgent", "all"}
    \/ /\ handler = [step |-> handler.step, update |-> handler.update]
       /\ handler.update.chat \in Chats
       /\ handler.step # "set"
       /\ handler.step \in {"start", "link"} => handler.update.code \in Codes
       /\ handler.step \in {"tap", "look", "decide", "store"} => handler.update.kind \in Kinds

DecisionShape == {decision, decided} \subseteq Kinds \union {Nothing}

NoticeShape ==
    /\ rows \union sent \union known \subseteq Events
    /\ pending \in Seq(Events) /\ arrived \in Seq([event : Events, chat : Chats])
    /\ \/ announcing = Idle
       \/ /\ announcing = [step |-> announcing.step, event |-> announcing.event, chat |-> announcing.chat]
          /\ announcing.event \in Events /\ announcing.chat \in Chats
          /\ announcing.step \in {"mark", "send"}

\* An announcement is marked before it leaves, and leaves once.
MarkedFirst ==
    /\ \A i \in 1..Len(arrived) : arrived[i].event \in sent
    /\ announcing.step = "send" =>
          /\ announcing.event \in sent
          /\ \A i \in 1..Len(arrived) : arrived[i].event # announcing.event

\* The next poll tells Telegram to forget what has been handled.
HandledFirst == 1..offset \subseteq handled

\* A code that is live has linked nothing, nor has the code being linked.
CodeShape ==
    /\ codes \subseteq Codes /\ linkedBy \in [Codes -> Seq(Chats)]
    /\ \A c \in codes : linkedBy[c] = <<>>
    /\ handler.step = "link" => handler.update.code \notin codes /\ linkedBy[handler.update.code] = <<>>

PollInv == PollShape /\ HandlerShape /\ HandledFirst /\ NoUpdateIsLost
NoticeInv == NoticeShape /\ MarkedFirst /\ AnnouncedOnce
CodeInv == CodeShape /\ CodeLinksOnce
BotInv == LinkTable /\ PollInv /\ DecisionShape /\ NoticeInv /\ CodeInv

LEMMA BotStarts == TelegramInit => BotInv
<1> SUFFICES ASSUME TelegramInit PROVE BotInv  OBVIOUS
<1>1. DOMAIN <<>> = {}  OBVIOUS
<1>2. LinkTable  BY <1>1 DEF TelegramInit, LinkTable
<1>3. PollInv
  BY BotConstants DEF TelegramInit, PollInv, PollShape, HandlerShape, HandledFirst, NoUpdateIsLost
<1>4. NoticeInv  BY DEF TelegramInit, NoticeInv, NoticeShape, MarkedFirst, AnnouncedOnce, Idle
<1>5. CodeInv  BY DEF TelegramInit, CodeInv, CodeShape, CodeLinksOnce, Idle
<1> QED  BY <1>2, <1>3, <1>4, <1>5 DEF BotInv, TelegramInit, DecisionShape

----------------------------------------------------------------------------
\* The loop over the updates.

\* One update is through.
LEMMA DoneKeeps == ASSUME PollInv, handler # Idle, Done, UNCHANGED <<posted, restarts>> PROVE PollInv'
<1> USE DEF PollInv
<1>1. PollShape'  BY DEF PollShape, Done, Idle
<1>2. HandlerShape'  BY DEF HandlerShape, Done
<1>3. HandledFirst'
  <2>1. 1..offset' = 1..offset \union {offset + 1}  BY DEF PollShape, Done
  <2> QED  BY <2>1 DEF HandledFirst, Done
<1>4. NoUpdateIsLost'  BY DEF NoUpdateIsLost, Done
<1> QED  BY <1>1, <1>2, <1>3, <1>4

\* ... or goes on.
LEMMA GotoKeeps ==
    ASSUME PollInv, handler # Idle, HandlerShape', handler' # Idle, Stays, UNCHANGED <<posted, restarts>>
    PROVE  PollInv'
BY DEF PollInv, PollShape, HandledFirst, NoUpdateIsLost, Stays

LEMMA PostKeeps == ASSUME BotInv, NEW u \in Updates, PostUpdate(u) PROVE BotInv'
<1> USE DEF BotInv
<1>1. PollShape'
  <2>1. posted' \in Seq(Updates) /\ Len(posted') = Len(posted) + 1
    BY DEF PostUpdate, PollInv, PollShape
  <2> QED  BY <2>1 DEF PostUpdate, PollInv, PollShape, pollVars
<1>2. UNCHANGED <<tableVars, noticeVars, decision, pollVars, restarts, handled, linkedBy>>  BY DEF PostUpdate
<1>3. PollInv'  BY <1>1, <1>2 DEF PollInv, HandlerShape, HandledFirst, NoUpdateIsLost, pollVars
<1>4. LinkTable' /\ DecisionShape'  BY <1>2 DEF LinkTable, DecisionShape, tableVars
<1>5. NoticeInv'  BY <1>2 DEF NoticeInv, NoticeShape, MarkedFirst, AnnouncedOnce, tableVars, noticeVars
<1>6. CodeInv'  BY <1>2 DEF CodeInv, CodeShape, CodeLinksOnce, tableVars, pollVars
<1> QED  BY <1>3, <1>4, <1>5, <1>6

LEMMA PollKeeps == ASSUME PollInv, Poll PROVE PollInv'
<1> USE DEF PollInv
<1>1. PollShape'  BY DEF Poll, PollShape
<1>2. HandlerShape'  BY DEF Poll, HandlerShape
<1>3. HandledFirst' /\ NoUpdateIsLost'  BY DEF Poll, HandledFirst, NoUpdateIsLost, PollShape
<1> QED  BY <1>1, <1>2, <1>3

LEMMA TakeKeeps == ASSUME PollInv, Take PROVE PollInv' /\ handler'.step \notin {"link", "set"}
<1> USE DEF PollInv
<1>1. posted[offset + 1] \in Updates  BY DEF Take, PollShape
<1>2. handler' = [step |-> handler'.step, update |-> handler'.update]
      /\ handler'.update = posted[offset + 1] /\ handler'.step = posted[offset + 1].verb
  BY DEF Take
<1>3. handler'.step \notin {"idle", "link", "set"}  BY <1>1, <1>2 DEF Updates
<1>4. HandlerShape'
  <2>1. handler'.update.chat \in Chats  BY <1>1, <1>2 DEF Updates
  <2>2. handler'.step \in {"start", "link"} => handler'.update.code \in Codes  BY <1>1, <1>2 DEF Updates
  <2>3. handler'.step \in {"tap", "look", "decide", "store"} => handler'.update.kind \in Kinds
    BY <1>1, <1>2 DEF Updates
  <2> QED  BY <1>2, <1>3, <2>1, <2>2, <2>3 DEF HandlerShape
<1>5. PollShape'  BY DEF Take, PollShape
<1>6. HandledFirst' /\ NoUpdateIsLost'  BY DEF Take, HandledFirst, NoUpdateIsLost
<1> QED  BY <1>3, <1>4, <1>5, <1>6
\* The update stays, the step moves.
LEMMA GoesOn ==
    ASSUME HandlerShape, handler # Idle, handler.step # "set", NEW step, Goto(step)
    PROVE  /\ handler' = [step |-> step, update |-> handler.update]
           /\ handler'.step = step /\ handler'.update = handler.update
<1>1. handler = [step |-> handler.step, update |-> handler.update]  BY DEF HandlerShape
<1>2. handler' = [step |-> step, update |-> handler.update]  BY <1>1 DEF Goto
<1> QED  BY <1>2

LEMMA NotIdle == handler.step \notin {"idle"} => handler # Idle
BY DEF Idle

\* Every step of the handler keeps the loop going and, unless it is about them, leaves
\* links, decisions, announcements and codes as they are.
LEMMA NoticesStay == ASSUME NoticeInv, UNCHANGED <<sent, rows, noticeVars>> PROVE NoticeInv'
BY DEF NoticeInv, NoticeShape, MarkedFirst, AnnouncedOnce, noticeVars

LEMMA LinksStay == ASSUME LinkTable, UNCHANGED links PROVE LinkTable'
BY DEF LinkTable

LEMMA CodesStay ==
    ASSUME CodeInv, UNCHANGED <<codes, linkedBy>>, handler'.step # "link" PROVE CodeInv'
BY DEF CodeInv, CodeShape, CodeLinksOnce

LEMMA StartKeeps == ASSUME BotInv, Start PROVE BotInv'
<1> USE DEF BotInv
<1>1. handler # Idle /\ handler.step # "set"  BY DEF Start, Idle
<1>2. handler.update.code \in Codes /\ handler.update.chat \in Chats
  BY <1>1 DEF Start, PollInv, HandlerShape
<1>3. CASE handler.update.code \in codes
  <2>1. Goto("link") /\ Stays  BY <1>3 DEF Start
  <2>2. handler' = [step |-> "link", update |-> handler.update]
        /\ handler'.step = "link" /\ handler'.update = handler.update
    BY <1>1, <2>1, GoesOn DEF PollInv
  <2>3. HandlerShape' /\ handler' # Idle  BY <1>2, <2>2 DEF HandlerShape, Idle
  <2>4. PollInv'  BY <1>1, <2>1, <2>3, GotoKeeps DEF Start
  <2>5. CodeInv'  BY <1>2, <1>3, <2>2 DEF Start, Consumed, CodeInv, CodeShape, CodeLinksOnce
  <2> QED  BY <2>4, <2>5, NoticesStay, LinksStay DEF Start, DecisionShape
<1>4. CASE handler.update.code \notin codes
  <2>1. Done  BY <1>4 DEF Start
  <2>2. PollInv'  BY <1>1, <2>1, DoneKeeps DEF Start
  <2>3. codes' = codes /\ UNCHANGED linkedBy /\ handler'.step # "link"
    BY <1>4, <2>1 DEF Start, Consumed, Done, Idle
  <2>4. CodeInv'  BY <2>3, CodesStay
  <2> QED  BY <2>2, <2>4, NoticesStay, LinksStay DEF Start, DecisionShape
<1> QED  BY <1>3, <1>4

LEMMA LinkKeeps == ASSUME BotInv, Link PROVE BotInv'
<1> USE DEF BotInv
<1> DEFINE code == handler.update.code
           chat == handler.update.chat
           user == CodeOf[code]
<1>1. handler # Idle /\ handler.step = "link"  BY DEF Link, Idle
<1>2. code \in Codes /\ chat \in Chats /\ user \in Users
  BY <1>1, BotConstants DEF PollInv, HandlerShape
<1>3. Done /\ UNCHANGED <<codes, sent, rows, decided, noticeVars, decision, posted, restarts>>  BY DEF Link
<1>4. PollInv'  BY <1>1, <1>3, DoneKeeps
<1>5. handler'.step # "link"  BY <1>3 DEF Done, Idle
<1>6. code \notin codes /\ linkedBy[code] = <<>>  BY <1>1 DEF CodeInv, CodeShape
<1>7. CASE UNCHANGED <<links, linkedBy>>
  BY <1>3, <1>4, <1>5, <1>7, LinksStay, CodesStay, NoticesStay DEF DecisionShape
<1>8. CASE /\ LinkOfChat(chat) \subseteq {user}
           /\ links' = [u \in DOMAIN links \union {user} |->
                          IF u = user
                          THEN [chat |-> chat, mode |-> IF u \in DOMAIN links THEN links[u].mode ELSE "all"]
                          ELSE links[u]]
           /\ linkedBy' = [linkedBy EXCEPT ![code] = Append(@, chat)]
  <2>1. \A u \in DOMAIN links : links[u].chat = chat => u = user  BY <1>8 DEF LinkOfChat
  <2> HIDE DEF code, chat, user
  <2>2. DOMAIN links' = DOMAIN links \union {user}  BY <1>8
  <2>3. \A u \in DOMAIN links \ {user} : links'[u] = links[u]  BY <1>8
  <2>4. links'[user].chat = chat /\ links'[user].mode \in {"all", "urgent"}
        /\ links'[user] = [chat |-> links'[user].chat, mode |-> links'[user].mode]
    BY <1>8 DEF LinkTable
  <2>5. \A u \in DOMAIN links' : links'[u] = [chat |-> links'[u].chat, mode |-> links'[u].mode]
    BY <2>2, <2>3, <2>4 DEF LinkTable
  <2>6. links' = [u \in DOMAIN links' |-> links'[u]]  BY <1>8
  <2>7. LinkTable'
    <3>1. links' = [u \in DOMAIN links' |-> [chat |-> links'[u].chat, mode |-> links'[u].mode]]
      BY <2>5, <2>6
    <3> QED  BY <1>2, <2>1, <2>2, <2>3, <2>4, <3>1 DEF LinkTable
  <2>8. CodeInv'
    <3>1. linkedBy' = [linkedBy EXCEPT ![code] = <<chat>>]  BY <1>2, <1>6, <1>8
    <3>2. linkedBy' \in [Codes -> Seq(Chats)]  BY <1>2, <3>1 DEF CodeInv, CodeShape
    <3>3. Len(<<chat>>) = 1  OBVIOUS
    <3>4. CodeLinksOnce'
      BY <1>2, <3>1, <3>3 DEF CodeInv, CodeShape, CodeLinksOnce
    <3>5. \A c \in codes : linkedBy'[c] = linkedBy[c]  BY <1>6, <3>1 DEF CodeInv, CodeShape
    <3> QED  BY <1>3, <1>5, <3>2, <3>4, <3>5 DEF CodeInv, CodeShape
  <2> QED  BY <1>3, <1>4, <2>7, <2>8, NoticesStay DEF DecisionShape
<1> QED  BY <1>7, <1>8 DEF Link

LEMMA CommandKeeps == ASSUME BotInv, Command PROVE BotInv'
<1> USE DEF BotInv
<1>1. handler # Idle  BY DEF Command, Idle
<1>2. PollInv' /\ handler'.step # "link"
  <2>1. CASE Done  BY <1>1, <2>1, DoneKeeps DEF Command, Done, Idle
  <2>2. CASE /\ handler' = [step |-> "set", verb |-> handler.step,
                            user |-> CHOOSE u \in LinkOfChat(handler.update.chat) : TRUE]
             /\ Stays
    <3>1. HandlerShape' /\ handler' # Idle /\ handler'.step # "link"  BY <2>2 DEF Command, HandlerShape, Idle
    <3> QED  BY <1>1, <2>2, <3>1, GotoKeeps DEF Command
  <2> QED  BY <2>1, <2>2 DEF Command
<1> QED  BY <1>2, LinksStay, CodesStay, NoticesStay DEF Command, tableVars, DecisionShape

\* A link less, or one whose mode changed.
LEMMA WithoutKeeps == ASSUME LinkTable, NEW u, links' = Without(links, u) PROVE LinkTable'
BY DEF LinkTable, Without

LEMMA SetLinkKeeps == ASSUME BotInv, SetLink PROVE BotInv'
<1> USE DEF BotInv
<1>1. handler # Idle /\ Done  BY DEF SetLink, Idle
<1>2. PollInv' /\ handler'.step # "link"  BY <1>1, DoneKeeps DEF SetLink, Done, Idle
<1>3. LinkTable'
  <2>1. CASE links' = links  BY <2>1, LinksStay
  <2>2. CASE links' = Without(links, handler.user)  BY <2>2, WithoutKeeps
  <2>3. CASE handler.user \in DOMAIN links /\ handler.verb # "stop"
             /\ links' = [links EXCEPT ![handler.user].mode = handler.verb]
    <3>1. handler.verb \in {"urgent", "all"}  BY <1>1, <2>3 DEF SetLink, PollInv, HandlerShape
    <3>2. [links[handler.user] EXCEPT !.mode = handler.verb] = [chat |-> links[handler.user].chat, mode |-> handler.verb]
      <4>1. links[handler.user] = [chat |-> links[handler.user].chat, mode |-> links[handler.user].mode]
        BY <2>3 DEF LinkTable
      <4> QED  BY <4>1
    <3>3. links' = [links EXCEPT ![handler.user] = [chat |-> links[handler.user].chat, mode |-> handler.verb]]
      BY <2>3, <3>2
    <3>4. DOMAIN links' = DOMAIN links  BY <2>3
    <3>5. \A u \in DOMAIN links : /\ links'[u] = [chat |-> links'[u].chat, mode |-> links'[u].mode]
                                 /\ links'[u].chat = links[u].chat /\ links'[u].mode \in {"all", "urgent"}
      BY <3>1, <3>3 DEF LinkTable
    <3>6. links' = [u \in DOMAIN links' |-> links'[u]]  BY <2>3
    <3>7. links' = [u \in DOMAIN links' |-> [chat |-> links'[u].chat, mode |-> links'[u].mode]]
      BY <3>4, <3>5, <3>6
    <3> QED  BY <3>4, <3>5, <3>7 DEF LinkTable
  <2> QED  BY <2>1, <2>2, <2>3 DEF SetLink
<1> QED  BY <1>2, <1>3, CodesStay, NoticesStay DEF SetLink, DecisionShape

LEMMA TapKeeps == ASSUME BotInv, Tap \/ Look \/ TapDecides \/ Store PROVE BotInv'
<1> USE DEF BotInv
<1>1. handler # Idle /\ handler.step \in {"tap", "look", "decide", "store"}
  BY DEF Tap, Look, TapDecides, Store, Idle
<1>2. UNCHANGED <<links, codes, sent, rows, noticeVars, posted, restarts, linkedBy>>
  BY DEF Tap, Look, TapDecides, Store, tableVars
<1>3. handler.update.chat \in Chats /\ handler.update.kind \in Kinds  BY <1>1 DEF PollInv, HandlerShape
<1>4. PollInv' /\ handler'.step # "link"
  <2>1. CASE Done  BY <1>1, <1>2, <2>1, DoneKeeps DEF Done, Idle
  <2>2. ASSUME NEW step \in {"look", "decide", "store"}, Goto(step), Stays PROVE PollInv' /\ handler'.step # "link"
    <3>1. handler' = [step |-> step, update |-> handler.update]
          /\ handler'.step = step /\ handler'.update = handler.update
      BY <1>1, <2>2, GoesOn DEF PollInv
    <3>2. HandlerShape' /\ handler' # Idle /\ handler'.step # "link"  BY <1>3, <3>1 DEF HandlerShape, Idle
    <3> QED  BY <1>1, <1>2, <2>2, <3>2, GotoKeeps
  <2> QED  BY <2>1, <2>2 DEF Tap, Look, TapDecides, Store
<1>5. DecisionShape'  BY <1>3 DEF DecisionShape, Tap, Look, TapDecides, Store, tableVars
<1> QED  BY <1>2, <1>4, <1>5, LinksStay, CodesStay, NoticesStay
----------------------------------------------------------------------------
\* The announcements, the console and the restart.

\* Nothing the loop over the updates keeps has moved.
LEMMA LoopStays ==
    ASSUME BotInv, UNCHANGED <<posted, pollVars, restarts, handled, linkedBy, codes>>
    PROVE  PollInv' /\ CodeInv'
<1>1. PollInv'
  BY DEF BotInv, PollInv, PollShape, HandlerShape, HandledFirst, NoUpdateIsLost, pollVars
<1>2. CodeInv'  BY DEF BotInv, CodeInv, CodeShape, CodeLinksOnce, pollVars
<1> QED  BY <1>1, <1>2

LEMMA RecordKeeps == ASSUME BotInv, (\E e \in Events : Record(e)) \/ SaveInbox PROVE BotInv'
<1> USE DEF BotInv
<1>1. UNCHANGED <<links, codes, sent, decided, announcing, arrived, decision, posted, pollVars, restarts, handled, linkedBy>>
  BY DEF Record, SaveInbox, tableVars, noticeVars
<1>2. rows' \subseteq Events /\ known' \subseteq Events /\ pending' \in Seq(Events)
  BY DEF Record, SaveInbox, noticeVars, tableVars, NoticeInv, NoticeShape
<1>3. NoticeInv'  BY <1>1, <1>2 DEF NoticeInv, NoticeShape, MarkedFirst, AnnouncedOnce
<1> QED  BY <1>1, <1>3, LoopStays, LinksStay DEF DecisionShape

LEMMA ReadLinkKeeps == ASSUME BotInv, ReadLink PROVE BotInv'
<1> USE DEF BotInv
<1>1. Head(pending) \in Events /\ pending' \in Seq(Events)  BY DEF ReadLink, NoticeInv, NoticeShape
<1>2. announcing' = Idle \/
      (Owner \in DOMAIN links /\ announcing' = [step |-> "mark", event |-> Head(pending), chat |-> links[Owner].chat])
  BY DEF ReadLink
<1>3. UNCHANGED <<links, codes, sent, rows, decided, known, arrived, decision, posted, pollVars, restarts, handled, linkedBy>>
  BY DEF ReadLink, tableVars
<1>4. announcing'.step # "send"  BY <1>2 DEF Idle
<1>5. NoticeShape'  BY <1>1, <1>2, <1>3 DEF NoticeInv, NoticeShape, LinkTable
<1>6. NoticeInv'  BY <1>3, <1>4, <1>5 DEF NoticeInv, MarkedFirst, AnnouncedOnce
<1> QED  BY <1>3, <1>6, LoopStays, LinksStay DEF DecisionShape

LEMMA MarkKeeps == ASSUME BotInv, MarkSent PROVE BotInv'
<1> USE DEF BotInv
<1>1. UNCHANGED <<links, codes, rows, decided, known, pending, arrived, decision, posted, pollVars, restarts, handled, linkedBy>>
  BY DEF MarkSent
<1>2. /\ announcing = [step |-> "mark", event |-> announcing.event, chat |-> announcing.chat]
      /\ announcing.event \in Events /\ announcing.chat \in Chats
  BY DEF MarkSent, NoticeInv, NoticeShape, Idle
<1>3. \/ announcing' = Idle
      \/ /\ announcing.event \notin sent
         /\ announcing' = [step |-> "send", event |-> announcing.event, chat |-> announcing.chat]
  BY <1>2 DEF MarkSent
<1>4. sent' = sent \union {announcing.event}  BY DEF MarkSent
<1>5. NoticeShape'  BY <1>1, <1>2, <1>3, <1>4 DEF NoticeInv, NoticeShape
<1>6. MarkedFirst'  BY <1>1, <1>3, <1>4 DEF NoticeInv, MarkedFirst, Idle
<1>7. NoticeInv'  BY <1>1, <1>5, <1>6 DEF NoticeInv, AnnouncedOnce
<1> QED  BY <1>1, <1>7, LoopStays, LinksStay DEF DecisionShape

LEMMA SendKeeps == ASSUME BotInv, Send PROVE BotInv'
<1> USE DEF BotInv
<1>1. UNCHANGED <<links, codes, sent, rows, decided, known, pending, decision, posted, pollVars, restarts, handled, linkedBy>>
      /\ announcing' = Idle
  BY DEF Send, tableVars
<1> DEFINE it == [event |-> announcing.event, chat |-> announcing.chat]
<1>2. it \in [event : Events, chat : Chats]  BY DEF Send, NoticeInv, NoticeShape, Idle
<1>3. announcing.event \in sent /\ \A i \in 1..Len(arrived) : arrived[i].event # it.event
  BY DEF Send, NoticeInv, MarkedFirst
<1>4. CASE arrived' = arrived  BY <1>1, <1>4, LoopStays, LinksStay DEF DecisionShape, NoticeInv, NoticeShape, MarkedFirst, AnnouncedOnce, Idle
<1>5. CASE arrived' = Append(arrived, it)
  <2>1. it.event = announcing.event  OBVIOUS
  <2> HIDE DEF it
  <2>2. arrived \in Seq([event : Events, chat : Chats])  BY DEF NoticeInv, NoticeShape
  <2>3. /\ arrived' \in Seq([event : Events, chat : Chats]) /\ Len(arrived') = Len(arrived) + 1
        /\ arrived'[Len(arrived) + 1] = it
        /\ \A i \in 1..Len(arrived) : arrived'[i] = arrived[i]
    BY <1>2, <1>5, <2>2
  <2>4. Len(arrived) \in Nat  BY <2>2
  <2>5. \A i \in 1..Len(arrived') : i = Len(arrived) + 1 \/ i \in 1..Len(arrived)  BY <2>3, <2>4
  <2>6. NoticeShape'  BY <1>1, <2>3 DEF NoticeInv, NoticeShape
  <2>7. MarkedFirst'  BY <1>1, <1>3, <2>1, <2>3, <2>5 DEF NoticeInv, MarkedFirst, Idle
  <2>8. AnnouncedOnce'  BY <1>3, <2>3, <2>5 DEF NoticeInv, AnnouncedOnce
  <2>9. NoticeInv'  BY <2>6, <2>7, <2>8 DEF NoticeInv
  <2> QED  BY <1>1, <2>9, LoopStays, LinksStay DEF DecisionShape
<1> QED  BY <1>4, <1>5 DEF Send

LEMMA ConsoleKeeps ==
    ASSUME BotInv,
           \/ \E k \in Kinds : ConsoleDecides(k)
           \/ \E u \in Users : ConsoleUnlinks(u)
           \/ \E c \in Codes : CodeExpires(c)
    PROVE  BotInv'
<1> USE DEF BotInv
<1>1. UNCHANGED <<sent, rows, noticeVars, posted, pollVars, restarts, handled, linkedBy>>
  BY DEF ConsoleDecides, ConsoleUnlinks, CodeExpires
<1>2. LinkTable'  BY LinksStay, WithoutKeeps DEF ConsoleDecides, ConsoleUnlinks, CodeExpires
<1>3. codes' \subseteq codes  BY DEF ConsoleDecides, ConsoleUnlinks, CodeExpires
<1>4. CodeInv'  BY <1>1, <1>3 DEF CodeInv, CodeShape, CodeLinksOnce, pollVars
<1>5. PollInv'
  BY <1>1 DEF PollInv, PollShape, HandlerShape, HandledFirst, NoUpdateIsLost, pollVars
<1>6. DecisionShape'  BY DEF DecisionShape, ConsoleDecides, ConsoleUnlinks, CodeExpires
<1> QED  BY <1>1, <1>2, <1>4, <1>5, <1>6, NoticesStay

LEMMA BotRestartKeeps == ASSUME BotInv, BotRestart PROVE BotInv'
<1> USE DEF BotInv
<1>1. PollInv'
  <2>1. PollShape'  BY BotConstants DEF BotRestart, PollInv, PollShape
  <2>2. 1..0 = {}  OBVIOUS
  <2> QED  BY <2>1, <2>2 DEF BotRestart, PollInv, HandlerShape, HandledFirst, NoUpdateIsLost
<1>2. NoticeInv'
  BY DEF BotRestart, tableVars, NoticeInv, NoticeShape, MarkedFirst, AnnouncedOnce, Idle
<1>3. CodeInv'  BY DEF BotRestart, tableVars, CodeInv, CodeShape, CodeLinksOnce, Idle
<1> QED  BY <1>1, <1>2, <1>3, LinksStay DEF BotRestart, tableVars, DecisionShape

THEOREM BotInduction == TelegramSpec => []BotInv
<1>1. TelegramInit => BotInv  BY BotStarts
<1>2. BotInv /\ [TelegramNext]_telegramVars => BotInv'
  <2> SUFFICES ASSUME BotInv, [TelegramNext]_telegramVars PROVE BotInv'  OBVIOUS
  <2>1. CASE UNCHANGED telegramVars
    BY <2>1, LoopStays, LinksStay, NoticesStay DEF telegramVars, tableVars, noticeVars, BotInv, DecisionShape
  <2>2. CASE Poll
    <3>1. PollInv'  BY <2>2, PollKeeps DEF BotInv
    <3>2. UNCHANGED <<tableVars, noticeVars, decision, handler, linkedBy>>  BY <2>2 DEF Poll
    <3>3. CodeInv'  BY <3>2 DEF tableVars, BotInv, CodeInv, CodeShape, CodeLinksOnce
    <3> QED  BY <3>1, <3>2, <3>3, LinksStay, NoticesStay DEF tableVars, BotInv, DecisionShape
  <2>3. CASE Take
    <3>1. PollInv' /\ handler'.step # "link"  BY <2>3, TakeKeeps DEF BotInv
    <3>2. UNCHANGED <<tableVars, noticeVars, decision, linkedBy>>  BY <2>3 DEF Take
    <3> QED  BY <3>1, <3>2, LinksStay, NoticesStay, CodesStay DEF tableVars, BotInv, DecisionShape
  <2>4. CASE Handle
    BY <2>4, StartKeeps, LinkKeeps, CommandKeeps, SetLinkKeeps, TapKeeps DEF Handle
  <2>5. ASSUME NEW u \in Updates, PostUpdate(u) PROVE BotInv'  BY <2>5, PostKeeps
  <2>6. CASE (\E e \in Events : Record(e)) \/ SaveInbox  BY <2>6, RecordKeeps
  <2>7. CASE ReadLink \/ MarkSent \/ Send  BY <2>7, ReadLinkKeeps, MarkKeeps, SendKeeps
  <2>8. CASE \/ \E k \in Kinds : ConsoleDecides(k)
             \/ \E u \in Users : ConsoleUnlinks(u)
             \/ \E c \in Codes : CodeExpires(c)
    BY <2>8, ConsoleKeeps
  <2>9. CASE BotRestart  BY <2>9, BotRestartKeeps
  <2> QED  BY <2>1, <2>2, <2>3, <2>4, <2>5, <2>6, <2>7, <2>8, <2>9 DEF TelegramNext
<1> QED  BY <1>1, <1>2, PTL DEF TelegramSpec

\* Types of the bot, and that no two users are linked to one chat.
THEOREM BotTypesHold == TelegramSpec => []TelegramTypeOK
<1>1. BotInv => TelegramTypeOK
  <2> SUFFICES ASSUME BotInv PROVE TelegramTypeOK  OBVIOUS
  <2>1. pending \in Seq(Events)  BY DEF BotInv, NoticeInv, NoticeShape
  <2>2. ToSet(pending) \subseteq Events  BY <2>1 DEF ToSet
  <2>3. rows \union sent \union known \subseteq Events  BY DEF BotInv, NoticeInv, NoticeShape
  <2> QED  BY <2>2, <2>3
           DEF BotInv, LinkTable, PollInv, PollShape, DecisionShape, CodeInv, CodeShape, TelegramTypeOK
<1> QED  BY <1>1, BotInduction, PTL

\* An event is announced in the chat at most once, over restarts and inbox rows that
\* were never stored, because its marker is written before the message; and Telegram
\* is told to forget an update only after its handling ended (notifyInbox, pollOnce).
THEOREM ToldAndHandledOnce == TelegramSpec => []ToldOnceHandledOnce
<1>1. BotInv => ToldOnceHandledOnce
  BY DEF BotInv, PollInv, NoticeInv, ToldOnceHandledOnce
<1> QED  BY <1>1, BotInduction, PTL

\* A code links one chat, however often Telegram hands its /start out again
\* (consumeLinkCode deletes the code before the link is written).
THEOREM CodesLinkOnce == TelegramSpec => []CodeLinksOnce
<1>1. BotInv => CodeLinksOnce  BY DEF BotInv, CodeInv
<1> QED  BY <1>1, BotInduction, PTL

----------------------------------------------------------------------------
\* The reading of documents (DocumentIngest).

\* The keys a job can form, and what it may know of documents.
Keys == {k \in Seq(Files \union ({"member", "link"} \X Files)) : Len(k) >= 1 /\ IsKey(k)}
Docs == UNION {[D -> {"hashed", "failed"}] : D \in SUBSET Keys}

Frames ==
    [key : Keys, file : Files, kind : {"listed", "member", "link", "stored"},
     depth : 0..UnpackDepth, linkDepth : 0..LinkDepth,
     step : {"download", "index", "members", "links"}, todo : SUBSET Files, out : Docs]

LEMMA DocsWith ==
    ASSUME NEW docs \in Docs, NEW key \in Keys, NEW status \in {"hashed", "failed"}
    PROVE  /\ With(docs, key, status) \in Docs
           /\ DOMAIN With(docs, key, status) = DOMAIN docs \union {key}
           /\ \A k \in DOMAIN docs \union {key} : With(docs, key, status)[k] = IF k = key THEN status ELSE docs[k]
BY DEF Docs, With

LEMMA DocsBoth ==
    ASSUME NEW docs \in Docs, NEW more \in Docs
    PROVE  /\ Both(docs, more) \in Docs
           /\ DOMAIN Both(docs, more) = DOMAIN docs \union DOMAIN more
           /\ \A k \in DOMAIN Both(docs, more) :
                 Both(docs, more)[k] = IF k \in DOMAIN more THEN more[k] ELSE docs[k]
BY DEF Docs, Both

LEMMA NoDocs == NoDocuments \in Docs /\ DOMAIN NoDocuments = {}
<1>1. DOMAIN NoDocuments = {}  BY DEF NoDocuments
<1>2. NoDocuments = [k \in {} |-> "hashed"]  BY DEF NoDocuments
<1>3. [k \in {} |-> "hashed"] \in [{} -> {"hashed", "failed"}] /\ {} \in SUBSET Keys  OBVIOUS
<1> QED  BY <1>1, <1>2, <1>3 DEF Docs

LEMMA KeyParts ==
    ASSUME NEW key \in Keys
    PROVE  /\ key \in Seq(Files \union ({"member", "link"} \X Files)) /\ Len(key) \in Nat /\ Len(key) >= 1
           /\ key[1] \in Listed /\ Len(key) <= LinkDepth + 2
           /\ \A i \in 2..Len(key) : /\ key[i] \in {"member", "link"} \X Files
                                     /\ key[i][1] = "member" => i = 2
BY DEF Keys, IsKey

LEMMA OldKeys ==
    ASSUME NEW key \in Keys
    PROVE  /\ IsMemberKey(key) \/ IsLinkedKey(key) <=> Len(key) > 1
           /\ FileOf(key) \in Files
           /\ Len(key) = 1 => key = <<key[1]>>
<1>1. Len(key) > 1 => 2 \in 2..Len(key) /\ Len(key) \in 2..Len(key)  BY KeyParts
<1>2. IsMemberKey(key) \/ IsLinkedKey(key) => Len(key) > 1  BY KeyParts DEF IsMemberKey, IsLinkedKey
<1>3. Len(key) > 1 => IsMemberKey(key) \/ IsLinkedKey(key)
  <2>1. Len(key) > 1 => key[2][1] \in {"member", "link"}  BY <1>1, KeyParts
  <2> QED  BY <1>1, <2>1 DEF IsMemberKey, IsLinkedKey
<1>4. FileOf(key) \in Files
  <2>1. CASE Len(key) = 1  BY <2>1, KeyParts, IngestConstants DEF FileOf
  <2>2. CASE Len(key) > 1
    <3>1. key[Len(key)] \in {"member", "link"} \X Files  BY <1>1, <2>2, KeyParts
    <3> QED  BY <2>2, <3>1 DEF FileOf
  <2>3. Len(key) = 1 \/ Len(key) > 1
    <3>1. \A n \in Nat : n >= 1 => n = 1 \/ n > 1  OBVIOUS
    <3> QED  BY <3>1, KeyParts
  <2> QED  BY <2>1, <2>2, <2>3
<1>5. Len(key) = 1 => key = <<key[1]>>  BY KeyParts
<1> QED  BY <1>2, <1>3, <1>4, <1>5

RootOf(key) == <<key[1]>>

LEMMA RootKeys ==
    ASSUME NEW file \in Listed
    PROVE  <<file>> \in Keys /\ ~IsMemberKey(<<file>>) /\ ~IsLinkedKey(<<file>>)
<1>1. <<file>> \in Seq(Files \union ({"member", "link"} \X Files)) /\ Len(<<file>>) = 1 /\ <<file>>[1] = file
  BY IngestConstants
<1> QED  BY <1>1, IngestConstants DEF Keys, IsKey, IsMemberKey, IsLinkedKey

\* A key is its own root, or a member or a link.
LEMMA KeyOrPart ==
    ASSUME NEW key \in Keys
    PROVE  /\ IsMemberKey(key) \/ IsLinkedKey(key) <=> key # RootOf(key)
           /\ RootOf(key) \in Keys /\ RootOf(RootOf(key)) = RootOf(key)
           /\ ~IsMemberKey(RootOf(key))
<1>1. key[1] \in Listed  BY KeyParts
<1>2. RootOf(key) \in Keys /\ ~IsMemberKey(RootOf(key)) /\ Len(RootOf(key)) = 1
  BY <1>1, RootKeys DEF RootOf
<1>3. key # RootOf(key) <=> Len(key) > 1
  <2>1. \A n \in Nat : n >= 1 => n = 1 \/ n > 1  OBVIOUS
  <2>2. Len(key) = 1 \/ Len(key) > 1  BY <2>1, KeyParts
  <2> QED  BY <1>2, <2>2, OldKeys DEF RootOf
<1>4. RootOf(RootOf(key)) = RootOf(key)  BY DEF RootOf
<1> QED  BY <1>2, <1>3, <1>4, OldKeys

LEMMA NewKeys ==
    ASSUME NEW key \in Keys, NEW file \in Files
    PROVE  /\ MemberKey(key, file) \in Keys /\ MemberKey(key, file)[1] = key[1] /\ Len(MemberKey(key, file)) = 2
           /\ Len(key) <= LinkDepth + 1 => LinkKey(key, file) \in Keys
           /\ LinkKey(key, file)[1] = key[1] /\ Len(LinkKey(key, file)) = Len(key) + 1
           /\ IsLinkedKey(LinkKey(key, file))
<1>1. MemberKey(key, file) \in Keys /\ MemberKey(key, file)[1] = key[1] /\ Len(MemberKey(key, file)) = 2
  <2> DEFINE mk == <<key[1], <<"member", file>>>>
  <2>1. mk \in Seq(Files \union ({"member", "link"} \X Files)) /\ Len(mk) = 2 /\ mk[1] = key[1] /\ mk[2] = <<"member", file>>
    BY KeyParts, IngestConstants
  <2>2. \A i \in 2..Len(mk) : i = 2  BY <2>1
  <2>3. <<"member", file>> \in {"member", "link"} \X Files /\ <<"member", file>>[1] = "member"  OBVIOUS
  <2>4. mk = MemberKey(key, file)  BY DEF MemberKey
  <2> HIDE DEF mk
  <2>5. IsKey(mk)  BY <2>1, <2>2, <2>3, KeyParts, IngestConstants DEF IsKey
  <2>6. Len(mk) >= 1 /\ mk \in Seq(Files \union ({"member", "link"} \X Files))  BY <2>1
  <2>7. mk \in Keys  BY <2>5, <2>6 DEF Keys
  <2> QED  BY <2>1, <2>4, <2>7
<1>2. /\ LinkKey(key, file)[1] = key[1] /\ Len(LinkKey(key, file)) = Len(key) + 1
      /\ IsLinkedKey(LinkKey(key, file))
      /\ Len(key) <= LinkDepth + 1 => LinkKey(key, file) \in Keys
  <2> DEFINE lk == Append(key, <<"link", file>>)
  <2>0. <<"link", file>> \in {"member", "link"} \X Files /\ <<"link", file>>[1] = "link"  OBVIOUS
  <2>1. /\ lk \in Seq(Files \union ({"member", "link"} \X Files)) /\ Len(lk) = Len(key) + 1
        /\ lk[Len(key) + 1] = <<"link", file>> /\ \A i \in 1..Len(key) : lk[i] = key[i]
    BY <2>0, KeyParts
  <2>4. lk = LinkKey(key, file)  BY DEF LinkKey
  <2> HIDE DEF lk
  <2>2. \A i \in 2..Len(lk) : i \in 2..Len(key) \/ i = Len(key) + 1  BY <2>1, KeyParts
  <2>3. \A i \in 2..Len(lk) : lk[i] \in {"member", "link"} \X Files /\ (lk[i][1] = "member" => i = 2)
    BY <2>0, <2>1, <2>2, KeyParts
  <2>5. lk[1] = key[1]  BY <2>1, KeyParts
  <2>6. Len(key) <= LinkDepth + 1 => IsKey(lk)  BY <2>1, <2>3, <2>5, KeyParts, IngestConstants DEF IsKey
  <2>7. IsLinkedKey(lk)
    <3>1. Len(key) + 1 \in 2..Len(lk) /\ lk[Len(key) + 1][1] = "link"  BY <2>0, <2>1, KeyParts
    <3> QED  BY <3>1 DEF IsLinkedKey
  <2> QED  BY <2>1, <2>4, <2>5, <2>6, <2>7, KeyParts DEF Keys
<1> QED  BY <1>1, <1>2
----------------------------------------------------------------------------
\* The stack of files being read.

\* A frame fits the job: it nests no deeper than it may, it is in no part that was
\* or will be read by itself, and it returns documents of its own part.
Fits(f, runs, left, got, old) ==
    /\ f \in Frames
    /\ f.step = "members" => f.depth < UnpackDepth
    /\ f.step = "links" /\ f.todo # {} => runs = "ingest" /\ f.linkDepth < LinkDepth
    /\ \A k \in DOMAIN f.out : k[1] = f.key[1]
    /\ runs = "ingest" =>
          /\ Len(f.key) <= f.linkDepth + 2
          /\ RootOf(f.key) \notin Hashed(old) /\ RootOf(f.key) \notin left
          /\ \A k \in DOMAIN got : k[1] # f.key[1]
    /\ runs = "reindex" => f.step # "download"

StackInv ==
    /\ job \in {"none", "ingest", "reindex"}
    /\ job = "none" => stack = <<>>
    /\ stack \in Seq(Frames)
    /\ \A i \in 1..Len(stack) :
          /\ Fits(stack[i], job, waiting, gathered, documents)
          /\ stack[i].key[1] = stack[1].key[1]
          /\ stack[i].kind = "link" => i > 1

LEMMA TopFits ==
    ASSUME StackInv, stack # <<>>
    PROVE  /\ Len(stack) \in Nat /\ Len(stack) >= 1
           /\ Top \in Frames /\ Fits(Top, job, waiting, gathered, documents)
           /\ Top.key[1] = stack[1].key[1] /\ (Top.kind = "link" => Len(stack) > 1)
BY DEF StackInv, Top

\* The innermost frame goes on to another step.
LEMMA TopReplaced ==
    ASSUME StackInv, stack # <<>>, NEW f, Fits(f, job, waiting, gathered, documents),
           f.key = Top.key, f.kind = Top.kind, stack' = OnTop(f),
           UNCHANGED <<job, waiting, gathered, documents>>
    PROVE  /\ StackInv' /\ Len(stack') = Len(stack) /\ stack'[Len(stack)] = f
           /\ \A i \in 1..Len(stack) : i # Len(stack) => stack'[i] = stack[i]
<1>1. f \in Frames  BY DEF Fits
<1>2. /\ stack' \in Seq(Frames) /\ Len(stack') = Len(stack) /\ Len(stack) \in Nat /\ Len(stack) >= 1
      /\ stack'[Len(stack)] = f
      /\ \A i \in 1..Len(stack) : i # Len(stack) => stack'[i] = stack[i]
  BY <1>1 DEF StackInv, OnTop
<1>3. \A i \in 1..Len(stack) : stack'[i].key = stack[i].key /\ stack'[i].kind = stack[i].kind
  BY <1>2 DEF Top
<1>4. StackInv'
  <2>1. \A i \in 1..Len(stack) : Fits(stack'[i], job, waiting, gathered, documents)
    BY <1>2 DEF StackInv
  <2>2. \A i \in 1..Len(stack) : stack'[i].key[1] = stack'[1].key[1] /\ (stack'[i].kind = "link" => i > 1)
    BY <1>2, <1>3 DEF StackInv
  <2>3. job # "none"  BY DEF StackInv
  <2> QED  BY <1>2, <2>1, <2>2, <2>3 DEF StackInv
<1> QED  BY <1>2, <1>4

\* It calls for a file inside it or behind a link.
LEMMA TopCalls ==
    ASSUME StackInv, stack # <<>>,
           NEW f, Fits(f, job, waiting, gathered, documents), f.key = Top.key, f.kind = Top.kind,
           NEW g, Fits(g, job, waiting, gathered, documents), g.key[1] = Top.key[1],
           stack' = Append(OnTop(f), g), UNCHANGED <<job, waiting, gathered, documents>>
    PROVE  /\ StackInv' /\ Len(stack') = Len(stack) + 1
           /\ stack'[Len(stack)] = f /\ stack'[Len(stack) + 1] = g
           /\ \A i \in 1..Len(stack) : i # Len(stack) => stack'[i] = stack[i]
<1>1. f \in Frames /\ g \in Frames  BY DEF Fits
<1> DEFINE low == OnTop(f)
<1>2. /\ low \in Seq(Frames) /\ Len(low) = Len(stack) /\ Len(stack) \in Nat /\ Len(stack) >= 1
      /\ low[Len(stack)] = f
      /\ \A i \in 1..Len(stack) : i # Len(stack) => low[i] = stack[i]
  BY <1>1 DEF StackInv, OnTop
<1> HIDE DEF low
<1>3. /\ stack' \in Seq(Frames) /\ Len(stack') = Len(stack) + 1 /\ stack'[Len(stack) + 1] = g
      /\ \A i \in 1..Len(stack) : stack'[i] = low[i]
  BY <1>1, <1>2 DEF low
<1>4. \A i \in 1..Len(stack) : stack'[i].key = stack[i].key /\ stack'[i].kind = stack[i].kind
  BY <1>2, <1>3 DEF Top
<1>5. \A i \in 1..Len(stack') : i \in 1..Len(stack) \/ i = Len(stack) + 1  BY <1>2, <1>3
<1>6. StackInv'
  <2>1. \A i \in 1..Len(stack') : Fits(stack'[i], job, waiting, gathered, documents)
    BY <1>2, <1>3, <1>5 DEF StackInv
  <2>2. stack'[1].key = stack[1].key /\ Top.key[1] = stack[1].key[1]
    BY <1>2, <1>4, TopFits
  <2>3. \A i \in 1..Len(stack') : stack'[i].key[1] = stack'[1].key[1] /\ (stack'[i].kind = "link" => i > 1)
    BY <1>2, <1>3, <1>4, <1>5, <2>2 DEF StackInv
  <2>4. job # "none"  BY DEF StackInv
  <2> QED  BY <1>3, <2>1, <2>3, <2>4 DEF StackInv
<1> QED  BY <1>2, <1>3, <1>6

\* The frames above the n-th are gone, and it has their documents.
LEMMA StackCut ==
    ASSUME StackInv, NEW n \in 1..Len(stack) - 1, NEW out \in Docs,
           \A k \in DOMAIN out : k[1] = stack[n].key[1],
           stack' = [SubSeq(stack, 1, n) EXCEPT ![n] = [stack[n] EXCEPT !.out = out]],
           UNCHANGED <<job, waiting, gathered, documents>>
    PROVE  /\ StackInv' /\ Len(stack') = n
           /\ \A i \in 1..n : /\ stack'[i].step = stack[i].step /\ stack'[i].key = stack[i].key
                              /\ stack'[i].file = stack[i].file
<1> DEFINE f == [stack[n] EXCEPT !.out = out]
           low == SubSeq(stack, 1, n)
<1>0. stack \in Seq(Frames) /\ Len(stack) \in Nat /\ n \in Nat /\ n >= 1 /\ n < Len(stack) /\ n \in 1..Len(stack)
  BY DEF StackInv
<1>1. /\ f \in Frames /\ f.key = stack[n].key /\ f.kind = stack[n].kind /\ f.step = stack[n].step
      /\ f.file = stack[n].file /\ f.depth = stack[n].depth /\ f.linkDepth = stack[n].linkDepth
      /\ f.todo = stack[n].todo /\ f.out = out
  <2>1. stack[n] \in Frames  BY <1>0
  <2> QED  BY <2>1 DEF Frames
<1>2. low \in Seq(Frames) /\ Len(low) = n /\ \A i \in 1..n : low[i] = stack[i]
  BY <1>0
<1> HIDE DEF f, low
<1>3. stack' = [low EXCEPT ![n] = f]  BY DEF f, low
<1>4. /\ stack' \in Seq(Frames) /\ Len(stack') = n /\ stack'[n] = f
      /\ \A i \in 1..n : i # n => stack'[i] = stack[i]
  <2>1. f \in Frames /\ n \in Nat  BY <1>0, <1>1
  <2>2. \A t \in Seq(Frames) : Len(t) = n => /\ [t EXCEPT ![n] = f] \in Seq(Frames)
                                            /\ Len([t EXCEPT ![n] = f]) = n
    BY <2>1
  <2>3. \A i \in 1..n : stack'[i] = IF i = n THEN f ELSE low[i]  BY <1>2, <1>3, <2>1
  <2>4. stack' \in Seq(Frames) /\ Len(stack') = n  BY <1>2, <1>3, <2>2
  <2>5. n \in 1..n  BY <1>0
  <2> QED  BY <1>2, <2>3, <2>4, <2>5
<1>5. \A i \in 1..n : /\ i \in 1..Len(stack) /\ stack'[i].key = stack[i].key /\ stack'[i].kind = stack[i].kind
                      /\ stack'[i].step = stack[i].step /\ stack'[i].file = stack[i].file
  BY <1>0, <1>1, <1>4
<1>6. Fits(stack[n], job, waiting, gathered, documents)  BY <1>0 DEF StackInv
<1>7. Fits(f, job, waiting, gathered, documents)  BY <1>1, <1>6 DEF Fits
<1>8. \A i \in 1..n : Fits(stack'[i], job, waiting, gathered, documents)
  BY <1>4, <1>5, <1>7 DEF StackInv
<1>9. \A i \in 1..n : stack'[i].key[1] = stack'[1].key[1] /\ (stack'[i].kind = "link" => i > 1)
  <2>1. 1 \in 1..n  BY <1>0
  <2>2. \A i \in 1..n : stack[i].key[1] = stack[1].key[1] /\ (stack[i].kind = "link" => i > 1)
    BY <1>5 DEF StackInv
  <2> QED  BY <1>5, <2>1, <2>2
<1>10. stack # <<>> /\ job # "none"  BY <1>0 DEF StackInv
<1>11. StackInv'  BY <1>4, <1>8, <1>9, <1>10 DEF StackInv
<1> QED  BY <1>4, <1>5, <1>11

\* What the case has and what the job has gathered.  A listed file whose documents
\* the case has is not read: it is gathered when its turn comes.  So a part is met,
\* and then as a link, only in a file the case does not hold as read.
CaseInv ==
    /\ documents \in Docs /\ gathered \in Docs
    /\ job = "ingest" =>
          /\ waiting \subseteq {ListedKey(f) : f \in Listed}
          /\ \A k \in DOMAIN gathered : RootOf(k) \notin waiting
          /\ \A k \in seen : IF k = RootOf(k) THEN k \in Hashed(documents) => k \in Hashed(gathered)
                                              ELSE IsLinkedKey(k) /\ RootOf(k) \notin Hashed(documents)

\* A part the job meets anew is a link in a file that is being read.
NewPart(k) == k # RootOf(k) /\ IsLinkedKey(k) /\ RootOf(k) \notin Hashed(documents)

LEMMA CaseStays ==
    ASSUME CaseInv, UNCHANGED <<job, waiting, gathered, documents>>,
           \A k \in seen' : k \in seen \/ NewPart(k)
    PROVE  CaseInv'
BY DEF CaseInv, Hashed, NewPart

\* The documents a frame returns are of its part of the case.
Returns(docs) == docs \in Docs /\ \A k \in DOMAIN docs : k[1] = Top.key[1]

LEMMA LastReturns ==
    ASSUME StackInv, CaseInv, stack # <<>>, Len(stack) = 1, NEW docs, Returns(docs),
           stack' = <<>>, gathered' = Both(gathered, docs),
           UNCHANGED <<job, waiting, documents, seen>>
    PROVE  StackInv' /\ CaseInv'
<1>1. Fits(Top, job, waiting, gathered, documents)  BY TopFits
<1>2. /\ gathered' \in Docs /\ DOMAIN gathered' = DOMAIN gathered \union DOMAIN docs
      /\ \A k \in DOMAIN gathered' : gathered'[k] = IF k \in DOMAIN docs THEN docs[k] ELSE gathered[k]
  <2>1. gathered \in Docs /\ docs \in Docs  BY DEF CaseInv, Returns
  <2>2. /\ Both(gathered, docs) \in Docs /\ DOMAIN Both(gathered, docs) = DOMAIN gathered \union DOMAIN docs
        /\ \A k \in DOMAIN Both(gathered, docs) :
              Both(gathered, docs)[k] = IF k \in DOMAIN docs THEN docs[k] ELSE gathered[k]
    BY <2>1, DocsBoth
  <2> QED  BY <2>2
<1>3. StackInv'
  <2>1. <<>> \in Seq(Frames) /\ Len(<<>>) = 0  OBVIOUS
  <2> QED  BY <2>1 DEF StackInv
<1>4. \A k \in DOMAIN docs : RootOf(k) = RootOf(Top.key)  BY DEF Returns, RootOf
<1>5. ASSUME job = "ingest"
      PROVE  /\ \A k \in DOMAIN gathered' : RootOf(k) \notin waiting
             /\ Hashed(gathered) \subseteq Hashed(gathered')
  <2>1. \A k \in DOMAIN gathered : k \notin DOMAIN docs  BY <1>1, <1>5 DEF Fits, Returns
  <2>2. \A k \in DOMAIN docs : RootOf(k) \notin waiting  BY <1>1, <1>4, <1>5 DEF Fits
  <2> QED  BY <1>2, <1>5, <2>1, <2>2 DEF CaseInv, Hashed
<1>6. CaseInv'
  <2>1. UNCHANGED Hashed(documents)  BY DEF Hashed
  <2> QED  BY <1>2, <1>5, <2>1 DEF CaseInv
<1> QED  BY <1>3, <1>6

LEMMA ReturnedKeeps ==
    ASSUME StackInv, CaseInv, stack # <<>>, NEW docs, Returns(docs), Returned(docs),
           UNCHANGED <<job, waiting, documents, seen>>
    PROVE  /\ StackInv' /\ CaseInv' /\ Len(stack') = Len(stack) - 1
           /\ \A i \in 1..Len(stack') : /\ stack'[i].step = stack[i].step /\ stack'[i].file = stack[i].file
<1> DEFINE n == Len(stack) - 1
<1>1. stack \in Seq(Frames) /\ Len(stack) \in Nat /\ Len(stack) >= 1  BY TopFits DEF StackInv
<1>2. Len(Below) = n /\ (Below = <<>> <=> n = 0) /\ \A i \in 1..n : Below[i] = stack[i]
  <2>1. Below \in Seq(Frames) /\ Len(Below) = n /\ \A i \in 1..n : Below[i] = stack[i]
    BY SMTT(30), <1>1 DEF Below
  <2> QED  BY <2>1
<1>3. CASE n = 0
  <2>1. stack' = <<>> /\ gathered' = Both(gathered, docs)  BY <1>2, <1>3 DEF Returned
  <2>2. StackInv' /\ CaseInv'  BY <1>1, <1>3, <2>1, LastReturns
  <2>3. Len(<<>>) = 0 /\ 1..0 = {}  OBVIOUS
  <2> QED  BY <1>1, <1>3, <2>1, <2>2, <2>3
<1>4. CASE n > 0
  <2>1. n \in 1..Len(stack) - 1 /\ n \in 1..n /\ n \in 1..Len(stack)  BY <1>1, <1>4
  <2> DEFINE out == Both(stack[n].out, docs)
  <2>2. stack' = [SubSeq(stack, 1, n) EXCEPT ![n] = [stack[n] EXCEPT !.out = out]] /\ UNCHANGED gathered
    <3>1. stack' = [Below EXCEPT ![n] = [Below[n] EXCEPT !.out = Both(Below[n].out, docs)]] /\ UNCHANGED gathered
      BY <1>2, <1>4 DEF Returned
    <3> QED  BY <1>2, <2>1, <3>1 DEF Below
  <2>3. Fits(stack[n], job, waiting, gathered, documents) /\ stack[n].out \in Docs
        /\ stack[n].key[1] = Top.key[1]
    <3>1. stack[n] \in Frames  BY <1>1, <2>1
    <3>2. stack[n].out \in Docs  BY <3>1 DEF Frames
    <3> QED  BY <2>1, <3>2, TopFits DEF StackInv
  <2>4. /\ out \in Docs /\ DOMAIN out = DOMAIN stack[n].out \union DOMAIN docs
        /\ \A k \in DOMAIN out : out[k] = IF k \in DOMAIN docs THEN docs[k] ELSE stack[n].out[k]
    BY <2>3, DocsBoth DEF Returns
  <2>5. \A k \in DOMAIN out : k[1] = stack[n].key[1]  BY <2>3, <2>4 DEF Fits, Returns
  <2> HIDE DEF out
  <2>6. /\ StackInv' /\ Len(stack') = n
        /\ \A i \in 1..n : /\ stack'[i].step = stack[i].step /\ stack'[i].key = stack[i].key
                           /\ stack'[i].file = stack[i].file
    BY <2>1, <2>2, <2>4, <2>5, StackCut
  <2>7. CaseInv'  BY <2>2, CaseStays
  <2> QED  BY <2>6, <2>7
<1>5. n = 0 \/ n > 0
  <2>1. \A m \in Nat : m >= 1 => m - 1 = 0 \/ m - 1 > 0  OBVIOUS
  <2> QED  BY <1>1, <2>1
<1> QED  BY <1>3, <1>4, <1>5

LEMMA LeastOfSome ==
    ASSUME NEW S, S \subseteq Nat, S # {}
    PROVE  \E m \in S : \A n \in S : m <= n
<1> DEFINE R == {ss \in Nat \X Nat : ss[1] < ss[2]}
<1>1. IsWellFoundedOn(R, Nat)  BY NatLessThanWellFounded DEF OpToRel
<1>2. PICK m \in S : \A n \in S : <<n, m>> \notin R
  <2> HIDE DEF R
  <2> QED  BY <1>1, WFMin
<1>3. \A n \in S : ~ n < m
  <2> SUFFICES ASSUME NEW n \in S, n < m PROVE FALSE  OBVIOUS
  <2>1. <<n, m>> \in R  OBVIOUS
  <2> QED  BY <1>2, <2>1
<1> QED  BY <1>3

LEMMA InnermostLink == ASSUME StackInv, LinkFrames # {} PROVE \E i \in LinkFrames : \A m \in LinkFrames : m <= i
<1> SUFFICES ASSUME NEW j \in LinkFrames PROVE \E i \in LinkFrames : \A m \in LinkFrames : m <= i  OBVIOUS
<1>1. Len(stack) \in Nat /\ LinkFrames \subseteq 1..Len(stack)  BY DEF StackInv, LinkFrames
<1> DEFINE Above == {n \in Nat : n <= Len(stack) /\ Len(stack) - n \in LinkFrames}
<1>2. Above \subseteq Nat /\ Above # {}
  <2>1. Len(stack) - j \in Above  BY <1>1
  <2> QED  BY <2>1
<1>3. PICK n \in Above : \A m \in Above : n <= m
  <2> HIDE DEF Above
  <2> QED  BY <1>2, LeastOfSome
<1>4. \A m \in LinkFrames : m \in Nat /\ Len(stack) - m \in Above  BY <1>1
<1>5. Len(stack) - n \in LinkFrames /\ n \in Nat  OBVIOUS
<1>6. \A m \in LinkFrames : m <= Len(stack) - n
  <2> HIDE DEF Above
  <2> SUFFICES ASSUME NEW m \in LinkFrames PROVE m <= Len(stack) - n  OBVIOUS
  <2>1. n <= Len(stack) - m /\ m \in Nat  BY <1>3, <1>4
  <2> QED  BY <1>1, <1>5, <2>1
<1> QED  BY <1>5, <1>6
\* An exception is caught by the innermost link, or ends the job.
LEMMA ThrownKeeps ==
    ASSUME StackInv, CaseInv, stack # <<>>, Thrown, UNCHANGED <<documents, seen>>
    PROVE  /\ StackInv' /\ CaseInv' /\ DOMAIN progress' = DOMAIN progress /\ Len(stack') \in Nat
           /\ \/ job' = "none" /\ stack' = <<>> /\ waiting' = {}
              \/ /\ UNCHANGED <<job, waiting>> /\ Len(stack') < Len(stack)
                 /\ \A i \in 1..Len(stack') : stack'[i].step = stack[i].step
<1>1. stack \in Seq(Frames) /\ Len(stack) \in Nat  BY DEF StackInv
<1>2. CASE LinkFrames = {}
  <2>1. job' = "none" /\ stack' = <<>> /\ waiting' = {} /\ UNCHANGED <<gathered, progress>>
    BY <1>2 DEF Thrown
  <2>2. <<>> \in Seq(Frames) /\ Len(<<>>) = 0  OBVIOUS
  <2>3. StackInv'  BY <2>1, <2>2 DEF StackInv
  <2>4. CaseInv'  BY <2>1 DEF CaseInv
  <2> QED  BY <2>1, <2>2, <2>3, <2>4
<1>3. CASE LinkFrames # {}
  <2> DEFINE i == CHOOSE n \in LinkFrames : \A m \in LinkFrames : m <= n
             n == i - 1
             out == With(stack[n].out, stack[i].key, "failed")
  <2>1. i \in LinkFrames  BY <1>3, InnermostLink
  <2>2. i \in 1..Len(stack) /\ i > 1 /\ stack[i].kind = "link"  BY <2>1 DEF LinkFrames, StackInv
  <2>3. /\ stack' = [SubSeq(stack, 1, n) EXCEPT ![n] =
                       [SubSeq(stack, 1, n)[n] EXCEPT !.out = With(SubSeq(stack, 1, n)[n].out, stack[i].key, "failed")]]
        /\ progress' = Shown(stack[i].key, "failed") /\ UNCHANGED <<job, waiting, gathered>>
    BY <1>3 DEF Thrown
  <2> HIDE DEF i
  <2>4. n \in 1..Len(stack) - 1 /\ n \in 1..Len(stack) /\ n \in 1..n  BY <1>1, <2>2
  <2>5. stack' = [SubSeq(stack, 1, n) EXCEPT ![n] = [stack[n] EXCEPT !.out = out]]
    <3>1. SubSeq(stack, 1, n)[n] = stack[n]  BY <1>1, <2>4
    <3> QED  BY <2>3, <3>1
  <2>6. /\ Fits(stack[n], job, waiting, gathered, documents) /\ Fits(stack[i], job, waiting, gathered, documents)
        /\ stack[n].key[1] = stack[i].key[1]
    BY <2>2, <2>4 DEF StackInv
  <2>7. stack[n].out \in Docs /\ stack[i].key \in Keys
    <3>1. stack[n] \in Frames /\ stack[i] \in Frames  BY <1>1, <2>2, <2>4
    <3> QED  BY <3>1 DEF Frames
  <2>8. out \in Docs /\ DOMAIN out = DOMAIN stack[n].out \union {stack[i].key}
    <3>1. \A docs \in Docs, key \in Keys : /\ With(docs, key, "failed") \in Docs
                                            /\ DOMAIN With(docs, key, "failed") = DOMAIN docs \union {key}
      BY DocsWith
    <3> QED  BY <2>7, <3>1
  <2>9. \A k \in DOMAIN out : k[1] = stack[n].key[1]  BY <2>6, <2>8 DEF Fits
  <2> HIDE DEF out
  <2>10. /\ StackInv' /\ Len(stack') = n
         /\ \A j \in 1..n : stack'[j].step = stack[j].step
    <3> HIDE DEF n
    <3> QED  BY <2>3, <2>4, <2>5, <2>8, <2>9, StackCut
  <2>11. CaseInv'  BY <2>3, CaseStays
  <2>12. DOMAIN progress' = DOMAIN progress  BY <2>3 DEF Shown
  <2> QED  BY <1>1, <2>3, <2>4, <2>10, <2>11, <2>12
<1> QED  BY <1>2, <1>3

----------------------------------------------------------------------------
\* What a job downloads and how many links it follows.

DownloadInv ==
    /\ fetches \in [Files -> Nat] /\ fetched \subseteq Files
    /\ \A f \in Files : fetches[f] <= 1 /\ (fetches[f] > 0 => f \in fetched)
    /\ job = "ingest" => \A key \in waiting : key[1] \in fetched /\ fetches[key[1]] = 0
    /\ job = "reindex" => fetched = Files
    /\ \A i \in 1..Len(stack) : stack[i].step = "download" =>
          /\ i = Len(stack) /\ stack[i].file \in fetched
          /\ fetches[stack[i].file] = 0 /\ ListedKey(stack[i].file) \notin waiting

LinksShown == {k \in DOMAIN progress : IsLinkedKey(k)}
LinkInv ==
    /\ budget \in 0..LinkBudget
    /\ job = "ingest" => IsFiniteSet(LinksShown) /\ Cardinality(LinksShown) + budget <= LinkBudget

RestInv ==
    /\ waiting \subseteq Keys /\ DOMAIN progress \subseteq Keys /\ seen \subseteq Keys /\ blobs \subseteq Files
    /\ upsets \in 0..Upsets /\ jobs \in 0..Jobs

IngestInv == StackInv /\ CaseInv /\ DownloadInv /\ LinkInv /\ RestInv

LEMMA DownloadsStay ==
    ASSUME DownloadInv, \A i \in 1..Len(stack') : stack'[i].step # "download", UNCHANGED fetches,
           fetched \subseteq fetched', fetched' \subseteq Files, job' \in {job, "none"}, waiting' \subseteq waiting
    PROVE  DownloadInv'
BY DEF DownloadInv

LEMMA LinksAsBefore ==
    ASSUME LinkInv, DOMAIN progress' = DOMAIN progress, UNCHANGED budget, job' \in {job, "none"}
    PROVE  LinkInv'
BY DEF LinkInv, LinksShown

LEMMA ShownThere == \A key, state : DOMAIN Shown(key, state) = DOMAIN progress
BY DEF Shown

LEMMA UpsetCounts == ASSUME RestInv, Upset PROVE upsets' \in 0..Upsets
BY IngestConstants DEF RestInv, Upset

\* The frame on top is none of a job that does not run, and knows its file.
LEMMA TopKnows ==
    ASSUME IngestInv, stack # <<>>
    PROVE  /\ job \in {"ingest", "reindex"} /\ Top.file \in Files /\ Top.key \in Keys /\ Top.out \in Docs
           /\ Top.todo \subseteq Files /\ Top.depth \in 0..UnpackDepth /\ Top.linkDepth \in 0..LinkDepth
           /\ Members[Top.file] \subseteq Files /\ Links[Top.file] \subseteq Files
           /\ \A i \in 1..Len(stack) : i # Len(stack) => stack[i].step # "download"
<1>1. Top \in Frames  BY TopFits DEF IngestInv
<1>2. Top.file \in Files /\ Top.key \in Keys /\ Top.out \in Docs /\ Top.todo \subseteq Files
      /\ Top.depth \in 0..UnpackDepth /\ Top.linkDepth \in 0..LinkDepth
  BY <1>1 DEF Frames
<1>3. Members[Top.file] \subseteq Files /\ Links[Top.file] \subseteq Files  BY <1>2, IngestConstants
<1>4. job \in {"ingest", "reindex"}  BY DEF IngestInv, StackInv
<1>5. \A i \in 1..Len(stack) : i # Len(stack) => stack[i].step # "download"  BY DEF IngestInv, DownloadInv
<1> QED  BY <1>2, <1>3, <1>4, <1>5
----------------------------------------------------------------------------
\* The steps of a job.

\* A frame on top that only moves on: the job downloads nothing, meets nothing.
LEMMA TopMovesOn ==
    ASSUME IngestInv, stack # <<>>, NEW f, Fits(f, job, waiting, gathered, documents),
           f.key = Top.key, f.kind = Top.kind, f.step # "download", stack' = OnTop(f),
           DOMAIN progress' = DOMAIN progress, UNCHANGED budget, UNCHANGED fetches,
           seen' \subseteq Keys, blobs' \subseteq Files,
           \A k \in seen' : k \in seen \/ NewPart(k),
           fetched \subseteq fetched', fetched' \subseteq Files,
           UNCHANGED <<job, waiting, gathered, documents, upsets, jobs>>
    PROVE  IngestInv'
<1> USE DEF IngestInv
<1>1. /\ StackInv' /\ Len(stack') = Len(stack) /\ stack'[Len(stack)] = f
      /\ \A i \in 1..Len(stack) : i # Len(stack) => stack'[i] = stack[i]
  BY TopReplaced
<1>2. Len(stack) \in Nat /\ Len(stack) >= 1  BY TopFits
<1>3. CaseInv'  BY CaseStays
<1>4. DownloadInv'
  <2>1. \A i \in 1..Len(stack') : stack'[i].step # "download"  BY <1>1, TopKnows
  <2> QED  BY <2>1, DownloadsStay
<1>5. LinkInv'  BY LinksAsBefore
<1>6. RestInv'  BY DEF RestInv
<1> QED  BY <1>1, <1>3, <1>4, <1>5, <1>6

LEMMA UnpackKeeps == ASSUME IngestInv, Unpack PROVE IngestInv'
<1> DEFINE out == With(Top.out, Top.key, "hashed")
           f == [Top EXCEPT !.step = "members", !.todo = Members[Top.file], !.out = out]
<1>1. stack # <<>> /\ Top.depth < UnpackDepth /\ stack' = OnTop(f)  BY DEF Unpack
<1>2. Top \in Frames /\ Fits(Top, job, waiting, gathered, documents)  BY <1>1, TopFits DEF IngestInv
<1>3. /\ out \in Docs /\ DOMAIN out = DOMAIN Top.out \union {Top.key}
      /\ \A k \in DOMAIN out : out[k] = IF k = Top.key THEN "hashed" ELSE Top.out[k]
  <2>1. Top.out \in Docs /\ Top.key \in Keys  BY <1>1, TopKnows
  <2>2. \A docs \in Docs, key \in Keys :
           /\ With(docs, key, "hashed") \in Docs
           /\ DOMAIN With(docs, key, "hashed") = DOMAIN docs \union {key}
           /\ \A k \in DOMAIN docs \union {key} : With(docs, key, "hashed")[k] = IF k = key THEN "hashed" ELSE docs[k]
    BY DocsWith
  <2>3. /\ With(Top.out, Top.key, "hashed") \in Docs
        /\ DOMAIN With(Top.out, Top.key, "hashed") = DOMAIN Top.out \union {Top.key}
        /\ \A k \in DOMAIN Top.out \union {Top.key} :
              With(Top.out, Top.key, "hashed")[k] = IF k = Top.key THEN "hashed" ELSE Top.out[k]
    BY ZenonT(40), <2>1, <2>2
  <2> QED  BY <2>3
<1>4. /\ f \in Frames /\ f.key = Top.key /\ f.kind = Top.kind /\ f.depth = Top.depth
      /\ f.linkDepth = Top.linkDepth /\ f.step = "members" /\ f.todo = Members[Top.file] /\ f.out = out
  <2>1. Members[Top.file] \in SUBSET Files  BY <1>1, TopKnows
  <2> HIDE DEF out
  <2> QED  BY <1>2, <1>3, <2>1 DEF Frames
<1> HIDE DEF f, out
<1>5. Fits(f, job, waiting, gathered, documents)  BY <1>1, <1>2, <1>3, <1>4 DEF Fits
<1>6. /\ DOMAIN progress' = DOMAIN progress
      /\ UNCHANGED <<documents, blobs, job, waiting, gathered, fetched, seen, budget, upsets, jobs, fetches>>
  BY ShownThere DEF Unpack
<1>7. seen \subseteq Keys /\ blobs \subseteq Files /\ fetched \subseteq Files  BY DEF IngestInv, RestInv, DownloadInv
<1> QED  BY <1>1, <1>4, <1>5, <1>6, <1>7, TopMovesOn

LEMMA RecognizeKeeps == ASSUME IngestInv, Recognize PROVE IngestInv'
<1> DEFINE todo == IF job = "reindex" \/ Top.linkDepth >= LinkDepth THEN {} ELSE Links[Top.file] \ fetched
           f == [Top EXCEPT !.step = "links", !.todo = todo]
<1>1. stack # <<>> /\ stack' = OnTop(f)  BY DEF Recognize
<1>2. Top \in Frames /\ Fits(Top, job, waiting, gathered, documents)  BY <1>1, TopFits DEF IngestInv
<1>3. /\ todo \in SUBSET Files /\ job \in {"ingest", "reindex"}
      /\ (todo # {} => job # "reindex" /\ Top.linkDepth < LinkDepth)
  BY <1>1, TopKnows, IngestConstants
<1> HIDE DEF todo
<1>4. /\ f \in Frames /\ f.key = Top.key /\ f.kind = Top.kind /\ f.depth = Top.depth
      /\ f.linkDepth = Top.linkDepth /\ f.step = "links" /\ f.todo = todo /\ f.out = Top.out
  BY <1>2, <1>3 DEF Frames
<1> HIDE DEF f
<1>5. Fits(f, job, waiting, gathered, documents)  BY <1>2, <1>3, <1>4 DEF Fits
<1>6. UNCHANGED <<documents, blobs, job, waiting, gathered, fetched, seen, budget, progress, upsets, jobs, fetches>>
  BY DEF Recognize
<1>7. seen \subseteq Keys /\ blobs \subseteq Files /\ fetched \subseteq Files  BY DEF IngestInv, RestInv, DownloadInv
<1> QED  BY <1>1, <1>4, <1>5, <1>6, <1>7, TopMovesOn

\* A frame whose work list shrinks fits the job as it did.
LEMMA LessToDo ==
    ASSUME NEW f \in Frames, Fits(f, job, waiting, gathered, documents), NEW todo \in SUBSET f.todo
    PROVE  LET g == [f EXCEPT !.todo = todo]
           IN  /\ Fits(g, job, waiting, gathered, documents) /\ g.key = f.key /\ g.kind = f.kind
               /\ g.step = f.step
<1> DEFINE g == [f EXCEPT !.todo = todo]
<1>1. f.todo \in SUBSET Files  BY DEF Frames
<1>2. /\ g \in Frames /\ g.key = f.key /\ g.kind = f.kind /\ g.depth = f.depth /\ g.linkDepth = f.linkDepth
      /\ g.step = f.step /\ g.todo = todo /\ g.out = f.out
  <2>1. todo \in SUBSET Files  BY <1>1
  <2> QED  BY <2>1 DEF Frames
<1>3. todo # {} => f.todo # {}  OBVIOUS
<1> HIDE DEF g
<1>4. Fits(g, job, waiting, gathered, documents)  BY <1>2, <1>3 DEF Fits
<1> QED  BY <1>2, <1>4 DEF g
\* A frame for a file that has returned nothing yet.
LEMMA NewFrame ==
    ASSUME NEW key \in Keys, NEW file \in Files, NEW kind \in {"listed", "member", "link", "stored"},
           NEW depth \in 0..UnpackDepth, NEW linkDepth \in 0..LinkDepth, NEW step \in {"download", "index"}
    PROVE  LET g == Frame(key, file, kind, depth, linkDepth, step)
           IN  /\ g \in Frames /\ g.key = key /\ g.file = file /\ g.kind = kind /\ g.depth = depth
               /\ g.linkDepth = linkDepth /\ g.step = step /\ g.todo = {} /\ DOMAIN g.out = {}
BY NoDocs DEF Frame, Frames

LEMMA TakeMemberKeeps == ASSUME IngestInv, NEW file \in Files, TakeMember(file) PROVE IngestInv'
<1> USE DEF IngestInv
<1>1. stack # <<>> /\ Top.step = "members" /\ file \in Top.todo  BY DEF TakeMember
<1>2. Top \in Frames /\ Fits(Top, job, waiting, gathered, documents) /\ Len(stack) \in Nat /\ Len(stack) >= 1
  BY <1>1, TopFits
<1>3. UNCHANGED <<documents, fetched, seen, budget, jobs, fetches>>  BY DEF TakeMember
<1>4. fetched \subseteq Files  BY DEF DownloadInv
<1>5. CASE Upset /\ Thrown /\ UNCHANGED blobs
  <2>1. /\ StackInv' /\ CaseInv' /\ DOMAIN progress' = DOMAIN progress /\ Len(stack') \in Nat
        /\ \/ job' = "none" /\ stack' = <<>> /\ waiting' = {}
           \/ /\ UNCHANGED <<job, waiting>> /\ Len(stack') < Len(stack)
              /\ \A i \in 1..Len(stack') : stack'[i].step = stack[i].step
    BY <1>1, <1>3, <1>5, ThrownKeeps
  <2>2. \A i \in 1..Len(stack') : stack'[i].step # "download"
    <3>1. CASE stack' = <<>>
      <4>1. Len(<<>>) = 0  OBVIOUS
      <4> QED  BY <3>1, <4>1
    <3>2. CASE /\ Len(stack') < Len(stack)
               /\ \A i \in 1..Len(stack') : stack'[i].step = stack[i].step
      <4>1. \A i \in 1..Len(stack') : i \in 1..Len(stack) /\ i # Len(stack)  BY <1>2, <2>1, <3>2
      <4> QED  BY <1>1, <3>2, <4>1, TopKnows
    <3> QED  BY <2>1, <3>1, <3>2
  <2>3. waiting' \subseteq waiting /\ job' \in {job, "none"}  BY <2>1
  <2>4. DownloadInv'  BY <1>3, <1>4, <2>2, <2>3, DownloadsStay
  <2>5. LinkInv'  BY <1>3, <2>1, <2>3, LinksAsBefore
  <2>6. RestInv'  BY <1>3, <1>5, <2>1, <2>3, UpsetCounts DEF RestInv
  <2> QED  BY <2>1, <2>4, <2>5, <2>6
<1>6. CASE /\ blobs' = blobs \union {file}
           /\ stack' = Append(OnTop([Top EXCEPT !.todo = @ \ {file}]),
                              Frame(MemberKey(Top.key, file), file, "member", Top.depth + 1, Top.linkDepth, "index"))
           /\ UNCHANGED <<upsets, job, waiting, gathered, progress>>
  <2> DEFINE f == [Top EXCEPT !.todo = Top.todo \ {file}]
             g == Frame(MemberKey(Top.key, file), file, "member", Top.depth + 1, Top.linkDepth, "index")
  <2>1. stack' = Append(OnTop(f), g)  BY <1>6
  <2>2. /\ Fits(f, job, waiting, gathered, documents) /\ f.key = Top.key /\ f.kind = Top.kind
        /\ f.step = "members"
    BY <1>1, <1>2, LessToDo
  <2>3. /\ MemberKey(Top.key, file) \in Keys /\ MemberKey(Top.key, file)[1] = Top.key[1]
        /\ Len(MemberKey(Top.key, file)) = 2
    BY <1>1, TopKnows, NewKeys
  <2>4. Top.depth + 1 \in 0..UnpackDepth /\ Top.linkDepth \in 0..LinkDepth /\ Top.linkDepth \in Nat
    BY <1>1, <1>2, TopKnows, IngestConstants DEF Fits
  <2>5. /\ g \in Frames /\ g.key = MemberKey(Top.key, file) /\ g.kind = "member"
        /\ g.linkDepth = Top.linkDepth /\ g.step = "index" /\ g.todo = {} /\ DOMAIN g.out = {}
    BY <2>3, <2>4, NewFrame
  <2> HIDE DEF f, g
  <2>6. Fits(g, job, waiting, gathered, documents)
    <3>1. RootOf(g.key) = RootOf(Top.key) /\ g.key[1] = Top.key[1]  BY <2>3, <2>5 DEF RootOf
    <3>2. Len(g.key) <= g.linkDepth + 2
      <4>1. \A n \in Nat : 2 <= n + 2  OBVIOUS
      <4>2. Len(g.key) = 2 /\ g.linkDepth \in Nat  BY <2>3, <2>4, <2>5
      <4> QED  BY <4>1, <4>2
    <3> QED  BY <1>2, <2>5, <3>1, <3>2 DEF Fits
  <2>7. /\ StackInv' /\ Len(stack') = Len(stack) + 1
        /\ stack'[Len(stack)] = f /\ stack'[Len(stack) + 1] = g
        /\ \A i \in 1..Len(stack) : i # Len(stack) => stack'[i] = stack[i]
    BY <1>1, <1>3, <1>6, <2>1, <2>2, <2>3, <2>5, <2>6, TopCalls
  <2>9. CaseInv'  BY <1>3, <1>6, CaseStays
  <2>10. \A i \in 1..Len(stack') : stack'[i].step # "download"
    <3>1. \A i \in 1..Len(stack') : i = Len(stack) + 1 \/ i = Len(stack) \/ (i \in 1..Len(stack) /\ i # Len(stack))
      BY <1>2, <2>7
    <3> QED  BY <1>1, <2>2, <2>5, <2>7, <3>1, TopKnows
  <2>11. DownloadInv'  BY <1>3, <1>4, <1>6, <2>10, DownloadsStay
  <2>12. LinkInv'  BY <1>3, <1>6, LinksAsBefore
  <2>13. RestInv'  BY <1>3, <1>6 DEF RestInv
  <2> QED  BY <2>7, <2>9, <2>11, <2>12, <2>13
<1> QED  BY <1>5, <1>6 DEF TakeMember

LEMMA FollowKeeps == ASSUME IngestInv, NEW file \in Files, Follow(file) PROVE IngestInv'
<1> USE DEF IngestInv
<1>1. stack # <<>> /\ Top.step = "links" /\ file \in Top.todo  BY DEF Follow
<1>2. Top \in Frames /\ Fits(Top, job, waiting, gathered, documents) /\ Len(stack) \in Nat /\ Len(stack) >= 1
  BY <1>1, TopFits
<1>3. job = "ingest" /\ Top.linkDepth < LinkDepth  BY <1>1, <1>2 DEF Fits
<1>4. UNCHANGED <<documents, blobs, job, waiting, gathered, upsets, jobs, fetches>>  BY DEF Follow
<1>5. seen \subseteq Keys /\ blobs \subseteq Files /\ fetched \subseteq Files  BY DEF RestInv, DownloadInv
<1> DEFINE key == LinkKey(Top.key, file)
<1>6. /\ key \in Keys /\ key[1] = Top.key[1] /\ Len(key) = Len(Top.key) + 1
  <2>1. Top.key \in Keys /\ Top.linkDepth \in 0..LinkDepth  BY <1>1, TopKnows
  <2>2. Len(Top.key) <= Top.linkDepth + 2 /\ Len(Top.key) \in Nat  BY <1>2, <1>3, <2>1, KeyParts DEF Fits
  <2>3. Len(Top.key) <= LinkDepth + 1  BY <1>3, <2>1, <2>2, IngestConstants
  <2> QED  BY <2>1, <2>3, NewKeys
<1>7. NewPart(key)
  <2>1. IsLinkedKey(key)  BY <1>1, TopKnows, NewKeys
  <2>2. key # RootOf(key)  BY <1>6, <2>1, KeyOrPart
  <2>3. RootOf(key) \notin Hashed(documents)  BY <1>2, <1>3, <1>6 DEF Fits, RootOf
  <2> QED  BY <2>1, <2>2, <2>3 DEF NewPart
<1> HIDE DEF key
<1>8. CASE file \in fetched
  <2> DEFINE f == [Top EXCEPT !.todo = Top.todo \ {file}]
  <2>1. stack' = OnTop(f) /\ UNCHANGED <<fetched, seen, budget, progress>>  BY <1>8 DEF Follow
  <2>2. /\ Fits(f, job, waiting, gathered, documents) /\ f.key = Top.key /\ f.kind = Top.kind
        /\ f.step = "links"
    BY <1>1, <1>2, LessToDo
  <2> HIDE DEF f
  <2> QED  BY <1>1, <1>4, <1>5, <2>1, <2>2, TopMovesOn
<1>9. CASE file \notin fetched /\ budget = 0
  <2> DEFINE f == [Top EXCEPT !.todo = {}]
  <2>1. /\ stack' = OnTop(f) /\ UNCHANGED <<budget, progress>>
        /\ fetched' = fetched \union {file} /\ seen' = seen \union {key}
    BY <1>9 DEF Follow, key
  <2>2. /\ Fits(f, job, waiting, gathered, documents) /\ f.key = Top.key /\ f.kind = Top.kind
        /\ f.step = "links"
    BY <1>1, <1>2, LessToDo
  <2> HIDE DEF f
  <2>3. seen' \subseteq Keys /\ fetched' \subseteq Files /\ fetched \subseteq fetched'  BY <1>5, <1>6, <2>1
  <2>4. \A k \in seen' : k \in seen \/ NewPart(k)  BY <1>7, <2>1
  <2> QED  BY <1>1, <1>4, <1>5, <2>1, <2>2, <2>3, <2>4, TopMovesOn
<1>10. CASE file \notin fetched /\ budget # 0
  <2> DEFINE f == [Top EXCEPT !.todo = Top.todo \ {file}]
             g == Frame(key, file, "link", 0, Top.linkDepth + 1, "download")
  <2>1. /\ stack' = Append(OnTop(f), g) /\ budget' = budget - 1
        /\ progress' = With(progress, key, "downloading")
        /\ fetched' = fetched \union {file} /\ seen' = seen \union {key}
    BY <1>10 DEF Follow, key
  <2>2. /\ Fits(f, job, waiting, gathered, documents) /\ f.key = Top.key /\ f.kind = Top.kind
        /\ f.step = "links"
    BY <1>1, <1>2, LessToDo
  <2>3. Top.linkDepth + 1 \in 0..LinkDepth /\ 0 \in 0..UnpackDepth /\ Top.linkDepth \in Nat
    BY <1>1, <1>3, TopKnows, IngestConstants
  <2>4. /\ g \in Frames /\ g.key = key /\ g.kind = "link" /\ g.file = file /\ g.linkDepth = Top.linkDepth + 1
        /\ g.step = "download" /\ g.todo = {} /\ DOMAIN g.out = {}
    BY <1>6, <2>3, NewFrame
  <2> HIDE DEF f, g
  <2>5. Fits(g, job, waiting, gathered, documents)
    <3>1. RootOf(g.key) = RootOf(Top.key) /\ g.key[1] = Top.key[1]  BY <1>6, <2>4 DEF RootOf
    <3>2. Len(g.key) <= g.linkDepth + 2
      <4>1. Len(Top.key) \in Nat /\ Len(Top.key) <= Top.linkDepth + 2
        BY <1>1, <1>2, <1>3, TopKnows, KeyParts DEF Fits
      <4>2. Len(g.key) = Len(Top.key) + 1  BY <1>6, <2>4
      <4> QED  BY <2>3, <2>4, <4>1, <4>2
    <3> QED  BY <1>2, <1>3, <2>4, <3>1, <3>2 DEF Fits
  <2>6. /\ StackInv' /\ Len(stack') = Len(stack) + 1
        /\ stack'[Len(stack)] = f /\ stack'[Len(stack) + 1] = g
        /\ \A i \in 1..Len(stack) : i # Len(stack) => stack'[i] = stack[i]
    <3>1. g.key[1] = Top.key[1]  BY <1>6, <2>4
    <3> QED  BY <1>1, <1>4, <2>1, <2>2, <2>5, <3>1, TopCalls
  <2>7. CaseInv'
    <3>1. \A k \in seen' : k \in seen \/ NewPart(k)  BY <1>7, <2>1
    <3> QED  BY <1>4, <3>1, CaseStays
  <2>8. DownloadInv'
    <3>1. \A i \in 1..Len(stack') : stack'[i].step = "download" => i = Len(stack) + 1
      <4>1. \A i \in 1..Len(stack') : i = Len(stack) + 1 \/ i = Len(stack) \/ (i \in 1..Len(stack) /\ i # Len(stack))
        BY <1>2, <2>6
      <4> QED  BY <1>1, <2>2, <2>6, <4>1, TopKnows
    <3>2. fetches[file] = 0  BY <1>10 DEF DownloadInv
    <3>3. ListedKey(file) \notin waiting
      <4>1. ListedKey(file)[1] = file  BY DEF ListedKey
      <4> QED  BY <1>3, <1>10, <4>1 DEF DownloadInv
    <3>4. file \in fetched' /\ fetched' \subseteq Files  BY <1>5, <2>1
    <3> QED  BY <1>3, <1>4, <2>1, <2>4, <2>6, <3>1, <3>2, <3>3, <3>4 DEF DownloadInv
  <2>9. DOMAIN progress' = DOMAIN progress \union {key}  BY <2>1 DEF With
  <2>10. LinkInv'
    <3>1. LinksShown' \subseteq LinksShown \union {key}  BY <2>9 DEF LinksShown
    <3>2. IsFiniteSet(LinksShown) /\ Cardinality(LinksShown) + budget <= LinkBudget /\ budget \in 0..LinkBudget
      BY <1>3 DEF LinkInv
    <3>3. /\ IsFiniteSet(LinksShown \union {key}) /\ Cardinality(LinksShown) \in Nat
          /\ Cardinality(LinksShown \union {key}) <= Cardinality(LinksShown) + 1
      <4>1. Cardinality(LinksShown) \in Nat  BY <3>2, FS_CardinalityType
      <4>2. /\ IsFiniteSet(LinksShown \union {key})
            /\ Cardinality(LinksShown \union {key}) =
                  IF key \in LinksShown THEN Cardinality(LinksShown) ELSE Cardinality(LinksShown) + 1
        BY <3>2, FS_AddElement
      <4> QED  BY <4>1, <4>2
    <3>4. IsFiniteSet(LinksShown') /\ Cardinality(LinksShown') <= Cardinality(LinksShown \union {key})
      BY <3>1, <3>3, FS_Subset
    <3>5. Cardinality(LinksShown') \in Nat /\ Cardinality(LinksShown \union {key}) \in Nat
      BY <3>3, <3>4, FS_CardinalityType
    <3>6. budget' \in 0..LinkBudget  BY <1>10, <2>1, <3>2, IngestConstants
    <3>7. Cardinality(LinksShown') + budget' <= LinkBudget
      BY <2>1, <3>2, <3>3, <3>4, <3>5, IngestConstants
    <3> QED  BY <3>4, <3>6, <3>7 DEF LinkInv
  <2>11. RestInv'  BY <1>4, <1>6, <2>1, <2>9 DEF RestInv
  <2> QED  BY <2>6, <2>7, <2>8, <2>10, <2>11
<1> QED  BY <1>8, <1>9, <1>10
\* The documents a frame returns when it is done, or when its download failed.
LEMMA ReturnKeeps == ASSUME IngestInv, Return PROVE IngestInv'
<1> USE DEF IngestInv
<1> DEFINE docs == With(Top.out, Top.key, "hashed")
<1>1. /\ stack # <<>> /\ Top.step \in {"members", "links"} /\ Returned(docs)
      /\ UNCHANGED <<documents, blobs, job, waiting, fetched, seen, budget, upsets, jobs, fetches>>
  BY DEF Return
<1>2. Top \in Frames /\ Fits(Top, job, waiting, gathered, documents) /\ Len(stack) \in Nat /\ Len(stack) >= 1
  BY <1>1, TopFits
<1>3. docs \in Docs /\ DOMAIN docs = DOMAIN Top.out \union {Top.key}
  <2>1. Top.out \in Docs /\ Top.key \in Keys  BY <1>1, TopKnows
  <2>2. \A more \in Docs, key \in Keys : /\ With(more, key, "hashed") \in Docs
                                          /\ DOMAIN With(more, key, "hashed") = DOMAIN more \union {key}
    BY DocsWith
  <2> QED  BY <2>1, <2>2
<1> HIDE DEF docs
<1>4. Returns(docs)  BY <1>2, <1>3 DEF Returns, Fits
<1>5. /\ StackInv' /\ CaseInv' /\ Len(stack') = Len(stack) - 1
      /\ \A i \in 1..Len(stack') : stack'[i].step = stack[i].step
  BY <1>1, <1>4, ReturnedKeeps
<1>6. DOMAIN progress' = DOMAIN progress  BY ShownThere DEF Return
<1>7. DownloadInv'
  <2>1. \A i \in 1..Len(stack') : i \in 1..Len(stack) /\ i # Len(stack)  BY <1>2, <1>5
  <2>2. \A i \in 1..Len(stack') : stack'[i].step # "download"  BY <1>1, <1>5, <2>1, TopKnows
  <2>3. fetched \subseteq Files  BY DEF DownloadInv
  <2> QED  BY <1>1, <2>2, <2>3, DownloadsStay
<1>8. LinkInv'  BY <1>1, <1>6, LinksAsBefore
<1>9. RestInv'  BY <1>1, <1>6 DEF RestInv
<1> QED  BY <1>5, <1>7, <1>8, <1>9

\* A file is downloaded for the first time in the job.
LEMMA DownloadKeeps == ASSUME IngestInv, Download PROVE IngestInv'
<1> USE DEF IngestInv
<1>1. /\ stack # <<>> /\ Top.step = "download"
      /\ fetches' = [fetches EXCEPT ![Top.file] = fetches[Top.file] + 1]
      /\ UNCHANGED <<documents, job, waiting, fetched, seen, budget, jobs>>
  BY DEF Download
<1>2. Top \in Frames /\ Fits(Top, job, waiting, gathered, documents) /\ Len(stack) \in Nat /\ Len(stack) >= 1
  BY <1>1, TopFits
<1>3. job = "ingest" /\ Top.file \in Files /\ Top.key \in Keys  BY <1>1, <1>2, TopKnows DEF Fits
<1>4. /\ Top.file \in fetched /\ fetches[Top.file] = 0 /\ ListedKey(Top.file) \notin waiting
  BY <1>1, <1>2 DEF DownloadInv, Top
<1>5. ASSUME \A i \in 1..Len(stack') : stack'[i].step # "download" PROVE DownloadInv'
  <2>1. fetches' \in [Files -> Nat] /\ \A f \in Files : fetches'[f] = IF f = Top.file THEN 1 ELSE fetches[f]
    BY <1>1, <1>3, <1>4 DEF DownloadInv
  <2>2. \A key \in waiting : key[1] # Top.file
    BY <1>3, <1>4 DEF CaseInv, ListedKey
  <2>3. \A f \in Files : fetches'[f] <= 1 /\ (fetches'[f] > 0 => f \in fetched)
    BY <1>4, <2>1 DEF DownloadInv
  <2>4. \A key \in waiting : key[1] \in fetched /\ fetches'[key[1]] = 0
    <3>1. \A key \in waiting : key[1] \in Files  BY <1>3, IngestConstants DEF CaseInv, ListedKey
    <3> QED  BY <1>3, <2>1, <2>2, <3>1 DEF DownloadInv
  <2> QED  BY <1>1, <1>3, <1>5, <2>1, <2>3, <2>4 DEF DownloadInv
<1>6. DOMAIN progress' = DOMAIN progress  BY ShownThere DEF Download
<1>7. LinkInv'  BY <1>1, <1>6, LinksAsBefore
<1>8. CASE /\ blobs' = blobs \union {Top.file} /\ stack' = OnTop([Top EXCEPT !.step = "index"])
           /\ UNCHANGED <<gathered, upsets>>
  <2> DEFINE f == [Top EXCEPT !.step = "index"]
  <2>1. /\ f \in Frames /\ f.key = Top.key /\ f.kind = Top.kind /\ f.depth = Top.depth
        /\ f.linkDepth = Top.linkDepth /\ f.step = "index" /\ f.out = Top.out
    BY <1>2 DEF Frames
  <2>2. stack' = OnTop(f)  BY <1>8
  <2> HIDE DEF f
  <2>3. Fits(f, job, waiting, gathered, documents)  BY <1>2, <2>1 DEF Fits
  <2>4. /\ StackInv' /\ Len(stack') = Len(stack) /\ stack'[Len(stack)] = f
        /\ \A i \in 1..Len(stack) : i # Len(stack) => stack'[i] = stack[i]
    BY <1>1, <1>8, <2>1, <2>2, <2>3, TopReplaced
  <2>5. CaseInv'  BY <1>1, <1>8, CaseStays
  <2>6. \A i \in 1..Len(stack') : stack'[i].step # "download"  BY <1>1, <2>1, <2>4, TopKnows
  <2>7. RestInv'  BY <1>1, <1>3, <1>6, <1>8 DEF RestInv
  <2> QED  BY <1>5, <1>7, <2>4, <2>5, <2>6, <2>7
<1>9. CASE Upset /\ Returned(With(NoDocuments, Top.key, "failed")) /\ UNCHANGED blobs
  <2> DEFINE docs == With(NoDocuments, Top.key, "failed")
  <2>1. docs \in Docs /\ DOMAIN docs = {Top.key}
    <3>1. DOMAIN docs = {Top.key}  BY NoDocs DEF With
    <3>2. docs \in Docs  BY <1>3, NoDocs, DocsWith
    <3> QED  BY <3>1, <3>2
  <2>2. Returned(docs)  BY <1>9
  <2> HIDE DEF docs
  <2>3. Returns(docs)  BY <2>1 DEF Returns
  <2>4. /\ StackInv' /\ CaseInv' /\ Len(stack') = Len(stack) - 1
        /\ \A i \in 1..Len(stack') : stack'[i].step = stack[i].step
    BY <1>1, <2>2, <2>3, ReturnedKeeps
  <2>5. \A i \in 1..Len(stack') : i \in 1..Len(stack) /\ i # Len(stack)  BY <1>2, <2>4
  <2>6. \A i \in 1..Len(stack') : stack'[i].step # "download"  BY <1>1, <2>4, <2>5, TopKnows
  <2>7. RestInv'  BY <1>1, <1>6, <1>9, UpsetCounts DEF RestInv
  <2> QED  BY <1>5, <1>7, <2>4, <2>6, <2>7
<1> QED  BY <1>8, <1>9 DEF Download
\* A job starts, and takes its files one after the other.
LEMMA IngestKeeps == ASSUME IngestInv, Ingest PROVE IngestInv'
<1> USE DEF IngestInv
<1>1. PICK listing \in SUBSET Listed : fetched' = listing /\ waiting' = {ListedKey(f) : f \in listing}
  BY DEF Ingest
<1>2. /\ job' = "ingest" /\ stack' = <<>> /\ gathered' = NoDocuments
      /\ seen' = {} /\ budget' = LinkBudget /\ progress' = [k \in waiting' |-> "pending"]
      /\ fetches' = [f \in Files |-> 0] /\ jobs < Jobs /\ jobs' = jobs + 1
      /\ UNCHANGED <<documents, blobs, upsets>>
  BY DEF Ingest
<1>3. StackInv'
  <2>1. <<>> \in Seq(Frames) /\ Len(<<>>) = 0  OBVIOUS
  <2> QED  BY <1>2, <2>1 DEF StackInv
<1>4. ASSUME NEW f \in listing PROVE ListedKey(f) \in Keys /\ ~IsLinkedKey(ListedKey(f))
  <2>1. f \in Listed  OBVIOUS
  <2> QED  BY <2>1, RootKeys DEF ListedKey
<1>5. CaseInv'
  <2>1. DOMAIN gathered' = {} /\ gathered' \in Docs  BY <1>2, NoDocs
  <2> QED  BY <1>1, <1>2, <2>1 DEF CaseInv
<1>6. DownloadInv'
  <2>1. \A key \in waiting' : key[1] \in listing /\ key[1] \in Files
    BY <1>1, IngestConstants DEF ListedKey
  <2>2. Len(<<>>) = 0 /\ 1..0 = {}  OBVIOUS
  <2> QED  BY <1>1, <1>2, <2>1, <2>2, IngestConstants DEF DownloadInv
<1>7. LinkInv'
  <2>1. LinksShown' = {}  BY <1>1, <1>2, <1>4 DEF LinksShown
  <2> QED  BY <1>2, <2>1, FS_EmptySet, IngestConstants DEF LinkInv
<1>8. RestInv'  BY <1>1, <1>2, <1>4, IngestConstants DEF RestInv
<1> QED  BY <1>3, <1>5, <1>6, <1>7, <1>8

LEMMA ReindexKeeps == ASSUME IngestInv, Reindex PROVE IngestInv'
<1> USE DEF IngestInv
<1>1. /\ job' = "reindex" /\ waiting' = ReindexRoots /\ stack' = <<>> /\ gathered' = NoDocuments
      /\ fetched' = Files /\ seen' = {} /\ budget' = 0 /\ progress' = [k \in ReindexRoots |-> "pending"]
      /\ fetches' = [f \in Files |-> 0] /\ jobs < Jobs /\ jobs' = jobs + 1
      /\ UNCHANGED <<documents, blobs, upsets>>
  BY DEF Reindex
<1>2. <<>> \in Seq(Frames) /\ Len(<<>>) = 0  OBVIOUS
<1>3. StackInv'  BY <1>1, <1>2 DEF StackInv
<1>4. ReindexRoots \subseteq Keys  BY DEF ReindexRoots, CaseInv, Docs
<1>5. CaseInv'  BY <1>1, NoDocs DEF CaseInv
<1>6. DownloadInv'  BY <1>1, <1>2 DEF DownloadInv
<1>7. LinkInv'  BY <1>1, IngestConstants DEF LinkInv
<1>8. RestInv'  BY <1>1, <1>4, IngestConstants DEF RestInv
<1> QED  BY <1>3, <1>5, <1>6, <1>7, <1>8

\* A stack of one frame, at the start of a file.
LEMMA FirstFrame ==
    ASSUME stack = <<>>, job \in {"ingest", "reindex"}, NEW g, Fits(g, job, waiting', gathered, documents),
           g.kind # "link", stack' = <<g>>,
           UNCHANGED <<job, gathered, documents>>
    PROVE  StackInv' /\ Len(stack') = 1 /\ stack'[1] = g /\ stack' # <<>>
<1>1. g \in Frames  BY DEF Fits
<1>2. stack' \in Seq(Frames) /\ Len(stack') = 1 /\ stack'[1] = g  BY <1>1
<1>3. \A i \in 1..Len(stack') : i = 1  BY <1>2
<1> QED  BY <1>2, <1>3 DEF StackInv

LEMMA TakeListedKeeps == ASSUME IngestInv, NEW key \in waiting, TakeListed(key) PROVE IngestInv'
<1> USE DEF IngestInv
<1>1. /\ job = "ingest" /\ stack = <<>> /\ waiting' = waiting \ {key} /\ seen' = seen \union {key}
      /\ UNCHANGED <<documents, blobs, job, fetched, budget, upsets, jobs, fetches>>
  BY DEF TakeListed
<1>2. PICK f \in Listed : key = ListedKey(f)  BY <1>1 DEF CaseInv
<1>3. key \in Keys /\ f \in Files /\ key[1] = f /\ key = RootOf(key)
  BY <1>2, RootKeys, IngestConstants DEF ListedKey, RootOf
<1>4. DOMAIN progress' = DOMAIN progress  BY ShownThere DEF TakeListed
<1>5. RestInv'  BY <1>1, <1>3, <1>4 DEF RestInv
<1>6. LinkInv'  BY <1>1, <1>4, LinksAsBefore
<1>7. UNCHANGED Hashed(documents)  BY <1>1 DEF Hashed
<1>8. CASE key \in DOMAIN documents /\ documents[key] = "hashed"
  <2>1. gathered' = With(gathered, key, "hashed") /\ UNCHANGED stack  BY <1>8 DEF TakeListed
  <2>2. /\ gathered' \in Docs /\ DOMAIN gathered' = DOMAIN gathered \union {key}
        /\ \A k \in DOMAIN gathered' : gathered'[k] = IF k = key THEN "hashed" ELSE gathered[k]
    <3>1. \A docs \in Docs, kk \in Keys :
             /\ With(docs, kk, "hashed") \in Docs
             /\ DOMAIN With(docs, kk, "hashed") = DOMAIN docs \union {kk}
             /\ \A k \in DOMAIN docs \union {kk} : With(docs, kk, "hashed")[k] = IF k = kk THEN "hashed" ELSE docs[k]
      BY DocsWith
    <3>2. gathered \in Docs  BY DEF CaseInv
    <3>3. /\ With(gathered, key, "hashed") \in Docs
          /\ DOMAIN With(gathered, key, "hashed") = DOMAIN gathered \union {key}
          /\ \A k \in DOMAIN gathered \union {key} :
                With(gathered, key, "hashed")[k] = IF k = key THEN "hashed" ELSE gathered[k]
      BY <1>3, <3>1, <3>2
    <3> QED  BY <2>1, <3>3
  <2>3. StackInv'  BY <1>1, <2>1 DEF StackInv
  <2>4. Hashed(gathered') = Hashed(gathered) \union {key}  BY <2>2 DEF Hashed
  <2>5. CaseInv'  BY <1>1, <1>3, <1>7, <2>2, <2>4 DEF CaseInv
  <2>6. DownloadInv'
    <3>1. Len(<<>>) = 0 /\ 1..0 = {}  OBVIOUS
    <3> QED  BY <1>1, <2>1, <3>1 DEF DownloadInv
  <2> QED  BY <1>5, <1>6, <2>3, <2>5, <2>6
<1>9. CASE ~(key \in DOMAIN documents /\ documents[key] = "hashed")
  <2> DEFINE g == Frame(key, key[1], "listed", 0, 0, "download")
  <2>1. stack' = <<g>> /\ UNCHANGED gathered  BY <1>9 DEF TakeListed
  <2>2. 0 \in 0..UnpackDepth /\ 0 \in 0..LinkDepth  BY IngestConstants
  <2>3. /\ g \in Frames /\ g.key = key /\ g.file = f /\ g.kind = "listed" /\ g.linkDepth = 0
        /\ g.step = "download" /\ g.todo = {} /\ DOMAIN g.out = {}
    BY <1>3, <2>2, NewFrame
  <2> HIDE DEF g
  <2>4. Len(key) = 1  BY <1>2 DEF ListedKey
  <2>5. key \notin Hashed(documents)  BY <1>9 DEF Hashed
  <2>6. \A k \in DOMAIN gathered : k[1] # f
    BY <1>1, <1>2 DEF CaseInv, RootOf, ListedKey
  <2>7. Fits(g, job, waiting', gathered, documents)
    <3>1. Len(g.key) <= g.linkDepth + 2  BY <2>3, <2>4
    <3>2. RootOf(g.key) = key /\ g.key[1] = f  BY <1>3, <2>3
    <3> QED  BY <1>1, <2>3, <2>5, <2>6, <3>1, <3>2 DEF Fits
  <2>8. StackInv' /\ Len(stack') = 1 /\ stack'[1] = g /\ stack' # <<>>
    BY <1>1, <1>3, <2>1, <2>3, <2>7, FirstFrame
  <2>9. CaseInv'
    <3>1. UNCHANGED Hashed(gathered)  BY <2>1 DEF Hashed
    <3> QED  BY <1>1, <1>3, <1>7, <2>1, <2>5, <3>1 DEF CaseInv
  <2>10. DownloadInv'
    <3>1. \A i \in 1..Len(stack') : i = 1  BY <2>8
    <3>2. fetches[f] = 0 /\ f \in fetched  BY <1>1, <1>2, <1>3 DEF DownloadInv
    <3>3. ListedKey(f) \notin waiting'  BY <1>1, <1>2
    <3> QED  BY <1>1, <2>3, <2>8, <3>1, <3>2, <3>3 DEF DownloadInv
  <2> QED  BY <1>5, <1>6, <2>8, <2>9, <2>10
<1> QED  BY <1>8, <1>9

LEMMA TakeStoredKeeps == ASSUME IngestInv, NEW key \in waiting, TakeStored(key) PROVE IngestInv'
<1> USE DEF IngestInv
<1>1. /\ job = "reindex" /\ stack = <<>> /\ waiting' = waiting \ {key}
      /\ UNCHANGED <<documents, blobs, job, fetched, seen, budget, jobs, fetches>>
  BY DEF TakeStored
<1>2. key \in Keys  BY DEF RestInv
<1>3. FileOf(key) \in Files  BY <1>2, OldKeys
<1>4. DOMAIN progress' = DOMAIN progress  BY ShownThere DEF TakeStored
<1>5. upsets' \in 0..Upsets  BY UpsetCounts DEF TakeStored, RestInv
<1>6. RestInv'  BY <1>1, <1>4, <1>5 DEF RestInv
<1>7. LinkInv'  BY <1>1, <1>4, LinksAsBefore
<1>9. CASE stack' = <<Frame(key, FileOf(key), "stored", 0, 0, "index")>> /\ UNCHANGED gathered
  <2> DEFINE g == Frame(key, FileOf(key), "stored", 0, 0, "index")
  <2>1. 0 \in 0..UnpackDepth /\ 0 \in 0..LinkDepth  BY IngestConstants
  <2>2. /\ g \in Frames /\ g.key = key /\ g.kind = "stored" /\ g.step = "index" /\ g.todo = {} /\ DOMAIN g.out = {}
    BY <1>2, <1>3, <2>1, NewFrame
  <2>3. stack' = <<g>>  BY <1>9
  <2> HIDE DEF g
  <2>4. Fits(g, job, waiting', gathered, documents)  BY <1>1, <1>3, <2>2 DEF Fits
  <2>5. StackInv' /\ Len(stack') = 1 /\ stack'[1] = g /\ stack' # <<>>
    BY <1>1, <1>9, <2>2, <2>3, <2>4, FirstFrame
  <2>6. CaseInv'  BY <1>1, <1>9 DEF CaseInv
  <2>7. DownloadInv'
    <3>1. \A i \in 1..Len(stack') : i = 1  BY <2>5
    <3> QED  BY <1>1, <2>2, <2>5, <3>1 DEF DownloadInv
  <2> QED  BY <1>6, <1>7, <2>5, <2>6, <2>7
<1>10. CASE gathered' = With(gathered, key, "hashed") /\ UNCHANGED stack
  <2>1. gathered' \in Docs  BY <1>2, <1>10, DocsWith DEF CaseInv
  <2>2. StackInv'  BY <1>1, <1>10 DEF StackInv
  <2>3. CaseInv'  BY <1>1, <2>1 DEF CaseInv
  <2>4. DownloadInv'
    <3>1. Len(<<>>) = 0 /\ 1..0 = {}  OBVIOUS
    <3> QED  BY <1>1, <1>10, <3>1 DEF DownloadInv
  <2> QED  BY <1>6, <1>7, <2>2, <2>3, <2>4
<1> QED  BY <1>9, <1>10 DEF TakeStored

LEMMA JobDiesKeeps == ASSUME IngestInv, JobDies PROVE IngestInv'
<1> USE DEF IngestInv
<1>1. /\ job' = "none" /\ stack' = <<>> /\ waiting' = {} /\ Upset
      /\ UNCHANGED <<documents, blobs, gathered, fetched, seen, budget, progress, jobs, fetches>>
  BY DEF JobDies
<1>2. <<>> \in Seq(Frames) /\ Len(<<>>) = 0 /\ 1..0 = {}  OBVIOUS
<1>3. StackInv'  BY <1>1, <1>2 DEF StackInv
<1>4. CaseInv'  BY <1>1 DEF CaseInv
<1>5. DownloadInv'  BY <1>1, <1>2 DEF DownloadInv
<1>6. LinkInv'  BY <1>1 DEF LinkInv
<1>7. RestInv'  BY <1>1, UpsetCounts DEF RestInv
<1> QED  BY <1>3, <1>4, <1>5, <1>6, <1>7
\* What the case had read is in what a finished ingest leaves, but for what it may
\* take: a file that is not in seen was not listed, and a part that is in seen is a
\* link met in a file the case did not hold as read.
LEMMA IngestFinishes ==
    ASSUME IngestInv, FinishJob, job = "ingest"
    PROVE  documents' \in Docs /\ \A k \in Hashed(documents) : MayGo(k) \/ k \in Hashed(documents')
<1> USE DEF IngestInv
<1> DEFINE earlier == [k \in Earlier |-> documents[k]]
<1>1. documents' = Both(gathered, earlier)  BY DEF FinishJob, Finished
<1>2. documents \in Docs /\ gathered \in Docs  BY DEF CaseInv
<1>3. earlier \in Docs /\ DOMAIN earlier = Earlier /\ \A k \in Earlier : earlier[k] = documents[k]
  <2>1. PICK D \in SUBSET Keys : documents \in [D -> {"hashed", "failed"}]  BY <1>2 DEF Docs
  <2>2. Earlier \subseteq D  BY <2>1 DEF Earlier
  <2>3. earlier \in [Earlier -> {"hashed", "failed"}] /\ Earlier \in SUBSET Keys  BY <2>1, <2>2
  <2> QED  BY <2>3 DEF Docs
<1> HIDE DEF earlier
<1>4. /\ documents' \in Docs /\ DOMAIN documents' = DOMAIN gathered \union Earlier
      /\ \A k \in DOMAIN documents' : documents'[k] = IF k \in Earlier THEN documents[k] ELSE gathered[k]
  <2>1. /\ Both(gathered, earlier) \in Docs /\ DOMAIN Both(gathered, earlier) = DOMAIN gathered \union DOMAIN earlier
        /\ \A k \in DOMAIN Both(gathered, earlier) :
              Both(gathered, earlier)[k] = IF k \in DOMAIN earlier THEN earlier[k] ELSE gathered[k]
    BY <1>2, <1>3, DocsBoth
  <2> QED  BY <1>1, <1>3, <2>1
<1>5. ASSUME NEW k \in Hashed(documents), ~MayGo(k) PROVE k \in Hashed(documents')
  <2>1. k \in DOMAIN documents /\ documents[k] = "hashed" /\ k \in Keys  BY <1>2 DEF Hashed, Docs
  <2>2. CASE k = RootOf(k)
    <3>1. Len(k) = 1  BY <2>2 DEF RootOf
    <3>2. k \in Hashed(gathered)  BY <1>5, <2>2, <3>1 DEF MayGo, CaseInv
    <3>3. k \notin Earlier  BY <2>1, <2>2, KeyOrPart DEF Earlier
    <3> QED  BY <1>4, <3>2, <3>3 DEF Hashed
  <2>3. CASE k # RootOf(k)
    <3>1. Len(k) # 1 /\ Root(k) = RootOf(k)
      <4>1. Len(k) = 1 => k = RootOf(k)  BY <2>1, OldKeys DEF RootOf
      <4> QED  BY <2>3, <4>1 DEF Root, ListedKey, RootOf
    <3>2. k \notin seen  BY <1>5, <2>3, <3>1 DEF MayGo, CaseInv
    <3>3. k \in Earlier  BY <2>1, <2>3, <3>2, KeyOrPart DEF Earlier
    <3> QED  BY <1>4, <2>1, <3>3 DEF Hashed
  <2> QED  BY <2>2, <2>3
<1> QED  BY <1>4, <1>5

LEMMA FinishJobKeeps == ASSUME IngestInv, FinishJob PROVE IngestInv'
<1> USE DEF IngestInv
<1>1. /\ job # "none" /\ job' = "none" /\ waiting = {} /\ stack = <<>>
      /\ UNCHANGED <<blobs, waiting, stack, gathered, fetched, seen, budget, progress, upsets, jobs, fetches>>
  BY DEF FinishJob
<1>3. documents' \in Docs
  <2>1. CASE job = "ingest"  BY <2>1, IngestFinishes
  <2>2. CASE job # "ingest"  BY <2>2 DEF FinishJob, Finished, CaseInv
  <2> QED  BY <2>1, <2>2
<1>4. <<>> \in Seq(Frames) /\ Len(<<>>) = 0 /\ 1..0 = {}  OBVIOUS
<1>5. StackInv'  BY <1>1, <1>4 DEF StackInv
<1>6. CaseInv'  BY <1>1, <1>3 DEF CaseInv
<1>7. DownloadInv'  BY <1>1, <1>4 DEF DownloadInv
<1>8. LinkInv'  BY <1>1 DEF LinkInv
<1>9. RestInv'  BY <1>1 DEF RestInv
<1> QED  BY <1>5, <1>6, <1>7, <1>8, <1>9

THEOREM IngestInduction == IngestSpec => []IngestInv
<1>1. IngestInit => IngestInv
  <2> SUFFICES ASSUME IngestInit PROVE IngestInv  OBVIOUS
  <2> USE DEF IngestInit
  <2>1. <<>> \in Seq(Frames) /\ Len(<<>>) = 0 /\ 1..0 = {} /\ DOMAIN <<>> = {}  OBVIOUS
  <2>2. StackInv  BY <2>1 DEF StackInv
  <2>3. CaseInv  BY NoDocs DEF CaseInv, Hashed
  <2>4. DownloadInv  BY <2>1 DEF DownloadInv
  <2>5. LinkInv  BY IngestConstants DEF LinkInv
  <2>6. RestInv  BY <2>1, IngestConstants DEF RestInv
  <2> QED  BY <2>2, <2>3, <2>4, <2>5, <2>6 DEF IngestInv
<1>2. IngestInv /\ [IngestNext]_ingestVars => IngestInv'
  <2> SUFFICES ASSUME IngestInv, [IngestNext]_ingestVars PROVE IngestInv'  OBVIOUS
  <2>1. CASE UNCHANGED ingestVars
    <3>1. UNCHANGED <<documents, blobs, job, waiting, stack, gathered, fetched, seen, budget, progress, upsets, jobs, fetches>>
      BY <2>1 DEF ingestVars
    <3>2. StackInv'  BY <3>1 DEF IngestInv, StackInv
    <3>3. CaseInv'  BY <3>1 DEF IngestInv, CaseInv, Hashed
    <3>4. DownloadInv' /\ LinkInv' /\ RestInv'
      BY <3>1 DEF IngestInv, DownloadInv, LinkInv, LinksShown, RestInv
    <3> QED  BY <3>2, <3>3, <3>4 DEF IngestInv
  <2>2. CASE Ingest \/ Reindex  BY <2>2, IngestKeeps, ReindexKeeps
  <2>3. ASSUME NEW k \in waiting, TakeListed(k) \/ TakeStored(k) PROVE IngestInv'
    BY <2>3, TakeListedKeeps, TakeStoredKeeps
  <2>4. ASSUME NEW f \in Files, TakeMember(f) \/ Follow(f) PROVE IngestInv'
    BY <2>4, TakeMemberKeeps, FollowKeeps
  <2>5. CASE Download \/ Unpack \/ Recognize \/ Return \/ FinishJob
    BY <2>5, DownloadKeeps, UnpackKeeps, RecognizeKeeps, ReturnKeeps, FinishJobKeeps
  <2>6. CASE JobDies  BY <2>6, JobDiesKeeps
  <2> QED  BY <2>1, <2>2, <2>3, <2>4, <2>5, <2>6 DEF IngestNext, JobStep
<1> QED  BY <1>1, <1>2, PTL DEF IngestSpec

\* Types of the reading of documents: every key is formed as the code forms it, and
\* no file is read deeper in archives or links than the two depth limits.
THEOREM IngestTypesHold == IngestSpec => []IngestTypeOK
<1>1. IngestInv => IngestTypeOK
  <2> SUFFICES ASSUME IngestInv PROVE IngestTypeOK  OBVIOUS
  <2>1. documents \in Docs  BY DEF IngestInv, CaseInv
  <2>2. \A k \in DOMAIN documents \union DOMAIN progress \union seen : IsKey(k)
    BY <2>1 DEF IngestInv, RestInv, Docs, Keys
  <2>3. ASSUME NEW i \in 1..Len(stack)
        PROVE IsKey(stack[i].key) /\ stack[i].depth <= UnpackDepth /\ stack[i].linkDepth <= LinkDepth
    <3>1. stack[i] \in Frames  BY DEF IngestInv, StackInv
    <3>2. stack[i].key \in Keys /\ stack[i].depth \in 0..UnpackDepth /\ stack[i].linkDepth \in 0..LinkDepth
      BY <3>1 DEF Frames
    <3> QED  BY <3>2, IngestConstants DEF Keys
  <2> QED  BY <2>2, <2>3 DEF IngestInv, StackInv, DownloadInv, LinkInv, RestInv, IngestTypeOK
<1> QED  BY <1>1, IngestInduction, PTL

\* However files link to each other, to themselves or to files of the list, a job
\* downloads each at most once and follows no more links than its budget
\* (followDocumentLinks, ingestOne), for any files, archives, depths and failures.
THEOREM LinksStayBounded == IngestSpec => []LinksAreBounded
<1>1. IngestInv => LinksAreBounded
  <2> SUFFICES ASSUME IngestInv PROVE LinksAreBounded  OBVIOUS
  <2>1. \A f \in Files : fetches[f] <= 1  BY DEF IngestInv, DownloadInv
  <2>2. ASSUME job = "ingest" PROVE Cardinality(LinksShown) <= LinkBudget
    <3>1. IsFiniteSet(LinksShown) /\ Cardinality(LinksShown) + budget <= LinkBudget /\ budget \in 0..LinkBudget
      BY <2>2 DEF IngestInv, LinkInv
    <3>2. Cardinality(LinksShown) \in Nat  BY <3>1, FS_CardinalityType
    <3> QED  BY <3>1, <3>2, IngestConstants
  <2> QED  BY <2>1, <2>2 DEF LinksAreBounded, LinksShown
<1> QED  BY <1>1, IngestInduction, PTL

\* A document the case has read is still read after a job over whatever the platform
\* lists by then, whatever the job skipped, met again or failed to fetch
\* (ingestDocuments).  It may lose only a file that is listed no more, and a linked
\* document met again under a file the case no longer held as read.
THEOREM WhatWasReadStays == IngestSpec => ReadStaysRead
<1>1. IngestInv /\ [IngestNext]_ingestVars
        => [FinishJob /\ job = "ingest" =>
              \A k \in Hashed(documents) : MayGo(k) \/ k \in Hashed(documents')]_ingestVars
  BY IngestFinishes
<1> QED  BY <1>1, IngestInduction, PTL DEF IngestSpec, ReadStaysRead

----------------------------------------------------------------------------
\* The writes of a cabinet (CabinetWrites).

Maps == UNION {[S -> SUBSET Profiles] : S \in SUBSET Cards}
Rows == [profiles : SUBSET Profiles, dead : SUBSET Profiles, cards : Maps, decided : SUBSET Cards]
Memory == [profiles : SUBSET Profiles, cards : Maps, decided : SUBSET Cards]
Writes == [cards : SUBSET Cards, acks : SUBSET Cards]
Images == [profiles : SUBSET Profiles, cards : Maps, decided : SUBSET Cards,
           acks : SUBSET Cards, whole : BOOLEAN]

Types ==
    /\ mem \in Memory /\ db \in Rows /\ writes \in Seq(Writes) /\ image \in Images
    /\ gone \in SUBSET Profiles /\ deleting \in Profiles \union {NoProfile}
    /\ deleted \in SUBSET Profiles /\ acked \in SUBSET Cards

\* The settings remember every deletion that was answered, and no row is of a
\* profile they remember.
Tombstones == deleted \subseteq db.dead /\ db.profiles \intersect db.dead = {}

\* A decision is followed from the journal, through the write that answers it and
\* the image it takes, into the rows.
Journalled == acked \subseteq mem.decided /\ image.acks \subseteq mem.decided
Carried ==
    \A i \in DOMAIN writes :
        writes[i].acks \subseteq mem.decided \intersect DOMAIN mem.cards \intersect writes[i].cards
Pictured == image.acks \subseteq image.decided \intersect DOMAIN image.cards

CabinetInv == Types /\ Tombstones /\ Journalled /\ Carried /\ Pictured /\ DecidedCardIsKept

\* The rest is about the rows catching up. What the process deletes is nowhere in
\* its memory, which is never empty.
LivingMemory ==
    /\ mem.profiles # {} /\ mem.profiles \intersect (gone \union db.dead) = {}
    /\ deleting # NoProfile => deleting \in gone
    /\ \A c \in DOMAIN mem.cards : mem.cards[c] \intersect gone = {}
    /\ image = NoImage \/ image.profiles # {}

\* Once nothing waits, the image on its way, or the rows when there is none, have
\* the profiles of memory, but for the one whose deletion is under way.
ProfilesFollow ==
    writes = <<>> =>
        /\ image = NoImage /\ clean => db.profiles \ {deleting} = mem.profiles
        /\ image # NoImage /\ (clean \/ image.whole) =>
              image.profiles \ (db.dead \union {deleting}) = mem.profiles

\* In the same way the decisions, which are never taken back.
JournalFollows ==
    /\ db.decided \union image.decided \subseteq mem.decided
    /\ writes = <<>> /\ image # NoImage => image.decided = mem.decided
    /\ writes = <<>> /\ image = NoImage /\ clean => db.decided = mem.decided

\* A card is stored for good when its row has the profiles of memory and is not
\* about to go with the profile being deleted. Unless a full write waits, the
\* image or else the rows have every card of memory so.
WholeWaits == \E i \in DOMAIN writes : writes[i].cards = Cards
Holds(finders, c) ==
    /\ finders \ gone = mem.cards[c]
    /\ deleting # NoProfile => c \in mem.decided \/ finders # {deleting}
CardsFollow ==
    (clean \/ image.whole) /\ ~WholeWaits =>
        \A c \in DOMAIN mem.cards :
            IF c \in DOMAIN image.cards THEN Holds(image.cards[c], c)
            ELSE ~image.whole /\ c \in DOMAIN db.cards /\ Holds(db.cards[c], c)

FollowInv == clean \in BOOLEAN /\ LivingMemory /\ ProfilesFollow /\ JournalFollows /\ CardsFollow

----------------------------------------------------------------------------
LEMMA NoCards == <<>> \in Maps /\ DOMAIN <<>> = {}
<1>1. <<>> \in [{} -> SUBSET Profiles]  OBVIOUS
<1> QED  BY <1>1 DEF Maps

LEMMA MapsAre ==
    /\ \A m \in Maps : DOMAIN m \subseteq Cards /\ m \in [DOMAIN m -> SUBSET Profiles]
    /\ \A S \in SUBSET Cards : [S -> SUBSET Profiles] \subseteq Maps
BY DEF Maps

\* A release keeps the decided cards.
LEMMA ReleaseKeepsDecided ==
    ASSUME NEW m \in Maps, NEW p, NEW D \in SUBSET Cards
    PROVE  Released(m, p, D) \in Maps /\ DOMAIN m \intersect D \subseteq DOMAIN Released(m, p, D)
<1> DEFINE stays == {c \in DOMAIN m : m[c] # {p} \/ c \in D}
<1>1. Released(m, p, D) = [c \in stays |-> m[c] \ {p}]  BY DEF Released
<1>2. stays \in SUBSET Cards /\ \A c \in stays : m[c] \ {p} \in SUBSET Profiles  BY MapsAre
<1>3. Released(m, p, D) \in [stays -> SUBSET Profiles]  BY <1>1, <1>2
<1> QED  BY <1>1, <1>2, <1>3, MapsAre

\* A found card is stored beside the others.
LEMMA FoundCardJoins ==
    ASSUME NEW m \in Maps, NEW c \in Cards, NEW p \in Profiles, gone \in SUBSET Profiles
    PROVE  Upserted(m, c, {p}) \in Maps /\ DOMAIN m \subseteq DOMAIN Upserted(m, c, {p})
<1> DEFINE earlier == IF c \in DOMAIN m THEN m[c] ELSE {}
           finders == (earlier \union {p}) \ gone
           joined == [d \in DOMAIN m \union {c} |-> IF d = c THEN finders ELSE m[d]]
<1>1. Upserted(m, c, {p}) = m \/ Upserted(m, c, {p}) = joined  BY DEF Upserted
<1>2. DOMAIN m \in SUBSET Cards /\ finders \in SUBSET Profiles /\ \A d \in DOMAIN m : m[d] \in SUBSET Profiles
  BY MapsAre
<1>3. joined \in [DOMAIN m \union {c} -> SUBSET Profiles]  BY <1>2
<1>4. joined \in Maps  BY <1>2, <1>3, MapsAre
<1> QED  BY <1>1, <1>4

LEMMA FirstState == Init => CabinetInv
<1> SUFFICES ASSUME Init PROVE CabinetInv  OBVIOUS
<1>1. PICK some \in SUBSET Profiles :
          /\ mem = [profiles |-> some, cards |-> <<>>, decided |-> {}]
          /\ db = [profiles |-> some, dead |-> {}, cards |-> <<>>, decided |-> {}]
  BY DEF Init
<1>2. mem \in Memory /\ db \in Rows  BY <1>1, NoCards DEF Memory, Rows
<1>3. NoImage \in Images  BY NoCards DEF NoImage, Images
<1> QED
  BY <1>1, <1>2, <1>3 DEF Init, CabinetInv, Types, Tombstones, Journalled, Carried, Pictured,
     DecidedCardIsKept, NoImage

\* Memory only grows where decisions are concerned, and one more write may wait.
LEMMA MemoryGrows ==
    ASSUME CabinetInv, NEW w \in Writes, mem' \in Memory, mem.decided \subseteq mem'.decided,
           DOMAIN mem.cards \subseteq DOMAIN mem'.cards,
           w.acks \subseteq mem'.decided \intersect DOMAIN mem'.cards \intersect w.cards,
           writes' = Append(writes, w),
           UNCHANGED <<gone, image, deleting, db, faults, deleted, acked, clean>>
    PROVE  CabinetInv'
<1>1. writes' \in Seq(Writes) /\ Types'  BY DEF CabinetInv, Types
<1>2. Carried'
  <2> SUFFICES ASSUME NEW i \in DOMAIN writes'
               PROVE  writes'[i].acks \subseteq mem'.decided \intersect DOMAIN mem'.cards \intersect writes'[i].cards
    BY DEF Carried
  <2>1. CASE i \in DOMAIN writes
    <3>1. writes'[i] = writes[i]  BY <2>1 DEF CabinetInv, Types
    <3>2. writes[i].acks \subseteq mem.decided \intersect DOMAIN mem.cards \intersect writes[i].cards
      BY <2>1 DEF CabinetInv, Carried
    <3> QED  BY <3>1, <3>2
  <2>2. CASE i \notin DOMAIN writes
    <3>1. writes'[i] = w  BY <2>2 DEF CabinetInv, Types
    <3> QED  BY <3>1
  <2> QED  BY <2>1, <2>2
<1> QED
  BY <1>1, <1>2 DEF CabinetInv, Tombstones, Journalled, Pictured, DecidedCardIsKept

LEMMA Finding ==
    ASSUME CabinetInv, NEW p \in Profiles, NEW c \in Cards, Find(p, c)  PROVE CabinetInv'
<1>1. mem \in Memory /\ gone \in SUBSET Profiles  BY DEF CabinetInv, Types
<1>2. Upserted(mem.cards, c, {p}) \in Maps /\ DOMAIN mem.cards \subseteq DOMAIN Upserted(mem.cards, c, {p})
  BY <1>1, FoundCardJoins DEF Memory
<1>3. mem' \in Memory /\ mem'.decided = mem.decided /\ mem'.cards = Upserted(mem.cards, c, {p})
  BY <1>1, <1>2 DEF Find, Memory
<1>4. Write(Cards, {}) \in Writes /\ Write(Cards, {}).acks = {}  BY DEF Write, Writes
<1> QED  BY <1>2, <1>3, <1>4, MemoryGrows DEF Find, Enqueue

LEMMA Deciding ==
    ASSUME CabinetInv, NEW c \in Cards, Decide(c)  PROVE CabinetInv'
<1> DEFINE read == [d \in DOMAIN mem.cards \union {c} |->
                      IF d \in DOMAIN mem.cards THEN mem.cards[d] ELSE db.cards[d] \ gone]
<1>1. mem \in Memory /\ db \in Rows  BY DEF CabinetInv, Types
<1>2. mem.cards \in Maps /\ db.cards \in Maps  BY <1>1 DEF Memory, Rows
<1>3. mem' = [mem EXCEPT !.decided = @ \union {c}, !.cards = read]  BY DEF Decide
<1>4. \A d \in DOMAIN mem.cards \union {c} : read[d] \in SUBSET Profiles
  <2>1. c \in DOMAIN mem.cards \union DOMAIN db.cards  BY DEF Decide
  <2> QED  BY <1>2, <2>1, MapsAre
<1>5. read \in [DOMAIN mem.cards \union {c} -> SUBSET Profiles] /\ DOMAIN mem.cards \union {c} \in SUBSET Cards
  BY <1>2, <1>4, MapsAre
<1>6. read \in Maps  BY <1>5, MapsAre
<1>7. /\ mem' \in Memory /\ mem'.decided = mem.decided \union {c}
      /\ DOMAIN mem'.cards = DOMAIN mem.cards \union {c}
  BY <1>1, <1>3, <1>6 DEF Memory
<1>8. /\ Write(Cards, {c}) \in Writes /\ Write(Cards, {c}).acks = {c} /\ Write(Cards, {c}).cards = Cards
  BY DEF Write, Writes
<1> QED  BY <1>7, <1>8, MemoryGrows DEF Decide, Enqueue

LEMMA Creating ==
    ASSUME CabinetInv, NEW p \in Profiles, Create(p)  PROVE CabinetInv'
<1>1. mem' \in Memory /\ mem'.decided = mem.decided /\ mem'.cards = mem.cards
  BY DEF Create, CabinetInv, Types, Memory
<1>2. Write({}, {}) \in Writes /\ Write({}, {}).acks = {}  BY DEF Write, Writes
<1> QED  BY <1>1, <1>2, MemoryGrows DEF Create, Enqueue

\* A deletion begins in memory: the decided cards stay, and with them the writes
\* that will answer their decisions.
LEMMA Deleting ==
    ASSUME CabinetInv, NEW p \in Profiles, Delete(p)  PROVE CabinetInv'
<1>1. mem \in Memory  BY DEF CabinetInv, Types
<1>2. mem.cards \in Maps /\ mem.decided \in SUBSET Cards  BY <1>1 DEF Memory
<1>3. /\ Released(mem.cards, p, mem.decided) \in Maps
      /\ DOMAIN mem.cards \intersect mem.decided \subseteq DOMAIN Released(mem.cards, p, mem.decided)
  BY <1>2, ReleaseKeepsDecided
<1>4. /\ mem' \in Memory /\ mem'.decided = mem.decided
      /\ mem'.cards = Released(mem.cards, p, mem.decided)
  BY <1>1, <1>3 DEF Delete, Memory
<1>5. Types'  BY <1>4 DEF Delete, CabinetInv, Types
<1>6. Carried'  BY <1>3, <1>4 DEF Delete, CabinetInv, Carried
<1> QED
  BY <1>4, <1>5, <1>6 DEF Delete, CabinetInv, Tombstones, Journalled, Pictured, DecidedCardIsKept

LEMMA DeletionCommits ==
    ASSUME CabinetInv, DeleteCommits  PROVE CabinetInv'
<1>1. mem \in Memory /\ db \in Rows /\ deleting \in Profiles
  BY DEF CabinetInv, Types, DeleteCommits
<1>2. db.cards \in Maps /\ mem.decided \in SUBSET Cards  BY <1>1 DEF Memory, Rows
<1>3. /\ Released(db.cards, deleting, mem.decided) \in Maps
      /\ DOMAIN db.cards \intersect mem.decided \subseteq DOMAIN Released(db.cards, deleting, mem.decided)
  BY <1>2, ReleaseKeepsDecided
<1>4. /\ db' \in Rows /\ db'.profiles = db.profiles \ {deleting} /\ db'.dead = db.dead \union {deleting}
      /\ db'.cards = Released(db.cards, deleting, mem.decided) /\ db'.decided = db.decided
  BY <1>1, <1>3 DEF DeleteCommits, Rows
<1>5. Types'  BY <1>1, <1>4 DEF DeleteCommits, CabinetInv, Types
<1>6. Tombstones'  BY <1>4 DEF DeleteCommits, CabinetInv, Tombstones
<1>7. DecidedCardIsKept'
  BY <1>3, <1>4 DEF DeleteCommits, CabinetInv, Journalled, DecidedCardIsKept
<1> QED
  BY <1>5, <1>6, <1>7 DEF DeleteCommits, CabinetInv, Journalled, Carried, Pictured

LEMMA DeletionFails ==
    ASSUME CabinetInv, DeleteFails  PROVE CabinetInv'
<1>1. /\ image' \in Images /\ image'.acks = image.acks /\ image'.decided = image.decided
      /\ image'.cards = image.cards
  BY DEF DeleteFails, CabinetInv, Types, Images
<1> QED
  BY <1>1 DEF DeleteFails, CabinetInv, Types, Tombstones, Journalled, Carried, Pictured, DecidedCardIsKept

\* The image of a write holds what the write will answer.
LEMMA ImageIsTaken ==
    ASSUME CabinetInv, TakeImage  PROVE CabinetInv'
<1> DEFINE w == Head(writes)
           taken == Restrict(mem.cards, DOMAIN mem.cards \intersect w.cards)
<1>1. mem \in Memory /\ writes \in Seq(Writes) /\ writes # <<>> /\ gone \in SUBSET Profiles
  BY DEF CabinetInv, Types, TakeImage
<1>2. w \in Writes /\ w = writes[1] /\ 1 \in DOMAIN writes  BY <1>1
<1>3. w.acks \subseteq mem.decided \intersect DOMAIN mem.cards \intersect w.cards
  BY <1>2 DEF CabinetInv, Carried
<1>4. mem.cards \in Maps  BY <1>1 DEF Memory
<1>5. taken \in [DOMAIN mem.cards \intersect w.cards -> SUBSET Profiles]
  BY <1>4, MapsAre DEF Restrict
<1>6. DOMAIN mem.cards \intersect w.cards \in SUBSET Cards  BY <1>4, MapsAre
<1>7. taken \in Maps  BY <1>5, <1>6, MapsAre
<1>8. image' = [profiles |-> mem.profiles \ gone, cards |-> taken, decided |-> mem.decided,
                acks |-> w.acks, whole |-> w.cards = Cards]
  BY DEF TakeImage
<1>9. image' \in Images  BY <1>1, <1>2, <1>7, <1>8 DEF Images, Memory, Writes
<1>10. Types'  BY <1>1, <1>9 DEF TakeImage, CabinetInv, Types
<1>11. Pictured' /\ Journalled'
  BY <1>3, <1>5, <1>8 DEF TakeImage, CabinetInv, Pictured, Journalled
<1>12. Carried'
  <2>1. \A i \in DOMAIN writes' : i + 1 \in DOMAIN writes /\ writes'[i] = writes[i + 1]
    BY <1>1 DEF TakeImage
  <2> QED  BY <2>1 DEF TakeImage, CabinetInv, Carried
<1> QED
  BY <1>10, <1>11, <1>12 DEF TakeImage, CabinetInv, Tombstones, DecidedCardIsKept

\* A save passes over the tombstones and deletes no card.
LEMMA ImageIsCommitted ==
    ASSUME CabinetInv, ImageCommits  PROVE CabinetInv'
<1> DEFINE stored == [c \in DOMAIN image.cards \union DOMAIN db.cards |->
                      IF c \in DOMAIN image.cards THEN image.cards[c] ELSE db.cards[c]]
<1>1. db \in Rows /\ image \in Images  BY DEF CabinetInv, Types
<1>2. image.cards \in Maps /\ db.cards \in Maps  BY <1>1 DEF Images, Rows
<1>3. stored \in [DOMAIN image.cards \union DOMAIN db.cards -> SUBSET Profiles]  BY <1>2, MapsAre
<1>4. DOMAIN image.cards \union DOMAIN db.cards \in SUBSET Cards  BY <1>2, MapsAre
<1>5. stored \in Maps  BY <1>3, <1>4, MapsAre
<1>6. db' = [db EXCEPT !.profiles = StoredProfiles(image), !.cards = stored,
                       !.decided = @ \union image.decided]
  BY DEF ImageCommits
<1>7. /\ db' \in Rows /\ db'.profiles = image.profiles \ db.dead /\ db'.dead = db.dead
      /\ db'.cards = stored /\ db'.decided = db.decided \union image.decided
  BY <1>1, <1>5, <1>6 DEF Rows, Images, StoredProfiles
<1>8. NoImage \in Images /\ NoImage.acks = {}  BY NoCards DEF NoImage, Images
<1>9. acked' = acked \union image.acks /\ image' = NoImage
  BY DEF ImageCommits
<1>10. Types'  BY <1>1, <1>7, <1>8, <1>9 DEF ImageCommits, CabinetInv, Types, Images
<1>11. Tombstones'  BY <1>7 DEF ImageCommits, CabinetInv, Tombstones
<1>12. Journalled' /\ Pictured'
  BY <1>8, <1>9 DEF ImageCommits, CabinetInv, Journalled, Pictured
<1>13. DecidedCardIsKept'
  BY <1>3, <1>7, <1>9 DEF CabinetInv, Pictured, DecidedCardIsKept
<1> QED
  BY <1>10, <1>11, <1>12, <1>13 DEF ImageCommits, CabinetInv, Carried

LEMMA ImageIsLost ==
    ASSUME CabinetInv, ImageFails  PROVE CabinetInv'
<1>1. NoImage \in Images /\ NoImage.acks = {}  BY NoCards DEF NoImage, Images
<1>2. image' = NoImage /\ UNCHANGED <<mem, gone, writes, deleting, db, deleted, acked>>
  BY DEF ImageFails
<1> QED
  BY <1>1, <1>2 DEF CabinetInv, Types, Tombstones, Journalled, Carried, Pictured, DecidedCardIsKept

\* A restart takes the journal from the rows, where every answered decision is.
LEMMA Restarting ==
    ASSUME CabinetInv, Restart  PROVE CabinetInv'
<1>1. PICK fresh \in Profiles \ db.dead :
          mem' = [profiles |-> IF db.profiles = {} THEN {fresh} ELSE db.profiles,
                  cards |-> <<>>, decided |-> db.decided]
  BY DEF Restart
<1>2. db \in Rows  BY DEF CabinetInv, Types
<1>3. mem' \in Memory /\ mem'.decided = db.decided  BY <1>1, <1>2, NoCards DEF Memory, Rows
<1>4. NoImage \in Images /\ NoImage.acks = {}  BY NoCards DEF NoImage, Images
<1>5. /\ gone' = {} /\ writes' = <<>> /\ image' = NoImage /\ deleting' = NoProfile
      /\ UNCHANGED <<db, deleted, acked>>
  BY DEF Restart
<1> QED
  BY <1>3, <1>4, <1>5 DEF CabinetInv, Types, Tombstones, Journalled, Carried, Pictured, DecidedCardIsKept

LEMMA Invariance == Spec => []CabinetInv
<1>1. CabinetInv /\ [Next]_vars => CabinetInv'
  <2> SUFFICES ASSUME CabinetInv, [Next]_vars PROVE CabinetInv'  OBVIOUS
  <2>1. CASE UNCHANGED vars
    BY <2>1 DEF vars, CabinetInv, Types, Tombstones, Journalled, Carried, Pictured, DecidedCardIsKept
  <2>2. CASE Next
    BY <2>2, Finding, Deciding, Creating, Deleting, DeletionCommits, DeletionFails, ImageIsTaken,
       ImageIsCommitted, ImageIsLost, Restarting DEF Next
  <2> QED  BY <2>1, <2>2
<1> QED  BY FirstState, <1>1, PTL DEF Spec

----------------------------------------------------------------------------
\* The rows catch up with memory.
LEMMA NoImageIs ==
    /\ NoImage.profiles = {} /\ NoImage.acks = {} /\ NoImage.decided = {} /\ NoImage.whole = FALSE
    /\ DOMAIN NoImage.cards = {}
BY NoCards DEF NoImage

LEMMA RowsBegin == Init => FollowInv
<1> SUFFICES ASSUME Init PROVE FollowInv  OBVIOUS
<1>1. PICK some \in (SUBSET Profiles) \ {{}} :
          /\ mem = [profiles |-> some, cards |-> <<>>, decided |-> {}]
          /\ db = [profiles |-> some, dead |-> {}, cards |-> <<>>, decided |-> {}]
  BY DEF Init
<1>2. image = NoImage /\ writes = <<>> /\ gone = {} /\ deleting = NoProfile /\ clean = TRUE  BY DEF Init
<1>3. LivingMemory /\ ProfilesFollow  BY <1>1, <1>2, NoCards, NoProfileIsNone DEF LivingMemory, ProfilesFollow
<1>4. JournalFollows /\ CardsFollow
  BY <1>1, <1>2, NoCards, NoImageIs DEF JournalFollows, CardsFollow
<1> QED  BY <1>2, <1>3, <1>4 DEF FollowInv

\* A full write that waits will take what has changed.
LEMMA FullWriteWaits ==
    ASSUME CabinetInv, FollowInv, NEW w \in Writes, w.cards = Cards, writes' = Append(writes, w),
           mem' \in Memory, mem'.profiles = mem.profiles, mem.decided \subseteq mem'.decided,
           \A c \in DOMAIN mem'.cards : mem'.cards[c] \intersect gone = {},
           UNCHANGED <<gone, image, deleting, db, clean>>
    PROVE  FollowInv'
<1>1. writes \in Seq(Writes)  BY DEF CabinetInv, Types
<1>2. writes' # <<>> /\ Len(writes) + 1 \in DOMAIN writes' /\ writes'[Len(writes) + 1] = w  BY <1>1
<1>3. WholeWaits'  BY <1>2 DEF WholeWaits
<1>4. LivingMemory'  BY DEF FollowInv, LivingMemory
<1>5. ProfilesFollow' /\ JournalFollows' /\ CardsFollow'
  BY <1>2, <1>3 DEF FollowInv, ProfilesFollow, JournalFollows, CardsFollow
<1> QED  BY <1>4, <1>5 DEF FollowInv

LEMMA FindingFollows ==
    ASSUME CabinetInv, FollowInv, NEW p \in Profiles, NEW c \in Cards, Find(p, c)  PROVE FollowInv'
<1> DEFINE earlier == IF c \in DOMAIN mem.cards THEN mem.cards[c] ELSE {}
           finders == (earlier \union {p}) \ gone
           joined == [d \in DOMAIN mem.cards \union {c} |-> IF d = c THEN finders ELSE mem.cards[d]]
<1>1. mem \in Memory /\ gone \in SUBSET Profiles  BY DEF CabinetInv, Types
<1>2. mem' \in Memory /\ mem'.profiles = mem.profiles /\ mem'.decided = mem.decided
      /\ mem'.cards = Upserted(mem.cards, c, {p})
  BY <1>1, FoundCardJoins DEF Find, Memory
<1>3. Upserted(mem.cards, c, {p}) = mem.cards \/ Upserted(mem.cards, c, {p}) = joined  BY DEF Upserted
<1>4. \A d \in DOMAIN mem.cards : mem.cards[d] \intersect gone = {}  BY DEF FollowInv, LivingMemory
<1>5. \A d \in DOMAIN joined : joined[d] \intersect gone = {}  BY <1>4
<1>6. \A d \in DOMAIN mem'.cards : mem'.cards[d] \intersect gone = {}  BY <1>2, <1>3, <1>4, <1>5
<1>7. Write(Cards, {}) \in Writes /\ Write(Cards, {}).cards = Cards  BY DEF Write, Writes
<1> QED  BY <1>2, <1>6, <1>7, FullWriteWaits DEF Find, Enqueue

LEMMA DecidingFollows ==
    ASSUME CabinetInv, CabinetInv', FollowInv, NEW c \in Cards, Decide(c)  PROVE FollowInv'
<1> DEFINE read == [d \in DOMAIN mem.cards \union {c} |->
                      IF d \in DOMAIN mem.cards THEN mem.cards[d] ELSE db.cards[d] \ gone]
<1>1. mem \in Memory /\ mem' \in Memory  BY DEF CabinetInv, Types
<1>2. mem'.profiles = mem.profiles /\ mem'.decided = mem.decided \union {c} /\ mem'.cards = read
  BY <1>1 DEF Decide, Memory
<1>3. \A d \in DOMAIN mem'.cards : mem'.cards[d] \intersect gone = {}
  BY <1>2 DEF FollowInv, LivingMemory
<1>4. Write(Cards, {c}) \in Writes /\ Write(Cards, {c}).cards = Cards  BY DEF Write, Writes
<1> QED  BY <1>1, <1>2, <1>3, <1>4, FullWriteWaits DEF Decide, Enqueue

\* A new profile waits for its write and changes no card.
LEMMA CreatingFollows ==
    ASSUME CabinetInv, CabinetInv', FollowInv, NEW p \in Profiles, Create(p)  PROVE FollowInv'
<1>1. mem \in Memory /\ writes \in Seq(Writes) /\ Write({}, {}) \in Writes
  BY DEF CabinetInv, Types, Write, Writes
<1>2. mem'.profiles = mem.profiles \union {p} /\ mem'.decided = mem.decided /\ mem'.cards = mem.cards
  BY <1>1 DEF Create, Memory
<1>3. writes' = Append(writes, Write({}, {})) /\ UNCHANGED <<gone, image, deleting, db, clean>>
  BY DEF Create, Enqueue
<1>4. writes' # <<>>  BY <1>1, <1>3
<1>5. LivingMemory'  BY <1>2, <1>3 DEF Create, FollowInv, LivingMemory
<1>6. ProfilesFollow' /\ JournalFollows'  BY <1>2, <1>3, <1>4 DEF FollowInv, ProfilesFollow, JournalFollows
<1>7. WholeWaits => WholeWaits'
  <2> SUFFICES ASSUME NEW i \in DOMAIN writes, writes[i].cards = Cards PROVE WholeWaits'  BY DEF WholeWaits
  <2>1. i \in DOMAIN writes' /\ writes'[i] = writes[i]  BY <1>1, <1>3
  <2> QED  BY <2>1 DEF WholeWaits
<1>8. CardsFollow'  BY <1>2, <1>3, <1>7 DEF FollowInv, CardsFollow, Holds
<1> QED  BY <1>3, <1>5, <1>6, <1>8 DEF FollowInv

\* A deletion begins: what stays in memory is not of that profile alone, so its
\* row will not go with it.
LEMMA DeletingFollows ==
    ASSUME CabinetInv, FollowInv, NEW p \in Profiles, Delete(p)  PROVE FollowInv'
<1> DEFINE stays == {c \in DOMAIN mem.cards : mem.cards[c] # {p} \/ c \in mem.decided}
<1>1. mem \in Memory /\ p \in mem.profiles /\ mem.profiles # {p} /\ deleting = NoProfile
  BY DEF CabinetInv, Types, Delete
<1>2. mem'.profiles = mem.profiles \ {p} /\ mem'.decided = mem.decided
      /\ mem'.cards = [c \in stays |-> mem.cards[c] \ {p}]
  BY <1>1 DEF Delete, Memory, Released
<1>3. gone' = gone \union {p} /\ deleting' = p /\ UNCHANGED <<writes, image, db, clean>>  BY DEF Delete
<1>4. LivingMemory'  BY <1>1, <1>2, <1>3 DEF FollowInv, LivingMemory
<1>5. ProfilesFollow'
  <2>1. db.profiles \ {NoProfile} = db.profiles /\ image.profiles \ {NoProfile} = image.profiles
    BY NoProfileIsNone DEF CabinetInv, Types, Rows, Images
  <2> QED  BY <1>1, <1>2, <1>3, <2>1 DEF FollowInv, ProfilesFollow
<1>6. JournalFollows'  BY <1>2, <1>3 DEF FollowInv, JournalFollows
<1>7. ASSUME NEW c \in stays, NEW finders, Holds(finders, c)  PROVE Holds(finders, c)'
  <2>1. finders \ gone = mem.cards[c] /\ p \notin gone  BY <1>1, <1>7 DEF Holds, FollowInv, LivingMemory
  <2>2. finders \ gone' = mem'.cards[c]  BY <1>2, <1>3, <2>1
  <2>3. c \in mem.decided \/ finders # {p}  BY <2>1
  <2> QED  BY <1>2, <1>3, <2>2, <2>3 DEF Holds
<1>8. CardsFollow'  BY <1>2, <1>3, <1>7 DEF FollowInv, CardsFollow, WholeWaits
<1> QED  BY <1>3, <1>4, <1>5, <1>6, <1>8 DEF FollowInv

\* A deletion commits: it takes no card of memory from the rows.
LEMMA DeletionCommitsFollows ==
    ASSUME CabinetInv, CabinetInv', FollowInv, DeleteCommits  PROVE FollowInv'
<1> DEFINE untouched == {c \in DOMAIN db.cards : db.cards[c] # {deleting} \/ c \in mem.decided}
<1>1. db \in Rows /\ deleting \in gone /\ deleting # NoProfile /\ deleting' = NoProfile
  BY DEF CabinetInv, Types, FollowInv, LivingMemory, DeleteCommits
<1>2. /\ db'.profiles = db.profiles \ {deleting} /\ db'.dead = db.dead \union {deleting}
      /\ db'.cards = [c \in untouched |-> db.cards[c] \ {deleting}] /\ db'.decided = db.decided
  BY <1>1 DEF DeleteCommits, Rows, Released
<1>3. UNCHANGED <<mem, gone, writes, image, clean>>  BY DEF DeleteCommits
<1>4. LivingMemory'  BY <1>1, <1>2, <1>3 DEF FollowInv, LivingMemory
<1>5. ProfilesFollow'
  <2>1. db'.profiles \ {NoProfile} = db'.profiles /\ image.profiles \ {NoProfile} = image.profiles
    BY <1>3, NoProfileIsNone DEF CabinetInv, Types, Rows, Images
  <2> QED  BY <1>1, <1>2, <1>3, <2>1 DEF FollowInv, ProfilesFollow
<1>6. JournalFollows'  BY <1>2, <1>3 DEF FollowInv, JournalFollows
<1>7. ASSUME NEW c, NEW finders, Holds(finders, c)  PROVE Holds(finders, c)' /\ (finders \ {deleting}) \ gone = mem.cards[c]
  BY <1>1, <1>3, <1>7 DEF Holds
<1>8. ASSUME NEW c \in DOMAIN db.cards, Holds(db.cards[c], c)
      PROVE  c \in DOMAIN db'.cards /\ Holds(db.cards[c], c)'
  <2>1. c \in untouched  BY <1>1, <1>8 DEF Holds
  <2>2. db'.cards[c] \ gone = mem.cards[c]  BY <1>2, <1>7, <1>8, <2>1
  <2> QED  BY <1>1, <1>2, <1>3, <2>1, <2>2 DEF Holds
<1>9. CardsFollow'
  BY <1>3, <1>7, <1>8 DEF FollowInv, CardsFollow, WholeWaits
<1> QED  BY <1>3, <1>4, <1>5, <1>6, <1>9 DEF FollowInv

\* A failed deletion, or a failed write, leaves nothing to be relied on until the
\* next full write.
LEMMA DeletionFailsFollows ==
    ASSUME CabinetInv, FollowInv, DeleteFails  PROVE FollowInv'
<1>1. image \in Images  BY DEF CabinetInv, Types
<1>2. image' = [image EXCEPT !.whole = FALSE] /\ clean' = FALSE /\ deleting' = NoProfile
      /\ UNCHANGED <<mem, gone, writes, db>>
  BY DEF DeleteFails
<1>3. /\ image'.whole = FALSE /\ image'.profiles = image.profiles /\ image'.decided = image.decided
      /\ image'.cards = image.cards
  BY <1>1, <1>2 DEF Images
<1>4. image = NoImage <=> image' = NoImage
  <2>1. image = NoImage => image' = NoImage
    <3>1. NoImage \in Images  BY NoCards DEF NoImage, Images
    <3>2. [NoImage EXCEPT !.whole = FALSE] = NoImage  BY <3>1, NoImageIs DEF Images
    <3> QED  BY <1>2, <3>2
  <2>2. image' = NoImage => image = NoImage
    <3> SUFFICES ASSUME image' = NoImage PROVE image = NoImage  OBVIOUS
    <3>1. image.profiles = {}  BY <1>3, NoImageIs
    <3> QED  BY <3>1 DEF FollowInv, LivingMemory
  <2> QED  BY <2>1, <2>2
<1>5. LivingMemory'  BY <1>2, <1>3, <1>4 DEF FollowInv, LivingMemory
<1>6. ProfilesFollow' /\ CardsFollow'  BY <1>2, <1>3 DEF ProfilesFollow, CardsFollow
<1>7. JournalFollows'  BY <1>2, <1>3, <1>4 DEF FollowInv, JournalFollows
<1> QED  BY <1>2, <1>5, <1>6, <1>7 DEF FollowInv

\* The image is the memory of this moment, with all its cards when the write is a
\* full one, and otherwise with some beside those that were stored.
LEMMA ImageIsTakenFollows ==
    ASSUME CabinetInv, CabinetInv', FollowInv, TakeImage  PROVE FollowInv'
<1> DEFINE w == Head(writes)
           taken == Restrict(mem.cards, DOMAIN mem.cards \intersect w.cards)
<1>1. writes \in Seq(Writes) /\ writes # <<>> /\ image = NoImage /\ writes' = Tail(writes)
      /\ UNCHANGED <<mem, gone, deleting, db, clean>>
  BY DEF CabinetInv, Types, TakeImage
<1>2. mem \in Memory /\ mem.cards \in Maps  BY DEF CabinetInv, Types, Memory
<1>3. /\ image'.profiles = mem.profiles \ gone /\ image'.cards = taken /\ image'.decided = mem.decided
      /\ image'.whole = (w.cards = Cards)
  BY DEF TakeImage
<1>4. image'.profiles = mem.profiles /\ mem.profiles # {}  BY <1>3 DEF FollowInv, LivingMemory
<1>5. image' # NoImage  BY <1>4, NoImageIs
<1>6. DOMAIN taken = DOMAIN mem.cards \intersect w.cards /\ \A c \in DOMAIN taken : taken[c] = mem.cards[c]
  BY DEF Restrict
<1>7. LivingMemory'  BY <1>1, <1>4 DEF FollowInv, LivingMemory
<1>8. ProfilesFollow'
  <2>1. deleting \notin mem.profiles
    BY <1>2, NoProfileIsNone DEF FollowInv, LivingMemory, Memory
  <2> QED  BY <1>1, <1>4, <1>5, <2>1 DEF FollowInv, LivingMemory, ProfilesFollow
<1>9. JournalFollows'  BY <1>1, <1>3, <1>5 DEF FollowInv, JournalFollows
<1>10. ASSUME NEW c \in DOMAIN mem.cards  PROVE Holds(mem.cards[c], c)
  BY DEF Holds, FollowInv, LivingMemory
<1>11. CardsFollow'
  <2> SUFFICES ASSUME (clean \/ image'.whole), ~WholeWaits', NEW c \in DOMAIN mem.cards
               PROVE  IF c \in DOMAIN image'.cards THEN Holds(image.cards[c], c)'
                      ELSE ~image'.whole /\ c \in DOMAIN db.cards /\ Holds(db.cards[c], c)'
    BY <1>1 DEF CardsFollow
  <2>1. CASE c \in DOMAIN image'.cards
    <3>1. image'.cards[c] = mem.cards[c]  BY <1>3, <1>6, <2>1
    <3> QED  BY <1>1, <1>10, <2>1, <3>1 DEF Holds
  <2>2. CASE c \notin DOMAIN image'.cards
    <3>1. c \notin w.cards  BY <1>3, <1>6, <2>2
    <3>2. w.cards # Cards  BY <1>2, <3>1, MapsAre
    <3>3. ~WholeWaits
      <4> SUFFICES ASSUME NEW i \in DOMAIN writes, writes[i].cards = Cards PROVE FALSE  BY DEF WholeWaits
      <4>1. i # 1  BY <1>1, <3>2
      <4>2. i - 1 \in DOMAIN writes' /\ writes'[i - 1] = writes[i]  BY <1>1, <4>1
      <4> QED  BY <4>2 DEF WholeWaits
    <3>4. clean  BY <1>3, <3>2
    <3>5. c \in DOMAIN db.cards /\ Holds(db.cards[c], c)
      BY <1>1, <3>3, <3>4, NoImageIs DEF FollowInv, CardsFollow
    <3> QED  BY <1>1, <1>3, <2>2, <3>2, <3>5 DEF Holds
  <2> QED  BY <2>1, <2>2
<1> QED  BY <1>1, <1>7, <1>8, <1>9, <1>11 DEF FollowInv

\* What was true of the image and of the rows below it is true of the rows.
LEMMA ImageIsCommittedFollows ==
    ASSUME CabinetInv, CabinetInv', FollowInv, ImageCommits  PROVE FollowInv'
<1> DEFINE stored == [c \in DOMAIN image.cards \union DOMAIN db.cards |->
                      IF c \in DOMAIN image.cards THEN image.cards[c] ELSE db.cards[c]]
<1>1. db \in Rows /\ image \in Images /\ image # NoImage  BY DEF CabinetInv, Types, ImageCommits
<1>2. /\ db'.profiles = image.profiles \ db.dead /\ db'.dead = db.dead
      /\ db'.cards = stored /\ db'.decided = db.decided \union image.decided
  BY <1>1 DEF ImageCommits, Rows, StoredProfiles
<1>3. image' = NoImage /\ clean' = (clean \/ image.whole) /\ UNCHANGED <<mem, gone, writes, deleting>>
  BY DEF ImageCommits
<1>4. LivingMemory'  BY <1>2, <1>3 DEF FollowInv, LivingMemory
<1>5. ProfilesFollow'  BY <1>1, <1>2, <1>3 DEF FollowInv, ProfilesFollow
<1>6. JournalFollows'  BY <1>1, <1>2, <1>3, NoImageIs DEF FollowInv, JournalFollows
<1>7. CardsFollow'
  <2> SUFFICES ASSUME clean \/ image.whole, ~WholeWaits, NEW c \in DOMAIN mem.cards
               PROVE  c \in DOMAIN db'.cards /\ Holds(db.cards[c], c)'
    BY <1>3, NoImageIs DEF CardsFollow, WholeWaits
  <2>1. CASE c \in DOMAIN image.cards
    <3>1. Holds(image.cards[c], c)  BY <2>1 DEF FollowInv, CardsFollow
    <3>2. c \in DOMAIN stored /\ stored[c] = image.cards[c]  BY <2>1
    <3> QED  BY <1>2, <1>3, <3>1, <3>2 DEF Holds
  <2>2. CASE c \notin DOMAIN image.cards
    <3>1. c \in DOMAIN db.cards /\ Holds(db.cards[c], c)  BY <2>2 DEF FollowInv, CardsFollow
    <3>2. c \in DOMAIN stored /\ stored[c] = db.cards[c]  BY <2>2, <3>1
    <3> QED  BY <1>2, <1>3, <3>1, <3>2 DEF Holds
  <2> QED  BY <2>1, <2>2
<1>8. clean' \in BOOLEAN  BY <1>1, <1>3 DEF FollowInv, Images
<1> QED  BY <1>4, <1>5, <1>6, <1>7, <1>8 DEF FollowInv

LEMMA ImageIsLostFollows ==
    ASSUME CabinetInv, FollowInv, ImageFails  PROVE FollowInv'
<1>1. image' = NoImage /\ clean' = FALSE /\ UNCHANGED <<mem, gone, writes, deleting, db>>
  BY DEF ImageFails
<1> QED
  BY <1>1, NoImageIs DEF FollowInv, LivingMemory, ProfilesFollow, JournalFollows, CardsFollow

\* A restart has the rows in memory.
LEMMA RestartingFollows ==
    ASSUME CabinetInv, FollowInv, Restart  PROVE FollowInv'
<1>1. PICK fresh \in Profiles \ db.dead :
          mem' = [profiles |-> IF db.profiles = {} THEN {fresh} ELSE db.profiles,
                  cards |-> <<>>, decided |-> db.decided]
  BY DEF Restart
<1>2. /\ gone' = {} /\ writes' = <<>> /\ image' = NoImage /\ deleting' = NoProfile
      /\ clean' = (db.profiles # {}) /\ UNCHANGED db
  BY DEF Restart
<1>3. db \in Rows /\ db.profiles \intersect db.dead = {}  BY DEF CabinetInv, Types, Tombstones
<1>4. LivingMemory'  BY <1>1, <1>2, <1>3, NoCards DEF LivingMemory
<1>5. ProfilesFollow'  BY <1>1, <1>2, <1>3, NoProfileIsNone DEF ProfilesFollow, Rows
<1>6. JournalFollows' /\ CardsFollow'  BY <1>1, <1>2, NoCards, NoImageIs DEF JournalFollows, CardsFollow
<1> QED  BY <1>2, <1>4, <1>5, <1>6 DEF FollowInv

LEMMA RowsFollow == Spec => []FollowInv
<1>1. CabinetInv /\ CabinetInv' /\ FollowInv /\ [Next]_vars => FollowInv'
  <2> SUFFICES ASSUME CabinetInv, CabinetInv', FollowInv, [Next]_vars PROVE FollowInv'  OBVIOUS
  <2>1. CASE UNCHANGED vars
    BY <2>1 DEF vars, FollowInv, LivingMemory, ProfilesFollow, JournalFollows, CardsFollow, WholeWaits, Holds
  <2>2. CASE Next
    BY <2>2, FindingFollows, DecidingFollows, CreatingFollows, DeletingFollows, DeletionCommitsFollows,
       DeletionFailsFollows, ImageIsTakenFollows, ImageIsCommittedFollows, ImageIsLostFollows,
       RestartingFollows DEF Next
  <2> QED  BY <2>1, <2>2
<1> QED  BY RowsBegin, Invariance, <1>1, PTL DEF Spec

\* A profile whose deletion was answered (deleteProfile of persist.ts) is in no row
\* again, although images taken before it are still written after it.
THEOREM DeletedProfilesStayDeleted == Spec => []DeletedStaysDeleted
<1>1. CabinetInv => DeletedStaysDeleted  BY DEF CabinetInv, Tombstones, DeletedStaysDeleted
<1> QED  BY Invariance, <1>1, PTL

\* An answered decision and its card stay in the rows (releaseProfileFromCard of
\* profile-cases.ts), whichever profiles are deleted and whatever fails.
THEOREM DecidedCardsAreKept == Spec => []DecidedCardIsKept
<1>1. CabinetInv => DecidedCardIsKept  BY DEF CabinetInv
<1> QED  BY Invariance, <1>1, PTL

\* When the chain is at rest after a full write that succeeded (enqueueWorkspaceWrite
\* of persist.ts), the rows have the profiles, the decisions and every card of
\* memory, however deletions went past the writes.
THEOREM StoreHasCaughtUp == Spec => []StoreCatchesUp
<1>1. CabinetInv /\ FollowInv => StoreCatchesUp
  <2> SUFFICES ASSUME CabinetInv, FollowInv, writes = <<>>, image = NoImage, deleting = NoProfile, clean
               PROVE  /\ db.profiles = mem.profiles /\ mem.decided = db.decided
                      /\ DOMAIN mem.cards \subseteq DOMAIN db.cards
    BY DEF StoreCatchesUp
  <2>1. db.profiles \ {NoProfile} = db.profiles  BY NoProfileIsNone DEF CabinetInv, Types, Rows
  <2>2. db.profiles = mem.profiles /\ mem.decided = db.decided
    BY <2>1 DEF FollowInv, ProfilesFollow, JournalFollows
  <2>3. ~WholeWaits  BY DEF WholeWaits
  <2> QED  BY <2>2, <2>3, NoImageIs DEF FollowInv, CardsFollow
<1> QED  BY Invariance, RowsFollow, <1>1, PTL

\* The cabinet has its types: whatever fails, memory has a profile.
THEOREM CabinetTypesHold == Spec => []TypeOK
<1>1. Init => faults \in 0..Faults  BY CabinetBounds DEF Init
<1>2. faults \in 0..Faults /\ [Next]_vars => (faults \in 0..Faults)'
  <2> SUFFICES ASSUME faults \in 0..Faults, [Next]_vars PROVE faults' \in 0..Faults  OBVIOUS
  <2>1. faults' = faults \/ (faults < Faults /\ faults' = faults + 1)
    BY DEF Next, vars, Find, Decide, Create, Delete, DeleteCommits, DeleteFails, TakeImage,
       ImageCommits, ImageFails, Restart
  <2> QED  BY <2>1, CabinetBounds
<1>3. CabinetInv /\ FollowInv /\ faults \in 0..Faults => TypeOK
  <2> SUFFICES ASSUME CabinetInv, FollowInv, faults \in 0..Faults PROVE TypeOK  OBVIOUS
  <2>1. mem \in Memory /\ db \in Rows  BY DEF CabinetInv, Types
  <2>2. ASSUME NEW m \in Maps PROVE DOMAIN m \subseteq Cards /\ \A c \in DOMAIN m : m[c] \subseteq Profiles
    BY <2>2, MapsAre
  <2>3. /\ mem.profiles \subseteq Profiles /\ mem.decided \subseteq Cards /\ mem.cards \in Maps
        /\ db.profiles \subseteq Profiles /\ db.decided \subseteq Cards /\ db.cards \in Maps
        /\ db.dead \subseteq Profiles
    BY <2>1 DEF Memory, Rows
  <2>4. /\ gone \subseteq Profiles /\ deleted \subseteq Profiles /\ acked \subseteq Cards
        /\ deleting \in Profiles \union {NoProfile} /\ mem.profiles # {}
    BY DEF CabinetInv, Types, FollowInv, LivingMemory
  <2> QED  BY <2>2, <2>3, <2>4 DEF TypeOK
<1> QED  BY Invariance, RowsFollow, <1>1, <1>2, <1>3, PTL DEF Spec

----------------------------------------------------------------------------
\* The news of a followed case (WatchNews).

\* What is read of a case, the card that is made of it and its snapshot.
PageOK(p) ==
    /\ p = [status |-> p.status, price |-> p.price, due |-> p.due, events |-> p.events,
            files |-> p.files]
    /\ p.status \in Statuses \union {Absent} /\ p.events \subseteq {1}
    /\ DOMAIN p.files \subseteq Urls
SnapOK(s) ==
    /\ DOMAIN s.files \subseteq Urls /\ s.events \subseteq {1}
    /\ DOMAIN s.checked \subseteq DOMAIN s.files
    /\ \A f \in DOMAIN s.checked : s.checked[f] \in Nat
CardOK(c) == c.status \in Statuses /\ c.label \in Statuses \union {Absent} /\ SnapOK(c.snap)

\* A reader has the card he began with and, while he waits for a file, the page.
ReaderOK(w) ==
    /\ w = [at |-> w.at, copy |-> w.copy, seen |-> w.seen, today |-> w.today, row |-> w.row]
    /\ w.at \in {"idle", "reading", "probing"}
    /\ w.at # "idle" => CardOK(w.copy)
    /\ w.at = "probing" => PageOK(w.seen) /\ DOMAIN w.seen.files # {}

InboxOK == inbox \in Seq(Range(inbox))
NewsTypes ==
    /\ PageOK(page) /\ CardOK(card) /\ InboxOK /\ dismissed \subseteq DOMAIN inbox
    /\ ReaderOK(watch) /\ ReaderOK(desk)
    /\ desk.at # "probing" /\ desk.row \in DOMAIN inbox \union {0}

\* Until two readings overlapped, a row was consumed by another change, or the field
\* vanished for a while, its rows are the story, and what has no value has no rows.
Untroubled == gaps \intersect {Field("overlap"), Field("consumed")} = {}
Before(box, start, a, n) ==
    LET told == {i \in 1..(n - 1) : box[i].about = a}
    IN  IF told = {} THEN start ELSE box[Max(told)].is
Tells(box, start, snap, a) ==
    /\ \A i \in DOMAIN box : box[i].about = a => box[i].was = Before(box, start, a, i)
    /\ Value(snap, a) = Before(box, start, a, Len(box) + 1)
    /\ Optional(a) => \A i \in DOMAIN box : box[i].about = a => box[i].is # Absent /\ start # Absent
StoryInv ==
    /\ ~ card.snap.read => inbox = << >>
    /\ Untroubled => \A a \in Abouts \ gaps : Tells(inbox, first[a], card.snap, a)

NewsInv == NewsTypes /\ EventsAreToldOnce /\ StoryInv

----------------------------------------------------------------------------
\* Sequences and finite sets.

LEMMA Enumerated ==
    ASSUME NEW S, IsFiniteSet(S)
    PROVE  /\ SetToSeq(S) \in Seq(S)
           /\ \A i, j \in DOMAIN SetToSeq(S) : SetToSeq(S)[i] = SetToSeq(S)[j] => i = j
           /\ \A r \in S : \E i \in DOMAIN SetToSeq(S) : SetToSeq(S)[i] = r
<1> DEFINE n == Cardinality(S)
           t == SetToSeq(S)
<1>1. n \in Nat /\ ExistsBijection(1..n, S)  BY FS_CardinalityType
<1>2. PICK f \in Bijection(1..n, S) : TRUE  BY <1>1 DEF ExistsBijection
<1>3. f \in [1..n -> S] /\ IsInjective(f)  BY <1>2 DEF Bijection, Injection
<1>4. t = CHOOSE g \in [1..n -> S] : IsInjective(g)  BY DEF SetToSeq
<1> HIDE DEF n, t
<1>5. t \in [1..n -> S] /\ IsInjective(t)  BY <1>3, <1>4
<1>6. t \in Injection(1..n, S)  BY <1>5 DEF Injection
<1>7. IsFiniteSet(1..n) /\ Cardinality(1..n) = n
  BY <1>1, FS_Interval
<1>8. t \in Surjection(1..n, S)  BY <1>6, <1>7, FS_Injection DEF n
<1>9. t \in Seq(S) /\ DOMAIN t = 1..n  BY <1>1, <1>5
<1> QED  BY <1>5, <1>8, <1>9 DEF t, IsInjective, Surjection

LEMMA ImageIsFinite ==
    ASSUME NEW S, IsFiniteSet(S), NEW g
    PROVE  IsFiniteSet({g[x] : x \in S})
<1> DEFINE T == {g[x] : x \in S}
           h == [x \in S |-> g[x]]
<1>1. h \in Surjection(S, T)  BY DEF Surjection
<1> QED  BY <1>1, FS_Surjection

LEMMA Concatenated ==
    ASSUME NEW S, NEW T, NEW s \in Seq(S), NEW t \in Seq(T)
    PROVE  /\ s \o t \in Seq(S \union T) /\ Len(s \o t) = Len(s) + Len(t)
           /\ DOMAIN (s \o t) = 1..(Len(s) + Len(t))
           /\ \A i \in 1..Len(s) : (s \o t)[i] = s[i]
           /\ \A i \in 1..Len(t) : (s \o t)[Len(s) + i] = t[i]
<1>1. s \in Seq(S \union T) /\ t \in Seq(S \union T)  OBVIOUS
<1>2. Len(s) \in Nat /\ Len(t) \in Nat  OBVIOUS
<1>3. s \o t \in Seq(S \union T) /\ Len(s \o t) = Len(s) + Len(t)  BY <1>1
<1>4. ASSUME NEW i \in 1..Len(s) PROVE (s \o t)[i] = s[i]  BY <1>1
<1>5. ASSUME NEW i \in 1..Len(t) PROVE (s \o t)[Len(s) + i] = t[i]  BY <1>1, <1>2
<1>6. DOMAIN (s \o t) = 1..(Len(s) + Len(t))  BY <1>3
<1> QED  BY <1>3, <1>4, <1>5, <1>6

\* A set of naturals has a least element.
LEMMA LeastOf ==
    ASSUME NEW S, S \subseteq Nat, S # {}
    PROVE  \E m \in S : \A n \in S : m <= n
<1> DEFINE R == {ss \in Nat \X Nat : ss[1] < ss[2]}
<1>1. IsWellFoundedOn(R, Nat)  BY NatLessThanWellFounded DEF OpToRel
<1>2. PICK m \in S : \A n \in S : <<n, m>> \notin R
  <2> HIDE DEF R
  <2> QED  BY <1>1, WFMin
<1>3. \A n \in S : ~ n < m
  <2> SUFFICES ASSUME NEW n \in S, n < m PROVE FALSE  OBVIOUS
  <2>1. <<n, m>> \in Nat \X Nat /\ <<n, m>>[1] = n /\ <<n, m>>[2] = m  OBVIOUS
  <2>2. <<n, m>> \in R  BY <2>1
  <2> QED  BY <1>2, <2>2
<1> QED  BY <1>3

\* The file that is tried next is one that is listed.
LEMMA TargetIsListed ==
    ASSUME NEW checked, NEW listed, listed \subseteq Urls, listed # {},
           \A f \in DOMAIN checked : checked[f] \in Nat
    PROVE  NextTarget(checked, listed) \in listed
<1> DEFINE key == [f \in listed |-> IF f \in DOMAIN checked THEN checked[f] ELSE 0]
<1>1. \A f \in listed : key[f] \in Nat  OBVIOUS
<1>2. listed \subseteq Nat  BY NewsBounds
<1>3. NextTarget(checked, listed) = FirstBy(key, listed)  BY DEF NextTarget
<1> HIDE DEF key
<1>4. PICK k \in {key[f] : f \in listed} : \A n \in {key[f] : f \in listed} : k <= n
  <2>1. {key[f] : f \in listed} \subseteq Nat /\ {key[f] : f \in listed} # {}  BY <1>1
  <2> QED  BY <2>1, LeastOf
<1> DEFINE least == {f \in listed : key[f] = k}
<1>5. PICK m \in least : \A f \in least : m <= f
  <2>1. least \subseteq Nat /\ least # {}  BY <1>2, <1>4
  <2> HIDE DEF least
  <2> QED  BY <2>1, LeastOf
<1>6. \A g \in listed : key[m] < key[g] \/ (key[m] = key[g] /\ m <= g)
  BY <1>1, <1>4, <1>5
<1> QED  BY <1>3, <1>5, <1>6 DEF FirstBy

----------------------------------------------------------------------------
\* What a field was last told to be.

LEMMA MaxOfTold ==
    ASSUME NEW n \in Nat, NEW S, S \subseteq 1..n, S # {}
    PROVE  Max(S) \in S /\ \A i \in S : i <= Max(S)
<1> DEFINE up == {k \in Nat : \A i \in S : i <= k}
<1>1. n \in up /\ up \subseteq Nat  OBVIOUS
<1>2. PICK m \in up : \A k \in up : m <= k
  <2> HIDE DEF up
  <2> QED  BY <1>1, LeastOf
<1>3. m \in S
  <2> SUFFICES ASSUME m \notin S PROVE FALSE  OBVIOUS
  <2>1. PICK i \in S : TRUE  OBVIOUS
  <2>2. m >= 1 /\ m - 1 \in Nat  BY <1>2, <2>1
  <2>3. \A j \in S : j <= m - 1  BY <1>2, <2>2
  <2> QED  BY <1>2, <2>2, <2>3
<1>4. \E x \in S : \A y \in S : x >= y  BY <1>2, <1>3
<1>5. Max(S) \in S /\ \A y \in S : Max(S) >= y  BY <1>4 DEF Max
<1> QED  BY <1>5

LEMMA BeforeIsSame ==
    ASSUME NEW box, NEW box2, NEW start, NEW a, NEW n \in Nat,
           \A i \in 1..(n - 1) : box2[i] = box[i]
    PROVE  Before(box2, start, a, n) = Before(box, start, a, n)
<1> DEFINE told  == {i \in 1..(n - 1) : box[i].about = a}
           told2 == {i \in 1..(n - 1) : box2[i].about = a}
<1>1. told2 = told /\ told \subseteq 1..n /\ told \subseteq 1..(n - 1)  OBVIOUS
<1>2. told # {} => Max(told) \in 1..(n - 1)
  <2> HIDE DEF told
  <2> QED  BY <1>1, MaxOfTold
<1>3. /\ Before(box, start, a, n) = IF told = {} THEN start ELSE box[Max(told)].is
      /\ Before(box2, start, a, n) = IF told2 = {} THEN start ELSE box2[Max(told2)].is
  BY DEF Before
<1> HIDE DEF told, told2
<1> QED  BY <1>1, <1>2, <1>3

LEMMA BeforeNothing ==
    ASSUME NEW box, NEW start, NEW a, NEW m \in Nat, NEW n \in Nat, m <= n,
           \A i \in 1..(n - 1) : box[i].about = a => i < m
    PROVE  Before(box, start, a, n) = Before(box, start, a, m)
<1>1. {i \in 1..(n - 1) : box[i].about = a} = {i \in 1..(m - 1) : box[i].about = a}  OBVIOUS
<1> QED  BY <1>1 DEF Before

LEMMA BeforeIsTheLast ==
    ASSUME NEW box, NEW start, NEW a, NEW n \in Nat, NEW k \in 1..n, box[k].about = a,
           \A i \in 1..n : box[i].about = a => i <= k
    PROVE  Before(box, start, a, n + 1) = box[k].is
<1> DEFINE told == {i \in 1..n : box[i].about = a}
<1>1. told \subseteq 1..n /\ k \in told /\ (n + 1) - 1 = n  OBVIOUS
<1>2. Max(told) \in told /\ \A i \in told : i <= Max(told)
  <2> HIDE DEF told
  <2> QED  BY <1>1, MaxOfTold
<1>3. Max(told) = k  BY <1>1, <1>2
<1>4. told # {}  BY <1>1
<1>5. Before(box, start, a, n + 1) = IF told = {} THEN start ELSE box[Max(told)].is
  BY <1>1 DEF Before
<1> HIDE DEF told
<1> QED  BY <1>3, <1>4, <1>5

LEMMA BeforeAtFirst ==
    ASSUME NEW box, NEW start, NEW a, NEW n, \A i \in 1..(n - 1) : box[i].about # a
    PROVE  Before(box, start, a, n) = start
<1>1. {i \in 1..(n - 1) : box[i].about = a} = {}  OBVIOUS
<1> QED  BY <1>1 DEF Before

LEMMA BeforeIsTold ==
    ASSUME NEW box, NEW start, NEW a, NEW n \in Nat,
           Before(box, start, a, n + 1) # start
    PROVE  \E i \in 1..n : box[i].about = a /\ Before(box, start, a, n + 1) = box[i].is
<1> DEFINE told == {i \in 1..n : box[i].about = a}
<1>1. told \subseteq 1..n /\ (n + 1) - 1 = n  OBVIOUS
<1>2. Before(box, start, a, n + 1) = IF told = {} THEN start ELSE box[Max(told)].is
  BY <1>1 DEF Before
<1>3. told # {} => Max(told) \in told
  <2> HIDE DEF told
  <2> QED  BY <1>1, MaxOfTold
<1>4. told # {}
  <2> HIDE DEF told
  <2> QED  BY <1>2
<1>5. Max(told) \in 1..n /\ box[Max(told)].about = a  BY <1>3, <1>4
<1>6. Before(box, start, a, n + 1) = box[Max(told)].is
  <2> HIDE DEF told
  <2> QED  BY <1>2, <1>4
<1> HIDE DEF told
<1> QED  BY <1>5, <1>6

----------------------------------------------------------------------------
\* A reading adds rows to the inbox: none about a field, or one that begins at what
\* was shown and ends at what is.

LEMMA TellsNothing ==
    ASSUME NEW S, NEW T, NEW box \in Seq(S), NEW t \in Seq(T), NEW start, NEW snap, NEW now, NEW a,
           Tells(box, start, snap, a), Value(now, a) = Value(snap, a),
           \A i \in DOMAIN t : t[i].about # a
    PROVE  Tells(box \o t, start, now, a)
<1> DEFINE b2 == box \o t
           m == Len(box)
           n == Len(box) + Len(t)
<1>1. /\ m \in Nat /\ n \in Nat /\ m <= n /\ Len(b2) = n /\ DOMAIN b2 = 1..n
      /\ DOMAIN box = 1..m /\ DOMAIN t = 1..Len(t) /\ Len(t) \in Nat
      /\ \A i \in 1..m : b2[i] = box[i]
      /\ \A i \in 1..Len(t) : b2[m + i] = t[i]
  BY Concatenated
<1> HIDE DEF b2
<1>2. \A i \in 1..n : b2[i].about = a => i \in 1..m
  <2> SUFFICES ASSUME NEW i \in 1..n, b2[i].about = a, ~ i <= m PROVE FALSE  BY <1>1
  <2>1. i - m \in 1..Len(t) /\ m + (i - m) = i  BY <1>1
  <2> QED  BY <1>1, <2>1
<1> HIDE DEF n, m
<1>3. \A i \in 1..m : Before(b2, start, a, i) = Before(box, start, a, i)
  <2> SUFFICES ASSUME NEW i \in 1..m PROVE Before(b2, start, a, i) = Before(box, start, a, i)  OBVIOUS
  <2>1. i \in Nat /\ \A k \in 1..(i - 1) : b2[k] = box[k]  BY <1>1
  <2> QED  BY <2>1, BeforeIsSame
<1>4. Before(b2, start, a, m + 1) = Before(box, start, a, m + 1)
  BY <1>1, BeforeIsSame
<1>5. Before(b2, start, a, n + 1) = Before(b2, start, a, m + 1)
  <2>1. \A i \in 1..((n + 1) - 1) : b2[i].about = a => i < m + 1  BY <1>1, <1>2
  <2> QED  BY <1>1, <2>1, BeforeNothing
<1>6. /\ \A i \in 1..m : box[i].about = a => box[i].was = Before(box, start, a, i)
      /\ Value(snap, a) = Before(box, start, a, m + 1)
      /\ Optional(a) => \A i \in 1..m : box[i].about = a => box[i].is # Absent /\ start # Absent
  BY <1>1 DEF Tells, m
<1>7. \A i \in 1..n : b2[i].about = a => b2[i].was = Before(b2, start, a, i)
  BY <1>1, <1>2, <1>3, <1>6
<1>8. Value(now, a) = Before(b2, start, a, n + 1)
  BY <1>4, <1>5, <1>6
<1>9. Optional(a) => \A i \in 1..n : b2[i].about = a => b2[i].is # Absent /\ start # Absent
  BY <1>1, <1>2, <1>6
<1> QED  BY <1>1, <1>7, <1>8, <1>9 DEF Tells, b2

LEMMA TellsOne ==
    ASSUME NEW S, NEW T, NEW box \in Seq(S), NEW t \in Seq(T), NEW start, NEW snap, NEW now, NEW a,
           Tells(box, start, snap, a),
           NEW k \in DOMAIN t, t[k] = Row(a, Value(snap, a), Value(now, a)),
           \A i \in DOMAIN t : t[i].about = a => i = k,
           Optional(a) => Value(snap, a) # Absent /\ Value(now, a) # Absent
    PROVE  Tells(box \o t, start, now, a)
<1> DEFINE b2 == box \o t
           m == Len(box)
           n == Len(box) + Len(t)
<1>1. /\ m \in Nat /\ n \in Nat /\ m <= n /\ Len(b2) = n /\ DOMAIN b2 = 1..n
      /\ DOMAIN box = 1..m /\ DOMAIN t = 1..Len(t) /\ Len(t) \in Nat
      /\ \A i \in 1..m : b2[i] = box[i]
      /\ \A i \in 1..Len(t) : b2[m + i] = t[i]
  BY Concatenated
<1> HIDE DEF b2
<1>r. k \in 1..Len(t) /\ m + k \in 1..n /\ k \in Nat  BY <1>1
<1>k. /\ b2[m + k] = t[k] /\ b2[m + k].about = a
      /\ b2[m + k].was = Value(snap, a) /\ b2[m + k].is = Value(now, a)
  BY <1>1, <1>r DEF Row
<1>2. \A i \in 1..n : b2[i].about = a => i \in 1..m \/ i = m + k
  <2> SUFFICES ASSUME NEW i \in 1..n, b2[i].about = a, ~ i <= m PROVE i = m + k  BY <1>1
  <2>1. i - m \in 1..Len(t) /\ m + (i - m) = i  BY <1>1
  <2>2. i - m = k  BY <1>1, <2>1
  <2> QED  BY <1>1, <2>1, <2>2
<1> HIDE DEF n, m
<1>3. \A i \in 1..m : Before(b2, start, a, i) = Before(box, start, a, i)
  <2> SUFFICES ASSUME NEW i \in 1..m PROVE Before(b2, start, a, i) = Before(box, start, a, i)  OBVIOUS
  <2>1. i \in Nat /\ \A j \in 1..(i - 1) : b2[j] = box[j]  BY <1>1
  <2> QED  BY <2>1, BeforeIsSame
<1>4. Before(b2, start, a, m + 1) = Before(box, start, a, m + 1)
  BY <1>1, BeforeIsSame
<1>5. Before(b2, start, a, m + k) = Before(b2, start, a, m + 1)
  <2>1. \A i \in 1..((m + k) - 1) : b2[i].about = a => i < m + 1  BY <1>1, <1>2, <1>r
  <2>2. m + k \in Nat /\ m + 1 \in Nat /\ m + 1 <= m + k  BY <1>1, <1>r
  <2> QED  BY <2>1, <2>2, BeforeNothing
<1>5a. Before(b2, start, a, n + 1) = b2[m + k].is
  <2>1. \A i \in 1..n : b2[i].about = a => i <= m + k  BY <1>1, <1>2, <1>r
  <2>2. n \in Nat /\ m + k \in 1..n /\ b2[m + k].about = a  BY <1>1, <1>r, <1>k
  <2> QED  BY ONLY <2>1, <2>2, BeforeIsTheLast
<1>6. /\ \A i \in 1..m : box[i].about = a => box[i].was = Before(box, start, a, i)
      /\ Value(snap, a) = Before(box, start, a, m + 1)
      /\ Optional(a) => \A i \in 1..m : box[i].about = a => box[i].is # Absent /\ start # Absent
  BY <1>1 DEF Tells, m
<1>7. \A i \in 1..n : b2[i].about = a => b2[i].was = Before(b2, start, a, i)
  <2> SUFFICES ASSUME NEW i \in 1..n, b2[i].about = a PROVE b2[i].was = Before(b2, start, a, i)  OBVIOUS
  <2>1. CASE i \in 1..m  BY <1>1, <1>3, <1>6, <2>1
  <2>2. CASE i = m + k  BY <1>4, <1>5, <1>6, <1>k, <2>2
  <2> QED  BY <1>2, <2>1, <2>2
<1>8. Value(now, a) = Before(b2, start, a, n + 1)
  BY <1>5a, <1>k
<1>9. Optional(a) => \A i \in 1..n : b2[i].about = a => b2[i].is # Absent /\ start # Absent
  <2> SUFFICES ASSUME Optional(a) PROVE \A i \in 1..n : b2[i].about = a => b2[i].is # Absent /\ start # Absent
    OBVIOUS
  <2>1. start # Absent
    <3>1. CASE Before(box, start, a, m + 1) = start  BY <1>6, <3>1
    <3>2. CASE Before(box, start, a, m + 1) # start
      BY <1>1, <1>6, <3>2, BeforeIsTold
    <3> QED  BY <3>1, <3>2
  <2> QED  BY <1>1, <1>2, <1>6, <1>k, <2>1
<1> QED  BY <1>1, <1>7, <1>8, <1>9 DEF Tells, b2

\* What shows no value has no story yet: it begins with its first value.
LEMMA TellsFirst ==
    ASSUME NEW S, NEW T, NEW box \in Seq(S), NEW t \in Seq(T), NEW start, NEW snap, NEW now, NEW a,
           Tells(box, start, snap, a), Optional(a), Value(snap, a) = Absent,
           \A i \in DOMAIN t : t[i].about # a
    PROVE  start = Absent /\ Tells(box \o t, Value(now, a), now, a)
<1> DEFINE b2 == box \o t
           m == Len(box)
           n == Len(box) + Len(t)
<1>1. /\ m \in Nat /\ n \in Nat /\ m <= n /\ Len(b2) = n /\ DOMAIN b2 = 1..n
      /\ DOMAIN box = 1..m /\ DOMAIN t = 1..Len(t) /\ Len(t) \in Nat
      /\ \A i \in 1..m : b2[i] = box[i]
      /\ \A i \in 1..Len(t) : b2[m + i] = t[i]
  BY Concatenated
<1> HIDE DEF b2
<1>2. /\ Before(box, start, a, m + 1) = Absent
      /\ \A i \in 1..m : box[i].about = a => box[i].is # Absent /\ start # Absent
  BY <1>1 DEF Tells, m
<1> HIDE DEF m
<1>3. start = Absent
  <2> SUFFICES ASSUME start # Absent PROVE FALSE  OBVIOUS
  <2>1. PICK i \in 1..m : box[i].about = a /\ Before(box, start, a, m + 1) = box[i].is
    BY <1>1, <1>2, BeforeIsTold
  <2> QED  BY <1>2, <2>1
<1>4. \A i \in 1..m : box[i].about # a  BY <1>2, <1>3
<1>5. \A i \in 1..n : b2[i].about # a
  <2> SUFFICES ASSUME NEW i \in 1..n, b2[i].about = a PROVE FALSE  OBVIOUS
  <2>1. CASE i <= m  BY <1>1, <1>4, <2>1
  <2>2. CASE ~ i <= m
    <3>1. i - m \in 1..Len(t) /\ m + (i - m) = i  BY <1>1, <2>2
    <3> QED  BY <1>1, <3>1
  <2> QED  BY <2>1, <2>2
<1> HIDE DEF n
<1>6. Before(b2, Value(now, a), a, n + 1) = Value(now, a)
  <2>1. \A i \in 1..((n + 1) - 1) : b2[i].about # a  BY <1>1, <1>5
  <2> QED  BY <2>1, BeforeAtFirst
<1> QED  BY <1>1, <1>3, <1>5, <1>6 DEF Tells, b2

----------------------------------------------------------------------------
\* What a difference says of a field: the two values, if they differ and, where a
\* missing value is no news, neither is missing.

LEMMA RowOf ==
    ASSUME NEW about, NEW was, NEW is
    PROVE  /\ Row(about, was, is).about = about
           /\ Row(about, was, is).was = was /\ Row(about, was, is).is = is
  BY DEF Row

LEMMA AboutOf ==
    ASSUME NEW x, NEW f
    PROVE  About(x, f).field = x /\ About(x, f).file = f /\ Field(x) = About(x, Absent)
  BY DEF About, Field

LEMMA AlteredSays ==
    ASSUME NEW b, NEW was, NEW is, NEW r
    PROVE  r \in Altered(b, was, is)
              <=> r = Row(b, was, is) /\ was # is /\ was # Absent /\ is # Absent
  BY DEF Altered

LEMMA DiffParts ==
    ASSUME NEW was, NEW now, NEW r
    PROVE  r \in Diff(was, now)
              <=> \/ r = Row(Field("status"), was.status, now.status) /\ was.status # now.status
                  \/ r \in Altered(Field("price"), was.price, now.price)
                  \/ r \in Altered(Field("due"), was.due, now.due)
                  \/ \E f \in DOMAIN now.files \ DOMAIN was.files : r = Row(About("listing", f), Absent, f)
                  \/ \E f \in DOMAIN was.files \ DOMAIN now.files : r = Row(About("listing", f), f, Absent)
                  \/ \E f \in DOMAIN was.files \cap DOMAIN now.files :
                        r \in Altered(About("content", f), was.files[f], now.files[f])
                  \/ \E e \in now.events \ was.events : r = Row(Field("event"), Absent, e)
<1> DEFINE status  == IF was.status = now.status THEN {}
                      ELSE {Row(Field("status"), was.status, now.status)}
           price   == Altered(Field("price"), was.price, now.price)
           due     == Altered(Field("due"), was.due, now.due)
           added   == {Row(About("listing", f), Absent, f) : f \in DOMAIN now.files \ DOMAIN was.files}
           removed    == {Row(About("listing", f), f, Absent) : f \in DOMAIN was.files \ DOMAIN now.files}
           content == UNION {Altered(About("content", f), was.files[f], now.files[f]) :
                                 f \in DOMAIN was.files \cap DOMAIN now.files}
           event   == {Row(Field("event"), Absent, e) : e \in now.events \ was.events}
<1>1. r \in status <=> r = Row(Field("status"), was.status, now.status) /\ was.status # now.status
  OBVIOUS
<1>2. r \in added <=> \E f \in DOMAIN now.files \ DOMAIN was.files : r = Row(About("listing", f), Absent, f)
  OBVIOUS
<1>3. r \in removed <=> \E f \in DOMAIN was.files \ DOMAIN now.files : r = Row(About("listing", f), f, Absent)
  OBVIOUS
<1>4. r \in content <=> \E f \in DOMAIN was.files \cap DOMAIN now.files :
                           r \in Altered(About("content", f), was.files[f], now.files[f])
  OBVIOUS
<1>5. r \in event <=> \E e \in now.events \ was.events : r = Row(Field("event"), Absent, e)
  OBVIOUS
<1>6. Diff(was, now)
         = status \union price \union due \union added \union removed \union content \union event
  BY DEF Diff
<1> HIDE DEF status, added, removed, content, event
<1>7. r \in Diff(was, now)
         <=> \/ r \in status \/ r \in price \/ r \in due \/ r \in added \/ r \in removed
             \/ r \in content \/ r \in event
  BY <1>6
<1> HIDE DEF price, due
<1> QED  BY <1>1, <1>2, <1>3, <1>4, <1>5, <1>7 DEF price, due

LEMMA DiffSays ==
    ASSUME NEW was, NEW now, NEW a \in Abouts, NEW r, r.about = a,
           DOMAIN was.files \subseteq Urls, DOMAIN now.files \subseteq Urls
    PROVE  r \in Diff(was, now)
              <=> /\ r = Row(a, Value(was, a), Value(now, a))
                  /\ Value(was, a) # Value(now, a)
                  /\ Optional(a) => Value(was, a) # Absent /\ Value(now, a) # Absent
<1>d. r \in Diff(was, now)
         <=> \/ r = Row(Field("status"), was.status, now.status) /\ was.status # now.status
             \/ r \in Altered(Field("price"), was.price, now.price)
             \/ r \in Altered(Field("due"), was.due, now.due)
             \/ \E f \in DOMAIN now.files \ DOMAIN was.files : r = Row(About("listing", f), Absent, f)
             \/ \E f \in DOMAIN was.files \ DOMAIN now.files : r = Row(About("listing", f), f, Absent)
             \/ \E f \in DOMAIN was.files \cap DOMAIN now.files :
                   r \in Altered(About("content", f), was.files[f], now.files[f])
             \/ \E e \in now.events \ was.events : r = Row(Field("event"), Absent, e)
  BY DiffParts
<1>a. \A x, f : About(x, f).field = x /\ About(x, f).file = f /\ Field(x) = About(x, Absent)
  BY AboutOf
<1>r. \A b, v, w : Row(b, v, w).about = b  BY RowOf
<1>p. \A b, v, w : r \in Altered(b, v, w) <=> r = Row(b, v, w) /\ v # w /\ v # Absent /\ w # Absent
  BY AlteredSays
<1>u. Absent \notin Urls  BY NewsBounds
<1>1. CASE a = Field("status")
  <2>1. Value(was, a) = was.status /\ Value(now, a) = now.status /\ ~ Optional(a)
    BY <1>1, <1>a DEF Value, Optional
  <2> QED  BY <1>1, <1>d, <1>a, <1>r, <1>p, <2>1
<1>2. CASE a = Field("price")
  <2>1. Value(was, a) = was.price /\ Value(now, a) = now.price /\ Optional(a)
    BY <1>2, <1>a DEF Value, Optional
  <2> QED  BY <1>2, <1>d, <1>a, <1>r, <1>p, <2>1
<1>3. CASE a = Field("due")
  <2>1. Value(was, a) = was.due /\ Value(now, a) = now.due /\ Optional(a)
    BY <1>3, <1>a DEF Value, Optional
  <2> QED  BY <1>3, <1>d, <1>a, <1>r, <1>p, <2>1
<1>4. ASSUME NEW f \in Urls, a = About("listing", f)
      PROVE  r \in Diff(was, now)
                <=> /\ r = Row(a, Value(was, a), Value(now, a))
                    /\ Value(was, a) # Value(now, a)
                    /\ Optional(a) => Value(was, a) # Absent /\ Value(now, a) # Absent
  <2>1. /\ Value(was, a) = IF f \in DOMAIN was.files THEN f ELSE Absent
        /\ Value(now, a) = IF f \in DOMAIN now.files THEN f ELSE Absent
        /\ ~ Optional(a)
    BY <1>4, <1>a DEF Value, Optional
  <2>2. \A g : About("listing", g) = a => g = f  BY <1>4, <1>a
  <2>3. r \in Diff(was, now)
           <=> \/ f \in DOMAIN now.files \ DOMAIN was.files /\ r = Row(a, Absent, f)
               \/ f \in DOMAIN was.files \ DOMAIN now.files /\ r = Row(a, f, Absent)
    BY <1>4, <1>d, <1>a, <1>r, <1>p, <2>2
  <2> QED  BY <1>u, <2>1, <2>3
<1>5. ASSUME NEW f \in Urls, a = About("content", f)
      PROVE  r \in Diff(was, now)
                <=> /\ r = Row(a, Value(was, a), Value(now, a))
                    /\ Value(was, a) # Value(now, a)
                    /\ Optional(a) => Value(was, a) # Absent /\ Value(now, a) # Absent
  <2>1. /\ Value(was, a) = IF f \in DOMAIN was.files THEN was.files[f] ELSE Absent
        /\ Value(now, a) = IF f \in DOMAIN now.files THEN now.files[f] ELSE Absent
        /\ Optional(a)
    BY <1>5, <1>a DEF Value, Optional
  <2>2. \A g : About("content", g) = a => g = f  BY <1>5, <1>a
  <2>3. r \in Diff(was, now)
           <=> /\ f \in DOMAIN was.files \cap DOMAIN now.files
               /\ r = Row(a, was.files[f], now.files[f]) /\ was.files[f] # now.files[f]
               /\ was.files[f] # Absent /\ now.files[f] # Absent
    BY <1>5, <1>d, <1>a, <1>r, <1>p, <2>2
  <2> QED  BY <2>1, <2>3
<1> QED  BY <1>1, <1>2, <1>3, <1>4, <1>5 DEF Abouts

\* The rows a reading may tell are finitely many.
LEMMA DiffIsFinite ==
    ASSUME NEW was, NEW now, DOMAIN was.files \subseteq Urls, DOMAIN now.files \subseteq Urls,
           now.events \subseteq {1}
    PROVE  IsFiniteSet(Diff(was, now))
<1> DEFINE added   == {Row(About("listing", f), Absent, f) : f \in DOMAIN now.files \ DOMAIN was.files}
           removed    == {Row(About("listing", f), f, Absent) : f \in DOMAIN was.files \ DOMAIN now.files}
           content == {Row(About("content", f), was.files[f], now.files[f]) : f \in Urls}
           event   == {Row(Field("event"), Absent, e) : e \in now.events \ was.events}
           single  == {Row(Field("status"), was.status, now.status), Row(Field("price"), was.price, now.price),
                       Row(Field("due"), was.due, now.due)}
<1>1. IsFiniteSet(Urls)  BY NewsBounds
<1>2. IsFiniteSet(added)
  <2> DEFINE g == [f \in Urls |-> Row(About("listing", f), Absent, f)]
  <2>1. IsFiniteSet({g[f] : f \in Urls})
    <3> HIDE DEF g
    <3> QED  BY <1>1, ImageIsFinite
  <2>2. added \subseteq {g[f] : f \in Urls}  OBVIOUS
  <2> QED  BY <2>1, <2>2, FS_Subset
<1>3. IsFiniteSet(removed)
  <2> DEFINE g == [f \in Urls |-> Row(About("listing", f), f, Absent)]
  <2>1. IsFiniteSet({g[f] : f \in Urls})
    <3> HIDE DEF g
    <3> QED  BY <1>1, ImageIsFinite
  <2>2. removed \subseteq {g[f] : f \in Urls}  OBVIOUS
  <2> QED  BY <2>1, <2>2, FS_Subset
<1>4. IsFiniteSet(content)
  <2> DEFINE g == [f \in Urls |-> Row(About("content", f), was.files[f], now.files[f])]
  <2>1. IsFiniteSet({g[f] : f \in Urls})
    <3> HIDE DEF g
    <3> QED  BY <1>1, ImageIsFinite
  <2>2. content \subseteq {g[f] : f \in Urls}  OBVIOUS
  <2> QED  BY <2>1, <2>2, FS_Subset
<1>5. IsFiniteSet(event)
  <2> DEFINE e == Row(Field("event"), Absent, 1)
  <2>1. event \subseteq {e}  OBVIOUS
  <2> HIDE DEF e, event
  <2>2. IsFiniteSet({e})  BY FS_Singleton
  <2> QED  BY <2>1, <2>2, FS_Subset
<1>6. IsFiniteSet(single)
  <2> DEFINE s == Row(Field("status"), was.status, now.status)
             p == Row(Field("price"), was.price, now.price)
             d == Row(Field("due"), was.due, now.due)
  <2>1. single = {s} \union ({p} \union {d})  OBVIOUS
  <2> HIDE DEF s, p, d, single
  <2>2. IsFiniteSet({s}) /\ IsFiniteSet({p}) /\ IsFiniteSet({d})  BY FS_Singleton
  <2>3. IsFiniteSet({p} \union {d})  BY <2>2, FS_Union
  <2> QED  BY <2>1, <2>2, <2>3, FS_Union
<1>7. Diff(was, now) \subseteq single \union (added \union (removed \union (content \union event)))
  <2> SUFFICES ASSUME NEW r \in Diff(was, now)
               PROVE  r \in single \/ r \in added \/ r \in removed \/ r \in content \/ r \in event
    OBVIOUS
  <2>a. \A b, v, w : r \in Altered(b, v, w) => r = Row(b, v, w)  BY AlteredSays
  <2>1. \/ r = Row(Field("status"), was.status, now.status)
        \/ r \in Altered(Field("price"), was.price, now.price)
        \/ r \in Altered(Field("due"), was.due, now.due)
        \/ r \in added \/ r \in removed
        \/ \E f \in DOMAIN was.files \cap DOMAIN now.files :
              r \in Altered(About("content", f), was.files[f], now.files[f])
        \/ r \in event
    BY DiffParts
  <2>2. CASE \E f \in DOMAIN was.files \cap DOMAIN now.files :
                r \in Altered(About("content", f), was.files[f], now.files[f])
    BY <2>a, <2>2
  <2> QED  BY <2>a, <2>1, <2>2
<1> HIDE DEF added, removed, content, event, single
<1>8. IsFiniteSet(content \union event)  BY <1>4, <1>5, FS_Union
<1>9. IsFiniteSet(removed \union (content \union event))  BY <1>3, <1>8, FS_Union
<1>10. IsFiniteSet(added \union (removed \union (content \union event)))  BY <1>2, <1>9, FS_Union
<1>11. IsFiniteSet(single \union (added \union (removed \union (content \union event))))
  BY <1>6, <1>10, FS_Union
<1> QED  BY <1>7, <1>11, FS_Subset

LEMMA StateRowsAre ==
    ASSUME NEW news, NEW due, NEW today
    PROVE  /\ IsFiniteSet(StateRows(news, due, today))
           /\ \A r \in StateRows(news, due, today) : r.about \notin Abouts
<1> DEFINE x == Row(Field("expired"), Absent, Absent)
           s == Row(Field("soon"), Absent, Absent)
<1>1. StateRows(news, due, today) \subseteq {x} \union {s}  BY DEF StateRows
<1>2. x.about = Field("expired") /\ s.about = Field("soon")  BY RowOf
<1>3. Field("expired") \notin Abouts /\ Field("soon") \notin Abouts
  <2>1. Field("expired").field = "expired" /\ Field("soon").field = "soon"  BY AboutOf
  <2>2. \A a \in Abouts : a.field \in {"status", "price", "due", "listing", "content"}
    BY AboutOf DEF Abouts
  <2> QED  BY <2>1, <2>2
<1> HIDE DEF x, s
<1>4. IsFiniteSet({x} \union {s})  BY FS_Singleton, FS_Union
<1>5. IsFiniteSet(StateRows(news, due, today))  BY <1>1, <1>4, FS_Subset
<1> QED  BY <1>1, <1>2, <1>3, <1>5

----------------------------------------------------------------------------
\* What a reading makes of the card and of the inbox.

LEMMA SnapshotIs ==
    ASSUME NEW was, NEW served, NEW probed, SnapOK(was), PageOK(served), DOMAIN probed \subseteq DOMAIN served.files
    PROVE  /\ SnapOK(Snapshot(was, served, probed)) /\ Snapshot(was, served, probed).read
           /\ Snapshot(was, served, probed).status = served.status
           /\ Snapshot(was, served, probed).files = Baselines(was.files, DOMAIN served.files, probed)
<1> DEFINE s == Snapshot(was, served, probed)
           listed == DOMAIN served.files
           tried == DOMAIN probed
           others == (DOMAIN was.checked \intersect listed) \ tried
<1>1. /\ s.files = Baselines(was.files, listed, probed) /\ s.events = served.events
      /\ s.checked = Checked(was.checked, listed, tried) /\ s.read /\ s.status = served.status
  BY DEF Snapshot
<1>2. DOMAIN s.files = listed  BY <1>1 DEF Baselines
<1>3. listed \subseteq Urls /\ served.events \subseteq {1}  BY DEF PageOK
<1>4. s.checked = [f \in others \union tried |->
                      IF f \in tried THEN Cardinality(others) + 1
                      ELSE Cardinality({g \in others : was.checked[g] <= was.checked[f]})]
  BY <1>1 DEF Checked
<1>5. others \subseteq Urls /\ others \union tried \subseteq listed  BY <1>3
<1>6. IsFiniteSet(others)  BY <1>5, NewsBounds, FS_Subset
<1>7. ASSUME NEW T, T \subseteq others PROVE Cardinality(T) \in Nat
  <2> HIDE DEF others
  <2> QED  BY <1>6, <1>7, FS_Subset, FS_CardinalityType
<1>8. ASSUME NEW f \in others \union tried PROVE s.checked[f] \in Nat
  <2> DEFINE T == {g \in others : was.checked[g] <= was.checked[f]}
  <2>1. T \subseteq others /\ others \subseteq others  OBVIOUS
  <2>2. Cardinality(T) \in Nat /\ Cardinality(others) \in Nat
    <3> HIDE DEF T, others
    <3> QED  BY <1>7, <2>1
  <2>3. s.checked[f] = IF f \in tried THEN Cardinality(others) + 1 ELSE Cardinality(T)
    BY <1>4, <1>8
  <2> HIDE DEF s, T, others
  <2> QED  BY <2>2, <2>3
<1>9. DOMAIN s.checked = others \union tried  BY <1>4
<1> HIDE DEF s, others
<1>10. SnapOK(s)  BY <1>1, <1>2, <1>3, <1>5, <1>8, <1>9 DEF SnapOK
<1> QED  BY <1>1, <1>10 DEF s

LEMMA MergedIs ==
    ASSUME NEW old, NEW served, NEW snap, NEW news, CardOK(old), PageOK(served), SnapOK(snap)
    PROVE  CardOK(Merged(old, served, snap, news)) /\ Merged(old, served, snap, news).snap = snap
  BY DEF Merged, CardOK, PageOK

\* A field that lost its value has vanished: a content that was once seen stays with
\* its file while the page lists it.
LEMMA LostIsVanished ==
    ASSUME NEW was, NEW served, NEW probed, NEW a \in Abouts, Optional(a),
           Value(was, a) # Absent, Value(Snapshot(was, served, probed), a) = Absent
    PROVE  a \in Vanished(was, Snapshot(was, served, probed))
<1> DEFINE now == Snapshot(was, served, probed)
<1>1. SUFFICES ASSUME a.field = "content", a.file \in DOMAIN now.files PROVE FALSE
  BY DEF Vanished
<1>2. now.files = Baselines(was.files, DOMAIN served.files, probed)  BY DEF Snapshot
<1> HIDE DEF now
<1>3. now.files[a.file] = Absent /\ Value(now, a) = Absent
  BY <1>1 DEF Value, now
<1>4. a.file \in DOMAIN was.files /\ was.files[a.file] # Absent  BY <1>1 DEF Value
<1>5. a.file \in DOMAIN served.files  BY <1>1, <1>2 DEF Baselines
<1>6. now.files[a.file] = IF Heard(probed, a.file) THEN probed[a.file] ELSE was.files[a.file]
  BY <1>2, <1>4, <1>5 DEF Baselines
<1> QED  BY <1>3, <1>4, <1>6 DEF Heard

LEMMA ApplyKeeps ==
    ASSUME NewsInv, NEW copy, NEW served, NEW probed, NEW today, NEW consumed,
           CardOK(copy), PageOK(served), DOMAIN probed \subseteq DOMAIN served.files,
           Apply(copy, served, probed, today, consumed)
    PROVE  /\ CardOK(card') /\ InboxOK' /\ DOMAIN inbox \subseteq DOMAIN inbox'
           /\ EventsAreToldOnce' /\ StoryInv'
<1> DEFINE was  == copy.snap
           now  == Snapshot(copy.snap, served, probed)
           diff == IF was.read THEN Diff(was, now) ELSE {}
           news == diff \union StateRows(diff, now.due, today)
           told == Recorded(news \ consumed)
           t    == SetToSeq(told)
<1>1. /\ card' = Merged(copy, served, now, news)
      /\ inbox' = inbox \o t
      /\ first' = [a \in Abouts |-> IF ~ was.read \/ (Optional(a) /\ first[a] = Absent)
                                    THEN Value(now, a) ELSE first[a]]
      /\ gaps' = gaps \union Vanished(was, now)
                      \union {Field("overlap") : x \in {copy} \ {card}}
                      \union {Field("consumed") : r \in Recorded(diff) \cap consumed}
  BY DEF Apply
<1>2. SnapOK(was) /\ SnapOK(now) /\ now.read
  BY SnapshotIs DEF CardOK
<1>3. CardOK(card') /\ card'.snap = now
  BY <1>1, <1>2, MergedIs
<1>4. IsFiniteSet(diff)
  <2>1. CASE was.read
    <3> HIDE DEF was, now
    <3>1. IsFiniteSet(Diff(was, now))  BY <1>2, DiffIsFinite DEF SnapOK
    <3> QED  BY <2>1, <3>1
  <2>2. CASE ~ was.read  BY <2>2, FS_EmptySet
  <2> QED  BY <2>1, <2>2
<1>5. IsFiniteSet(told)
  <2> HIDE DEF diff, now
  <2>1. IsFiniteSet(StateRows(diff, now.due, today))  BY StateRowsAre
  <2>2. IsFiniteSet(news)  BY <1>4, <2>1, FS_Union
  <2>3. told \subseteq news  BY DEF Recorded
  <2> HIDE DEF news, told
  <2> QED  BY <2>2, <2>3, FS_Subset
<1>6. /\ \A r : r \in told <=> /\ r \in diff \/ r \in StateRows(diff, now.due, today)
                               /\ r \notin consumed
                               /\ ~ (OnceForEver(r) /\ r \in Range(inbox))
      /\ \A r : r \in Recorded(diff) <=> r \in diff /\ ~ (OnceForEver(r) /\ r \in Range(inbox))
  BY DEF Recorded
<1>7. /\ t \in Seq(told)
      /\ \A i, j \in DOMAIN t : t[i] = t[j] => i = j
      /\ \A r \in told : \E i \in DOMAIN t : t[i] = r
  <2> HIDE DEF told
  <2> QED  BY <1>5, Enumerated
<1> HIDE DEF t
<1>8. inbox \in Seq(Range(inbox))  BY DEF NewsInv, NewsTypes, InboxOK
<1>9. /\ inbox' \in Seq(Range(inbox) \union told) /\ Len(inbox') = Len(inbox) + Len(t)
      /\ DOMAIN inbox' = 1..(Len(inbox) + Len(t))
      /\ \A i \in 1..Len(inbox) : inbox'[i] = inbox[i]
      /\ \A i \in 1..Len(t) : inbox'[Len(inbox) + i] = t[i]
      /\ DOMAIN inbox = 1..Len(inbox) /\ DOMAIN t = 1..Len(t) /\ Len(inbox) \in Nat /\ Len(t) \in Nat
  <2> HIDE DEF told
  <2> QED  BY <1>1, <1>7, <1>8, Concatenated
<1>10. InboxOK' /\ DOMAIN inbox \subseteq DOMAIN inbox'
  <2>1. \A i \in DOMAIN inbox' : inbox'[i] \in Range(inbox')  BY DEF Range
  <2> HIDE DEF told
  <2>2. inbox' \in Seq(Range(inbox'))  BY <1>9, <2>1
  <2>3. DOMAIN inbox \subseteq DOMAIN inbox'  BY <1>9
  <2> QED  BY <2>2, <2>3 DEF InboxOK
<1>11. EventsAreToldOnce'
  <2> SUFFICES ASSUME NEW i \in DOMAIN inbox', NEW j \in DOMAIN inbox',
                      inbox'[i] = inbox'[j], inbox'[i].about.field \in {"event", "expired", "soon"},
                      i <= j
               PROVE  i = j
    <3>1. DOMAIN inbox' \subseteq Nat  BY <1>9
    <3> QED  BY <3>1 DEF EventsAreToldOnce
  <2>o. OnceForEver(inbox'[i])  BY DEF OnceForEver
  <2>r. \A r \in told : ~ (OnceForEver(r) /\ r \in Range(inbox))  BY <1>6
  <2> HIDE DEF told
  <2>1. CASE j <= Len(inbox)
    <3>1. i \in DOMAIN inbox /\ j \in DOMAIN inbox /\ inbox[i] = inbox[j]  BY <1>9, <2>1
    <3>2. inbox[i].about.field \in {"event", "expired", "soon"}  BY <1>9, <3>1
    <3> QED  BY <3>1, <3>2 DEF NewsInv, EventsAreToldOnce
  <2>2. CASE i <= Len(inbox) /\ ~ j <= Len(inbox)
    <3>1. inbox'[i] = inbox[i] /\ i \in DOMAIN inbox  BY <1>9, <2>2
    <3>2. j - Len(inbox) \in 1..Len(t) /\ Len(inbox) + (j - Len(inbox)) = j  BY <1>9, <2>2
    <3>3. inbox'[j] = t[j - Len(inbox)] /\ t[j - Len(inbox)] \in told  BY <1>7, <1>9, <3>2
    <3>4. inbox[i] \in Range(inbox)  BY <3>1 DEF Range
    <3> QED  BY <2>o, <2>r, <3>1, <3>3, <3>4
  <2>3. CASE ~ i <= Len(inbox)
    <3>1. /\ i - Len(inbox) \in 1..Len(t) /\ Len(inbox) + (i - Len(inbox)) = i
          /\ j - Len(inbox) \in 1..Len(t) /\ Len(inbox) + (j - Len(inbox)) = j
      BY <1>9, <2>3
    <3>2. t[i - Len(inbox)] = t[j - Len(inbox)]  BY <1>9, <3>1
    <3>3. i - Len(inbox) = j - Len(inbox)  BY <1>7, <1>9, <3>1, <3>2
    <3> QED  BY <3>1, <3>3
  <2> QED  BY <2>1, <2>2, <2>3
<1>12. StoryInv'
  <2> SUFFICES ASSUME Untroubled', NEW a \in Abouts, a \notin gaps'
               PROVE  Tells(inbox', first'[a], now, a)
    BY <1>2, <1>3 DEF StoryInv
  <2>1. Untroubled /\ a \notin gaps /\ a \notin Vanished(was, now)
        /\ Field("overlap") \notin gaps' /\ Field("consumed") \notin gaps'
    BY <1>1 DEF Untroubled
  <2>2. copy = card  BY <1>1, <2>1
  <2>3. \A r \in diff : (OnceForEver(r) /\ r \in Range(inbox)) \/ r \notin consumed
    BY <1>1, <1>6, <2>1
  <2>4. first'[a] = IF ~ was.read \/ (Optional(a) /\ first[a] = Absent)
                    THEN Value(now, a) ELSE first[a]
    BY <1>1
  <2>5. ~ was.read => inbox = << >>  BY <2>2 DEF NewsInv, StoryInv
  <2>6. Tells(inbox, first[a], was, a)
    BY <2>1, <2>2 DEF NewsInv, StoryInv
  <2>7. \A r : r.about = a => ~ OnceForEver(r)
    BY AboutOf DEF OnceForEver, Abouts
  <2>8. \A r \in told : r.about = a => r \in diff
    BY <1>6, StateRowsAre
  <2>9. \A r \in diff : r.about = a => r \in told
    BY <1>6, <2>3, <2>7
  <2>10. \A r : (r \in diff /\ r.about = a)
                  <=> /\ was.read
                      /\ r = Row(a, Value(was, a), Value(now, a))
                      /\ Value(was, a) # Value(now, a)
                      /\ Optional(a) => Value(was, a) # Absent /\ Value(now, a) # Absent
    <3>1. \A r : r.about = a =>
             (r \in Diff(was, now)
                <=> /\ r = Row(a, Value(was, a), Value(now, a))
                    /\ Value(was, a) # Value(now, a)
                    /\ Optional(a) => Value(was, a) # Absent /\ Value(now, a) # Absent)
      <4> HIDE DEF was, now
      <4> QED  BY <1>2, DiffSays DEF SnapOK
    <3>2. Row(a, Value(was, a), Value(now, a)).about = a  BY RowOf
    <3> HIDE DEF was, now
    <3> QED  BY <3>1, <3>2
  <2>11. Optional(a) /\ Value(was, a) # Absent => Value(now, a) # Absent
    BY <2>1, LostIsVanished
  <2> HIDE DEF told, diff, was, now
  <2>12. CASE ~ was.read
    <3>1. Value(now, a) = first'[a] /\ \A i \in DOMAIN inbox' : inbox'[i].about # a
      <4>1. Len(inbox) = 0  BY <2>5, <2>12
      <4>2. ASSUME NEW i \in DOMAIN inbox' PROVE inbox'[i] \in told
        <5>1. i \in 1..Len(t)  BY <1>9, <4>1, <4>2
        <5>2. inbox'[i] = t[i]  BY <1>9, <4>1, <5>1
        <5> QED  BY <1>7, <1>9, <5>1, <5>2
      <4> QED  BY <2>4, <2>8, <2>10, <2>12, <4>2
    <3>2. Before(inbox', first'[a], a, Len(inbox') + 1) = first'[a]
      <4>1. \A i \in 1..((Len(inbox') + 1) - 1) : inbox'[i].about # a  BY <1>9, <3>1
      <4> QED  BY <4>1, BeforeAtFirst
    <3> QED  BY <3>1, <3>2 DEF Tells
  <2>13. CASE was.read /\ Optional(a) /\ Value(was, a) = Absent
    <3>1. \A i \in DOMAIN t : t[i].about # a  BY <1>7, <2>8, <2>10, <2>13
    <3>2. first[a] = Absent /\ Tells(inbox \o t, Value(now, a), now, a)
      BY <1>7, <1>8, <2>6, <2>13, <3>1, TellsFirst
    <3> QED  BY <1>1, <2>4, <2>13, <3>2
  <2>14. CASE was.read /\ (Optional(a) => Value(was, a) # Absent)
    <3>1. first'[a] = first[a]
      <4> SUFFICES ASSUME Optional(a), first[a] = Absent PROVE FALSE  BY <2>4, <2>14
      <4>1. Before(inbox, Absent, a, Len(inbox) + 1) # Absent  BY <2>6, <2>14 DEF Tells
      <4>2. Len(inbox) \in Nat /\ DOMAIN inbox = 1..Len(inbox)  BY <1>9
      <4>3. PICK i \in 1..Len(inbox) : inbox[i].about = a  BY ONLY <4>1, <4>2, BeforeIsTold
      <4> QED  BY <2>6, <4>2, <4>3 DEF Tells
    <3>2. CASE Value(was, a) = Value(now, a)
      <4>1. \A i \in DOMAIN t : t[i].about # a  BY <1>7, <2>8, <2>10, <3>2
      <4>2. Tells(inbox \o t, first[a], now, a)
        BY <1>7, <1>8, <2>6, <3>2, <4>1, TellsNothing
      <4> QED  BY <1>1, <3>1, <4>2
    <3>3. CASE Value(was, a) # Value(now, a)
      <4> DEFINE r == Row(a, Value(was, a), Value(now, a))
      <4>2. r \in told /\ r.about = a /\ (Optional(a) => Value(was, a) # Absent /\ Value(now, a) # Absent)
        BY <2>9, <2>10, <2>11, <2>14, <3>3
      <4>3. PICK k \in DOMAIN t : t[k] = r  BY <1>7, <4>2
      <4>4. ASSUME NEW i \in DOMAIN t, t[i].about = a PROVE i = k
        <5>1. t[i] \in told  BY <1>7
        <5>2. t[i] = r  BY <2>8, <2>10, <4>4, <5>1
        <5> QED  BY <1>7, <4>3, <5>2
      <4>5. Tells(inbox \o t, first[a], now, a)
        <5>1. t[k] = Row(a, Value(was, a), Value(now, a))  BY <4>3
        <5> HIDE DEF r
        <5> QED  BY <1>7, <1>8, <2>6, <4>2, <4>4, <5>1, TellsOne
      <4> QED  BY <1>1, <3>1, <4>5
    <3> QED  BY <3>2, <3>3
  <2> QED  BY <2>12, <2>13, <2>14
<1> QED  BY <1>3, <1>10, <1>11, <1>12

----------------------------------------------------------------------------
\* Every step keeps it.

LEMMA NewsStays ==
    ASSUME NewsInv, UNCHANGED <<card, inbox, first, gaps>>
    PROVE  CardOK(card') /\ InboxOK' /\ EventsAreToldOnce' /\ StoryInv'
<1>1. CardOK(card') /\ InboxOK'  BY DEF NewsInv, NewsTypes, InboxOK
<1>2. EventsAreToldOnce'  BY DEF NewsInv, EventsAreToldOnce
<1>3. StoryInv'  BY DEF NewsInv, StoryInv, Untroubled
<1> QED  BY <1>1, <1>2, <1>3

LEMMA NewsBegins == NewsInit => NewsInv
<1> SUFFICES ASSUME NewsInit PROVE NewsInv  OBVIOUS
<1>1. PICK s \in Statuses, p \in Prices :
         /\ page = [status |-> s, price |-> IF "price" \in subject THEN p ELSE Absent, due |-> Absent,
                    events |-> {}, files |-> IF "files" \in subject THEN [f \in Urls |-> 1] ELSE << >>]
         /\ card = [status |-> s, label |-> s, amount |-> Absent, snap |-> Unread]
  BY DEF NewsInit
<1>2. DOMAIN << >> = {}  OBVIOUS
<1>3. PageOK(page)
  <2>1. DOMAIN page.files \subseteq Urls  BY <1>1, <1>2
  <2> QED  BY <1>1, <2>1 DEF PageOK
<1>4. CardOK(card)  BY <1>1, <1>2 DEF CardOK, SnapOK, Unread
<1>5. inbox = << >> /\ inbox \in Seq(Range(inbox)) /\ DOMAIN inbox = {} /\ Len(inbox) = 0
  BY <1>2 DEF NewsInit
<1>6. ReaderOK(watch) /\ ReaderOK(desk) /\ desk.at # "probing" /\ desk.row \in DOMAIN inbox \union {0}
  BY DEF NewsInit, Nobody, ReaderOK
<1>7. NewsTypes
  BY <1>3, <1>4, <1>5, <1>6 DEF NewsTypes, InboxOK, NewsInit
<1>8. EventsAreToldOnce  BY <1>5 DEF EventsAreToldOnce
<1>9. StoryInv
  <2> SUFFICES ASSUME NEW a \in Abouts PROVE Tells(inbox, first[a], card.snap, a)
    BY <1>5 DEF StoryInv
  <2>1. first[a] = Absent  BY DEF NewsInit
  <2>2. Value(card.snap, a) = Absent
    <3>1. card.snap = Unread  BY <1>1
    <3>2. \A x, f : About(x, f).field = x  BY AboutOf
    <3>3. a.field \in {"status", "price", "due", "listing", "content"}
      BY <3>2, AboutOf DEF Abouts
    <3> QED  BY <1>2, <3>1, <3>3 DEF Value, Unread
  <2>3. Before(inbox, first[a], a, Len(inbox) + 1) = first[a]
    <3>1. \A i \in 1..((Len(inbox) + 1) - 1) : inbox[i].about # a  BY <1>5
    <3> QED  BY <3>1, BeforeAtFirst
  <2> QED  BY <1>5, <2>1, <2>2, <2>3 DEF Tells
<1> QED  BY <1>7, <1>8, <1>9 DEF NewsInv

LEMMA PassListsKeeps ==
    ASSUME NewsInv, PassLists PROVE NewsInv'
<1>1. CardOK(card') /\ InboxOK' /\ EventsAreToldOnce' /\ StoryInv'
  BY NewsStays DEF PassLists
<1>2. ReaderOK(watch')
  BY DEF PassLists, Nobody, ReaderOK, NewsInv, NewsTypes
<1> QED  BY <1>1, <1>2 DEF NewsInv, NewsTypes, PassLists

LEMMA NobodyReads ==
    ReaderOK(Nobody) /\ Nobody.at = "idle" /\ Nobody.row = 0
  BY DEF Nobody, ReaderOK

LEMMA PassReadsKeeps ==
    ASSUME NewsInv, PassReads PROVE NewsInv'
<1>0. UNCHANGED <<page, dismissed, desk>> /\ watch.at = "reading"  BY DEF PassReads
<1>1. PageOK(page) /\ CardOK(watch.copy) /\ ReaderOK(watch)
  BY <1>0 DEF NewsInv, NewsTypes, ReaderOK
<1>2. CASE DOMAIN page.files = {}
  <2>1. watch' = Nobody /\ Apply(watch.copy, page, << >>, watch.today, {})
    BY <1>2 DEF PassReads
  <2>2. DOMAIN << >> = {}  OBVIOUS
  <2>3. /\ CardOK(card') /\ InboxOK' /\ DOMAIN inbox \subseteq DOMAIN inbox'
        /\ EventsAreToldOnce' /\ StoryInv'
    BY <1>1, <2>1, <2>2, ApplyKeeps
  <2> QED  BY <1>0, <2>1, <2>3, NobodyReads DEF NewsInv, NewsTypes
<1>3. CASE DOMAIN page.files # {}
  <2>1. watch' = [watch EXCEPT !.at = "probing", !.seen = page] /\ UNCHANGED <<card, inbox, first, gaps>>
    BY <1>3 DEF PassReads
  <2>2. CardOK(card') /\ InboxOK' /\ EventsAreToldOnce' /\ StoryInv'
    BY <2>1, NewsStays
  <2>3. ReaderOK(watch')  BY <1>0, <1>1, <1>3, <2>1 DEF ReaderOK
  <2> QED  BY <1>0, <2>1, <2>2, <2>3 DEF NewsInv, NewsTypes
<1> QED  BY <1>2, <1>3

LEMMA ProbedKeeps ==
    ASSUME NewsInv, NEW content, watch.at = "probing", Probed(content) PROVE NewsInv'
<1>1. CardOK(watch.copy) /\ PageOK(watch.seen) /\ DOMAIN watch.seen.files # {}
  BY DEF NewsInv, NewsTypes, ReaderOK
<1>2. Target \in DOMAIN watch.seen.files
  <2>1. DOMAIN watch.seen.files \subseteq Urls  BY <1>1 DEF PageOK
  <2>2. \A f \in DOMAIN watch.copy.snap.checked : watch.copy.snap.checked[f] \in Nat
    BY <1>1 DEF CardOK, SnapOK
  <2> QED  BY <1>1, <2>1, <2>2, TargetIsListed DEF Target
<1>3. /\ watch' = Nobody /\ UNCHANGED <<page, dismissed, desk>>
      /\ Apply(watch.copy, watch.seen, [f \in {Target} |-> content], watch.today, {})
  BY DEF Probed
<1>4. DOMAIN [f \in {Target} |-> content] \subseteq DOMAIN watch.seen.files  BY <1>2
<1>5. /\ CardOK(card') /\ InboxOK' /\ DOMAIN inbox \subseteq DOMAIN inbox'
      /\ EventsAreToldOnce' /\ StoryInv'
  BY <1>1, <1>3, <1>4, ApplyKeeps
<1> QED  BY <1>3, <1>5, NobodyReads DEF NewsInv, NewsTypes

LEMMA ReadFailsKeeps ==
    ASSUME NewsInv, PassReadFails \/ DeskReadFails PROVE NewsInv'
<1>1. /\ UNCHANGED <<page, card, inbox, dismissed, first, gaps>>
      /\ (watch' = Nobody /\ UNCHANGED desk) \/ (desk' = Nobody /\ UNCHANGED watch)
  BY DEF PassReadFails, DeskReadFails
<1>2. CardOK(card') /\ InboxOK' /\ EventsAreToldOnce' /\ StoryInv'
  BY <1>1, NewsStays
<1> QED  BY <1>1, <1>2, NobodyReads DEF NewsInv, NewsTypes

LEMMA DeskAsksKeeps ==
    ASSUME NewsInv, DeskAsks PROVE NewsInv'
<1>1. CardOK(card') /\ InboxOK' /\ EventsAreToldOnce' /\ StoryInv'
  BY NewsStays DEF DeskAsks
<1>2. PICK i \in Refreshable \union {0} :
         desk' = [Nobody EXCEPT !.at = "reading", !.copy = card, !.row = i]
  BY DEF DeskAsks
<1>3. i \in DOMAIN inbox \union {0}  BY <1>2 DEF Refreshable
<1>4. ReaderOK(desk') /\ desk'.at = "reading" /\ desk'.row = i
  BY <1>2 DEF Nobody, ReaderOK, NewsInv, NewsTypes
<1> QED  BY <1>1, <1>3, <1>4 DEF NewsInv, NewsTypes, DeskAsks

LEMMA DeskReadsKeeps ==
    ASSUME NewsInv, DeskReads PROVE NewsInv'
<1>1. /\ CardOK(desk.copy) /\ PageOK(page) /\ UNCHANGED <<page, watch>> /\ desk' = Nobody
      /\ dismissed' = dismissed \union Resolved
  BY DEF DeskReads, NewsInv, NewsTypes, ReaderOK
<1>2. DOMAIN << >> = {}  OBVIOUS
<1>3. /\ CardOK(card') /\ InboxOK' /\ DOMAIN inbox \subseteq DOMAIN inbox'
      /\ EventsAreToldOnce' /\ StoryInv'
  BY <1>1, <1>2, ApplyKeeps DEF DeskReads
<1>4. Resolved \subseteq DOMAIN inbox  BY DEF Resolved, NewsInv, NewsTypes
<1> QED  BY <1>1, <1>3, <1>4, NobodyReads DEF NewsInv, NewsTypes

LEMMA PostedKeeps ==
    ASSUME NewsInv, NEW field, NEW next, PageOK(next), Posted(field, next) PROVE NewsInv'
<1>1. CardOK(card') /\ InboxOK' /\ EventsAreToldOnce' /\ StoryInv'
  BY NewsStays DEF Posted
<1> QED  BY <1>1 DEF NewsInv, NewsTypes, Posted

LEMMA RegistryKeeps ==
    ASSUME NewsInv, StatusMoves \/ PriceMoves \/ DueMoves \/ EventMoves \/ FileMoves PROVE NewsInv'
<1>0. PageOK(page)  BY DEF NewsInv, NewsTypes
<1>1. CASE StatusMoves
  <2>1. PICK x \in Statuses \union {Absent} : Posted("status", [page EXCEPT !.status = x])
    BY <1>1 DEF StatusMoves
  <2>2. PageOK([page EXCEPT !.status = x])  BY <1>0 DEF PageOK
  <2> QED  BY <2>1, <2>2, PostedKeeps
<1>2. CASE PriceMoves
  <2>1. PICK x \in Prices \union {Absent} : Posted("price", [page EXCEPT !.price = x])
    BY <1>2 DEF PriceMoves
  <2>2. PageOK([page EXCEPT !.price = x])  BY <1>0 DEF PageOK
  <2> QED  BY <2>1, <2>2, PostedKeeps
<1>3. CASE DueMoves
  <2>1. PICK x \in (1..LastDay) \union {Absent} : Posted("due", [page EXCEPT !.due = x])
    BY <1>3 DEF DueMoves
  <2>2. PageOK([page EXCEPT !.due = x])  BY <1>0 DEF PageOK
  <2> QED  BY <2>1, <2>2, PostedKeeps
<1>4. CASE EventMoves
  <2>1. PICK S \in SUBSET {1} : Posted("event", [page EXCEPT !.events = S])
    BY <1>4 DEF EventMoves
  <2>2. PageOK([page EXCEPT !.events = S])  BY <1>0 DEF PageOK
  <2> QED  BY <2>1, <2>2, PostedKeeps
<1>5. CASE FileMoves
  <2>1. PICK f \in Urls :
           \/ \E c \in 1..Contents : Posted("files", [page EXCEPT !.files =
                  [g \in DOMAIN page.files \union {f} |-> IF g = f THEN c ELSE page.files[g]]])
           \/ Posted("files", [page EXCEPT !.files = [g \in DOMAIN page.files \ {f} |-> page.files[g]]])
    BY <1>5 DEF FileMoves
  <2>2. ASSUME NEW files, DOMAIN files \subseteq Urls PROVE PageOK([page EXCEPT !.files = files])
    BY <1>0, <2>2 DEF PageOK
  <2>3. DOMAIN page.files \union {f} \subseteq Urls  BY <1>0 DEF PageOK
  <2>4. CASE \E c \in 1..Contents : Posted("files", [page EXCEPT !.files =
                  [g \in DOMAIN page.files \union {f} |-> IF g = f THEN c ELSE page.files[g]]])
    <3>1. PICK c \in 1..Contents : Posted("files", [page EXCEPT !.files =
                  [g \in DOMAIN page.files \union {f} |-> IF g = f THEN c ELSE page.files[g]]])
      BY <2>4
    <3> DEFINE files == [g \in DOMAIN page.files \union {f} |-> IF g = f THEN c ELSE page.files[g]]
    <3>2. DOMAIN files \subseteq Urls  BY <2>3
    <3>3. Posted("files", [page EXCEPT !.files = files])  BY <3>1
    <3> HIDE DEF files
    <3> QED  BY <2>2, <3>2, <3>3, PostedKeeps
  <2>5. CASE Posted("files", [page EXCEPT !.files = [g \in DOMAIN page.files \ {f} |-> page.files[g]]])
    <3> DEFINE files == [g \in DOMAIN page.files \ {f} |-> page.files[g]]
    <3>2. DOMAIN files \subseteq Urls  BY <2>3
    <3>3. Posted("files", [page EXCEPT !.files = files])  BY <2>5
    <3> HIDE DEF files
    <3> QED  BY <2>2, <3>2, <3>3, PostedKeeps
  <2> QED  BY <2>1, <2>4, <2>5
<1> QED  BY <1>1, <1>2, <1>3, <1>4, <1>5

LEMMA NewsSteps ==
    ASSUME NewsInv, [NewsNext]_newsVars PROVE NewsInv'
<1>1. CASE PassLists  BY <1>1, PassListsKeeps
<1>2. CASE PassReads  BY <1>2, PassReadsKeeps
<1>3. CASE PassProbes \/ ProbeFails  BY <1>3, ProbedKeeps DEF PassProbes, ProbeFails
<1>4. CASE PassReadFails \/ DeskReadFails  BY <1>4, ReadFailsKeeps
<1>5. CASE DeskAsks  BY <1>5, DeskAsksKeeps
<1>6. CASE DeskReads  BY <1>6, DeskReadsKeeps
<1>7. CASE StatusMoves \/ PriceMoves \/ DueMoves \/ EventMoves \/ FileMoves
  BY <1>7, RegistryKeeps
<1>8. CASE NextDay
  <2>1. CardOK(card') /\ InboxOK' /\ EventsAreToldOnce' /\ StoryInv'
    BY <1>8, NewsStays DEF NextDay
  <2> QED  BY <1>8, <2>1 DEF NextDay, NewsInv, NewsTypes
<1>9. CASE UNCHANGED newsVars
  <2>1. CardOK(card') /\ InboxOK' /\ EventsAreToldOnce' /\ StoryInv'
    BY <1>9, NewsStays DEF newsVars
  <2> QED  BY <1>9, <2>1 DEF newsVars, NewsInv, NewsTypes
<1> QED
  BY <1>1, <1>2, <1>3, <1>4, <1>5, <1>6, <1>7, <1>8, <1>9 DEF NewsNext, WatchPass

\* The invariant holds of every behaviour.
THEOREM NewsInduction == NewsSpec => []NewsInv
<1>1. NewsInv /\ [NewsNext]_newsVars => NewsInv'  BY NewsSteps
<1> QED  BY NewsBegins, <1>1, PTL DEF NewsSpec

\* The rows of the inbox tell a true story, and an event is told once.
THEOREM StoryIsTold == NewsSpec => [](NewsTypeOK /\ StoryIsTrue /\ EventsAreToldOnce)
<1>1. NewsInv => NewsTypeOK
  BY DEF NewsInv, NewsTypes, NewsTypeOK, PageOK, CardOK, SnapOK, ReaderOK
<1>2. NewsInv => StoryIsTrue
  <2> SUFFICES ASSUME NewsInv, Untroubled, NEW a \in Abouts \ gaps
               PROVE  /\ \A i \in DOMAIN inbox : inbox[i].about = a => inbox[i].was = LeftAt(a, i)
                      /\ Value(card.snap, a) = LeftAt(a, Len(inbox) + 1)
    BY DEF StoryIsTrue, Untroubled
  <2>1. Tells(inbox, first[a], card.snap, a)  BY DEF NewsInv, StoryInv
  <2>2. \A n : LeftAt(a, n) = Before(inbox, first[a], a, n)  BY DEF LeftAt, Before
  <2> QED  BY <2>1, <2>2 DEF Tells
<1>3. NewsInv => EventsAreToldOnce  BY DEF NewsInv
<1> QED  BY <1>1, <1>2, <1>3, NewsInduction, PTL

----------------------------------------------------------------------------
\* The parts together: each has its types, and the inbox is true.
THEOREM InboxHolds == WorkspaceSpec => []InboxIsTrue
<1>1. NewsTypeOK /\ StoryIsTrue /\ EventsAreToldOnce
         /\ TypeOK /\ SearchTypeOK /\ TelegramTypeOK /\ IngestTypeOK => InboxIsTrue
  BY DEF InboxIsTrue, WorkspaceTypeOK
<1> QED
  BY StoryIsTold, CabinetTypesHold, SearchTypesHold, BotTypesHold, IngestTypesHold, <1>1, PTL
     DEF WorkspaceSpec

=============================================================================
