----------------------------- MODULE SearchPane -----------------------------
\* The search pane of the web console: the listing and its stop, the decisions
\* and the clearing of the queue (apps/web/src/procurements/ProcurementsApp.tsx),
\* over the cards and the run that its parent keeps and polls
\* (apps/web/src/SpecialistApp.tsx). One profile; a request runs on while the
\* specialist goes on pressing buttons.
EXTENDS Naturals, FiniteSets

CONSTANTS PaneCards, CallsMax, PaneFaults   \* bounds on requests and on failures

VARIABLES
    triage,     \* the server: card -> "none", "watched" or "dismissed"
    serverRun,  \* the server's run of the profile
    screen,     \* the console: card -> "absent", "queue", "watched" or "dismissed"
    searchRun,  \* the run on screen
    busy, busyKind,
    hasMore,    \* whether the last listing has another page
    searchGeneration,
    calls, called, paneFaults,
    overlapped  \* a clearing was stopped, so that another request may run beside it

screenVars == <<screen, searchRun, busy, busyKind, hasMore, searchGeneration>>
paneVars == <<triage, serverRun, screenVars, calls, called, paneFaults, overlapped>>

Decided == {"watched", "dismissed"}
Queue == {c \in PaneCards : triage[c] = "none"}
InPane == {c \in PaneCards : screen[c] = "queue"}
Scoring == searchRun = "scoring"
Listing == busy /\ busyKind = "none" /\ ~ Scoring

\* The search wrapper merges into the cards it keeps: those decided, whose mark
\* stays, and for a further page all of them.
ListingMerged(items, page) ==
    [c \in PaneCards |-> IF screen[c] \in Decided THEN screen[c]
                         ELSE IF c \in items THEN "queue"
                         ELSE IF page = "more" THEN screen[c] ELSE "absent"]
\* mergeSearchPane drops the copy of every card that was read.
QueueMerged(items) ==
    [c \in PaneCards |-> IF c \in items THEN "queue"
                         ELSE IF screen[c] \in Decided THEN screen[c] ELSE "absent"]

Call(op, gen, card) ==
    [n |-> called, op |-> op, gen |-> gen, card |-> card, pc |-> "sent", items |-> {}, run |-> "none"]
NoCard == "no card"
Sends(S) == calls' = calls \union S /\ called' = called + Cardinality(S)
Room(n) == called + n <= CallsMax
Becomes(r, s) == calls' = (calls \ {r}) \union {s}
Gone(r) == calls' = calls \ {r}

----------------------------------------------------------------------------
\* runSearch, for the first page and for "Загрузить ещё": the profile is opened first.
Pages == {"first", "more"}
Search(page) ==
    /\ ~ busy /\ ~ Scoring /\ Room(1)
    /\ page = "more" => hasMore
    /\ searchGeneration' = searchGeneration + 1
    /\ busy' = TRUE /\ busyKind' = "none"
    /\ Sends({[Call("search", searchGeneration + 1, page) EXCEPT !.pc = "select"]})
    /\ UNCHANGED <<triage, serverRun, screen, searchRun, hasMore, paneFaults, overlapped>>

\* openProfileSearch paints the stored queue and run; the wrapper then forgets
\* the run and asks for the listing, stopped or not.
Selected(r) ==
    /\ r.op = "search" /\ r.pc = "select"
    /\ screen' = QueueMerged(Queue) /\ searchRun' = "none"
    /\ Becomes(r, [r EXCEPT !.pc = "sent"])
    /\ UNCHANGED <<triage, serverRun, busy, busyKind, hasMore, searchGeneration, called, paneFaults, overlapped>>

\* The server's side of every request.
ServerAnswers(r) ==
    /\ r.pc = "sent"
    /\ Becomes(r, [r EXCEPT !.pc = "read", !.items = Queue, !.run =
            CASE r.op = "search" -> "scoring"
              [] r.op \in {"cancel", "clear"} /\ serverRun = "scoring" -> "cancelled"
              [] OTHER -> serverRun])
    /\ serverRun' = CASE r.op = "search" -> "scoring"
                      [] r.op \in {"cancel", "clear"} /\ serverRun = "scoring" -> "cancelled"
                      [] OTHER -> serverRun
    /\ triage' = CASE r.op \in Decided -> [triage EXCEPT ![r.card] = r.op]
                   [] r.op = "clear" -> [c \in PaneCards |-> IF c \in Queue THEN "dismissed" ELSE triage[c]]
                   [] OTHER -> triage
    /\ UNCHANGED <<screenVars, called, paneFaults, overlapped>>
ServerScored ==
    /\ serverRun = "scoring" /\ serverRun' = "done"
    /\ UNCHANGED <<triage, screenVars, calls, called, paneFaults, overlapped>>

ReleaseAll(r) == busy' = FALSE
\* The end of runSearch: only the latest one frees the pane.
Release(r) == busy' = (IF r.gen = searchGeneration THEN FALSE ELSE busy)

\* The parent has painted the listing before the pane looks at the generation.
Listed(r) ==
    /\ r.op = "search" /\ r.pc = "read"
    /\ screen' = ListingMerged(r.items, r.card) /\ searchRun' = r.run
    /\ hasMore' \in (IF r.gen = searchGeneration THEN BOOLEAN ELSE {hasMore})
    /\ Release(r) /\ Gone(r)
    /\ UNCHANGED <<triage, serverRun, busyKind, searchGeneration, called, paneFaults, overlapped>>

\* runCancelSearch: "Остановить" shows while a listing or a scoring does, and
\* while the queue is being cleared.
Stop ==
    /\ Listing \/ Scoring
    /\ Room(2)
    /\ searchGeneration' = searchGeneration + 1 /\ busy' = FALSE
    /\ Sends({Call("cancel", searchGeneration + 1, NoCard)})
    /\ overlapped' = (overlapped \/ (busy /\ \E r \in calls : r.op \in Decided \union {"clear"}))
    /\ UNCHANGED <<triage, serverRun, screen, searchRun, busyKind, hasMore, paneFaults>>

\* cancelSearch: the run as it is, and a reading of the queue in its wake.
Cancelled(r) ==
    /\ r.op = "cancel" /\ r.pc = "read"
    /\ searchRun' = r.run
    /\ calls' = (calls \ {r}) \union {Call("list", r.gen, NoCard)} /\ called' = called + 1
    /\ UNCHANGED <<triage, serverRun, screen, busy, busyKind, hasMore, searchGeneration, paneFaults, overlapped>>

\* runDecide and the parent's decide.
DecideCard(c, kind) ==
    /\ ~ busy /\ c \in InPane /\ Room(1)
    /\ busy' = TRUE /\ busyKind' = kind
    /\ Sends({Call(kind, searchGeneration, c)})
    /\ UNCHANGED <<triage, serverRun, screen, searchRun, hasMore, searchGeneration, paneFaults, overlapped>>
DecideAnswered(r) ==
    /\ r.op \in Decided /\ r.pc = "read"
    /\ screen' = [screen EXCEPT ![r.card] = r.op]
    /\ busy' = FALSE /\ busyKind' = "none" /\ Gone(r)
    /\ UNCHANGED <<triage, serverRun, searchRun, hasMore, searchGeneration, called, paneFaults, overlapped>>

\* runClearQueue.
Clear ==
    /\ ~ busy /\ InPane # {} /\ Room(1)
    /\ busy' = TRUE
    /\ Sends({Call("clear", searchGeneration, NoCard)})
    /\ UNCHANGED <<triage, serverRun, screen, searchRun, busyKind, hasMore, searchGeneration, paneFaults, overlapped>>
Cleared(r) ==
    /\ r.op = "clear" /\ r.pc = "read"
    /\ screen' = [c \in PaneCards |-> IF c \in r.items THEN "dismissed" ELSE screen[c]]
    /\ busy' = FALSE /\ Gone(r)
    /\ UNCHANGED <<triage, serverRun, searchRun, busyKind, hasMore, searchGeneration, called, paneFaults, overlapped>>

\* While a run is on screen the parent reads the run and the queue, again and again.
Tick ==
    /\ Scoring /\ Room(3)
    /\ Sends({Call("run", searchGeneration, NoCard), [Call("list", searchGeneration, NoCard) EXCEPT !.n = called + 1]})
    /\ UNCHANGED <<triage, serverRun, screenVars, paneFaults, overlapped>>
RunHeard(r) ==
    /\ r.op = "run" /\ r.pc = "read"
    /\ searchRun' = r.run
    /\ IF r.run = "scoring" THEN Gone(r) /\ UNCHANGED called
       ELSE calls' = (calls \ {r}) \union {Call("list", r.gen, NoCard)} /\ called' = called + 1
    /\ UNCHANGED <<triage, serverRun, screen, busy, busyKind, hasMore, searchGeneration, paneFaults, overlapped>>
QueueHeard(r) ==
    /\ r.op = "list" /\ r.pc = "read"
    /\ screen' = QueueMerged(r.items) /\ Gone(r)
    /\ UNCHANGED <<triage, serverRun, searchRun, busy, busyKind, hasMore, searchGeneration, called, paneFaults, overlapped>>

\* A request or its answer is lost.
CallFails(r) ==
    /\ paneFaults > 0 /\ paneFaults' = paneFaults - 1
    /\ Gone(r)
    /\ CASE r.op = "search" -> Release(r) /\ UNCHANGED busyKind
         [] r.op \in Decided -> busy' = FALSE /\ busyKind' = "none"
         [] r.op = "clear" -> busy' = FALSE /\ UNCHANGED busyKind
         [] OTHER -> UNCHANGED <<busy, busyKind>>
    /\ UNCHANGED <<triage, serverRun, screen, searchRun, hasMore, searchGeneration, called, overlapped>>

PaneInit ==
    /\ triage = [c \in PaneCards |-> "none"]
    /\ serverRun = "none" /\ searchRun = "none"
    /\ screen \in {[c \in PaneCards |-> "absent"], [c \in PaneCards |-> "queue"]}
    /\ busy = FALSE /\ busyKind = "none" /\ hasMore = FALSE /\ searchGeneration = 0
    /\ calls = {} /\ called = 0 /\ paneFaults = PaneFaults /\ overlapped = FALSE

PaneNext ==
    \/ \E page \in Pages : Search(page)
    \/ Stop \/ Clear \/ Tick \/ ServerScored
    \/ \E c \in PaneCards, kind \in Decided : DecideCard(c, kind)
    \/ \E r \in calls : \/ Selected(r) \/ ServerAnswers(r) \/ Listed(r) \/ Cancelled(r)
                        \/ DecideAnswered(r) \/ Cleared(r) \/ RunHeard(r) \/ QueueHeard(r) \/ CallFails(r)

PaneSpec == PaneInit /\ [][PaneNext]_paneVars

----------------------------------------------------------------------------
PaneTypeOK ==
    /\ \A c \in PaneCards : /\ triage[c] \in {"none"} \union Decided
                            /\ screen[c] \in {"absent", "queue"} \union Decided
    /\ {serverRun, searchRun} \subseteq {"none", "scoring", "done", "cancelled"}
    /\ {busy, hasMore} \subseteq BOOLEAN /\ busyKind \in {"none"} \union Decided
    /\ \A r \in calls : r.gen <= searchGeneration

\* The pane is busy exactly while its latest listing, a decision or a clearing
\* is under way; but for a clearing or a decision that goes on when
\* "Остановить" was pressed during it.
BusyIsTrue ==
    ~ overlapped =>
        (busy <=> \E r \in calls : \/ r.op = "search" /\ r.gen = searchGeneration
                                   \/ r.op \in Decided \union {"clear"})

\* The comment of runSearch: a stopped listing does not resurrect the list when
\* its answer comes late.
StoppedSearchStaysStopped ==
    [][\A r \in calls : (r.op = "search" /\ r.gen # searchGeneration /\ r.pc = "read" /\ r \notin calls') =>
            screen' = screen /\ searchRun' = searchRun]_paneVars

\* A card decided on this screen does not come back to the queue.
DecidedLeavesThePane ==
    [][\A c \in PaneCards : screen[c] \in Decided => screen'[c] # "queue"]_screen
=============================================================================
