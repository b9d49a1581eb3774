------------------------------ MODULE CaseFile ------------------------------
(***************************************************************************)
(* One procurement case of one cabinet: its card in the memory of the API  *)
(* process, its row in PostgreSQL, and everything that rewrites it -- the  *)
(* console's requests, the watch pass, the document job and a restart      *)
(* (apps/api/src/app.ts, persist.ts; packages/db/src/specialist-store.ts). *)
(*                                                                         *)
(* The process is single-threaded, so the code between two awaits is one   *)
(* action here; at each await the other actors run.  Every actor takes a   *)
(* copy of the card from the store, waits for the registry, and writes its *)
(* whole copy back: what it overwrites meanwhile is what this module is    *)
(* about.  All writes of a cabinet go through one chain, each taking its   *)
(* image of the memory when its turn comes.                                *)
(*                                                                         *)
(* The registry page of the procedure is its version: version v lists the  *)
(* files 1..v+1.  A card is abstracted to the version it shows (its watch  *)
(* snapshot), the files it holds, its ingesting flag and its triage.       *)
(* Left out: a second case, archive and trash purge, "hide" (a "reject"    *)
(* for everything below), dismissing inbox rows, the wording of changes.   *)
(***************************************************************************)
EXTENDS Integers, Sequences, FiniteSets

CONSTANTS
    Visitors,   \* console requests that may be in progress together
    VisitOps,   \* what they ask for
    MaxSite,    \* bound: last version of the registry page
    MaxVisits,  \* bound: requests
    MaxPasses,  \* bound: watch passes
    MaxFaults   \* bound: failed reads, failed writes, failed jobs, crashes

Verdicts == {"monitor", "participate", "reject"}
Followed == {"monitor", "participate"}
ReadOps == {"open", "reindex"}
AllOps == Verdicts \cup ReadOps \cup {"restore", "documents"}

ASSUME VisitorsAssumption ==
    IsFiniteSet(Visitors) /\ Visitors \cap {"pass", "job", "restart", "nobody"} = {}
ASSUME OpsAssumption == VisitOps \subseteq AllOps
ASSUME BoundsAssumption ==
    MaxSite \in Nat /\ MaxVisits \in Nat /\ MaxPasses \in Nat /\ MaxFaults \in Nat

VARIABLES
    site,       \* version of the page the registry serves
    mem,        \* the card in the catalog of the process
    decisions,  \* the triage journal of the workspace, in memory
    told,       \* files announced by an inbox row, in memory
    disk,       \* the durable card, journal and inbox
    queue,      \* writes waiting for their turn
    write,      \* the write in progress
    proc,       \* what each actor is doing
    clock,      \* time stamp of the newest decision
    spent,      \* requests, passes and faults so far
    history     \* what was promised; see below

memory == <<mem, decisions, told>>
durable == <<disk, queue, write>>
vars == <<site, mem, decisions, told, disk, queue, write, proc, clock, spent, history>>

Actors == Visitors \cup {"pass", "job", "restart"}

NoPage == -1
Pages == NoPage..MaxSite
Pack(page) == 1..(page + 1)
Files == Pack(MaxSite)

Flags == {"none", "ingest", "reindex"}
Kinds == Verdicts \cup {"none"}
Cards == [page : Pages, docs : SUBSET Files, flag : Flags, kind : Kinds]
Absent == [page |-> NoPage, docs |-> {}, flag |-> "none", kind |-> "absent"]

Decisions == [at : Nat, kind : Verdicts]
Images == [card : Cards \cup {Absent}, decisions : SUBSET Decisions, told : SUBSET Files]

(* What an actor is waiting for, the copy of the card it carries, and the  *)
(* time stamp of the decision it made or took back.                        *)
Stages == {"idle", "due", "resolved", "reading", "surveying", "fetching",
           "queued", "writing", "saved", "unsaved"}
Steps == AllOps \cup {"none", "watch", "resume", "missed", "intent", "finish", "clean"}
Idle == [at |-> "idle", op |-> "none", card |-> Absent, made |-> 0]
Busy == [at : Stages, op : Steps, card : Cards \cup {Absent}, made : Nat]

NoWrite == [who |-> "nobody",
            image |-> [card |-> Absent, decisions |-> {}, told |-> {}]]

(***************************************************************************)
(* History, not state of the code:                                         *)
(*   acked     decisions whose request was answered with success,          *)
(*   undone    refusals stamped up to here were taken back ("restore"),    *)
(*   returned  the same, once that request was answered with success,      *)
(*   quiet     files whose appearance nobody had to announce: they were on *)
(*             the page when it was first read, or while nobody followed.  *)
(***************************************************************************)
Histories == [acked : SUBSET Decisions, undone : Nat, returned : Nat,
              quiet : SUBSET Files]

TypeOK ==
    /\ site \in 0..MaxSite
    /\ mem \in Cards \cup {Absent}
    /\ decisions \subseteq Decisions
    /\ told \subseteq Files
    /\ disk \in Images
    /\ queue \in Seq(Actors)
    /\ write \in [who : Actors \cup {"nobody"}, image : Images]
    /\ proc \in [Actors -> Busy]
    /\ clock \in Nat
    /\ spent \in [visits : Nat, passes : Nat, faults : Nat]
    /\ history \in Histories

-----------------------------------------------------------------------------
(* latestKind: the newest decision of the journal.                         *)
Newest(journal) == {d \in journal : \A e \in journal : e.at <= d.at}
LatestKind(journal) ==
    IF Newest(journal) = {} THEN "none" ELSE (CHOOSE d \in Newest(journal) : TRUE).kind

(* withTriage: the journal, when it says anything, overrides the card.     *)
WithTriage(card, journal) ==
    IF LatestKind(journal) = "none" THEN card
    ELSE [card EXCEPT !.kind = LatestKind(journal)]

(* resolveCase and cabinets.getCase: the row, else the card in memory.     *)
Stored == IF disk.card # Absent THEN disk.card ELSE mem

(* applySourceCard: the card takes the page, and nothing else.             *)
Fresh(card) == [WithTriage(card, decisions) EXCEPT !.page = site]

(* Mutant: the triage the copy was read with decides.                      *)
NewsByCopy(card) ==
    IF card.kind \in Followed /\ card.page # NoPage
    THEN Pack(site) \ Pack(card.page) ELSE {}

(* diffCardSnapshots: files to announce.  A first reading announces none.  *)
News(card) ==
    IF Fresh(card).kind \in Followed /\ card.page # NoPage
    THEN Pack(site) \ Pack(card.page) ELSE {}

Unannounced(card) ==
    IF Fresh(card).kind \in Followed /\ card.page # NoPage THEN {} ELSE Pack(site)

(* applyFreshSourceCard announces the changes and, for a case the          *)
(* specialist entered, fetches the new files.                              *)
Announce(card) ==
    /\ told' = told \cup News(card)
    /\ history' = [history EXCEPT !.quiet = @ \cup Unannounced(card)]

NewsStartsJob(card) == Fresh(card).kind = "participate" /\ News(card) # {}

(***************************************************************************)
(* startDocumentJob: one job per case; the card is stored with its flag    *)
(* and the job waits for a write.  "starts" is the caller's condition; a   *)
(* request made while a job runs is dropped.                               *)
(***************************************************************************)
JobFree == proc["job"].at = "idle"
Flagged(card, flag) == [card EXCEPT !.flag = flag]
(* Mutant: the download does not wait for the write.                       *)
JobEntryAtOnce(card, flag) ==
    [at |-> "fetching", op |-> "intent", card |-> Flagged(card, flag), made |-> 0]

JobEntry(card, flag) ==
    [at |-> "queued", op |-> "intent", card |-> Flagged(card, flag), made |-> 0]

ProcWithJob(procs, starts, card, flag) ==
    IF starts /\ JobFree THEN [procs EXCEPT !["job"] = JobEntry(card, flag)] ELSE procs
QueueWithJob(starts) == IF starts /\ JobFree THEN Append(queue, "job") ELSE queue
MemWithJob(current, starts, card, flag) ==
    IF starts /\ JobFree THEN Flagged(card, flag) ELSE current

(* startReindex reads stored files again; without any it downloads.        *)
ReindexFlag(card) == IF card.docs # {} THEN "reindex" ELSE "ingest"

-----------------------------------------------------------------------------
(* The console's requests.                                                 *)

(* resolveCase at the head of every handler; an unknown case is a 404.     *)
(* "open" and "reindex" go on to read the page; the others first take the  *)
(* triage of the moment the row arrives.  The "documents" button belongs   *)
(* to an inbox row.                                                        *)
Arrive(v, op) ==
    /\ proc[v] = Idle
    /\ proc["restart"].at # "due"
    /\ Stored # Absent
    /\ op = "documents" => told # {}
    /\ spent.visits < MaxVisits
    /\ spent' = [spent EXCEPT !.visits = @ + 1]
    /\ proc' = [proc EXCEPT ![v] =
                  IF op \in ReadOps
                  THEN [at |-> "reading", op |-> op,
                        card |-> WithTriage(Stored, decisions), made |-> 0]
                  ELSE [at |-> "resolved", op |-> op, card |-> Stored, made |-> 0]]
    /\ UNCHANGED <<site, memory, durable, clock, history>>

(* upsertCase, then await persistProgress.                                 *)
StoreAndSave(v, card, made) ==
    /\ mem' = card
    /\ proc' = [proc EXCEPT ![v].at = "queued", ![v].card = card, ![v].made = made]
    /\ queue' = Append(queue, v)

(* hydrateSourceCard: the page is read only for a card that has none.      *)
AwaitPage(v, card, made) ==
    /\ proc' = [proc EXCEPT ![v].at = "reading", ![v].card = card, ![v].made = made]
    /\ UNCHANGED <<mem, queue>>

Hydrate(v, card, made) ==
    IF card.kind \in Followed /\ card.page = NoPage
    THEN AwaitPage(v, card, made) ELSE StoreAndSave(v, card, made)

(* applyTriageDecision.                                                    *)
Decide(v) ==
    /\ proc[v].at = "resolved" /\ proc[v].op \in Verdicts
    /\ clock' = clock + 1
    /\ decisions' = decisions \cup {[at |-> clock + 1, kind |-> proc[v].op]}
    /\ Hydrate(v, [proc[v].card EXCEPT !.kind = proc[v].op], clock + 1)
    /\ UNCHANGED <<site, told, disk, write, spent, history>>

(* POST restore, clearRejections: refusals leave the journal; what remains *)
(* is the triage, and a case without any is a candidate again.             *)
Remaining == {d \in decisions : d.kind # "reject"}

TakeBack(v) ==
    /\ proc[v].at = "resolved" /\ proc[v].op = "restore"
    /\ WithTriage(proc[v].card, decisions).kind = "reject"
    /\ decisions' = Remaining
    /\ history' = [history EXCEPT !.undone = clock]
    /\ Hydrate(v, [proc[v].card EXCEPT !.kind = LatestKind(Remaining)], clock)
    /\ UNCHANGED <<site, told, disk, write, clock, spent>>

NotInTrash(v) ==
    /\ proc[v].at = "resolved" /\ proc[v].op = "restore"
    /\ WithTriage(proc[v].card, decisions).kind # "reject"
    /\ proc' = [proc EXCEPT ![v] = Idle]
    /\ UNCHANGED <<site, memory, durable, clock, spent, history>>

(* Inbox "documents": stores the card it read and starts the download.     *)
FetchDocuments(v) ==
    LET card == WithTriage(proc[v].card, decisions) IN
    /\ proc[v].at = "resolved" /\ proc[v].op = "documents"
    /\ mem' = MemWithJob(card, TRUE, card, "ingest")
    /\ proc' = ProcWithJob([proc EXCEPT ![v].at = "queued"], TRUE, card, "ingest")
    /\ queue' = Append(QueueWithJob(TRUE), v)
    /\ UNCHANGED <<site, decisions, told, disk, write, clock, spent, history>>

(* The registry answers: the reader's copy takes the page and is stored.   *)
(* The job it may start stores a flagged card first, and is overwritten.   *)
PageArrives(v) ==
    LET card == proc[v].card
        next == Fresh(card)
        starts == NewsStartsJob(card)
    IN
    /\ proc[v].at = "reading"
    /\ Announce(card)
    /\ mem' = next
    /\ proc' = ProcWithJob([proc EXCEPT ![v].at = "queued", ![v].card = next],
                           starts, next, "ingest")
    /\ queue' = Append(QueueWithJob(starts), v)
    /\ UNCHANGED <<site, decisions, disk, write, clock, spent>>

Fault == spent.faults < MaxFaults /\ spent' = [spent EXCEPT !.faults = @ + 1]

(* hydrateSourceCard logs and goes on; the card route answers an error.    *)
PageFails(v) ==
    /\ proc[v].at = "reading"
    /\ Fault
    /\ IF proc[v].op = "open"
       THEN proc' = [proc EXCEPT ![v] = Idle] /\ UNCHANGED <<mem, queue>>
       ELSE StoreAndSave(v, proc[v].card, proc[v].made)
    /\ UNCHANGED <<site, decisions, told, disk, write, clock, history>>

(* The write is done: the job starts, and the request is answered.         *)
Answered(p) ==
    [history EXCEPT
        !.acked = IF p.op \in Verdicts THEN @ \cup {[at |-> p.made, kind |-> p.op]} ELSE @,
        !.returned = IF p.op = "restore" THEN p.made ELSE @]

Answer(v) ==
    LET p == proc[v]
        starts == \/ p.op = "participate"
                  \/ p.op \in {"restore", "reindex"} /\ p.card.kind = "participate"
        flag == IF p.op = "reindex" THEN ReindexFlag(p.card) ELSE "ingest"
    IN
    /\ p.at = "saved"
    /\ mem' = MemWithJob(mem, starts, p.card, flag)
    /\ proc' = ProcWithJob([proc EXCEPT ![v] = Idle], starts, p.card, flag)
    /\ queue' = QueueWithJob(starts)
    /\ history' = Answered(p)
    /\ UNCHANGED <<site, decisions, told, disk, write, clock, spent>>

(* The write failed: the handler throws, and nothing is undone in memory.  *)
AnswerError(v) ==
    /\ proc[v].at = "unsaved"
    /\ proc' = [proc EXCEPT ![v] = Idle]
    /\ UNCHANGED <<site, memory, durable, clock, spent, history>>

-----------------------------------------------------------------------------
(* The watch pass: monitorDecidedCases, then the rest of the discovery     *)
(* pass, then one persist.                                                 *)

PassLists ==
    /\ proc["pass"] = Idle
    /\ disk.card.kind \in Followed
    /\ spent.passes < MaxPasses
    /\ spent' = [spent EXCEPT !.passes = @ + 1]
    /\ proc' = [proc EXCEPT !["pass"] =
                  [at |-> "reading", op |-> "watch",
                   card |-> WithTriage(disk.card, decisions), made |-> 0]]
    /\ UNCHANGED <<site, memory, durable, clock, history>>

PassReads ==
    LET card == proc["pass"].card
        next == Fresh(card)
        starts == NewsStartsJob(card)
    IN
    /\ proc["pass"].at = "reading"
    /\ Announce(card)
    /\ mem' = next
    /\ proc' = ProcWithJob([proc EXCEPT !["pass"].at = "surveying"], starts, next, "ingest")
    /\ queue' = QueueWithJob(starts)
    /\ UNCHANGED <<site, decisions, disk, write, clock, spent>>

(* A failed read, or a procedure the registry no longer shows.             *)
PassReadFails ==
    /\ proc["pass"].at = "reading"
    /\ Fault
    /\ proc' = [proc EXCEPT !["pass"] = Idle]
    /\ UNCHANGED <<site, memory, durable, clock, history>>

PassSaves ==
    /\ proc["pass"].at = "surveying"
    /\ proc' = [proc EXCEPT !["pass"].at = "queued"]
    /\ queue' = Append(queue, "pass")
    /\ UNCHANGED <<site, memory, disk, write, clock, spent, history>>

PassEnds ==
    /\ proc["pass"].at \in {"saved", "unsaved"}
    /\ proc' = [proc EXCEPT !["pass"] = Idle]
    /\ UNCHANGED <<site, memory, durable, clock, spent, history>>

-----------------------------------------------------------------------------
(* The document job.                                                       *)

(* The flag is durable: the download begins.                               *)
JobFetches ==
    /\ proc["job"].at = "saved" /\ proc["job"].op = "intent"
    /\ proc' = [proc EXCEPT !["job"].at = "fetching"]
    /\ UNCHANGED <<site, memory, durable, clock, spent, history>>

(* Mutant: the listing is counted from zero.                               *)
DownloadsFromZero(card) ==
    {(card.docs \cap Pack(site)) \cup got : got \in SUBSET ((0..site) \ card.docs)}

(* ingest: files already held are kept, of the others some may fail, each  *)
(* on its own.  reindex reads the held files again.                        *)
Downloads(card) ==
    IF card.flag = "reindex" THEN {card.docs}
    ELSE {(card.docs \cap Pack(site)) \cup got : got \in SUBSET (Pack(site) \ card.docs)}

JobDelivers ==
    /\ proc["job"].at = "fetching"
    /\ \E docs \in Downloads(proc["job"].card) :
          mem' = [WithTriage(proc["job"].card, decisions)
                    EXCEPT !.docs = docs, !.flag = "none"]
    /\ proc' = [proc EXCEPT !["job"].at = "queued", !["job"].op = "finish"]
    /\ queue' = Append(queue, "job")
    /\ UNCHANGED <<site, decisions, told, disk, write, clock, spent, history>>

(* Mutant: the flag is left on the card.                                   *)
JobCleansNothing ==
    /\ mem' = mem
    /\ proc' = [proc EXCEPT !["job"].at = "queued", !["job"].op = "clean"]
    /\ queue' = Append(queue, "job")
    /\ UNCHANGED <<site, decisions, told, disk, write, clock, history>>

(* The catch block: whatever card is in memory loses its flag.             *)
JobCleansUp ==
    /\ mem' = [mem EXCEPT !.flag = "none"]
    /\ proc' = [proc EXCEPT !["job"].at = "queued", !["job"].op = "clean"]
    /\ queue' = Append(queue, "job")
    /\ UNCHANGED <<site, decisions, told, disk, write, clock, history>>

JobFails == proc["job"].at = "fetching" /\ Fault /\ JobCleansUp

JobWriteFailed ==
    /\ proc["job"].at = "unsaved" /\ proc["job"].op # "clean"
    /\ JobCleansUp
    /\ UNCHANGED spent

(* Mutant: a failed cleanup leaves the job registered.                     *)
JobEndsWhenSaved ==
    /\ proc["job"].at = "saved" /\ proc["job"].op # "intent"
    /\ proc' = [proc EXCEPT !["job"] = Idle]
    /\ UNCHANGED <<site, memory, durable, clock, spent, history>>

JobEnds ==
    /\ \/ proc["job"].at = "saved" /\ proc["job"].op # "intent"
       \/ proc["job"].at = "unsaved" /\ proc["job"].op = "clean"
    /\ proc' = [proc EXCEPT !["job"] = Idle]
    /\ UNCHANGED <<site, memory, durable, clock, spent, history>>

-----------------------------------------------------------------------------
(* The writer chain of the cabinet: enqueueWorkspaceWrite.                 *)

(* The image is taken when the write's turn comes.                         *)
WriteBegins ==
    /\ write.who = "nobody"
    /\ queue # <<>>
    /\ write' = [who |-> Head(queue),
                 image |-> [card |-> mem, decisions |-> decisions, told |-> told]]
    /\ queue' = Tail(queue)
    /\ proc' = [proc EXCEPT ![Head(queue)].at = "writing"]
    /\ UNCHANGED <<site, memory, disk, clock, spent, history>>

(* saveCabinet, one transaction.  Decisions are only ever inserted, and a  *)
(* card without a triage leaves the triage column of its row as it was.    *)
Row(card) ==
    IF card = Absent THEN disk.card
    ELSE IF card.kind = "none" /\ disk.card # Absent
         THEN [card EXCEPT !.kind = disk.card.kind] ELSE card

SaveCabinet(image) == [card |-> Row(image.card),
                       decisions |-> disk.decisions \cup image.decisions,
                       told |-> image.told]

WriteCommits ==
    /\ write.who # "nobody"
    /\ disk' = SaveCabinet(write.image)
    /\ proc' = [proc EXCEPT ![write.who].at = "saved"]
    /\ write' = NoWrite
    /\ UNCHANGED <<site, memory, queue, clock, spent, history>>

(* Mutant: the error is swallowed.                                         *)
WriteFailsSilently ==
    /\ write.who # "nobody"
    /\ Fault
    /\ proc' = [proc EXCEPT ![write.who].at = "saved"]
    /\ write' = NoWrite
    /\ UNCHANGED <<site, memory, disk, queue, clock, history>>

(* A failed write is reported to its caller; the chain goes on.            *)
WriteFails ==
    /\ write.who # "nobody"
    /\ Fault
    /\ proc' = [proc EXCEPT ![write.who].at = "unsaved"]
    /\ write' = NoWrite
    /\ UNCHANGED <<site, memory, disk, queue, clock, history>>

-----------------------------------------------------------------------------
(* Restart.                                                                *)

(* The process dies; a transaction in flight may have committed.  The next *)
(* process hydrates the journal and the inbox, and no card (openCabinet).  *)
Crash ==
    /\ Fault
    /\ \E landed \in {disk, IF write.who = "nobody" THEN disk ELSE SaveCabinet(write.image)} :
          /\ disk' = landed
          /\ decisions' = landed.decisions
          /\ told' = landed.told
    /\ mem' = Absent
    /\ queue' = <<>>
    /\ write' = NoWrite
    /\ proc' = [a \in Actors |-> IF a = "restart" THEN [Idle EXCEPT !.at = "due"] ELSE Idle]
    /\ UNCHANGED <<site, clock, history>>

(* Mutant: the catalog of the new process is searched, not the store.      *)
RestartListsCatalog ==
    /\ proc["restart"].at = "due"
    /\ proc' = [proc EXCEPT !["restart"] =
                  IF mem.flag = "none" THEN Idle
                  ELSE [at |-> "resolved", op |-> "resume", card |-> mem, made |-> 0]]
    /\ UNCHANGED <<site, memory, durable, clock, spent, history>>

(* restoreDurableWork, on the first request: listIngestingCases.           *)
RestartLists ==
    /\ proc["restart"].at = "due"
    /\ proc' = [proc EXCEPT !["restart"] =
                  IF disk.card.flag = "none" THEN Idle
                  ELSE [at |-> "resolved", op |-> "resume", card |-> disk.card, made |-> 0]]
    /\ UNCHANGED <<site, memory, durable, clock, spent, history>>

(* The listing rejects: it is logged, and the cabinet counts as restored,  *)
(* so nothing looks for its flags again before the next process.           *)
RestartListsFails ==
    /\ proc["restart"].at = "due"
    /\ Fault
    /\ proc' = [proc EXCEPT !["restart"] = [Idle EXCEPT !.op = "missed"]]
    /\ UNCHANGED <<site, memory, durable, clock, history>>

RestartResumes ==
    LET card == proc["restart"].card
        flag == IF card.flag = "reindex" THEN ReindexFlag(card) ELSE "ingest"
    IN
    /\ proc["restart"].at = "resolved"
    /\ mem' = MemWithJob(mem, TRUE, card, flag)
    /\ proc' = ProcWithJob([proc EXCEPT !["restart"] = Idle], TRUE, card, flag)
    /\ queue' = QueueWithJob(TRUE)
    /\ UNCHANGED <<site, decisions, told, disk, write, clock, spent, history>>

(* The registry publishes a new version of the page, with one more file.   *)
SitePosts ==
    /\ site < MaxSite
    /\ site' = site + 1
    /\ UNCHANGED <<memory, durable, proc, clock, spent, history>>

-----------------------------------------------------------------------------
(* A candidate found by a search and persisted with the queue; the search  *)
(* stored the page it scored, unless that read failed.                     *)
Init ==
    /\ site = 0
    /\ mem = Absent
    /\ decisions = {} /\ told = {}
    /\ \E page \in {NoPage, 0} :
          disk = [card |-> [page |-> page, docs |-> {}, flag |-> "none", kind |-> "none"],
                  decisions |-> {}, told |-> {}]
    /\ queue = <<>>
    /\ write = NoWrite
    /\ proc = [a \in Actors |-> Idle]
    /\ clock = 0
    /\ spent = [visits |-> 0, passes |-> 0, faults |-> 0]
    /\ history = [acked |-> {}, undone |-> 0, returned |-> 0, quiet |-> Pack(0)]

Visit(v) == Decide(v) \/ TakeBack(v) \/ NotInTrash(v) \/ FetchDocuments(v)
            \/ PageArrives(v) \/ PageFails(v) \/ Answer(v) \/ AnswerError(v)
WatchPass == PassReads \/ PassReadFails \/ PassSaves \/ PassEnds
Job == JobFetches \/ JobDelivers \/ JobFails \/ JobWriteFailed \/ JobEnds
Writer == WriteBegins \/ WriteCommits \/ WriteFails
Restart == RestartLists \/ RestartListsFails \/ RestartResumes

Next ==
    \/ \E v \in Visitors : (\E op \in VisitOps : Arrive(v, op)) \/ Visit(v)
    \/ PassLists \/ WatchPass
    \/ Job
    \/ Writer
    \/ Restart
    \/ Crash
    \/ SitePosts

Spec == Init /\ [][Next]_vars

(* Every await of the code ends, with an answer or an error: the registry, *)
(* the database and the downloads all have timeouts.  The specialist comes *)
(* back to the console after a restart (RestartLists or RestartListsFails  *)
(* runs on the first request); he need not ask for anything, and nothing   *)
(* else is bound to happen.                                                *)
Fairness ==
    /\ \A v \in Visitors : WF_vars(Visit(v))
    /\ WF_vars(WatchPass)
    /\ WF_vars(Job)
    /\ WF_vars(Writer)
    /\ WF_vars(Restart)

FairSpec == Spec /\ Fairness

-----------------------------------------------------------------------------
(* Properties.                                                             *)

(* A decision whose request was answered with success is in the store, and *)
(* so survives any crash, unless a later "restore" took the refusal back.  *)
(* It relies on the chain taking its image late and on a failed write      *)
(* reaching its caller.                                                    *)
AckedDecisionSurvives ==
    \A d \in history.acked :
        d \in disk.decisions \/ (d.kind = "reject" /\ d.at <= history.undone)

(* No silent apply (R22): a file on the page version a card shows either   *)
(* has an inbox row or appeared when nobody had to be told -- in memory,   *)
(* and in the store, where the card and the inbox must move together.      *)
NewsIsNotSilent ==
    /\ Pack(mem.page) \subseteq told \cup history.quiet
    /\ Pack(disk.card.page) \subseteq disk.told \cup history.quiet

(* Durable intent first: while files are being downloaded the store says   *)
(* so, and a crash leaves the next open something to resume.               *)
IntentIsDurable == proc["job"].at = "fetching" => disk.card.flag # "none"

(* The flag is absent when no job is running.                              *)
FlagMeansJob == mem.flag # "none" => proc["job"].at # "idle"

(* What the document job keeps by itself, whatever fails and wherever the  *)
(* process dies: until a second request or a watch pass comes, the store   *)
(* knows of a download under way, and the flag of the case means that a    *)
(* job runs.                                                               *)
Alone == spent.visits <= 1 /\ spent.passes = 0
LoneJobKeepsItsFlag == Alone => IntentIsDurable /\ FlagMeansJob

(* A specialist who took a refusal back does not see it again, restart or  *)
(* not.                                                                    *)
ReturnedCaseStaysReturned ==
    ~ \E d \in decisions : d.kind = "reject" /\ d.at <= history.returned

(* A flag in the store when a process starts leads to a job, unless this   *)
(* process fails to list the flagged cases: it looks for them only once.   *)
FlaggedWorkResumes ==
    (proc["restart"].at = "due" /\ disk.card.flag # "none")
        ~> (proc["job"].at # "idle" \/ proc["restart"].op = "missed")

(* Every job comes to an end, whichever of its writes and downloads fail:  *)
(* its case can be downloaded again.                                       *)
JobSettles == (proc["job"].at # "idle") ~> (proc["job"].at = "idle")

(* The two together: a download the store knows of is taken up by the next *)
(* process that can list it, and no download hangs.                        *)
DownloadsSettle == FlaggedWorkResumes /\ JobSettles
=============================================================================
