---------------------------- MODULE ConsolePolls ----------------------------
\* What the web console polls for (apps/web/src/SpecialistApp.tsx): the inbox,
\* whose new deadline events raise a toast, and the progress of the document
\* jobs it follows. A poll does not wait for the one before, so answers come in
\* any order or not at all.
EXTENDS Naturals, FiniteSets

CONSTANTS
    News, Deadline, Seeded,     \* inbox rows, those about a deadline, those there at first
    PollsMax, RequestsMax, PollFaults

ASSUME NewsAssumption == Seeded \subseteq News

VARIABLES
    inboxRows,      \* the server's inbox
    inbox,          \* the inbox on screen
    knownInboxIds,
    notices,        \* toasts raised so far, per row
    polls,          \* polls of the inbox under way
    pollFailures,   \* polls of the inbox that failed in a row
    jobPhase,       \* the server's progress of the case: "idle", "running", "done", "failed"
    ingesting,      \* whether the case is in ingestingIds
    ingest,         \* its progress on screen, "none" when there is none
    snaps,          \* polls of the progress under way: "asked" or what was read
    reloads,        \* cards being loaded after a job
    request,        \* a decision or a rereading under way
    begun, requests, pollFaults,
    lostTrack       \* a rereading failed while its job was shown

pollVars == <<inboxRows, inbox, knownInboxIds, notices, polls, pollFailures>>
jobVars == <<jobPhase, ingesting, ingest, snaps, reloads, request, lostTrack>>
consoleVars == <<pollVars, jobVars, begun, requests, pollFaults>>

POLL_FAILURE_LIMIT == 3
Running(p) == p = "running"
NoRequest == [op |-> "none"]

----------------------------------------------------------------------------
\* applyInboxItems: ids not seen before are remembered, and those about a
\* deadline raise a toast.
NotShown(items) == items \ inbox
FreshOf(items) == items \ knownInboxIds
Applied(items) ==
    /\ inbox' = items
    /\ knownInboxIds' = knownInboxIds \union FreshOf(items)
    /\ notices' = [e \in News |-> IF e \in FreshOf(items) \intersect Deadline
                                  THEN notices[e] + 1 ELSE notices[e]]

NewsComes(e) ==
    /\ inboxRows' = inboxRows \union {e}
    /\ UNCHANGED <<inbox, knownInboxIds, notices, polls, pollFailures, jobVars, begun, requests, pollFaults>>
NewsGoes(e) ==
    /\ inboxRows' = inboxRows \ {e}
    /\ UNCHANGED <<inbox, knownInboxIds, notices, polls, pollFailures, jobVars, begun, requests, pollFaults>>

\* The timer, a search, a decision: each asks for the inbox by itself.
PollInbox ==
    /\ begun < PollsMax /\ begun' = begun + 1
    /\ polls' = polls \union {[n |-> begun, pc |-> "asked", items |-> {}]}
    /\ UNCHANGED <<inboxRows, inbox, knownInboxIds, notices, pollFailures, jobVars, requests, pollFaults>>
InboxRead(p) ==
    /\ p.pc = "asked"
    /\ polls' = (polls \ {p}) \union {[p EXCEPT !.pc = "read", !.items = inboxRows]}
    /\ UNCHANGED <<inboxRows, inbox, knownInboxIds, notices, pollFailures, jobVars, begun, requests, pollFaults>>
InboxAnswered(p) ==
    /\ p.pc = "read" /\ Applied(p.items)
    /\ polls' = polls \ {p} /\ pollFailures' = 0
    /\ UNCHANGED <<inboxRows, jobVars, begun, requests, pollFaults>>
InboxFails(p) ==
    /\ pollFaults > 0 /\ pollFaults' = pollFaults - 1
    /\ polls' = polls \ {p}
    /\ pollFailures' = IF pollFailures < POLL_FAILURE_LIMIT THEN pollFailures + 1 ELSE pollFailures
    /\ UNCHANGED <<inboxRows, inbox, knownInboxIds, notices, jobVars, begun, requests>>

----------------------------------------------------------------------------
\* The server's job, and what it says when it is over.
JobMoves ==
    /\ \/ jobPhase = "running" /\ jobPhase' \in {"done", "failed"}
       \/ jobPhase \in {"done", "failed"} /\ jobPhase' = "idle"
    /\ UNCHANGED <<pollVars, ingesting, ingest, snaps, reloads, request, begun, requests, pollFaults, lostTrack>>

\* A case is followed from the moment it is decided or reread ("participate",
\* "reindex"); the download of an inbox row only from the answer.
Ask(op) ==
    /\ request = NoRequest /\ requests < RequestsMax
    /\ op = "reindex" => ~ Running(ingest)
    /\ request' = [op |-> op, pc |-> "sent"] /\ requests' = requests + 1
    /\ ingesting' = (ingesting \/ op # "documents")
    /\ UNCHANGED <<pollVars, jobPhase, ingest, snaps, reloads, begun, pollFaults, lostTrack>>
ServerStarts ==
    /\ request # NoRequest /\ request.pc = "sent"
    /\ request' = [request EXCEPT !.pc = "done"] /\ jobPhase' = "running"
    /\ UNCHANGED <<pollVars, ingesting, ingest, snaps, reloads, begun, requests, pollFaults, lostTrack>>
RequestAnswered ==
    /\ request # NoRequest /\ request.pc = "done"
    /\ request' = NoRequest
    /\ ingesting' = (ingesting \/ request.op = "documents")
    /\ UNCHANGED <<pollVars, jobPhase, ingest, snaps, reloads, begun, requests, pollFaults, lostTrack>>

\* A failed rereading is not followed any more, whatever is on screen.
RequestFails ==
    /\ request # NoRequest /\ pollFaults > 0 /\ pollFaults' = pollFaults - 1
    /\ request' = NoRequest
    /\ ingesting' = (ingesting /\ request.op # "reindex")
    /\ lostTrack' = (lostTrack \/ (request.op = "reindex" /\ Running(ingest)))
    /\ UNCHANGED <<pollVars, jobPhase, ingest, snaps, reloads, begun, requests>>

\* Every 400 ms, for every followed case.
PollProgress ==
    /\ ingesting /\ begun < PollsMax /\ begun' = begun + 1
    /\ snaps' = snaps \union {[n |-> begun, phase |-> "asked"]}
    /\ UNCHANGED <<pollVars, jobPhase, ingesting, ingest, reloads, request, requests, pollFaults, lostTrack>>
ProgressRead(s) ==
    /\ s.phase = "asked"
    /\ snaps' = (snaps \ {s}) \union {[s EXCEPT !.phase = jobPhase]}
    /\ UNCHANGED <<pollVars, jobPhase, ingesting, ingest, reloads, request, begun, requests, pollFaults, lostTrack>>

HeardAnyway(s) ==
    /\ ingest' = s.phase
    /\ ingesting' = (ingesting /\ Running(s.phase))
    /\ reloads' = IF s.phase = "done" THEN reloads + 1 ELSE reloads

\* An answer about a case that is no longer followed is dropped; a job that is
\* over is followed no more, and one that is done has its card loaded.
Heard(s) ==
    IF ~ ingesting THEN UNCHANGED <<ingest, ingesting, reloads>>
    ELSE /\ ingest' = s.phase
         /\ ingesting' = Running(s.phase)
         /\ reloads' = IF s.phase = "done" THEN reloads + 1 ELSE reloads
ProgressAnswered(s) ==
    /\ s.phase # "asked" /\ Heard(s)
    /\ snaps' = snaps \ {s}
    /\ UNCHANGED <<pollVars, jobPhase, request, begun, requests, pollFaults, lostTrack>>
ProgressFails(s) ==
    /\ pollFaults > 0 /\ pollFaults' = pollFaults - 1
    /\ snaps' = snaps \ {s}
    /\ UNCHANGED <<pollVars, jobPhase, ingesting, ingest, reloads, request, begun, requests, lostTrack>>

\* The card arrives or its load fails; either way the progress goes.
Reloaded ==
    /\ reloads > 0 /\ reloads' = reloads - 1
    /\ ingest' = "none"
    /\ UNCHANGED <<pollVars, jobPhase, ingesting, snaps, request, begun, requests, pollFaults, lostTrack>>

ConsoleInit ==
    /\ inboxRows = Seeded /\ inbox = Seeded /\ knownInboxIds = Seeded
    /\ notices = [e \in News |-> 0] /\ polls = {} /\ pollFailures = 0
    /\ jobPhase \in {"idle", "running"} /\ ingesting = FALSE /\ ingest = "none"
    /\ snaps = {} /\ reloads = 0 /\ request = NoRequest /\ lostTrack = FALSE
    /\ begun = 0 /\ requests = 0 /\ pollFaults = PollFaults

InboxNext ==
    \/ \E e \in News \ inboxRows : NewsComes(e)
    \/ \E e \in inboxRows : NewsGoes(e)
    \/ PollInbox
    \/ \E p \in polls : InboxRead(p) \/ InboxAnswered(p) \/ InboxFails(p)

ProgressNext ==
    \/ JobMoves \/ ServerStarts \/ RequestAnswered \/ RequestFails \/ PollProgress \/ Reloaded
    \/ \E op \in {"participate", "reindex", "documents"} : Ask(op)
    \/ \E s \in snaps : ProgressRead(s) \/ ProgressAnswered(s) \/ ProgressFails(s)

\* The two share no state but the bounds, so that a run may follow each alone.
ConsoleNext == InboxNext \/ ProgressNext

ConsoleSpec == ConsoleInit /\ [][ConsoleNext]_consoleVars

----------------------------------------------------------------------------
ConsoleTypeOK ==
    /\ inbox \subseteq News /\ inbox \subseteq knownInboxIds /\ knownInboxIds \subseteq News
    /\ pollFailures \in 0..POLL_FAILURE_LIMIT
    /\ jobPhase \in {"idle", "running", "done", "failed"}
    /\ ingest \in {"none", "idle", "running", "done", "failed"} /\ ingesting \in BOOLEAN
    /\ request = NoRequest \/ request.op \in {"participate", "reindex", "documents"}

\* A deadline event raises its toast once, whatever order the polls answer in,
\* and a row that was there at first raises none.
NoticedOnce == \A e \in News : notices[e] <= IF e \in Seeded THEN 0 ELSE 1

\* A progress on screen that says "running" is being followed, so that it will
\* be replaced; but for a rereading that failed while its job was shown.
ProgressIsLive == ingest = "running" /\ ~ lostTrack => ingesting \/ reloads > 0
=============================================================================
