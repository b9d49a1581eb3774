------------------------------- MODULE McpPipe -------------------------------
\* The pipes between the API process and its MCP children: one child per source
\* (packages/mcp-client/src/source-routing-caller.ts), each behind a queue that
\* lets one request through at a time (packages/mcp-client/src/call-tool.ts).
\* A call has one budget for its wait and its work; its caller may abort it; the
\* child may answer late, after the call was given up, or never. A call nothing
\* holds any more may be made again: its name then stands for a new request.
EXTENDS Integers, Sequences, FiniteSets, SequencesExt

CONSTANTS
    Lanes,       \* the sources with a child of their own
    Fallback,    \* the lane of calls that name no known source
    Missing,     \* sources configured but never connected
    Calls,       \* calls that may be under way at once
    Plan         \* call -> [source, high, budget], the budget in ticks

VARIABLES
    queue,      \* lane -> the calls that wait, in the order they will run
    running,    \* lane -> the call whose request is out, or NoCall
    state,      \* call -> where it stands
    left,       \* call -> what is left of its budget
    childWork,  \* lane -> the requests the child is busy with
    alive,      \* the lanes whose child runs; nobody starts a child again
    reached     \* history: the calls whose request was sent to a source

pipeVars == <<queue, running, state, left, childWork, alive, reached>>

NoCall == "none"

ASSUME PipeConstants ==
    /\ Fallback \in Lanes /\ Missing \cap Lanes = {} /\ NoCall \notin Calls
    /\ \A c \in Calls : Plan[c].high \in BOOLEAN /\ Plan[c].budget \in Nat

Settled == {"answered", "failed", "queueTimeout", "timeout", "aborted", "unavailable"}
Open == {"waiting", "sent"}

\* createSourceRoutingCaller
LaneOf(c) == IF Plan[c].source \in Lanes THEN Plan[c].source ELSE Fallback

\* The request's end frees the pipe, whatever it is.
Free(l) == running' = [running EXCEPT ![l] = NoCall]

EnqueuedInFront(q, c) == IF Plan[c].high THEN <<c>> \o q ELSE Append(q, c)

\* A high call goes before the first normal one that waits; levels are FIFO.
Enqueued(q, c) ==
    LET later == IF Plan[c].high
                 THEN {i \in DOMAIN q : ~Plan[q[i]].high} ELSE {}
    IN  IF later = {} THEN Append(q, c)
        ELSE InsertAt(q, CHOOSE i \in later : \A j \in later : i <= j, c)

\* A call that is already cancelled, or whose source has no child, is refused
\* before it waits.
Refuse(c) ==
    /\ state[c] = "new"
    /\ \/ state' = [state EXCEPT ![c] = "aborted"]
       \/ Plan[c].source \in Missing /\ state' = [state EXCEPT ![c] = "unavailable"]
    /\ UNCHANGED <<queue, running, left, childWork, alive, reached>>

Submit(c) ==
    /\ state[c] = "new" /\ Plan[c].source \notin Missing
    /\ state' = [state EXCEPT ![c] = "waiting"]
    /\ left' = [left EXCEPT ![c] = Plan[c].budget]
    /\ queue' = [queue EXCEPT ![LaneOf(c)] = Enqueued(@, c)]
    /\ UNCHANGED <<running, childWork, alive, reached>>

\* The timer or the abort of a call in the queue settles it; its entry stays
\* there and is skipped later. The dequeue clears both.
Queued(c) == state[c] = "waiting" /\ c \in ToSet(queue[LaneOf(c)])
ExpireInQueue(c) ==
    /\ Queued(c) /\ left[c] = 0
    /\ state' = [state EXCEPT ![c] = "queueTimeout"]
    /\ UNCHANGED <<queue, running, left, childWork, alive, reached>>

AbortInQueue(c) ==
    /\ Queued(c)
    /\ state' = [state EXCEPT ![c] = "aborted"]
    /\ UNCHANGED <<queue, running, left, childWork, alive, reached>>

PumpWithoutCheck(l) ==
    /\ running[l] = NoCall /\ queue[l] # <<>>
    /\ LET c == Head(queue[l])
       IN  /\ state' = [state EXCEPT ![c] = "sent"]
           /\ running' = [running EXCEPT ![l] = c]
           /\ childWork' = [childWork EXCEPT ![l] = @ \union {c}]
           /\ reached' = reached \union {c}
    /\ queue' = [queue EXCEPT ![l] = Tail(@)]
    /\ UNCHANGED <<left, alive>>

PumpSilently(l) ==
    /\ running[l] = NoCall /\ queue[l] # <<>>
    /\ queue' = [queue EXCEPT ![l] = Tail(@)]
    /\ LET c == Head(queue[l])
       IN  CASE state[c] \in Settled ->
                  UNCHANGED <<state, running, childWork, reached>>
             [] state[c] = "waiting" /\ left[c] = 0 ->
                  UNCHANGED <<state, running, childWork, reached>>
             [] state[c] = "waiting" /\ left[c] > 0 /\ l \notin alive ->
                  /\ state' = [state EXCEPT ![c] = "failed"]
                  /\ UNCHANGED <<running, childWork, reached>>
             [] OTHER ->
                  /\ state' = [state EXCEPT ![c] = "sent"]
                  /\ running' = [running EXCEPT ![l] = c]
                  /\ childWork' = [childWork EXCEPT ![l] = @ \union {c}]
                  /\ reached' = reached \union {c}
    /\ UNCHANGED <<left, alive>>

\* An idle pipe takes the first entry. An expired one is dropped; one whose
\* budget is spent is refused; the others are sent with what is left of it, and
\* fail at once when the child is gone.
Pump(l) ==
    /\ running[l] = NoCall /\ queue[l] # <<>>
    /\ queue' = [queue EXCEPT ![l] = Tail(@)]
    /\ LET c == Head(queue[l])
       IN  CASE state[c] \in Settled ->
                  UNCHANGED <<state, running, childWork, reached>>
             [] state[c] = "waiting" /\ left[c] = 0 ->
                  /\ state' = [state EXCEPT ![c] = "queueTimeout"]
                  /\ UNCHANGED <<running, childWork, reached>>
             [] state[c] = "waiting" /\ left[c] > 0 /\ l \notin alive ->
                  /\ state' = [state EXCEPT ![c] = "failed"]
                  /\ UNCHANGED <<running, childWork, reached>>
             [] OTHER ->
                  /\ state' = [state EXCEPT ![c] = "sent"]
                  /\ running' = [running EXCEPT ![l] = c]
                  /\ childWork' = [childWork EXCEPT ![l] = @ \union {c}]
                  /\ reached' = reached \union {c}
    /\ UNCHANGED <<left, alive>>

ChildFinishesTheCurrent(l, c) ==
    /\ c \in childWork[l]
    /\ childWork' = [childWork EXCEPT ![l] = @ \ {c}]
    /\ IF running[l] # NoCall
       THEN state' = [state EXCEPT ![running[l]] = "answered"] /\ Free(l)
       ELSE UNCHANGED <<state, running>>
    /\ UNCHANGED <<queue, left, alive, reached>>

\* The child finishes a request. Only the answer to the request that is out is
\* taken; a late one has no promise left that waits for it.
ChildFinishes(l, c) ==
    /\ c \in childWork[l]
    /\ childWork' = [childWork EXCEPT ![l] = @ \ {c}]
    /\ IF running[l] = c
       THEN \E end \in {"answered", "failed"} : state' = [state EXCEPT ![c] = end] /\ Free(l)
       ELSE UNCHANGED <<state, running>>
    /\ UNCHANGED <<queue, left, alive, reached>>

\* The SDK gives the request up at the rest of its budget. The child is told and
\* may still be busy with it for a while.
TimesOutHolding(l) ==
    /\ running[l] # NoCall /\ left[running[l]] = 0
    /\ state' = [state EXCEPT ![running[l]] = "timeout"]
    /\ UNCHANGED <<queue, running, left, childWork, alive, reached>>

TimesOut(l) ==
    /\ running[l] # NoCall /\ left[running[l]] = 0
    /\ state' = [state EXCEPT ![running[l]] = "timeout"]
    /\ Free(l)
    /\ UNCHANGED <<queue, left, childWork, alive, reached>>

\* The caller aborts a request that is out.
AbortSent(l) ==
    /\ running[l] # NoCall
    /\ state' = [state EXCEPT ![running[l]] = "aborted"]
    /\ Free(l)
    /\ UNCHANGED <<queue, left, childWork, alive, reached>>

\* The child exits: the request that is out fails, and so does every later one.
ChildDies(l) ==
    /\ l \in alive
    /\ alive' = alive \ {l}
    /\ childWork' = [childWork EXCEPT ![l] = {}]
    /\ state' = [c \in Calls |-> IF c = running[l] THEN "failed" ELSE state[c]]
    /\ Free(l)
    /\ UNCHANGED <<queue, left, reached>>

\* Timers are not late: time passes only when none is due.
NoTimerIsDue == \A c \in Calls : state[c] \in Open => left[c] > 0
TimePassesForAll == left' = [c \in Calls |-> left[c] - 1]

TimePasses == left' = [c \in Calls |-> IF state[c] \in Open THEN left[c] - 1 ELSE left[c]]
Tick == NoTimerIsDue /\ TimePasses
        /\ UNCHANGED <<queue, running, state, childWork, alive, reached>>

Without(q, c) ==
    IF c \in ToSet(q) THEN RemoveAt(q, CHOOSE i \in DOMAIN q : q[i] = c) ELSE q

\* A settled call the child is done with: a later request takes its name, and the
\* entry that would only be skipped goes with it.
Forget(c) ==
    /\ state[c] \in Settled /\ \A l \in Lanes : c \notin childWork[l]
    /\ state' = [state EXCEPT ![c] = "new"]
    /\ left' = [left EXCEPT ![c] = 0]
    /\ reached' = reached \ {c}
    /\ queue' = [l \in Lanes |-> Without(queue[l], c)]
    /\ UNCHANGED <<running, childWork, alive>>

PipeInit ==
    /\ queue = [l \in Lanes |-> <<>>] /\ running = [l \in Lanes |-> NoCall]
    /\ state = [c \in Calls |-> "new"] /\ left = [c \in Calls |-> 0]
    /\ childWork = [l \in Lanes |-> {}] /\ alive = Lanes /\ reached = {}

LaneSteps(l) == Pump(l) \/ TimesOut(l) \/ AbortSent(l) \/ (\E c \in Calls : ChildFinishes(l, c))

PipeNext ==
    \/ \E c \in Calls : \/ Refuse(c) \/ Submit(c) \/ ExpireInQueue(c)
                        \/ AbortInQueue(c) \/ Forget(c)
    \/ \E l \in Lanes : LaneSteps(l) \/ ChildDies(l)
    \/ Tick

PipeSpec == PipeInit /\ [][PipeNext]_pipeVars

----------------------------------------------------------------------------
PipeTypeOK ==
    /\ queue \in [Lanes -> Seq(Calls)]
    /\ running \in [Lanes -> Calls \union {NoCall}]
    /\ state \in [Calls -> Settled \union Open \union {"new"}]
    /\ left \in [Calls -> Nat]
    /\ childWork \in [Lanes -> SUBSET Calls] /\ alive \subseteq Lanes /\ reached \subseteq Calls

\* A call is out exactly while its lane says so: two requests never share a
\* pipe, and no pipe is held for a call that was settled.
OneRequestAtATime ==
    \A c \in Calls : state[c] = "sent" <=> running[LaneOf(c)] = c

\* A call that was answered was answered by its own child for itself: a late
\* answer of a given-up request is never taken for the next one.
AnswerIsOnesOwn ==
    \A c \in Calls : state[c] # "answered" /\ state'[c] = "answered" =>
        \E l \in Lanes : c \in childWork[l] /\ c \notin childWork'[l]

\* A call that expired or was cancelled in the queue never reaches its source.
GivenUpCallStaysHome ==
    \A c \in reached' \ reached : state[c] = "waiting" /\ left[c] > 0

\* A late answer is never taken for the answer of the next request, and a call
\* that expired or was cancelled in the queue never reaches its source.
AnswersAreOnesOwn == [][AnswerIsOnesOwn /\ GivenUpCallStaysHome]_pipeVars

\* No call waits behind one of a lower level, nor behind one of its own level
\* that was made later.
Age(c) == Plan[c].budget - left[c]
QueueIsFair ==
    \A l \in Lanes : \A i, j \in DOMAIN queue[l] :
        LET c == queue[l][i]
            d == queue[l][j]
        IN  i < j => \/ Plan[c].high /\ ~Plan[d].high
                     \/ Plan[c].high = Plan[d].high
                        /\ ({state[c], state[d]} = {"waiting"} => Age(c) >= Age(d))

=============================================================================
