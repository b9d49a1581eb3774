---------------------------- MODULE SourceHealth ----------------------------
\* The health of one lane of sources (apps/api/src/source-health.ts): a timer
\* probes every child through the pipe its work goes through, ahead of that
\* work, and /api/health reads the last verdicts. A tick is the probe's budget.
EXTENDS McpPipe

CONSTANTS
    Probes,      \* the calls that are probes; the others are work
    Every,       \* probeIntervalMs, in ticks
    Stale,       \* staleAfterMs, in ticks
    Registering  \* the lanes whose child names its own source in its registry

ASSUME HealthConstants ==
    /\ Probes \subseteq Calls /\ \A c \in Probes : Plan[c].high
    /\ Every \in Nat /\ Stale \in Nat

VARIABLES
    known,    \* the lanes the monitor takes for alive
    probe,    \* lane -> the probe under way, or NoCall
    verdict,  \* lane -> "pending", or what the last finished probe said
    age,      \* lane -> ticks since that probe finished, up to Stale + 1
    dueIn,    \* ticks to the next cycle
    heard,    \* history: lane -> ticks since its child last answered a probe
    faulty    \* history: the lanes whose child died or failed a probe it was sent

healthVars == <<known, probe, verdict, age, dueIn, heard, faulty>>
monitorVars == <<pipeVars, healthVars>>

Never == Stale + 1
Older(n) == IF n = Never THEN n ELSE n + 1

\* A cycle asks every living child that has no probe under way.
AskedAgain == {l \in known : \E c \in Probes : state[c] = "new" /\ LaneOf(c) = l}
Asked == {l \in known : probe[l] = NoCall
                        /\ \E c \in Probes : state[c] = "new" /\ LaneOf(c) = l}
ProbeOnce ==
    /\ dueIn = 0
    /\ dueIn' = Every
    /\ LET next == [l \in Asked |-> CHOOSE c \in Probes : state[c] = "new" /\ LaneOf(c) = l]
           sent == {next[l] : l \in Asked}
       IN  /\ probe' = [l \in Lanes |-> IF l \in Asked THEN next[l] ELSE probe[l]]
           /\ state' = [c \in Calls |-> IF c \in sent THEN "waiting" ELSE state[c]]
           /\ left' = [c \in Calls |-> IF c \in sent THEN Plan[c].budget ELSE left[c]]
           /\ queue' = [l \in Lanes |-> IF l \in Asked THEN Enqueued(queue[l], next[l])
                                                       ELSE queue[l]]
    /\ UNCHANGED <<running, childWork, alive, reached, known, verdict, age, heard, faulty>>

SettleReviving(l) ==
    /\ probe[l] # NoCall /\ state[probe[l]] \in Settled
    /\ probe' = [probe EXCEPT ![l] = NoCall]
    /\ known' = IF state[probe[l]] = "answered" THEN known \union {l} ELSE known
    /\ verdict' = [verdict EXCEPT ![l] = IF state[probe[l]] = "answered" THEN "ok" ELSE "failed"]
    /\ age' = [age EXCEPT ![l] = 0]
    /\ UNCHANGED <<pipeVars, dueIn, heard, faulty>>

SettleAlways(l) ==
    /\ probe[l] # NoCall /\ state[probe[l]] \in Settled
    /\ probe' = [probe EXCEPT ![l] = NoCall]
    /\ verdict' = [verdict EXCEPT ![l] = IF state[probe[l]] = "answered" THEN "ok" ELSE @]
    /\ age' = [age EXCEPT ![l] = 0]
    /\ UNCHANGED <<pipeVars, known, dueIn, heard, faulty>>

\* probeEntry, after its call: a probe that expired in the queue teaches nothing
\* and the last verdict stands; any other end is a new verdict.
Settle(l) ==
    /\ probe[l] # NoCall /\ state[probe[l]] \in Settled
    /\ probe' = [probe EXCEPT ![l] = NoCall]
    /\ IF state[probe[l]] = "queueTimeout"
       THEN UNCHANGED <<verdict, age>>
       ELSE /\ verdict' = [verdict EXCEPT ![l] = IF state[probe[l]] = "answered"
                                                 THEN "ok" ELSE "failed"]
            /\ age' = [age EXCEPT ![l] = 0]
    /\ UNCHANGED <<pipeVars, known, dueIn, heard, faulty>>

\* onProcessClosed: the monitor hears of the exit before any call does.
Closed(l) ==
    /\ ChildDies(l)
    /\ known' = known \ {l}
    /\ faulty' = faulty \union {l}
    /\ UNCHANGED <<probe, verdict, age, dueIn, heard>>

\* What the pipe does by itself, and what the child's answers to probes tell.
Piped ==
    /\ \/ \E c \in Calls : ExpireInQueue(c)
       \/ \E c \in Calls \ Probes : AbortInQueue(c) \/ Submit(c) \/ Refuse(c)
       \/ \E l \in Lanes : LaneSteps(l)
       \/ \E c \in Calls : c \notin {probe[l] : l \in Lanes} /\ Forget(c)
    /\ \A c \in Probes : state'[c] # "aborted"
    /\ heard' = [l \in Lanes |->
                   IF \E c \in Probes : state[c] = "sent" /\ state'[c] = "answered" /\ LaneOf(c) = l
                   THEN 0 ELSE heard[l]]
    /\ faulty' = faulty \union {LaneOf(c) : c \in {d \in Probes :
                   state[d] = "sent" /\ state'[d] \in {"failed", "timeout"}}}
    /\ UNCHANGED <<known, probe, verdict, age, dueIn>>

\* Time passes when no timer is due and no pipe or settled probe waits for its code.
Clock ==
    /\ dueIn > 0 /\ NoTimerIsDue /\ TimePasses
    /\ \A l \in Lanes : /\ (running[l] = NoCall => queue[l] = <<>>)
                         /\ (probe[l] # NoCall => state[probe[l]] \in Open)
    /\ dueIn' = dueIn - 1
    /\ age' = [l \in Lanes |-> Older(age[l])]
    /\ heard' = [l \in Lanes |-> Older(heard[l])]
    /\ UNCHANGED <<queue, running, state, childWork, alive, reached, known, probe, verdict, faulty>>

HealthInit ==
    /\ PipeInit
    /\ known = Lanes /\ probe = [l \in Lanes |-> NoCall]
    /\ verdict = [l \in Lanes |-> "pending"] /\ age = [l \in Lanes |-> Never]
    /\ dueIn = 0 /\ heard = [l \in Lanes |-> Never] /\ faulty = {}

HealthNext == ProbeOnce \/ Piped \/ Clock \/ (\E l \in Lanes : Settle(l) \/ Closed(l))

HealthSpec == HealthInit /\ [][HealthNext]_monitorVars

----------------------------------------------------------------------------
\* servingSources of the snapshot: living children whose last verdict is good,
\* fresh, and names their own source.
Serving == {l \in known \intersect Registering : verdict[l] = "ok" /\ age[l] <= Stale}

HealthTypeOK ==
    /\ PipeTypeOK
    /\ known \subseteq Lanes /\ probe \in [Lanes -> Probes \union {NoCall}]
    /\ verdict \in [Lanes -> {"pending", "ok", "failed"}]
    /\ age \in [Lanes -> 0..Never] /\ heard \in [Lanes -> 0..Never]
    /\ dueIn \in 0..Every /\ faulty \subseteq Lanes

\* A source is reported as serving only when its child answered a probe within
\* the freshness window: a probe that never reached it proves nothing.
ServingWasHeard == \A l \in Serving : heard[l] <= Stale

\* The end of the process beats every answer that was on its way.
DeadIsNeverServing == Serving \subseteq alive

\* However long its pipe is busy, a child has one probe under way.
OneProbePerChild ==
    \A c, d \in Probes : state[c] \in Open /\ state[d] \in Open /\ LaneOf(c) = LaneOf(d) => c = d

\* A child that answers what it is sent does not stop serving because it is busy.
BusyStaysServing == \A l \in Serving : l \notin faulty' => l \in Serving'
=============================================================================
