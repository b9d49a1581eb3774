-------------------------- MODULE DiscoveryControl --------------------------
\* The safety around background discovery (apps/api/src/discovery-control.ts)
\* and the loop over the cabinets it guards (runDiscovery of apps/api/src/app.ts):
\* one pass at a time, and a breaker that opens after source outages. The state
\* is in memory, so a restart forgets it; the schedule is in Redis or a timer.
EXTENDS Naturals, Sequences, FiniteSets

CONSTANTS
    Profiles,    \* cabinet -> the profiles a pass of it searches, in order
    Cabinets,    \* every cabinet, in the order a pass visits them
    Threshold,   \* failureThreshold
    Cooldown     \* cooldownMs, in ticks

ASSUME ControlBounds ==
    /\ Threshold \in Nat \ {0} /\ Cooldown \in Nat
    /\ Cabinets \in Seq(DOMAIN Profiles)

VARIABLES
    isRunning, failures, circuitOpen,
    cooling,    \* ticks until cooldownUntil
    pass,       \* the running pass, or the last one
    outages     \* history: passes ended by an outage since one succeeded

controlVars == <<isRunning, failures, circuitOpen, cooling, pass, outages>>

Kinds == {"outage", "other"}
NoPass == [todo |-> <<>>, open |-> FALSE, searching |-> <<>>, failed |-> <<>>,
           succeeded |-> FALSE, ran |-> FALSE, reason |-> "watch_off", cost |-> {}]

\* A refused start changes nothing; a cooldown that is over lets one pass probe.
TryStart(targets) ==
    /\ ~isRunning /\ ~(circuitOpen /\ cooling > 0)
    /\ circuitOpen' = FALSE /\ isRunning' = TRUE
    /\ pass' = [NoPass EXCEPT !.todo = targets]
    /\ UNCHANGED <<failures, cooling, outages>>

\* The schedule visits every cabinet; a signed-in specialist only his own.
StartScheduled == TryStart(Cabinets)
StartByHand == \E i \in DOMAIN Cabinets : TryStart(<<Cabinets[i]>>)

\* discoveryPass of the next cabinet: nothing to search, or its profiles in turn.
OpenCabinet ==
    /\ isRunning /\ ~pass.open /\ pass.todo # <<>>
    /\ \/ \E reason \in {"watch_off", "no_keywords"} :
            pass' = [pass EXCEPT !.todo = Tail(@),
                                 !.reason = IF @ = "watch_off" THEN reason ELSE @]
       \/ /\ Profiles[Head(pass.todo)] # <<>>
          /\ pass' = [pass EXCEPT !.open = TRUE, !.searching = Profiles[Head(pass.todo)],
                                  !.failed = <<>>, !.succeeded = FALSE]
    /\ UNCHANGED <<isRunning, failures, circuitOpen, cooling, outages>>

\* One profile's search answers, or fails and leaves the others their turn.
SearchProfile ==
    /\ isRunning /\ pass.open /\ pass.searching # <<>>
    /\ \/ pass' = [pass EXCEPT !.searching = Tail(@), !.succeeded = TRUE]
       \/ \E kind \in Kinds :
            pass' = [pass EXCEPT !.searching = Tail(@), !.failed = Append(@, kind)]
    /\ UNCHANGED <<isRunning, failures, circuitOpen, cooling, outages>>

CloseCabinet ==
    /\ isRunning /\ pass.open /\ pass.searching = <<>> /\ pass.succeeded
    /\ pass' = [pass EXCEPT !.todo = Tail(@), !.open = FALSE, !.ran = TRUE, !.reason = "ok"]
    /\ UNCHANGED <<isRunning, failures, circuitOpen, cooling, outages>>

FinishWhenRan ==
    /\ isRunning /\ pass.todo = <<>>
    /\ isRunning' = ~pass.ran
    /\ IF pass.ran /\ pass.reason = "ok"
       THEN failures' = 0 /\ circuitOpen' = FALSE /\ cooling' = 0 /\ outages' = 0
       ELSE UNCHANGED <<failures, circuitOpen, cooling, outages>>
    /\ UNCHANGED pass

\* finish
Finish ==
    /\ isRunning /\ pass.todo = <<>>
    /\ isRunning' = FALSE
    /\ IF pass.ran /\ pass.reason = "ok"
       THEN failures' = 0 /\ circuitOpen' = FALSE /\ cooling' = 0 /\ outages' = 0
       ELSE UNCHANGED <<failures, circuitOpen, cooling, outages>>
    /\ UNCHANGED pass

Saturated(n) == IF n < Threshold THEN n + 1 ELSE n

\* A cabinet none of whose profiles was searched throws the first one's error:
\* the pass ends there (recordFailure), whatever cabinets it had left. The
\* counter is kept up to the threshold, where it has the effect of any more.
Fail ==
    /\ isRunning /\ pass.open /\ pass.searching = <<>> /\ ~pass.succeeded
    /\ isRunning' = FALSE
    /\ pass' = [pass EXCEPT !.cost = {pass.todo[i] : i \in 2..Len(pass.todo)}]
    /\ IF Head(pass.failed) = "outage"
       THEN /\ failures' = Saturated(failures) /\ outages' = Saturated(outages)
            /\ IF failures + 1 >= Threshold
               THEN circuitOpen' = TRUE /\ cooling' = Cooldown
               ELSE UNCHANGED <<circuitOpen, cooling>>
       ELSE UNCHANGED <<failures, outages, circuitOpen, cooling>>

\* A restart closes the breaker and forgets the counter.
Restart ==
    /\ isRunning' = FALSE /\ failures' = 0 /\ circuitOpen' = FALSE /\ cooling' = 0
    /\ pass' = NoPass /\ outages' = 0

CoolsDown ==
    /\ cooling > 0 /\ cooling' = cooling - 1
    /\ UNCHANGED <<isRunning, failures, circuitOpen, pass, outages>>

ControlInit ==
    /\ isRunning = FALSE /\ failures = 0 /\ circuitOpen = FALSE /\ cooling = 0
    /\ pass = NoPass /\ outages = 0

InPass == OpenCabinet \/ SearchProfile \/ CloseCabinet \/ Finish \/ Fail
ControlNext == StartScheduled \/ StartByHand \/ InPass \/ CoolsDown \/ Restart

\* The schedule ticks on, time passes, and a search ends: its calls have budgets.
PassesFair == WF_controlVars(StartScheduled) /\ WF_controlVars(InPass) /\ WF_controlVars(CoolsDown)
ControlSpec == ControlInit /\ [][ControlNext]_controlVars /\ PassesFair

----------------------------------------------------------------------------
ControlTypeOK ==
    /\ isRunning \in BOOLEAN /\ circuitOpen \in BOOLEAN
    /\ failures \in 0..Threshold /\ outages \in 0..Threshold /\ cooling \in 0..Cooldown
    /\ pass.reason \in {"ok", "watch_off", "no_keywords"} /\ pass.cost \subseteq DOMAIN Profiles

\* The breaker opens on source outages alone: as many passes as the threshold
\* ended with one since a pass last succeeded, and no other failure counts.
OpensOnOutagesOnly == circuitOpen => outages >= Threshold

\* A failing profile costs no other profile its pass.
OneFailureCostsNoOther == pass.cost = {}
=============================================================================
