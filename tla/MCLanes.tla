------------------------------ MODULE MCLanes ------------------------------
\* The parts around the MCP children, side by side: the pipes with the calls of
\* the API (`part` = "pipe"), the same pipes with the monitor of their health
\* ("health"), the controller of the background pass ("control"), and the session
\* a child keeps with zakupki.butb.by ("butb").
EXTENDS Sources

CONSTANT Parts   \* the parts this run follows

VARIABLE part

\* The calls of the pipe: one that names no source, two for the child, one for a
\* source that was never connected. With the monitor: a page of work, two probes.
CallOf(source, high, budget) == [source |-> source, high |-> high, budget |-> budget]
PipePlan == [sources |-> CallOf("no source", FALSE, 1),
             card    |-> CallOf("goszakupki", TRUE, 2),
             get     |-> CallOf("goszakupki", TRUE, 1),
             file    |-> CallOf("butb", FALSE, 1),
             page    |-> CallOf("goszakupki", FALSE, 3),
             p1      |-> CallOf("goszakupki", TRUE, 1),
             p2      |-> CallOf("goszakupki", TRUE, 1)]
Monitored == {"page"} \union Probes
Only(calls) == \A c \in Calls \ calls : state'[c] = "new"

InTurn     == <<"ours", "theirs">>
ProfilesOf == [ours |-> <<"x", "y">>, theirs |-> <<"z">>]
Sought     == <<"kru", "tp">>

vars == <<part, monitorVars, controlVars, butbVars>>

Init == part \in Parts /\ HealthInit /\ ControlInit /\ ButbInit

PipeStep    == part = "pipe" /\ PipeNext /\ Only(Calls \ Monitored)
               /\ UNCHANGED <<part, healthVars, controlVars, butbVars>>
HealthStep  == part = "health" /\ HealthNext /\ Only(Monitored)
               /\ UNCHANGED <<part, controlVars, butbVars>>
ControlStep == part = "control" /\ ControlNext /\ UNCHANGED <<part, monitorVars, butbVars>>
ButbStep    == part = "butb" /\ ButbNext /\ UNCHANGED <<part, monitorVars, controlVars>>
Next == PipeStep \/ HealthStep \/ ControlStep \/ ButbStep

\* Timers fire, an idle pipe takes the next call, the clock moves; nothing is
\* assumed of the children. For the passes, see module DiscoveryControl. A
\* request to the site has a timeout (#requestSignal): it is answered or fails.
\* A part moves its own variables alone.
Fairness ==
    /\ WF_pipeVars(part = "pipe" /\ Tick)
    /\ \A c \in Calls \ Monitored : WF_pipeVars(part = "pipe" /\ ExpireInQueue(c))
    /\ \A l \in Lanes : WF_pipeVars(part = "pipe" /\ Pump(l)) /\ WF_pipeVars(part = "pipe" /\ TimesOut(l))
    /\ WF_controlVars(part = "control" /\ StartScheduled)
    /\ WF_controlVars(part = "control" /\ InPass)
    /\ WF_controlVars(part = "control" /\ CoolsDown)
    /\ \A c \in Callers : WF_butbVars(part = "butb" /\ Carries(c))
Spec == Init /\ [][Next]_vars /\ Fairness

----------------------------------------------------------------------------
\* Every call that was made settles, although a child may never answer; and in
\* the child none is left waiting for the lock of the session.
EveryCallSettles ==
    /\ \A c \in Calls \ Monitored : state[c] \in Open ~> state[c] \in Settled
    /\ \A c \in Callers : conv[c].pc # "idle" ~> conv[c].pc = "idle"

\* A child that answers what it is sent keeps serving while it is busy.
BusyIsServing == [][BusyStaysServing]_healthVars

\* Another background pass always starts, whatever fails.
PassesGoOn == part = "control" => []<>isRunning /\ []<>~isRunning
=============================================================================
