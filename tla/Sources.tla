------------------------------- MODULE Sources -------------------------------
\* Everything between the API process and the sources it reads: the pipes to the
\* MCP children with the monitor of their health, the breaker of the background
\* pass, and the session a child keeps with zakupki.butb.by. The three share no
\* variable.
EXTENDS SourceHealth, DiscoveryControl, ButbHttp

SourcesSpec == HealthSpec /\ ControlSpec /\ ButbSpec

----------------------------------------------------------------------------
\* Types of every part.
SourcesTypeOK == HealthTypeOK /\ ControlTypeOK /\ ButbTypeOK

\* What is said of a source was heard of it: one reported as serving answered a
\* probe a short while ago, the end of a child beats every answer that was on its
\* way, a child has one probe under way, however long its pipe is busy, and the
\* breaker of the pass opens on outages of the sources alone.
VerdictsAreTrue ==
    ServingWasHeard /\ DeadIsNeverServing /\ OneProbePerChild /\ OpensOnOutagesOnly

\* Nobody waits behind a lower level nor behind a later call of his own; the session
\* of a child hands on the page of the search that was asked for, and one that was
\* lost or left degraded costs nobody his call (see module ButbHttp for the calls
\* that got in each other's way); and the verdicts on the sources are true.
PipesKeepTheirWord ==
    /\ SourcesTypeOK /\ QueueIsFair /\ VerdictsAreTrue
    /\ AnsweredAsAsked /\ OneDeathIsInvisible
=============================================================================
