-------------------------------- MODULE Desk --------------------------------
\* The people at the desk: the web console of one profile, its lists, polls and
\* search pane, the rules its assistant offers, and the accounts that may open
\* it. The parts share no variable; together they are what is on screen and what
\* is under way behind it.
EXTENDS AccountDirectory, AssistantRules, CaseLists, ConsolePolls, SearchPane

DeskSpec == AccountsSpec /\ RulesSpec /\ ListsSpec /\ ConsoleSpec /\ PaneSpec

----------------------------------------------------------------------------
\* Types of every part.
DeskTypeOK == AccountsTypeOK /\ RulesTypeOK /\ ListsTypeOK /\ ConsoleTypeOK /\ PaneTypeOK

\* The screen tells the work under way: a list that says it is loading has a
\* reading to wait for, a busy pane has a request of its own, and a case shown
\* as running has a job that the next reading of the progress will find.
ConsoleIsTrue == DeskTypeOK /\ LoadingIsTrue /\ BusyIsTrue /\ ProgressIsLive
=============================================================================
