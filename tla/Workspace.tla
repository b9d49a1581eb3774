----------------------------- MODULE Workspace -----------------------------
\* What the API process does for one cabinet: the writes of its rows, the manual
\* searches, the bot, the reading of a case's documents and the news of a followed
\* case. The five share no variable: what they have in common, the cards of the
\* cabinet, is modelled in each as far as it acts on them.
EXTENDS CabinetWrites, SearchRun, TelegramBot, DocumentIngest, WatchNews

WorkspaceSpec == Spec /\ SearchSpec /\ TelegramSpec /\ IngestSpec /\ NewsSpec

----------------------------------------------------------------------------
\* Types of every part.
WorkspaceTypeOK == TypeOK /\ SearchTypeOK /\ TelegramTypeOK /\ IngestTypeOK /\ NewsTypeOK

\* The rows of the inbox tell a true story of what moved on the page of a followed
\* case, and an event or a passed deadline is told once.
InboxIsTrue == WorkspaceTypeOK /\ StoryIsTrue /\ EventsAreToldOnce
=============================================================================
