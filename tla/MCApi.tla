------------------------------- MODULE MCApi -------------------------------
\* Parts of the API process, each followed by itself (`part`): the cabinet of
\* module CabinetWrites ("cabinet"), the bot of TelegramBot ("bot"), the manual
\* searches of SearchRun ("search"), the reading of a case's documents of
\* DocumentIngest ("ingest") and the news of a case of WatchNews ("watch").
EXTENDS Workspace

CONSTANT Parts    \* the parts this run follows

VARIABLE part

\* Values of the constants. Two users, each with a code; an archive in an archive,
\* files that link in a circle and to a listed file, more links than the budget.
OfTheCodes == [cu |-> "u", cv |-> "v"]
Papers == {"spec", "pack", "box", "inner", "draft", "site"}
InPapers == [f \in Papers |-> IF f = "pack" THEN {"box"} ELSE IF f = "box" THEN {"inner"} ELSE {}]
PaperLinks == [spec |-> {"draft", "pack"}, pack |-> {}, box |-> {}, inner |-> {"draft", "site"},
               draft |-> {"site", "spec", "draft"}, site |-> {"draft"}]

\* One field of the watched page moves two or three times; it lists two files. The
\* specialist reads it once, one reading fails.
OneAtATime == {{"status"}, {"price"}, {"due"}, {"event"}, {"files"}}
Moves == [status |-> 3, price |-> 3, due |-> 2, event |-> 3, files |-> 2]

apiVars == <<part, vars, telegramVars, searchVars, ingestVars, newsVars>>

ApiInit ==
    /\ part \in Parts
    /\ Init /\ (part = "cabinet" \/ mem.profiles = {"p"})
    /\ TelegramInit /\ SearchInit /\ IngestInit
    /\ NewsInit /\ page.status = "open" /\ page.price # "high"
    /\ part = "watch" \/ subject = {"event"}

CabinetStep == part = "cabinet" /\ Next
               /\ UNCHANGED <<part, telegramVars, searchVars, ingestVars, newsVars>>
BotStep     == part = "bot" /\ TelegramNext
               /\ UNCHANGED <<part, vars, searchVars, ingestVars, newsVars>>
SearchStep  == part = "search" /\ SearchNext
               /\ UNCHANGED <<part, vars, telegramVars, ingestVars, newsVars>>
IngestStep  == part = "ingest" /\ IngestNext
               /\ UNCHANGED <<part, vars, telegramVars, searchVars, newsVars>>
WatchStep   == part = "watch" /\ NewsNext
               /\ UNCHANGED <<part, vars, telegramVars, searchVars, ingestVars>>
ApiNext == CabinetStep \/ BotStep \/ SearchStep \/ IngestStep \/ WatchStep

\* The bot's loop runs on, a background search goes on with its rows, and one
\* watch pass follows the other. A part moves its own variables alone.
ApiSpec == /\ ApiInit /\ [][ApiNext]_apiVars
        /\ WF_telegramVars(part = "bot" /\ (Poll \/ Take \/ Handle))
        /\ \A s \in Searches : WF_searchVars(part = "search" /\ Job(s))
        /\ WF_newsVars(part = "watch" /\ WatchPass)

----------------------------------------------------------------------------
\* A file replaced under its URL is noticed, and a deadline that passed announced.
NewsIsFound == (part = "watch" /\ NotFoundYet) ~> ~ NotFoundYet
=============================================================================
