------------------------------- MODULE MCDesk -------------------------------
\* What the people at the desk see and do, each part followed by itself
\* (`part`): the assistant's suggestions ("rules"), the lists of cases
\* ("lists"), the notices of the inbox ("toasts"), the marks of document jobs
\* ("progress"), the search pane ("pane") and the accounts of module
\* AccountDirectory ("accounts"); and how a procedure is held against a profile,
\* word by word ("intent").
EXTENDS Desk

CONSTANT Parts   \* the parts this run follows

VARIABLES part, searcher, fromModel, asking, page

\* Values of the constants. Three cases: one refused before, one accepted before,
\* one whose terms lie within one another; terms of one and two words.
Before  == [k |-> "reject", l |-> "none", n |-> "accept"]
Subjects == [k |-> {<<"a">>, <<"b">>}, l |-> {<<"a">>, <<"a", "b">>, <<"b">>}, n |-> {<<"t">>}]
Told    == {<<"b">>, <<"a", "b">>}

\* Four kinds of profile: two abbreviations, one of them of two letters; deliveries
\* with a purpose; works; a head of HeadWords that is no verb. Titles of three words.
Wants(name, phrases, refused) ==
    [name |-> name, keywords |-> phrases, excluded |-> refused,
     statuses |-> {"accepting_bids"}, excludeSingle |-> TRUE]
Suggests == [objects |-> <<>>, context |-> <<>>, barred |-> <<>>,
             desired |-> <<>>, vetoed |-> <<>>, intent |-> "purchase"]
Intent == INSTANCE SearchIntent WITH
    Short <- {"KTP", "TP"}, TwoLetter <- {"TP"},
    Inside <- {<<"BKTP", "KTP">>}, Swallowed <- {<<"rebuild", "TP">>},
    AxisCap <- 2, VetoCap <- 6, TitleMax <- 3, LotsMax <- 1,
    SavedProfiles <- {
        Wants(<<"ours">>, <<<<"KTP">>, <<"TP">>>>, <<>>),
        Wants(<<"drive", "for", "pump">>, <<<<"supply", "KTP">>, <<"panel", "for", "pump">>>>, <<<<"repair">>>>),
        Wants(<<"works">>, <<<<"mount", "panel">>, <<"KTP">>>>, <<>>),
        Wants(<<"services">>, <<<<"rebuild", "panel">>>>, <<>>)},
    ModelPlans <- {
        [Suggests EXCEPT !.objects = <<<<"panel">>>>, !.context = <<<<"pump">>>>],
        [Suggests EXCEPT !.barred = <<<<"pump">>>>, !.intent = "works",
                         !.vetoed = <<<<"mount">>>>, !.desired = <<<<"supply">>, <<"repair">>>>]},
    SiteWords <- {"KTP", "TP", "BKTP", "panel", "pump", "supply", "mount", "rebuild",
                  ",", "incl"}
ASSUME IntentIsBounded == Intent!IntentBounds

readVars == <<searcher, fromModel, asking, page>>
vars == <<part, ruleVars, listVars, consoleVars, paneVars, accountVars, readVars>>

\* A part that is not followed starts in one way only.
Init ==
    /\ part \in Parts
    /\ RulesInit /\ ListsInit /\ ConsoleInit /\ PaneInit /\ AccountsInit /\ Intent!IntentInit
    /\ part = "intent" \/ (searcher.name = <<"ours">> /\ fromModel = <<>>)
    /\ part = "lists" \/ (linkFaults = 0 /\ \A c \in ListCards : place[c] = "mine")
    /\ part = "pane" \/ screen["c"] = "absent"
    /\ part = "progress" \/ jobPhase = "idle"

RulesStep    == part = "rules" /\ RulesNext
                /\ UNCHANGED <<part, listVars, consoleVars, paneVars, accountVars, readVars>>
ListsStep    == part = "lists" /\ ListsNext
                /\ UNCHANGED <<part, ruleVars, consoleVars, paneVars, accountVars, readVars>>
ToastsStep   == part = "toasts" /\ InboxNext
                /\ UNCHANGED <<part, ruleVars, listVars, paneVars, accountVars, readVars>>
ProgressStep == part = "progress" /\ ProgressNext
                /\ UNCHANGED <<part, ruleVars, listVars, paneVars, accountVars, readVars>>
PaneStep     == part = "pane" /\ PaneNext
                /\ UNCHANGED <<part, ruleVars, listVars, consoleVars, accountVars, readVars>>
AccountsStep == part = "accounts" /\ AccountsNext
                /\ UNCHANGED <<part, ruleVars, listVars, consoleVars, paneVars, readVars>>
ReadStep     == part = "intent" /\ Intent!IntentNext
                /\ UNCHANGED <<part, ruleVars, listVars, consoleVars, paneVars, accountVars>>
Next == \/ RulesStep \/ ListsStep \/ ToastsStep \/ ProgressStep
        \/ PaneStep \/ AccountsStep \/ ReadStep
Spec == Init /\ [][Next]_vars

----------------------------------------------------------------------------
\* A card settles a row only for a reason that stands in its texts, and no filter
\* of the listing is in the way of the verdict.
VerdictIsEarned ==
    part = "intent" => Intent!IntentTypeOK /\ Intent!VerdictIsEarned /\ Intent!RelevantRowWaits

\* A model that reads the profile too drops nothing the profile asks for; no page
\* has a say in it, so the blank one will do.
ModelDropsNothing == part = "intent" /\ page.title = <<>> => Intent!ModelDropsNothing

\* A short keyword and one inside a foreign code never settle a card between them
\* (query-terms.ts:296).
HintsSettleNothing == part = "intent" => Intent!HintsSettleNothing

=============================================================================
