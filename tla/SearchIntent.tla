---------------------------- MODULE SearchIntent ----------------------------
\* How a procedure is held against a profile (packages/domain/src/search): the
\* plan read off the profile's phrases, the plan a model adds to it, the score of
\* a title or a lot, the verdict on a card, the listing row that waits for one,
\* and the second look. A text is a sequence of words and marks, a phrase one of
\* words; a word stands for all its inflections (one stem), a number for nothing.
EXTENDS Naturals, Sequences, SequencesExt, FiniteSets

CONSTANTS
    Short,      \* abbreviations: words of at most three letters
    TwoLetter,  \* those of two
    Inside,     \* <<code, word>>: a foreign code with the word in it (termMatchStrength)
    Swallowed,  \* <<word, abbreviation>>: an ordinary word with those letters in it
    AxisCap, VetoCap    \* 20 and 50 in the code

CONSTANTS
    SavedProfiles,      \* profiles as their specialists saved them
    ModelPlans,         \* what the model makes of one; one for every mood of it
    SiteWords,          \* the words a site writes
    TitleMax, LotsMax   \* bounds on what it writes

\* Read by no guard of the code: what one profile is held against.
VARIABLES
    searcher,   \* the profile
    fromModel,  \* <<the model's plan for it>>, or <<>>: the call failed, or there is no model
    asking,     \* the plan the search takes of the two
    page        \* the procedure, as far as its site has written it: [title, lots]

intentVars == <<searcher, fromModel, asking, page>>

IntentBounds ==
    /\ TwoLetter \subseteq Short
    /\ {AxisCap, VetoCap, TitleMax} \subseteq Nat \ {0} /\ LotsMax \in Nat

----------------------------------------------------------------------------
\* The words the code knows, one for each that it tells apart.

SupplyWords  == {"supply", "make"}
WorkWords    == {"mount", "repair", "upkeep", "design", "tuning", "dismount", "build"}
CarrierWords == {"works", "services"}
\* workHeadLabel; a generic head names no trade (isGenericWorkHead).
GenericHeads == {"works", "contract", "modernise"}
HeadWords    == GenericHeads \cup {"services", "upkeep", "rebuild", "build", "lay", "dismount"}
Fillers      == {"for", "and", "on"}

\* A mark is no word: ends of sentences, what ends the leading clause, what opens
\* a side clause, and "by the customer's own hands".
Stops     == {".", ";"}
Cuts      == {",", ";", "then"}
SideMarks == {"incl", "then"}
ByOwner   == "byOwner"
Marks     == Stops \cup Cuts \cup SideMarks \cup {ByOwner}

Supply == <<"supply">>
DefaultDesired == <<Supply, <<"make">>>>
VetoForPurchase == <<<<"mount">>, <<"repair">>, <<"upkeep">>, <<"design">>, <<"tuning">>>>
VetoForWorks    == <<Supply, <<"make">>, <<"repair">>, <<"dismount">>, <<"upkeep">>>>

----------------------------------------------------------------------------
\* Terms in a text.

Words(text) == SelectSeq(text, LAMBDA w : w \notin Marks \cup Fillers)

\* sequenceIndex: the places where the words of a term stand, one after another.
Where(text, term) ==
    LET hay == Words(text)
        needle == Words(term)
    IN  {i \in DOMAIN hay :
            /\ needle # <<>> /\ i + Len(needle) - 1 <= Len(hay)
            /\ \A k \in DOMAIN needle : hay[i + k - 1] = needle[k]}

Evidence(text, term) ==
    CASE Where(text, term) # {} -> "exact"
      [] Len(term) = 1 /\ \E w \in ToSet(text) : <<w, term[1]>> \in Inside -> "embedded"
      [] OTHER -> "none"
Occurs(text, term) == Evidence(text, term) # "none"
Found(text, terms) == {t \in ToSet(terms) : Occurs(text, t)}

\* earliestIndex; a term that is only inside a code stands nowhere (0).
Earliest(text, terms) ==
    LET places == UNION {Where(text, t) : t \in terms}
    IN  IF places = {} THEN 0 ELSE Min(places)

\* matchesAny: a phrase has the other in it, opens it, or opens with a verb of
\* the same family (wordFamily), whatever follows the verb.
Akin(p, t) ==
    \/ Occurs(p, t)
    \/ IsPrefix(p, t) /\ ~ (Len(p) = 1 /\ p[1] \in Short)
    \/ p[1] = t[1] /\ p[1] \in {"supply", "design"}
AkinToAny(p, terms) == \E t \in ToSet(terms) : Akin(p, t)

----------------------------------------------------------------------------
\* The plan of a profile: keywords and exclusions are phrases, and so is its name.

Push(s, p) == IF p = <<>> \/ Contains(s, p) THEN s ELSE Append(s, p)
PushAll(s, t) == FoldLeft(Push, s, t)
Clip(s, n) == SubSeq(s, 1, IF Len(s) < n THEN Len(s) ELSE n)
Before(s, S) == LET i == SelectInSeq(s, LAMBDA w : w \in S)
                IN  IF i = 0 THEN s ELSE SubSeq(s, 1, i - 1)

HasAny(phrase, S) == ToSet(phrase) \cap S # {}
OneByOne(phrase, S) == LET picked == SelectSeq(phrase, LAMBDA w : w \in S)
                       IN  [i \in DOMAIN picked |-> <<picked[i]>>]

\* splitSupplyPhrase, splitWorkPhrase: what is neither verb nor carrier is the object.
ObjectOf(phrase, verbs) == SelectSeq(phrase, LAMBDA w : w \notin Fillers \cup CarrierWords \cup verbs)

\* splitPurposePhrase: "a thing for a purpose"; a purpose counts by its noun and whole.
HasPurpose(phrase) == LET i == SelectInSeq(phrase, LAMBDA w : w = "for") IN i > 1 /\ i < Len(phrase)
ThingOf(phrase) == IF HasPurpose(phrase) THEN Before(phrase, {"for"}) ELSE phrase
PurposeOf(phrase) ==
    IF ~ HasPurpose(phrase) THEN <<>>
    ELSE LET purpose == SubSeq(phrase, Len(ThingOf(phrase)) + 2, Len(phrase))
         IN  Push(IF purpose[1] \in Short THEN <<>> ELSE <<<<purpose[1]>>>>, purpose)

ReadPhrase(plan, phrase) ==
    LET verbs == IF HasAny(phrase, SupplyWords) THEN SupplyWords \cup WorkWords ELSE WorkWords
    IN  IF HasAny(phrase, verbs)
        THEN [plan EXCEPT !.desired = PushAll(Push(@, phrase), OneByOne(phrase, verbs)),
                          !.objects = Push(@, ObjectOf(phrase, verbs))]
        ELSE [plan EXCEPT !.objects = Push(@, ThingOf(phrase)),
                          !.context = PushAll(@, PurposeOf(phrase))]

InferPlan(profile) ==
    LET works == \E p \in ToSet(profile.keywords) : HasAny(p, WorkWords)
        read == FoldLeft(ReadPhrase, [objects |-> <<>>, desired |-> <<>>, context |-> <<>>],
                         profile.keywords)
        desired == IF ~ works /\ read.desired = <<>> /\ read.objects # <<>>
                   THEN DefaultDesired ELSE read.desired
        spared(act) == \E p \in ToSet(IF works THEN desired ELSE profile.keywords) : Akin(p, act)
        vetoes == SelectSeq(IF works THEN VetoForWorks ELSE VetoForPurchase,
                            LAMBDA act : ~ spared(act))
    IN  [objects |-> Clip(read.objects, AxisCap),
         context |-> Clip(PushAll(read.context, PurposeOf(profile.name)), AxisCap),
         barred  |-> <<>>,
         desired |-> Clip(desired, AxisCap),
         vetoed  |-> Clip(PushAll(PushAll(<<>>, profile.excluded), vetoes), VetoCap),
         intent  |-> IF works THEN "works" ELSE "purchase"]

\* A mutant: the model's phrases come first and crowd out the profile's.
MergeModelsFirst(first, second) == PushAll(PushAll(<<>>, second), first)

\* mergePhrases: one axis of two plans.
MergeAxes(first, second) == PushAll(PushAll(<<>>, first), second)

\* mergeSearchIntentPlans: the profile's plan comes first, an exclusion is the
\* stronger rule, and a works profile shields its own verbs.
MergePlans(ours, models) ==
    LET vetoed == SelectSeq(MergeAxes(ours.vetoed, models.vetoed),
                    LAMBDA x : ours.intent # "works" \/ ~ \E d \in ToSet(ours.desired) : Akin(d, x))
    IN  [objects |-> Clip(MergeAxes(ours.objects, models.objects), AxisCap),
         context |-> Clip(MergeAxes(ours.context, models.context), AxisCap),
         barred  |-> Clip(MergeAxes(ours.barred, models.barred), VetoCap),
         desired |-> Clip(SelectSeq(MergeAxes(ours.desired, models.desired), LAMBDA d : ~ AkinToAny(d, vetoed)), AxisCap),
         vetoed  |-> Clip(vetoed, VetoCap),
         intent  |-> IF ours.intent = "works" THEN "works" ELSE models.intent]

AllowsBareObject(plan) == plan.intent \notin {"works", "design"}

\* What the sites are asked for, and what a richer plan asks for on top of it.
SiteTerms(plan, keywords) ==
    PushAll(PushAll(<<>>, keywords), IF AllowsBareObject(plan) THEN plan.objects ELSE <<>>)
ExtraTerms(asked, plan, keywords) ==
    SelectSeq(SiteTerms(plan, keywords), LAMBDA t : ~ Contains(asked, t))

----------------------------------------------------------------------------
\* The score of one text (scoreSearchIntent); no caller hands it a second text.

\* splitIntentClauses: of every sentence what stands before a side mark.
Sentences(text) ==
    FoldLeft(LAMBDA s, w : IF w \in Stops THEN Append(s, <<>>)
                           ELSE [s EXCEPT ![Len(s)] = Append(@, w)],
             <<<<>>>>, text)
MainClauses(text) == LET s == Sentences(text) IN [i \in DOMAIN s |-> Before(s[i], SideMarks)]
MainText(text) == LET c == MainClauses(text) IN FlattenSeq([i \in DOMAIN c |-> Append(c[i], ";")])

\* enumeratesTogether: the verbs are joined as equals within one sentence.
Joined(text, vetoed, desired) ==
    \E s \in ToSet(Sentences(text)) :
        /\ HasAny(s, {",", "and"})
        /\ \E t \in vetoed : Occurs(s, t)
        /\ \E t \in desired : Occurs(s, t)

\* purchaseWorkHead: one of the first two words names work, not a thing.
WorkHead(lead) ==
    LET opening == Clip(Words(lead), 2)
        i == SelectInSeq(opening, LAMBDA w : w \in HeadWords)
    IN  IF i = 0 THEN "none" ELSE opening[i]

\* A mutant: a refused verb counts wherever it stands.
VetoedAnywhere(text, plan, desired) ==
    IF Found(text, plan.vetoed) = {} THEN "none" ELSE "subject"

\* excludedActionRole.
VetoedRole(text, plan, desired) ==
    LET found == Found(text, plan.vetoed)
        governed == {t \in found : \E c \in ToSet(MainClauses(text)) :
                                      Occurs(c, t) /\ ~ HasAny(c, {ByOwner})}
        main == MainText(text)
        wanted == {t \in desired : Occurs(main, t)}
        first == Earliest(main, wanted)
    IN  CASE found = {} -> "none"
          [] governed = {} -> "mention"
          [] first # 0 /\ Earliest(main, governed) > first -> "mention"
          [] ~ \E t \in governed : Occurs(Before(main, Cuts), t) -> "mention"
          [] first # 0 /\ Joined(main, governed, wanted) -> "peer"
          [] OTHER -> "subject"

\* contextRoleFor: a purpose the plan bars is the stronger rule.
ContextRole(text, plan) ==
    CASE Found(text, plan.barred) # {} -> "mismatch"
      [] Found(text, plan.context) # {} -> "match"
      [] plan.context = <<>> -> "none"
      [] OTHER -> "missing"

\* SEARCH_INTENT_WEIGHTS.
MinMatchScore == 55
Points(cond, n) == IF cond THEN n ELSE 0
Clamp(gained, lost) == LET left == IF gained > lost THEN gained - lost ELSE 0
                       IN  IF left > 100 THEN 100 ELSE left

\* A mutant: a hint settles like a term.
DecisionByHints(f, score, plan) ==
    CASE f.vetoed = "subject" -> "veto"
      [] f.context = "mismatch" \/ f.objects = {} -> "discard"
      [] OTHER -> IF score >= MinMatchScore THEN "match" ELSE "review"

\* decisionFor, for the facts `f` that scoreSearchIntent has put together.
Decision(f, score, plan) ==
    CASE f.vetoed = "subject" -> "veto"
      [] f.context = "mismatch" -> "discard"
      [] f.vetoed = "peer" /\ f.objects # {} -> "review"
      [] f.genericWork -> "review"
      [] f.objects = {} -> IF plan.objects = <<>> /\ f.desired # {} THEN "review" ELSE "discard"
      [] ~ AllowsBareObject(plan) /\ f.desired = {} -> "discard"
      [] f.context = "missing" -> "review"
      [] f.weak -> "review"
      [] OTHER -> IF score >= MinMatchScore THEN "match" ELSE "review"

\* What scoreSearchIntent finds in a text, its objects and wanted verbs given. A
\* text is weak whose objects are only inside foreign codes, or two letters long.
Facts(text, plan, objects, desired) ==
    LET head == IF desired = {} THEN WorkHead(Before(text, Cuts)) ELSE "none"
        genericWork == plan.intent = "works" /\ objects # {} /\ head \in GenericHeads
    IN  [objects |-> objects, desired |-> desired, genericWork |-> genericWork,
         vetoed  |-> IF head # "none" /\ ~ genericWork THEN "subject"
                     ELSE VetoedRole(text, plan, desired),
         context |-> ContextRole(text, plan),
         weak    |-> objects # {} /\ \/ \A t \in objects : Evidence(text, t) # "exact"
                                     \/ \A t \in objects : Len(t) = 1 /\ t[1] \in TwoLetter]

\* The points of what was found.
ScoreOf(f, plan) ==
    LET led == f.vetoed = "subject"
        gained == Points(f.objects # {}, 40) + Points(f.desired # {}, 35)
                  + Points(f.objects # {} /\ f.desired # {} /\ ~ led, 15)
                  + Points(f.objects # {} /\ f.desired = {} /\ ~ led /\ AllowsBareObject(plan), 20)
                  + Points(plan.objects = <<>> /\ f.desired # {} /\ ~ led, 20)
                  + Points(f.context = "match", 15)
        lost == Points(f.context = "mismatch", 50) + Points(led, 80)
                + Points(f.vetoed \in {"mention", "peer"}, 10)
    IN  Clamp(gained, lost)

Judged(f, score, plan) ==
    [objects |-> f.objects, desired |-> f.desired, vetoed |-> f.vetoed, context |-> f.context,
     score |-> score, decision |-> Decision(f, score, plan)]
Scored(f, plan) == Judged(f, ScoreOf(f, plan), plan)

ScoreText(text, plan) ==
    Scored(Facts(text, plan, Found(text, plan.objects), Found(text, plan.desired)), plan)

----------------------------------------------------------------------------
\* The verdict on a card: [title, lots], a lot being [no, text].

\* scoreIntentLots: lots by number, whatever order the site sends them in.
CardTexts(card) ==
    LET order == SetToSortSeq(DOMAIN card.lots, LAMBDA i, j : card.lots[i].no < card.lots[j].no)
    IN  <<card.title>> \o [k \in DOMAIN order |-> card.lots[order[k]].text]

Priority == [match |-> 3, review |-> 2, veto |-> 1, discard |-> 0]

\* The strongest clause of the first kind that there is, of the texts as scored.
Strongest(scored) ==
    LET weight(i) == 101 * Priority[scored[i].decision] + scored[i].score
        ranked == SetToSortSeq(DOMAIN scored,
                      LAMBDA i, j : \/ weight(i) > weight(j)
                                    \/ weight(i) = weight(j) /\ i < j)
        clauses == [k \in DOMAIN ranked |-> scored[ranked[k]]]
        explicit(c) == c.desired # {} /\ c.objects # {} /\ c.vetoed # "subject"
        First(Test(_)) == SelectInSeq(clauses, Test)
        kinds == << First(LAMBDA c : explicit(c) /\ c.decision = "match"),
                    First(LAMBDA c : c.vetoed = "peer" /\ c.objects # {}),
                    First(LAMBDA c : explicit(c) /\ c.decision = "review"),
                    First(LAMBDA c : c.vetoed = "subject" /\ c.objects # {}),
                    First(LAMBDA c : c.vetoed = "subject"),
                    First(LAMBDA c : c.objects # {} /\ c.decision # "discard"),
                    First(explicit) >>
        chosen == SelectInSeq(kinds, LAMBDA k : k # 0)
    IN  IF chosen = 0 THEN scored[1] ELSE clauses[kinds[chosen]]

\* scoreIntentProcedure.
ScoreTexts(texts, plan) == [i \in DOMAIN texts |-> ScoreText(texts[i], plan)]
ScoreCard(card, plan) == Strongest(ScoreTexts(CardTexts(card), plan))

----------------------------------------------------------------------------
\* A row of a listing, and the second look.

Statuses == {"accepting_bids", "closed", "unknown"}

\* statusFromListing: the badge of open bids is trusted first; a badge that names
\* the kind of procedure says nothing, nor does a status nobody could map.
ListedStatus(row) == CASE row.badge = "bids" -> "accepting_bids"
                       [] row.badge = "kind" -> "unknown"
                       [] OTHER -> row.status
StatusIsWatched(row, profile) ==
    profile.statuses = {} \/ ListedStatus(row) \in profile.statuses \cup {"unknown"}

\* A mutant: a row with a swallowed abbreviation is dropped whatever else it says.
KeepsUnswallowed(text, asked) ==
    ~ \E t \in ToSet(asked) : Len(t) = 1 /\ \E w \in ToSet(text) : <<w, t[1]>> \in Swallowed

\* listingKeepsPlatformHit: what the site found is kept, unless all it found is
\* the letters of an abbreviation in an ordinary word.
KeepsRow(text, asked) ==
    \/ asked = <<>> \/ \E t \in ToSet(asked) : Occurs(text, t)
    \/ ~ \E t \in ToSet(asked) : Len(t) = 1 /\ \E w \in ToSet(text) : <<w, t[1]>> \in Swallowed

Queried(row, profile, plan) ==
    CASE row.foundBy # <<>> -> row.foundBy
      [] plan.objects # <<>> -> plan.objects
      [] OTHER -> profile.keywords

\* selectRelevantSearchCards, with a plan: what waits for its card, the first row
\* of each procedure. `settled` is what this profile has refused before.
Waits(row, profile, plan, settled) ==
    /\ StatusIsWatched(row, profile)
    /\ ~ (profile.excludeSingle /\ row.single)
    /\ ~ \E t \in ToSet(profile.excluded) : Occurs(row.title, t)
    /\ KeepsRow(row.title, Queried(row, profile, plan))
    /\ row.id \notin settled
FirstOfEach(rows) ==
    FoldLeft(LAMBDA s, r : IF \E q \in ToSet(s) : q.id = r.id THEN s ELSE Append(s, r), <<>>, rows)
SelectRows(rows, profile, plan, settled) ==
    SelectSeq(FirstOfEach(rows), LAMBDA r : Waits(r, profile, plan, settled))

\* outcomeFromIntentCard: a match settles, and so do the two explicit refusals.
OutcomeOfCard(scored) ==
    CASE scored.decision = "match" -> "relevant"
      [] scored.decision = "veto" \/ scored.context = "mismatch" -> "irrelevant"
      [] OTHER -> "open"

\* review: the card first, the model second; no card, no model, no call left, a
\* mute model and an unsure one all leave the row to the specialist.
Outcome(byCard, model) ==
    CASE byCard # "open" -> byCard
      [] model \in {"off", "spent", "mute", "unsure"} -> "needs_human"
      [] OTHER -> model
ReviewRow(read, card, plan, model) ==
    Outcome(IF read THEN OutcomeOfCard(ScoreCard(card, plan)) ELSE "open", model)
----------------------------------------------------------------------------
\* One profile, its plan as the search takes it, and a card word by word.

\* resolveSearchPlan.
PlanOf(saved, models) ==
    IF models = <<>> THEN InferPlan(saved) ELSE MergePlans(InferPlan(saved), Head(models))

IntentInit ==
    /\ searcher \in SavedProfiles
    /\ fromModel \in {<<>>} \cup {<<p>> : p \in ModelPlans}
    /\ asking = PlanOf(searcher, fromModel)
    /\ page = [title |-> <<>>, lots |-> <<>>]

TitleGoesOn(w) ==
    /\ page.lots = <<>> /\ Len(page.title) < TitleMax
    /\ page' = [page EXCEPT !.title = Append(@, w)]
    /\ UNCHANGED <<searcher, fromModel, asking>>

\* Lots come in any order of their numbers.
LotBegins(no) ==
    /\ Len(page.lots) < LotsMax /\ page.title # <<>>
    /\ ~ \E i \in DOMAIN page.lots : page.lots[i].no = no
    /\ page' = [page EXCEPT !.lots = Append(@, [no |-> no, text |-> <<>>])]
    /\ UNCHANGED <<searcher, fromModel, asking>>

LotGoesOn(w) ==
    /\ page.lots # <<>>
    /\ Len(page.title) + Len(FlattenSeq([i \in DOMAIN page.lots |-> page.lots[i].text])) < TitleMax
    /\ page' = [page EXCEPT !.lots[Len(page.lots)].text = Append(@, w)]
    /\ UNCHANGED <<searcher, fromModel, asking>>

IntentNext == \/ \E w \in SiteWords : TitleGoesOn(w) \/ LotGoesOn(w)
              \/ \E no \in 1..LotsMax : LotBegins(no)

----------------------------------------------------------------------------
\* What the properties are made of, said of the words themselves.

\* Objects of the plan that stand in the text, and those that are more than two
\* letters, wherever they are found.
Standing(text, plan) == {t \in ToSet(plan.objects) : Where(text, t) # {}}
Longer(text, plan) ==
    {t \in ToSet(plan.objects) : Occurs(text, t) /\ ~ (Len(t) = 1 /\ t[1] \in TwoLetter)}

\* What speaks for a text: no purpose that is barred, and one that is asked for.
Fits(text, plan) ==
    /\ ~ \E t \in ToSet(plan.barred) : Where(text, t) # {}
    /\ plan.context = <<>> \/ \E t \in ToSet(plan.context) : Where(text, t) # {}

\* Work that nobody asked for comes before anything that was asked for.
Refuses(text, plan) ==
    \E i \in DOMAIN Words(text) :
        /\ \/ Words(text)[i] \in HeadWords
           \/ \E t \in ToSet(plan.vetoed) : i \in Where(text, t) \/ Evidence(text, t) = "embedded"
        /\ \A d \in ToSet(plan.desired) : \A j \in Where(text, d) : j >= i
IsBarred(text, plan) == \E t \in ToSet(plan.barred) : Where(text, t) # {}

SomePart(Test(_)) == \E i \in DOMAIN CardTexts(page) : Test(CardTexts(page)[i])

IntentTypeOK ==
    /\ searcher \in SavedProfiles /\ fromModel \in {<<>>} \cup {<<p>> : p \in ModelPlans}
    /\ page.title \in Seq(SiteWords)

\* The row of a listing that leads to the card: a site finds the letters of a phrase
\* wherever they stand.
RowOf(listed, plan) ==
    [id |-> "row", title |-> listed.title, badge |-> "none", status |-> "unknown", single |-> FALSE,
     foundBy |-> SelectSeq(SiteTerms(plan, searcher.keywords),
                           LAMBDA t : \/ Occurs(listed.title, t)
                                      \/ Len(t) = 1 /\ \E w \in ToSet(listed.title) : <<w, t[1]>> \in Swallowed)]

\* The reasons there must be for an outcome.
Earned(outcome) ==
    /\ outcome = "relevant" =>
          SomePart(LAMBDA text :
              /\ Fits(text, asking)
              /\ Standing(text, asking) # {} /\ Longer(text, asking) # {})
    /\ outcome = "irrelevant" =>
          SomePart(LAMBDA text : IsBarred(text, asking) \/ Refuses(text, asking))

\* A card settles a row only for a reason that stands in one of its texts: it is
\* relevant by an object that is there in its own right and one of more than two
\* letters, with the purpose that was asked for, and irrelevant by a purpose that is barred or by work that comes
\* before anything wanted; what only follows it, stands in a side clause or is done
\* by the customer refuses nothing (scoreIntentProcedure, outcomeFromIntentCard).
VerdictIsEarned == Earned(ReviewRow(TRUE, page, asking, "off"))

\* A plan `ours` is all in the one that is asked.
IsKept(ours, asked) ==
    /\ IsPrefix(ours.objects, asking.objects) /\ IsPrefix(ours.context, asking.context)
    /\ ours.intent # "works" => IsPrefix(ours.vetoed, asking.vetoed)
    /\ ours.intent = "works" => asking.intent = "works" /\ IsPrefix(ours.desired, asking.desired)
    /\ \A d \in ToSet(ours.desired) \ ToSet(asking.desired) : AkinToAny(d, asking.vetoed)
    /\ ToSet(searcher.keywords) \subseteq ToSet(SiteTerms(asking, searcher.keywords))
    /\ ToSet(ExtraTerms(asked, asking, searcher.keywords)) \cap ToSet(asked) = {}

\* The model's plan drops nothing the profile asks for, although the axes are
\* clipped: neither an object, a purpose, a refusal nor a phrase the sites are asked
\* for; what it adds is asked for once. Only a wanted verb may go, to a refusal it
\* is akin to (mergeSearchIntentPlans, platformSearchTerms).
ModelDropsNothing ==
    \A ours \in {InferPlan(searcher)} : IsKept(ours, SiteTerms(ours, searcher.keywords))

\* A row that a site found and whose title alone is relevant waits for its card, and
\* waits once, unless the profile excludes what it says: no filter of the listing is
\* in the way of a verdict (rankHitByIntent, listingKeepsPlatformHit).
RelevantRowWaits ==
    LET row == RowOf(page, asking)
    IN  (/\ row.foundBy # <<>> /\ ScoreText(page.title, asking).decision = "match"
         /\ Found(page.title, searcher.excluded) = {})
        => SelectRows(<<row, row>>, searcher, asking, {}) = <<row>>

\* No card is settled as relevant by hints alone: one object that is there in its
\* own right is also more than two letters (query-terms.ts:296, intent-score.ts:87).
HintsSettleNothing ==
    OutcomeOfCard(ScoreCard(page, asking)) = "relevant" =>
        SomePart(LAMBDA text : Standing(text, asking) \cap Longer(text, asking) # {})

\* A card whose title is a phrase of the profile is not refused. The code breaks
\* it: a saved phrase that opens with a word of HeadWords which is no verb of
\* WorkWords makes a plan of a purchase, which refuses that very word.
OwnPhraseIsNotRefused ==
    page.title \in ToSet(searcher.keywords) /\ page.lots = <<>>
    => OutcomeOfCard(ScoreCard(page, asking)) # "irrelevant"
=============================================================================
