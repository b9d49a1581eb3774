------------------------- MODULE AssistantRules -------------------------
\* The rules the assistant offers for one profile (apps/api/src/app.ts and
\* packages/domain/src/assistant): a refusal is remembered, a term that the
\* refusals share is offered as an exclusion, and when they share none a model
\* is asked for a direction in the background. Requests run between each
\* other's awaits. A term is a sequence of stems.
EXTENDS Naturals, Sequences, FiniteSets

CONSTANTS
    Remembered,     \* decisions of before, too few for an offer
    Desks,          \* requests that may be under way at once
    Cases, TermsOf, \* a case, and the terms of its subject
    Keywords,       \* the stems the profile searches for
    Phrases,        \* what the model may name
    MinRejects, MinAccepts,         \* REJECT_SIGNAL_THRESHOLDS
    FirstStudy, NextStudy,          \* refusals before the model is asked, and again
    ExclusionLimit,
    Decisions, Mishaps              \* bounds on decisions and on failures

ASSUME RulesAssumption ==
    Remembered \in [Cases -> {"none", "reject", "accept"}] /\ ExclusionLimit \in Nat

VARIABLES
    memory,     \* workspace_decision_memory: case -> "none", "reject" or "accept"
    offers,     \* workspace_assistant_suggestions: key -> state and phrases
    excluded,   \* the profile's exclusions in the cabinet
    stored,     \* the same in PostgreSQL
    living,     \* whether the profile is there
    desk,       \* requests, by desk
    study,      \* the analysis in the background
    analyzed,   \* directionAnalyzedAt: refusals the model last saw
    decisions, failures,
    unsaved     \* history: exclusions whose save failed, and no save came since

saves == <<stored, unsaved>>
ruleVars == <<memory, offers, excluded, stored, living, desk, study, analyzed, decisions, failures, unsaved>>

Idle == [pc |-> "idle"]
NotYet == 0

\* containsRun, either way round (overlapsExclusion and stemRunsOverlap).
ContainsRun(hay, needle) ==
    \E s \in 0..(Len(hay) - Len(needle)) :
        \A i \in DOMAIN needle : hay[s + i] = needle[i]
Overlaps(s, t) == ContainsRun(s, t) \/ ContainsRun(t, s)
OverlapsAny(s, T) == \E t \in T : Overlaps(s, t)

Of(kind, rows) == {c \in Cases : rows[c] = kind}
With(t, kind, rows) == {c \in Of(kind, rows) : t \in TermsOf[c]}
StemsOf(t) == {t[i] : i \in DOMAIN t}

\* profileTermTable: what the profile searches for or has cut is no candidate.
Candidates(rows, cut) ==
    {t \in UNION {TermsOf[c] : c \in Cases} :
        ~ StemsOf(t) \subseteq Keywords /\ ~ OverlapsAny(t, cut)}

\* rejectSignals: enough refusals, no case taken, and a pair before its word.
Signals(rows, cut) ==
    LET found == {t \in Candidates(rows, cut) :
                    With(t, "accept", rows) = {} /\ Cardinality(With(t, "reject", rows)) >= MinRejects}
        told(t) == \E p \in found : /\ Len(p) > 1 /\ t[1] \in StemsOf(p)
                                    /\ Cardinality(With(p, "reject", rows)) >= Cardinality(With(t, "reject", rows))
    IN  IF Cardinality(Of("accept", rows)) < MinAccepts THEN {}
        ELSE {t \in found : Len(t) > 1 \/ ~ told(t)}

\* nextSuggestionTerm, and the order of profileTermTable among equals left open.
NextTerms(rows, cut, offered) ==
    LET fresh == {t \in Signals(rows, cut) : ~ OverlapsAny(t, offered)}
    IN  {t \in fresh : \A u \in fresh :
            Cardinality(With(u, "reject", rows)) <= Cardinality(With(t, "reject", rows))}

\* validateAssistantDirections, for one direction.
Survives(p, rows, cut, offered) ==
    /\ ~ StemsOf(p) \subseteq Keywords
    /\ ~ OverlapsAny(p, cut) /\ ~ OverlapsAny(p, offered)
    /\ With(p, "accept", rows) = {}
    /\ Cardinality(With(p, "reject", rows)) >= 2

IsOpen(k) == k \in DOMAIN offers /\ offers[k].state = "open"
NoneOpen == \A k \in DOMAIN offers : offers[k].state # "open"

\* insert ... on conflict do nothing, over the unique (profile, term).
Offered(key, phrases) ==
    IF key \in DOMAIN offers THEN offers
    ELSE [k \in DOMAIN offers \union {key} |->
            IF k = key THEN [state |-> "open", phrases |-> phrases] ELSE offers[k]]
OfferedAgain(key, phrases) ==
    [k \in DOMAIN offers \union {key} |->
        IF k = key THEN [state |-> "open", phrases |-> phrases] ELSE offers[k]]
Offering(key, phrases) == Offered(key, phrases)

DeskGoes(d, r) == desk' = [desk EXCEPT ![d] = r]
Ends(d) == DeskGoes(d, Idle)

\* saveCabinet: the exclusions as they are in memory, whoever put them there.
CabinetSaved == stored' = excluded /\ unsaved' = {}

----------------------------------------------------------------------------
\* applyTriageDecision up to the memory: the decision is stored with the cabinet
\* (persistProgress); "none" is the return of a case from the trash.
Decide(d, c, kind) ==
    /\ desk[d] = Idle /\ decisions < Decisions
    /\ decisions' = decisions + 1
    /\ CabinetSaved
    /\ DeskGoes(d, [pc |-> "remember", case |-> c, kind |-> kind])
    /\ UNCHANGED <<memory, offers, excluded, living, study, analyzed, failures>>

\* rememberDecision: the row of the case is replaced or forgotten.
Remember(d) ==
    /\ desk[d].pc = "remember"
    /\ memory' = [memory EXCEPT ![desk[d].case] = desk[d].kind]
    /\ IF desk[d].kind = "reject" /\ living
       THEN DeskGoes(d, [pc |-> "offers", cut |-> excluded])
       ELSE Ends(d)
    /\ UNCHANGED <<offers, excluded, saves, living, study, analyzed, decisions, failures>>

\* offerSuggestion: the profile as it was when it began, the offers, the memory.
ReadOffers(d) ==
    /\ desk[d].pc = "offers"
    /\ IF NoneOpen
       THEN DeskGoes(d, [pc |-> "signals", cut |-> desk[d].cut, offered |-> DOMAIN offers])
       ELSE Ends(d)
    /\ UNCHANGED <<memory, offers, excluded, saves, living, study, analyzed, decisions, failures>>

FindSignal(d) ==
    LET terms == NextTerms(memory, desk[d].cut, desk[d].offered) IN
    /\ desk[d].pc = "signals"
    /\ \/ \E t \in terms : DeskGoes(d, [pc |-> "offer", term |-> t])
       \/ terms = {} /\ Ends(d)
    /\ study' = IF terms = {} /\ study = Idle /\ living
                THEN [pc |-> "list", offered |-> desk[d].offered, cut |-> excluded]
                ELSE study
    /\ terms = {} => study = Idle
    /\ UNCHANGED <<memory, offers, excluded, saves, living, analyzed, decisions, failures>>

OfferTerm(d) ==
    /\ desk[d].pc = "offer"
    /\ offers' = Offering(desk[d].term, {desk[d].term})
    /\ Ends(d)
    /\ UNCHANGED <<memory, excluded, saves, living, study, analyzed, decisions, failures>>

\* A query or a save fails: rememberDecision logs it, a resolving request answers
\* 500; the exclusions stay as they are in memory.
DeskFails(d) ==
    /\ desk[d] # Idle /\ failures < Mishaps
    /\ failures' = failures + 1
    /\ unsaved' = IF desk[d].pc = "save" THEN excluded \ stored ELSE unsaved
    /\ Ends(d)
    /\ UNCHANGED <<memory, offers, excluded, stored, living, study, analyzed, decisions>>

----------------------------------------------------------------------------
\* offerDirectionSuggestion: the gate of new refusals, then the model is asked
\* about the decisions as they are.
StudyReads ==
    LET refused == Cardinality(Of("reject", memory)) IN
    /\ study.pc = "list"
    /\ IF /\ Cardinality(Of("accept", memory)) >= MinAccepts
          /\ IF analyzed = NotYet THEN refused >= FirstStudy ELSE refused >= analyzed + NextStudy
       THEN /\ analyzed' = refused
            /\ study' = [pc |-> "model", rows |-> memory, offered |-> study.offered, cut |-> study.cut]
       ELSE study' = Idle /\ UNCHANGED analyzed
    /\ UNCHANGED <<memory, offers, excluded, saves, living, desk, decisions, failures>>

\* The model answers a name with up to two phrases; those that survive the
\* check are kept, the first of them is the key.
Surviving(said) ==
    {i \in DOMAIN said : Survives(said[i], study.rows, study.cut, study.offered)}

ModelAnswers ==
    /\ study.pc = "model"
    /\ \E said \in {<<>>} \union {<<p, q>> : p, q \in Phrases} :
         LET kept == Surviving(said)
         IN  \/ kept = {} /\ study' = Idle
             \/ \E first \in kept :
                  /\ \A i \in kept : first <= i
                  /\ study' = [pc |-> "open", key |-> said[first], phrases |-> {said[i] : i \in kept}]
    /\ UNCHANGED <<memory, offers, excluded, saves, living, desk, analyzed, decisions, failures>>

\* The model took a while: an offer may have opened since.
StudyLooksAgain ==
    /\ study.pc = "open"
    /\ study' = IF NoneOpen THEN [study EXCEPT !.pc = "offer"] ELSE Idle
    /\ UNCHANGED <<memory, offers, excluded, saves, living, desk, analyzed, decisions, failures>>

OfferDirection ==
    /\ study.pc = "offer"
    /\ offers' = Offering(study.key, study.phrases)
    /\ study' = Idle
    /\ UNCHANGED <<memory, excluded, saves, living, desk, analyzed, decisions, failures>>

StudyFails ==
    /\ study # Idle /\ failures < Mishaps
    /\ failures' = failures + 1 /\ study' = Idle
    /\ UNCHANGED <<memory, offers, excluded, saves, living, desk, analyzed, decisions>>

----------------------------------------------------------------------------
\* resolveSuggestion: the offer is looked up while open.
Resolve(d, k, action) ==
    /\ desk[d] = Idle /\ IsOpen(k)
    /\ DeskGoes(d, [pc |-> "resolve", key |-> k, action |-> action])
    /\ UNCHANGED <<memory, offers, excluded, saves, living, study, analyzed, decisions, failures>>

Fresh(k) == offers[k].phrases \ excluded
Verdict(action) == IF action = "accept" /\ living THEN "accepted" ELSE "dismissed"

\* An acceptance cuts the phrases the profile does not cut yet, in the cabinet,
\* and saves it; a full list refuses.
Accept(d) ==
    LET k == desk[d].key IN
    /\ desk[d].pc = "resolve"
    /\ \/ /\ desk[d].action = "dismiss" \/ ~ living \/ Fresh(k) = {}
          /\ DeskGoes(d, [pc |-> "close", key |-> k, state |-> Verdict(desk[d].action)])
          /\ UNCHANGED excluded
       \/ /\ desk[d].action = "accept" /\ living /\ Fresh(k) # {}
          /\ Cardinality(excluded) + Cardinality(Fresh(k)) <= ExclusionLimit
          /\ excluded' = excluded \union Fresh(k)
          /\ DeskGoes(d, [pc |-> "save", key |-> k, state |-> "accepted"])
       \/ /\ desk[d].action = "accept" /\ living /\ Fresh(k) # {}
          /\ Cardinality(excluded) + Cardinality(Fresh(k)) > ExclusionLimit
          /\ Ends(d) /\ UNCHANGED excluded
    /\ UNCHANGED <<memory, offers, saves, living, study, analyzed, decisions, failures>>

SaveLater(d) ==
    /\ desk[d].pc = "save"
    /\ DeskGoes(d, [desk[d] EXCEPT !.pc = "close"])
    /\ UNCHANGED <<memory, offers, excluded, saves, living, study, analyzed, decisions, failures>>
\* persistWorkspaceOnly; a failed save ends the request (DeskFails).
SaveRule(d) ==
    /\ desk[d].pc = "save"
    /\ CabinetSaved
    /\ DeskGoes(d, [desk[d] EXCEPT !.pc = "close"])
    /\ UNCHANGED <<memory, offers, excluded, living, study, analyzed, decisions, failures>>

\* update ... where state is open; then the next rule is offered.
Close(d) ==
    LET k == desk[d].key IN
    /\ desk[d].pc = "close"
    /\ IF IsOpen(k)
       THEN /\ offers' = [offers EXCEPT ![k].state = desk[d].state]
            /\ IF living THEN DeskGoes(d, [pc |-> "offers", cut |-> excluded]) ELSE Ends(d)
       ELSE UNCHANGED offers /\ Ends(d)
    /\ UNCHANGED <<memory, excluded, saves, living, study, analyzed, decisions, failures>>
CloseAnyway(d) ==
    LET k == desk[d].key IN
    /\ desk[d].pc = "close"
    /\ offers' = [offers EXCEPT ![k].state = desk[d].state]
    /\ IF living THEN DeskGoes(d, [pc |-> "offers", cut |-> excluded]) ELSE Ends(d)
    /\ UNCHANGED <<memory, excluded, saves, living, study, analyzed, decisions, failures>>

DropProfile ==
    /\ living /\ living' = FALSE
    /\ UNCHANGED <<memory, offers, excluded, saves, desk, study, analyzed, decisions, failures>>

RulesInit ==
    /\ memory = Remembered
    /\ offers = <<>> /\ excluded = {} /\ stored = {} /\ unsaved = {} /\ living = TRUE
    /\ desk = [d \in Desks |-> Idle] /\ study = Idle /\ analyzed = NotYet
    /\ decisions = 0 /\ failures = 0

RulesNext ==
    \/ \E d \in Desks :
          \/ \E c \in Cases, kind \in {"reject", "accept", "none"} : Decide(d, c, kind)
          \/ \E k \in DOMAIN offers, action \in {"accept", "dismiss"} : Resolve(d, k, action)
          \/ Remember(d) \/ ReadOffers(d) \/ FindSignal(d) \/ OfferTerm(d) \/ DeskFails(d)
          \/ Accept(d) \/ SaveRule(d) \/ Close(d)
    \/ StudyReads \/ ModelAnswers \/ StudyLooksAgain \/ OfferDirection \/ StudyFails \/ DropProfile

RulesSpec == RulesInit /\ [][RulesNext]_ruleVars

----------------------------------------------------------------------------
RulesTypeOK ==
    /\ \A c \in Cases : memory[c] \in {"none", "reject", "accept"}
    /\ \A k \in DOMAIN offers : offers[k].state \in {"open", "accepted", "dismissed"}
    /\ stored \subseteq excluded /\ Cardinality(excluded) <= ExclusionLimit

\* A rule that was answered stays answered the way it was: it is not offered
\* again and a second answer changes nothing.
AnswerIsFinal ==
    [][\A k \in DOMAIN offers : offers[k].state # "open" => offers'[k] = offers[k]]_offers

\* An accepted rule is in the stored exclusions, but for a save under way, and for
\* phrases whose save failed until any save of the cabinet succeeds: a second answer
\* closes such an offer without a save, and the next decision brings its phrases.
AcceptedIsSaved ==
    \A k \in DOMAIN offers :
        offers[k].state = "accepted" =>
            \/ offers[k].phrases \subseteq stored \union unsaved
            \/ \E d \in Desks : desk[d].pc = "save" /\ offers[k].phrases \subseteq excluded

\* The promise of resolveSuggestion without the exceptions.
AcceptedIsSavedAlways ==
    \A k \in DOMAIN offers : offers[k].state = "accepted" => offers[k].phrases \subseteq stored

\* The promise of offerSuggestion: at most one open rule per profile.
OneOpenRule == Cardinality({k \in DOMAIN offers : offers[k].state = "open"}) <= 1
=============================================================================
