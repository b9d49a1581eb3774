----------------------------- MODULE DeskProofs -----------------------------
\* What the people at the desk rely on, for any profile, any cases, any number of
\* requests and polls: an answered rule stays answered and is stored, a list moves
\* forward and says truly that it is loading, a deadline is announced once, and the
\* console always has an administrator.
EXTENDS Desk, FiniteSetTheorems, TLAPS

----------------------------------------------------------------------------
\* The rules the assistant offers (AssistantRules).

\* The cabinet is ahead of the table only by exclusions whose save failed, unless
\* some request has still to save.
SaveIsOnItsWay ==
    (excluded \ stored) \subseteq unsaved \/ \E d \in Desks : desk[d].pc = "save"

\* The phrases of an accepted rule are cut, from before the row says so.
IsCut(k) == k \in DOMAIN offers /\ offers[k].phrases \subseteq excluded

AcceptedIsCut == \A k \in DOMAIN offers : offers[k].state = "accepted" => IsCut(k)

AnswerIsCut ==
    \A d \in Desks :
        /\ desk[d].pc = "resolve" => desk[d].key \in DOMAIN offers
        /\ desk[d].pc = "save" => desk[d] = [pc |-> "save", key |-> desk[d].key, state |-> desk[d].state]
        /\ desk[d].pc \in {"save", "close"} =>
              /\ desk[d].key \in DOMAIN offers
              /\ desk[d].state = "accepted" => IsCut(desk[d].key)

RuleRows ==
    /\ failures \in Nat
    /\ desk = [d \in Desks |-> desk[d]]
    /\ offers = [k \in DOMAIN offers |-> [state |-> offers[k].state, phrases |-> offers[k].phrases]]

RulesInv ==
    /\ RuleRows /\ stored \subseteq excluded
    /\ SaveIsOnItsWay /\ AcceptedIsCut /\ AnswerIsCut

\* A step that leaves the exclusions alone and takes no request out of its saving.
LEMMA QuietDesk ==
    ASSUME RulesInv, NEW d \in Desks, NEW r, desk[d].pc # "save", desk' = [desk EXCEPT ![d] = r],
           r.pc \notin {"resolve", "save", "close"},
           UNCHANGED <<offers, excluded, saves, failures>>
    PROVE  RulesInv'
<1> USE DEF RulesInv, saves, CabinetSaved
<1>1. \A e \in Desks : desk'[e] = IF e = d THEN r ELSE desk[e]  BY DEF RuleRows
<1>2. RuleRows'  BY DEF RuleRows
<1>3. SaveIsOnItsWay'  BY <1>1 DEF SaveIsOnItsWay
<1>4. AcceptedIsCut'  BY DEF AcceptedIsCut, IsCut
<1>5. AnswerIsCut'  BY <1>1 DEF AnswerIsCut, IsCut
<1> QED  BY <1>2, <1>3, <1>4, <1>5

\* An offer adds a row, or finds that the row is there.
LEMMA OfferAdds ==
    ASSUME RuleRows, NEW key, NEW phrases, offers' = Offering(key, phrases)
    PROVE  /\ offers' = [k \in DOMAIN offers' |-> [state |-> offers'[k].state, phrases |-> offers'[k].phrases]]
           /\ \A k \in DOMAIN offers : k \in DOMAIN offers' /\ offers'[k] = offers[k]
           /\ \A k \in DOMAIN offers' \ DOMAIN offers : offers'[k].state = "open"
BY DEF Offering, Offered, RuleRows

\* A request or the study offers a rule.
LEMMA OfferStep ==
    ASSUME RulesInv, NEW key, NEW phrases, offers' = Offering(key, phrases),
           UNCHANGED <<excluded, saves, failures>>,
           \/ UNCHANGED desk
           \/ \E d \in Desks : desk[d].pc # "save" /\ desk' = [desk EXCEPT ![d] = Idle]
    PROVE  RulesInv'
<1> USE DEF RulesInv, saves, CabinetSaved
<1>1. /\ offers' = [k \in DOMAIN offers' |-> [state |-> offers'[k].state, phrases |-> offers'[k].phrases]]
      /\ \A k \in DOMAIN offers : k \in DOMAIN offers' /\ offers'[k] = offers[k]
      /\ \A k \in DOMAIN offers' \ DOMAIN offers : offers'[k].state = "open"
  BY OfferAdds
<1>2. \A e \in Desks : desk'[e] = desk[e] \/ (desk'[e] = Idle /\ desk[e].pc # "save")
  BY DEF RuleRows
<1>3. desk' = [e \in Desks |-> desk'[e]]  BY DEF RuleRows
<1>4. RuleRows'  BY <1>1, <1>3 DEF RuleRows
<1>5. SaveIsOnItsWay'  BY <1>2 DEF SaveIsOnItsWay
<1>6. AcceptedIsCut'  BY <1>1 DEF AcceptedIsCut, IsCut
<1>7. AnswerIsCut'
  <2> SUFFICES ASSUME NEW e \in Desks
               PROVE  /\ desk'[e].pc = "resolve" => desk'[e].key \in DOMAIN offers'
                      /\ desk'[e].pc = "save" => desk'[e] = [pc |-> "save", key |-> desk'[e].key, state |-> desk'[e].state]
                      /\ desk'[e].pc \in {"save", "close"} =>
                            /\ desk'[e].key \in DOMAIN offers'
                            /\ desk'[e].state = "accepted" =>
                                  /\ desk'[e].key \in DOMAIN offers'
                                  /\ offers'[desk'[e].key].phrases \subseteq excluded'
    BY DEF AnswerIsCut, IsCut
  <2>1. CASE desk'[e] = Idle  BY <2>1 DEF Idle
  <2>2. CASE desk'[e] = desk[e]  BY <1>1, <2>2 DEF AnswerIsCut, IsCut
  <2> QED  BY <1>2, <2>1, <2>2
<1> QED  BY <1>4, <1>5, <1>6, <1>7

LEMMA DecideStep ==
    ASSUME RulesInv, NEW d \in Desks, NEW c, NEW kind, Decide(d, c, kind) PROVE RulesInv'
<1> USE DEF RulesInv, saves, CabinetSaved
<1> DEFINE r == [pc |-> "remember", case |-> c, kind |-> kind]
<1>1. \A e \in Desks : desk'[e] = IF e = d THEN r ELSE desk[e]
  BY DEF Decide, DeskGoes, RuleRows
<1>2. RuleRows'  BY DEF Decide, DeskGoes, RuleRows
<1>3. SaveIsOnItsWay' /\ stored' \subseteq excluded'  BY DEF Decide, SaveIsOnItsWay
<1>4. AcceptedIsCut'  BY DEF Decide, AcceptedIsCut, IsCut
<1>5. AnswerIsCut'  BY <1>1 DEF Decide, AnswerIsCut, IsCut
<1> QED  BY <1>2, <1>3, <1>4, <1>5

LEMMA ResolveStep ==
    ASSUME RulesInv, NEW d \in Desks, NEW k \in DOMAIN offers, NEW action, Resolve(d, k, action)
    PROVE  RulesInv'
<1> USE DEF RulesInv, saves, CabinetSaved
<1> DEFINE r == [pc |-> "resolve", key |-> k, action |-> action]
<1>1. desk[d].pc # "save" /\ \A e \in Desks : desk'[e] = IF e = d THEN r ELSE desk[e]
  BY DEF Resolve, DeskGoes, RuleRows, Idle
<1>2. RuleRows'  BY DEF Resolve, DeskGoes, RuleRows
<1>3. SaveIsOnItsWay' /\ stored' \subseteq excluded'  BY <1>1 DEF Resolve, SaveIsOnItsWay
<1>4. AcceptedIsCut'  BY DEF Resolve, AcceptedIsCut, IsCut
<1>5. AnswerIsCut'  BY <1>1 DEF Resolve, AnswerIsCut, IsCut
<1> QED  BY <1>2, <1>3, <1>4, <1>5

LEMMA FailStep == ASSUME RulesInv, NEW d \in Desks, DeskFails(d) PROVE RulesInv'
<1> USE DEF RulesInv, saves, CabinetSaved
<1>1. \A e \in Desks : desk'[e] = IF e = d THEN Idle ELSE desk[e]
  BY DEF DeskFails, Ends, DeskGoes, RuleRows
<1>2. RuleRows'  BY DEF DeskFails, Ends, DeskGoes, RuleRows
<1>3. SaveIsOnItsWay' /\ stored' \subseteq excluded'  BY <1>1 DEF DeskFails, SaveIsOnItsWay
<1>4. AcceptedIsCut'  BY DEF DeskFails, AcceptedIsCut, IsCut
<1>5. AnswerIsCut'  BY <1>1 DEF DeskFails, AnswerIsCut, IsCut, Idle
<1> QED  BY <1>2, <1>3, <1>4, <1>5

LEMMA AcceptStep == ASSUME RulesInv, NEW d \in Desks, Accept(d) PROVE RulesInv'
<1> USE DEF RulesInv, saves, CabinetSaved
<1> DEFINE k == desk[d].key
<1>1. k \in DOMAIN offers /\ desk[d].pc = "resolve"  BY DEF Accept, AnswerIsCut
<1>2. UNCHANGED <<offers, stored, unsaved, failures>>  BY DEF Accept, saves
<1>3. PICK r : /\ desk' = [desk EXCEPT ![d] = r]
               /\ \/ /\ r = [pc |-> "close", key |-> k, state |-> Verdict(desk[d].action)]
                     /\ UNCHANGED excluded
                     /\ desk[d].action = "dismiss" \/ ~ living \/ Fresh(k) = {}
                  \/ /\ r = [pc |-> "save", key |-> k, state |-> "accepted"]
                     /\ excluded' = excluded \union Fresh(k)
                  \/ r = Idle /\ UNCHANGED excluded
  BY DEF Accept, DeskGoes, Ends
<1>4. \A e \in Desks : desk'[e] = IF e = d THEN r ELSE desk[e]  BY <1>3 DEF RuleRows
<1>5. excluded \subseteq excluded'  BY <1>3
<1>6. r.pc \in {"close", "save"} => r.key = k /\ (r.state = "accepted" => offers[k].phrases \subseteq excluded')
  <2>1. CASE r = Idle  BY <2>1 DEF Idle
  <2>2. CASE r = [pc |-> "save", key |-> k, state |-> "accepted"] /\ excluded' = excluded \union Fresh(k)
    BY <2>2 DEF Fresh
  <2>3. CASE /\ r = [pc |-> "close", key |-> k, state |-> Verdict(desk[d].action)]
             /\ desk[d].action = "dismiss" \/ ~ living \/ Fresh(k) = {}
    <3>1. Verdict(desk[d].action) = "accepted" => Fresh(k) = {}
      BY <2>3 DEF Verdict
    <3> QED  BY <1>5, <2>3, <3>1 DEF Fresh
  <2> QED  BY <1>3, <2>1, <2>2, <2>3
<1>7. RuleRows'  BY <1>2, <1>3 DEF RuleRows
<1>8. SaveIsOnItsWay' /\ stored' \subseteq excluded'
  <2>1. CASE r.pc = "save"  BY <1>2, <1>4, <1>5, <2>1 DEF SaveIsOnItsWay
  <2>2. CASE r.pc # "save"
    <3>1. UNCHANGED excluded  BY <1>3, <2>2
    <3> QED  BY <1>1, <1>2, <1>4, <3>1 DEF SaveIsOnItsWay
  <2> QED  BY <2>1, <2>2
<1>9. AcceptedIsCut'  BY <1>2, <1>5 DEF AcceptedIsCut, IsCut
<1>10. AnswerIsCut'
  <2> SUFFICES ASSUME NEW e \in Desks
               PROVE  /\ desk'[e].pc = "resolve" => desk'[e].key \in DOMAIN offers
                      /\ desk'[e].pc = "save" => desk'[e] = [pc |-> "save", key |-> desk'[e].key, state |-> desk'[e].state]
                      /\ desk'[e].pc \in {"save", "close"} =>
                            /\ desk'[e].key \in DOMAIN offers
                            /\ desk'[e].state = "accepted" =>
                                  /\ desk'[e].key \in DOMAIN offers
                                  /\ offers[desk'[e].key].phrases \subseteq excluded'
    BY <1>2 DEF AnswerIsCut, IsCut
  <2>1. CASE e = d
    <3>1. r.pc # "resolve" /\ (r.pc = "save" => r = [pc |-> "save", key |-> r.key, state |-> r.state])
      BY <1>3 DEF Idle
    <3> QED  BY <1>1, <1>4, <1>6, <2>1, <3>1
  <2>2. CASE e # d  BY <1>4, <1>5, <2>2 DEF AnswerIsCut, IsCut
  <2> QED  BY <2>1, <2>2
<1> QED  BY <1>7, <1>8, <1>9, <1>10

LEMMA SaveStep == ASSUME RulesInv, NEW d \in Desks, SaveRule(d) PROVE RulesInv'
<1> USE DEF RulesInv, saves, CabinetSaved
<1> DEFINE r == [desk[d] EXCEPT !.pc = "close"]
<1>1. \A e \in Desks : desk'[e] = IF e = d THEN r ELSE desk[e]
  BY DEF SaveRule, DeskGoes, RuleRows
<1>2. r.pc = "close" /\ r.key = desk[d].key /\ r.state = desk[d].state
  BY DEF SaveRule, AnswerIsCut
<1>3. RuleRows'  BY DEF SaveRule, DeskGoes, RuleRows
<1>4. SaveIsOnItsWay' /\ stored' \subseteq excluded'  BY DEF SaveRule, SaveIsOnItsWay
<1>5. AcceptedIsCut'  BY DEF SaveRule, AcceptedIsCut, IsCut
<1> HIDE DEF r
<1>6. AnswerIsCut'  BY <1>1, <1>2 DEF SaveRule, AnswerIsCut, IsCut
<1> QED  BY <1>3, <1>4, <1>5, <1>6

LEMMA CloseStep == ASSUME RulesInv, NEW d \in Desks, Close(d) PROVE RulesInv'
<1> USE DEF RulesInv, saves, CabinetSaved
<1> DEFINE k == desk[d].key
<1>1. k \in DOMAIN offers /\ (desk[d].state = "accepted" => IsCut(k))  BY DEF Close, AnswerIsCut
<1>2. UNCHANGED <<excluded, saves, failures>>  BY DEF Close
<1>3. PICK r : desk' = [desk EXCEPT ![d] = r] /\ r.pc \in {"idle", "offers"}
  <2>1. CASE IsOpen(k) /\ living
    <3> DEFINE r == [pc |-> "offers", cut |-> excluded]
    <3>1. desk' = [desk EXCEPT ![d] = r] /\ r.pc = "offers"  BY <2>1 DEF Close, DeskGoes
    <3> QED  BY <3>1
  <2>2. CASE ~ (IsOpen(k) /\ living)
    <3>1. desk' = [desk EXCEPT ![d] = Idle] /\ Idle.pc = "idle"  BY <2>2 DEF Close, DeskGoes, Ends, Idle
    <3> QED  BY <3>1
  <2> QED  BY <2>1, <2>2
<1>4. \A e \in Desks : desk'[e] = IF e = d THEN r ELSE desk[e]  BY <1>3 DEF RuleRows
<1>5. /\ DOMAIN offers' = DOMAIN offers
      /\ \A j \in DOMAIN offers : /\ offers'[j].phrases = offers[j].phrases
                                  /\ offers'[j] = [state |-> offers'[j].state, phrases |-> offers'[j].phrases]
                                  /\ offers'[j].state = offers[j].state \/ (j = k /\ offers'[j].state = desk[d].state)
      /\ offers' = [j \in DOMAIN offers |-> offers'[j]]
  <2>1. CASE IsOpen(k)
    <3>1. offers' = [offers EXCEPT ![k].state = desk[d].state]  BY <2>1 DEF Close
    <3>2. offers' = [j \in DOMAIN offers |-> IF j = k THEN [offers[j] EXCEPT !.state = desk[d].state]
                                                     ELSE offers[j]]
      BY <1>1, <3>1 DEF RuleRows
    <3>3. \A j \in DOMAIN offers : offers[j] = [state |-> offers[j].state, phrases |-> offers[j].phrases]
      BY DEF RuleRows
    <3>4. \A j \in DOMAIN offers :
             offers'[j] = [state |-> IF j = k THEN desk[d].state ELSE offers[j].state,
                           phrases |-> offers[j].phrases]
      BY <3>2, <3>3
    <3> QED  BY <3>2, <3>4
  <2>2. CASE ~ IsOpen(k)  BY <2>2 DEF Close, RuleRows
  <2> QED  BY <2>1, <2>2
<1>6. RuleRows'
  <2>1. offers' = [j \in DOMAIN offers' |-> [state |-> offers'[j].state, phrases |-> offers'[j].phrases]]
    BY <1>5
  <2>2. desk' = [e \in Desks |-> desk'[e]]  BY <1>3 DEF RuleRows
  <2> QED  BY <1>2, <2>1, <2>2 DEF RuleRows
<1>7. SaveIsOnItsWay' /\ stored' \subseteq excluded'
  <2>1. desk[d].pc # "save"  BY DEF Close
  <2> QED  BY <1>2, <1>4, <2>1 DEF SaveIsOnItsWay
<1>8. AcceptedIsCut'  BY <1>1, <1>2, <1>5 DEF AcceptedIsCut, IsCut
<1>9. AnswerIsCut'  BY <1>2, <1>3, <1>4, <1>5 DEF AnswerIsCut, IsCut
<1> QED  BY <1>6, <1>7, <1>8, <1>9

\* The study in the background touches no request and no exclusion.
LEMMA StudyStep ==
    ASSUME RulesInv, UNCHANGED <<offers, excluded, saves, desk>>,
           failures' = failures \/ failures' = failures + 1
    PROVE  RulesInv'
BY DEF RulesInv, RuleRows, SaveIsOnItsWay, AcceptedIsCut, AnswerIsCut, IsCut, saves

LEMMA RulesInvIsInductive == RulesInv /\ [RulesNext]_ruleVars => RulesInv'
<1> SUFFICES ASSUME RulesInv, [RulesNext]_ruleVars PROVE RulesInv'  OBVIOUS
<1>1. CASE UNCHANGED ruleVars  BY <1>1, StudyStep DEF ruleVars, saves
<1>2. ASSUME NEW d \in Desks, NEW c \in Cases, NEW kind \in {"reject", "accept", "none"}, Decide(d, c, kind)
      PROVE  RulesInv'
  BY <1>2, DecideStep
<1>3. ASSUME NEW d \in Desks, NEW k \in DOMAIN offers, NEW action \in {"accept", "dismiss"},
             Resolve(d, k, action)
      PROVE  RulesInv'
  BY <1>3, ResolveStep
<1>4. ASSUME NEW d \in Desks, Remember(d) \/ ReadOffers(d) \/ FindSignal(d) PROVE RulesInv'
  <2>1. PICK r : desk' = [desk EXCEPT ![d] = r] /\ r.pc \in {"idle", "offers", "signals", "offer"}
    <3>1. ASSUME NEW r, DeskGoes(d, r), r.pc \in {"idle", "offers", "signals", "offer"}
          PROVE  \E q : desk' = [desk EXCEPT ![d] = q] /\ q.pc \in {"idle", "offers", "signals", "offer"}
      BY <3>1 DEF DeskGoes
    <3>2. ASSUME Ends(d)
          PROVE  \E q : desk' = [desk EXCEPT ![d] = q] /\ q.pc \in {"idle", "offers", "signals", "offer"}
      BY <3>1, <3>2 DEF Ends, Idle
    <3>3. CASE Remember(d)  BY <3>1, <3>2, <3>3 DEF Remember
    <3>4. CASE ReadOffers(d)  BY <3>1, <3>2, <3>4 DEF ReadOffers
    <3>5. CASE FindSignal(d)  BY <3>1, <3>2, <3>5 DEF FindSignal
    <3> QED  BY <1>4, <3>3, <3>4, <3>5
  <2>2. desk[d].pc # "save" /\ UNCHANGED <<offers, excluded, saves, failures>>
    BY <1>4 DEF Remember, ReadOffers, FindSignal
  <2> QED  BY <2>1, <2>2, QuietDesk
<1>5. ASSUME NEW d \in Desks, OfferTerm(d) PROVE RulesInv'
  BY <1>5, OfferStep DEF OfferTerm, Ends, DeskGoes
<1>6. ASSUME NEW d \in Desks, DeskFails(d) PROVE RulesInv'  BY <1>6, FailStep
<1>7. ASSUME NEW d \in Desks, Accept(d) PROVE RulesInv'  BY <1>7, AcceptStep
<1>8. ASSUME NEW d \in Desks, SaveRule(d) PROVE RulesInv'  BY <1>8, SaveStep
<1>9. ASSUME NEW d \in Desks, Close(d) PROVE RulesInv'  BY <1>9, CloseStep
<1>10. CASE StudyReads \/ ModelAnswers \/ StudyLooksAgain \/ StudyFails \/ DropProfile
  <2>1. UNCHANGED <<offers, excluded, saves, desk>>
    BY <1>10 DEF StudyReads, ModelAnswers, StudyLooksAgain, StudyFails, DropProfile
  <2>2. failures' = failures \/ failures' = failures + 1
    BY <1>10 DEF StudyReads, ModelAnswers, StudyLooksAgain, StudyFails, DropProfile
  <2> QED  BY <2>1, <2>2, StudyStep
<1>11. CASE OfferDirection  BY <1>11, OfferStep DEF OfferDirection
<1> QED
  BY <1>1, <1>2, <1>3, <1>4, <1>5, <1>6, <1>7, <1>8, <1>9, <1>10, <1>11 DEF RulesNext

LEMMA RulesInvHoldsAtFirst == RulesInit => RulesInv
<1> SUFFICES ASSUME RulesInit PROVE RulesInv  OBVIOUS
<1>1. DOMAIN offers = {} /\ \A d \in Desks : desk[d] = Idle  BY DEF RulesInit
<1>2. RuleRows  BY <1>1 DEF RulesInit, RuleRows
<1>3. stored \subseteq excluded /\ SaveIsOnItsWay  BY DEF RulesInit, SaveIsOnItsWay
<1>4. AcceptedIsCut  BY <1>1 DEF AcceptedIsCut
<1>5. AnswerIsCut  BY <1>1 DEF AnswerIsCut, Idle
<1> QED  BY <1>2, <1>3, <1>4, <1>5 DEF RulesInv

\* An accepted rule is among the stored exclusions (resolveSuggestion of app.ts), but
\* for a save under way and for phrases whose save failed, until any save of the
\* cabinet succeeds; for any profile, any number of requests and of failures.
THEOREM AcceptedRulesAreSaved == RulesSpec => []AcceptedIsSaved
<1>1. RulesInv => AcceptedIsSaved
  <2> SUFFICES ASSUME RulesInv, NEW k \in DOMAIN offers, offers[k].state = "accepted"
               PROVE  \/ offers[k].phrases \subseteq stored \union unsaved
                      \/ \E d \in Desks : desk[d].pc = "save" /\ offers[k].phrases \subseteq excluded
    BY DEF AcceptedIsSaved
  <2>1. offers[k].phrases \subseteq excluded  BY DEF RulesInv, AcceptedIsCut, IsCut
  <2> QED  BY <2>1 DEF RulesInv, SaveIsOnItsWay
<1> QED  BY <1>1, RulesInvHoldsAtFirst, RulesInvIsInductive, PTL DEF RulesSpec

\* A rule that was answered stays as it was answered: the index of the table on the
\* profile and the term, and the condition of resolveSuggestion's update.
THEOREM AnswersAreFinal == RulesSpec => AnswerIsFinal
<1> DEFINE Final == \A k \in DOMAIN offers : offers[k].state # "open" => offers'[k] = offers[k]
<1>1. [RulesNext]_ruleVars => [Final]_offers
  <2> SUFFICES ASSUME [RulesNext]_ruleVars, offers' # offers PROVE Final  OBVIOUS
  <2>1. ASSUME NEW key, NEW phrases, offers' = Offering(key, phrases) PROVE Final
    BY <2>1 DEF Offering, Offered
  <2>2. ASSUME NEW d \in Desks, Close(d) PROVE Final
    BY <2>2 DEF Close, IsOpen
  <2>3. \/ \E d \in Desks : OfferTerm(d) \/ Close(d)
        \/ OfferDirection
    <3>1. UNCHANGED ruleVars => offers' = offers  BY DEF ruleVars
    <3>2. StudyReads \/ ModelAnswers \/ StudyLooksAgain \/ StudyFails \/ DropProfile => offers' = offers
      BY DEF StudyReads, ModelAnswers, StudyLooksAgain, StudyFails, DropProfile
    <3>3. ASSUME NEW d \in Desks PROVE Remember(d) \/ ReadOffers(d) \/ FindSignal(d) \/ DeskFails(d)
             \/ Accept(d) \/ SaveRule(d) => offers' = offers
      BY DEF Remember, ReadOffers, FindSignal, DeskFails, Accept, SaveRule
    <3>4. ASSUME NEW d \in Desks PROVE
             /\ \A c, kind : Decide(d, c, kind) => offers' = offers
             /\ \A k, action : Resolve(d, k, action) => offers' = offers
      BY DEF Decide, Resolve
    <3> QED  BY <3>1, <3>2, <3>3, <3>4 DEF RulesNext
  <2> QED  BY <2>1, <2>2, <2>3 DEF OfferTerm, OfferDirection
<1> QED  BY <1>1, PTL DEF RulesSpec, AnswerIsFinal

----------------------------------------------------------------------------
\* The lists of cases (CaseLists).

\* Every load has a generation of its own; the current one is for the open tab, and
\* has read, if it has read, nothing older than what its list holds.
LoadsInOrder ==
    \A l \in loads :
        /\ l.gen \in Nat /\ l.gen <= generation /\ l.tab \in Tabs /\ l.pc \in {"asked", "read"}
        /\ l = [gen |-> l.gen, tab |-> l.tab, pc |-> l.pc, items |-> l.items, read |-> l.read]
        /\ \A m \in loads : l.gen = m.gen => l = m
        /\ l.gen = generation => l.tab = tab
        /\ l.gen = generation /\ l.pc = "read" =>
              l.read \in Nat /\ l.read <= version /\ lists[l.tab].read <= l.read

ListRows ==
    /\ version \in Nat /\ generation \in Nat /\ tab \in Tabs /\ refreshing \in BOOLEAN
    /\ DOMAIN lists = Tabs
    /\ lists = [t \in Tabs |-> [kind |-> lists[t].kind, items |-> lists[t].items, read |-> lists[t].read]]
    /\ \A t \in Tabs : lists[t].read \in Nat /\ lists[t].read <= version

ListsInv == ListRows /\ LoadsInOrder /\ LoadingIsTrue

\* What a step makes of the lists: nothing gets older or loses its cards.
Forward ==
    \A t \in Tabs : /\ lists'[t].read >= lists[t].read
                    /\ HasItems(lists[t]) => HasItems(lists'[t])

\* The lists after a step that changes only what they hold.
LEMMA Patching ==
    ASSUME ListsInv, UNCHANGED <<tab, generation, refreshing, loads>>,
           version' \in Nat, version <= version',
           lists' = [t \in Tabs |-> [kind |-> lists[t].kind, items |-> lists'[t].items, read |-> lists[t].read]]
    PROVE  ListsInv' /\ Forward
<1> USE DEF ListsInv
<1>1. \A t \in Tabs : /\ lists'[t].kind = lists[t].kind /\ lists'[t].read = lists[t].read
                      /\ lists[t].read \in Nat /\ lists[t].read <= version
                      /\ lists'[t] = [kind |-> lists'[t].kind, items |-> lists'[t].items, read |-> lists'[t].read]
  BY DEF ListRows
<1>2. ListRows'  BY <1>1 DEF ListRows
<1>3. LoadsInOrder'
  <2> SUFFICES ASSUME NEW l \in loads
               PROVE  /\ l.gen \in Nat /\ l.gen <= generation /\ l.tab \in Tabs /\ l.pc \in {"asked", "read"}
                      /\ l = [gen |-> l.gen, tab |-> l.tab, pc |-> l.pc, items |-> l.items, read |-> l.read]
                      /\ \A m \in loads : l.gen = m.gen => l = m
                      /\ l.gen = generation => l.tab = tab
                      /\ l.gen = generation /\ l.pc = "read" =>
                            l.read \in Nat /\ l.read <= version' /\ lists'[l.tab].read <= l.read
    BY DEF LoadsInOrder
  <2>1. /\ l.gen \in Nat /\ l.gen <= generation /\ l.tab \in Tabs /\ l.pc \in {"asked", "read"}
        /\ l = [gen |-> l.gen, tab |-> l.tab, pc |-> l.pc, items |-> l.items, read |-> l.read]
        /\ \A m \in loads : l.gen = m.gen => l = m
        /\ l.gen = generation => l.tab = tab
        /\ l.gen = generation /\ l.pc = "read" =>
              l.read \in Nat /\ l.read <= version /\ lists[l.tab].read <= l.read
    BY DEF LoadsInOrder
  <2> QED  BY <1>1, <2>1 DEF ListRows
<1>4. LoadingIsTrue'  BY <1>1 DEF LoadingIsTrue, ListRows
<1>5. Forward  BY <1>1 DEF Forward, HasItems
<1> QED  BY <1>2, <1>3, <1>4, <1>5

\* A load begins with a generation that none has.
LEMMA LoadStep ==
    ASSUME ListsInv, NEW t \in Tabs, NEW g \in Nat, generation < g, Load(t, g), tab' = t,
           UNCHANGED version
    PROVE  ListsInv' /\ Forward
<1> USE DEF ListsInv
<1> DEFINE new == [gen |-> g, tab |-> t, pc |-> "asked", items |-> <<>>, read |-> 0]
<1>1. generation' = g /\ refreshing' = TRUE /\ loads' = loads \union {new}  BY DEF Load
<1>2. \A u \in Tabs : /\ lists'[u].read = lists[u].read
                      /\ lists'[u] = [kind |-> lists'[u].kind, items |-> lists'[u].items, read |-> lists'[u].read]
                      /\ HasItems(lists[u]) => lists'[u].kind = lists[u].kind
  BY DEF Load, ListRows, HasItems
<1>3. lists' = [u \in Tabs |-> lists'[u]]  BY DEF Load, ListRows
<1>4. ListRows'
  <2>1. \A u \in Tabs : lists'[u].read \in Nat /\ lists'[u].read <= version'  BY <1>2 DEF ListRows
  <2>2. lists' = [u \in Tabs |-> [kind |-> lists'[u].kind, items |-> lists'[u].items, read |-> lists'[u].read]]
    BY <1>2, <1>3
  <2> QED  BY <1>1, <1>3, <2>1, <2>2 DEF ListRows
<1>5. LoadsInOrder'
  <2> SUFFICES ASSUME NEW l \in loads'
               PROVE  /\ l.gen \in Nat /\ l.gen <= g /\ l.tab \in Tabs /\ l.pc \in {"asked", "read"}
                      /\ l = [gen |-> l.gen, tab |-> l.tab, pc |-> l.pc, items |-> l.items, read |-> l.read]
                      /\ \A m \in loads' : l.gen = m.gen => l = m
                      /\ l.gen = g => l.tab = t /\ l.pc # "read"
    BY <1>1 DEF LoadsInOrder
  <2>1. \A m \in loads : m.gen \in Nat /\ m.gen < g
    <3>1. \A m \in loads : m.gen \in Nat /\ m.gen <= generation  BY DEF LoadsInOrder
    <3>2. generation \in Nat  BY DEF ListRows
    <3> QED  BY <3>1, <3>2
  <2>2. CASE l = new  BY <1>1, <2>1, <2>2
  <2>3. CASE l \in loads
    <3>1. /\ l.tab \in Tabs /\ l.pc \in {"asked", "read"}
          /\ l = [gen |-> l.gen, tab |-> l.tab, pc |-> l.pc, items |-> l.items, read |-> l.read]
          /\ \A m \in loads : l.gen = m.gen => l = m
      BY <2>3 DEF LoadsInOrder
    <3> QED  BY <1>1, <2>1, <2>3, <3>1
  <2> QED  BY <1>1, <2>2, <2>3
<1>6. LoadingIsTrue'
  <2>1. new \in loads' /\ new.gen = generation'  BY <1>1
  <2> QED  BY <1>1, <2>1 DEF LoadingIsTrue
<1>7. Forward
  <2>1. \A u \in Tabs : lists[u].read \in Nat  BY DEF ListRows
  <2>2. ASSUME NEW u \in Tabs PROVE lists'[u].read >= lists[u].read
    <3>1. lists'[u].read = lists[u].read  BY <1>2
    <3>2. lists[u].read \in Nat  BY <2>1
    <3> QED  BY <3>1, <3>2
  <2> QED  BY <1>2, <2>2 DEF Forward, HasItems
<1> QED  BY <1>4, <1>5, <1>6, <1>7

LEMMA ServerReadsStep == ASSUME ListsInv, NEW l \in loads, ServerReads(l) PROVE ListsInv' /\ Forward
<1> USE DEF ListsInv
<1> DEFINE new == [gen |-> l.gen, tab |-> l.tab, pc |-> "read", items |-> Page(l.tab), read |-> version]
<1>1. /\ l.gen \in Nat /\ l.gen <= generation /\ l.tab \in Tabs
      /\ l = [gen |-> l.gen, tab |-> l.tab, pc |-> l.pc, items |-> l.items, read |-> l.read]
      /\ l.gen = generation => l.tab = tab
  BY DEF LoadsInOrder
<1>2. /\ new = [gen |-> new.gen, tab |-> new.tab, pc |-> new.pc, items |-> new.items, read |-> new.read]
      /\ new.gen = l.gen /\ new.tab = l.tab /\ new.pc = "read" /\ new.read = version
  OBVIOUS
<1>3. loads' = (loads \ {l}) \union {new}  BY DEF ServerReads
<1> HIDE DEF new
<1>4. UNCHANGED <<version, lists, tab, generation, refreshing>>  BY DEF ServerReads, serverVars
<1>5. ListRows'  BY <1>4 DEF ListRows
<1>6. LoadsInOrder'
  <2> SUFFICES ASSUME NEW k \in loads'
               PROVE  /\ k.gen \in Nat /\ k.gen <= generation /\ k.tab \in Tabs /\ k.pc \in {"asked", "read"}
                      /\ k = [gen |-> k.gen, tab |-> k.tab, pc |-> k.pc, items |-> k.items, read |-> k.read]
                      /\ \A m \in loads' : k.gen = m.gen => k = m
                      /\ k.gen = generation => k.tab = tab
                      /\ k.gen = generation /\ k.pc = "read" =>
                            k.read \in Nat /\ k.read <= version /\ lists[k.tab].read <= k.read
    BY <1>4 DEF LoadsInOrder
  <2>1. \A m \in loads : l.gen = m.gen => l = m  BY DEF LoadsInOrder
  <2>2. CASE k = new
    <3>1. lists[l.tab].read <= version /\ version \in Nat  BY <1>1 DEF ListRows
    <3> QED  BY <1>1, <1>2, <1>3, <2>1, <2>2, <3>1
  <2>3. CASE k \in loads \ {l}
    <3>1. /\ k.gen \in Nat /\ k.gen <= generation /\ k.tab \in Tabs /\ k.pc \in {"asked", "read"}
          /\ k = [gen |-> k.gen, tab |-> k.tab, pc |-> k.pc, items |-> k.items, read |-> k.read]
          /\ \A m \in loads : k.gen = m.gen => k = m
          /\ k.gen = generation => k.tab = tab
          /\ k.gen = generation /\ k.pc = "read" =>
                k.read \in Nat /\ k.read <= version /\ lists[k.tab].read <= k.read
      BY <2>3 DEF LoadsInOrder
    <3>2. new.gen # k.gen  BY <1>2, <2>1, <2>3
    <3> QED  BY <1>3, <2>3, <3>1, <3>2
  <2> QED  BY <1>3, <2>2, <2>3
<1>7. LoadingIsTrue'
  <2>1. (\E k \in loads : k.gen = generation) <=> \E k \in loads' : k.gen = generation
    <3>1. new.gen = l.gen  BY <1>2
    <3> QED  BY <1>3, <3>1
  <2> QED  BY <1>4, <2>1 DEF LoadingIsTrue
<1>8. Forward  BY <1>4 DEF Forward, ListRows
<1> QED  BY <1>5, <1>6, <1>7, <1>8

\* A load is over; the current one leaves its list with cards or an error, and no older.
LEMMA OverStep ==
    ASSUME ListsInv, NEW l \in loads, loads' = loads \ {l}, UNCHANGED <<version, tab, generation>>,
           IF l.gen = generation
           THEN /\ refreshing' = FALSE
                /\ \E now : /\ lists' = [lists EXCEPT ![l.tab] = now]
                            /\ now = [kind |-> now.kind, items |-> now.items, read |-> now.read]
                            /\ now.kind \in {"ready", "stale", "error"}
                            /\ HasItems(lists[l.tab]) => HasItems(now)
                            /\ now.read \in Nat /\ now.read <= version /\ lists[l.tab].read <= now.read
           ELSE UNCHANGED <<lists, refreshing>>
    PROVE  ListsInv' /\ Forward
<1> USE DEF ListsInv
<1>1. l.tab \in Tabs /\ (l.gen = generation => l.tab = tab) /\ \A m \in loads : l.gen = m.gen => l = m
  BY DEF LoadsInOrder
<1>2. CASE l.gen = generation
  <2>1. PICK now : /\ lists' = [lists EXCEPT ![l.tab] = now]
                   /\ now = [kind |-> now.kind, items |-> now.items, read |-> now.read]
                   /\ now.kind \in {"ready", "stale", "error"}
                   /\ HasItems(lists[l.tab]) => HasItems(now)
                   /\ now.read \in Nat /\ now.read <= version /\ lists[l.tab].read <= now.read
    BY <1>2
  <2>2. \A u \in Tabs : lists'[u] = IF u = l.tab THEN now ELSE lists[u]  BY <2>1 DEF ListRows
  <2>3. lists' = [u \in Tabs |-> lists'[u]]  BY <2>1 DEF ListRows
  <2>4. \A u \in Tabs : /\ lists[u] = [kind |-> lists[u].kind, items |-> lists[u].items, read |-> lists[u].read]
                        /\ lists[u].read \in Nat /\ lists[u].read <= version
    BY DEF ListRows
  <2>5. \A u \in Tabs : /\ lists'[u] = [kind |-> lists'[u].kind, items |-> lists'[u].items, read |-> lists'[u].read]
                        /\ lists'[u].read \in Nat /\ lists'[u].read <= version
    BY <2>1, <2>2, <2>4
  <2>6. ListRows'
    <3>1. lists' = [u \in Tabs |-> [kind |-> lists'[u].kind, items |-> lists'[u].items, read |-> lists'[u].read]]
      BY <2>3, <2>5
    <3> QED  BY <1>2, <2>3, <2>5, <3>1 DEF ListRows
  <2>7. \A m \in loads' : m \in loads /\ m.gen # generation  BY <1>1, <1>2
  <2>8. LoadsInOrder'
    <3> SUFFICES ASSUME NEW k \in loads'
                 PROVE  /\ k.gen \in Nat /\ k.gen <= generation /\ k.tab \in Tabs /\ k.pc \in {"asked", "read"}
                        /\ k = [gen |-> k.gen, tab |-> k.tab, pc |-> k.pc, items |-> k.items, read |-> k.read]
                        /\ \A m \in loads' : k.gen = m.gen => k = m
      BY <2>7 DEF LoadsInOrder
    <3> QED  BY DEF LoadsInOrder
  <2>9. LoadingIsTrue'
    <3>1. lists'[tab].kind \in {"ready", "stale", "error"}  BY <1>1, <1>2, <2>1, <2>2
    <3> QED  BY <1>2, <2>7, <3>1 DEF LoadingIsTrue
  <2>10. Forward
    <3>1. ASSUME NEW u \in Tabs PROVE lists'[u].read >= lists[u].read
      <4>1. lists[u].read \in Nat  BY <2>4
      <4>2. CASE u = l.tab  BY <2>1, <2>2, <4>1, <4>2
      <4>3. CASE u # l.tab  BY <2>2, <4>1, <4>3
      <4> QED  BY <4>2, <4>3
    <3>2. \A u \in Tabs : HasItems(lists[u]) => HasItems(lists'[u])  BY <2>1, <2>2
    <3> QED  BY <3>1, <3>2 DEF Forward
  <2> QED  BY <2>6, <2>8, <2>9, <2>10
<1>3. CASE l.gen # generation
  <2>1. UNCHANGED <<lists, refreshing>>  BY <1>3
  <2>2. ListRows'  BY <2>1 DEF ListRows
  <2>3. LoadsInOrder'  BY <2>1 DEF LoadsInOrder
  <2>4. LoadingIsTrue'  BY <1>3, <2>1 DEF LoadingIsTrue
  <2>5. Forward  BY <2>1 DEF Forward, ListRows
  <2> QED  BY <2>2, <2>3, <2>4, <2>5
<1> QED  BY <1>2, <1>3

\* A change of what a list holds leaves its kind and its reading.
LEMMA Held ==
    ASSUME ListRows, NEW held,
           lists' = [t \in Tabs |-> IF HasItems(lists[t]) THEN [lists[t] EXCEPT !.items = held[t]] ELSE lists[t]]
    PROVE  lists' = [t \in Tabs |-> [kind |-> lists[t].kind, items |-> lists'[t].items, read |-> lists[t].read]]
<1>1. \A t \in Tabs : lists[t] = [kind |-> lists[t].kind, items |-> lists[t].items, read |-> lists[t].read]
  BY DEF ListRows
<1>2. ASSUME NEW t \in Tabs
      PROVE  lists'[t] = [kind |-> lists[t].kind, items |-> lists'[t].items, read |-> lists[t].read]
  <2>1. CASE HasItems(lists[t])
    <3> DEFINE now == held[t]
    <3>1. lists'[t] = [lists[t] EXCEPT !.items = now]  BY <2>1
    <3> HIDE DEF now
    <3>2. lists'[t] = [kind |-> lists[t].kind, items |-> now, read |-> lists[t].read]  BY <1>1, <3>1
    <3> QED  BY <3>2
  <2>2. CASE ~ HasItems(lists[t])  BY <1>1, <2>2
  <2> QED  BY <2>1, <2>2
<1> QED  BY <1>2

LEMMA ActionStep ==
    ASSUME ListsInv, UNCHANGED <<version, tab, generation, refreshing, loads>>,
           \/ UNCHANGED lists
           \/ \E held : lists' = [t \in Tabs |-> IF HasItems(lists[t])
                                                 THEN [lists[t] EXCEPT !.items = held[t]] ELSE lists[t]]
    PROVE  ListsInv' /\ Forward
<1>1. version' \in Nat /\ version <= version'  BY DEF ListsInv, ListRows
<1>2. CASE UNCHANGED lists
  <2>1. lists' = [t \in Tabs |-> [kind |-> lists[t].kind, items |-> lists'[t].items, read |-> lists[t].read]]
    BY <1>2 DEF ListsInv, ListRows
  <2> QED  BY <1>1, <2>1, Patching
<1>3. CASE ~ UNCHANGED lists
  <2>1. PICK held : lists' = [t \in Tabs |-> IF HasItems(lists[t])
                                             THEN [lists[t] EXCEPT !.items = held[t]] ELSE lists[t]]
    BY <1>3
  <2>2. lists' = [t \in Tabs |-> [kind |-> lists[t].kind, items |-> lists'[t].items, read |-> lists[t].read]]
    BY <2>1, Held DEF ListsInv
  <2> QED  BY <1>1, <2>2, Patching
<1> QED  BY <1>2, <1>3

LEMMA BeginStep == ASSUME ListsInv, NEW c \in ListCards, NEW op, Begin(c, op) PROVE ListsInv' /\ Forward
<1> DEFINE held == [t \in Tabs |-> Less(lists[t].items, {c})]
<1>1. UNCHANGED <<version, tab, generation, refreshing, loads>>  BY DEF Begin, serverVars
<1>2. CASE Drops(op)
  <2>1. lists' = [t \in Tabs |-> IF HasItems(lists[t])
                                 THEN [lists[t] EXCEPT !.items = Less(lists[t].items, {c})] ELSE lists[t]]
    BY <1>2 DEF Begin, Patch
  <2>2. lists' = [t \in Tabs |-> IF HasItems(lists[t])
                                 THEN [lists[t] EXCEPT !.items = held[t]] ELSE lists[t]]
    BY <2>1
  <2> HIDE DEF held
  <2> QED  BY <1>1, <2>2, ActionStep
<1>3. CASE ~ Drops(op)  BY <1>1, <1>3, ActionStep DEF Begin
<1> QED  BY <1>2, <1>3

LEMMA BeginEmptyStep == ASSUME ListsInv, BeginEmpty PROVE ListsInv' /\ Forward
<1> DEFINE kept(items) == Less(items, {c \in DOMAIN items : items[c] = "trash"})
           held == [t \in Tabs |-> kept(lists[t].items)]
<1>1. UNCHANGED <<version, tab, generation, refreshing, loads>>  BY DEF BeginEmpty, serverVars
<1>2. lists' = [t \in Tabs |-> IF HasItems(lists[t])
                               THEN [lists[t] EXCEPT !.items = kept(lists[t].items)] ELSE lists[t]]
  BY DEF BeginEmpty, Patch
<1> HIDE DEF kept
<1>3. lists' = [t \in Tabs |-> IF HasItems(lists[t])
                               THEN [lists[t] EXCEPT !.items = held[t]] ELSE lists[t]]
  BY <1>2
<1> HIDE DEF held
<1> QED  BY <1>1, <1>3, ActionStep

LEMMA SucceedsStep == ASSUME ListsInv, NEW a \in actions, Succeeds(a) PROVE ListsInv' /\ Forward
<1> DEFINE where == IF a.op = "archive" THEN "archive" ELSE "mine"
           held == [t \in Tabs |-> Moved(lists[t].items, a.card, where)]
<1>1. UNCHANGED <<version, tab, generation, refreshing, loads>>  BY DEF Succeeds, serverVars
<1>2. CASE a.op \in {"archive", "return"}
  <2>1. lists' = [t \in Tabs |-> IF HasItems(lists[t])
                                 THEN [lists[t] EXCEPT !.items = Moved(lists[t].items, a.card, where)]
                                 ELSE lists[t]]
    BY <1>2 DEF Succeeds, Patch
  <2>2. lists' = [t \in Tabs |-> IF HasItems(lists[t])
                                 THEN [lists[t] EXCEPT !.items = held[t]] ELSE lists[t]]
    BY <2>1
  <2> HIDE DEF held
  <2> QED  BY <1>1, <2>2, ActionStep
<1>3. CASE a.op \notin {"archive", "return"}  BY <1>1, <1>3, ActionStep DEF Succeeds
<1> QED  BY <1>2, <1>3

\* A failed action puts the list it came from back; the other lists stay.
LEMMA FailsStep == ASSUME ListsInv, NEW a \in actions, Fails(a) PROVE ListsInv' /\ Forward
<1> DEFINE held == [t \in Tabs |-> IF t = a.tab THEN a.snapshot ELSE lists[t].items]
<1>1. UNCHANGED <<version, tab, generation, refreshing, loads>>  BY DEF Fails, serverVars
<1>2. CASE Drops(a.op) /\ a.op # "remove" /\ HasItems(lists[a.tab])
  <2>1. lists' = [lists EXCEPT ![a.tab].items = a.snapshot]  BY <1>2 DEF Fails, Restored
  <2>2. /\ lists = [t \in Tabs |-> lists[t]]
        /\ \A t \in Tabs : lists[t] = [kind |-> lists[t].kind, items |-> lists[t].items, read |-> lists[t].read]
    BY DEF ListsInv, ListRows
  <2>3. ASSUME NEW t \in Tabs
        PROVE  lists'[t] = [kind |-> lists[t].kind, items |-> lists'[t].items, read |-> lists[t].read]
    <3>1. CASE t = a.tab
      <4>1. lists'[t] = [lists[t] EXCEPT !.items = a.snapshot]  BY <2>1, <2>2, <3>1
      <4>2. lists'[t] = [kind |-> lists[t].kind, items |-> a.snapshot, read |-> lists[t].read]
        BY <2>2, <4>1
      <4> QED  BY <4>2
    <3>2. CASE t # a.tab  BY <2>1, <2>2, <3>2
    <3> QED  BY <3>1, <3>2
  <2>4. lists' = [t \in Tabs |-> lists'[t]]  BY <2>1, <2>2
  <2>5. lists' = [t \in Tabs |-> [kind |-> lists[t].kind, items |-> lists'[t].items, read |-> lists[t].read]]
    BY <2>3, <2>4
  <2>6. version' \in Nat /\ version <= version'  BY <1>1 DEF ListsInv, ListRows
  <2> QED  BY <1>1, <2>5, <2>6, Patching
<1>3. CASE ~ (Drops(a.op) /\ a.op # "remove" /\ HasItems(lists[a.tab]))
  <2>1. UNCHANGED lists  BY <1>3 DEF Fails, Restored
  <2> QED  BY <1>1, <2>1, ActionStep
<1> QED  BY <1>2, <1>3

LEMMA ServerActsStep == ASSUME ListsInv, NEW a \in actions, ServerActs(a) PROVE ListsInv' /\ Forward
<1>1. UNCHANGED <<lists, tab, generation, refreshing, loads>> /\ version' = version + 1
  BY DEF ServerActs
<1>2. version' \in Nat /\ version <= version'  BY <1>1 DEF ListsInv, ListRows
<1>3. lists' = [t \in Tabs |-> [kind |-> lists[t].kind, items |-> lists'[t].items, read |-> lists[t].read]]
  BY <1>1 DEF ListsInv, ListRows
<1> QED  BY <1>1, <1>2, <1>3, Patching

LEMMA AnsweredStep == ASSUME ListsInv, NEW l \in loads, Answered(l) PROVE ListsInv' /\ Forward
<1> DEFINE now == [kind |-> "ready", items |-> l.items, read |-> l.read]
<1>1. loads' = loads \ {l} /\ UNCHANGED <<version, tab, generation>>  BY DEF Answered, serverVars
<1>2. CASE l.gen = generation
  <2>1. refreshing' = FALSE /\ lists' = [lists EXCEPT ![l.tab] = now]
    BY <1>2 DEF Answered, Delivered
  <2>2. now = [kind |-> now.kind, items |-> now.items, read |-> now.read]
        /\ now.kind \in {"ready", "stale", "error"} /\ HasItems(now) /\ now.read = l.read
    BY DEF HasItems
  <2>3. l.read \in Nat /\ l.read <= version /\ lists[l.tab].read <= l.read
    BY <1>2 DEF Answered, ListsInv, LoadsInOrder
  <2> HIDE DEF now
  <2> QED  BY <1>1, <1>2, <2>1, <2>2, <2>3, OverStep
<1>3. CASE l.gen # generation
  <2>1. UNCHANGED <<lists, refreshing>>  BY <1>3 DEF Answered, Delivered
  <2> QED  BY <1>1, <1>3, <2>1, OverStep
<1> QED  BY <1>2, <1>3

LEMMA LoadFailsStep == ASSUME ListsInv, NEW l \in loads, LoadFails(l) PROVE ListsInv' /\ Forward
<1> DEFINE kind == IF HasItems(lists[l.tab]) THEN "stale" ELSE "error"
           now == [kind |-> kind, items |-> lists[l.tab].items, read |-> lists[l.tab].read]
<1>1. loads' = loads \ {l} /\ UNCHANGED <<version, tab, generation>>  BY DEF LoadFails, serverVars
<1>2. CASE l.gen = generation
  <2>1. l.tab \in Tabs  BY DEF ListsInv, LoadsInOrder
  <2>2. /\ lists = [t \in Tabs |-> lists[t]]
        /\ lists[l.tab] = [kind |-> lists[l.tab].kind, items |-> lists[l.tab].items, read |-> lists[l.tab].read]
        /\ lists[l.tab].read \in Nat /\ lists[l.tab].read <= version
    BY <2>1 DEF ListsInv, ListRows
  <2>3. refreshing' = FALSE /\ lists' = [lists EXCEPT ![l.tab].kind = kind]
    BY <1>2 DEF LoadFails, Degraded
  <2>4. [lists[l.tab] EXCEPT !.kind = kind] = now  BY <2>2
  <2>5. lists' = [lists EXCEPT ![l.tab] = now]  BY <2>1, <2>2, <2>3, <2>4
  <2>6. /\ now = [kind |-> now.kind, items |-> now.items, read |-> now.read]
        /\ now.kind \in {"ready", "stale", "error"} /\ (HasItems(lists[l.tab]) => HasItems(now))
        /\ now.read = lists[l.tab].read
    BY DEF HasItems
  <2> HIDE DEF now
  <2>7. now.read \in Nat /\ now.read <= version /\ lists[l.tab].read <= now.read  BY <2>2, <2>6
  <2> QED  BY <1>1, <1>2, <2>3, <2>5, <2>6, <2>7, OverStep
<1>3. CASE l.gen # generation
  <2>1. UNCHANGED <<lists, refreshing>>  BY <1>3 DEF LoadFails, Degraded
  <2> QED  BY <1>1, <1>3, <2>1, OverStep
<1> QED  BY <1>2, <1>3

LEMMA ListsStep == ASSUME ListsInv, ListsNext PROVE ListsInv' /\ Forward
<1>1. generation \in Nat /\ tab \in Tabs  BY DEF ListsInv, ListRows
<1>2. ASSUME NEW t \in Tabs, Open(t) PROVE ListsInv' /\ Forward
  <2>1. generation + 2 \in Nat /\ generation < generation + 2  BY <1>1
  <2> QED  BY <1>2, <2>1, LoadStep DEF Open, serverVars
<1>3. CASE Retry
  <2>1. generation + 1 \in Nat /\ generation < generation + 1  BY <1>1
  <2> QED  BY <1>1, <1>3, <2>1, LoadStep DEF Retry, serverVars
<1>4. CASE BeginEmpty  BY <1>4, BeginEmptyStep
<1>5. ASSUME NEW l \in loads, ServerReads(l) \/ Answered(l) \/ LoadFails(l) PROVE ListsInv' /\ Forward
  BY <1>5, ServerReadsStep, AnsweredStep, LoadFailsStep
<1>6. ASSUME NEW c \in ListCards, NEW op \in {"archive", "return", "remove", "restore", "purge"}, Begin(c, op)
      PROVE  ListsInv' /\ Forward
  BY <1>6, BeginStep
<1>7. ASSUME NEW a \in actions, ServerActs(a) \/ Succeeds(a) \/ Fails(a) PROVE ListsInv' /\ Forward
  BY <1>7, ServerActsStep, SucceedsStep, FailsStep
<1> QED  BY <1>2, <1>3, <1>4, <1>5, <1>6, <1>7 DEF ListsNext

LEMMA ListsInvHoldsAtFirst == ListsInit => ListsInv
<1> SUFFICES ASSUME ListsInit PROVE ListsInv  OBVIOUS
<1> USE DEF ListsInit
<1>1. lists = [t \in Tabs |-> [kind |-> IF t = "mine" THEN "loading" ELSE "unset", items |-> <<>>, read |-> 0]]
  BY DEF Unset
<1>2. ListRows  BY <1>1 DEF ListRows, Tabs
<1>3. LoadsInOrder  BY DEF LoadsInOrder, Tabs
<1>4. LoadingIsTrue  BY DEF LoadingIsTrue
<1> QED  BY <1>2, <1>3, <1>4 DEF ListsInv

LEMMA ListsInvIsInductive == ListsInv /\ [ListsNext]_listVars => ListsInv'
<1> SUFFICES ASSUME ListsInv, [ListsNext]_listVars PROVE ListsInv'  OBVIOUS
<1>1. CASE UNCHANGED listVars
  BY <1>1 DEF listVars, ListsInv, ListRows, LoadsInOrder, LoadingIsTrue
<1>2. CASE ListsNext  BY <1>2, ListsStep
<1> QED  BY <1>1, <1>2

\* A late answer never takes a list back, and a list with cards is never without
\* (runListLoad of MyProcurementsApp.tsx), for any cards, loads and failures.
THEOREM ListsGoForward == ListsSpec => ListsMoveForward
<1>1. ListsInv /\ [ListsNext]_listVars => [Forward]_lists
  <2> SUFFICES ASSUME ListsInv, [ListsNext]_listVars, lists' # lists PROVE Forward  OBVIOUS
  <2>1. ListsNext  BY DEF listVars
  <2> QED  BY <2>1, ListsStep
<1> QED
  BY <1>1, ListsInvHoldsAtFirst, ListsInvIsInductive, PTL DEF ListsSpec, ListsMoveForward, Forward

\* The console says that it is loading exactly while the load of the open tab is under
\* way, and a tab without cards or an error is being loaded.
THEOREM LoadingIsSaidTruly == ListsSpec => []LoadingIsTrue
<1>1. ListsInv => LoadingIsTrue  BY DEF ListsInv
<1> QED  BY <1>1, ListsInvHoldsAtFirst, ListsInvIsInductive, PTL DEF ListsSpec

----------------------------------------------------------------------------
\* What the console polls for (ConsolePolls).

\* Only what is remembered has raised a toast, and what was there at first none.
RememberedRaises ==
    /\ Seeded \subseteq knownInboxIds
    /\ notices \in [News -> Nat]
    /\ \A e \in News : /\ e \notin knownInboxIds => notices[e] = 0
                       /\ notices[e] <= IF e \in Seeded THEN 0 ELSE 1

ConsoleInv == RememberedRaises /\ reloads \in Nat /\ ProgressIsLive

LEMMA InboxStep == ASSUME ConsoleInv, InboxNext PROVE ConsoleInv'
<1> USE DEF ConsoleInv
<1>1. UNCHANGED <<ingest, ingesting, reloads, lostTrack>>
  BY DEF InboxNext, NewsComes, NewsGoes, PollInbox, InboxRead, InboxAnswered, InboxFails, jobVars
<1>2. (reloads \in Nat)' /\ ProgressIsLive'  BY <1>1 DEF ProgressIsLive
<1>3. RememberedRaises'
  <2>1. CASE UNCHANGED <<knownInboxIds, notices>>  BY <2>1 DEF RememberedRaises
  <2>2. ASSUME NEW p \in polls, InboxAnswered(p) PROVE RememberedRaises'
    <3>1. /\ knownInboxIds' = knownInboxIds \union (p.items \ knownInboxIds)
          /\ notices' = [e \in News |-> IF e \in (p.items \ knownInboxIds) \intersect Deadline
                                        THEN notices[e] + 1 ELSE notices[e]]
      BY <2>2 DEF InboxAnswered, Applied, FreshOf
    <3>2. Seeded \subseteq knownInboxIds'  BY <3>1 DEF RememberedRaises
    <3>3. notices' \in [News -> Nat]  BY <3>1 DEF RememberedRaises
    <3>4. ASSUME NEW e \in News
          PROVE  /\ e \notin knownInboxIds' => notices'[e] = 0
                 /\ notices'[e] <= IF e \in Seeded THEN 0 ELSE 1
      <4>1. CASE e \in (p.items \ knownInboxIds) \intersect Deadline
        <5>1. notices'[e] = 1 /\ e \in knownInboxIds' /\ e \notin Seeded
          BY <3>1, <4>1 DEF RememberedRaises
        <5> QED  BY <5>1
      <4>2. CASE e \notin (p.items \ knownInboxIds) \intersect Deadline
        <5>1. notices'[e] = notices[e]  BY <3>1, <4>2
        <5> QED  BY <3>1, <5>1 DEF RememberedRaises
      <4> QED  BY <4>1, <4>2
    <3> QED  BY <3>2, <3>3, <3>4 DEF RememberedRaises
  <2>3. \/ UNCHANGED <<knownInboxIds, notices>>
        \/ \E p \in polls : InboxAnswered(p)
    BY DEF InboxNext, NewsComes, NewsGoes, PollInbox, InboxRead, InboxFails
  <2> QED  BY <2>1, <2>2, <2>3
<1> QED  BY <1>2, <1>3

LEMMA ProgressStep == ASSUME ConsoleInv, ProgressNext PROVE ConsoleInv'
<1> USE DEF ConsoleInv
<1>1. UNCHANGED <<knownInboxIds, notices>>
  BY DEF ProgressNext, JobMoves, Ask, ServerStarts, RequestAnswered, RequestFails, PollProgress, ProgressRead,
         ProgressAnswered, ProgressFails, Reloaded, pollVars
<1>2. RememberedRaises'  BY <1>1 DEF RememberedRaises
<1>3. CASE UNCHANGED <<ingest, reloads, lostTrack>> /\ (ingesting => ingesting')
  BY <1>2, <1>3 DEF ProgressIsLive
<1>4. CASE JobMoves \/ ServerStarts \/ PollProgress  BY <1>3, <1>4 DEF JobMoves, ServerStarts, PollProgress
<1>5. ASSUME NEW op \in {"participate", "reindex", "documents"}, Ask(op) PROVE ConsoleInv'
  BY <1>3, <1>5 DEF Ask
<1>6. CASE RequestAnswered  BY <1>3, <1>6 DEF RequestAnswered
<1>7. CASE RequestFails
  BY <1>2, <1>7 DEF RequestFails, ProgressIsLive, Running
<1>8. ASSUME NEW s \in snaps, ProgressRead(s) \/ ProgressFails(s) PROVE ConsoleInv'
  BY <1>3, <1>8 DEF ProgressRead, ProgressFails
<1>9. ASSUME NEW s \in snaps, ProgressAnswered(s) PROVE ConsoleInv'
  <2>1. CASE ~ ingesting  BY <1>3, <1>9, <2>1 DEF ProgressAnswered, Heard
  <2>2. CASE ingesting
    <3>1. ingest' = s.phase /\ (ingesting' <=> s.phase = "running")
      BY <1>9, <2>2 DEF ProgressAnswered, Heard, Running
    <3>2. reloads' \in Nat  BY <1>9, <2>2 DEF ProgressAnswered, Heard
    <3> QED  BY <1>2, <3>1, <3>2 DEF ProgressIsLive
  <2> QED  BY <2>1, <2>2
<1>10. CASE Reloaded  BY <1>2, <1>10 DEF Reloaded, ProgressIsLive
<1> QED  BY <1>4, <1>5, <1>6, <1>7, <1>8, <1>9, <1>10 DEF ProgressNext

LEMMA ConsoleInvHoldsAtFirst == ConsoleInit => ConsoleInv
BY DEF ConsoleInit, ConsoleInv, RememberedRaises, ProgressIsLive

LEMMA ConsoleInvIsInductive == ConsoleInv /\ [ConsoleNext]_consoleVars => ConsoleInv'
<1> SUFFICES ASSUME ConsoleInv, [ConsoleNext]_consoleVars PROVE ConsoleInv'  OBVIOUS
<1>1. CASE UNCHANGED consoleVars
  BY <1>1 DEF consoleVars, pollVars, jobVars, ConsoleInv, RememberedRaises, ProgressIsLive
<1>2. CASE ConsoleNext  BY <1>2, InboxStep, ProgressStep DEF ConsoleNext
<1> QED  BY <1>1, <1>2

\* A deadline raises its toast once, whatever order the polls answer in, and none when
\* the row was there at first (applyInboxItems of SpecialistApp.tsx).
THEOREM DeadlinesAreNoticedOnce == ConsoleSpec => []NoticedOnce
<1>1. ConsoleInv => NoticedOnce  BY DEF ConsoleInv, RememberedRaises, NoticedOnce
<1> QED  BY <1>1, ConsoleInvHoldsAtFirst, ConsoleInvIsInductive, PTL DEF ConsoleSpec

\* A progress that says "running" is followed, so that it will be replaced.
THEOREM ShownProgressIsFollowed == ConsoleSpec => []ProgressIsLive
<1>1. ConsoleInv => ProgressIsLive  BY DEF ConsoleInv
<1> QED  BY <1>1, ConsoleInvHoldsAtFirst, ConsoleInvIsInductive, PTL DEF ConsoleSpec

----------------------------------------------------------------------------
\* The accounts (AccountDirectory). Two administrators at work at once: the lock of
\* replaceStatus is what keeps the console with an administrator, for any number of
\* accounts and requests.

Operations == {"approve", "reject", "revoke", "role"}
Requests ==
    UNION {[pc : {"free"}],
           [pc : {"session"}, who : Accounts],
           [pc : {"cabinet", "make"}, who : Accounts, then : {"session", "free"}],
           [pc : {"look", "lock", "write", "close"}, op : Operations, who : Accounts,
            role : Roles \union {NoRole}]}
Statuses == {"absent", "pending", "active", "rejected", "revoked"}
People == [status : Statuses, role : Roles \union {NoRole}]

DirectoryTypes == accounts \in [Accounts -> People] /\ slot \in [Slots -> Requests]

Writing(d) == slot[d].pc = "write"

\* What a transaction is about to write leaves an administrator, and it is alone.
WritersAreChecked == \A d \in Slots : Writing(d) => HasActiveAdmin(Proposed(slot[d]))
OneWriter == \A d, e \in Slots : Writing(d) /\ Writing(e) => d = e

DirectoryInv == DirectoryTypes /\ AlwaysAnAdmin /\ WritersAreChecked /\ OneWriter

\* A request that is no transaction changes neither the proposals nor their number.
LEMMA AccountsAside ==
    ASSUME DirectoryInv, NEW d \in Slots, NEW r \in Requests, r.pc # "write",
           Goes(d, r), accounts' = accounts
    PROVE  DirectoryInv'
<1>1. slot' \in [Slots -> Requests] /\ slot'[d] = r
    /\ \A e \in Slots \ {d} : slot'[e] = slot[e]
  BY DEF Goes, DirectoryInv, DirectoryTypes
<1>2. \A e \in Slots : slot'[e].pc = "write" => e # d /\ slot'[e] = slot[e]
  BY <1>1
<1>3. ASSUME NEW e \in Slots, slot'[e].pc = "write"
      PROVE  HasActiveAdmin(Proposed(slot[e]))'
  <2>1. slot'[e] = slot[e] /\ Writing(e)  BY <1>2, <1>3 DEF Writing
  <2>2. HasActiveAdmin(Proposed(slot[e]))  BY <2>1 DEF DirectoryInv, WritersAreChecked
  <2> QED  BY <2>1, <2>2 DEF HasActiveAdmin, Proposed
<1> QED
  BY <1>1, <1>2, <1>3 DEF DirectoryInv, DirectoryTypes, AlwaysAnAdmin, HasActiveAdmin,
     WritersAreChecked, OneWriter, Writing

\* An account that signs up is nobody's administrator, and no proposal is made of
\* it: whoever was an administrator in a proposal still is.
LEMMA NewcomersChangeNothing ==
    ASSUME DirectoryTypes, NEW a \in Accounts, accounts[a].status = "absent",
           accounts' = [accounts EXCEPT ![a] = Account("pending", NoRole)]
    PROVE  /\ HasActiveAdmin(accounts) => HasActiveAdmin(accounts)'
           /\ \A r \in Requests : r.pc = "write" /\ HasActiveAdmin(Proposed(r))
                                   => HasActiveAdmin(Proposed(r))'
<1>1. \A b \in Accounts : IsAdmin(accounts[b]) => b # a /\ accounts'[b] = accounts[b]
  BY DEF DirectoryTypes, IsAdmin
<1>2. ASSUME NEW r \in Requests, r.pc = "write", HasActiveAdmin(Proposed(r))
      PROVE  HasActiveAdmin(Proposed(r))'
  <2>1. r \in [pc : {"look", "lock", "write", "close"}, op : Operations, who : Accounts,
               role : Roles \union {NoRole}]
    BY <1>2 DEF Requests
  <2>2. PICK b \in Accounts : IsAdmin(Proposed(r)[b])
    BY <1>2 DEF HasActiveAdmin
  <2>3. CASE b # r.who
    <3>1. Proposed(r)[b] = accounts[b] /\ Proposed(r)'[b] = accounts'[b]
      BY <2>1, <2>3 DEF Proposed, DirectoryTypes
    <3> QED  BY <1>1, <2>2, <3>1 DEF HasActiveAdmin
  <2>4. CASE b = r.who
    <3>1. r.op \in {"approve", "role"}
      <4>1. r.op \in Operations  BY <2>1
      <4>2. r.op = "reject" => ~ IsAdmin(Proposed(r)[b])
        BY <2>1, <2>4 DEF Proposed, DirectoryTypes, IsAdmin, Account
      <4>3. r.op = "revoke" => ~ IsAdmin(Proposed(r)[b])
        BY <2>1, <2>4 DEF Proposed, DirectoryTypes, IsAdmin, Account
      <4> QED  BY <2>2, <4>1, <4>2, <4>3 DEF Operations
    <3>2. Proposed(r)[b] = Account("active", r.role) /\ Proposed(r)'[b] = Account("active", r.role)
      BY <2>1, <2>4, <3>1 DEF Proposed, DirectoryTypes
    <3> QED  BY <2>2, <3>2 DEF HasActiveAdmin
  <2> QED  BY <2>3, <2>4
<1> QED  BY <1>1, <1>2 DEF HasActiveAdmin

\* A transaction that commits makes its proposal true; nobody else is writing.
LEMMA AccountsCommit ==
    ASSUME DirectoryInv, NEW d \in Slots, Write(d)
    PROVE  DirectoryInv'
<1> DEFINE r == slot[d]
<1>1. r \in [pc : {"look", "lock", "write", "close"}, op : Operations, who : Accounts,
             role : Roles \union {NoRole}]
  BY DEF Write, DirectoryInv, DirectoryTypes, Requests
<1>2. Proposed(r) \in [Accounts -> People]
  <2>1. r.op \in Operations /\ r.who \in Accounts /\ accounts[r.who] \in People
    BY <1>1 DEF DirectoryInv, DirectoryTypes
  <2>2. r.op \in {"approve", "role"} => r.role \in Roles \union {NoRole}
    BY <1>1
  <2>3. ASSUME NEW p \in People, Proposed(r) = [accounts EXCEPT ![r.who] = p]
        PROVE  Proposed(r) \in [Accounts -> People]
    BY <2>3 DEF DirectoryInv, DirectoryTypes
  <2>4. CASE r.op \in {"approve", "role"}
    <3>1. Account("active", r.role) \in People  BY <2>2, <2>4 DEF Account, People, Statuses
    <3> QED  BY <2>3, <2>4, <3>1 DEF Proposed
  <2>5. CASE r.op = "reject"
    <3>1. Account("rejected", accounts[r.who].role) \in People  BY <2>1 DEF Account, People, Statuses
    <3> QED  BY <2>3, <2>5, <3>1 DEF Proposed
  <2>6. CASE r.op = "revoke"
    <3>1. Account("revoked", accounts[r.who].role) \in People  BY <2>1 DEF Account, People, Statuses
    <3> QED  BY <2>3, <2>6, <3>1 DEF Proposed
  <2> QED  BY <2>1, <2>4, <2>5, <2>6 DEF Operations
<1>3. /\ accounts' = Proposed(r) /\ HasActiveAdmin(Proposed(r))
      /\ \A e \in Slots \ {d} : ~ Writing(e)
  BY DEF Write, DirectoryInv, WritersAreChecked, OneWriter, Writing
<1>4. /\ slot' \in [Slots -> Requests] /\ slot'[d].pc # "write"
      /\ \A e \in Slots \ {d} : slot'[e] = slot[e]
  <2>1. [r EXCEPT !.pc = "close"] \in Requests /\ [r EXCEPT !.pc = "close"].pc = "close"
    BY <1>1 DEF Requests
  <2>2. Free \in Requests /\ Free.pc = "free"  BY DEF Free, Requests
  <2> QED  BY <2>1, <2>2 DEF Write, Goes, DirectoryInv, DirectoryTypes
<1>5. \A e \in Slots : ~ Writing(e)'  BY <1>3, <1>4 DEF Writing
<1> QED
  BY <1>2, <1>3, <1>4, <1>5 DEF DirectoryInv, DirectoryTypes, AlwaysAnAdmin, WritersAreChecked, OneWriter

\* A request that is begun is no transaction yet.
LEMMA AccountsBeginning ==
    ASSUME DirectoryInv, NEW d \in Slots, NEW r \in Requests, r.pc # "write",
           Takes(d, r), accounts' = accounts
    PROVE  DirectoryInv'
BY AccountsAside DEF Takes

LEMMA AccountsStep ==
    ASSUME DirectoryInv, [AccountsNext]_accountVars
    PROVE  DirectoryInv'
<1>0. CASE UNCHANGED accountVars
  BY <1>0 DEF accountVars, DirectoryInv, DirectoryTypes, AlwaysAnAdmin, WritersAreChecked,
     OneWriter, Writing, HasActiveAdmin, Proposed
<1>free. Free \in Requests /\ Free.pc # "write"  BY DEF Free, Requests
<1>1. ASSUME NEW d \in Slots, NEW a \in Accounts, SignUp(d, a)  PROVE DirectoryInv'
  <2> DEFINE q == [pc |-> "cabinet", who |-> a, then |-> "session"]
  <2>1. q \in Requests /\ q.pc # "write"  BY DEF Requests
  <2>2. CASE accounts[a].status # "absent"
    BY <1>1, <1>free, <2>2, AccountsBeginning DEF SignUp
  <2>3. CASE accounts[a].status = "absent"
    <3>1. /\ Goes(d, q) /\ accounts' = [accounts EXCEPT ![a] = Account("pending", NoRole)]
      BY <1>1, <2>3 DEF SignUp, Takes
    <3>2. slot' \in [Slots -> Requests] /\ \A e \in Slots : Writing(e)' => slot'[e] = slot[e]
      BY <2>1, <3>1 DEF Goes, DirectoryInv, DirectoryTypes, Writing
    <3>3. accounts' \in [Accounts -> People]
      BY <3>1 DEF DirectoryInv, DirectoryTypes, Account, People, Statuses
    <3>4. /\ HasActiveAdmin(accounts)'
          /\ \A e \in Slots : Writing(e) => HasActiveAdmin(Proposed(slot[e]))
          /\ \A e \in Slots : slot[e] \in Requests
          /\ DirectoryTypes
      BY <2>3, <3>1, NewcomersChangeNothing DEF DirectoryInv, AlwaysAnAdmin, WritersAreChecked, DirectoryTypes
    <3>5. \A x \in Requests : x.pc = "write" /\ HasActiveAdmin(Proposed(x)) => HasActiveAdmin(Proposed(x))'
      BY <2>3, <3>1, <3>4, NewcomersChangeNothing
    <3>6. ASSUME NEW e \in Slots, Writing(e)'  PROVE HasActiveAdmin(Proposed(slot[e]))'
      <4>1. slot'[e] = slot[e] /\ Writing(e)  BY <3>2, <3>6 DEF Writing
      <4>2. HasActiveAdmin(Proposed(slot[e]))  BY <3>4, <4>1
      <4> DEFINE x == slot[e]
      <4>3. x \in Requests /\ x.pc = "write"  BY <3>4, <4>1 DEF Writing
      <4> QED  BY <3>5, <4>1, <4>2, <4>3 DEF HasActiveAdmin, Proposed
    <3> QED
      BY <3>2, <3>3, <3>4, <3>6 DEF DirectoryInv, DirectoryTypes, AlwaysAnAdmin, WritersAreChecked,
         OneWriter, Writing
  <2> QED  BY <2>2, <2>3
<1>2. ASSUME NEW d \in Slots, NEW a \in Accounts, SignIn(d, a) \/ Enter(d, a)  PROVE DirectoryInv'
  <2>1. [pc |-> "session", who |-> a] \in Requests /\ [pc |-> "session", who |-> a].pc # "write"
    BY DEF Requests
  <2>2. [pc |-> "cabinet", who |-> a, then |-> "free"] \in Requests
        /\ [pc |-> "cabinet", who |-> a, then |-> "free"].pc # "write"
    BY DEF Requests
  <2> QED  BY <1>2, <2>1, <2>2, AccountsBeginning DEF SignIn, Enter
<1>3. ASSUME NEW d \in Slots, NEW actor \in Accounts, NEW a \in Accounts, NEW op \in Operations,
             NEW role \in Roles \union {NoRole}, Administer(d, actor, op, a, role)
      PROVE  DirectoryInv'
  <2> DEFINE q == [pc |-> IF op = "role" THEN "look" ELSE "lock", op |-> op, who |-> a, role |-> role]
  <2>1. q \in Requests /\ q.pc # "write"  BY DEF Requests
  <2> QED  BY <1>3, <2>1, AccountsBeginning DEF Administer
<1>4. ASSUME NEW d \in Slots, OpenSession(d) \/ SlotFails(d)  PROVE DirectoryInv'
  BY <1>4, <1>free, AccountsAside DEF OpenSession, SlotFails
<1>5. ASSUME NEW d \in Slots, LookForCabinet(d) \/ MakeCabinet(d)  PROVE DirectoryInv'
  <2> DEFINE r == slot[d]
  <2>1. r \in [pc : {"cabinet", "make"}, who : Accounts, then : {"session", "free"}]
    BY <1>5 DEF LookForCabinet, MakeCabinet, DirectoryInv, DirectoryTypes, Requests
  <2>2. PICK q \in {[r EXCEPT !.pc = "make"], [pc |-> "session", who |-> r.who], Free} : Goes(d, q)
    BY <1>5 DEF LookForCabinet, MakeCabinet
  <2>3. q \in Requests /\ q.pc # "write"  BY <2>1, <2>2, <1>free DEF Requests
  <2>4. accounts' = accounts  BY <1>5 DEF LookForCabinet, MakeCabinet
  <2> QED  BY <2>2, <2>3, <2>4, AccountsAside
<1>6. ASSUME NEW d \in Slots, LookAtStatus(d) \/ CloseSessions(d)  PROVE DirectoryInv'
  <2> DEFINE r == slot[d]
  <2>1. r \in [pc : {"look", "lock", "write", "close"}, op : Operations, who : Accounts,
               role : Roles \union {NoRole}]
    BY <1>6 DEF LookAtStatus, CloseSessions, DirectoryInv, DirectoryTypes, Requests
  <2>2. PICK q \in {[r EXCEPT !.pc = "lock"], Free} : Goes(d, q)
    BY <1>6 DEF LookAtStatus, CloseSessions
  <2>3. q \in Requests /\ q.pc # "write"  BY <2>1, <2>2, <1>free DEF Requests
  <2>4. accounts' = accounts  BY <1>6 DEF LookAtStatus, CloseSessions
  <2> QED  BY <2>2, <2>3, <2>4, AccountsAside
<1>7. ASSUME NEW d \in Slots, Lock(d)  PROVE DirectoryInv'
  <2> DEFINE r == slot[d]
  <2>1. r \in [pc : {"look", "lock", "write", "close"}, op : Operations, who : Accounts,
               role : Roles \union {NoRole}]
    BY <1>7 DEF Lock, DirectoryInv, DirectoryTypes, Requests
  <2>2. accounts' = accounts  BY <1>7 DEF Lock
  <2>3. CASE ~ HasActiveAdmin(Proposed(r))
    BY <1>7, <1>free, <2>2, <2>3, AccountsAside DEF Lock
  <2>4. CASE HasActiveAdmin(Proposed(r))
    <3> DEFINE q == [r EXCEPT !.pc = "write"]
    <3>1. q \in Requests /\ q.op = r.op /\ q.who = r.who /\ q.role = r.role
      BY <2>1 DEF Requests
    <3>2. HasActiveAdmin(Proposed(q))  BY <2>4, <3>1 DEF Proposed
    <3>3. Goes(d, q) /\ \A e \in Slots : ~ Writing(e)
      BY <1>7, <2>4 DEF Lock, Writing
    <3>4. slot' \in [Slots -> Requests] /\ slot'[d] = q /\ \A e \in Slots \ {d} : slot'[e] = slot[e]
      BY <3>1, <3>3 DEF Goes, DirectoryInv, DirectoryTypes
    <3>5. HasActiveAdmin(Proposed(slot[d]))'
      BY <2>2, <3>2, <3>4 DEF HasActiveAdmin, Proposed
    <3>6. \A e \in Slots : Writing(e)' => e = d  BY <3>3, <3>4 DEF Writing
    <3> QED
      BY <2>2, <3>4, <3>5, <3>6 DEF DirectoryInv, DirectoryTypes, AlwaysAnAdmin, HasActiveAdmin,
         WritersAreChecked, OneWriter
  <2> QED  BY <2>3, <2>4
<1>8. ASSUME NEW a \in Accounts, SessionEnds(a)  PROVE DirectoryInv'
  BY <1>8 DEF SessionEnds, DirectoryInv, DirectoryTypes, AlwaysAnAdmin, WritersAreChecked,
     OneWriter, Writing, HasActiveAdmin, Proposed
<1> QED
  BY <1>0, <1>1, <1>2, <1>3, <1>4, <1>5, <1>6, <1>7, <1>8, AccountsCommit DEF AccountsNext, Operations

LEMMA AccountsInvHoldsAtFirst == AccountsInit => DirectoryInv
<1>1. ASSUME AccountsInit  PROVE DirectoryTypes
    BY <1>1, AccountsAssumption DEF AccountsInit, DirectoryTypes, People, Statuses, Requests, Account, Free
<1>2. ASSUME AccountsInit  PROVE IsAdmin(accounts[Root]) /\ \A d \in Slots : ~ Writing(d)
    BY <1>2, AccountsAssumption DEF AccountsInit, IsAdmin, Account, Writing, Free
<1> QED  BY <1>1, <1>2, AccountsAssumption DEF DirectoryInv, AlwaysAnAdmin, HasActiveAdmin, WritersAreChecked, OneWriter

\* Whatever administrators do to each other at once (replaceStatus of
\* postgres-directory.ts), one of them stays active.
THEOREM ThereIsAlwaysAnAdmin == AccountsSpec => []AlwaysAnAdmin
<1>1. AccountsInit => DirectoryInv  BY AccountsInvHoldsAtFirst
<1>2. DirectoryInv /\ [AccountsNext]_accountVars => DirectoryInv'  BY AccountsStep
<1>3. DirectoryInv => AlwaysAnAdmin  BY DEF DirectoryInv
<1> QED  BY <1>1, <1>2, <1>3, PTL DEF AccountsSpec

----------------------------------------------------------------------------
\* The search pane (SearchPane).

PaneRequests == {"search", "cancel", "clear", "run", "list"} \union Decided
Runs == {"none", "scoring", "done", "cancelled"}
CallRows == [n : Nat, op : PaneRequests, gen : Nat, card : PaneCards \union {NoCard} \union Pages,
             pc : {"select", "sent", "read"}, items : SUBSET PaneCards, run : Runs]

\* A call whose answer frees the pane.
HoldsPane(r) == (r.op = "search" /\ r.gen = searchGeneration) \/ r.op \in Decided \union {"clear"}

PaneRows ==
    /\ called \in Nat /\ searchGeneration \in Nat
    /\ calls \subseteq CallRows
    /\ \A r \in calls : r.n < called /\ r.gen <= searchGeneration
    /\ \A r \in calls : r.op \in Decided => r.card \in PaneCards

PaneState ==
    /\ triage \in [PaneCards -> {"none"} \union Decided]
    /\ screen \in [PaneCards -> {"absent", "queue"} \union Decided]
    /\ {serverRun, searchRun} \subseteq Runs
    /\ {busy, hasMore} \subseteq BOOLEAN /\ busyKind \in {"none"} \union Decided
    /\ overlapped \in BOOLEAN

\* No two calls have the same number, and no two of them hold the pane.
CallsApart == \A r, s \in calls : r.n = s.n => r = s
OneHoldsPane == ~ overlapped => \A r, s \in calls : HoldsPane(r) /\ HoldsPane(s) => r = s

PaneInv == PaneRows /\ PaneState /\ CallsApart /\ OneHoldsPane /\ BusyIsTrue

\* The calls after a step: some are over or go on under their number, others are new.
LEMMA CallsStep ==
    ASSUME PaneRows, CallsApart, NEW D \in SUBSET calls, NEW S \in SUBSET CallRows,
           calls' = (calls \ D) \union S,
           called' \in Nat, called <= called', searchGeneration' \in Nat, searchGeneration <= searchGeneration',
           \A s \in S : /\ s.n < called' /\ s.gen <= searchGeneration'
                        /\ s.op \in Decided => s.card \in PaneCards
                        /\ s.n >= called \/ \E r \in D : s.n = r.n,
           \A s, t \in S : s.n = t.n => s = t
    PROVE  PaneRows' /\ CallsApart'
<1>1. \A r \in calls : r \in CallRows /\ r.n \in Nat /\ r.gen \in Nat  BY DEF PaneRows, CallRows
<1>2. \A s \in S : s.n \in Nat  BY DEF CallRows
<1>3. called \in Nat /\ searchGeneration \in Nat  BY DEF PaneRows
<1>4. ASSUME NEW r \in calls'
      PROVE  /\ r \in CallRows /\ r.n < called' /\ r.gen <= searchGeneration'
             /\ r.op \in Decided => r.card \in PaneCards
  <2>1. CASE r \in S  BY <2>1
  <2>2. CASE r \in calls
    <3>1. r.n < called /\ r.gen <= searchGeneration  BY <2>2 DEF PaneRows
    <3> QED  BY <1>1, <1>3, <2>2, <3>1 DEF PaneRows
  <2> QED  BY <2>1, <2>2
<1>5. PaneRows'  BY <1>4 DEF PaneRows, CallRows
<1>6. ASSUME NEW r \in calls \ D, NEW s \in S PROVE r.n # s.n
  <2>1. r.n < called  BY <1>6 DEF PaneRows
  <2>2. CASE s.n >= called  BY <1>1, <1>2, <1>3, <2>1, <2>2
  <2>3. ASSUME NEW d \in D, s.n = d.n PROVE r.n # s.n  BY <2>3 DEF CallsApart
  <2> QED  BY <2>2, <2>3
<1>7. CallsApart'
  <2> SUFFICES ASSUME NEW r \in calls', NEW s \in calls', r.n = s.n PROVE r = s  BY DEF CallsApart
  <2>1. CASE r \in calls \ D /\ s \in calls \ D  BY <2>1 DEF CallsApart
  <2>2. CASE r \in S /\ s \in S  BY <2>2
  <2> QED  BY <1>6, <2>1, <2>2
<1> QED  BY <1>5, <1>7

\* What has to be shown of the screen's hold, once the calls are known.
HeldAsShown == OneHoldsPane /\ BusyIsTrue

LEMMA BusyIsHeld == BusyIsTrue <=> (~ overlapped => (busy <=> \E r \in calls : HoldsPane(r)))
BY DEF BusyIsTrue, HoldsPane

\* A call goes on under its number, with calls beside it that hold nothing.
LEMMA CallGoesOn ==
    ASSUME PaneRows, CallsApart, OneHoldsPane, BusyIsTrue,
           NEW r \in calls, NEW s \in CallRows, s.n = r.n, s.op = r.op, s.gen = r.gen, s.card = r.card,
           calls' = (calls \ {r}) \union {s}, UNCHANGED <<called, searchGeneration, busy, overlapped>>
    PROVE  PaneRows' /\ CallsApart' /\ OneHoldsPane' /\ BusyIsTrue'
<1>1. PaneRows' /\ CallsApart'
  <2>1. s.n < called /\ s.gen <= searchGeneration /\ (s.op \in Decided => s.card \in PaneCards)
      /\ called \in Nat /\ searchGeneration \in Nat
    BY DEF PaneRows
  <2> DEFINE D == {r}
             S == {s}
  <2>2. D \in SUBSET calls /\ S \in SUBSET CallRows /\ calls' = (calls \ D) \union S  OBVIOUS
  <2>3. \A x \in S : /\ x.n < called' /\ x.gen <= searchGeneration'
                     /\ x.op \in Decided => x.card \in PaneCards
                     /\ x.n >= called \/ \E y \in D : x.n = y.n
    BY <2>1
  <2>4. \A x, y \in S : x.n = y.n => x = y  OBVIOUS
  <2>5. /\ called' \in Nat /\ called <= called'
        /\ searchGeneration' \in Nat /\ searchGeneration <= searchGeneration'
    BY <2>1
  <2> HIDE DEF D, S
  <2> QED  BY <2>2, <2>3, <2>4, <2>5, CallsStep
<1>2. HoldsPane(s)' = HoldsPane(r)  BY DEF HoldsPane
<1>3. ASSUME NEW c \in calls PROVE HoldsPane(c)' = HoldsPane(c)  BY DEF HoldsPane
<1>4. OneHoldsPane'
  BY <1>2, <1>3 DEF OneHoldsPane
<1>5. (\E c \in calls' : HoldsPane(c)') <=> (\E c \in calls : HoldsPane(c))
  BY <1>2, <1>3
<1>6. BusyIsTrue'
  <2>1. (BusyIsTrue <=> (~ overlapped => (busy <=> \E c \in calls : HoldsPane(c))))'
    BY DEF BusyIsTrue, HoldsPane
  <2> QED  BY <1>5, <2>1, BusyIsHeld
<1> QED  BY <1>1, <1>4, <1>6

\* A call is over: it frees the pane if it held it. Calls that hold nothing come.
LEMMA CallIsOver ==
    ASSUME PaneRows, CallsApart, OneHoldsPane, BusyIsTrue,
           NEW r \in calls, NEW S \in SUBSET CallRows,
           calls' = (calls \ {r}) \union S,
           called' \in Nat, called <= called',
           \A s \in S : s.op \in {"list", "run", "cancel"} /\ called <= s.n /\ s.n < called' /\ s.gen <= searchGeneration,
           \A s, t \in S : s.n = t.n => s = t,
           UNCHANGED <<searchGeneration, overlapped>>,
           IF HoldsPane(r) THEN busy' = FALSE ELSE busy' = busy
    PROVE  PaneRows' /\ CallsApart' /\ OneHoldsPane' /\ BusyIsTrue'
<1>1. searchGeneration \in Nat /\ called \in Nat  BY DEF PaneRows
<1>2. \A s \in S : s.n \in Nat /\ s.op \notin Decided  BY DEF CallRows, Decided
<1>3. PaneRows' /\ CallsApart'
  <2> DEFINE D == {r}
  <2>1. D \in SUBSET calls /\ calls' = (calls \ D) \union S  OBVIOUS
  <2>2. \A s \in S : /\ s.n < called' /\ s.gen <= searchGeneration'
                     /\ s.op \in Decided => s.card \in PaneCards
                     /\ s.n >= called \/ \E y \in D : s.n = y.n
    BY <1>1, <1>2
  <2>3. searchGeneration' \in Nat /\ searchGeneration <= searchGeneration'  BY <1>1
  <2>4. S \in SUBSET CallRows /\ called' \in Nat /\ called <= called'  OBVIOUS
  <2>5. \A s, t \in S : s.n = t.n => s = t  OBVIOUS
  <2> HIDE DEF D
  <2> QED  BY ONLY PaneRows, CallsApart, <2>1, <2>2, <2>3, <2>4, <2>5, CallsStep
<1>4. ASSUME NEW s \in S PROVE ~ HoldsPane(s)'  BY DEF HoldsPane, Decided
<1>5. ASSUME NEW c \in calls PROVE HoldsPane(c)' = HoldsPane(c)  BY DEF HoldsPane
<1>6. OneHoldsPane'  BY <1>4, <1>5 DEF OneHoldsPane
<1>7. ~ overlapped => (busy' <=> \E c \in calls' : HoldsPane(c)')
  <2>1. CASE HoldsPane(r)
    <3>1. ~ overlapped => \A c \in calls \ {r} : ~ HoldsPane(c)  BY <2>1 DEF OneHoldsPane
    <3> QED  BY <1>4, <1>5, <2>1, <3>1
  <2>2. CASE ~ HoldsPane(r)
    <3>1. (\E c \in calls' : HoldsPane(c)') <=> (\E c \in calls : HoldsPane(c))  BY <1>4, <1>5, <2>2
    <3> QED  BY <2>2, <3>1, BusyIsHeld
  <2> QED  BY <2>1, <2>2
<1>8. BusyIsTrue'
  <2>1. (BusyIsTrue <=> (~ overlapped => (busy <=> \E c \in calls : HoldsPane(c))))'
    BY DEF BusyIsTrue, HoldsPane
  <2> QED  BY <1>7, <2>1
<1> QED  BY <1>3, <1>6, <1>8

\* A call that frees nothing and holds nothing is begun, or several.
LEMMA CallsBegin ==
    ASSUME PaneRows, CallsApart, OneHoldsPane, BusyIsTrue,
           NEW S \in SUBSET CallRows, calls' = calls \union S,
           called' \in Nat, called <= called',
           \A s \in S : s.op \in {"list", "run", "cancel"} /\ called <= s.n /\ s.n < called' /\ s.gen <= searchGeneration,
           \A s, t \in S : s.n = t.n => s = t,
           UNCHANGED <<searchGeneration, overlapped, busy>>
    PROVE  PaneRows' /\ CallsApart' /\ OneHoldsPane' /\ BusyIsTrue'
<1>1. searchGeneration \in Nat /\ called \in Nat  BY DEF PaneRows
<1>2. \A s \in S : s.n \in Nat /\ s.op \notin Decided  BY DEF CallRows, Decided
<1>3. PaneRows' /\ CallsApart'
  <2> DEFINE D == {}
  <2>1. D \in SUBSET calls /\ calls' = (calls \ D) \union S  OBVIOUS
  <2>2. \A s \in S : /\ s.n < called' /\ s.gen <= searchGeneration'
                     /\ s.op \in Decided => s.card \in PaneCards
                     /\ s.n >= called \/ \E y \in D : s.n = y.n
    BY <1>1, <1>2
  <2>3. searchGeneration' \in Nat /\ searchGeneration <= searchGeneration'  BY <1>1
  <2>4. S \in SUBSET CallRows /\ called' \in Nat /\ called <= called'  OBVIOUS
  <2>5. \A s, t \in S : s.n = t.n => s = t  OBVIOUS
  <2> HIDE DEF D
  <2> QED  BY ONLY PaneRows, CallsApart, <2>1, <2>2, <2>3, <2>4, <2>5, CallsStep
<1>4. ASSUME NEW s \in S PROVE ~ HoldsPane(s)'  BY DEF HoldsPane, Decided
<1>5. ASSUME NEW c \in calls PROVE HoldsPane(c)' = HoldsPane(c)  BY DEF HoldsPane
<1>6. OneHoldsPane'  BY <1>4, <1>5 DEF OneHoldsPane
<1>7. (\E c \in calls' : HoldsPane(c)') <=> (\E c \in calls : HoldsPane(c))  BY <1>4, <1>5
<1>8. (BusyIsTrue <=> (~ overlapped => (busy <=> \E c \in calls : HoldsPane(c))))'
  BY DEF BusyIsTrue, HoldsPane
<1> QED  BY <1>3, <1>6, <1>7, <1>8, BusyIsHeld

\* A free pane is taken by one call: a listing of its own, a decision, a clearing.
LEMMA PaneIsTaken ==
    ASSUME PaneRows, CallsApart, OneHoldsPane, BusyIsTrue, ~ busy,
           NEW s \in CallRows, calls' = calls \union {s}, s.n = called, called' = called + 1,
           s.op \in Decided => s.card \in PaneCards, s.gen = searchGeneration',
           \/ s.op \in Decided \union {"clear"} /\ searchGeneration' = searchGeneration
           \/ s.op = "search" /\ searchGeneration' = searchGeneration + 1,
           busy' = TRUE, UNCHANGED overlapped
    PROVE  PaneRows' /\ CallsApart' /\ OneHoldsPane' /\ BusyIsTrue'
<1>1. searchGeneration \in Nat /\ called \in Nat /\ called' \in Nat /\ called <= called' /\ called < called'
  BY DEF PaneRows
<1>2. searchGeneration' \in Nat /\ searchGeneration <= searchGeneration'  BY <1>1
<1>3. PaneRows' /\ CallsApart'
  <2> DEFINE D == {}
             S == {s}
  <2>1. D \in SUBSET calls /\ S \in SUBSET CallRows /\ calls' = (calls \ D) \union S  OBVIOUS
  <2>2. \A x \in S : /\ x.n < called' /\ x.gen <= searchGeneration'
                     /\ x.op \in Decided => x.card \in PaneCards
                     /\ x.n >= called \/ \E y \in D : x.n = y.n
    BY <1>1, <1>2
  <2>3. \A x, y \in S : x.n = y.n => x = y  OBVIOUS
  <2> HIDE DEF D, S
  <2> QED  BY <1>1, <1>2, <2>1, <2>2, <2>3, CallsStep
<1>4. HoldsPane(s)'  BY DEF HoldsPane
<1>5. ASSUME NEW c \in calls, ~ overlapped PROVE ~ HoldsPane(c)'
  <2>1. ~ HoldsPane(c)  BY <1>5, BusyIsHeld
  <2>2. c.gen \in Nat /\ c.gen <= searchGeneration  BY DEF PaneRows, CallRows
  <2>3. searchGeneration' = searchGeneration \/ c.gen # searchGeneration'  BY <1>1, <2>2
  <2> QED  BY <2>1, <2>3 DEF HoldsPane
<1>6. OneHoldsPane'  BY <1>5 DEF OneHoldsPane
<1>7. (BusyIsTrue <=> (~ overlapped => (busy <=> \E c \in calls : HoldsPane(c))))'
  BY DEF BusyIsTrue, HoldsPane
<1> QED  BY <1>3, <1>4, <1>6, <1>7

\* What is on screen and at the server after a step.
LEMMA ServerAnswersStep == ASSUME PaneInv, NEW r \in calls, ServerAnswers(r) PROVE PaneInv'
<1> USE DEF PaneInv
<1> DEFINE run == CASE r.op = "search" -> "scoring"
                    [] r.op \in {"cancel", "clear"} /\ serverRun = "scoring" -> "cancelled"
                    [] OTHER -> serverRun
           s == [r EXCEPT !.pc = "read", !.items = Queue, !.run = run]
<1>1. r \in CallRows /\ Queue \in SUBSET PaneCards /\ run \in Runs
  BY DEF PaneRows, Queue, PaneState, Runs
<1>2. s \in CallRows /\ s.n = r.n /\ s.op = r.op /\ s.gen = r.gen /\ s.card = r.card
  BY <1>1 DEF CallRows
<1>3. /\ calls' = (calls \ {r}) \union {s} /\ serverRun' = run
      /\ UNCHANGED <<called, searchGeneration, busy, overlapped, screenVars>>
  BY DEF ServerAnswers, Becomes, screenVars
<1>4. triage' \in [PaneCards -> {"none"} \union Decided]
  <2>1. r.op \in Decided => r.card \in PaneCards  BY DEF PaneRows
  <2>2. CASE r.op \in Decided  BY <2>1, <2>2 DEF ServerAnswers, PaneState, Decided
  <2>3. CASE r.op = "clear"  BY <2>3 DEF ServerAnswers, PaneState, Decided, Queue
  <2>4. CASE r.op \notin Decided /\ r.op # "clear"  BY <2>4 DEF ServerAnswers, PaneState
  <2> QED  BY <2>2, <2>3, <2>4
<1> HIDE DEF s, run
<1>5. PaneState'  BY <1>1, <1>3, <1>4 DEF PaneState, screenVars
<1>6. PaneRows' /\ CallsApart' /\ OneHoldsPane' /\ BusyIsTrue'
  BY <1>2, <1>3, CallGoesOn
<1> QED  BY <1>5, <1>6

LEMMA PaneBeginsStep ==
    ASSUME PaneInv,
           \/ \E p \in Pages : Search(p)
           \/ \E c \in PaneCards, kind \in Decided : DecideCard(c, kind)
           \/ Clear
    PROVE  PaneInv'
<1> USE DEF PaneInv
<1>0. called \in Nat /\ searchGeneration \in Nat  BY DEF PaneRows
<1>1. ASSUME NEW p \in Pages, Search(p) PROVE PaneInv'
  <2> DEFINE s == [Call("search", searchGeneration + 1, p) EXCEPT !.pc = "select"]
  <2>1. s \in CallRows /\ s.n = called /\ s.op = "search" /\ s.gen = searchGeneration + 1
    BY <1>0 DEF Call, CallRows, PaneRequests, Runs
  <2>2. Cardinality({s}) = 1  BY FS_Singleton
  <2>3. calls' = calls \union {s} /\ called' = called + 1 /\ searchGeneration' = searchGeneration + 1
      /\ busy' = TRUE /\ busyKind' = "none"
      /\ UNCHANGED <<triage, serverRun, screen, searchRun, hasMore, paneFaults, overlapped>> /\ ~ busy
    BY <1>1, <2>2 DEF Search, Sends
  <2> HIDE DEF s
  <2>4. PaneRows' /\ CallsApart' /\ OneHoldsPane' /\ BusyIsTrue'
    <3>1. s.op \notin Decided  BY <2>1 DEF Decided
    <3> QED  BY <2>1, <2>3, <3>1, PaneIsTaken
  <2>5. PaneState'  BY <2>3 DEF PaneState
  <2> QED  BY <2>4, <2>5
<1>2. ASSUME NEW c \in PaneCards, NEW kind \in Decided, DecideCard(c, kind) PROVE PaneInv'
  <2> DEFINE s == Call(kind, searchGeneration, c)
  <2>1. s \in CallRows /\ s.n = called /\ s.op = kind /\ s.gen = searchGeneration /\ s.card = c
    BY <1>0 DEF Call, CallRows, PaneRequests, Runs
  <2>2. Cardinality({s}) = 1  BY FS_Singleton
  <2>3. calls' = calls \union {s} /\ called' = called + 1
      /\ busy' = TRUE /\ busyKind' = kind /\ ~ busy
      /\ UNCHANGED <<triage, serverRun, screen, searchRun, hasMore, searchGeneration, paneFaults, overlapped>>
    BY <1>2, <2>2 DEF DecideCard, Sends
  <2> HIDE DEF s
  <2>4. PaneRows' /\ CallsApart' /\ OneHoldsPane' /\ BusyIsTrue'
    BY <2>1, <2>3, PaneIsTaken
  <2>5. PaneState'  BY <2>3 DEF PaneState
  <2> QED  BY <2>4, <2>5
<1>3. CASE Clear
  <2> DEFINE s == Call("clear", searchGeneration, NoCard)
  <2>1. s \in CallRows /\ s.n = called /\ s.op = "clear" /\ s.gen = searchGeneration
    BY <1>0 DEF Call, CallRows, PaneRequests, Runs
  <2>2. Cardinality({s}) = 1  BY FS_Singleton
  <2>3. calls' = calls \union {s} /\ called' = called + 1 /\ busy' = TRUE /\ ~ busy
      /\ UNCHANGED <<triage, serverRun, screen, searchRun, busyKind, hasMore, searchGeneration, paneFaults, overlapped>>
    BY <1>3, <2>2 DEF Clear, Sends
  <2> HIDE DEF s
  <2>4. PaneRows' /\ CallsApart' /\ OneHoldsPane' /\ BusyIsTrue'
    <3>1. s.op \notin Decided  BY <2>1 DEF Decided
    <3> QED  BY <2>1, <2>3, <3>1, PaneIsTaken
  <2>5. PaneState'  BY <2>3 DEF PaneState
  <2> QED  BY <2>4, <2>5
<1> QED  BY <1>1, <1>2, <1>3

LEMMA SelectedStep == ASSUME PaneInv, NEW r \in calls, Selected(r) PROVE PaneInv'
<1> USE DEF PaneInv
<1> DEFINE s == [r EXCEPT !.pc = "sent"]
<1>1. s \in CallRows /\ s.n = r.n /\ s.op = r.op /\ s.gen = r.gen /\ s.card = r.card
  BY DEF PaneRows, CallRows
<1>2. PaneState'  BY DEF Selected, PaneState, QueueMerged, Queue, Decided, Runs
<1>3. calls' = (calls \ {r}) \union {s} /\ UNCHANGED <<called, searchGeneration, busy, overlapped>>
  BY DEF Selected, Becomes
<1> HIDE DEF s
<1> QED  BY <1>1, <1>2, <1>3, CallGoesOn

\* Calls with an answer, and those that fail.
LEMMA CallEnds ==
    ASSUME PaneInv, NEW r \in calls, calls' = calls \ {r},
           UNCHANGED <<called, searchGeneration, overlapped>>, PaneState',
           IF HoldsPane(r) THEN busy' = FALSE ELSE busy' = busy
    PROVE  PaneInv'
<1> USE DEF PaneInv
<1> DEFINE S == {}
<1>1. S \in SUBSET CallRows /\ calls' = (calls \ {r}) \union S  OBVIOUS
<1>2. called' \in Nat /\ called <= called'  BY DEF PaneRows
<1>3. /\ \A s \in S : s.op \in {"list", "run", "cancel"} /\ called <= s.n /\ s.n < called' /\ s.gen <= searchGeneration
      /\ \A s, t \in S : s.n = t.n => s = t
  OBVIOUS
<1> HIDE DEF S
<1> QED  BY <1>1, <1>2, <1>3, CallIsOver

\* The call is over and the queue is asked for in its wake.
LEMMA CallAsksOn ==
    ASSUME PaneInv, NEW r \in calls, ~ HoldsPane(r),
           calls' = (calls \ {r}) \union {Call("list", r.gen, NoCard)}, called' = called + 1,
           UNCHANGED <<searchGeneration, overlapped, busy>>, PaneState'
    PROVE  PaneInv'
<1> USE DEF PaneInv
<1> DEFINE s == Call("list", r.gen, NoCard)
           S == {s}
<1>1. s \in CallRows /\ s.n = called /\ s.op = "list" /\ s.gen = r.gen
  BY DEF PaneRows, CallRows, PaneRequests, Runs, Call
<1>2. S \in SUBSET CallRows /\ calls' = (calls \ {r}) \union S  BY <1>1
<1>3. called \in Nat /\ called' \in Nat /\ called <= called' /\ called < called' /\ r.gen <= searchGeneration
  BY DEF PaneRows
<1>4. /\ \A x \in S : x.op \in {"list", "run", "cancel"} /\ called <= x.n /\ x.n < called' /\ x.gen <= searchGeneration
      /\ \A x, y \in S : x.n = y.n => x = y
  BY <1>1, <1>3
<1> HIDE DEF s, S
<1> QED  BY <1>2, <1>3, <1>4, CallIsOver

LEMMA PaneAnswersStep ==
    ASSUME PaneInv, NEW r \in calls,
           \/ Listed(r) \/ Cancelled(r) \/ DecideAnswered(r) \/ Cleared(r)
           \/ RunHeard(r) \/ QueueHeard(r) \/ CallFails(r)
    PROVE  PaneInv'
<1>1. r \in CallRows /\ r.run \in Runs /\ r.items \in SUBSET PaneCards /\ (r.op \in Decided => r.card \in PaneCards)
  BY DEF PaneInv, PaneRows, CallRows
<1>2. PaneState /\ busy \in BOOLEAN  BY DEF PaneInv, PaneState
<1>3. CASE Listed(r)
  <2>1. PaneState'
    <3>1. screen' \in [PaneCards -> {"absent", "queue"} \union Decided]
      BY <1>2, <1>3 DEF Listed, ListingMerged, PaneState, Decided
    <3>2. hasMore' \in BOOLEAN /\ busy' \in BOOLEAN
      BY <1>2, <1>3 DEF Listed, Release, PaneState
    <3> QED  BY <1>1, <1>2, <1>3, <3>1, <3>2 DEF Listed, PaneState
  <2>2. HoldsPane(r) <=> r.gen = searchGeneration  BY <1>3 DEF Listed, HoldsPane, Decided
  <2> QED  BY <1>3, <2>1, <2>2, CallEnds DEF Listed, Release, Gone
<1>4. CASE Cancelled(r)
  <2>1. PaneState'  BY <1>1, <1>2, <1>4 DEF Cancelled, PaneState
  <2>2. ~ HoldsPane(r)  BY <1>4 DEF Cancelled, HoldsPane, Decided
  <2> QED  BY <1>4, <2>1, <2>2, CallAsksOn DEF Cancelled
<1>5. CASE DecideAnswered(r)
  <2>1. PaneState'  BY <1>1, <1>2, <1>5 DEF DecideAnswered, PaneState, Decided
  <2>2. HoldsPane(r)  BY <1>5 DEF DecideAnswered, HoldsPane
  <2> QED  BY <1>5, <2>1, <2>2, CallEnds DEF DecideAnswered, Gone
<1>6. CASE Cleared(r)
  <2>1. PaneState'  BY <1>1, <1>2, <1>6 DEF Cleared, PaneState, Decided
  <2>2. HoldsPane(r)  BY <1>6 DEF Cleared, HoldsPane
  <2> QED  BY <1>6, <2>1, <2>2, CallEnds DEF Cleared, Gone
<1>7. CASE RunHeard(r)
  <2>1. PaneState'  BY <1>1, <1>2, <1>7 DEF RunHeard, PaneState
  <2>2. ~ HoldsPane(r)  BY <1>7 DEF RunHeard, HoldsPane, Decided
  <2>3. CASE r.run = "scoring"
    BY <1>7, <2>1, <2>2, <2>3, CallEnds DEF RunHeard, Gone
  <2>4. CASE r.run # "scoring"
    BY <1>7, <2>1, <2>2, <2>4, CallAsksOn DEF RunHeard
  <2> QED  BY <2>3, <2>4
<1>8. CASE QueueHeard(r)
  <2>1. PaneState'  BY <1>1, <1>2, <1>8 DEF QueueHeard, QueueMerged, PaneState, Decided
  <2>2. ~ HoldsPane(r)  BY <1>8 DEF QueueHeard, HoldsPane, Decided
  <2> QED  BY <1>8, <2>1, <2>2, CallEnds DEF QueueHeard, Gone
<1>9. CASE CallFails(r)
  <2>0. /\ calls' = calls \ {r}
        /\ UNCHANGED <<triage, serverRun, screen, searchRun, hasMore, searchGeneration, called, overlapped>>
    BY <1>9 DEF CallFails, Gone
  <2>1. /\ IF HoldsPane(r) THEN busy' = FALSE ELSE busy' = busy
        /\ busyKind' \in {"none", busyKind}
    <3>1. CASE r.op = "search"
      <4>1. HoldsPane(r) <=> r.gen = searchGeneration  BY <3>1 DEF HoldsPane, Decided
      <4> QED  BY <1>9, <3>1, <4>1 DEF CallFails, Release, Decided
    <3>2. CASE r.op \in Decided
      <4>1. r.op # "search" /\ HoldsPane(r)  BY <3>2 DEF HoldsPane, Decided
      <4> QED  BY <1>9, <3>2, <4>1 DEF CallFails
    <3>3. CASE r.op = "clear"
      <4>1. r.op # "search" /\ r.op \notin Decided /\ HoldsPane(r)  BY <3>3 DEF HoldsPane, Decided
      <4> QED  BY <1>9, <3>3, <4>1 DEF CallFails
    <3>4. CASE r.op # "search" /\ r.op \notin Decided /\ r.op # "clear"
      <4>1. ~ HoldsPane(r)  BY <3>4 DEF HoldsPane
      <4> QED  BY <1>9, <3>4, <4>1 DEF CallFails
    <3> QED  BY <3>1, <3>2, <3>3, <3>4
  <2>2. PaneState'  BY <1>2, <2>0, <2>1 DEF PaneState
  <2> QED  BY <2>0, <2>1, <2>2, CallEnds
<1> QED  BY <1>3, <1>4, <1>5, <1>6, <1>7, <1>8, <1>9

\* "Остановить": the pane is free; whoever held it runs on beside what comes.
LEMMA StopStep == ASSUME PaneInv, Stop PROVE PaneInv'
<1> USE DEF PaneInv
<1> DEFINE s == Call("cancel", searchGeneration + 1, NoCard)
<1>0. called \in Nat /\ searchGeneration \in Nat  BY DEF PaneRows
<1>1. s \in CallRows /\ s.n = called /\ s.op = "cancel" /\ s.gen = searchGeneration + 1
  BY <1>0 DEF Call, CallRows, PaneRequests, Runs
<1>2. Cardinality({s}) = 1  BY FS_Singleton
<1>3. /\ calls' = calls \union {s} /\ called' = called + 1
      /\ searchGeneration' = searchGeneration + 1 /\ busy' = FALSE
      /\ overlapped' = (overlapped \/ (busy /\ \E r \in calls : r.op \in Decided \union {"clear"}))
      /\ UNCHANGED <<triage, serverRun, screen, searchRun, busyKind, hasMore, paneFaults>>
  BY <1>2 DEF Stop, Sends
<1> HIDE DEF s
<1>4. PaneState'
  <2>1. overlapped' \in BOOLEAN  BY <1>3 DEF PaneState
  <2> QED  BY <1>3, <2>1 DEF PaneState
<1>5. PaneRows' /\ CallsApart'
  <2> DEFINE D == {}
             S == {s}
  <2>1. D \in SUBSET calls /\ S \in SUBSET CallRows /\ calls' = (calls \ D) \union S  BY <1>1, <1>3
  <2>2. /\ called' \in Nat /\ called <= called'
        /\ searchGeneration' \in Nat /\ searchGeneration <= searchGeneration'
    BY <1>0, <1>3
  <2>3. \A x \in S : /\ x.n < called' /\ x.gen <= searchGeneration'
                     /\ x.op \in Decided => x.card \in PaneCards
                     /\ x.n >= called \/ \E y \in D : x.n = y.n
    BY <1>0, <1>1, <1>3 DEF Decided
  <2>4. \A x, y \in S : x.n = y.n => x = y  OBVIOUS
  <2> HIDE DEF D, S
  <2> QED  BY <2>1, <2>2, <2>3, <2>4, CallsStep
<1>6. ASSUME ~ overlapped', NEW r \in calls' PROVE ~ HoldsPane(r)'
  <2>1. CASE r = s  BY <1>1, <2>1 DEF HoldsPane, Decided
  <2>2. CASE r \in calls
    <3>1. r.gen \in Nat /\ r.gen <= searchGeneration  BY <2>2 DEF PaneRows, CallRows
    <3>2. r.gen # searchGeneration'  BY <1>0, <1>3, <3>1
    <3>3. ~ overlapped  BY <1>3, <1>6
    <3>4. r.op \notin Decided \union {"clear"}
      <4> SUFFICES ASSUME r.op \in Decided \union {"clear"} PROVE FALSE  OBVIOUS
      <4>1. busy  BY <2>2, <3>3 DEF BusyIsTrue
      <4> QED  BY <1>3, <1>6, <2>2, <4>1
    <3> QED  BY <3>2, <3>4 DEF HoldsPane
  <2> QED  BY <1>3, <2>1, <2>2
<1>7. OneHoldsPane'  BY <1>6 DEF OneHoldsPane
<1>8. (BusyIsTrue <=> (~ overlapped => (busy <=> \E c \in calls : HoldsPane(c))))'
  BY DEF BusyIsTrue, HoldsPane
<1>9. BusyIsTrue'  BY <1>3, <1>6, <1>8
<1> QED  BY <1>4, <1>5, <1>7, <1>9

LEMMA PaneTickStep == ASSUME PaneInv, Tick PROVE PaneInv'
<1> USE DEF PaneInv
<1> DEFINE s == Call("run", searchGeneration, NoCard)
           t == [Call("list", searchGeneration, NoCard) EXCEPT !.n = called + 1]
           S == {s, t}
<1>0. called \in Nat /\ searchGeneration \in Nat  BY DEF PaneRows
<1>1. /\ s \in CallRows /\ s.n = called /\ s.op = "run" /\ s.gen = searchGeneration
      /\ t \in CallRows /\ t.n = called + 1 /\ t.op = "list" /\ t.gen = searchGeneration
  BY <1>0 DEF Call, CallRows, PaneRequests, Runs
<1>2. Cardinality(S) = 2
  <2>1. s # t  BY <1>1
  <2> HIDE DEF s, t
  <2>2. IsFiniteSet({t}) /\ Cardinality({t}) = 1  BY FS_Singleton
  <2>3. S = {t} \union {s} /\ s \notin {t}  BY <2>1
  <2> QED  BY <2>2, <2>3, FS_AddElement
<1>3. /\ calls' = calls \union S /\ called' = called + 2
      /\ UNCHANGED <<triage, serverRun, screenVars, paneFaults, overlapped>>
  BY <1>2 DEF Tick, Sends
<1>4. PaneState'  BY <1>3 DEF PaneState, screenVars
<1>5. S \in SUBSET CallRows /\ called' \in Nat /\ called <= called'  BY <1>0, <1>1, <1>3
<1>6. /\ \A x \in S : x.op \in {"list", "run", "cancel"} /\ called <= x.n /\ x.n < called' /\ x.gen <= searchGeneration
      /\ \A x, y \in S : x.n = y.n => x = y
  <2> HIDE DEF s, t
  <2> QED  BY <1>0, <1>1, <1>3
<1>7. UNCHANGED <<searchGeneration, overlapped, busy>>  BY <1>3 DEF screenVars
<1> HIDE DEF S
<1> QED  BY <1>3, <1>4, <1>5, <1>6, <1>7, CallsBegin

LEMMA PaneInvIsInductive == PaneInv /\ [PaneNext]_paneVars => PaneInv'
<1> SUFFICES ASSUME PaneInv, [PaneNext]_paneVars PROVE PaneInv'  OBVIOUS
<1>1. ASSUME UNCHANGED <<triage, screenVars, calls, called, overlapped>>, serverRun' \in Runs PROVE PaneInv'
  BY <1>1 DEF screenVars, PaneInv, PaneRows, PaneState, CallsApart, OneHoldsPane, HoldsPane, BusyIsTrue
<1>2. CASE UNCHANGED paneVars
  <2>1. serverRun' \in Runs  BY <1>2 DEF paneVars, PaneInv, PaneState
  <2> QED  BY <1>1, <1>2, <2>1 DEF paneVars
<1>3. CASE ServerScored
  <2>1. serverRun' \in Runs  BY <1>3 DEF ServerScored, Runs
  <2> QED  BY <1>1, <1>3, <2>1 DEF ServerScored
<1>4. CASE Stop  BY <1>4, StopStep
<1>5. CASE Tick  BY <1>5, PaneTickStep
<1>6. CASE \/ \E p \in Pages : Search(p)
           \/ \E c \in PaneCards, kind \in Decided : DecideCard(c, kind)
           \/ Clear
  BY <1>6, PaneBeginsStep
<1>7. ASSUME NEW r \in calls, Selected(r) PROVE PaneInv'  BY <1>7, SelectedStep
<1>8. ASSUME NEW r \in calls, ServerAnswers(r) PROVE PaneInv'  BY <1>8, ServerAnswersStep
<1>9. ASSUME NEW r \in calls,
             \/ Listed(r) \/ Cancelled(r) \/ DecideAnswered(r) \/ Cleared(r)
             \/ RunHeard(r) \/ QueueHeard(r) \/ CallFails(r)
      PROVE  PaneInv'
  BY <1>9, PaneAnswersStep
<1> QED  BY <1>2, <1>3, <1>4, <1>5, <1>6, <1>7, <1>8, <1>9 DEF PaneNext

LEMMA PaneInvHoldsAtFirst == PaneInit => PaneInv
<1> SUFFICES ASSUME PaneInit PROVE PaneInv  OBVIOUS
<1>1. PaneRows /\ CallsApart /\ OneHoldsPane /\ BusyIsTrue
  BY DEF PaneInit, PaneRows, CallsApart, OneHoldsPane, BusyIsTrue
<1>2. PaneState  BY DEF PaneInit, PaneState, Runs, Decided
<1> QED  BY <1>1, <1>2 DEF PaneInv

LEMMA PaneIsSound == PaneSpec => [](PaneTypeOK /\ BusyIsTrue)
<1>1. PaneInv => PaneTypeOK /\ BusyIsTrue
  <2> SUFFICES ASSUME PaneInv PROVE PaneTypeOK  BY DEF PaneInv
  <2> QED  BY DEF PaneInv, PaneState, PaneRows, PaneTypeOK, Runs, Decided
<1> QED  BY <1>1, PaneInvHoldsAtFirst, PaneInvIsInductive, PTL DEF PaneSpec
----------------------------------------------------------------------------
\* Types of every part.

\* Who is active has a role, and a request that will make somebody active names one.
RolesAreNamed ==
    /\ made \in Nat /\ made <= RequestsLimit
    /\ \A a \in Accounts : accounts[a].status = "active" => accounts[a].role # NoRole
    /\ \A d \in Slots : slot[d].pc \in {"look", "lock", "write"} /\ slot[d].op \in {"approve", "role"}
                           => slot[d].role # NoRole

LEMMA RolesStep == ASSUME DirectoryInv, RolesAreNamed, [AccountsNext]_accountVars PROVE RolesAreNamed'
<1> USE AccountsAssumption DEF RolesAreNamed
<1>0. accounts \in [Accounts -> People] /\ slot \in [Slots -> Requests]  BY DEF DirectoryInv, DirectoryTypes
<1>1. CASE UNCHANGED accountVars  BY <1>1 DEF accountVars
<1>2. ASSUME NEW d \in Slots, NEW r, Goes(d, r), made' = made \/ (made < RequestsLimit /\ made' = made + 1),
             r.pc \in {"look", "lock", "write"} /\ r.op \in {"approve", "role"} => r.role # NoRole,
             \A a \in Accounts : accounts'[a].status = "active" => accounts'[a].role # NoRole
      PROVE  RolesAreNamed'
  <2>1. slot' = [slot EXCEPT ![d] = r]  BY <1>2 DEF Goes
  <2>2. \A e \in Slots : slot'[e] = IF e = d THEN r ELSE slot[e]  BY <1>0, <2>1
  <2>3. made' \in Nat /\ made' <= RequestsLimit  BY <1>2
  <2> QED  BY <1>2, <2>2, <2>3
<1>3. ASSUME NEW d \in Slots, NEW r, Goes(d, r), UNCHANGED <<made, accounts>>,
             r.pc \in {"look", "lock", "write"} /\ r.op \in {"approve", "role"} => r.role # NoRole
      PROVE  RolesAreNamed'
  BY <1>2, <1>3
<1>4. ASSUME NEW d \in Slots, NEW a \in Accounts, SignUp(d, a) \/ SignIn(d, a) \/ Enter(d, a) PROVE RolesAreNamed'
  <2>1. ASSUME NEW r, Takes(d, r), r.pc \in {"free", "session", "cabinet"},
               \/ accounts' = accounts
               \/ accounts' = [accounts EXCEPT ![a] = Account("pending", NoRole)]
        PROVE  RolesAreNamed'
    <3>1. \A b \in Accounts : accounts'[b].status = "active" => accounts'[b].role # NoRole
      BY <1>0, <2>1 DEF Account
    <3> QED  BY <1>2, <2>1, <3>1 DEF Takes
  <2>2. CASE SignUp(d, a)  BY <2>1, <2>2 DEF SignUp, Free
  <2>3. CASE SignIn(d, a)  BY <2>1, <2>3 DEF SignIn
  <2>4. CASE Enter(d, a)  BY <2>1, <2>4 DEF Enter
  <2> QED  BY <1>4, <2>2, <2>3, <2>4
<1>5. ASSUME NEW d \in Slots, NEW actor \in Accounts, NEW a \in Accounts, NEW op \in Operations,
             NEW role \in Roles \union {NoRole}, Administer(d, actor, op, a, role)
      PROVE  RolesAreNamed'
  <2> DEFINE r == [pc |-> IF op = "role" THEN "look" ELSE "lock", op |-> op, who |-> a, role |-> role]
  <2>1. r.op \in {"approve", "role"} => r.role # NoRole  BY <1>5 DEF Administer
  <2>2. Takes(d, r) /\ accounts' = accounts  BY <1>5 DEF Administer
  <2> HIDE DEF r
  <2> QED  BY <1>2, <2>1, <2>2 DEF Takes
<1>6. ASSUME NEW d \in Slots, OpenSession(d) \/ LookForCabinet(d) \/ MakeCabinet(d) \/ CloseSessions(d) \/ SlotFails(d)
      PROVE  RolesAreNamed'
  <2>1. PICK r : Goes(d, r) /\ UNCHANGED <<made, accounts>> /\ r.pc \in {"free", "session", "make"}
    <3>1. ASSUME NEW r, Goes(d, r), UNCHANGED <<made, accounts>>, r.pc \in {"free", "session", "make"}
          PROVE  \E q : Goes(d, q) /\ UNCHANGED <<made, accounts>> /\ q.pc \in {"free", "session", "make"}
      BY <3>1
    <3>2. CASE OpenSession(d)  BY <3>1, <3>2 DEF OpenSession, Free
    <3>3. CASE CloseSessions(d)  BY <3>1, <3>3 DEF CloseSessions, Free
    <3>4. CASE SlotFails(d)  BY <3>1, <3>4 DEF SlotFails, Free
    <3>5. CASE MakeCabinet(d)  BY <3>1, <3>5 DEF MakeCabinet, Free
    <3>6. CASE LookForCabinet(d)
      <4> DEFINE q == [slot[d] EXCEPT !.pc = "make"]
      <4>1. slot[d] \in Requests /\ slot[d].pc = "cabinet"  BY <1>0, <3>6 DEF LookForCabinet
      <4>2. q.pc = "make"  BY <4>1 DEF Requests
      <4> QED  BY <3>1, <3>6, <4>2 DEF LookForCabinet, Free
    <3> QED  BY <1>6, <3>2, <3>3, <3>4, <3>5, <3>6
  <2> QED  BY <1>3, <2>1
<1>7. ASSUME NEW d \in Slots, LookAtStatus(d) \/ Lock(d) PROVE RolesAreNamed'
  <2>1. slot[d] \in Requests /\ slot[d].pc \in {"look", "lock"}  BY <1>0, <1>7 DEF LookAtStatus, Lock
  <2>2. \A p \in {"lock", "write"} : [slot[d] EXCEPT !.pc = p].op = slot[d].op /\ [slot[d] EXCEPT !.pc = p].role = slot[d].role
    BY <2>1 DEF Requests
  <2>3. ASSUME NEW p \in {"lock", "write"}, Goes(d, [slot[d] EXCEPT !.pc = p]), UNCHANGED <<made, accounts>>
        PROVE  RolesAreNamed'
    BY <1>3, <2>1, <2>2, <2>3
  <2>4. ASSUME Goes(d, Free), UNCHANGED <<made, accounts>> PROVE RolesAreNamed'
    BY <1>3, <2>4 DEF Free
  <2> QED  BY <1>7, <2>3, <2>4 DEF LookAtStatus, Lock
<1>8. ASSUME NEW d \in Slots, Write(d) PROVE RolesAreNamed'
  <2> DEFINE r == slot[d]
  <2>1. r \in [pc : {"look", "lock", "write", "close"}, op : Operations, who : Accounts,
               role : Roles \union {NoRole}]
    BY <1>0, <1>8 DEF Write, Requests
  <2>2. r.pc = "write" /\ r.op \in Operations /\ accounts' = Proposed(r)  BY <1>8, <2>1 DEF Write
  <2>3. \A a \in Accounts : accounts'[a].status = "active" => accounts'[a].role # NoRole
    <3>1. CASE r.op \in {"approve", "role"}
      <4>1. r.role # NoRole  BY <2>2, <3>1
      <4>2. accounts' = [accounts EXCEPT ![r.who] = Account("active", r.role)]  BY <2>2, <3>1 DEF Proposed
      <4> QED  BY <1>0, <4>1, <4>2 DEF Account
    <3>2. CASE r.op \in {"reject", "revoke"}
      <4>1. PICK s \in {"rejected", "revoked"} : accounts' = [accounts EXCEPT ![r.who] = Account(s, accounts[r.who].role)]
        BY <2>1, <2>2, <3>2, <1>0 DEF Proposed
      <4> QED  BY <1>0, <4>1 DEF Account
    <3> QED  BY <2>2, <3>1, <3>2 DEF Operations
  <2>4. PICK q : Goes(d, q) /\ q.pc \in {"close", "free"}
    <3>1. [r EXCEPT !.pc = "close"].pc = "close" /\ Free.pc = "free"  BY <2>1 DEF Free
    <3> QED  BY <1>8, <3>1 DEF Write
  <2> QED  BY <1>2, <1>8, <2>3, <2>4 DEF Write
<1>9. ASSUME NEW a \in Accounts, SessionEnds(a) PROVE RolesAreNamed'  BY <1>9 DEF SessionEnds
<1> QED
  BY <1>1, <1>4, <1>5, <1>6, <1>7, <1>8, <1>9 DEF AccountsNext, Operations

LEMMA AccountsAreTyped == AccountsSpec => []AccountsTypeOK
<1>1. AccountsInit => DirectoryInv  BY AccountsInvHoldsAtFirst
<1>2. AccountsInit => RolesAreNamed
  BY AccountsAssumption DEF AccountsInit, RolesAreNamed, Account, Free
<1>3. DirectoryInv /\ RolesAreNamed /\ [AccountsNext]_accountVars => DirectoryInv' /\ RolesAreNamed'
  BY AccountsStep, RolesStep
<1>4. DirectoryInv /\ RolesAreNamed => AccountsTypeOK
  <2> SUFFICES ASSUME DirectoryInv, RolesAreNamed PROVE AccountsTypeOK  OBVIOUS
  <2>1. accounts \in [Accounts -> People]  BY DEF DirectoryInv, DirectoryTypes
  <2> QED  BY <2>1 DEF RolesAreNamed, AccountsTypeOK, People, Statuses
<1> QED  BY <1>1, <1>2, <1>3, <1>4, PTL DEF AccountsSpec

\* What a request and the study carry, and that they cut no more than may be cut.
Answers == {"accepted", "dismissed"}
RulesAreTyped ==
    /\ memory \in [Cases -> {"none", "reject", "accept"}]
    /\ IsFiniteSet(excluded) /\ Cardinality(excluded) <= ExclusionLimit
    /\ \A k \in DOMAIN offers : /\ offers[k].state \in {"open"} \union Answers
                                /\ IsFiniteSet(offers[k].phrases)
    /\ study.pc \in {"open", "offer"} =>
          /\ IsFiniteSet(study.phrases)
          /\ study = [pc |-> study.pc, key |-> study.key, phrases |-> study.phrases]
    /\ \A d \in Desks : /\ desk[d].pc = "remember" => desk[d].kind \in {"none", "reject", "accept"}
                        /\ desk[d].pc \in {"save", "close"} => desk[d].state \in Answers

LEMMA TwoAtMost == ASSUME NEW S, NEW p, NEW q, S \subseteq {p, q} PROVE IsFiniteSet(S)
<1>1. IsFiniteSet({p}) /\ IsFiniteSet({q})  BY FS_Singleton
<1>2. {p, q} = {p} \union {q}  OBVIOUS
<1>3. IsFiniteSet({p, q})  BY <1>1, <1>2, FS_Union
<1> QED  BY <1>3, FS_Subset

LEMMA DeskIsTyped ==
    ASSUME RuleRows, RulesAreTyped, NEW d \in Desks, NEW r, DeskGoes(d, r),
           r.pc = "remember" => r.kind \in {"none", "reject", "accept"},
           r.pc \in {"save", "close"} => r.state \in Answers,
           memory' \in [Cases -> {"none", "reject", "accept"}],
           IsFiniteSet(excluded') /\ Cardinality(excluded') <= ExclusionLimit,
           \A k \in DOMAIN offers' : offers'[k].state \in {"open"} \union Answers /\ IsFiniteSet(offers'[k].phrases),
           study' = study \/ study'.pc \notin {"open", "offer"}
    PROVE  RulesAreTyped'
<1>1. \A e \in Desks : desk'[e] = IF e = d THEN r ELSE desk[e]  BY DEF DeskGoes, RuleRows
<1> QED  BY <1>1 DEF RulesAreTyped

LEMMA OfferIsTyped ==
    ASSUME RuleRows, RulesAreTyped, NEW key, NEW phrases, offers' = Offering(key, phrases), IsFiniteSet(phrases)
    PROVE  \A k \in DOMAIN offers' : offers'[k].state \in {"open"} \union Answers /\ IsFiniteSet(offers'[k].phrases)
<1>1. CASE key \in DOMAIN offers  BY <1>1 DEF Offering, Offered, RulesAreTyped
<1>2. CASE key \notin DOMAIN offers
  <2> DEFINE row == [state |-> "open", phrases |-> phrases]
  <2>1. offers' = [k \in DOMAIN offers \union {key} |-> IF k = key THEN row ELSE offers[k]]
    BY <1>2 DEF Offering, Offered
  <2>2. row.state = "open" /\ row.phrases = phrases  OBVIOUS
  <2> HIDE DEF row
  <2> QED  BY <2>1, <2>2 DEF RulesAreTyped
<1> QED  BY <1>1, <1>2

LEMMA RulesTypesStep == ASSUME RulesInv, RulesAreTyped, [RulesNext]_ruleVars PROVE RulesAreTyped'
<1> USE RulesAssumption
<1>0. /\ RuleRows
      /\ memory \in [Cases -> {"none", "reject", "accept"}]
      /\ IsFiniteSet(excluded) /\ Cardinality(excluded) <= ExclusionLimit
      /\ \A k \in DOMAIN offers : offers[k].state \in {"open"} \union Answers /\ IsFiniteSet(offers[k].phrases)
  BY DEF RulesInv, RulesAreTyped
<1>1. CASE UNCHANGED ruleVars  BY <1>1 DEF ruleVars, RulesAreTyped
\* Requests that leave the rows and the exclusions alone.
<1>2. ASSUME NEW d \in Desks, NEW r, DeskGoes(d, r), UNCHANGED <<memory, excluded, offers>>,
             study' = study \/ study'.pc \notin {"open", "offer"},
             r.pc = "remember" => r.kind \in {"none", "reject", "accept"},
             r.pc \in {"save", "close"} => r.state \in Answers
      PROVE  RulesAreTyped'
  BY <1>0, <1>2, DeskIsTyped
<1>3. ASSUME NEW d \in Desks, NEW c \in Cases, NEW kind \in {"reject", "accept", "none"}, Decide(d, c, kind)
      PROVE  RulesAreTyped'
  <2> DEFINE r == [pc |-> "remember", case |-> c, kind |-> kind]
  <2>1. r.pc = "remember" /\ r.kind \in {"none", "reject", "accept"}  OBVIOUS
  <2>2. DeskGoes(d, r) /\ UNCHANGED <<memory, excluded, offers, study>>  BY <1>3 DEF Decide
  <2> HIDE DEF r
  <2> QED  BY <1>2, <2>1, <2>2
<1>4. ASSUME NEW d \in Desks, NEW k \in DOMAIN offers, NEW action \in {"accept", "dismiss"}, Resolve(d, k, action)
      PROVE  RulesAreTyped'
  <2> DEFINE r == [pc |-> "resolve", key |-> k, action |-> action]
  <2>1. r.pc = "resolve"  OBVIOUS
  <2>2. DeskGoes(d, r) /\ UNCHANGED <<memory, excluded, offers, study>>  BY <1>4 DEF Resolve
  <2> HIDE DEF r
  <2> QED  BY <1>2, <2>1, <2>2
<1>5. ASSUME NEW d \in Desks, Remember(d) PROVE RulesAreTyped'
  <2>1. memory' \in [Cases -> {"none", "reject", "accept"}]
    <3>1. desk[d].kind \in {"none", "reject", "accept"}  BY <1>5 DEF Remember, RulesAreTyped
    <3> QED  BY <1>0, <1>5, <3>1 DEF Remember
  <2>2. PICK r : DeskGoes(d, r) /\ r.pc \in {"offers", "idle"}
    <3> DEFINE q == [pc |-> "offers", cut |-> excluded]
    <3>1. q.pc = "offers" /\ Idle.pc = "idle"  BY DEF Idle
    <3> HIDE DEF q
    <3> QED  BY <1>5, <3>1 DEF Remember, Ends, q
  <2>3. UNCHANGED <<offers, excluded, study>>  BY <1>5 DEF Remember
  <2> QED  BY <1>0, <2>1, <2>2, <2>3, DeskIsTyped
<1>6. ASSUME NEW d \in Desks, ReadOffers(d) \/ DeskFails(d) PROVE RulesAreTyped'
  <2>1. PICK r : DeskGoes(d, r) /\ r.pc \in {"signals", "idle"}
    <3> DEFINE q == [pc |-> "signals", cut |-> desk[d].cut, offered |-> DOMAIN offers]
    <3>1. q.pc = "signals" /\ Idle.pc = "idle"  BY DEF Idle
    <3> HIDE DEF q
    <3> QED  BY <1>6, <3>1 DEF ReadOffers, DeskFails, Ends, q
  <2>2. UNCHANGED <<memory, offers, excluded, study>>  BY <1>6 DEF ReadOffers, DeskFails
  <2> QED  BY <1>2, <2>1, <2>2
<1>7. ASSUME NEW d \in Desks, FindSignal(d) PROVE RulesAreTyped'
  <2> DEFINE begin == [pc |-> "list", offered |-> desk[d].offered, cut |-> excluded]
  <2>1. PICK r : DeskGoes(d, r) /\ r.pc \in {"offer", "idle"}
    <3>1. \A t : [pc |-> "offer", term |-> t].pc = "offer"  OBVIOUS
    <3>2. Idle.pc = "idle"  BY DEF Idle
    <3> QED  BY <1>7, <3>1, <3>2 DEF FindSignal, Ends
  <2>2. UNCHANGED <<memory, offers, excluded>> /\ study' \in {study, begin}  BY <1>7 DEF FindSignal
  <2>3. begin.pc = "list"  OBVIOUS
  <2> HIDE DEF begin
  <2> QED  BY <1>2, <2>1, <2>2, <2>3
<1>8. ASSUME NEW d \in Desks, OfferTerm(d) PROVE RulesAreTyped'
  <2>1. IsFiniteSet({desk[d].term})  BY FS_Singleton
  <2>2. /\ offers' = Offering(desk[d].term, {desk[d].term})
        /\ DeskGoes(d, Idle) /\ UNCHANGED <<memory, excluded, study>>
    BY <1>8 DEF OfferTerm, Ends
  <2>3. Idle.pc = "idle"  BY DEF Idle
  <2>4. \A k \in DOMAIN offers' : offers'[k].state \in {"open"} \union Answers /\ IsFiniteSet(offers'[k].phrases)
    BY <1>0, <2>1, <2>2, OfferIsTyped
  <2> QED  BY <1>0, <2>2, <2>3, <2>4, DeskIsTyped
<1>9. ASSUME NEW d \in Desks, Accept(d) PROVE RulesAreTyped'
  <2> DEFINE k == desk[d].key
  <2>1. k \in DOMAIN offers /\ IsFiniteSet(offers[k].phrases)
    BY <1>0, <1>9 DEF Accept, RulesInv, AnswerIsCut
  <2>2. IsFiniteSet(Fresh(k)) /\ Fresh(k) \subseteq offers[k].phrases
    BY <2>1, FS_Subset DEF Fresh
  <2>3. PICK r : /\ DeskGoes(d, r)
                 /\ r.pc \in {"close", "save"} => r.state \in Answers
                 /\ r.pc # "remember"
    <3> DEFINE q == [pc |-> "close", key |-> k, state |-> Verdict(desk[d].action)]
               p == [pc |-> "save", key |-> k, state |-> "accepted"]
    <3>1. q.pc = "close" /\ q.state \in Answers /\ p.pc = "save" /\ p.state \in Answers /\ Idle.pc = "idle"
      BY DEF Verdict, Answers, Idle
    <3>2. DeskGoes(d, q) \/ DeskGoes(d, p) \/ DeskGoes(d, Idle)  BY <1>9 DEF Accept, Ends
    <3> HIDE DEF q, p
    <3> QED  BY <3>1, <3>2
  <2>4. IsFiniteSet(excluded') /\ Cardinality(excluded') <= ExclusionLimit
    <3>1. CASE excluded' = excluded  BY <1>0, <3>1
    <3>2. CASE /\ Cardinality(excluded) + Cardinality(Fresh(k)) <= ExclusionLimit
               /\ excluded' = excluded \union Fresh(k)
      <4>1. excluded \intersect Fresh(k) = {}  BY DEF Fresh
      <4>2. /\ IsFiniteSet(excluded \union Fresh(k))
            /\ Cardinality(excluded \union Fresh(k)) =
                 Cardinality(excluded) + Cardinality(Fresh(k)) - Cardinality(excluded \intersect Fresh(k))
        BY <1>0, <2>2, FS_Union
      <4>3. Cardinality(excluded) \in Nat /\ Cardinality(Fresh(k)) \in Nat
        BY <1>0, <2>2, FS_CardinalityType
      <4>4. Cardinality(excluded \intersect Fresh(k)) = 0  BY <4>1, FS_EmptySet
      <4>5. Cardinality(excluded \union Fresh(k)) = Cardinality(excluded) + Cardinality(Fresh(k))
        BY <4>2, <4>3, <4>4
      <4> QED  BY <3>2, <4>2, <4>5
    <3> QED  BY <1>9, <3>1, <3>2 DEF Accept
  <2>5. UNCHANGED <<memory, offers, study>>  BY <1>9 DEF Accept
  <2> QED  BY <1>0, <2>3, <2>4, <2>5, DeskIsTyped
<1>10. ASSUME NEW d \in Desks, SaveRule(d) PROVE RulesAreTyped'
  <2> DEFINE r == [desk[d] EXCEPT !.pc = "close"]
  <2>1. r.pc = "close" /\ r.state = desk[d].state /\ desk[d].state \in Answers
    BY <1>10 DEF SaveRule, RulesInv, AnswerIsCut, RulesAreTyped
  <2>2. DeskGoes(d, r) /\ UNCHANGED <<memory, offers, excluded, study>>  BY <1>10 DEF SaveRule
  <2> HIDE DEF r
  <2> QED  BY <1>2, <2>1, <2>2
<1>11. ASSUME NEW d \in Desks, Close(d) PROVE RulesAreTyped'
  <2> DEFINE k == desk[d].key
  <2>1. k \in DOMAIN offers /\ desk[d].state \in Answers
    BY <1>11 DEF Close, RulesInv, AnswerIsCut, RulesAreTyped
  <2>2. \A j \in DOMAIN offers' : offers'[j].state \in {"open"} \union Answers /\ IsFiniteSet(offers'[j].phrases)
    <3>1. CASE offers' = offers  BY <1>0, <3>1
    <3>2. CASE offers' = [offers EXCEPT ![k].state = desk[d].state]
      <4>1. \A j \in DOMAIN offers : offers[j] = [state |-> offers[j].state, phrases |-> offers[j].phrases]
        BY <1>0 DEF RuleRows
      <4>2. DOMAIN offers' = DOMAIN offers  BY <3>2
      <4>3. \A j \in DOMAIN offers : offers'[j] = IF j = k THEN [offers[j] EXCEPT !.state = desk[d].state] ELSE offers[j]
        BY <3>2
      <4>4. \A j \in DOMAIN offers : offers'[j].phrases = offers[j].phrases
                                     /\ offers'[j].state \in {desk[d].state, offers[j].state}
        BY <4>1, <4>3
      <4> QED  BY <1>0, <2>1, <4>2, <4>4
    <3> QED  BY <1>11, <3>1, <3>2 DEF Close
  <2>3. PICK r : DeskGoes(d, r) /\ r.pc \in {"offers", "idle"}
    <3> DEFINE q == [pc |-> "offers", cut |-> excluded]
    <3>1. q.pc = "offers" /\ Idle.pc = "idle"  BY DEF Idle
    <3>2. DeskGoes(d, q) \/ DeskGoes(d, Idle)  BY <1>11 DEF Close, Ends
    <3> HIDE DEF q
    <3> QED  BY <3>1, <3>2
  <2>4. UNCHANGED <<memory, excluded, study>>  BY <1>11 DEF Close
  <2> QED  BY <1>0, <2>2, <2>3, <2>4, DeskIsTyped
\* The study: it touches the rows when it offers.
<1>12. ASSUME UNCHANGED <<memory, excluded, offers, desk>>,
              study'.pc \in {"open", "offer"} =>
                 /\ IsFiniteSet(study'.phrases)
                 /\ study' = [pc |-> study'.pc, key |-> study'.key, phrases |-> study'.phrases]
       PROVE  RulesAreTyped'
  BY <1>12 DEF RulesAreTyped
<1>13. CASE StudyReads
  <2> DEFINE q == [pc |-> "model", rows |-> memory, offered |-> study.offered, cut |-> study.cut]
  <2>1. q.pc = "model" /\ Idle.pc = "idle"  BY DEF Idle
  <2>2. study' \in {q, Idle} /\ UNCHANGED <<memory, excluded, offers, desk>>  BY <1>13 DEF StudyReads
  <2> HIDE DEF q
  <2> QED  BY <1>12, <2>1, <2>2
<1>14. CASE ModelAnswers
  <2>1. UNCHANGED <<memory, excluded, offers, desk>>  BY <1>14 DEF ModelAnswers
  <2>2. CASE study' = Idle  BY <1>12, <2>1, <2>2 DEF Idle
  <2>3. CASE study' # Idle
    <3> DEFINE Row(said, first) ==
                 [pc |-> "open", key |-> said[first], phrases |-> {said[i] : i \in Surviving(said)}]
    <3>0. \E said \in {<<>>} \union {<<p, q>> : p, q \in Phrases} : \E first \in Surviving(said) : study' = Row(said, first)
      BY <1>14, <2>3 DEF ModelAnswers
    <3> HIDE DEF Row
    <3>1. PICK said : \E first \in Surviving(said) : /\ study' = Row(said, first)
                                                   /\ said \in {<<>>} \union {<<p, q>> : p, q \in Phrases}
      BY <3>0
    <3>2. PICK first \in Surviving(said) : study' = Row(said, first)  BY <3>1
    <3> DEFINE kept == {said[i] : i \in Surviving(said)}
    <3>3. kept \subseteq {said[1], said[2]}  BY <3>1 DEF Surviving
    <3> HIDE DEF kept
    <3>4. IsFiniteSet(kept)  BY ONLY <3>3, TwoAtMost
    <3> QED  BY <1>12, <2>1, <3>2, <3>4 DEF Row, kept
  <2> QED  BY <2>2, <2>3
<1>15. CASE StudyLooksAgain
  <2>1. UNCHANGED <<memory, excluded, offers, desk>>  BY <1>15 DEF StudyLooksAgain
  <2>2. /\ IsFiniteSet(study.phrases)
        /\ study = [pc |-> study.pc, key |-> study.key, phrases |-> study.phrases]
    BY <1>15 DEF StudyLooksAgain, RulesAreTyped
  <2>3. CASE study' = Idle  BY <1>12, <2>1, <2>3 DEF Idle
  <2>4. CASE study' = [study EXCEPT !.pc = "offer"]
    <3>1. study' = [pc |-> "offer", key |-> study.key, phrases |-> study.phrases]  BY <2>2, <2>4
    <3> QED  BY <1>12, <2>1, <2>2, <3>1
  <2> QED  BY <1>15, <2>3, <2>4 DEF StudyLooksAgain
<1>16. CASE OfferDirection
  <2>1. IsFiniteSet(study.phrases)  BY <1>16 DEF OfferDirection, RulesAreTyped
  <2>2. /\ offers' = Offering(study.key, study.phrases) /\ study' = Idle
        /\ UNCHANGED <<memory, excluded, desk>>
    BY <1>16 DEF OfferDirection
  <2>3. \A k \in DOMAIN offers' : offers'[k].state \in {"open"} \union Answers /\ IsFiniteSet(offers'[k].phrases)
    BY <1>0, <2>1, <2>2, OfferIsTyped
  <2>4. Idle.pc = "idle"  BY DEF Idle
  <2> QED  BY <2>2, <2>3, <2>4 DEF RulesAreTyped
<1>17. CASE StudyFails  BY <1>12, <1>17 DEF StudyFails, Idle
<1>18. CASE DropProfile  BY <1>18 DEF DropProfile, RulesAreTyped
<1> QED
  BY <1>1, <1>3, <1>4, <1>5, <1>6, <1>7, <1>8, <1>9, <1>10, <1>11, <1>13, <1>14, <1>15, <1>16, <1>17, <1>18
  DEF RulesNext

LEMMA RulesAreTypedAlways == RulesSpec => []RulesTypeOK
<1>1. RulesInit => RulesAreTyped
  <2> SUFFICES ASSUME RulesInit PROVE RulesAreTyped  OBVIOUS
  <2>1. DOMAIN offers = {} /\ (\A d \in Desks : desk[d] = Idle) /\ study = Idle /\ Idle.pc = "idle"
    BY DEF RulesInit, Idle
  <2>2. IsFiniteSet({}) /\ Cardinality({}) = 0  BY FS_EmptySet
  <2> QED  BY <2>1, <2>2, RulesAssumption DEF RulesInit, RulesAreTyped
<1>2. RulesInv /\ RulesAreTyped => RulesTypeOK
  BY DEF RulesInv, RulesAreTyped, RulesTypeOK, Answers
<1>3. RulesInv /\ RulesAreTyped /\ [RulesNext]_ruleVars => RulesInv' /\ RulesAreTyped'
  BY RulesInvIsInductive, RulesTypesStep
<1> QED  BY <1>1, <1>2, <1>3, RulesInvHoldsAtFirst, PTL DEF RulesSpec

\* What a poll has read, and what a followed job may say.
Phases == {"idle", "running", "done", "failed"}
PollsAreTyped ==
    /\ inboxRows \subseteq News /\ inbox \subseteq knownInboxIds /\ knownInboxIds \subseteq News
    /\ pollFailures \in 0..POLL_FAILURE_LIMIT
    /\ \A p \in polls : p \in [n : {p.n}, pc : {"asked", "read"}, items : SUBSET News]

JobIsTyped ==
    /\ jobPhase \in Phases /\ ingest \in {"none"} \union Phases /\ ingesting \in BOOLEAN
    /\ \A s \in snaps : s.phase \in {"asked"} \union Phases /\ s = [n |-> s.n, phase |-> s.phase]
    /\ \/ request = NoRequest
       \/ /\ request.op \in {"participate", "reindex", "documents"}
          /\ request = [op |-> request.op, pc |-> request.pc]

LEMMA PollsTypesStep == ASSUME PollsAreTyped, InboxNext PROVE PollsAreTyped'
<1> USE DEF PollsAreTyped
<1>1. ASSUME UNCHANGED <<inbox, knownInboxIds, pollFailures, polls>>, inboxRows' \subseteq News PROVE PollsAreTyped'
  BY <1>1
<1>2. ASSUME NEW e \in News, NewsComes(e) PROVE PollsAreTyped'  BY <1>1, <1>2 DEF NewsComes
<1>3. ASSUME NEW e \in News, NewsGoes(e) PROVE PollsAreTyped'  BY <1>1, <1>3 DEF NewsGoes
<1>4. CASE PollInbox
  <2> DEFINE p == [n |-> begun, pc |-> "asked", items |-> {}]
  <2>1. p \in [n : {p.n}, pc : {"asked", "read"}, items : SUBSET News]  OBVIOUS
  <2>2. polls' = polls \union {p} /\ UNCHANGED <<inboxRows, inbox, knownInboxIds, pollFailures>>
    BY <1>4 DEF PollInbox
  <2> HIDE DEF p
  <2> QED  BY <2>1, <2>2
<1>5. ASSUME NEW p \in polls, InboxRead(p) PROVE PollsAreTyped'
  <2> DEFINE q == [p EXCEPT !.pc = "read", !.items = inboxRows]
  <2>1. q \in [n : {p.n}, pc : {"asked", "read"}, items : SUBSET News] /\ q.n = p.n  OBVIOUS
  <2>3. polls' = (polls \ {p}) \union {q} /\ UNCHANGED <<inboxRows, inbox, knownInboxIds, pollFailures>>
    BY <1>5 DEF InboxRead
  <2> HIDE DEF q
  <2> QED  BY <2>1, <2>3
<1>6. ASSUME NEW p \in polls, InboxAnswered(p) PROVE PollsAreTyped'
  <2>1. /\ polls' = polls \ {p} /\ inbox' = p.items /\ pollFailures' = 0 /\ UNCHANGED inboxRows
        /\ p.items \subseteq News
        /\ knownInboxIds' = knownInboxIds \union (p.items \ knownInboxIds)
    BY <1>6 DEF InboxAnswered, Applied, FreshOf
  <2> QED  BY <2>1 DEF POLL_FAILURE_LIMIT
<1>7. ASSUME NEW p \in polls, InboxFails(p) PROVE PollsAreTyped'
  <2>1. pollFailures' \in 0..POLL_FAILURE_LIMIT  BY <1>7 DEF InboxFails, POLL_FAILURE_LIMIT
  <2> QED  BY <1>7, <2>1 DEF InboxFails
<1> QED  BY <1>2, <1>3, <1>4, <1>5, <1>6, <1>7 DEF InboxNext

LEMMA JobTypesStep == ASSUME JobIsTyped, ProgressNext PROVE JobIsTyped'
<1> USE DEF JobIsTyped
<1>1. CASE JobMoves  BY <1>1 DEF JobMoves, Phases
<1>2. CASE ServerStarts
  <2>1. request' = [op |-> request.op, pc |-> "done"]  BY <1>2 DEF ServerStarts
  <2> QED  BY <1>2, <2>1 DEF ServerStarts, Phases
<1>3. CASE RequestAnswered  BY <1>3 DEF RequestAnswered
<1>4. CASE RequestFails  BY <1>4 DEF RequestFails
<1>5. CASE PollProgress
  <2> DEFINE s == [n |-> begun, phase |-> "asked"]
  <2>1. s.phase = "asked" /\ s = [n |-> s.n, phase |-> s.phase]  OBVIOUS
  <2>2. snaps' = snaps \union {s} /\ UNCHANGED <<jobPhase, ingesting, ingest, request>>  BY <1>5 DEF PollProgress
  <2> HIDE DEF s
  <2> QED  BY <2>1, <2>2
<1>6. CASE Reloaded  BY <1>6 DEF Reloaded
<1>7. ASSUME NEW op \in {"participate", "reindex", "documents"}, Ask(op) PROVE JobIsTyped'
  <2>1. request' = [op |-> op, pc |-> "sent"] /\ ingesting' \in BOOLEAN /\ UNCHANGED <<jobPhase, ingest, snaps>>
    BY <1>7 DEF Ask
  <2>2. request'.op = op /\ request' = [op |-> request'.op, pc |-> request'.pc]  BY <2>1
  <2> QED  BY <2>1, <2>2
<1>8. ASSUME NEW s \in snaps, ProgressRead(s) PROVE JobIsTyped'
  <2> DEFINE q == [s EXCEPT !.phase = jobPhase]
  <2>1. q = [n |-> s.n, phase |-> jobPhase]
    <3>1. s = [n |-> s.n, phase |-> s.phase]  OBVIOUS
    <3> QED  BY <3>1
  <2>2. q.phase \in Phases /\ q = [n |-> q.n, phase |-> q.phase]  BY <2>1
  <2>3. snaps' = (snaps \ {s}) \union {q} /\ UNCHANGED <<jobPhase, ingesting, ingest, request>>
    BY <1>8 DEF ProgressRead
  <2> HIDE DEF q
  <2> QED  BY <2>2, <2>3
<1>9. ASSUME NEW s \in snaps, ProgressAnswered(s) PROVE JobIsTyped'
  <2>1. ingest' \in {"none"} \union Phases /\ ingesting' \in BOOLEAN
    BY <1>9 DEF ProgressAnswered, Heard, Running
  <2> QED  BY <1>9, <2>1 DEF ProgressAnswered
<1>10. ASSUME NEW s \in snaps, ProgressFails(s) PROVE JobIsTyped'  BY <1>10 DEF ProgressFails
<1> QED  BY <1>1, <1>2, <1>3, <1>4, <1>5, <1>6, <1>7, <1>8, <1>9, <1>10 DEF ProgressNext

LEMMA ConsoleIsTyped == ConsoleSpec => []ConsoleTypeOK
<1>1. ConsoleInit => PollsAreTyped /\ JobIsTyped
  <2> SUFFICES ASSUME ConsoleInit PROVE PollsAreTyped /\ JobIsTyped  OBVIOUS
  <2>1. PollsAreTyped  BY NewsAssumption DEF ConsoleInit, PollsAreTyped, POLL_FAILURE_LIMIT
  <2>2. JobIsTyped  BY DEF ConsoleInit, JobIsTyped, Phases
  <2> QED  BY <2>1, <2>2
<1>2. PollsAreTyped /\ JobIsTyped /\ [ConsoleNext]_consoleVars => PollsAreTyped' /\ JobIsTyped'
  <2> SUFFICES ASSUME PollsAreTyped, JobIsTyped, [ConsoleNext]_consoleVars PROVE PollsAreTyped' /\ JobIsTyped'
    OBVIOUS
  <2>3. CASE InboxNext
    <3>1. UNCHANGED jobVars
      BY <2>3 DEF InboxNext, NewsComes, NewsGoes, PollInbox, InboxRead, InboxAnswered, InboxFails
    <3>2. JobIsTyped'  BY <3>1 DEF JobIsTyped, jobVars
    <3> QED  BY <2>3, <3>2, PollsTypesStep
  <2>4. CASE ProgressNext
    <3>1. UNCHANGED pollVars
      BY <2>4 DEF ProgressNext, JobMoves, Ask, ServerStarts, RequestAnswered, RequestFails, PollProgress,
         ProgressRead, ProgressAnswered, ProgressFails, Reloaded
    <3>2. PollsAreTyped'  BY <3>1 DEF PollsAreTyped, pollVars
    <3> QED  BY <2>4, <3>2, JobTypesStep
  <2>5. CASE UNCHANGED consoleVars
    <3>1. UNCHANGED pollVars /\ UNCHANGED jobVars  BY <2>5 DEF consoleVars
    <3> QED  BY <3>1 DEF PollsAreTyped, JobIsTyped, pollVars, jobVars
  <2> QED  BY <2>3, <2>4, <2>5 DEF ConsoleNext
<1>3. PollsAreTyped /\ JobIsTyped => ConsoleTypeOK
  BY DEF PollsAreTyped, JobIsTyped, ConsoleTypeOK, Phases
<1> QED  BY <1>1, <1>2, <1>3, PTL DEF ConsoleSpec

\* What the lists, the readings and the actions hold are cards.
Kinds == {"unset", "loading", "ready", "stale", "error"}
Cardwise(items) == DOMAIN items \subseteq ListCards
ListsAreTyped ==
    /\ place \in [ListCards -> Places] /\ generation <= LoadsMax
    /\ \A t \in Tabs : lists[t].kind \in Kinds /\ Cardwise(lists[t].items)
    /\ \A l \in loads : Cardwise(l.items)
    /\ \A a \in actions : /\ Cardwise(a.snapshot)
                          /\ a \in [n : {a.n}, card : {a.card}, op : {a.op}, tab : {a.tab},
                                    snapshot : {a.snapshot}, pc : {"sent", "done"}]

\* A change of what the lists hold, card by card.
LEMMA PatchIsTyped ==
    ASSUME ListRows, ListsAreTyped,
           \A t \in Tabs : \/ lists'[t] = lists[t]
                           \/ \E new : Cardwise(new) /\ lists'[t] = [lists[t] EXCEPT !.items = new]
    PROVE  \A t \in Tabs : lists'[t].kind \in Kinds /\ Cardwise(lists'[t].items)
<1> SUFFICES ASSUME NEW t \in Tabs PROVE lists'[t].kind \in Kinds /\ Cardwise(lists'[t].items)  OBVIOUS
<1>1. lists[t].kind \in Kinds /\ Cardwise(lists[t].items)  BY DEF ListsAreTyped
<1>2. lists[t] = [kind |-> lists[t].kind, items |-> lists[t].items, read |-> lists[t].read]  BY DEF ListRows
<1>3. ASSUME NEW new, Cardwise(new), lists'[t] = [lists[t] EXCEPT !.items = new]
      PROVE  lists'[t].kind \in Kinds /\ Cardwise(lists'[t].items)
  <2>1. lists'[t].kind = lists[t].kind /\ lists'[t].items = new  BY <1>2, <1>3
  <2> QED  BY <1>1, <1>3, <2>1
<1> QED  BY <1>1, <1>3

LEMMA LessIsTyped == \A items, gone : Cardwise(items) => Cardwise(Less(items, gone))
BY DEF Cardwise, Less
LEMMA MovedIsTyped == \A items, c, p : Cardwise(items) => Cardwise(Moved(items, c, p))
BY DEF Cardwise, Moved

LEMMA ListsTypesStep == ASSUME ListsInv, ListsAreTyped, [ListsNext]_listVars PROVE ListsAreTyped'
<1>0. /\ ListRows /\ tab \in Tabs /\ generation \in Nat
      /\ place \in [ListCards -> Places] /\ generation <= LoadsMax
      /\ \A t \in Tabs : /\ lists[t].kind \in Kinds /\ Cardwise(lists[t].items)
                         /\ lists[t] = [kind |-> lists[t].kind, items |-> lists[t].items, read |-> lists[t].read]
      /\ DOMAIN lists = Tabs
  BY DEF ListsInv, ListRows, ListsAreTyped
<1>1. CASE UNCHANGED listVars  BY <1>1 DEF listVars, ListsAreTyped
<1>2. Cardwise(<<>>)  BY DEF Cardwise
<1>3. ASSUME NEW t \in Tabs, NEW kind \in Kinds, lists' = [lists EXCEPT ![t].kind = kind]
      PROVE  \A u \in Tabs : lists'[u].kind \in Kinds /\ Cardwise(lists'[u].items)
  <2> SUFFICES ASSUME NEW u \in Tabs PROVE lists'[u].kind \in Kinds /\ Cardwise(lists'[u].items)  OBVIOUS
  <2>1. lists'[u] = IF u = t THEN [lists[u] EXCEPT !.kind = kind] ELSE lists[u]  BY <1>0, <1>3
  <2>2. lists'[u].kind \in {kind, lists[u].kind} /\ lists'[u].items = lists[u].items  BY <1>0, <2>1
  <2> QED  BY <1>0, <2>2
<1>4. ASSUME NEW t \in Tabs, NEW g, Load(t, g), UNCHANGED <<place, actions>> PROVE ListsAreTyped'
  <2> DEFINE new == [gen |-> g, tab |-> t, pc |-> "asked", items |-> <<>>, read |-> 0]
  <2>1. loads' = loads \union {new} /\ new.items = <<>> /\ generation' <= LoadsMax  BY <1>4 DEF Load
  <2>2. \A u \in Tabs : lists'[u].kind \in Kinds /\ Cardwise(lists'[u].items)
    <3>1. CASE HasItems(lists[t])
      <4>1. lists' = [lists EXCEPT ![t] = lists[t]]  BY <1>4, <3>1 DEF Load
      <4> QED  BY <1>0, <4>1
    <3>2. CASE ~ HasItems(lists[t])
      <4>1. lists' = [lists EXCEPT ![t].kind = "loading"]  BY <1>4, <3>2 DEF Load
      <4> QED  BY <1>3, <4>1 DEF Kinds
    <3> QED  BY <3>1, <3>2
  <2> HIDE DEF new
  <2> QED  BY <1>2, <1>4, <2>1, <2>2 DEF ListsAreTyped
<1>5. ASSUME NEW t \in Tabs, Open(t) PROVE ListsAreTyped'  BY <1>4, <1>5 DEF Open, serverVars
<1>6. CASE Retry  BY <1>0, <1>4, <1>6 DEF Retry, serverVars
<1>7. ASSUME NEW l \in loads, ServerReads(l) PROVE ListsAreTyped'
  <2> DEFINE new == [gen |-> l.gen, tab |-> l.tab, pc |-> "read", items |-> Page(l.tab), read |-> version]
  <2>1. new.items = Page(l.tab) /\ Cardwise(Page(l.tab))  BY DEF Cardwise, Page
  <2>2. loads' = (loads \ {l}) \union {new} /\ UNCHANGED <<place, lists, generation, actions>>
    BY <1>7 DEF ServerReads, serverVars
  <2> HIDE DEF new
  <2> QED  BY <2>1, <2>2 DEF ListsAreTyped
<1>8. ASSUME NEW l \in loads, Answered(l) PROVE ListsAreTyped'
  <2>1. \A u \in Tabs : lists'[u].kind \in Kinds /\ Cardwise(lists'[u].items)
    <3>1. CASE UNCHANGED lists  BY <1>0, <3>1
    <3>2. CASE lists' = [lists EXCEPT ![l.tab] = [kind |-> "ready", items |-> l.items, read |-> l.read]]
      <4> DEFINE now == [kind |-> "ready", items |-> l.items, read |-> l.read]
      <4>1. now.kind \in Kinds /\ Cardwise(now.items)  BY DEF ListsAreTyped, Kinds
      <4>2. \A u \in Tabs : lists'[u] \in {now, lists[u]}  BY <1>0, <3>2
      <4> HIDE DEF now
      <4> QED  BY <1>0, <4>1, <4>2
    <3> QED  BY <1>8, <3>1, <3>2 DEF Answered, Delivered
  <2> QED  BY <1>8, <2>1 DEF Answered, serverVars, ListsAreTyped
<1>9. ASSUME NEW l \in loads, LoadFails(l) PROVE ListsAreTyped'
  <2>1. \A u \in Tabs : lists'[u].kind \in Kinds /\ Cardwise(lists'[u].items)
    <3>1. CASE UNCHANGED lists  BY <1>0, <3>1
    <3>2. CASE lists' = [lists EXCEPT ![l.tab].kind = IF HasItems(lists[l.tab]) THEN "stale" ELSE "error"]
      <4>1. l.tab \in Tabs  BY DEF ListsInv, LoadsInOrder
      <4>2. (IF HasItems(lists[l.tab]) THEN "stale" ELSE "error") \in Kinds  BY DEF Kinds
      <4> QED  BY <1>3, <3>2, <4>1, <4>2
    <3> QED  BY <1>9, <3>1, <3>2 DEF LoadFails, Degraded
  <2> QED  BY <1>9, <2>1 DEF LoadFails, serverVars, ListsAreTyped
\* An action comes, and the lists may be patched.
<1>10. ASSUME NEW a, actions' = actions \union {a}, Cardwise(a.snapshot),
              a \in [n : {a.n}, card : {a.card}, op : {a.op}, tab : {a.tab},
                     snapshot : {a.snapshot}, pc : {"sent", "done"}],
              UNCHANGED <<place, generation, loads>>,
              \A u \in Tabs : lists'[u].kind \in Kinds /\ Cardwise(lists'[u].items)
       PROVE  ListsAreTyped'
  BY <1>10 DEF ListsAreTyped
<1>11. ASSUME NEW c \in ListCards, NEW op \in {"archive", "return", "remove", "restore", "purge"}, Begin(c, op)
       PROVE  ListsAreTyped'
  <2> DEFINE a == [n |-> asked, card |-> c, op |-> op, tab |-> tab, snapshot |-> lists[tab].items, pc |-> "sent"]
  <2>1. /\ a.snapshot = lists[tab].items
        /\ a \in [n : {a.n}, card : {a.card}, op : {a.op}, tab : {a.tab},
                  snapshot : {a.snapshot}, pc : {"sent", "done"}]
    OBVIOUS
  <2>2. actions' = actions \union {a} /\ UNCHANGED <<place, generation, loads>>  BY <1>11 DEF Begin, serverVars
  <2>3. \A u \in Tabs : lists'[u].kind \in Kinds /\ Cardwise(lists'[u].items)
    <3>1. CASE Patch(LAMBDA items : Less(items, {c}))
      <4>1. \A t \in Tabs : \/ lists'[t] = lists[t]
                            \/ \E new : Cardwise(new) /\ lists'[t] = [lists[t] EXCEPT !.items = new]
        BY <1>0, <3>1, LessIsTyped DEF Patch
      <4> QED  BY <1>0, <4>1, PatchIsTyped
    <3>2. CASE UNCHANGED lists  BY <1>0, <3>2
    <3> QED  BY <1>11, <3>1, <3>2 DEF Begin
  <2> HIDE DEF a
  <2> QED  BY <1>0, <1>10, <2>1, <2>2, <2>3
<1>12. CASE BeginEmpty
  <2>1. PICK c \in Shown : actions' = actions \union
         {[n |-> asked, card |-> c, op |-> "empty", tab |-> "trash", snapshot |-> lists[tab].items, pc |-> "sent"]}
    BY <1>12 DEF BeginEmpty
  <2> DEFINE a == [n |-> asked, card |-> c, op |-> "empty", tab |-> "trash", snapshot |-> lists[tab].items, pc |-> "sent"]
  <2>2. /\ a.snapshot = lists[tab].items
        /\ a \in [n : {a.n}, card : {a.card}, op : {a.op}, tab : {a.tab},
                  snapshot : {a.snapshot}, pc : {"sent", "done"}]
    OBVIOUS
  <2>3. actions' = actions \union {a} /\ UNCHANGED <<place, generation, loads>>
    BY <1>12, <2>1 DEF BeginEmpty, serverVars
  <2>4. \A u \in Tabs : lists'[u].kind \in Kinds /\ Cardwise(lists'[u].items)
    <3>1. Patch(LAMBDA items : Less(items, {d \in DOMAIN items : items[d] = "trash"}))  BY <1>12 DEF BeginEmpty
    <3>2. \A t \in Tabs : \/ lists'[t] = lists[t]
                          \/ \E new : Cardwise(new) /\ lists'[t] = [lists[t] EXCEPT !.items = new]
      BY <1>0, <3>1, LessIsTyped DEF Patch
    <3> QED  BY <1>0, <3>2, PatchIsTyped
  <2> HIDE DEF a
  <2> QED  BY <1>0, <1>10, <2>2, <2>3, <2>4
<1>13. ASSUME NEW a \in actions, ServerActs(a) PROVE ListsAreTyped'
  <2> DEFINE b == [a EXCEPT !.pc = "done"]
  <2>1. a \in [n : {a.n}, card : {a.card}, op : {a.op}, tab : {a.tab}, snapshot : {a.snapshot}, pc : {"sent", "done"}]
      /\ Cardwise(a.snapshot)
    BY DEF ListsAreTyped
  <2>2. /\ b.snapshot = a.snapshot
        /\ b \in [n : {b.n}, card : {b.card}, op : {b.op}, tab : {b.tab},
                  snapshot : {b.snapshot}, pc : {"sent", "done"}]
    BY <2>1
  <2>3. place' \in [ListCards -> Places]
    <3>1. CASE a.op = "empty"  BY <1>0, <1>13, <3>1 DEF ServerActs, Places
    <3>2. CASE a.op # "empty" /\ a.card \in ListCards
      <4>1. Outcome(a.op, a.card) \in Places
        <5>1. place[a.card] \in Places  BY <1>0, <3>2
        <5> QED  BY <5>1 DEF Outcome, Places, Tabs
      <4> QED  BY <1>0, <1>13, <3>2, <4>1 DEF ServerActs
    <3>3. CASE a.op # "empty" /\ a.card \notin ListCards  BY <1>0, <1>13, <3>3 DEF ServerActs
    <3> QED  BY <3>1, <3>2, <3>3
  <2>4. actions' = (actions \ {a}) \union {b} /\ UNCHANGED <<lists, generation, loads>>  BY <1>13 DEF ServerActs
  <2> HIDE DEF b
  <2> QED  BY <2>1, <2>2, <2>3, <2>4 DEF ListsAreTyped
<1>14. ASSUME NEW a \in actions, Succeeds(a) PROVE ListsAreTyped'
  <2> DEFINE home == IF a.op = "archive" THEN "archive" ELSE "mine"
  <2>1. \A u \in Tabs : lists'[u].kind \in Kinds /\ Cardwise(lists'[u].items)
    <3>1. CASE Patch(LAMBDA items : Moved(items, a.card, home))
      <4> HIDE DEF home
      <4>1. \A t \in Tabs : \/ lists'[t] = lists[t]
                            \/ \E new : Cardwise(new) /\ lists'[t] = [lists[t] EXCEPT !.items = new]
        BY <1>0, <3>1, MovedIsTyped DEF Patch
      <4> QED  BY <1>0, <4>1, PatchIsTyped
    <3>2. CASE UNCHANGED lists  BY <1>0, <3>2
    <3> QED  BY <1>14, <3>1, <3>2 DEF Succeeds
  <2> QED  BY <1>14, <2>1 DEF Succeeds, serverVars, ListsAreTyped
<1>15. ASSUME NEW a \in actions, Fails(a) PROVE ListsAreTyped'
  <2>1. \A u \in Tabs : lists'[u].kind \in Kinds /\ Cardwise(lists'[u].items)
    <3>1. CASE UNCHANGED lists  BY <1>0, <3>1
    <3>2. CASE lists' = [lists EXCEPT ![a.tab].items = a.snapshot]
      <4> SUFFICES ASSUME NEW u \in Tabs PROVE lists'[u].kind \in Kinds /\ Cardwise(lists'[u].items)  OBVIOUS
      <4>1. Cardwise(a.snapshot)  BY DEF ListsAreTyped
      <4>2. lists'[u] = IF u = a.tab THEN [lists[u] EXCEPT !.items = a.snapshot] ELSE lists[u]  BY <1>0, <3>2
      <4>3. lists'[u].kind = lists[u].kind /\ lists'[u].items \in {a.snapshot, lists[u].items}  BY <1>0, <4>2
      <4> QED  BY <1>0, <4>1, <4>3
    <3> QED  BY <1>15, <3>1, <3>2 DEF Fails, Restored
  <2> QED  BY <1>15, <2>1 DEF Fails, serverVars, ListsAreTyped
<1> QED
  BY <1>1, <1>5, <1>6, <1>7, <1>8, <1>9, <1>11, <1>12, <1>13, <1>14, <1>15 DEF ListsNext

LEMMA ListsAreTypedAlways == ListsSpec => []ListsTypeOK
<1>1. ListsInit => ListsAreTyped
  <2> SUFFICES ASSUME ListsInit PROVE ListsAreTyped  OBVIOUS
  <2>1. place \in [ListCards -> Places] /\ generation <= LoadsMax
    BY ListsAssumption DEF ListsInit, Places, Tabs
  <2>2. \A t \in Tabs : lists[t].kind \in Kinds /\ lists[t].items = <<>>
    BY DEF ListsInit, Unset, Kinds
  <2>3. \A l \in loads : l.items = <<>>  BY DEF ListsInit
  <2>4. Cardwise(<<>>)  BY DEF Cardwise
  <2> QED  BY <2>1, <2>2, <2>3, <2>4 DEF ListsInit, ListsAreTyped
<1>2. ListsInv /\ ListsAreTyped => ListsTypeOK
  BY DEF ListsInv, ListRows, LoadsInOrder, ListsAreTyped, Cardwise, Kinds, ListsTypeOK
<1>3. ListsInv /\ ListsAreTyped /\ [ListsNext]_listVars => ListsInv' /\ ListsAreTyped'
  BY ListsInvIsInductive, ListsTypesStep
<1> QED  BY <1>1, <1>2, <1>3, ListsInvHoldsAtFirst, PTL DEF ListsSpec

\* Whatever is begun, stopped, lost or answered late, the screen tells the work under
\* way: a list that says it is loading has a reading to wait for (MyProcurementsApp.tsx),
\* a busy pane has a request of its own (ProcurementsApp.tsx), and a case shown as
\* running will be looked at again (SpecialistApp.tsx). Every part keeps to its types.
THEOREM TheConsoleIsTrue == DeskSpec => []ConsoleIsTrue
<1>1. DeskSpec => []DeskTypeOK
  BY AccountsAreTyped, RulesAreTypedAlways, ListsAreTypedAlways, ConsoleIsTyped, PaneIsSound, PTL
  DEF DeskSpec, DeskTypeOK
<1>2. DeskSpec => []LoadingIsTrue /\ []BusyIsTrue /\ []ProgressIsLive
  BY LoadingIsSaidTruly, PaneIsSound, ShownProgressIsFollowed, PTL DEF DeskSpec
<1> QED  BY <1>1, <1>2, PTL DEF ConsoleIsTrue
=============================================================================
