--------------------------- MODULE CaseFileProofs ---------------------------
(***************************************************************************)
(* Theorems about CaseFile, for every number of requests and every bound:  *)
(* its types, that nothing appears on a card in silence, that an answered  *)
(* decision is in the store, and that a job that is left alone keeps its   *)
(* flag.                                                                   *)
(***************************************************************************)
EXTENDS CaseFile, TLAPS

-----------------------------------------------------------------------------
(* Operators.                                                              *)

(* The three fixed actors and every visitor are actors. *)
LEMMA ActorsType ==
    /\ "job" \in Actors /\ "pass" \in Actors /\ "restart" \in Actors
    /\ "nobody" \notin Actors
    /\ \A v \in Visitors : v \in Actors /\ v # "job" /\ v # "pass" /\ v # "restart"
    BY VisitorsAssumption DEF Actors

(* A page lists files of the instance, and an unread page lists none.      *)
LEMMA PackType ==
    /\ \A page \in 0..MaxSite : Pack(page) \subseteq Files
    /\ Pack(NoPage) = {}
    /\ 0..MaxSite \subseteq Pages /\ NoPage \in Pages
    BY BoundsAssumption DEF Pack, Files, Pages, NoPage

(* The newest verdict of a journal is a verdict, or none for an empty one. *)
LEMMA LatestKindType ==
    ASSUME NEW journal \in SUBSET Decisions
    PROVE  LatestKind(journal) \in Kinds
<1>1. CASE Newest(journal) = {}
    BY <1>1 DEF LatestKind, Kinds
<1>2. CASE Newest(journal) # {}
    <2> DEFINE d == CHOOSE d \in Newest(journal) : TRUE
    <2>1. d \in Newest(journal)
        BY <1>2
    <2>2. d \in Decisions
        BY <2>1 DEF Newest
    <2> QED BY <1>2, <2>2 DEF LatestKind, Decisions, Kinds
<1> QED BY <1>1, <1>2

(* Replacing one field of a card leaves a card, and says which.            *)
LEMMA CardFields ==
    ASSUME NEW card \in Cards
    PROVE  /\ \A kind \in Kinds : LET c == [card EXCEPT !.kind = kind]
                                  IN c \in Cards /\ c.page = card.page
           /\ \A flag \in Flags : LET c == [card EXCEPT !.flag = flag]
                                  IN c \in Cards /\ c.page = card.page
           /\ \A page \in Pages : LET c == [card EXCEPT !.page = page]
                                  IN c \in Cards /\ c.page = page
           /\ \A docs \in SUBSET Files :
                  LET c == [card EXCEPT !.docs = docs, !.flag = "none"]
                  IN c \in Cards /\ c.page = card.page
    BY DEF Cards, Flags

(* Overlaying the journal changes nothing of a card but its triage. *)
LEMMA WithTriageType ==
    ASSUME NEW card \in Cards, NEW journal \in SUBSET Decisions
    PROVE  WithTriage(card, journal) \in Cards /\ WithTriage(card, journal).page = card.page
    BY LatestKindType, CardFields DEF WithTriage

(* A card that takes the page keeps its files and its flag. *)
LEMMA FreshType ==
    ASSUME TypeOK, NEW card \in Cards
    PROVE  Fresh(card) \in Cards /\ Fresh(card).page = site
<1>1. decisions \in SUBSET Decisions /\ site \in Pages
    BY PackType DEF TypeOK
<1>2. WithTriage(card, decisions) \in Cards
    BY <1>1, WithTriageType
<1> QED BY <1>1, <1>2, CardFields DEF Fresh

(* The missing card shows no page and carries no flag. *)
LEMMA AbsentIsNoCard == Absent \notin Cards /\ Absent.page = NoPage /\ Absent.flag = "none"
    BY DEF Absent, Cards, Kinds, Verdicts

(* Flagging a card gives a card with that flag. *)
LEMMA FlaggedType ==
    ASSUME NEW card \in Cards, NEW flag \in Flags
    PROVE  /\ Flagged(card, flag) \in Cards
           /\ Flagged(card, flag).page = card.page
           /\ JobEntry(card, flag) \in Busy
           /\ JobEntry(card, flag).at = "queued"
           /\ JobEntry(card, flag).op = "intent"
           /\ JobEntry(card, flag).card = Flagged(card, flag)
    BY CardFields DEF Flagged, JobEntry, Busy, Stages, Steps

(* A reindex is flagged as one, or as a download. *)
LEMMA ReindexFlagType == \A card : ReindexFlag(card) \in Flags
    BY DEF ReindexFlag, Flags

(* Idle is a well-typed state of an actor that carries no card. *)
LEMMA IdleType == Idle \in Busy /\ Idle.at = "idle" /\ Idle.op = "none" /\ Idle.card = Absent
    BY DEF Idle, Busy, Stages, Steps


-----------------------------------------------------------------------------
(* The writer chain.  An actor waits at most once, and only while it says  *)
(* so; the write in progress has its actor waiting for it.  Only an idle   *)
(* actor, or a restart that is due, carries no card.                       *)

HasCard(procs) == \A a \in Actors :
    procs[a].at \notin {"idle", "due"} => procs[a].card \in Cards

InLine(procs, line) ==
    /\ \A i \in 1..Len(line) : procs[line[i]].at = "queued"
    /\ \A i, j \in 1..Len(line) : line[i] = line[j] => i = j

AtDesk(procs, who) == who # "nobody" => procs[who].at = "writing"

Chain(procs, line, who) ==
    /\ procs \in [Actors -> Busy]
    /\ HasCard(procs)
    /\ line \in Seq(Actors)
    /\ InLine(procs, line)
    /\ who \in Actors \cup {"nobody"}
    /\ AtDesk(procs, who)

(* An actor that waits for no write may go on to anything but a write ...  *)
LEMMA ActorMoves ==
    ASSUME NEW procs, NEW line, NEW who, Chain(procs, line, who),
           NEW a \in Actors, procs[a].at \notin {"queued", "writing"},
           NEW b \in Busy, b.at # "queued",
           b.at \in {"idle", "due"} \/ b.card \in Cards
    PROVE  Chain([procs EXCEPT ![a] = b], line, who)
<1> DEFINE next == [procs EXCEPT ![a] = b]
<1>1. next \in [Actors -> Busy] /\ \A x \in Actors : next[x] = IF x = a THEN b ELSE procs[x]
    BY DEF Chain
<1> HIDE DEF next
<1>2. HasCard(next)
    BY <1>1 DEF Chain, HasCard
<1>3. \A i \in 1..Len(line) : line[i] \in Actors /\ line[i] # a
    BY DEF Chain, InLine
<1>4. InLine(next, line)
    BY <1>1, <1>3 DEF Chain, InLine
<1>5. AtDesk(next, who)
    BY <1>1 DEF Chain, AtDesk
<1> QED BY <1>1, <1>2, <1>4, <1>5 DEF Chain, next

(* ... or join the line.                                                   *)
LEMMA ActorQueues ==
    ASSUME NEW procs, NEW line, NEW who, Chain(procs, line, who),
           NEW a \in Actors, procs[a].at \notin {"queued", "writing"},
           NEW b \in Busy, b.at = "queued", b.card \in Cards
    PROVE  Chain([procs EXCEPT ![a] = b], Append(line, a), who)
<1> DEFINE next == [procs EXCEPT ![a] = b]
           longer == Append(line, a)
<1>1. next \in [Actors -> Busy] /\ \A x \in Actors : next[x] = IF x = a THEN b ELSE procs[x]
    BY DEF Chain
<1>2. \A i \in 1..Len(line) : line[i] \in Actors /\ line[i] # a
    BY DEF Chain, InLine
<1>3. /\ longer \in Seq(Actors) /\ Len(longer) = Len(line) + 1 /\ Len(line) \in Nat
      /\ \A i \in 1..Len(longer) :
            longer[i] = IF i = Len(line) + 1 THEN a ELSE line[i]
    BY DEF Chain
<1> HIDE DEF next, longer
<1>4. HasCard(next)
    BY <1>1 DEF Chain, HasCard
<1>5. \A i \in 1..Len(longer) : next[longer[i]].at = "queued"
    BY <1>1, <1>2, <1>3 DEF Chain, InLine
<1>6. \A i, j \in 1..Len(longer) : longer[i] = longer[j] => i = j
    BY <1>2, <1>3 DEF Chain, InLine
<1>7. AtDesk(next, who)
    BY <1>1 DEF Chain, AtDesk
<1> QED BY <1>1, <1>3, <1>4, <1>5, <1>6, <1>7 DEF Chain, InLine, next, longer

(* The head of the line goes to the desk when it is free.                  *)
LEMMA HeadWrites ==
    ASSUME NEW procs, NEW line, Chain(procs, line, "nobody"), line # <<>>
    PROVE  /\ Head(line) \in Actors
           /\ procs[Head(line)].at = "queued"
           /\ Chain([procs EXCEPT ![Head(line)].at = "writing"], Tail(line), Head(line))
<1> DEFINE a == Head(line)
           b == [procs[a] EXCEPT !.at = "writing"]
           next == [procs EXCEPT ![a] = b]
           rest == Tail(line)
<1>1. /\ Len(line) \in Nat /\ Len(line) >= 1 /\ a = line[1] /\ a \in Actors
      /\ rest \in Seq(Actors) /\ Len(rest) = Len(line) - 1
      /\ \A i \in 1..Len(rest) : rest[i] = line[i + 1]
    BY DEF Chain
<1>2. procs[a].at = "queued"
    BY <1>1 DEF Chain, InLine
<1>3. procs[a] \in Busy /\ procs[a].card \in Cards
    BY <1>1, <1>2 DEF Chain, HasCard
<1>4. b \in Busy /\ b.at = "writing" /\ b.card = procs[a].card
    BY <1>3 DEF Busy, Stages
<1> HIDE DEF b
<1>5. next \in [Actors -> Busy] /\ \A x \in Actors : next[x] = IF x = a THEN b ELSE procs[x]
    BY <1>1, <1>4 DEF Chain
<1>6. [procs EXCEPT ![a].at = "writing"] = next
    BY DEF next, b
<1> HIDE DEF next, rest, a
<1>7. HasCard(next)
    BY <1>3, <1>4, <1>5 DEF Chain, HasCard
<1>8. \A i \in 1..Len(rest) : i + 1 \in 1..Len(line) /\ rest[i] \in Actors
    BY <1>1
<1>9. \A i \in 1..Len(rest) : rest[i] # a
    BY <1>1, <1>8 DEF Chain, InLine
<1>10. \A i \in 1..Len(rest) : next[rest[i]].at = "queued"
    BY <1>1, <1>5, <1>8, <1>9 DEF Chain, InLine
<1>11. \A i, j \in 1..Len(rest) : rest[i] = rest[j] => i = j
    BY <1>1, <1>8 DEF Chain, InLine
<1>12. AtDesk(next, a)
    BY <1>1, <1>4, <1>5 DEF AtDesk
<1>13. Chain(next, rest, a)
    BY <1>1, <1>5, <1>7, <1>10, <1>11, <1>12 DEF Chain, InLine
<1> QED BY <1>1, <1>2, <1>6, <1>13 DEF a, rest

(* Done or failed, the actor leaves the desk.                              *)
LEMMA WriterLeaves ==
    ASSUME NEW procs, NEW line, NEW who, Chain(procs, line, who), who # "nobody",
           NEW at \in {"saved", "unsaved"}
    PROVE  /\ procs[who].at = "writing"
           /\ Chain([procs EXCEPT ![who].at = at], line, "nobody")
<1> DEFINE b == [procs[who] EXCEPT !.at = at]
           next == [procs EXCEPT ![who] = b]
<1>1. who \in Actors /\ procs[who].at = "writing" /\ procs[who] \in Busy
    BY DEF Chain, AtDesk
<1>2. procs[who].card \in Cards
    BY <1>1 DEF Chain, HasCard
<1>3. b \in Busy /\ b.at = at /\ b.card \in Cards
    BY <1>1, <1>2 DEF Busy, Stages
<1> HIDE DEF b
<1>4. next \in [Actors -> Busy] /\ \A x \in Actors : next[x] = IF x = who THEN b ELSE procs[x]
    BY <1>1, <1>3 DEF Chain
<1>5. [procs EXCEPT ![who].at = at] = next
    BY DEF next, b
<1> HIDE DEF next
<1>6. HasCard(next)
    BY <1>3, <1>4 DEF Chain, HasCard
<1>7. \A i \in 1..Len(line) : line[i] \in Actors /\ line[i] # who
    BY <1>1 DEF Chain, InLine
<1>8. InLine(next, line)
    BY <1>4, <1>7 DEF Chain, InLine
<1> QED BY <1>1, <1>4, <1>5, <1>6, <1>8 DEF Chain, AtDesk

-----------------------------------------------------------------------------
(* Types.                                                                  *)

TypeInv == TypeOK /\ Chain(proc, queue, write.who)

(* Starting a job, or dropping the request, keeps the chain.               *)
LEMMA Launches ==
    ASSUME TypeInv, NEW starts \in BOOLEAN, NEW card \in Cards, NEW flag \in Flags
    PROVE  /\ Chain(ProcWithJob(proc, starts, card, flag), QueueWithJob(starts), write.who)
           /\ \A x \in Actors : ProcWithJob(proc, starts, card, flag)[x] =
                 IF x = "job" /\ starts /\ JobFree THEN JobEntry(card, flag) ELSE proc[x]
<1>1. CASE starts /\ JobFree
    <2>1. proc \in [Actors -> Busy]
        BY DEF TypeInv, TypeOK
    <2>2. Chain([proc EXCEPT !["job"] = JobEntry(card, flag)], Append(queue, "job"), write.who)
        BY <1>1, FlaggedType, ActorsType, ActorQueues DEF TypeInv, JobFree
    <2> QED BY <1>1, <2>1, <2>2 DEF ProcWithJob, QueueWithJob
<1>2. CASE ~(starts /\ JobFree)
    BY <1>2 DEF ProcWithJob, QueueWithJob, TypeInv
<1> QED BY <1>1, <1>2

(* Starting a job leaves a card or none in memory. *)
LEMMA MemWithJobType ==
    ASSUME NEW current \in Cards \cup {Absent}, NEW starts,
           NEW card \in Cards, NEW flag \in Flags
    PROVE  MemWithJob(current, starts, card, flag) \in Cards \cup {Absent}
    BY FlaggedType DEF MemWithJob

(* Spending a visit, a pass or a fault leaves natural numbers. *)
LEMMA SpentType ==
    ASSUME TypeOK
    PROVE  /\ [spent EXCEPT !.visits = @ + 1] \in [visits : Nat, passes : Nat, faults : Nat]
           /\ [spent EXCEPT !.passes = @ + 1] \in [visits : Nat, passes : Nat, faults : Nat]
           /\ [spent EXCEPT !.faults = @ + 1] \in [visits : Nat, passes : Nat, faults : Nat]
    BY DEF TypeOK

(* resolveCase finds a card or none. *)
LEMMA StoredType == TypeOK => Stored \in Cards \cup {Absent}
    BY DEF TypeOK, Images, Stored

(* The initial states satisfy the type invariant. *)
LEMMA InitType == Init => TypeInv
<1> SUFFICES ASSUME Init PROVE TypeInv
    OBVIOUS
<1>1. proc \in [Actors -> Busy] /\ \A a \in Actors : proc[a].at = "idle"
    BY IdleType DEF Init
<1>2. disk \in Images
    <2>1. PICK page \in {NoPage, 0} :
             disk = [card |-> [page |-> page, docs |-> {}, flag |-> "none", kind |-> "none"],
                     decisions |-> {}, told |-> {}]
        BY DEF Init
    <2>2. page \in Pages
        BY PackType, BoundsAssumption
    <2> QED BY <2>1, <2>2 DEF Images, Cards, Flags, Kinds
<1>3. history \in Histories
    BY PackType, BoundsAssumption DEF Init, Histories
<1>4. write \in [who : Actors \cup {"nobody"}, image : Images] /\ write.who = "nobody"
    BY DEF Init, NoWrite, Images
<1>5. queue = <<>> /\ queue \in Seq(Actors) /\ Len(queue) = 0
    BY DEF Init
<1>6. TypeOK
    BY <1>1, <1>2, <1>3, <1>4, <1>5, BoundsAssumption DEF Init, TypeOK
<1> QED BY <1>1, <1>4, <1>5, <1>6 DEF TypeInv, Chain, HasCard, InLine, AtDesk

(* A request that arrives keeps the type invariant. *)
LEMMA ArriveType ==
    ASSUME TypeInv, NEW v \in Visitors, NEW op \in VisitOps, Arrive(v, op)
    PROVE  TypeInv'
<1> DEFINE card == WithTriage(Stored, decisions)
           b == IF op \in ReadOps
                THEN [at |-> "reading", op |-> op, card |-> card, made |-> 0]
                ELSE [at |-> "resolved", op |-> op, card |-> Stored, made |-> 0]
<1>1. Stored \in Cards /\ decisions \in SUBSET Decisions
    BY StoredType DEF Arrive, TypeInv, TypeOK
<1>2. card \in Cards
    BY <1>1, WithTriageType
<1>3. op \in Steps
    BY OpsAssumption DEF Steps
<1>4. b \in Busy /\ b.at \notin {"queued"} /\ b.card \in Cards
    BY <1>1, <1>2, <1>3 DEF Busy, Stages
<1>5. proc' = [proc EXCEPT ![v] = b] /\ proc[v].at = "idle"
    BY IdleType DEF Arrive
<1> HIDE DEF b
<1>6. Chain(proc', queue, write.who)
    BY <1>4, <1>5, ActorsType, ActorMoves DEF TypeInv
<1>7. proc' \in [Actors -> Busy]
    BY <1>6 DEF Chain
<1>8. TypeOK'
    BY <1>7, SpentType DEF Arrive, TypeInv, TypeOK, memory, durable
<1> QED BY <1>6, <1>8 DEF TypeInv, Arrive, durable

(* Going on without the store: the actor, and nobody else, has moved.      *)
LEMMA OneMoves ==
    ASSUME TypeInv, NEW a \in Actors, proc[a].at \notin {"queued", "writing"},
           NEW b \in Busy, b.at # "queued", b.at \in {"idle", "due"} \/ b.card \in Cards,
           proc' = [proc EXCEPT ![a] = b], UNCHANGED <<queue, write>>
    PROVE  /\ Chain(proc', queue', write'.who)
           /\ proc' \in [Actors -> Busy]
           /\ \A x \in Actors : proc'[x] = IF x = a THEN b ELSE proc[x]
<1>1. Chain(proc', queue, write.who)
    BY ActorMoves DEF TypeInv
<1> QED BY <1>1 DEF Chain, TypeInv

(* One actor that joins the queue, its entry saying so, keeps the chain sound. *)
LEMMA OneQueues ==
    ASSUME TypeInv, NEW a \in Actors, proc[a].at \notin {"queued", "writing"},
           NEW b \in Busy, b.at = "queued", b.card \in Cards,
           proc' = [proc EXCEPT ![a] = b], queue' = Append(queue, a), UNCHANGED write
    PROVE  /\ Chain(proc', queue', write'.who)
           /\ proc' \in [Actors -> Busy]
           /\ \A x \in Actors : proc'[x] = IF x = a THEN b ELSE proc[x]
<1>1. Chain(proc', queue', write.who)
    BY ActorQueues DEF TypeInv
<1> QED BY <1>1 DEF Chain, TypeInv

(* The copy a request stores or keeps waiting with.                        *)
Carries(v, stages, card, made) ==
    /\ proc'[v].at \in stages
    /\ proc'[v].op = proc[v].op
    /\ proc'[v].card = card
    /\ proc'[v].made = made
    /\ \A x \in Actors : x # v => proc'[x] = proc[x]

(* Storing a copy and asking for a write keeps types and chain. *)
LEMMA SaveMoves ==
    ASSUME TypeInv, NEW v \in Visitors, NEW card \in Cards, NEW made \in Nat,
           proc[v].at \in {"resolved", "reading"},
           StoreAndSave(v, card, made), UNCHANGED write
    PROVE  /\ Chain(proc', queue', write'.who)
           /\ Carries(v, {"queued"}, card, made)
           /\ mem' = card
<1> DEFINE b == [proc[v] EXCEPT !.at = "queued", !.card = card, !.made = made]
<1>1. v \in Actors /\ proc \in [Actors -> Busy] /\ proc[v] \in Busy
    BY ActorsType DEF TypeInv, TypeOK
<1>2. b \in Busy /\ b.at = "queued" /\ b.card = card /\ b.op = proc[v].op /\ b.made = made
    <2>1. "queued" \in Stages
        BY DEF Stages
    <2>2. proc[v] \in Busy
        BY <1>1
    <2> QED BY <2>1, <2>2 DEF Busy
<1>3. proc' = [proc EXCEPT ![v] = b] /\ queue' = Append(queue, v)
    BY <1>1 DEF StoreAndSave
<1> HIDE DEF b
<1>4. /\ Chain(proc', queue', write'.who)
      /\ \A x \in Actors : proc'[x] = IF x = v THEN b ELSE proc[x]
    BY <1>1, <1>2, <1>3, OneQueues
<1> QED BY <1>1, <1>2, <1>4 DEF Carries, StoreAndSave

(* Waiting for the page keeps types and chain. *)
LEMMA AwaitMoves ==
    ASSUME TypeInv, NEW v \in Visitors, NEW card \in Cards, NEW made \in Nat,
           proc[v].at = "resolved", AwaitPage(v, card, made), UNCHANGED write
    PROVE  /\ Chain(proc', queue', write'.who)
           /\ Carries(v, {"reading"}, card, made)
           /\ mem' = mem
<1> DEFINE b == [proc[v] EXCEPT !.at = "reading", !.card = card, !.made = made]
<1>1. v \in Actors /\ proc \in [Actors -> Busy] /\ proc[v] \in Busy
    BY ActorsType DEF TypeInv, TypeOK
<1>2. b \in Busy /\ b.at = "reading" /\ b.card = card /\ b.op = proc[v].op /\ b.made = made
    <2>1. "reading" \in Stages
        BY DEF Stages
    <2>2. proc[v] \in Busy
        BY <1>1
    <2> QED BY <2>1, <2>2 DEF Busy
<1>3. proc' = [proc EXCEPT ![v] = b] /\ queue' = queue
    BY <1>1 DEF AwaitPage
<1> HIDE DEF b
<1>4. /\ Chain(proc', queue', write'.who)
      /\ \A x \in Actors : proc'[x] = IF x = v THEN b ELSE proc[x]
    BY <1>1, <1>2, <1>3, OneMoves
<1> QED BY <1>1, <1>2, <1>4 DEF Carries, AwaitPage

(* Either way of hydrateSourceCard keeps types and chain. *)
LEMMA HydrateMoves ==
    ASSUME TypeInv, NEW v \in Visitors, NEW card \in Cards, NEW made \in Nat,
           proc[v].at = "resolved", Hydrate(v, card, made), UNCHANGED write
    PROVE  /\ Chain(proc', queue', write'.who)
           /\ Carries(v, {"queued", "reading"}, card, made)
           /\ mem' \in {mem, card}
<1>1. CASE card.kind \in Followed /\ card.page = NoPage
    <2>1. AwaitPage(v, card, made)
        BY <1>1 DEF Hydrate
    <2> QED BY <2>1, AwaitMoves DEF Carries
<1>2. CASE ~(card.kind \in Followed /\ card.page = NoPage)
    <2>1. StoreAndSave(v, card, made)
        BY <1>2 DEF Hydrate
    <2> QED BY <2>1, SaveMoves DEF Carries
<1> QED BY <1>1, <1>2

(* A request past its first step carries a card.                           *)
LEMMA CarriedCard ==
    ASSUME TypeInv
    PROVE  \A a \in Actors : proc[a].at \notin {"idle", "due"} => proc[a].card \in Cards
    BY DEF TypeInv, Chain, HasCard

(* A decision keeps the type invariant. *)
LEMMA DecideType ==
    ASSUME TypeInv, NEW v \in Visitors, Decide(v)
    PROVE  /\ TypeInv'
           /\ proc[v].card \in Cards
           /\ Carries(v, {"queued", "reading"}, [proc[v].card EXCEPT !.kind = proc[v].op], clock + 1)
           /\ mem' \in {mem, [proc[v].card EXCEPT !.kind = proc[v].op]}
<1> DEFINE card == [proc[v].card EXCEPT !.kind = proc[v].op]
<1>1. proc[v].card \in Cards
    BY CarriedCard, ActorsType DEF Decide
<1>2. card \in Cards
    BY <1>1, CardFields DEF Decide, Kinds
<1>3. clock + 1 \in Nat /\ proc[v].at = "resolved" /\ UNCHANGED write /\ Hydrate(v, card, clock + 1)
    BY DEF Decide, TypeInv, TypeOK
<1> HIDE DEF card
<1>4. /\ Chain(proc', queue', write'.who)
      /\ Carries(v, {"queued", "reading"}, card, clock + 1)
      /\ mem' \in {mem, card}
    BY <1>2, <1>3, HydrateMoves
<1>5. decisions' \subseteq Decisions
    BY DEF Decide, TypeInv, TypeOK, Decisions
<1>6. TypeOK'
    BY <1>2, <1>3, <1>4, <1>5 DEF Decide, TypeInv, TypeOK, Chain
<1> QED BY <1>1, <1>4, <1>6 DEF TypeInv, card

(* A restored refusal keeps the type invariant. *)
LEMMA TakeBackType ==
    ASSUME TypeInv, NEW v \in Visitors, TakeBack(v)
    PROVE  /\ TypeInv'
           /\ proc[v].card \in Cards
           /\ Carries(v, {"queued", "reading"},
                      [proc[v].card EXCEPT !.kind = LatestKind(Remaining)], clock)
           /\ mem' \in {mem, [proc[v].card EXCEPT !.kind = LatestKind(Remaining)]}
<1> DEFINE card == [proc[v].card EXCEPT !.kind = LatestKind(Remaining)]
<1>1. proc[v].card \in Cards
    BY CarriedCard, ActorsType DEF TakeBack
<1>2. Remaining \in SUBSET Decisions
    BY DEF Remaining, TypeInv, TypeOK
<1>3. card \in Cards
    BY <1>1, <1>2, CardFields, LatestKindType
<1>4. clock \in Nat /\ proc[v].at = "resolved" /\ UNCHANGED write /\ Hydrate(v, card, clock)
    BY DEF TakeBack, TypeInv, TypeOK
<1> HIDE DEF card
<1>5. /\ Chain(proc', queue', write'.who)
      /\ Carries(v, {"queued", "reading"}, card, clock)
      /\ mem' \in {mem, card}
    BY <1>3, <1>4, HydrateMoves
<1>6. history' \in Histories
    BY <1>4 DEF TakeBack, TypeInv, TypeOK, Histories
<1>7. TypeOK'
    BY <1>2, <1>3, <1>5, <1>6 DEF TakeBack, TypeInv, TypeOK, Chain
<1> QED BY <1>1, <1>5, <1>7 DEF TypeInv, card

(* An actor moves in the same step as it starts the job.                   *)
Launched(a, b, starts, card, flag) ==
    \A x \in Actors : proc'[x] =
        IF x = a THEN b
        ELSE IF x = "job" /\ starts /\ JobFree THEN JobEntry(card, flag) ELSE proc[x]

(* A job may be launched while another actor moves on without queueing. *)
LEMMA LaunchAndMove ==
    ASSUME TypeInv, NEW a \in Actors, a # "job", proc[a].at \notin {"queued", "writing"},
           NEW b \in Busy, b.at # "queued", b.at \in {"idle", "due"} \/ b.card \in Cards,
           NEW starts \in BOOLEAN, NEW card \in Cards, NEW flag \in Flags,
           proc' = ProcWithJob([proc EXCEPT ![a] = b], starts, card, flag),
           queue' = QueueWithJob(starts), UNCHANGED write
    PROVE  /\ Chain(proc', queue', write'.who)
           /\ proc' \in [Actors -> Busy]
           /\ Launched(a, b, starts, card, flag)
<1> DEFINE middle == ProcWithJob(proc, starts, card, flag)
<1>1. proc \in [Actors -> Busy]
    BY DEF TypeInv, TypeOK
<1>2. proc' = [middle EXCEPT ![a] = b]
    BY <1>1, ActorsType DEF ProcWithJob
<1>3. /\ Chain(middle, QueueWithJob(starts), write.who)
      /\ \A x \in Actors : middle[x] =
            IF x = "job" /\ starts /\ JobFree THEN JobEntry(card, flag) ELSE proc[x]
    BY Launches
<1> HIDE DEF middle
<1>4. middle[a] = proc[a] /\ middle \in [Actors -> Busy]
    BY <1>3 DEF Chain
<1>5. Chain(proc', queue', write.who)
    <2>1. Chain(middle, QueueWithJob(starts), write.who) /\ middle[a].at = proc[a].at
        BY <1>3, <1>4
    <2>2. Chain([middle EXCEPT ![a] = b], QueueWithJob(starts), write.who)
        BY <2>1, ActorMoves
    <2> QED BY <1>2, <2>2
<1>6. Launched(a, b, starts, card, flag)
    BY <1>2, <1>3, <1>4 DEF Launched
<1> QED BY <1>5, <1>6 DEF Chain

(* A job may be launched while another actor joins the queue behind it. *)
LEMMA LaunchAndQueue ==
    ASSUME TypeInv, NEW a \in Actors, a # "job", proc[a].at \notin {"queued", "writing"},
           NEW b \in Busy, b.at = "queued", b.card \in Cards,
           NEW starts \in BOOLEAN, NEW card \in Cards, NEW flag \in Flags,
           proc' = ProcWithJob([proc EXCEPT ![a] = b], starts, card, flag),
           queue' = Append(QueueWithJob(starts), a), UNCHANGED write
    PROVE  /\ Chain(proc', queue', write'.who)
           /\ proc' \in [Actors -> Busy]
           /\ Launched(a, b, starts, card, flag)
<1> DEFINE middle == ProcWithJob(proc, starts, card, flag)
<1>1. proc \in [Actors -> Busy]
    BY DEF TypeInv, TypeOK
<1>2. proc' = [middle EXCEPT ![a] = b]
    BY <1>1, ActorsType DEF ProcWithJob
<1>3. /\ Chain(middle, QueueWithJob(starts), write.who)
      /\ \A x \in Actors : middle[x] =
            IF x = "job" /\ starts /\ JobFree THEN JobEntry(card, flag) ELSE proc[x]
    BY Launches
<1> HIDE DEF middle
<1>4. middle[a] = proc[a] /\ middle \in [Actors -> Busy]
    BY <1>3 DEF Chain
<1>5. Chain(proc', queue', write.who)
    <2>1. Chain(middle, QueueWithJob(starts), write.who) /\ middle[a].at = proc[a].at
        BY <1>3, <1>4
    <2>2. Chain([middle EXCEPT ![a] = b], Append(QueueWithJob(starts), a), write.who)
        BY <2>1, ActorQueues
    <2> QED BY <1>2, <2>2
<1>6. Launched(a, b, starts, card, flag)
    BY <1>2, <1>3, <1>4 DEF Launched
<1> QED BY <1>5, <1>6 DEF Chain

(* A finished actor is idle, whatever else happens in the step.            *)
LEMMA GoesIdle ==
    ASSUME TypeInv, NEW a \in Actors, proc[a].at \notin {"queued", "writing"},
           proc' = [proc EXCEPT ![a] = Idle],
           UNCHANGED <<site, memory, durable, clock>>,
           spent' \in [visits : Nat, passes : Nat, faults : Nat], history' \in Histories
    PROVE  /\ TypeInv'
           /\ \A x \in Actors : proc'[x] = IF x = a THEN Idle ELSE proc[x]
<1>1. /\ Chain(proc', queue', write'.who)
      /\ proc' \in [Actors -> Busy]
      /\ \A x \in Actors : proc'[x] = IF x = a THEN Idle ELSE proc[x]
    BY IdleType, OneMoves DEF durable
<1> QED BY <1>1 DEF TypeInv, TypeOK, memory, durable

(* The inbox button "documents" keeps the type invariant. *)
LEMMA FetchDocumentsType ==
    ASSUME TypeInv, NEW v \in Visitors, FetchDocuments(v)
    PROVE  /\ TypeInv'
           /\ LET card == WithTriage(proc[v].card, decisions)
              IN /\ card \in Cards /\ card.page = proc[v].card.page
                 /\ mem' \in {card, Flagged(card, "ingest")}
                 /\ Launched(v, [proc[v] EXCEPT !.at = "queued"], TRUE, card, "ingest")
<1> DEFINE card == WithTriage(proc[v].card, decisions)
           b == [proc[v] EXCEPT !.at = "queued"]
<1>1. /\ v \in Actors /\ v # "job" /\ proc \in [Actors -> Busy] /\ proc[v] \in Busy
      /\ decisions \in SUBSET Decisions /\ proc[v].at = "resolved"
    BY ActorsType DEF TypeInv, TypeOK, FetchDocuments
<1>2. proc[v].card \in Cards
    BY <1>1, CarriedCard
<1>3. card \in Cards /\ card.page = proc[v].card.page
    BY <1>1, <1>2, WithTriageType
<1>4. b \in Busy /\ b.at = "queued" /\ b.card \in Cards
    BY <1>1, <1>2 DEF Busy, Stages
<1>5. "ingest" \in Flags
    BY DEF Flags
<1>6. /\ proc' = ProcWithJob([proc EXCEPT ![v] = b], TRUE, card, "ingest")
      /\ queue' = Append(QueueWithJob(TRUE), v)
      /\ mem' = MemWithJob(card, TRUE, card, "ingest")
      /\ UNCHANGED write
    BY <1>1 DEF FetchDocuments
<1> HIDE DEF card, b
<1>7. /\ Chain(proc', queue', write'.who)
      /\ proc' \in [Actors -> Busy]
      /\ Launched(v, b, TRUE, card, "ingest")
    BY <1>1, <1>3, <1>4, <1>5, <1>6, LaunchAndQueue
<1>8. mem' \in {card, Flagged(card, "ingest")} /\ mem' \in Cards \cup {Absent}
    BY <1>3, <1>5, <1>6, FlaggedType DEF MemWithJob
<1>9. queue' \in Seq(Actors)
    BY <1>7 DEF Chain
<1>10. TypeOK'
    BY <1>7, <1>8, <1>9 DEF FetchDocuments, TypeInv, TypeOK
<1> QED BY <1>3, <1>7, <1>8, <1>10 DEF TypeInv, card, b

(* applyFreshSourceCard: what it announces, and what the copy becomes.     *)
LEMMA AnnounceType ==
    ASSUME TypeOK, NEW card \in Cards, Announce(card)
    PROVE  /\ told' \subseteq Files /\ told \subseteq told'
           /\ history' \in Histories
           /\ history'.acked = history.acked /\ history'.undone = history.undone
           /\ history.quiet \subseteq history'.quiet
           /\ Pack(site) \subseteq (told' \cup history'.quiet) \cup Pack(card.page)
<1>1. Pack(site) \subseteq Files
    BY PackType DEF TypeOK
<1>2. Unannounced(card) \subseteq Files /\ News(card) \subseteq Files
    BY <1>1 DEF Unannounced, News
<1>3. Pack(site) \subseteq (News(card) \cup Unannounced(card)) \cup Pack(card.page)
    BY DEF News, Unannounced
<1> QED BY <1>1, <1>2, <1>3 DEF Announce, TypeOK, Histories

(* A page that arrives for a request keeps the type invariant. *)
LEMMA PageArrivesType ==
    ASSUME TypeInv, NEW v \in Visitors, PageArrives(v)
    PROVE  /\ TypeInv'
           /\ LET card == proc[v].card
                  next == Fresh(card)
              IN /\ card \in Cards /\ next \in Cards /\ next.page = site
                 /\ mem' = next
                 /\ Launched(v, [proc[v] EXCEPT !.at = "queued", !.card = next],
                             NewsStartsJob(card), next, "ingest")
<1> DEFINE card == proc[v].card
           next == Fresh(card)
           starts == NewsStartsJob(card)
           b == [proc[v] EXCEPT !.at = "queued", !.card = next]
<1>1. /\ v \in Actors /\ v # "job" /\ proc \in [Actors -> Busy] /\ proc[v] \in Busy
      /\ proc[v].at = "reading" /\ TypeOK
    BY ActorsType DEF TypeInv, TypeOK, PageArrives
<1>2. card \in Cards
    BY <1>1, CarriedCard
<1>3. next \in Cards /\ next.page = site
    BY <1>1, <1>2, FreshType
<1> HIDE DEF next
<1>4. b \in Busy /\ b.at = "queued" /\ b.card \in Cards
    BY <1>1, <1>3 DEF Busy, Stages
<1>5. "ingest" \in Flags /\ starts \in BOOLEAN
    BY DEF Flags, NewsStartsJob
<1>6. /\ proc' = ProcWithJob([proc EXCEPT ![v] = b], starts, next, "ingest")
      /\ queue' = Append(QueueWithJob(starts), v)
      /\ mem' = next
      /\ UNCHANGED write
      /\ Announce(card)
    BY <1>1 DEF PageArrives, next
<1> HIDE DEF card, b, starts
<1>7. /\ Chain(proc', queue', write'.who)
      /\ proc' \in [Actors -> Busy]
      /\ Launched(v, b, starts, next, "ingest")
    BY <1>1, <1>3, <1>4, <1>5, <1>6, LaunchAndQueue
<1>8. queue' \in Seq(Actors)
    BY <1>7 DEF Chain
<1>9. told' \subseteq Files /\ history' \in Histories
    BY <1>1, <1>2, <1>6, AnnounceType
<1>10. TypeOK'
    BY <1>3, <1>6, <1>7, <1>8, <1>9 DEF PageArrives, TypeInv, TypeOK
<1> QED BY <1>2, <1>3, <1>6, <1>7, <1>10 DEF TypeInv, card, next, starts, b

(* Counting a fault keeps the type of the counters. *)
LEMMA FaultType == TypeOK /\ Fault => spent' \in [visits : Nat, passes : Nat, faults : Nat]
    BY SpentType DEF Fault

(* A page that fails for a request keeps the type invariant. *)
LEMMA PageFailsType ==
    ASSUME TypeInv, NEW v \in Visitors, PageFails(v)
    PROVE  /\ TypeInv'
           /\ \/ /\ mem' = mem
                 /\ \A x \in Actors : proc'[x] = IF x = v THEN Idle ELSE proc[x]
              \/ /\ mem' = proc[v].card
                 /\ Carries(v, {"queued"}, proc[v].card, proc[v].made)
<1>1. /\ v \in Actors /\ proc[v] \in Busy /\ proc[v].at = "reading" /\ TypeOK
    BY ActorsType DEF TypeInv, TypeOK, PageFails
<1>2. proc[v].card \in Cards /\ proc[v].made \in Nat
    BY <1>1, CarriedCard DEF Busy
<1>3. spent' \in [visits : Nat, passes : Nat, faults : Nat]
    BY <1>1, FaultType DEF PageFails
<1>4. CASE proc[v].op = "open"
    <2>1. /\ proc' = [proc EXCEPT ![v] = Idle] /\ UNCHANGED <<mem, queue>>
          /\ UNCHANGED <<site, memory, durable, clock>> /\ UNCHANGED history
        BY <1>4 DEF PageFails, memory, durable
    <2>2. history' \in Histories
        BY <2>1 DEF TypeInv, TypeOK
    <2> QED BY <1>1, <1>3, <2>1, <2>2, GoesIdle
<1>5. CASE proc[v].op # "open"
    <2>1. StoreAndSave(v, proc[v].card, proc[v].made) /\ UNCHANGED write
        BY <1>5 DEF PageFails
    <2>2. /\ Chain(proc', queue', write'.who)
          /\ Carries(v, {"queued"}, proc[v].card, proc[v].made)
          /\ mem' = proc[v].card
        BY <1>1, <1>2, <2>1, SaveMoves
    <2>3. TypeOK'
        BY <1>2, <1>3, <2>2 DEF PageFails, TypeInv, TypeOK, Chain
    <2> QED BY <2>2, <2>3 DEF TypeInv
<1> QED BY <1>4, <1>5

(* Answering a request keeps the type invariant. *)
LEMMA AnswerType ==
    ASSUME TypeInv, NEW v \in Visitors, Answer(v)
    PROVE  /\ TypeInv'
           /\ proc[v].card \in Cards
           /\ \E starts \in BOOLEAN, flag \in Flags :
                 /\ Launched(v, Idle, starts, proc[v].card, flag)
                 /\ mem' \in {mem, Flagged(proc[v].card, flag)}
<1> DEFINE p == proc[v]
           starts == \/ p.op = "participate"
                     \/ p.op \in {"restore", "reindex"} /\ p.card.kind = "participate"
           flag == IF p.op = "reindex" THEN ReindexFlag(p.card) ELSE "ingest"
<1>1. /\ v \in Actors /\ v # "job" /\ proc \in [Actors -> Busy] /\ p \in Busy /\ p.at = "saved"
    BY ActorsType DEF TypeInv, TypeOK, Answer
<1>2. p.card \in Cards
    BY <1>1, CarriedCard
<1>3. starts \in BOOLEAN /\ flag \in Flags
    BY ReindexFlagType DEF Flags
<1>4. /\ proc' = ProcWithJob([proc EXCEPT ![v] = Idle], starts, p.card, flag)
      /\ queue' = QueueWithJob(starts)
      /\ mem' = MemWithJob(mem, starts, p.card, flag)
      /\ UNCHANGED write
    BY DEF Answer
<1>5. history' \in Histories
    <2>1. [at |-> p.made, kind |-> p.op] \in Decisions \/ p.op \notin Verdicts
        BY <1>1 DEF Busy, Decisions
    <2>2. history' = Answered(p) /\ history \in Histories /\ p.made \in Nat
        BY <1>1 DEF Answer, TypeInv, TypeOK, Busy
    <2> QED BY <2>1, <2>2 DEF Answered, Histories
<1> HIDE DEF p, starts, flag
<1>6. /\ Chain(proc', queue', write'.who)
      /\ proc' \in [Actors -> Busy]
      /\ Launched(v, Idle, starts, p.card, flag)
    <2>1. p.at \notin {"queued", "writing"} /\ p = proc[v]
        BY <1>1 DEF p
    <2> QED BY <1>1, <1>2, <1>3, <1>4, <2>1, IdleType, LaunchAndMove
<1>7. mem' \in {mem, Flagged(p.card, flag)} /\ mem' \in Cards \cup {Absent}
    BY <1>2, <1>3, <1>4, FlaggedType DEF MemWithJob, TypeInv, TypeOK
<1>8. queue' \in Seq(Actors)
    BY <1>6 DEF Chain
<1>9. TypeOK'
    BY <1>5, <1>6, <1>7, <1>8 DEF Answer, TypeInv, TypeOK
<1> QED BY <1>2, <1>3, <1>6, <1>7, <1>9 DEF TypeInv, p

(* A watch pass that starts keeps the type invariant. *)
LEMMA PassListsType ==
    ASSUME TypeInv, PassLists
    PROVE  /\ TypeInv'
           /\ disk.card \in Cards
           /\ \A x \in Actors : x # "pass" => proc'[x] = proc[x]
           /\ proc'["pass"].op = "watch" /\ proc'["pass"].card.page = disk.card.page
<1> DEFINE b == [at |-> "reading", op |-> "watch",
                 card |-> WithTriage(disk.card, decisions), made |-> 0]
<1>1. disk.card \in Cards /\ decisions \in SUBSET Decisions
    BY DEF PassLists, TypeInv, TypeOK, Images, Absent, Followed
<1>2. b.card \in Cards /\ b.card.page = disk.card.page
    BY <1>1, WithTriageType
<1>3. b \in Busy /\ b.at = "reading" /\ b.op = "watch"
    BY <1>2 DEF Busy, Stages, Steps
<1>4. /\ "pass" \in Actors /\ proc["pass"].at = "idle" /\ proc' = [proc EXCEPT !["pass"] = b]
      /\ UNCHANGED <<queue, write>>
    BY ActorsType, IdleType DEF PassLists, durable
<1> HIDE DEF b
<1>5. /\ Chain(proc', queue', write'.who)
      /\ proc' \in [Actors -> Busy]
      /\ \A x \in Actors : proc'[x] = IF x = "pass" THEN b ELSE proc[x]
    BY <1>2, <1>3, <1>4, OneMoves
<1>6. TypeOK'
    BY <1>5, SpentType DEF PassLists, TypeInv, TypeOK, memory, durable
<1> QED BY <1>1, <1>2, <1>3, <1>4, <1>5, <1>6 DEF TypeInv

(* A page read by the watch pass keeps the type invariant. *)
LEMMA PassReadsType ==
    ASSUME TypeInv, PassReads
    PROVE  /\ TypeInv'
           /\ LET card == proc["pass"].card
                  next == Fresh(card)
              IN /\ card \in Cards /\ next \in Cards /\ next.page = site
                 /\ mem' = next
                 /\ Launched("pass", [proc["pass"] EXCEPT !.at = "surveying"],
                             NewsStartsJob(card), next, "ingest")
<1> DEFINE card == proc["pass"].card
           next == Fresh(card)
           starts == NewsStartsJob(card)
           b == [proc["pass"] EXCEPT !.at = "surveying"]
<1>1. /\ "pass" \in Actors /\ proc \in [Actors -> Busy] /\ proc["pass"] \in Busy
      /\ proc["pass"].at = "reading" /\ TypeOK
    BY ActorsType DEF TypeInv, TypeOK, PassReads
<1>2. card \in Cards
    BY <1>1, CarriedCard
<1>3. next \in Cards /\ next.page = site
    BY <1>1, <1>2, FreshType
<1> HIDE DEF next
<1>4. b \in Busy /\ b.at = "surveying" /\ b.card \in Cards
    BY <1>1, <1>2 DEF Busy, Stages
<1>5. "ingest" \in Flags /\ starts \in BOOLEAN
    BY DEF Flags, NewsStartsJob
<1>6. /\ proc' = ProcWithJob([proc EXCEPT !["pass"] = b], starts, next, "ingest")
      /\ queue' = QueueWithJob(starts)
      /\ mem' = next
      /\ UNCHANGED write
      /\ Announce(card)
    BY <1>1 DEF PassReads, next
<1> HIDE DEF card, b, starts
<1>7. /\ Chain(proc', queue', write'.who)
      /\ proc' \in [Actors -> Busy]
      /\ Launched("pass", b, starts, next, "ingest")
    BY <1>1, <1>3, <1>4, <1>5, <1>6, LaunchAndMove
<1>8. queue' \in Seq(Actors)
    BY <1>7 DEF Chain
<1>9. told' \subseteq Files /\ history' \in Histories
    BY <1>1, <1>2, <1>6, AnnounceType
<1>10. TypeOK'
    BY <1>3, <1>6, <1>7, <1>8, <1>9 DEF PassReads, TypeInv, TypeOK
<1> QED BY <1>2, <1>3, <1>6, <1>7, <1>10 DEF TypeInv, card, next, starts, b

(* An actor that joins the line or waits, with the memory as it is.        *)
LEMMA PassSavesType ==
    ASSUME TypeInv, PassSaves
    PROVE  /\ TypeInv'
           /\ \A x \in Actors : proc'[x] =
                 IF x = "pass" THEN [proc["pass"] EXCEPT !.at = "queued"] ELSE proc[x]
<1> DEFINE b == [proc["pass"] EXCEPT !.at = "queued"]
<1>1. /\ "pass" \in Actors /\ proc["pass"] \in Busy /\ proc["pass"].at = "surveying"
      /\ proc \in [Actors -> Busy]
    BY ActorsType DEF TypeInv, TypeOK, PassSaves
<1>2. proc["pass"].card \in Cards
    BY <1>1, CarriedCard
<1>3. b \in Busy /\ b.at = "queued" /\ b.card \in Cards
    BY <1>1, <1>2 DEF Busy, Stages
<1>4. proc' = [proc EXCEPT !["pass"] = b] /\ queue' = Append(queue, "pass") /\ UNCHANGED write
    BY <1>1 DEF PassSaves
<1> HIDE DEF b
<1>5. /\ Chain(proc', queue', write'.who)
      /\ proc' \in [Actors -> Busy]
      /\ \A x \in Actors : proc'[x] = IF x = "pass" THEN b ELSE proc[x]
    BY <1>1, <1>3, <1>4, OneQueues
<1>6. queue' \in Seq(Actors)
    BY <1>5 DEF Chain
<1>7. TypeOK'
    BY <1>5, <1>6 DEF PassSaves, TypeInv, TypeOK, memory
<1> QED BY <1>5, <1>7 DEF TypeInv, b

(* A download that begins keeps the type invariant. *)
LEMMA JobFetchesType ==
    ASSUME TypeInv, JobFetches
    PROVE  /\ TypeInv'
           /\ \A x \in Actors : proc'[x] =
                 IF x = "job" THEN [proc["job"] EXCEPT !.at = "fetching"] ELSE proc[x]
<1> DEFINE b == [proc["job"] EXCEPT !.at = "fetching"]
<1>1. /\ "job" \in Actors /\ proc["job"] \in Busy /\ proc["job"].at = "saved"
      /\ proc \in [Actors -> Busy]
    BY ActorsType DEF TypeInv, TypeOK, JobFetches
<1>2. proc["job"].card \in Cards
    BY <1>1, CarriedCard
<1>3. b \in Busy /\ b.at = "fetching" /\ b.card \in Cards
    BY <1>1, <1>2 DEF Busy, Stages
<1>4. proc' = [proc EXCEPT !["job"] = b] /\ UNCHANGED <<queue, write>>
    BY <1>1 DEF JobFetches, durable
<1> HIDE DEF b
<1>5. /\ Chain(proc', queue', write'.who)
      /\ proc' \in [Actors -> Busy]
      /\ \A x \in Actors : proc'[x] = IF x = "job" THEN b ELSE proc[x]
    BY <1>1, <1>3, <1>4, OneMoves
<1>6. TypeOK'
    BY <1>5 DEF JobFetches, TypeInv, TypeOK, memory, durable
<1> QED BY <1>5, <1>6 DEF TypeInv, b

(* Both ends of a job: its card loses the flag, and waits for a write.     *)
LEMMA JobQueues ==
    ASSUME TypeInv, proc["job"].at \notin {"idle", "due", "queued", "writing"},
           NEW op \in Steps,
           proc' = [proc EXCEPT !["job"].at = "queued", !["job"].op = op],
           queue' = Append(queue, "job"), UNCHANGED write
    PROVE  /\ Chain(proc', queue', write'.who)
           /\ proc' \in [Actors -> Busy]
           /\ \A x \in Actors : proc'[x] =
                 IF x = "job" THEN [proc["job"] EXCEPT !.at = "queued", !.op = op] ELSE proc[x]
<1> DEFINE b == [proc["job"] EXCEPT !.at = "queued", !.op = op]
<1>1. "job" \in Actors /\ proc["job"] \in Busy /\ proc \in [Actors -> Busy]
    BY ActorsType DEF TypeInv, TypeOK
<1>2. proc["job"].card \in Cards
    BY <1>1, CarriedCard
<1>3. b \in Busy /\ b.at = "queued" /\ b.card \in Cards
    BY <1>1, <1>2 DEF Busy, Stages
<1>4. proc' = [proc EXCEPT !["job"] = b]
    BY <1>1
<1> HIDE DEF b
<1>5. /\ Chain(proc', queue', write'.who)
      /\ proc' \in [Actors -> Busy]
      /\ \A x \in Actors : proc'[x] = IF x = "job" THEN b ELSE proc[x]
    BY <1>1, <1>3, <1>4, OneQueues
<1> QED BY <1>5 DEF b

(* Whatever a download brings is a set of files. *)
LEMMA DownloadsType ==
    ASSUME TypeOK, NEW card \in Cards, NEW docs \in Downloads(card)
    PROVE  docs \in SUBSET Files
<1>1. Pack(site) \subseteq Files /\ card.docs \subseteq Files
    BY PackType DEF TypeOK, Cards
<1> QED BY <1>1 DEF Downloads

(* A job that delivers keeps the type invariant. *)
LEMMA JobDeliversType ==
    ASSUME TypeInv, JobDelivers
    PROVE  /\ TypeInv'
           /\ proc["job"].card \in Cards
           /\ mem' \in Cards /\ mem'.page = proc["job"].card.page
           /\ \A x \in Actors : proc'[x] =
                 IF x = "job" THEN [proc["job"] EXCEPT !.at = "queued", !.op = "finish"]
                 ELSE proc[x]
<1>1. /\ proc["job"].at = "fetching" /\ "finish" \in Steps /\ TypeOK
      /\ decisions \in SUBSET Decisions
    BY DEF JobDelivers, Steps, TypeInv, TypeOK
<1>2. proc["job"].card \in Cards
    BY <1>1, CarriedCard, ActorsType
<1>3. PICK docs \in Downloads(proc["job"].card) :
         mem' = [WithTriage(proc["job"].card, decisions) EXCEPT !.docs = docs, !.flag = "none"]
    BY DEF JobDelivers
<1>4. mem' \in Cards /\ mem'.page = proc["job"].card.page
    <2>1. docs \in SUBSET Files
        BY <1>1, <1>2, DownloadsType
    <2>2. /\ WithTriage(proc["job"].card, decisions) \in Cards
          /\ WithTriage(proc["job"].card, decisions).page = proc["job"].card.page
        BY <1>1, <1>2, WithTriageType
    <2> QED BY <1>3, <2>1, <2>2, CardFields
<1>5. /\ Chain(proc', queue', write'.who)
      /\ proc' \in [Actors -> Busy]
      /\ \A x \in Actors : proc'[x] =
            IF x = "job" THEN [proc["job"] EXCEPT !.at = "queued", !.op = "finish"] ELSE proc[x]
    BY <1>1, JobQueues DEF JobDelivers
<1>6. queue' \in Seq(Actors)
    BY <1>5 DEF Chain
<1>7. TypeOK'
    BY <1>4, <1>5, <1>6 DEF JobDelivers, TypeInv, TypeOK
<1> QED BY <1>2, <1>4, <1>5, <1>7 DEF TypeInv

(* The catch block of a job keeps the type invariant. *)
LEMMA JobCleansUpType ==
    ASSUME TypeInv, proc["job"].at \in {"fetching", "unsaved"}, JobCleansUp,
           spent' \in [visits : Nat, passes : Nat, faults : Nat]
    PROVE  /\ TypeInv'
           /\ mem'.page = mem.page
           /\ \A x \in Actors : proc'[x] =
                 IF x = "job" THEN [proc["job"] EXCEPT !.at = "queued", !.op = "clean"]
                 ELSE proc[x]
<1>1. mem' \in Cards \cup {Absent} /\ mem'.page = mem.page
    <2>1. CASE mem \in Cards
        BY <2>1, CardFields DEF JobCleansUp, Flags
    <2>2. CASE mem = Absent
        BY <2>2 DEF JobCleansUp, Absent
    <2> QED BY <2>1, <2>2 DEF TypeInv, TypeOK
<1>2. /\ Chain(proc', queue', write'.who)
      /\ proc' \in [Actors -> Busy]
      /\ \A x \in Actors : proc'[x] =
            IF x = "job" THEN [proc["job"] EXCEPT !.at = "queued", !.op = "clean"] ELSE proc[x]
    BY JobQueues DEF JobCleansUp, Steps
<1>3. queue' \in Seq(Actors)
    BY <1>2 DEF Chain
<1>4. TypeOK'
    BY <1>1, <1>2, <1>3 DEF JobCleansUp, TypeInv, TypeOK
<1> QED BY <1>1, <1>2, <1>4 DEF TypeInv

(* A saved image leaves a well-typed store. *)
LEMMA SaveCabinetType ==
    ASSUME TypeOK, NEW image \in Images
    PROVE  /\ SaveCabinet(image) \in Images
           /\ SaveCabinet(image).card.page \in {image.card.page, disk.card.page}
           /\ image.card # Absent => SaveCabinet(image).card.page = image.card.page
           /\ SaveCabinet(image).decisions = disk.decisions \cup image.decisions
           /\ SaveCabinet(image).told = image.told
<1>1. disk.card \in Cards \cup {Absent} /\ image.card \in Cards \cup {Absent}
    BY DEF TypeOK, Images
<1>2. CASE image.card = Absent
    BY <1>1, <1>2 DEF SaveCabinet, Row, Images, TypeOK
<1>3. CASE image.card # Absent /\ image.card.kind = "none" /\ disk.card # Absent
    <2>1. disk.card.kind \in Kinds /\ image.card \in Cards
        BY <1>1, <1>3 DEF Cards
    <2>2. Row(image.card) \in Cards /\ Row(image.card).page = image.card.page
        BY <1>3, <2>1, CardFields DEF Row
    <2> QED BY <1>3, <2>2 DEF SaveCabinet, Images, TypeOK
<1>4. CASE image.card # Absent /\ ~(image.card.kind = "none" /\ disk.card # Absent)
    BY <1>1, <1>4 DEF SaveCabinet, Row, Images, TypeOK
<1> QED BY <1>2, <1>3, <1>4

(* A write whose turn comes keeps the type invariant. *)
LEMMA WriteBeginsType ==
    ASSUME TypeInv, WriteBegins
    PROVE  /\ TypeInv'
           /\ Head(queue) \in Actors
           /\ proc[Head(queue)].at = "queued"
           /\ \A x \in Actors : proc'[x] =
                 IF x = Head(queue) THEN [proc[x] EXCEPT !.at = "writing"] ELSE proc[x]
<1>1. /\ Head(queue) \in Actors
      /\ proc[Head(queue)].at = "queued"
      /\ Chain([proc EXCEPT ![Head(queue)].at = "writing"], Tail(queue), Head(queue))
    BY HeadWrites DEF WriteBegins, TypeInv
<1>2. write'.who = Head(queue) /\ Chain(proc', queue', write'.who)
    BY <1>1 DEF WriteBegins
<1>3. write' \in [who : Actors \cup {"nobody"}, image : Images]
    BY <1>1 DEF WriteBegins, Images, TypeInv, TypeOK
<1>4. TypeOK'
    BY <1>2, <1>3 DEF WriteBegins, TypeInv, TypeOK, Chain, memory
<1>5. \A x \in Actors : proc'[x] =
          IF x = Head(queue) THEN [proc[x] EXCEPT !.at = "writing"] ELSE proc[x]
    BY <1>1 DEF WriteBegins, TypeInv, TypeOK
<1> QED BY <1>1, <1>2, <1>4, <1>5 DEF TypeInv

(* The idle writer is well typed. *)
LEMMA NoWriteType ==
    NoWrite \in [who : Actors \cup {"nobody"}, image : Images] /\ NoWrite.who = "nobody"
    BY DEF NoWrite, Images

(* A write that ends, either way, keeps types and chain. *)
LEMMA WriteEndsType ==
    ASSUME TypeInv, WriteCommits \/ WriteFails
    PROVE  /\ TypeInv'
           /\ proc[write.who].at = "writing" /\ write.who \in Actors
           /\ \A x \in Actors : x # write.who => proc'[x] = proc[x]
           /\ LET a == write.who
              IN /\ proc'[a].at = IF WriteCommits THEN "saved" ELSE "unsaved"
                 /\ proc'[a].op = proc[a].op /\ proc'[a].card = proc[a].card
                 /\ proc'[a].made = proc[a].made
<1>1. PICK at \in {"saved", "unsaved"} :
         /\ proc' = [proc EXCEPT ![write.who].at = at]
         /\ at = IF WriteCommits THEN "saved" ELSE "unsaved"
    <2>1. CASE WriteCommits
        BY <2>1 DEF WriteCommits
    <2>2. CASE ~WriteCommits
        BY <2>2 DEF WriteFails
    <2> QED BY <2>1, <2>2
<1>2. /\ write.who # "nobody" /\ write' = NoWrite /\ UNCHANGED <<queue, site, memory, clock, history>>
    BY DEF WriteCommits, WriteFails
<1>3. /\ proc[write.who].at = "writing"
      /\ Chain([proc EXCEPT ![write.who].at = at], queue, "nobody")
    BY <1>2, WriterLeaves DEF TypeInv
<1>4. Chain(proc', queue', write'.who)
    BY <1>1, <1>2, <1>3, NoWriteType
<1>5. write.who \in Actors /\ proc \in [Actors -> Busy] /\ proc[write.who] \in Busy
    BY <1>2 DEF TypeInv, TypeOK
<1>6. disk' \in Images /\ spent' \in [visits : Nat, passes : Nat, faults : Nat]
    <2>1. CASE WriteCommits
        BY <2>1, SaveCabinetType DEF WriteCommits, TypeInv, TypeOK
    <2>2. CASE WriteFails
        BY <2>2, FaultType DEF WriteFails, TypeInv, TypeOK
    <2> QED BY <2>1, <2>2
<1>7. TypeOK'
    BY <1>2, <1>4, <1>6, NoWriteType DEF TypeInv, TypeOK, Chain, memory
<1>8. /\ proc'[write.who] = [proc[write.who] EXCEPT !.at = at]
      /\ \A x \in Actors : x # write.who => proc'[x] = proc[x]
    BY <1>1, <1>5
<1> QED BY <1>1, <1>3, <1>4, <1>5, <1>7, <1>8 DEF TypeInv, Busy

(* After a crash memory holds what the store holds, and no card.           *)
LEMMA CrashType ==
    ASSUME TypeInv, Crash
    PROVE  /\ TypeInv'
           /\ mem' = Absent /\ write' = NoWrite
           /\ \A x \in Actors : proc'[x].at \in {"idle", "due"} /\ proc'[x].op = "none"
                                /\ proc'[x].card = Absent
           /\ decisions' = disk'.decisions /\ told' = disk'.told
           /\ disk' = disk \/ (write.who # "nobody" /\ disk' = SaveCabinet(write.image))
<1>1. PICK landed \in {disk, IF write.who = "nobody" THEN disk ELSE SaveCabinet(write.image)} :
         disk' = landed /\ decisions' = landed.decisions /\ told' = landed.told
    BY DEF Crash
<1>2. disk' \in Images
    BY <1>1, SaveCabinetType DEF TypeInv, TypeOK
<1>3. /\ proc' = [a \in Actors |-> IF a = "restart" THEN [Idle EXCEPT !.at = "due"] ELSE Idle]
      /\ mem' = Absent /\ queue' = <<>> /\ write' = NoWrite
      /\ spent' \in [visits : Nat, passes : Nat, faults : Nat]
    BY FaultType DEF Crash, TypeInv
<1>4. [Idle EXCEPT !.at = "due"] \in Busy
    BY DEF Idle, Busy, Stages, Steps
<1>5. proc' \in [Actors -> Busy]
    BY <1>3, <1>4, IdleType
<1>6. \A x \in Actors : proc'[x].at \in {"idle", "due"} /\ proc'[x].op = "none"
                         /\ proc'[x].card = Absent
    BY <1>3 DEF Idle
<1>7. queue' \in Seq(Actors) /\ Len(queue') = 0
    BY <1>3
<1>8. Chain(proc', queue', write'.who)
    BY <1>3, <1>5, <1>6, <1>7, NoWriteType DEF Chain, HasCard, InLine, AtDesk
<1>9. TypeOK'
    BY <1>1, <1>2, <1>3, <1>5, <1>7, NoWriteType DEF Crash, TypeInv, TypeOK, Images
<1> QED BY <1>1, <1>3, <1>6, <1>8, <1>9 DEF TypeInv

(* Listing the interrupted work keeps the type invariant. *)
LEMMA RestartListsType ==
    ASSUME TypeInv, RestartLists
    PROVE  /\ TypeInv'
           /\ \A x \in Actors : x # "restart" => proc'[x] = proc[x]
           /\ proc'["restart"].op \notin Verdicts
           /\ proc'["restart"].card.page \in {NoPage, disk.card.page}
<1>1. /\ "restart" \in Actors /\ proc["restart"].at = "due" /\ UNCHANGED <<queue, write>>
      /\ proc \in [Actors -> Busy] /\ UNCHANGED <<site, memory, durable, clock, spent, history>>
    BY ActorsType DEF RestartLists, durable, TypeInv, TypeOK
<1>2. CASE disk.card.flag = "none"
    <2>1. proc' = [proc EXCEPT !["restart"] = Idle]
        BY <1>2 DEF RestartLists
    <2>2. TypeInv' /\ \A x \in Actors : proc'[x] = IF x = "restart" THEN Idle ELSE proc[x]
        BY <1>1, <2>1, GoesIdle DEF TypeInv, TypeOK
    <2> QED BY <1>1, <2>2, IdleType, AbsentIsNoCard DEF Verdicts
<1>3. CASE disk.card.flag # "none"
    <2> DEFINE b == [at |-> "resolved", op |-> "resume", card |-> disk.card, made |-> 0]
    <2>1. disk.card \in Cards
        BY <1>3, AbsentIsNoCard DEF TypeInv, TypeOK, Images
    <2>2. b \in Busy /\ b.at = "resolved" /\ b.op = "resume" /\ b.card = disk.card
        BY <2>1 DEF Busy, Stages, Steps
    <2>3. proc' = [proc EXCEPT !["restart"] = b]
        BY <1>3 DEF RestartLists
    <2> HIDE DEF b
    <2>4. /\ Chain(proc', queue', write'.who)
          /\ proc' \in [Actors -> Busy]
          /\ \A x \in Actors : proc'[x] = IF x = "restart" THEN b ELSE proc[x]
        BY <1>1, <2>1, <2>2, <2>3, OneMoves
    <2>5. TypeOK'
        BY <1>1, <2>4 DEF TypeInv, TypeOK, memory, durable
    <2> QED BY <1>1, <2>2, <2>4, <2>5 DEF TypeInv, Verdicts
<1> QED BY <1>2, <1>3

(* A restart whose listing fails is over, and so keeps the type invariant. *)
LEMMA RestartListsFailsType ==
    ASSUME TypeInv, RestartListsFails
    PROVE  /\ TypeInv'
           /\ \A x \in Actors : x # "restart" => proc'[x] = proc[x]
           /\ proc'["restart"].at = "idle" /\ proc'["restart"].op = "missed"
           /\ proc'["restart"].card = Absent
<1> DEFINE b == [Idle EXCEPT !.op = "missed"]
<1>1. /\ "restart" \in Actors /\ proc["restart"].at = "due" /\ UNCHANGED <<queue, write>>
      /\ proc \in [Actors -> Busy] /\ UNCHANGED <<site, memory, durable, clock, history>>
      /\ proc' = [proc EXCEPT !["restart"] = b]
    BY ActorsType DEF RestartListsFails, durable, TypeInv, TypeOK
<1>2. b \in Busy /\ b.at = "idle" /\ b.op = "missed" /\ b.card = Absent
    BY DEF Idle, Busy, Stages, Steps
<1> HIDE DEF b
<1>3. /\ Chain(proc', queue', write'.who)
      /\ proc' \in [Actors -> Busy]
      /\ \A x \in Actors : proc'[x] = IF x = "restart" THEN b ELSE proc[x]
    BY <1>1, <1>2, OneMoves
<1>4. spent' \in [visits : Nat, passes : Nat, faults : Nat]
    BY DEF RestartListsFails, Fault, TypeInv, TypeOK
<1>5. TypeOK'
    BY <1>1, <1>3, <1>4 DEF TypeInv, TypeOK, memory, durable
<1> QED BY <1>1, <1>2, <1>3, <1>5 DEF TypeInv

(* Resuming the interrupted work keeps the type invariant. *)
LEMMA RestartResumesType ==
    ASSUME TypeInv, RestartResumes
    PROVE  /\ TypeInv'
           /\ proc["restart"].card \in Cards
           /\ \E flag \in Flags :
                 /\ Launched("restart", Idle, TRUE, proc["restart"].card, flag)
                 /\ mem' \in {mem, Flagged(proc["restart"].card, flag)}
<1> DEFINE card == proc["restart"].card
           flag == IF card.flag = "reindex" THEN ReindexFlag(card) ELSE "ingest"
<1>1. /\ "restart" \in Actors /\ proc \in [Actors -> Busy] /\ proc["restart"].at = "resolved"
    BY ActorsType DEF TypeInv, TypeOK, RestartResumes
<1>2. card \in Cards
    BY <1>1, CarriedCard
<1>3. flag \in Flags
    BY ReindexFlagType DEF Flags
<1>4. /\ proc' = ProcWithJob([proc EXCEPT !["restart"] = Idle], TRUE, card, flag)
      /\ queue' = QueueWithJob(TRUE)
      /\ mem' = MemWithJob(mem, TRUE, card, flag)
      /\ UNCHANGED write
    BY DEF RestartResumes
<1> HIDE DEF card, flag
<1>5. /\ Chain(proc', queue', write'.who)
      /\ proc' \in [Actors -> Busy]
      /\ Launched("restart", Idle, TRUE, card, flag)
    BY <1>1, <1>2, <1>3, <1>4, IdleType, LaunchAndMove
<1>6. mem' \in {mem, Flagged(card, flag)} /\ mem' \in Cards \cup {Absent}
    BY <1>2, <1>3, <1>4, FlaggedType DEF MemWithJob, TypeInv, TypeOK
<1>7. queue' \in Seq(Actors)
    BY <1>5 DEF Chain
<1>8. TypeOK'
    BY <1>5, <1>6, <1>7 DEF RestartResumes, TypeInv, TypeOK
<1> QED BY <1>2, <1>3, <1>5, <1>6, <1>8 DEF TypeInv, card

(* The steps that only end something.                                      *)
Ends(a) ==
    /\ proc' = [proc EXCEPT ![a] = Idle]
    /\ UNCHANGED <<site, memory, durable, clock, history>>

(* An actor that has got its answer may become idle. *)
LEMMA EndsType ==
    ASSUME TypeInv, NEW a \in Actors, proc[a].at \notin {"queued", "writing"}, Ends(a),
           UNCHANGED spent \/ Fault
    PROVE  /\ TypeInv'
           /\ \A x \in Actors : proc'[x] = IF x = a THEN Idle ELSE proc[x]
<1>1. spent' \in [visits : Nat, passes : Nat, faults : Nat] /\ history' \in Histories
    BY FaultType DEF Ends, TypeInv, TypeOK
<1> QED BY <1>1, GoesIdle DEF Ends

(* The steps that only end an actor are the ones of EndsType. *)
LEMMA EndingSteps ==
    /\ \A v \in Visitors : NotInTrash(v) \/ AnswerError(v) =>
          Ends(v) /\ UNCHANGED spent /\ proc[v].at \notin {"queued", "writing"}
    /\ PassReadFails \/ PassEnds =>
          Ends("pass") /\ (UNCHANGED spent \/ Fault) /\ proc["pass"].at \notin {"queued", "writing"}
    /\ JobEnds => Ends("job") /\ UNCHANGED spent /\ proc["job"].at \notin {"queued", "writing"}
    BY DEF Ends, NotInTrash, AnswerError, PassReadFails, PassEnds, JobEnds

(* A new version of the page keeps the type invariant. *)
LEMMA SitePostsType ==
    ASSUME TypeInv, SitePosts
    PROVE  TypeInv' /\ UNCHANGED <<memory, durable, proc, history, clock>>
<1>1. site' \in 0..MaxSite
    BY BoundsAssumption DEF SitePosts, TypeInv, TypeOK
<1> QED BY <1>1 DEF SitePosts, TypeInv, TypeOK, memory, durable

(* Every step of the case file keeps the type invariant. *)
LEMMA NextType == TypeInv /\ [Next]_vars => TypeInv'
<1> SUFFICES ASSUME TypeInv, [Next]_vars PROVE TypeInv'
    OBVIOUS
<1>1. ASSUME NEW v \in Visitors, NEW op \in VisitOps, Arrive(v, op) PROVE TypeInv'
    BY <1>1, ArriveType
<1>2. ASSUME NEW v \in Visitors, Visit(v) PROVE TypeInv'
    <2>1. CASE NotInTrash(v) \/ AnswerError(v)
        BY <2>1, EndingSteps, EndsType, ActorsType
    <2> QED BY <1>2, <2>1, DecideType, TakeBackType, FetchDocumentsType, PageArrivesType,
               PageFailsType, AnswerType DEF Visit
<1>3. CASE PassLists
    BY <1>3, PassListsType
<1>4. CASE WatchPass
    <2>1. CASE PassReadFails \/ PassEnds
        BY <2>1, EndingSteps, EndsType, ActorsType
    <2> QED BY <1>4, <2>1, PassReadsType, PassSavesType DEF WatchPass
<1>5. CASE Job
    <2>1. CASE JobFails
        BY <2>1, JobCleansUpType, FaultType DEF JobFails, TypeInv
    <2>2. CASE JobWriteFailed
        BY <2>2, JobCleansUpType DEF JobWriteFailed, TypeInv, TypeOK
    <2>3. CASE JobEnds
        BY <2>3, EndingSteps, EndsType, ActorsType
    <2> QED BY <1>5, <2>1, <2>2, <2>3, JobFetchesType, JobDeliversType DEF Job
<1>6. CASE Writer
    BY <1>6, WriteBeginsType, WriteEndsType DEF Writer
<1>7. CASE Restart
    BY <1>7, RestartListsType, RestartListsFailsType, RestartResumesType DEF Restart
<1>8. CASE Crash
    BY <1>8, CrashType
<1>9. CASE SitePosts
    BY <1>9, SitePostsType
<1>10. CASE UNCHANGED vars
    BY <1>10 DEF vars, TypeInv, TypeOK, Chain, HasCard, InLine, AtDesk
<1> QED BY <1>1, <1>2, <1>3, <1>4, <1>5, <1>6, <1>7, <1>8, <1>9, <1>10 DEF Next

(* In every behaviour the state is well formed: an actor's copy is a card, *)
(* an actor waits in the line at most once and only while it says so, and  *)
(* the write in progress has its actor waiting.                            *)
THEOREM ChainIsSound == Spec => []TypeInv
<1>1. Init => TypeInv
    BY InitType
<1>2. TypeInv /\ [Next]_vars => TypeInv'
    BY NextType
<1> QED BY <1>1, <1>2, PTL DEF Spec

(* Types, for every number of requests and every bound.                    *)
THEOREM TypeCorrect == Spec => []TypeOK
<1>1. TypeInv => TypeOK
    BY DEF TypeInv
<1> QED BY <1>1, ChainIsSound, PTL


-----------------------------------------------------------------------------
(* News.                                                                   *)

(* Every page an actor, the memory, the store or the write in progress     *)
(* carries has been announced in the inbox that travels with it, and a     *)
(* younger inbox holds what an older one holds.                            *)
AnnouncedHere(page) == Pack(page) \subseteq told \cup history.quiet

NewsInv ==
    /\ \A a \in Actors : AnnouncedHere(proc[a].card.page)
    /\ AnnouncedHere(mem.page)
    /\ Pack(disk.card.page) \subseteq disk.told \cup history.quiet
    /\ disk.told \subseteq told
    /\ write.who # "nobody" =>
          /\ Pack(write.image.card.page) \subseteq write.image.told \cup history.quiet
          /\ disk.told \subseteq write.image.told
          /\ write.image.told \subseteq told

KnownPages == {proc[a].card.page : a \in Actors} \cup {mem.page, disk.card.page, NoPage}

(* The page of a card that does not exist lists nothing.                   *)
LEMMA NoPagePack == Pack(NoPage) = {}
    BY DEF Pack, NoPage

(* A page that is carried anywhere has been announced.                     *)
LEMMA KnownPagesAnnounced ==
    ASSUME NewsInv
    PROVE  \A page \in KnownPages : AnnouncedHere(page)
    BY NoPagePack DEF NewsInv, KnownPages, AnnouncedHere

(* A step outside the writer preserves the invariant when every page it    *)
(* leaves behind was carried before or is announced by the step.           *)
LEMMA PagesTravel ==
    ASSUME NewsInv, UNCHANGED <<disk, write>>,
           told \subseteq told', history.quiet \subseteq history'.quiet,
           \A a \in Actors : \/ proc'[a].card.page \in KnownPages
                             \/ AnnouncedHere(proc[a].card.page)',
           mem'.page \in KnownPages \/ AnnouncedHere(mem.page)'
    PROVE  NewsInv'
<1>1. \A page \in KnownPages : Pack(page) \subseteq told' \cup history'.quiet
    BY KnownPagesAnnounced DEF AnnouncedHere
<1>2. \A a \in Actors : Pack(proc'[a].card.page) \subseteq told' \cup history'.quiet
    BY <1>1 DEF AnnouncedHere
<1>3. Pack(mem'.page) \subseteq told' \cup history'.quiet
    BY <1>1 DEF AnnouncedHere
<1> QED BY <1>2, <1>3 DEF NewsInv, AnnouncedHere

(* The same for a step that announces nothing.                             *)
LEMMA PagesAreCopied ==
    ASSUME NewsInv, UNCHANGED <<disk, write, told>>, history'.quiet = history.quiet,
           \A a \in Actors : proc'[a].card.page \in KnownPages,
           mem'.page \in KnownPages
    PROVE  NewsInv'
    BY PagesTravel

(* A launched job carries the page of the card it was given.               *)
LEMMA LaunchedPages ==
    ASSUME TypeInv, NEW a \in Actors, NEW b, NEW starts, NEW card \in Cards, NEW flag \in Flags,
           Launched(a, b, starts, card, flag)
    PROVE  \A x \in Actors : \/ proc'[x].card.page = proc[x].card.page
                             \/ proc'[x].card.page = card.page
                             \/ proc'[x] = b
<1>1. JobEntry(card, flag).card.page = card.page
    BY FlaggedType DEF JobEntry
<1> QED BY <1>1 DEF Launched

(* The page that arrives is announced with the card that takes it.         *)
LEMMA ArrivalIsAnnounced ==
    ASSUME TypeInv, NewsInv, NEW a \in Actors, proc[a].card \in Cards, Announce(proc[a].card)
    PROVE  /\ told \subseteq told' /\ history.quiet \subseteq history'.quiet
           /\ Pack(site) \subseteq told' \cup history'.quiet
<1>1. AnnouncedHere(proc[a].card.page)
    BY DEF NewsInv
<1>2. /\ told \subseteq told' /\ history.quiet \subseteq history'.quiet
      /\ Pack(site) \subseteq (told' \cup history'.quiet) \cup Pack(proc[a].card.page)
    BY AnnounceType DEF TypeInv
<1> QED BY <1>1, <1>2 DEF AnnouncedHere

(* The console's requests.                                                 *)
LEMMA VisitNews ==
    ASSUME TypeInv, NewsInv, NEW v \in Visitors,
           (\E op \in VisitOps : Arrive(v, op)) \/ Visit(v)
    PROVE  NewsInv'
<1>1. v \in Actors /\ Idle.card.page = NoPage /\ proc \in [Actors -> Busy]
    BY ActorsType, IdleType, AbsentIsNoCard DEF TypeInv, TypeOK
<1>2. \A x \in Actors : proc[x].card.page \in KnownPages
    BY DEF KnownPages
<1>3. mem.page \in KnownPages /\ disk.card.page \in KnownPages /\ NoPage \in KnownPages
    BY DEF KnownPages
<1>4. ASSUME NEW op \in VisitOps, Arrive(v, op) PROVE NewsInv'
    <2>1. Stored \in Cards /\ Stored.page \in KnownPages
        BY <1>3, <1>4, StoredType DEF Arrive, Stored, TypeInv
    <2>2. WithTriage(Stored, decisions).page \in KnownPages
        BY <2>1, WithTriageType DEF TypeInv, TypeOK
    <2>3. /\ proc'[v].card \in {Stored, WithTriage(Stored, decisions)}
          /\ \A a \in Actors : a # v => proc'[a] = proc[a]
        BY <1>1, <1>4 DEF Arrive
    <2>4. \A a \in Actors : proc'[a].card.page \in KnownPages
        BY <1>2, <2>1, <2>2, <2>3
    <2> QED BY <1>3, <1>4, <2>4, PagesAreCopied DEF Arrive, memory, durable
<1>5. CASE Decide(v)
    <2> DEFINE card == [proc[v].card EXCEPT !.kind = proc[v].op]
    <2>1. card.page = proc[v].card.page
        BY <1>5, DecideType, CardFields DEF Decide, Kinds
    <2>2. proc'[v].card = card /\ mem' \in {mem, card} /\ \A x \in Actors : x # v => proc'[x] = proc[x]
        BY <1>5, DecideType DEF Carries
    <2> HIDE DEF card
    <2> QED BY <1>1, <1>2, <1>3, <1>5, <2>1, <2>2, PagesAreCopied DEF Decide
<1>6. CASE TakeBack(v)
    <2> DEFINE card == [proc[v].card EXCEPT !.kind = LatestKind(Remaining)]
    <2>1. Remaining \in SUBSET Decisions /\ proc[v].card \in Cards
        BY <1>6, TakeBackType DEF Remaining, TypeInv, TypeOK
    <2>2. card.page = proc[v].card.page
        BY <2>1, LatestKindType, CardFields
    <2>3. proc'[v].card = card /\ mem' \in {mem, card} /\ \A x \in Actors : x # v => proc'[x] = proc[x]
        BY <1>6, TakeBackType DEF Carries
    <2>4. history'.quiet = history.quiet
        BY <1>6 DEF TakeBack, TypeInv, TypeOK, Histories
    <2> HIDE DEF card
    <2> QED BY <1>1, <1>2, <1>3, <1>6, <2>2, <2>3, <2>4, PagesAreCopied DEF TakeBack
<1>7. CASE NotInTrash(v) \/ AnswerError(v)
    <2>1. Ends(v) /\ \A x \in Actors : proc'[x] = IF x = v THEN Idle ELSE proc[x]
        BY <1>1, <1>7, EndingSteps, EndsType
    <2> QED BY <1>1, <1>2, <1>3, <2>1, PagesAreCopied DEF Ends, memory, durable
<1>8. CASE FetchDocuments(v)
    <2> DEFINE card == WithTriage(proc[v].card, decisions)
               b == [proc[v] EXCEPT !.at = "queued"]
               starts == TRUE
    <2>1. /\ card \in Cards /\ card.page = proc[v].card.page
          /\ mem' \in {card, Flagged(card, "ingest")}
          /\ Launched(v, b, starts, card, "ingest")
        BY <1>8, FetchDocumentsType
    <2>2. b.card = proc[v].card
        BY <1>1 DEF Busy
    <2> HIDE DEF card, b, starts
    <2>3. \A a \in Actors : proc'[a].card.page \in KnownPages
        <3>1. \A x \in Actors : \/ proc'[x].card.page = proc[x].card.page
                                 \/ proc'[x].card.page = card.page
                                 \/ proc'[x] = b
            BY <1>1, <2>1, LaunchedPages DEF Flags
        <3> QED BY <1>1, <1>2, <2>1, <2>2, <3>1
    <2>4. mem'.page \in KnownPages
        BY <1>1, <1>2, <2>1, FlaggedType DEF Flags
    <2> QED BY <1>8, <2>3, <2>4, PagesAreCopied DEF FetchDocuments
<1>9. CASE PageArrives(v)
    <2> DEFINE next == Fresh(proc[v].card)
               starts == NewsStartsJob(proc[v].card)
               b == [proc[v] EXCEPT !.at = "queued", !.card = next]
    <2>1. /\ proc[v].card \in Cards /\ next \in Cards /\ next.page = site /\ mem' = next
          /\ Launched(v, b, starts, next, "ingest")
        BY <1>9, PageArrivesType
    <2>2. b.card = next
        BY <1>1 DEF Busy
    <2>3. Announce(proc[v].card)
        BY <1>9 DEF PageArrives
    <2>4. /\ told \subseteq told' /\ history.quiet \subseteq history'.quiet
          /\ Pack(site) \subseteq told' \cup history'.quiet
        BY <1>1, <2>1, <2>3, ArrivalIsAnnounced
    <2> HIDE DEF next, starts, b
    <2>5. \A a \in Actors : proc'[a].card.page = site \/ proc'[a].card.page \in KnownPages
        BY <1>1, <1>2, <2>1, <2>2, LaunchedPages DEF Flags
    <2>6. \A a \in Actors : \/ proc'[a].card.page \in KnownPages
                              \/ AnnouncedHere(proc[a].card.page)'
        BY <2>4, <2>5 DEF AnnouncedHere
    <2>7. AnnouncedHere(mem.page)'
        BY <2>1, <2>4 DEF AnnouncedHere
    <2>8. UNCHANGED <<disk, write>>
        BY <1>9 DEF PageArrives
    <2> QED BY <2>4, <2>6, <2>7, <2>8, PagesTravel
<1>10. CASE PageFails(v)
    <2>1. \A a \in Actors : proc'[a].card.page \in KnownPages
        BY <1>1, <1>2, <1>3, <1>10, PageFailsType DEF Carries
    <2>2. mem'.page \in KnownPages
        BY <1>1, <1>2, <1>3, <1>10, PageFailsType
    <2> QED BY <1>10, <2>1, <2>2, PagesAreCopied DEF PageFails
<1>11. CASE Answer(v)
    <2>1. PICK starts \in BOOLEAN, flag \in Flags :
             /\ Launched(v, Idle, starts, proc[v].card, flag)
             /\ mem' \in {mem, Flagged(proc[v].card, flag)}
        BY <1>11, AnswerType
    <2>2. proc[v].card \in Cards
        BY <1>11, AnswerType
    <2>3. \A a \in Actors : proc'[a].card.page \in KnownPages
        BY <1>1, <1>2, <1>3, <2>1, <2>2, LaunchedPages
    <2>4. mem'.page \in KnownPages
        BY <1>1, <1>2, <1>3, <2>1, <2>2, FlaggedType
    <2>5. history'.quiet = history.quiet
        BY <1>11 DEF Answer, Answered, TypeInv, TypeOK, Histories
    <2> QED BY <1>11, <2>3, <2>4, <2>5, PagesAreCopied DEF Answer
<1> QED BY <1>4, <1>5, <1>6, <1>7, <1>8, <1>9, <1>10, <1>11 DEF Visit

(* The watch pass and the document job.                                    *)
LEMMA BackgroundNews ==
    ASSUME TypeInv, NewsInv, PassLists \/ WatchPass \/ Job
    PROVE  NewsInv'
<1>1. /\ "pass" \in Actors /\ "job" \in Actors /\ Idle.card.page = NoPage
      /\ proc \in [Actors -> Busy]
    BY ActorsType, IdleType, AbsentIsNoCard DEF TypeInv, TypeOK
<1>2. \A x \in Actors : proc[x].card.page \in KnownPages
    BY DEF KnownPages
<1>3. mem.page \in KnownPages /\ disk.card.page \in KnownPages /\ NoPage \in KnownPages
    BY DEF KnownPages
<1>4. CASE PassLists
    <2>1. \A a \in Actors : proc'[a].card.page \in KnownPages
        BY <1>2, <1>3, <1>4, PassListsType
    <2> QED BY <1>3, <1>4, <2>1, PagesAreCopied DEF PassLists, memory, durable
<1>5. CASE PassReads
    <2> DEFINE next == Fresh(proc["pass"].card)
               starts == NewsStartsJob(proc["pass"].card)
               b == [proc["pass"] EXCEPT !.at = "surveying"]
    <2>1. /\ proc["pass"].card \in Cards /\ next \in Cards /\ next.page = site /\ mem' = next
          /\ Launched("pass", b, starts, next, "ingest")
        BY <1>5, PassReadsType
    <2>2. b.card = proc["pass"].card
        BY <1>1 DEF Busy
    <2>3. Announce(proc["pass"].card) /\ UNCHANGED <<disk, write>>
        BY <1>5 DEF PassReads
    <2>4. /\ told \subseteq told' /\ history.quiet \subseteq history'.quiet
          /\ Pack(site) \subseteq told' \cup history'.quiet
        BY <1>1, <2>1, <2>3, ArrivalIsAnnounced
    <2> HIDE DEF next, starts, b
    <2>5. \A x \in Actors : \/ proc'[x].card.page = proc[x].card.page
                             \/ proc'[x].card.page = next.page
                             \/ proc'[x] = b
        BY <1>1, <2>1, LaunchedPages DEF Flags
    <2>6. \A a \in Actors : \/ proc'[a].card.page \in KnownPages
                              \/ AnnouncedHere(proc[a].card.page)'
        BY <1>1, <1>2, <2>1, <2>2, <2>4, <2>5 DEF AnnouncedHere
    <2>7. AnnouncedHere(mem.page)'
        BY <2>1, <2>4 DEF AnnouncedHere
    <2> QED BY <2>3, <2>4, <2>6, <2>7, PagesTravel
<1>6. CASE PassReadFails \/ PassEnds
    <2>1. Ends("pass") /\ \A x \in Actors : proc'[x] = IF x = "pass" THEN Idle ELSE proc[x]
        BY <1>1, <1>6, EndingSteps, EndsType
    <2> QED BY <1>1, <1>2, <1>3, <2>1, PagesAreCopied DEF Ends, memory, durable
<1>7. CASE PassSaves
    <2>1. \A a \in Actors : proc'[a].card = proc[a].card
        BY <1>1, <1>7, PassSavesType DEF Busy
    <2> QED BY <1>2, <1>3, <1>7, <2>1, PagesAreCopied DEF PassSaves, memory
<1>8. CASE JobFetches
    <2>1. \A a \in Actors : proc'[a].card = proc[a].card
        BY <1>1, <1>8, JobFetchesType DEF Busy
    <2> QED BY <1>2, <1>3, <1>8, <2>1, PagesAreCopied DEF JobFetches, memory, durable
<1>9. CASE JobDelivers
    <2>1. \A a \in Actors : proc'[a].card = proc[a].card
        BY ZenonT(40), <1>1, <1>9, JobDeliversType DEF Busy
    <2>2. mem'.page \in KnownPages
        BY <1>1, <1>2, <1>9, JobDeliversType
    <2> QED BY <1>2, <1>9, <2>1, <2>2, PagesAreCopied DEF JobDelivers
<1>10. CASE JobFails \/ JobWriteFailed
    <2>1. JobCleansUp /\ proc["job"].at \in {"fetching", "unsaved"}
        BY <1>10 DEF JobFails, JobWriteFailed
    <2>2. spent' \in [visits : Nat, passes : Nat, faults : Nat]
        BY <1>10, FaultType DEF JobFails, JobWriteFailed, TypeInv, TypeOK
    <2>3. /\ mem'.page = mem.page
          /\ \A x \in Actors : proc'[x] =
                IF x = "job" THEN [proc["job"] EXCEPT !.at = "queued", !.op = "clean"] ELSE proc[x]
        BY <2>1, <2>2, JobCleansUpType
    <2>4. \A a \in Actors : proc'[a].card = proc[a].card
        BY ZenonT(40), <1>1, <2>3 DEF Busy
    <2> QED BY <1>2, <1>3, <2>1, <2>3, <2>4, PagesAreCopied DEF JobCleansUp
<1>11. CASE JobEnds
    <2>1. Ends("job") /\ \A x \in Actors : proc'[x] = IF x = "job" THEN Idle ELSE proc[x]
        BY <1>1, <1>11, EndingSteps, EndsType
    <2> QED BY <1>1, <1>2, <1>3, <2>1, PagesAreCopied DEF Ends, memory, durable
<1> QED BY <1>4, <1>5, <1>6, <1>7, <1>8, <1>9, <1>10, <1>11 DEF WatchPass, Job

(* The writer, a crash and the restart.                                    *)
LEMMA StoreNews ==
    ASSUME TypeInv, NewsInv, Writer \/ Crash \/ Restart
    PROVE  NewsInv'
<1>1. /\ "restart" \in Actors /\ Idle.card.page = NoPage /\ proc \in [Actors -> Busy]
      /\ write.image \in Images
    BY ActorsType, IdleType, AbsentIsNoCard DEF TypeInv, TypeOK
<1>2. \A x \in Actors : proc[x].card.page \in KnownPages
    BY DEF KnownPages
<1>3. mem.page \in KnownPages /\ disk.card.page \in KnownPages /\ NoPage \in KnownPages
    BY DEF KnownPages
<1>4. CASE WriteBegins
    <2>1. \A a \in Actors : proc'[a].card = proc[a].card
        BY <1>1, <1>4, WriteBeginsType DEF Busy
    <2>2. UNCHANGED <<told, history, mem, disk>> /\ write'.image.card = mem /\ write'.image.told = told
        BY <1>4 DEF WriteBegins, memory
    <2> QED BY <2>1, <2>2 DEF NewsInv, AnnouncedHere
<1>5. CASE WriteCommits
    <2>1. \A a \in Actors : proc'[a].card = proc[a].card
        BY <1>1, <1>5, WriteEndsType
    <2>2. UNCHANGED <<told, history, mem>> /\ disk' = SaveCabinet(write.image)
          /\ write'.who = "nobody" /\ write.who # "nobody"
        BY <1>5 DEF WriteCommits, memory, NoWrite
    <2>3. disk'.told = write.image.told /\ disk'.card.page \in {write.image.card.page, disk.card.page}
        BY <1>1, <2>2, SaveCabinetType DEF TypeInv
    <2> QED BY <2>1, <2>2, <2>3 DEF NewsInv, AnnouncedHere
<1>6. CASE WriteFails
    <2>1. \A a \in Actors : proc'[a].card = proc[a].card
        BY <1>1, <1>6, WriteEndsType
    <2>2. UNCHANGED <<told, history, mem, disk>> /\ write'.who = "nobody"
        BY <1>6 DEF WriteFails, memory, NoWrite
    <2> QED BY <2>1, <2>2 DEF NewsInv, AnnouncedHere
<1>7. CASE Crash
    <2>1. /\ mem'.page = NoPage /\ write'.who = "nobody"
          /\ \A x \in Actors : proc'[x].card.page = NoPage
          /\ told' = disk'.told
          /\ disk' = disk \/ (write.who # "nobody" /\ disk' = SaveCabinet(write.image))
        BY <1>7, CrashType, AbsentIsNoCard DEF NoWrite
    <2>2. history' = history
        BY <1>7 DEF Crash
    <2>3. Pack(disk'.card.page) \subseteq disk'.told \cup history.quiet
        <3>1. CASE disk' = disk
            BY <3>1 DEF NewsInv
        <3>2. CASE write.who # "nobody" /\ disk' = SaveCabinet(write.image)
            BY <1>1, <3>2, SaveCabinetType DEF NewsInv, TypeInv
        <3> QED BY <2>1, <3>1, <3>2
    <2> QED BY <2>1, <2>2, <2>3, NoPagePack DEF NewsInv, AnnouncedHere
<1>8. CASE RestartLists
    <2>1. \A a \in Actors : proc'[a].card.page \in KnownPages
        BY <1>2, <1>3, <1>8, RestartListsType
    <2> QED BY <1>3, <1>8, <2>1, PagesAreCopied DEF RestartLists, memory, durable
<1>9. CASE RestartResumes
    <2> DEFINE starts == TRUE
    <2>1. PICK flag \in Flags :
             /\ Launched("restart", Idle, starts, proc["restart"].card, flag)
             /\ mem' \in {mem, Flagged(proc["restart"].card, flag)}
        BY <1>9, RestartResumesType
    <2> HIDE DEF starts
    <2>2. proc["restart"].card \in Cards
        BY <1>9, RestartResumesType
    <2>3. \A x \in Actors : \/ proc'[x].card.page = proc[x].card.page
                             \/ proc'[x].card.page = proc["restart"].card.page
                             \/ proc'[x] = Idle
        BY <1>1, <2>1, <2>2, LaunchedPages
    <2>4. mem'.page \in KnownPages
        BY <1>1, <1>2, <1>3, <2>1, <2>2, FlaggedType
    <2> QED BY <1>1, <1>2, <1>3, <1>9, <2>3, <2>4, PagesAreCopied DEF RestartResumes
<1>10. CASE RestartListsFails
    <2>1. \A a \in Actors : proc'[a].card.page \in KnownPages
        BY <1>2, <1>3, <1>10, RestartListsFailsType, AbsentIsNoCard
    <2> QED BY <1>3, <1>10, <2>1, PagesAreCopied DEF RestartListsFails, memory, durable
<1> QED BY <1>4, <1>5, <1>6, <1>7, <1>8, <1>9, <1>10 DEF Writer, Restart

(* No silent apply (R22): whatever overwrites what, a file on the page a   *)
(* card shows has an inbox row or appeared when nobody had to be told.     *)
THEOREM NewsIsReported == Spec => []NewsIsNotSilent
<1>1. Init => NewsInv
    <2> SUFFICES ASSUME Init PROVE NewsInv
        OBVIOUS
    <2>1. PICK page \in {NoPage, 0} :
             disk = [card |-> [page |-> page, docs |-> {}, flag |-> "none", kind |-> "none"],
                     decisions |-> {}, told |-> {}]
        BY DEF Init
    <2>2. \A a \in Actors : proc[a].card.page = NoPage
        BY AbsentIsNoCard DEF Init, Idle
    <2>3. mem.page = NoPage /\ disk.card.page \in {NoPage, 0} /\ write.who = "nobody"
        BY <2>1, AbsentIsNoCard DEF Init, NoWrite
    <2>4. Pack(disk.card.page) \subseteq history.quiet
        BY <2>3, NoPagePack DEF Init
    <2> QED BY <2>1, <2>2, <2>3, <2>4, NoPagePack DEF NewsInv, AnnouncedHere, Init
<1>2. TypeInv /\ NewsInv /\ [Next]_vars => NewsInv'
    <2> SUFFICES ASSUME TypeInv, NewsInv, [Next]_vars PROVE NewsInv'
        OBVIOUS
    <2>1. CASE SitePosts
        BY <2>1, SitePostsType DEF memory, durable, NewsInv, AnnouncedHere
    <2>2. CASE UNCHANGED vars
        BY <2>2 DEF vars, NewsInv, AnnouncedHere
    <2> QED BY <2>1, <2>2, VisitNews, BackgroundNews, StoreNews DEF Next
<1>3. NewsInv => NewsIsNotSilent
    BY DEF NewsInv, AnnouncedHere, NewsIsNotSilent
<1> QED BY <1>1, <1>2, <1>3, ChainIsSound, PTL DEF Spec

-----------------------------------------------------------------------------
(* Decisions.                                                              *)

(* A decision is kept by a journal, or was a refusal taken back since.     *)
Kept(d, journal, undone) == d \in journal \/ (d.kind = "reject" /\ d.at <= undone)

DecisionOf(p) == [at |-> p.made, kind |-> p.op]
HasDecided(p) == p.op \in Verdicts /\ p.at # "resolved"

(* The decision of a request travels with it: it is in the journal, in the *)
(* image when its write is under way, in the store when it was written.    *)
Travels(p) ==
    HasDecided(p) =>
        /\ Kept(DecisionOf(p), decisions, history.undone)
        /\ p.at = "writing" => Kept(DecisionOf(p), write.image.decisions, history.undone)
        /\ p.at = "saved" => Kept(DecisionOf(p), disk.decisions, history.undone)

AckInv ==
    /\ history.undone <= clock
    /\ \A d \in decisions \cup disk.decisions \cup write.image.decisions : d.at <= clock
    /\ \A a \in Actors : proc[a].at = "writing" => a = write.who
    /\ \A a \in Actors : Travels(proc[a])
    /\ \A d \in history.acked : Kept(d, disk.decisions, history.undone)

(* A step of an actor that makes no decision and writes nothing.           *)
Waits(p, q) ==
    \/ q = p
    \/ ~HasDecided(q) /\ q.at # "writing"
    \/ /\ HasDecided(p)
       /\ q.op = p.op /\ q.made = p.made
       /\ q.at \notin {"writing", "saved"}

(* What a request that has decided carries is a decision.                  *)
LEMMA DecisionType ==
    ASSUME NEW p \in Busy, HasDecided(p)
    PROVE  DecisionOf(p) \in Decisions
    BY DEF Busy, HasDecided, DecisionOf, Decisions

(* Steps that leave the journal, the store and the decisions alone.        *)
LEMMA WaitingKeeps ==
    ASSUME AckInv, UNCHANGED <<decisions, disk, write, clock>>,
           history'.undone = history.undone, history'.acked = history.acked,
           \A a \in Actors : Waits(proc[a], proc'[a])
    PROVE  AckInv'
<1>1. \A a \in Actors : Travels(proc[a])'
    BY DEF AckInv, Waits, Travels, HasDecided, DecisionOf
<1>2. \A a \in Actors : proc'[a].at = "writing" => a = write'.who
    BY DEF AckInv, Waits
<1> QED BY <1>1, <1>2 DEF AckInv

(* A launched job waits for the writer, its launcher for nothing new.      *)
LEMMA LaunchedWaits ==
    ASSUME NEW a \in Actors, NEW b, NEW starts, NEW card, NEW flag, Launched(a, b, starts, card, flag),
           Waits(proc[a], b)
    PROVE  \A x \in Actors : Waits(proc[x], proc'[x])
<1>1. ~HasDecided(JobEntry(card, flag)) /\ JobEntry(card, flag).at # "writing"
    BY DEF JobEntry, HasDecided, Verdicts
<1> QED BY <1>1 DEF Launched, Waits

(* Whatever is promised of a waiting actor holds of an idle one. *)
LEMMA IdleWaits == \A p : Waits(p, Idle)
    BY IdleType DEF Waits, HasDecided, Verdicts

(* A step that makes or takes back decisions.                              *)
LEMMA JournalKeeps ==
    ASSUME TypeInv, TypeInv', AckInv, UNCHANGED <<disk, write>>,
           clock <= clock', history.undone <= history'.undone, history'.undone <= clock',
           history'.acked = history.acked,
           \A d \in decisions' : d.at <= clock',
           \A d \in decisions : Kept(d, decisions', history'.undone),
           NEW v \in Actors, proc'[v].at \in {"queued", "reading"},
           HasDecided(proc'[v]) => Kept(DecisionOf(proc'[v]), decisions', history'.undone),
           \A x \in Actors : x # v => proc'[x] = proc[x]
    PROVE  AckInv'
<1>1. /\ history.undone \in Nat /\ history'.undone \in Nat /\ clock \in Nat /\ clock' \in Nat
      /\ history.acked \subseteq Decisions /\ decisions \subseteq Decisions
      /\ disk.decisions \subseteq Decisions /\ write.image.decisions \subseteq Decisions
      /\ proc \in [Actors -> Busy] /\ proc' \in [Actors -> Busy]
    BY DEF TypeInv, TypeOK, Histories, Images
<1>2. \A d \in disk.decisions \cup write.image.decisions : d.at <= clock'
    BY <1>1 DEF AckInv, Decisions
<1>3. \A d \in history.acked : Kept(d, disk.decisions, history'.undone)
    BY <1>1 DEF AckInv, Kept, Decisions
<1>4. ASSUME NEW a \in Actors PROVE Travels(proc[a])'
    <2>1. CASE a = v
        BY <2>1 DEF Travels
    <2>2. CASE a # v
        <3>1. proc'[a] = proc[a] /\ Travels(proc[a]) /\ proc[a] \in Busy
            BY <1>1, <2>2 DEF AckInv
        <3> SUFFICES ASSUME HasDecided(proc[a])
                     PROVE  /\ Kept(DecisionOf(proc[a]), decisions', history'.undone)
                            /\ proc[a].at = "writing" =>
                                  Kept(DecisionOf(proc[a]), write.image.decisions, history'.undone)
                            /\ proc[a].at = "saved" =>
                                  Kept(DecisionOf(proc[a]), disk.decisions, history'.undone)
            BY <3>1 DEF Travels
        <3>2. DecisionOf(proc[a]) \in Decisions
            BY <3>1, DecisionType
        <3> QED BY <1>1, <3>1, <3>2 DEF Travels, Kept, Decisions
    <2> QED BY <2>1, <2>2
<1>5. \A a \in Actors : proc'[a].at = "writing" => a = write'.who
    BY DEF AckInv
<1> QED BY <1>2, <1>3, <1>4, <1>5 DEF AckInv

(* The console's requests.                                                 *)
LEMMA VisitAck ==
    ASSUME TypeInv, TypeInv', AckInv, NEW v \in Visitors,
           (\E op \in VisitOps : Arrive(v, op)) \/ Visit(v)
    PROVE  AckInv'
<1>1. /\ v \in Actors /\ proc \in [Actors -> Busy] /\ proc[v] \in Busy
      /\ proc' \in [Actors -> Busy] /\ history \in Histories
    BY ActorsType DEF TypeInv, TypeOK
<1>2. ASSUME NEW op \in VisitOps, Arrive(v, op) PROVE AckInv'
    <2>1. proc'[v].at \in {"reading", "resolved"} /\ proc'[v].op = op
          /\ (proc'[v].at = "reading" => op \in ReadOps)
        BY <1>1, <1>2 DEF Arrive
    <2>2. ~HasDecided(proc'[v]) /\ proc'[v].at # "writing"
        BY <2>1 DEF HasDecided, ReadOps, Verdicts
    <2>3. \A x \in Actors : Waits(proc[x], proc'[x])
        BY <1>1, <1>2, <2>2 DEF Arrive, Waits
    <2> QED BY <1>2, <2>3, WaitingKeeps DEF Arrive, memory, durable
<1>3. CASE Decide(v)
    <2> DEFINE d == [at |-> clock + 1, kind |-> proc[v].op]
    <2>1. /\ proc'[v].at \in {"queued", "reading"} /\ proc'[v].op = proc[v].op
          /\ proc'[v].made = clock + 1 /\ \A x \in Actors : x # v => proc'[x] = proc[x]
        BY <1>3, DecideType DEF Carries
    <2>2. DecisionOf(proc'[v]) = d /\ d.at = clock + 1
        BY <2>1 DEF DecisionOf
    <2>3. /\ decisions' = decisions \cup {d} /\ clock' = clock + 1 /\ clock \in Nat
          /\ UNCHANGED <<disk, write, history>> /\ decisions \subseteq Decisions
        BY <1>3 DEF Decide, TypeInv, TypeOK
    <2> HIDE DEF d
    <2>4. \A e \in decisions' : e.at <= clock'
        BY <2>2, <2>3 DEF AckInv, Decisions
    <2>5. /\ \A e \in decisions : Kept(e, decisions', history'.undone)
          /\ Kept(DecisionOf(proc'[v]), decisions', history'.undone)
        BY <2>2, <2>3 DEF Kept
    <2>6. clock <= clock' /\ history.undone <= history'.undone /\ history'.undone <= clock'
        BY <1>1, <2>3 DEF AckInv, Histories
    <2> QED BY <1>1, <2>1, <2>3, <2>4, <2>5, <2>6, JournalKeeps
<1>4. CASE TakeBack(v)
    <2>1. /\ proc'[v].at \in {"queued", "reading"} /\ proc'[v].op = "restore"
          /\ \A x \in Actors : x # v => proc'[x] = proc[x]
        BY <1>4, TakeBackType DEF Carries, TakeBack
    <2>2. /\ decisions' = Remaining /\ UNCHANGED <<disk, write, clock>> /\ clock \in Nat
          /\ history'.undone = clock /\ history'.acked = history.acked
        BY <1>1, <1>4 DEF TakeBack, TypeInv, TypeOK, Histories
    <2>3. \A e \in decisions' : e.at <= clock'
        BY <2>2 DEF AckInv, Remaining
    <2>4. \A e \in decisions : Kept(e, decisions', history'.undone)
        BY <2>2 DEF AckInv, Remaining, Kept
    <2>5. ~HasDecided(proc'[v])
        BY <2>1 DEF HasDecided, Verdicts
    <2>6. clock <= clock' /\ history.undone <= history'.undone /\ history'.undone <= clock'
        BY <2>2 DEF AckInv
    <2> QED BY <1>1, <2>1, <2>2, <2>3, <2>4, <2>5, <2>6, JournalKeeps
<1>5. CASE NotInTrash(v) \/ AnswerError(v)
    <2>1. Ends(v) /\ \A x \in Actors : proc'[x] = IF x = v THEN Idle ELSE proc[x]
        BY <1>1, <1>5, EndingSteps, EndsType
    <2>2. \A x \in Actors : Waits(proc[x], proc'[x])
        BY <2>1, IdleWaits DEF Waits
    <2> QED BY <2>1, <2>2, WaitingKeeps DEF Ends, memory, durable
<1>6. CASE FetchDocuments(v)
    <2> DEFINE card == WithTriage(proc[v].card, decisions)
               b == [proc[v] EXCEPT !.at = "queued"]
               starts == TRUE
    <2>1. Launched(v, b, starts, card, "ingest")
        BY <1>6, FetchDocumentsType
    <2>2. b.at = "queued" /\ b.op = "documents"
        BY <1>1, <1>6 DEF Busy, FetchDocuments
    <2> HIDE DEF card, b, starts
    <2>3. Waits(proc[v], b)
        BY <2>2 DEF Waits, HasDecided, Verdicts
    <2>4. \A x \in Actors : Waits(proc[x], proc'[x])
        BY <1>1, <2>1, <2>3, LaunchedWaits
    <2> QED BY <1>6, <2>4, WaitingKeeps DEF FetchDocuments
<1>7. CASE PageArrives(v)
    <2> DEFINE next == Fresh(proc[v].card)
               starts == NewsStartsJob(proc[v].card)
               b == [proc[v] EXCEPT !.at = "queued", !.card = next]
    <2>1. proc[v].card \in Cards /\ Launched(v, b, starts, next, "ingest")
        BY <1>7, PageArrivesType
    <2>2. b.at = "queued" /\ b.op = proc[v].op /\ b.made = proc[v].made /\ proc[v].at = "reading"
        BY <1>1, <1>7 DEF Busy, PageArrives
    <2>3. Announce(proc[v].card) /\ UNCHANGED <<decisions, disk, write, clock>>
        BY <1>7 DEF PageArrives
    <2>4. history'.acked = history.acked /\ history'.undone = history.undone
        BY <2>1, <2>3, AnnounceType DEF TypeInv
    <2> HIDE DEF next, b, starts
    <2>5. Waits(proc[v], b)
        BY <2>2 DEF Waits, HasDecided
    <2>6. \A x \in Actors : Waits(proc[x], proc'[x])
        BY <1>1, <2>1, <2>5, LaunchedWaits
    <2> QED BY <2>3, <2>4, <2>6, WaitingKeeps
<1>8. CASE PageFails(v)
    <2>1. CASE \A x \in Actors : proc'[x] = IF x = v THEN Idle ELSE proc[x]
        <3>1. \A x \in Actors : Waits(proc[x], proc'[x])
            BY <2>1, IdleWaits DEF Waits
        <3> QED BY <1>8, <3>1, WaitingKeeps DEF PageFails
    <2>2. CASE Carries(v, {"queued"}, proc[v].card, proc[v].made)
        <3>1. Waits(proc[v], proc'[v])
            BY <1>8, <2>2 DEF PageFails, Carries, Waits, HasDecided
        <3>2. \A x \in Actors : Waits(proc[x], proc'[x])
            BY <2>2, <3>1 DEF Carries, Waits
        <3> QED BY <1>8, <3>2, WaitingKeeps DEF PageFails
    <2> QED BY <1>8, <2>1, <2>2, PageFailsType
<1>9. CASE Answer(v)
    <2>1. PICK starts \in BOOLEAN, flag \in Flags : Launched(v, Idle, starts, proc[v].card, flag)
        BY <1>9, AnswerType
    <2>2. \A x \in Actors : Waits(proc[x], proc'[x])
        BY <1>1, <2>1, IdleWaits, LaunchedWaits
    <2>3. /\ history'.undone = history.undone
          /\ history'.acked \subseteq
                history.acked \cup (IF HasDecided(proc[v]) THEN {DecisionOf(proc[v])} ELSE {})
          /\ proc[v].at = "saved"
          /\ UNCHANGED <<decisions, disk, write, clock>>
        BY <1>1, <1>9 DEF Answer, Answered, Histories, HasDecided, DecisionOf
    <2>4. HasDecided(proc[v]) => Kept(DecisionOf(proc[v]), disk.decisions, history.undone)
        BY <1>1, <2>3 DEF AckInv, Travels
    <2>5. \A d \in history'.acked : Kept(d, disk'.decisions, history'.undone)
        BY <2>3, <2>4 DEF AckInv
    <2>6. \A a \in Actors : Travels(proc[a])'
        BY <2>2, <2>3 DEF AckInv, Waits, Travels, HasDecided, DecisionOf
    <2>7. \A a \in Actors : proc'[a].at = "writing" => a = write'.who
        BY <2>2, <2>3 DEF AckInv, Waits
    <2> QED BY <2>3, <2>5, <2>6, <2>7 DEF AckInv
<1> QED BY <1>2, <1>3, <1>4, <1>5, <1>6, <1>7, <1>8, <1>9 DEF Visit

(* The watch pass, the document job and the restart make no decision.      *)
LEMMA BackgroundAck ==
    ASSUME TypeInv, AckInv, PassLists \/ WatchPass \/ Job \/ Restart
    PROVE  AckInv'
<1>1. /\ "pass" \in Actors /\ "job" \in Actors /\ "restart" \in Actors
      /\ proc \in [Actors -> Busy]
    BY ActorsType DEF TypeInv, TypeOK
<1>2. CASE PassLists
    <2>1. proc'["pass"].at = "reading" /\ \A x \in Actors : x # "pass" => proc'[x] = proc[x]
        BY <1>1, <1>2, PassListsType DEF PassLists
    <2>2. proc'["pass"].op = "watch"
        BY <1>2, PassListsType
    <2>3. \A x \in Actors : Waits(proc[x], proc'[x])
        BY <2>1, <2>2 DEF Waits, HasDecided, Verdicts
    <2> QED BY <1>2, <2>3, WaitingKeeps DEF PassLists, memory, durable
<1>3. CASE PassReads
    <2> DEFINE next == Fresh(proc["pass"].card)
               starts == NewsStartsJob(proc["pass"].card)
               b == [proc["pass"] EXCEPT !.at = "surveying"]
    <2>1. proc["pass"].card \in Cards /\ Launched("pass", b, starts, next, "ingest")
        BY <1>3, PassReadsType
    <2>2. /\ b.at = "surveying" /\ b.op = proc["pass"].op /\ b.made = proc["pass"].made
          /\ proc["pass"].at = "reading"
        BY <1>1, <1>3 DEF Busy, PassReads
    <2>3. Announce(proc["pass"].card) /\ UNCHANGED <<decisions, disk, write, clock>>
        BY <1>3 DEF PassReads
    <2>4. history'.acked = history.acked /\ history'.undone = history.undone
        BY <2>1, <2>3, AnnounceType DEF TypeInv
    <2> HIDE DEF next, b, starts
    <2>5. Waits(proc["pass"], b)
        BY <2>2 DEF Waits, HasDecided
    <2>6. \A x \in Actors : Waits(proc[x], proc'[x])
        BY <1>1, <2>1, <2>5, LaunchedWaits
    <2> QED BY <2>3, <2>4, <2>6, WaitingKeeps
<1>4. CASE PassReadFails \/ PassEnds
    <2>1. Ends("pass") /\ \A x \in Actors : proc'[x] = IF x = "pass" THEN Idle ELSE proc[x]
        BY <1>1, <1>4, EndingSteps, EndsType
    <2>2. \A x \in Actors : Waits(proc[x], proc'[x])
        BY <2>1, IdleWaits DEF Waits
    <2> QED BY <2>1, <2>2, WaitingKeeps DEF Ends, memory, durable
<1>5. CASE PassSaves
    <2>1. /\ proc'["pass"].at = "queued" /\ proc'["pass"].op = proc["pass"].op
          /\ proc'["pass"].made = proc["pass"].made /\ proc["pass"].at = "surveying"
          /\ \A x \in Actors : x # "pass" => proc'[x] = proc[x]
        BY <1>1, <1>5, PassSavesType DEF Busy, PassSaves
    <2>2. \A x \in Actors : Waits(proc[x], proc'[x])
        BY <2>1 DEF Waits, HasDecided
    <2> QED BY <1>5, <2>2, WaitingKeeps DEF PassSaves, memory
<1>6. CASE JobFetches
    <2>1. /\ proc'["job"].at = "fetching" /\ proc'["job"].op = "intent"
          /\ \A x \in Actors : x # "job" => proc'[x] = proc[x]
        BY <1>1, <1>6, JobFetchesType DEF Busy, JobFetches
    <2>2. \A x \in Actors : Waits(proc[x], proc'[x])
        BY <2>1 DEF Waits, HasDecided, Verdicts
    <2> QED BY <1>6, <2>2, WaitingKeeps DEF JobFetches, memory, durable
<1>7. CASE JobDelivers
    <2>1. /\ proc'["job"].at = "queued" /\ proc'["job"].op = "finish"
          /\ \A x \in Actors : x # "job" => proc'[x] = proc[x]
        BY <1>1, <1>7, JobDeliversType DEF Busy
    <2>2. \A x \in Actors : Waits(proc[x], proc'[x])
        BY <2>1 DEF Waits, HasDecided, Verdicts
    <2> QED BY <1>7, <2>2, WaitingKeeps DEF JobDelivers
<1>8. CASE JobFails \/ JobWriteFailed
    <2>1. JobCleansUp
        BY <1>8 DEF JobFails, JobWriteFailed
    <2>2. /\ proc'["job"].at = "queued" /\ proc'["job"].op = "clean"
          /\ \A x \in Actors : x # "job" => proc'[x] = proc[x]
        BY <1>1, <2>1 DEF Busy, JobCleansUp
    <2>3. \A x \in Actors : Waits(proc[x], proc'[x])
        BY <2>2 DEF Waits, HasDecided, Verdicts
    <2> QED BY <2>1, <2>3, WaitingKeeps DEF JobCleansUp
<1>9. CASE JobEnds
    <2>1. Ends("job") /\ \A x \in Actors : proc'[x] = IF x = "job" THEN Idle ELSE proc[x]
        BY <1>1, <1>9, EndingSteps, EndsType
    <2>2. \A x \in Actors : Waits(proc[x], proc'[x])
        BY <2>1, IdleWaits DEF Waits
    <2> QED BY <2>1, <2>2, WaitingKeeps DEF Ends, memory, durable
<1>10. CASE RestartLists
    <2>1. /\ proc'["restart"].op \notin Verdicts
          /\ \A x \in Actors : x # "restart" => proc'[x] = proc[x]
        BY <1>10, RestartListsType
    <2>2. proc'["restart"].at # "writing"
        BY <1>1, <1>10, IdleType DEF RestartLists
    <2>3. \A x \in Actors : Waits(proc[x], proc'[x])
        BY <2>1, <2>2 DEF Waits, HasDecided
    <2> QED BY <1>10, <2>3, WaitingKeeps DEF RestartLists, memory, durable
<1>11. CASE RestartResumes
    <2> DEFINE starts == TRUE
    <2>1. PICK flag \in Flags : Launched("restart", Idle, starts, proc["restart"].card, flag)
        BY <1>11, RestartResumesType
    <2> HIDE DEF starts
    <2>2. \A x \in Actors : Waits(proc[x], proc'[x])
        BY <1>1, <2>1, IdleWaits, LaunchedWaits
    <2> QED BY <1>11, <2>2, WaitingKeeps DEF RestartResumes
<1>12. CASE RestartListsFails
    <2>1. \A x \in Actors : Waits(proc[x], proc'[x])
        BY <1>12, RestartListsFailsType DEF Waits, HasDecided, Verdicts
    <2> QED BY <1>12, <2>1, WaitingKeeps DEF RestartListsFails, memory, durable
<1> QED BY <1>2, <1>3, <1>4, <1>5, <1>6, <1>7, <1>8, <1>9, <1>10, <1>11, <1>12
        DEF WatchPass, Job, Restart

(* The writer takes the journal of its turn, and only a committed write    *)
(* counts as saved.                                                        *)
LEMMA StoreAck ==
    ASSUME TypeInv, TypeInv', AckInv, Writer \/ Crash
    PROVE  AckInv'
<1>1. /\ proc \in [Actors -> Busy] /\ proc' \in [Actors -> Busy]
      /\ write.image \in Images /\ disk \in Images
    BY DEF TypeInv, TypeOK
<1>2. CASE WriteBegins
    <2> DEFINE h == Head(queue)
    <2>1. /\ h \in Actors /\ proc[h].at = "queued" /\ proc[h] \in Busy
          /\ \A x \in Actors : proc'[x] = IF x = h THEN [proc[x] EXCEPT !.at = "writing"] ELSE proc[x]
        BY <1>1, <1>2, WriteBeginsType
    <2>2. proc'[h].at = "writing" /\ proc'[h].op = proc[h].op /\ proc'[h].made = proc[h].made
        BY <2>1 DEF Busy
    <2>3. /\ write'.who = h /\ write.who = "nobody" /\ write'.image.decisions = decisions
          /\ UNCHANGED <<decisions, disk, clock, history>>
        BY <1>2 DEF WriteBegins, memory
    <2> HIDE DEF h
    <2>4. \A a \in Actors : proc'[a].at = "writing" => a = write'.who
        BY <2>1, <2>3, ActorsType DEF AckInv
    <2>5. \A a \in Actors : a # h => proc[a].at # "writing"
        BY <2>3, ActorsType DEF AckInv
    <2>6. ASSUME NEW a \in Actors PROVE Travels(proc[a])'
        <3>1. CASE a = h
            BY <2>1, <2>2, <2>3, <3>1 DEF AckInv, Travels, HasDecided, DecisionOf
        <3>2. CASE a # h
            BY <2>1, <2>3, <2>5, <3>2 DEF AckInv, Travels, HasDecided, DecisionOf
        <3> QED BY <3>1, <3>2
    <2>7. \A d \in decisions' \cup disk'.decisions \cup write'.image.decisions : d.at <= clock'
        BY <2>3 DEF AckInv
    <2> QED BY <2>3, <2>4, <2>6, <2>7 DEF AckInv
<1>3. CASE WriteCommits
    <2> DEFINE w == write.who
    <2>1. /\ w \in Actors /\ proc[w].at = "writing"
          /\ \A x \in Actors : x # w => proc'[x] = proc[x]
          /\ proc'[w].at = "saved" /\ proc'[w].op = proc[w].op /\ proc'[w].made = proc[w].made
        BY <1>3, WriteEndsType
    <2>2. /\ disk' = SaveCabinet(write.image) /\ write'.image.decisions = {}
          /\ UNCHANGED <<decisions, clock, history>>
        BY <1>3 DEF WriteCommits, memory, NoWrite
    <2>3. disk'.decisions = disk.decisions \cup write.image.decisions
        BY <1>1, <2>2, SaveCabinetType DEF TypeInv
    <2>4. \A a \in Actors : a # w => proc[a].at # "writing"
        BY DEF AckInv
    <2> HIDE DEF w
    <2>5. ASSUME NEW a \in Actors PROVE Travels(proc[a])'
        <3>1. CASE a = w
            BY <2>1, <2>2, <2>3, <3>1 DEF AckInv, Travels, HasDecided, DecisionOf, Kept
        <3>2. CASE a # w
            BY <2>1, <2>2, <2>3, <2>4, <3>2 DEF AckInv, Travels, HasDecided, DecisionOf, Kept
        <3> QED BY <3>1, <3>2
    <2>6. \A a \in Actors : proc'[a].at # "writing"
        BY <2>1, <2>4
    <2>7. \A d \in history'.acked : Kept(d, disk'.decisions, history'.undone)
        BY <2>2, <2>3 DEF AckInv, Kept
    <2>8. \A d \in decisions' \cup disk'.decisions \cup write'.image.decisions : d.at <= clock'
        BY <2>2, <2>3 DEF AckInv
    <2> QED BY <2>2, <2>5, <2>6, <2>7, <2>8 DEF AckInv
<1>4. CASE WriteFails
    <2> DEFINE w == write.who
    <2>1. /\ w \in Actors /\ proc[w].at = "writing"
          /\ \A x \in Actors : x # w => proc'[x] = proc[x]
          /\ proc'[w].op = proc[w].op /\ proc'[w].made = proc[w].made
        BY <1>4, WriteEndsType
    <2>2. proc'[w].at = "unsaved"
        BY <1>1, <1>4, <2>1 DEF WriteFails
    <2>3. /\ write'.image.decisions = {} /\ UNCHANGED <<decisions, disk, clock, history>>
        BY <1>4 DEF WriteFails, memory, NoWrite
    <2>4. \A a \in Actors : a # w => proc[a].at # "writing"
        BY DEF AckInv
    <2> HIDE DEF w
    <2>5. ASSUME NEW a \in Actors PROVE Travels(proc[a])'
        <3>1. CASE a = w
            BY <2>1, <2>2, <2>3, <3>1 DEF AckInv, Travels, HasDecided, DecisionOf
        <3>2. CASE a # w
            BY <2>1, <2>3, <2>4, <3>2 DEF AckInv, Travels, HasDecided, DecisionOf
        <3> QED BY <3>1, <3>2
    <2>6. \A a \in Actors : proc'[a].at # "writing"
        BY <2>1, <2>2, <2>4
    <2> QED BY <2>3, <2>5, <2>6 DEF AckInv
<1>5. CASE Crash
    <2>1. /\ \A x \in Actors : proc'[x].at \in {"idle", "due"} /\ proc'[x].op = "none"
          /\ decisions' = disk'.decisions /\ write' = NoWrite
          /\ disk' = disk \/ disk' = SaveCabinet(write.image)
        BY <1>5, CrashType
    <2>2. UNCHANGED <<clock, history>>
        BY <1>5 DEF Crash
    <2>3. disk'.decisions \in {disk.decisions, disk.decisions \cup write.image.decisions}
        BY <1>1, <2>1, SaveCabinetType DEF TypeInv
    <2>4. \A d \in history'.acked : Kept(d, disk'.decisions, history'.undone)
        BY <2>2, <2>3 DEF AckInv, Kept
    <2>5. \A a \in Actors : Travels(proc[a])' /\ proc'[a].at # "writing"
        BY <2>1 DEF Travels, HasDecided, Verdicts
    <2>6. \A d \in decisions' \cup disk'.decisions \cup write'.image.decisions : d.at <= clock'
        BY <2>1, <2>2, <2>3 DEF AckInv, NoWrite
    <2> QED BY <2>2, <2>4, <2>5, <2>6 DEF AckInv
<1> QED BY <1>2, <1>3, <1>4, <1>5 DEF Writer

(* A decision answered with success outlives every crash, unless it was a  *)
(* refusal that a "restore" took back: the write takes the journal of its  *)
(* own turn, the store only adds to it, and a failed write is no answer.   *)
THEOREM AckedDecisionsSurvive == Spec => []AckedDecisionSurvives
<1>1. Init => AckInv
    <2> SUFFICES ASSUME Init PROVE AckInv
        OBVIOUS
    <2>1. /\ decisions = {} /\ disk.decisions = {} /\ write.image.decisions = {}
          /\ history.acked = {} /\ history.undone = 0 /\ clock = 0
        BY DEF Init, NoWrite
    <2>2. \A a \in Actors : proc[a].at = "idle" /\ proc[a].op = "none"
        BY IdleType DEF Init
    <2> QED BY <2>1, <2>2 DEF AckInv, Travels, HasDecided, Verdicts
<1>2. TypeInv /\ TypeInv' /\ AckInv /\ [Next]_vars => AckInv'
    <2> SUFFICES ASSUME TypeInv, TypeInv', AckInv, [Next]_vars PROVE AckInv'
        OBVIOUS
    <2>1. CASE SitePosts
        BY <2>1, SitePostsType, WaitingKeeps DEF memory, durable, Waits
    <2>2. CASE UNCHANGED vars
        BY <2>2, WaitingKeeps DEF vars, Waits
    <2> QED BY <2>1, <2>2, VisitAck, BackgroundAck, StoreAck DEF Next
<1>3. AckInv => AckedDecisionSurvives
    BY DEF AckInv, AckedDecisionSurvives, Kept
<1> QED BY <1>1, <1>2, <1>3, ChainIsSound, PTL DEF Spec

-----------------------------------------------------------------------------
(* The flag.                                                               *)

(* Only one actor is at work ...                                           *)
OneAtWork == \A a, b \in Actors : proc[a].at # "idle" /\ proc[b].at # "idle" => a = b

(* ... and until the first request nothing has happened to the case.       *)
Untouched ==
    spent.visits = 0 =>
        /\ decisions = {} /\ disk.decisions = {} /\ told = {} /\ disk.told = {}
        /\ disk.card.kind = "none" /\ disk.card.flag = "none" /\ mem.flag = "none"
        /\ \A a \in Actors : proc[a].at = "idle" \/ (a = "restart" /\ proc[a].at = "due")

(* A request carries no flag, and nothing that would start a job before it *)
(* is answered: it either reads a page for the first time, or of a case    *)
(* that nobody decided.                                                    *)
StartsNoJob(p) ==
    /\ p.op \in Verdicts \cup ReadOps \cup {"restore"}
    /\ p.op \in Verdicts /\ p.at = "reading" => p.card.page = NoPage
    /\ p.op \notin Verdicts => decisions = {} /\ p.card.kind = "none"
    /\ p.op = "restore" => p.at = "resolved"

NoFlagYet ==
    \A v \in Visitors : proc[v].at # "idle" =>
        /\ mem.flag = "none" /\ disk.card.flag = "none" /\ write.image.card.flag = "none"
        /\ proc[v].card.flag = "none"
        /\ StartsNoJob(proc[v])

(* The flag of a job, on its way to the store and back.                    *)
JobFlag(job) ==
    /\ job.at \in {"idle", "queued", "writing", "saved", "unsaved", "fetching"}
    /\ job.at = "idle" => mem.flag = "none"
    /\ job.at # "idle" => job.op \in {"intent", "finish", "clean"}
    /\ job.at # "idle" /\ job.op # "intent" => mem.flag = "none" /\ job.at # "fetching"
    /\ job.op = "intent" /\ job.at \in {"queued", "writing"} => mem.flag # "none"
    /\ job.op = "intent" /\ job.at = "writing" => write.image.card.flag # "none"
    /\ job.op = "intent" /\ job.at \in {"saved", "fetching"} => disk.card.flag # "none"

LoneInv ==
    /\ OneAtWork /\ Untouched /\ NoFlagYet /\ JobFlag(proc["job"])
    /\ disk.card \in Cards /\ proc["pass"].at = "idle"
    /\ proc["restart"].at \in {"idle", "due", "resolved"}
    /\ write.who = "nobody" => write = NoWrite

FlagInv == Alone => LoneInv

(* Whoever is at work, the others are not.                                 *)
LEMMA OthersRest ==
    ASSUME OneAtWork, NEW a \in Actors, proc[a].at # "idle"
    PROVE  \A x \in Actors : x # a => proc[x].at = "idle"
    BY DEF OneAtWork

(* One actor goes on, alone.                                               *)
LEMMA StaysAlone ==
    ASSUME OneAtWork, NEW a \in Actors, proc[a].at # "idle",
           \A x \in Actors : x # a => proc'[x] = proc[x]
    PROVE  OneAtWork'
    BY DEF OneAtWork

(* A request that comes first finds the case as it was.                    *)
LEMMA FirstVisit ==
    ASSUME TypeInv, LoneInv, Alone', NEW v \in Visitors, NEW op \in VisitOps, Arrive(v, op)
    PROVE  LoneInv'
<1> USE DEF LoneInv
<1>1. /\ v \in Actors /\ "job" \in Actors /\ "restart" \in Actors /\ "pass" \in Actors
      /\ v # "job" /\ v # "pass" /\ v # "restart"
      /\ proc \in [Actors -> Busy]
    BY ActorsType DEF TypeInv, TypeOK
<1>2. spent.visits = 0 /\ spent'.visits = 1
    BY DEF Arrive, Alone, TypeInv, TypeOK
<1>3. \A a \in Actors : proc[a].at = "idle"
    BY <1>1, <1>2 DEF Untouched, Arrive
<1>4. write = NoWrite
    BY <1>3, ActorsType DEF TypeInv, Chain, AtDesk
<1>5. UNCHANGED <<mem, decisions, told, disk, write>> /\ Stored = disk.card
    BY AbsentIsNoCard DEF Arrive, memory, durable, Stored
<1>6. WithTriage(disk.card, {}) = disk.card
    BY DEF WithTriage, LatestKind, Newest
<1>7. /\ proc'[v].op = op /\ proc'[v].card = disk.card /\ proc'[v].at \in {"reading", "resolved"}
      /\ proc'[v].at = "reading" <=> op \in ReadOps
      /\ \A x \in Actors : x # v => proc'[x] = proc[x]
    BY <1>1, <1>2, <1>5, <1>6 DEF Arrive, Untouched
<1>8. op # "documents" /\ op \in AllOps
    BY <1>2, OpsAssumption DEF Untouched, Arrive
<1>9. StartsNoJob(proc[v])'
    BY <1>2, <1>5, <1>7, <1>8 DEF StartsNoJob, Untouched, AllOps, ReadOps, Verdicts
<1>10. write.image.card.flag = "none"
    BY <1>4 DEF NoWrite, Absent
<1>11. NoFlagYet'
    <2>1. \A w \in Visitors : w # v => proc'[w].at = "idle"
        BY <1>3, <1>7, ActorsType
    <2>2. /\ mem'.flag = "none" /\ disk'.card.flag = "none" /\ write'.image.card.flag = "none"
          /\ proc'[v].card.flag = "none"
        BY <1>2, <1>5, <1>7, <1>10 DEF Untouched
    <2> QED BY <1>9, <2>1, <2>2 DEF NoFlagYet
<1>12. OneAtWork'
    BY <1>3, <1>7 DEF OneAtWork
<1>13. Untouched'
    BY <1>2 DEF Untouched
<1>14. JobFlag(proc["job"])' /\ (proc["pass"].at = "idle")'
      /\ (proc["restart"].at \in {"idle", "due", "resolved"})'
    BY <1>1, <1>3, <1>5, <1>7 DEF JobFlag
<1> QED BY <1>4, <1>5, <1>11, <1>12, <1>13, <1>14

(* The request goes on without a job, or ends: all it changes is its own   *)
(* place and a card without a flag.                                        *)
LEMMA QuietVisit ==
    ASSUME TypeInv, LoneInv, NEW v \in Visitors, proc[v].at # "idle",
           \A x \in Actors : x # v => proc'[x] = proc[x],
           mem'.flag = "none", UNCHANGED <<disk, write>>, spent'.visits = spent.visits,
           proc'[v].at # "idle" => proc'[v].card.flag = "none" /\ StartsNoJob(proc[v])'
    PROVE  LoneInv'
<1> USE DEF LoneInv
<1>1. /\ v \in Actors /\ "job" \in Actors /\ "restart" \in Actors /\ "pass" \in Actors
      /\ v # "job" /\ v # "pass" /\ v # "restart"
      /\ \A w \in Visitors : w \in Actors
    BY ActorsType
<1>2. \A x \in Actors : x # v => proc[x].at = "idle" /\ proc'[x].at = "idle"
    BY <1>1, OthersRest
<1>3. OneAtWork'
    BY <1>2 DEF OneAtWork
<1>4. Untouched'
    BY <1>1 DEF Untouched
<1>5. NoFlagYet'
    BY <1>1, <1>2 DEF NoFlagYet
<1>6. JobFlag(proc["job"])' /\ (proc["pass"].at = "idle")'
      /\ (proc["restart"].at \in {"idle", "due", "resolved"})'
    BY <1>1, <1>2 DEF JobFlag
<1> QED BY <1>3, <1>4, <1>5, <1>6

(* A job starts when nobody else is at work any more.                      *)
LEMMA JobStarts ==
    ASSUME TypeInv, LoneInv, NEW a \in Actors, a # "job", proc[a].at # "idle",
           NEW card \in Cards, NEW flag \in Flags \ {"none"},
           Launched(a, Idle, TRUE, card, flag), mem' = Flagged(card, flag),
           UNCHANGED <<disk, write, spent>>, spent.visits # 0
    PROVE  LoneInv'
<1> USE DEF LoneInv
<1>1. \A x \in Actors : x # a => proc[x].at = "idle"
    BY OthersRest
<1>2. "job" \in Actors /\ "pass" \in Actors /\ "restart" \in Actors /\ \A v \in Visitors : v \in Actors /\ v # "job"
    BY ActorsType
<1>3. proc'["job"] = JobEntry(card, flag) /\ \A x \in Actors : x # "job" => proc'[x].at = "idle"
    BY <1>1, <1>2, IdleType DEF Launched, JobFree
<1>4. JobEntry(card, flag).at = "queued" /\ JobEntry(card, flag).op = "intent"
    BY FlaggedType
<1>5. Flagged(card, flag).flag = flag
    BY DEF Flagged, Cards
<1>6. OneAtWork'
    BY <1>3 DEF OneAtWork
<1>7. NoFlagYet'
    BY <1>2, <1>3 DEF NoFlagYet
<1>8. JobFlag(proc["job"])'
    BY <1>3, <1>4, <1>5 DEF JobFlag
<1>9. Untouched'
    BY DEF Untouched
<1> QED BY <1>2, <1>3, <1>6, <1>7, <1>8, <1>9

(* What an answered, failed or undecided page leaves of the triage.        *)
LEMMA NothingToAnnounce ==
    ASSUME TypeInv, NEW v \in Visitors, proc[v].card \in Cards, StartsNoJob(proc[v]),
           proc[v].at = "reading"
    PROVE  /\ News(proc[v].card) = {} /\ ~NewsStartsJob(proc[v].card)
           /\ Fresh(proc[v].card).flag = proc[v].card.flag
           /\ proc[v].op \notin Verdicts => Fresh(proc[v].card).kind = "none"
<1> DEFINE card == proc[v].card
<1>1. WithTriage(card, decisions).flag = card.flag
    BY DEF WithTriage, Cards
<1>2. Fresh(card).flag = card.flag /\ Fresh(card).kind = WithTriage(card, decisions).kind
    <2>1. WithTriage(card, decisions) \in Cards
        BY WithTriageType DEF TypeInv, TypeOK
    <2> QED BY <1>1, <2>1 DEF Fresh, Cards
<1>3. proc[v].op \notin Verdicts => WithTriage(card, decisions).kind = "none"
    BY DEF StartsNoJob, WithTriage, LatestKind, Newest
<1>4. card.page = NoPage \/ Fresh(card).kind \notin Followed
    BY <1>2, <1>3 DEF StartsNoJob, Followed
<1>5. News(card) = {}
    BY <1>4 DEF News
<1> QED BY <1>2, <1>3, <1>5 DEF NewsStartsJob

(* A lone request, from its first step to its answer.                      *)
LEMMA VisitFlag ==
    ASSUME TypeInv, LoneInv, NEW v \in Visitors, Visit(v)
    PROVE  LoneInv'
<1>1. /\ v \in Actors /\ v # "job" /\ v # "restart"
      /\ proc \in [Actors -> Busy] /\ proc[v].at # "idle"
    BY ActorsType DEF TypeInv, TypeOK, Visit, Decide, TakeBack, NotInTrash, FetchDocuments,
       PageArrives, PageFails, Answer, AnswerError
<1>2. /\ proc[v].card.flag = "none" /\ mem.flag = "none" /\ StartsNoJob(proc[v])
      /\ spent.visits # 0
    <2>1. NoFlagYet /\ Untouched
        BY DEF LoneInv
    <2>2. v \in Visitors /\ proc[v].at # "idle"
        BY <1>1
    <2>3. spent.visits # 0
        BY <1>1, <2>1 DEF Untouched
    <2> QED BY <2>1, <2>2, <2>3 DEF NoFlagYet
<1>3. proc[v].at # "due" => proc[v].card \in Cards
    BY <1>1, CarriedCard
<1>4. CASE Decide(v)
    <2> DEFINE card == [proc[v].card EXCEPT !.kind = proc[v].op]
    <2>1. /\ proc[v].card \in Cards /\ Carries(v, {"queued", "reading"}, card, clock + 1)
          /\ mem' \in {mem, card}
        BY <1>4, DecideType
    <2>2. card.flag = "none" /\ card.page = proc[v].card.page
        BY <1>2, <2>1 DEF Cards
    <2>3. proc'[v].at = "reading" => card.page = NoPage
        <3>1. CASE card.kind \in Followed /\ card.page = NoPage
            BY <3>1
        <3>2. CASE ~(card.kind \in Followed /\ card.page = NoPage)
            BY <1>1, <1>4, <3>2 DEF Decide, Hydrate, StoreAndSave, Busy
        <3> QED BY <3>1, <3>2
    <2>4. proc'[v].op = proc[v].op /\ proc[v].op \in Verdicts /\ proc'[v].card = card
        BY <1>4, <2>1 DEF Carries, Decide
    <2> HIDE DEF card
    <2>5. StartsNoJob(proc[v])'
        BY <2>3, <2>4 DEF StartsNoJob, Verdicts
    <2>6. UNCHANGED <<disk, write, spent>>
        BY <1>4 DEF Decide
    <2> QED BY <1>1, <1>2, <2>1, <2>2, <2>4, <2>5, <2>6, QuietVisit DEF Carries
<1>5. ~TakeBack(v)
    <2>1. ASSUME TakeBack(v) PROVE FALSE
        <3>1. decisions = {} /\ proc[v].card.kind = "none"
            BY <1>2, <2>1 DEF StartsNoJob, TakeBack, Verdicts
        <3>2. WithTriage(proc[v].card, {}) = proc[v].card
            BY DEF WithTriage, LatestKind, Newest
        <3> QED BY <2>1, <3>1, <3>2 DEF TakeBack
    <2> QED BY <2>1
<1>6. CASE NotInTrash(v) \/ AnswerError(v)
    <2>1. /\ Ends(v) /\ UNCHANGED spent
          /\ \A x \in Actors : proc'[x] = IF x = v THEN Idle ELSE proc[x]
        BY <1>1, <1>6, EndingSteps, EndsType
    <2> QED BY <1>1, <1>2, <2>1, QuietVisit, IdleType DEF Ends, memory, durable
<1>7. ~FetchDocuments(v)
    BY <1>2 DEF StartsNoJob, FetchDocuments, Verdicts, ReadOps
<1>8. CASE PageArrives(v)
    <2> DEFINE next == Fresh(proc[v].card)
               b == [proc[v] EXCEPT !.at = "queued", !.card = next]
               starts == NewsStartsJob(proc[v].card)
    <2>1. /\ proc[v].card \in Cards /\ next \in Cards /\ mem' = next
          /\ Launched(v, b, starts, next, "ingest")
        BY <1>8, PageArrivesType
    <2>2. /\ ~starts /\ next.flag = "none"
          /\ proc[v].op \notin Verdicts => next.kind = "none"
        BY <1>2, <1>8, <2>1, NothingToAnnounce DEF PageArrives
    <2>3. b.at = "queued" /\ b.card = next /\ b.op = proc[v].op
        BY <1>1 DEF Busy
    <2>4. /\ UNCHANGED <<disk, write, spent, decisions>> /\ proc[v].at = "reading"
        BY <1>8 DEF PageArrives
    <2> HIDE DEF next, b, starts
    <2>5. proc'[v] = b /\ \A x \in Actors : x # v => proc'[x] = proc[x]
        BY <1>1, <2>1, <2>2 DEF Launched
    <2>6. StartsNoJob(proc[v])'
        BY <1>2, <2>2, <2>3, <2>4, <2>5 DEF StartsNoJob
    <2> QED BY <1>1, <2>1, <2>2, <2>3, <2>4, <2>5, <2>6, QuietVisit
<1>9. CASE PageFails(v)
    <2>1. UNCHANGED <<disk, write, decisions>> /\ proc[v].at = "reading" /\ spent'.visits = spent.visits
        BY <1>9 DEF PageFails, Fault, TypeInv, TypeOK
    <2>2. CASE mem' = mem /\ \A x \in Actors : proc'[x] = IF x = v THEN Idle ELSE proc[x]
        BY <1>1, <1>2, <2>1, <2>2, QuietVisit, IdleType
    <2>3. CASE mem' = proc[v].card /\ Carries(v, {"queued"}, proc[v].card, proc[v].made)
        <3>1. StartsNoJob(proc[v])'
            BY <1>2, <2>1, <2>3 DEF StartsNoJob, Carries
        <3> QED BY <1>1, <1>2, <2>1, <2>3, <3>1, QuietVisit DEF Carries
    <2> QED BY <1>9, <2>2, <2>3, PageFailsType
<1>10. CASE Answer(v)
    <2> DEFINE starts == \/ proc[v].op = "participate"
                         \/ /\ proc[v].op \in {"restore", "reindex"}
                            /\ proc[v].card.kind = "participate"
               flag == IF proc[v].op = "reindex" THEN ReindexFlag(proc[v].card) ELSE "ingest"
    <2>1. /\ proc[v].card \in Cards /\ proc["job"].at = "idle"
          /\ UNCHANGED <<disk, write, spent>>
        BY <1>1, <1>3, <1>10, OthersRest, ActorsType DEF Answer, LoneInv
    <2>2. /\ mem' = MemWithJob(mem, starts, proc[v].card, flag)
          /\ proc' = ProcWithJob([proc EXCEPT ![v] = Idle], starts, proc[v].card, flag)
        BY <1>10 DEF Answer
    <2>3. flag \in Flags \ {"none"}
        BY DEF ReindexFlag, Flags
    <2>4. starts \in BOOLEAN
        OBVIOUS
    <2> HIDE DEF starts, flag
    <2>5. CASE starts
        <3>1. mem' = Flagged(proc[v].card, flag)
            BY <2>1, <2>2, <2>5 DEF MemWithJob, JobFree
        <3>2. Launched(v, Idle, TRUE, proc[v].card, flag)
            BY <1>1, <2>1, <2>2, <2>5, ActorsType DEF Launched, ProcWithJob, JobFree
        <3> QED BY <1>1, <1>2, <2>1, <2>3, <3>1, <3>2, JobStarts
    <2>6. CASE ~starts
        <3>1. mem' = mem /\ proc' = [proc EXCEPT ![v] = Idle]
            BY <2>2, <2>6 DEF MemWithJob, ProcWithJob
        <3> QED BY <1>1, <1>2, <2>1, <3>1, QuietVisit, IdleType
    <2> QED BY <2>5, <2>6
<1> QED BY <1>4, <1>5, <1>6, <1>7, <1>8, <1>9, <1>10 DEF Visit

(* A request waits for its write, or gets it: nothing is flagged.          *)
LEMMA VisitorWrites ==
    ASSUME TypeInv, LoneInv, NEW v \in Visitors, proc[v].at # "idle", proc'[v].at # "idle",
           \A x \in Actors : x # v => proc'[x] = proc[x],
           mem'.flag = "none", disk'.card.flag = "none", write'.image.card.flag = "none",
           proc'[v].card.flag = "none", StartsNoJob(proc[v])', disk'.card \in Cards,
           write'.who = "nobody" => write' = NoWrite, spent'.visits = spent.visits
    PROVE  LoneInv'
<1> USE DEF LoneInv
<1>1. /\ v \in Actors /\ "job" \in Actors /\ "restart" \in Actors /\ "pass" \in Actors
      /\ v # "job" /\ v # "pass" /\ v # "restart"
      /\ \A w \in Visitors : w \in Actors
    BY ActorsType
<1>2. \A x \in Actors : x # v => proc[x].at = "idle" /\ proc'[x].at = "idle"
    BY <1>1, OthersRest
<1>3. OneAtWork'
    BY <1>2 DEF OneAtWork
<1>4. Untouched'
    BY <1>1 DEF Untouched
<1>5. NoFlagYet'
    BY <1>1, <1>2 DEF NoFlagYet
<1>6. /\ JobFlag(proc["job"])' /\ (proc["pass"].at = "idle")'
      /\ (proc["restart"].at \in {"idle", "due", "resolved"})'
    BY <1>1, <1>2 DEF JobFlag
<1> QED BY <1>3, <1>4, <1>5, <1>6

(* The job goes on, alone.                                                 *)
LEMMA JobGoesOn ==
    ASSUME TypeInv, LoneInv, proc["job"].at # "idle",
           \A x \in Actors : x # "job" => proc'[x] = proc[x],
           JobFlag(proc["job"])', disk'.card \in Cards,
           write'.who = "nobody" => write' = NoWrite, spent'.visits = spent.visits
    PROVE  LoneInv'
<1> USE DEF LoneInv
<1>1. /\ "job" \in Actors /\ "pass" \in Actors /\ "restart" \in Actors
      /\ \A v \in Visitors : v \in Actors /\ v # "job"
    BY ActorsType
<1>2. \A x \in Actors : x # "job" => proc[x].at = "idle" /\ proc'[x].at = "idle"
    BY <1>1, OthersRest
<1>3. OneAtWork'
    BY <1>2 DEF OneAtWork
<1>4. Untouched'
    BY <1>1 DEF Untouched
<1>5. NoFlagYet'
    BY <1>1, <1>2 DEF NoFlagYet
<1> QED BY <1>1, <1>2, <1>3, <1>4, <1>5

(* The steps of the job itself.                                            *)
LEMMA JobStepFlag ==
    ASSUME TypeInv, LoneInv, Job
    PROVE  LoneInv'
<1> USE DEF LoneInv
<1>1. "job" \in Actors /\ proc \in [Actors -> Busy]
    BY ActorsType DEF TypeInv, TypeOK
<1>2. UNCHANGED <<disk, write>> /\ spent'.visits = spent.visits
    BY DEF Job, JobFetches, JobDelivers, JobFails, JobWriteFailed, JobCleansUp, JobEnds, Fault,
       durable, TypeInv, TypeOK
<1>3. proc["job"].at # "idle"
    BY DEF Job, JobFetches, JobDelivers, JobFails, JobWriteFailed, JobEnds
<1>4. \A x \in Actors : x # "job" => proc'[x] = proc[x]
    BY <1>1 DEF Job, JobFetches, JobDelivers, JobFails, JobWriteFailed, JobCleansUp, JobEnds
<1>5. JobFlag(proc["job"])'
    <2>1. CASE JobFetches
        BY <1>1, <1>2, <2>1 DEF JobFetches, JobFlag, memory, Busy
    <2>2. CASE JobDelivers
        <3>1. proc["job"].card \in Cards
            BY <1>1, <2>2, CarriedCard DEF JobDelivers
        <3>2. WithTriage(proc["job"].card, decisions) \in Cards
            BY <3>1, WithTriageType DEF TypeInv, TypeOK
        <3>3. mem'.flag = "none"
            BY <2>2, <3>2 DEF JobDelivers, Cards
        <3>4. proc'["job"].at = "queued" /\ proc'["job"].op = "finish"
            BY <1>1, <2>2 DEF JobDelivers, Busy
        <3> QED BY <3>3, <3>4 DEF JobFlag
    <2>3. CASE JobFails \/ JobWriteFailed
        <3>1. mem'.flag = "none"
            BY <2>3 DEF JobFails, JobWriteFailed, JobCleansUp, TypeInv, TypeOK, Cards, Absent
        <3>2. proc'["job"].at = "queued" /\ proc'["job"].op = "clean"
            BY <1>1, <2>3 DEF JobFails, JobWriteFailed, JobCleansUp, Busy
        <3> QED BY <3>1, <3>2 DEF JobFlag
    <2>4. CASE JobEnds
        <3>1. mem'.flag = "none" /\ mem.flag = "none"
            BY <2>4 DEF JobEnds, JobFlag, memory
        <3>2. proc'["job"] = Idle
            BY <1>1, <2>4 DEF JobEnds
        <3> QED BY <3>1, <3>2, IdleType DEF JobFlag
    <2> QED BY <2>1, <2>2, <2>3, <2>4 DEF Job
<1> QED BY <1>2, <1>3, <1>4, <1>5, JobGoesOn

(* What a row takes from the card that is saved.                           *)
LEMMA RowFlag ==
    ASSUME TypeInv, LoneInv, NEW card \in Cards \cup {Absent}
    PROVE  /\ Row(card) \in Cards
           /\ card # Absent => Row(card).flag = card.flag
           /\ card = Absent => Row(card) = disk.card
<1>1. disk.card \in Cards /\ disk.card.kind \in Kinds
    BY DEF LoneInv, Cards
<1>2. CASE card = Absent
    BY <1>1, <1>2 DEF Row
<1>3. CASE card # Absent
    <2>1. card \in Cards /\ disk.card # Absent
        BY <1>1, <1>3, AbsentIsNoCard
    <2>2. [card EXCEPT !.kind = disk.card.kind] \in Cards
        BY <1>1, <2>1, CardFields
    <2>3. [card EXCEPT !.kind = disk.card.kind].flag = card.flag
        BY <2>1 DEF Cards
    <2> QED BY <1>3, <2>1, <2>2, <2>3 DEF Row
<1> QED BY <1>2, <1>3

(* A write on behalf of whoever is at work.                                *)
LEMMA WriterFlag ==
    ASSUME TypeInv, LoneInv, Writer
    PROVE  LoneInv'
<1> USE DEF LoneInv
<1>1. /\ proc \in [Actors -> Busy] /\ "job" \in Actors
      /\ \A a \in Actors : a = "job" \/ a = "pass" \/ a = "restart" \/ a \in Visitors
      /\ write.image.card \in Cards \cup {Absent}
    BY ActorsType DEF TypeInv, TypeOK, Images, Actors
<1>2. spent'.visits = spent.visits
    BY DEF Writer, WriteBegins, WriteCommits, WriteFails, Fault, TypeInv, TypeOK
<1>3. CASE WriteBegins
    <2>1. PICK a \in Actors : a = Head(queue)
        BY <1>3, WriteBeginsType
    <2>2. /\ a \in Actors /\ proc[a].at = "queued"
          /\ proc'[a] = [proc[a] EXCEPT !.at = "writing"]
          /\ \A x \in Actors : x # a => proc'[x] = proc[x]
        BY <1>3, <2>1, WriteBeginsType
    <2>3. /\ write'.who = a /\ write'.image.card = mem /\ a # "nobody"
          /\ UNCHANGED <<mem, disk, decisions, told>>
        BY <1>3, <2>1, <2>2, ActorsType DEF WriteBegins, memory
    <2>4. proc'[a].at = "writing" /\ proc'[a].op = proc[a].op /\ proc'[a].card = proc[a].card
        BY <1>1, <2>2 DEF Busy
    <2>5. CASE a = "job"
        <3>1. JobFlag(proc["job"])'
            BY <2>2, <2>3, <2>4, <2>5 DEF JobFlag
        <3> QED BY <1>2, <2>2, <2>3, <2>5, <3>1, JobGoesOn
    <2>6. CASE a \in Visitors
        <3>1. StartsNoJob(proc[a]) /\ mem.flag = "none" /\ proc[a].card.flag = "none"
              /\ disk.card.flag = "none"
            BY <2>2, <2>6 DEF NoFlagYet
        <3>2. StartsNoJob(proc[a])'
            BY <2>2, <2>3, <2>4, <3>1 DEF StartsNoJob
        <3> QED BY <1>2, <2>2, <2>3, <2>4, <2>6, <3>1, <3>2, VisitorWrites
    <2> QED BY <1>1, <2>2, <2>5, <2>6
<1>4. CASE WriteCommits \/ WriteFails
    <2>1. PICK a \in Actors : a = write.who
        BY <1>4, WriteEndsType
    <2>2. /\ a \in Actors /\ proc[a].at = "writing"
          /\ proc'[a].at = IF WriteCommits THEN "saved" ELSE "unsaved"
          /\ proc'[a].op = proc[a].op /\ proc'[a].card = proc[a].card
          /\ \A x \in Actors : x # a => proc'[x] = proc[x]
        BY <1>4, <2>1, WriteEndsType
    <2>3. write' = NoWrite /\ UNCHANGED memory
        BY <1>4 DEF WriteCommits, WriteFails
    <2>4. /\ WriteCommits => disk'.card = Row(write.image.card)
          /\ ~WriteCommits => disk' = disk
        BY <1>4 DEF WriteCommits, WriteFails, SaveCabinet
    <2>5. /\ disk'.card \in Cards
          /\ WriteCommits /\ write.image.card.flag # "none" =>
                disk'.card.flag = write.image.card.flag
          /\ disk.card.flag = "none" /\ write.image.card.flag = "none" => disk'.card.flag = "none"
        BY <1>1, <2>4, RowFlag, AbsentIsNoCard
    <2>6. CASE a = "job"
        <3>1. JobFlag(proc["job"])'
            BY <2>2, <2>3, <2>5, <2>6 DEF JobFlag, memory
        <3> QED BY <1>2, <2>2, <2>3, <2>5, <2>6, <3>1, JobGoesOn
    <2>7. CASE a \in Visitors
        <3>1. /\ StartsNoJob(proc[a]) /\ mem.flag = "none" /\ proc[a].card.flag = "none"
              /\ disk.card.flag = "none" /\ write.image.card.flag = "none"
            BY <2>2, <2>7 DEF NoFlagYet
        <3>2. proc'[a].at \notin {"idle", "reading", "resolved"} /\ proc[a].op # "restore"
            BY <2>2, <3>1 DEF StartsNoJob
        <3>3. StartsNoJob(proc[a])'
            BY <2>2, <2>3, <3>1, <3>2 DEF StartsNoJob, memory
        <3>4. write'.image.card.flag = "none"
            BY <2>3 DEF NoWrite, Absent
        <3> QED BY <1>2, <2>2, <2>3, <2>5, <2>7, <3>1, <3>2, <3>3, <3>4, VisitorWrites DEF memory
    <2> QED BY <1>1, <2>2, <2>6, <2>7
<1> QED BY <1>3, <1>4 DEF Writer

(* What a crash leaves, and the restart that looks at it.                  *)
LEMMA RestartFlag ==
    ASSUME TypeInv, LoneInv, Restart \/ Crash
    PROVE  LoneInv'
<1> USE DEF LoneInv
<1>1. /\ "job" \in Actors /\ "pass" \in Actors /\ "restart" \in Actors
      /\ \A v \in Visitors : v \in Actors /\ v # "job" /\ v # "restart"
      /\ proc \in [Actors -> Busy]
    BY ActorsType DEF TypeInv, TypeOK
<1>2. CASE RestartLists
    <2>1. /\ proc["restart"].at = "due" /\ UNCHANGED <<mem, decisions, told, disk, write, spent>>
          /\ proc'["restart"] = IF disk.card.flag = "none" THEN Idle
                ELSE [at |-> "resolved", op |-> "resume", card |-> disk.card, made |-> 0]
          /\ \A x \in Actors : x # "restart" => proc'[x] = proc[x]
        BY <1>1, <1>2 DEF RestartLists, memory, durable
    <2>2. \A x \in Actors : x # "restart" => proc[x].at = "idle" /\ proc'[x].at = "idle"
        BY <1>1, <2>1, OthersRest
    <2>3. OneAtWork'
        BY <2>2 DEF OneAtWork
    <2>4. Untouched'
        BY <2>1, <2>2, IdleType DEF Untouched
    <2>5. NoFlagYet'
        BY <1>1, <2>2 DEF NoFlagYet
    <2>6. JobFlag(proc["job"])'
        BY <1>1, <2>1, <2>2 DEF JobFlag
    <2>7. proc'["restart"].at \in {"idle", "due", "resolved"}
        BY <2>1, IdleType
    <2> QED BY <1>1, <2>1, <2>2, <2>3, <2>4, <2>5, <2>6, <2>7
<1>3. CASE RestartResumes
    <2> DEFINE card == proc["restart"].card
               flag == IF card.flag = "reindex" THEN ReindexFlag(card) ELSE "ingest"
    <2>1. /\ proc["restart"].at = "resolved" /\ UNCHANGED <<disk, write, spent>>
          /\ mem' = MemWithJob(mem, TRUE, card, flag)
          /\ proc' = ProcWithJob([proc EXCEPT !["restart"] = Idle], TRUE, card, flag)
        BY <1>3 DEF RestartResumes
    <2>2. card \in Cards /\ flag \in Flags \ {"none"}
        BY <1>1, <2>1, CarriedCard DEF ReindexFlag, Flags
    <2>3. proc["job"].at = "idle" /\ spent.visits # 0
        BY <1>1, <2>1, OthersRest DEF Untouched
    <2> HIDE DEF card, flag
    <2>4. mem' = Flagged(card, flag)
        BY <2>1, <2>3 DEF MemWithJob, JobFree
    <2>5. Launched("restart", Idle, TRUE, card, flag)
        BY <1>1, <2>1, <2>3 DEF Launched, ProcWithJob, JobFree
    <2> QED BY <1>1, <2>1, <2>2, <2>3, <2>4, <2>5, JobStarts
<1>4. CASE Crash
    <2>1. /\ mem' = Absent /\ write' = NoWrite
          /\ decisions' = disk'.decisions /\ told' = disk'.told
          /\ disk' = disk \/ (write.who # "nobody" /\ disk' = SaveCabinet(write.image))
        BY <1>4, CrashType
    <2>2. /\ \A x \in Actors : proc'[x] = IF x = "restart" THEN [Idle EXCEPT !.at = "due"] ELSE Idle
          /\ spent'.visits = spent.visits
        BY <1>4 DEF Crash, Fault, TypeInv, TypeOK
    <2>3. /\ \A x \in Actors : x # "restart" => proc'[x].at = "idle"
          /\ proc'["restart"].at = "due"
        BY <1>1, <2>2 DEF Idle
    <2>4. disk'.card \in Cards
        <3>1. write.image.card \in Cards \cup {Absent}
            BY DEF TypeInv, TypeOK, Images
        <3> QED BY <2>1, <3>1, RowFlag DEF SaveCabinet
    <2>5. spent.visits = 0 => write.who = "nobody"
        BY ActorsType DEF Untouched, TypeInv, Chain, AtDesk
    <2>6. Untouched'
        BY <2>1, <2>2, <2>3, <2>5, AbsentIsNoCard DEF Untouched
    <2>7. OneAtWork' /\ NoFlagYet'
        BY <1>1, <2>3 DEF OneAtWork, NoFlagYet
    <2>8. JobFlag(proc["job"])'
        BY <1>1, <2>1, <2>3, AbsentIsNoCard DEF JobFlag
    <2> QED BY <1>1, <2>1, <2>3, <2>4, <2>6, <2>7, <2>8
<1>5. CASE RestartListsFails
    <2>1. /\ proc["restart"].at = "due" /\ UNCHANGED <<mem, decisions, told, disk, write>>
          /\ spent'.visits = spent.visits
        BY <1>5 DEF RestartListsFails, Fault, memory, durable, TypeInv, TypeOK
    <2>2. /\ \A x \in Actors : x # "restart" => proc'[x] = proc[x]
          /\ proc'["restart"].at = "idle"
        BY <1>5, RestartListsFailsType
    <2>3. \A x \in Actors : proc'[x].at = "idle"
        BY <1>1, <2>1, <2>2, OthersRest
    <2>4. OneAtWork' /\ NoFlagYet'
        BY <1>1, <2>3 DEF OneAtWork, NoFlagYet
    <2>5. Untouched'
        BY <2>1, <2>3 DEF Untouched
    <2>6. JobFlag(proc["job"])'
        BY <1>1, <2>1, <2>2 DEF JobFlag
    <2> QED BY <1>1, <2>1, <2>2, <2>4, <2>5, <2>6
<1> QED BY <1>2, <1>3, <1>4, <1>5 DEF Restart

(* Requests and passes are only ever counted up: a case that is still a    *)
(* lone request's has been one all along.                                  *)
LEMMA AloneAllAlong == TypeInv /\ [Next]_vars /\ Alone' => Alone
<1> SUFFICES ASSUME TypeInv, [Next]_vars, Alone' PROVE Alone
    OBVIOUS
<1>1. spent \in [visits : Nat, passes : Nat, faults : Nat]
    BY DEF TypeInv, TypeOK
<1>2. CASE UNCHANGED spent
    BY <1>2 DEF Alone
<1>3. CASE Fault
    BY <1>1, <1>3 DEF Fault, Alone
<1>4. ASSUME NEW v \in Visitors, NEW op \in VisitOps, Arrive(v, op) PROVE Alone
    BY <1>1, <1>4 DEF Arrive, Alone
<1>5. CASE PassLists
    BY <1>1, <1>5 DEF PassLists, Alone
<1>6. CASE Job \/ Writer \/ Restart \/ WatchPass \/ Crash \/ SitePosts
    <2>1. UNCHANGED spent \/ Fault
        BY <1>6 DEF Job, JobFetches, JobDelivers, JobFails, JobWriteFailed, JobEnds,
           Writer, WriteBegins, WriteCommits, WriteFails, Restart, RestartLists,
           RestartListsFails, RestartResumes,
           WatchPass, PassReads, PassReadFails, PassSaves, PassEnds, Crash, SitePosts
    <2> QED BY <1>2, <1>3, <2>1
<1>7. ASSUME NEW v \in Visitors, Visit(v) PROVE Alone
    <2>1. UNCHANGED spent \/ Fault
        BY <1>7 DEF Visit, Decide, TakeBack, NotInTrash, FetchDocuments, PageArrives, PageFails,
           Answer, AnswerError
    <2> QED BY <1>2, <1>3, <2>1
<1> QED BY <1>2, <1>4, <1>5, <1>6, <1>7 DEF Next, vars

(* Every step keeps what is said of a lone request and its job.            *)
LEMMA FlagStep == TypeInv /\ FlagInv /\ [Next]_vars => FlagInv'
<1> SUFFICES ASSUME TypeInv, FlagInv, [Next]_vars, Alone' PROVE LoneInv'
    BY DEF FlagInv
<1>1. LoneInv
    BY AloneAllAlong DEF FlagInv
<1>2. proc["pass"].at = "idle"
    BY <1>1 DEF LoneInv
<1>3. ASSUME NEW v \in Visitors, NEW op \in VisitOps, Arrive(v, op) PROVE LoneInv'
    BY <1>1, <1>3, FirstVisit
<1>4. ASSUME NEW v \in Visitors, Visit(v) PROVE LoneInv'
    BY <1>1, <1>4, VisitFlag
<1>5. ~PassLists
    BY DEF PassLists, Alone, TypeInv, TypeOK
<1>6. ~WatchPass
    BY <1>2 DEF WatchPass, PassReads, PassReadFails, PassSaves, PassEnds
<1>7. CASE Job
    BY <1>1, <1>7, JobStepFlag
<1>8. CASE Writer
    BY <1>1, <1>8, WriterFlag
<1>9. CASE Restart \/ Crash
    BY <1>1, <1>9, RestartFlag
<1>10. CASE SitePosts \/ UNCHANGED vars
    <2>1. UNCHANGED <<mem, decisions, told, disk, write, proc, spent>>
        BY <1>10 DEF SitePosts, vars, memory, durable
    <2> QED BY <1>1, <2>1 DEF LoneInv, OneAtWork, Untouched, NoFlagYet, StartsNoJob, JobFlag
<1> QED BY <1>3, <1>4, <1>5, <1>6, <1>7, <1>8, <1>9, <1>10 DEF Next

(* Durable intent first, for a case that one request works on: while files *)
(* are downloaded the store says so, and a flag means that a job runs --   *)
(* whatever fails, and wherever the process dies.                          *)
THEOREM LoneJobsKeepTheirFlag == Spec => []LoneJobKeepsItsFlag
<1>1. Init => FlagInv
    <2> SUFFICES ASSUME Init PROVE LoneInv
        BY DEF FlagInv
    <2>1. /\ \A a \in Actors : proc[a] = Idle
          /\ "job" \in Actors /\ "pass" \in Actors /\ "restart" \in Actors
          /\ \A v \in Visitors : v \in Actors
        BY ActorsType DEF Init
    <2>2. \A a \in Actors : proc[a].at = "idle"
        BY <2>1, IdleType
    <2>3. disk.card \in Cards /\ disk.card.flag = "none" /\ disk.card.kind = "none"
          /\ disk.decisions = {} /\ disk.told = {}
        BY PackType, BoundsAssumption DEF Init, Cards, Flags, Kinds
    <2>4. mem.flag = "none" /\ write = NoWrite /\ decisions = {} /\ told = {}
        BY AbsentIsNoCard DEF Init
    <2>5. OneAtWork /\ Untouched /\ NoFlagYet
        BY <2>1, <2>2, <2>3, <2>4 DEF OneAtWork, Untouched, NoFlagYet
    <2>6. JobFlag(proc["job"])
        BY <2>1, <2>2, <2>4 DEF JobFlag
    <2> QED BY <2>1, <2>2, <2>3, <2>4, <2>5, <2>6 DEF LoneInv
<1>2. TypeInv /\ FlagInv /\ [Next]_vars => FlagInv'
    BY FlagStep
<1>3. FlagInv => LoneJobKeepsItsFlag
    <2>1. LoneInv => IntentIsDurable /\ FlagMeansJob
        BY DEF LoneInv, JobFlag, IntentIsDurable, FlagMeansJob
    <2> QED BY <2>1 DEF FlagInv, LoneJobKeepsItsFlag
<1> QED BY <1>1, <1>2, <1>3, ChainIsSound, PTL DEF Spec

=============================================================================
