---------------------------- MODULE SourcesProofs ----------------------------
\* What stands between the API process and its sources: the pipes to the MCP
\* children, for any lanes, calls, budgets and priorities (one request at a time in
\* each, every answer to its own call, a fair queue); the monitor of the children;
\* the breaker of the pass; and the session with zakupki.butb.by.
EXTENDS Sources, FiniteSetTheorems, TLAPS, SequenceTheorems, WellFoundedInduction

\* The entries of a queue are of its lane, each once, and none of them is out.
InItsQueue ==
    \A l \in Lanes :
        /\ \A i \in DOMAIN queue[l] :
              LaneOf(queue[l][i]) = l /\ state[queue[l][i]] \in Settled \union {"waiting"}
        /\ \A i, j \in DOMAIN queue[l] : queue[l][i] = queue[l][j] => i = j

\* A pipe is held for a call of its own lane.
InItsLane == \A l \in Lanes : running[l] # NoCall => LaneOf(running[l]) = l

\* What is left of an open call is part of its budget.
WithinBudget == \A c \in Calls : state[c] \in Open => left[c] <= Plan[c].budget

PipeInv ==
    /\ PipeTypeOK /\ InItsQueue /\ InItsLane /\ WithinBudget
    /\ OneRequestAtATime /\ QueueIsFair

----------------------------------------------------------------------------
\* What the queue's operations do to a sequence.

LEMMA LaneIsThere == \A c \in Calls : LaneOf(c) \in Lanes
BY PipeConstants DEF LaneOf

LEMMA SmallestOfSome ==
    ASSUME NEW S, S \subseteq Nat, S # {}
    PROVE  \E m \in S : \A n \in S : m <= n
<1> DEFINE R == {ss \in Nat \X Nat : ss[1] < ss[2]}
<1>1. IsWellFoundedOn(R, Nat)  BY NatLessThanWellFounded DEF OpToRel
<1>2. PICK m \in S : \A n \in S : <<n, m>> \notin R
  <2> HIDE DEF R
  <2> QED  BY <1>1, WFMin
<1>3. \A n \in S : ~ n < m
  <2> SUFFICES ASSUME NEW n \in S, n < m PROVE FALSE  OBVIOUS
  <2>1. <<n, m>> \in Nat \X Nat /\ <<n, m>>[1] = n /\ <<n, m>>[2] = m  OBVIOUS
  <2>2. <<n, m>> \in R  BY <2>1
  <2> QED  BY <1>2, <2>2
<1> QED  BY <1>3

LEMMA Insertion ==
    ASSUME NEW q \in Seq(Calls), NEW c \in Calls, NEW n \in 1..Len(q)
    PROVE  /\ InsertAt(q, n, c) \in Seq(Calls) /\ Len(InsertAt(q, n, c)) = Len(q) + 1
           /\ \A i \in 1..Len(q) + 1 :
                 InsertAt(q, n, c)[i] = IF i < n THEN q[i] ELSE IF i = n THEN c ELSE q[i - 1]
<1> DEFINE before == SubSeq(q, 1, n - 1)
           after == SubSeq(q, n, Len(q))
<1>1. before \in Seq(Calls) /\ Len(before) = n - 1 /\ \A i \in 1..n - 1 : before[i] = q[i]
  BY SubSeqProperties
<1>2. /\ after \in Seq(Calls) /\ Len(after) = Len(q) - n + 1
      /\ \A i \in 1..Len(q) - n + 1 : after[i] = q[n + i - 1]
  BY SubSeqProperties
<1>3. <<c>> \in Seq(Calls) /\ Len(<<c>>) = 1 /\ <<c>>[1] = c  OBVIOUS
<1> DEFINE head == before \o <<c>>
<1>4. /\ head \in Seq(Calls) /\ Len(head) = n
      /\ \A i \in 1..n : head[i] = IF i < n THEN q[i] ELSE c
  <2> HIDE DEF before, after
  <2> QED  BY <1>1, <1>3, ConcatProperties
<1>5. InsertAt(q, n, c) = head \o after  BY DEF InsertAt
<1>6. /\ head \o after \in Seq(Calls) /\ Len(head \o after) = Len(q) + 1
      /\ \A i \in 1..Len(q) + 1 : (head \o after)[i] = IF i <= n THEN head[i] ELSE after[i - n]
  <2> HIDE DEF head, after
  <2>1. Len(head) + Len(after) = Len(q) + 1  BY <1>2, <1>4
  <2>2. /\ head \o after \in Seq(Calls) /\ Len(head \o after) = Len(head) + Len(after)
        /\ \A i \in 1..Len(head) + Len(after) :
              (head \o after)[i] = IF i <= Len(head) THEN head[i] ELSE after[i - Len(head)]
    BY <1>2, <1>4, ConcatProperties
  <2> QED  BY <1>4, <2>1, <2>2
<1> HIDE DEF head, after
<1> QED  BY SMTT(30), <1>2, <1>4, <1>5, <1>6

LEMMA Removal ==
    ASSUME NEW q \in Seq(Calls), NEW n \in 1..Len(q)
    PROVE  /\ RemoveAt(q, n) \in Seq(Calls) /\ Len(RemoveAt(q, n)) = Len(q) - 1
           /\ \A i \in 1..Len(q) - 1 : RemoveAt(q, n)[i] = IF i < n THEN q[i] ELSE q[i + 1]
<1> DEFINE before == SubSeq(q, 1, n - 1)
           after == SubSeq(q, n + 1, Len(q))
<1>1. before \in Seq(Calls) /\ Len(before) = n - 1 /\ \A i \in 1..n - 1 : before[i] = q[i]
  BY SubSeqProperties
<1>2. /\ after \in Seq(Calls) /\ Len(after) = Len(q) - n
      /\ \A i \in 1..Len(q) - n : after[i] = q[n + i]
  BY SubSeqProperties
<1>3. RemoveAt(q, n) = before \o after  BY DEF RemoveAt
<1> HIDE DEF before, after
<1>4. /\ before \o after \in Seq(Calls) /\ Len(before \o after) = Len(before) + Len(after)
      /\ \A i \in 1..Len(before) + Len(after) :
            (before \o after)[i] = IF i <= Len(before) THEN before[i] ELSE after[i - Len(before)]
  BY <1>1, <1>2, ConcatProperties
<1>5. Len(before) + Len(after) = Len(q) - 1  BY <1>1, <1>2
<1>6. ASSUME NEW i \in 1..Len(q) - 1
      PROVE  (before \o after)[i] = IF i < n THEN q[i] ELSE q[i + 1]
  <2>1. CASE i < n
    <3>1. i \in 1..n - 1 /\ i <= Len(before)  BY <1>1, <2>1
    <3> QED  BY <1>1, <1>4, <1>5, <2>1, <3>1
  <2>2. CASE ~ i < n
    <3>1. ~ i <= Len(before) /\ i - Len(before) \in 1..Len(q) - n /\ n + (i - Len(before)) = i + 1
      BY <1>1, <2>2
    <3> QED  BY <1>1, <1>2, <1>4, <1>5, <2>2, <3>1
  <2> QED  BY <2>1, <2>2
<1> QED  BY <1>3, <1>4, <1>5, <1>6

\* The new queue r is q with c entered at n: at its end, or, when c is a high call,
\* before the first normal one.
EntersAt(q, r, c, n) ==
    /\ \A i \in 1..Len(q) + 1 : r[i] = IF i < n THEN q[i] ELSE IF i = n THEN c ELSE q[i - 1]
    /\ n <= Len(q) => Plan[c].high /\ ~ Plan[q[n]].high
    /\ Plan[c].high => \A i \in 1..n - 1 : Plan[q[i]].high

LEMMA Enqueueing ==
    ASSUME NEW q \in Seq(Calls), NEW c \in Calls
    PROVE  /\ Enqueued(q, c) \in Seq(Calls) /\ Len(Enqueued(q, c)) = Len(q) + 1
           /\ \E n \in 1..Len(q) + 1 : EntersAt(q, Enqueued(q, c), c, n)
<1> DEFINE later == IF Plan[c].high THEN {i \in DOMAIN q : ~Plan[q[i]].high} ELSE {}
<1>1. CASE later = {}
  <2>1. Enqueued(q, c) = Append(q, c)  BY <1>1 DEF Enqueued
  <2>2. Plan[c].high => \A i \in 1..Len(q) : Plan[q[i]].high  BY <1>1
  <2>3. Append(q, c) \in Seq(Calls) /\ Len(Append(q, c)) = Len(q) + 1
        /\ \A i \in 1..Len(q) + 1 : Append(q, c)[i] = IF i < Len(q) + 1 THEN q[i] ELSE c
    OBVIOUS
  <2> DEFINE n == Len(q) + 1
  <2>4. n \in 1..Len(q) + 1 /\ ~ n <= Len(q) /\ 1..n - 1 = 1..Len(q)  OBVIOUS
  <2>5. \A i \in 1..Len(q) + 1 :
           Append(q, c)[i] = IF i < n THEN q[i] ELSE IF i = n THEN c ELSE q[i - 1]
    BY <2>3
  <2> HIDE DEF n
  <2> QED  BY <2>1, <2>2, <2>3, <2>4, <2>5 DEF EntersAt
<1>2. CASE later # {}
  <2> DEFINE n == CHOOSE i \in later : \A j \in later : i <= j
  <2>1. later \subseteq Nat /\ later \subseteq 1..Len(q) /\ Plan[c].high  BY <1>2
  <2>2. PICK m \in later : \A j \in later : m <= j
    <3> HIDE DEF later
    <3> QED  BY <1>2, <2>1, SmallestOfSome
  <2>3. n \in later /\ \A j \in later : n <= j
    <3> HIDE DEF later
    <3> QED  BY <2>2
  <2>4. n \in 1..Len(q) /\ ~ Plan[q[n]].high  BY <2>1, <2>3
  <2>5. \A i \in 1..n - 1 : Plan[q[i]].high
    <3> SUFFICES ASSUME NEW i \in 1..n - 1, ~ Plan[q[i]].high PROVE FALSE  OBVIOUS
    <3>1. i \in later  BY <2>1, <2>4
    <3>2. n <= i /\ ~ n <= i
      <4> HIDE DEF later, n
      <4>1. n <= i  BY <2>3, <3>1
      <4> QED  BY <2>4, <4>1
    <3> QED  BY <3>2
  <2>6. Enqueued(q, c) = InsertAt(q, n, c)  BY <1>2 DEF Enqueued
  <2> HIDE DEF n
  <2>7. /\ InsertAt(q, n, c) \in Seq(Calls) /\ Len(InsertAt(q, n, c)) = Len(q) + 1
        /\ \A i \in 1..Len(q) + 1 :
              InsertAt(q, n, c)[i] = IF i < n THEN q[i] ELSE IF i = n THEN c ELSE q[i - 1]
    BY <2>4, Insertion
  <2>8. n \in 1..Len(q) + 1  BY <2>4
  <2> QED  BY <2>1, <2>4, <2>5, <2>6, <2>7, <2>8 DEF EntersAt
<1> QED  BY <1>1, <1>2

LEMMA Dropping ==
    ASSUME NEW q \in Seq(Calls), NEW c \in Calls, \A i, j \in DOMAIN q : q[i] = q[j] => i = j
    PROVE  /\ Without(q, c) \in Seq(Calls)
           /\ \A i \in DOMAIN Without(q, c) : Without(q, c)[i] # c
           /\ \A i \in DOMAIN Without(q, c) : \E k \in DOMAIN q : Without(q, c)[i] = q[k]
           /\ \A i, j \in DOMAIN Without(q, c) : i < j =>
                 \E k, m \in DOMAIN q : k < m /\ Without(q, c)[i] = q[k] /\ Without(q, c)[j] = q[m]
<1>1. CASE c \notin ToSet(q)
  <2>1. Without(q, c) = q /\ \A i \in DOMAIN q : q[i] # c  BY <1>1 DEF Without, ToSet
  <2> QED  BY <2>1
<1>2. CASE c \in ToSet(q)
  <2> DEFINE n == CHOOSE i \in DOMAIN q : q[i] = c
  <2>1. n \in 1..Len(q) /\ q[n] = c
    <3>1. \E i \in DOMAIN q : q[i] = c  BY <1>2 DEF ToSet
    <3> QED  BY <3>1
  <2>2. Without(q, c) = RemoveAt(q, n)  BY <1>2 DEF Without
  <2> HIDE DEF n
  <2> DEFINE r == RemoveAt(q, n)
             old(i) == IF i < n THEN i ELSE i + 1
  <2>3. r \in Seq(Calls) /\ Len(r) = Len(q) - 1 /\ \A i \in 1..Len(q) - 1 : r[i] = IF i < n THEN q[i] ELSE q[i + 1]
    BY <2>1, Removal
  <2> HIDE DEF r
  <2>4. \A i \in DOMAIN r : old(i) \in DOMAIN q /\ old(i) # n /\ r[i] = q[old(i)]  BY <2>1, <2>3
  <2>5. \A i, j \in DOMAIN r : i < j => old(i) < old(j)  BY <2>1, <2>3
  <2>6. \A i \in DOMAIN r : r[i] # c  BY <2>1, <2>4
  <2> HIDE DEF old
  <2> QED  BY <2>2, <2>3, <2>4, <2>5, <2>6 DEF r
<1> QED  BY <1>1, <1>2

----------------------------------------------------------------------------
\* One lemma for each kind of step.

\* A step that only settles calls and frees pipes leaves the queues in order.
LEMMA Settling ==
    ASSUME PipeInv, UNCHANGED <<queue, left>>, PipeTypeOK', OneRequestAtATime',
           \A c \in Calls : state'[c] = state[c] \/ state'[c] \in Settled,
           \A l \in Lanes : running'[l] \in {running[l], NoCall}
    PROVE  PipeInv'
<1> USE DEF PipeInv
<1>1. \A l \in Lanes : \A i \in DOMAIN queue[l] : queue[l][i] \in Calls  BY DEF PipeTypeOK
<1>2. InItsQueue'  BY <1>1 DEF InItsQueue
<1>3. InItsLane'  BY DEF InItsLane
<1>4. \A c \in Calls : state'[c] \in Open \/ state'[c] = "waiting" => state'[c] = state[c]
  BY DEF Settled, Open
<1>5. WithinBudget'  BY <1>4 DEF WithinBudget
<1>6. QueueIsFair'
  <2> SUFFICES ASSUME NEW l \in Lanes, NEW i \in DOMAIN queue[l], NEW j \in DOMAIN queue[l], i < j
               PROVE  \/ Plan[queue[l][i]].high /\ ~ Plan[queue[l][j]].high
                      \/ /\ Plan[queue[l][i]].high = Plan[queue[l][j]].high
                         /\ {state'[queue[l][i]], state'[queue[l][j]]} = {"waiting"}
                               => Age(queue[l][i]) >= Age(queue[l][j])
    BY DEF QueueIsFair, Age
  <2> DEFINE c == queue[l][i]
             d == queue[l][j]
  <2>1. c \in Calls /\ d \in Calls  BY <1>1
  <2>2. \/ Plan[c].high /\ ~ Plan[d].high
        \/ Plan[c].high = Plan[d].high
           /\ ({state[c], state[d]} = {"waiting"} => Age(c) >= Age(d))
    BY DEF QueueIsFair
  <2>3. {state'[c], state'[d]} = {"waiting"} => {state[c], state[d]} = {"waiting"}
    <3> SUFFICES ASSUME {state'[c], state'[d]} = {"waiting"} PROVE {state[c], state[d]} = {"waiting"}
      OBVIOUS
    <3>1. state'[c] = "waiting" /\ state'[d] = "waiting"  OBVIOUS
    <3> QED  BY <2>1, <3>1, <1>4
  <2> QED  BY <2>2, <2>3
<1> QED  BY <1>2, <1>3, <1>5, <1>6

\* The calls at the two ends of a settled request.
LEMMA Holder ==
    ASSUME PipeInv, NEW l \in Lanes, running[l] # NoCall
    PROVE  running[l] \in Calls /\ LaneOf(running[l]) = l /\ state[running[l]] = "sent"
BY DEF PipeInv, PipeTypeOK, InItsLane, OneRequestAtATime

LEMMA UnsentEnds ==
    ASSUME PipeInv, NEW c \in Calls, NEW end \in Settled, state[c] # "sent",
           state' = [state EXCEPT ![c] = end],
           UNCHANGED <<queue, running, left, childWork, alive, reached>>
    PROVE  PipeInv'
<1>1. \A d \in Calls : state'[d] = IF d = c THEN end ELSE state[d]  BY DEF PipeInv, PipeTypeOK
<1>2. PipeTypeOK'  BY DEF PipeInv, PipeTypeOK
<1>3. end # "sent"  BY DEF Settled
<1>4. OneRequestAtATime'  BY <1>1, <1>3 DEF PipeInv, OneRequestAtATime
<1>5. \A l \in Lanes : running'[l] \in {running[l], NoCall}  OBVIOUS
<1> QED  BY <1>1, <1>2, <1>4, <1>5, Settling

LEMMA RefuseStep == ASSUME PipeInv, NEW c \in Calls, Refuse(c) PROVE PipeInv'
<1>1. "aborted" \in Settled /\ "unavailable" \in Settled  BY DEF Settled
<1>2. state[c] # "sent"  BY DEF Refuse
<1> QED  BY <1>1, <1>2, UnsentEnds DEF Refuse

LEMMA InQueueStep ==
    ASSUME PipeInv, NEW c \in Calls, ExpireInQueue(c) \/ AbortInQueue(c)
    PROVE  PipeInv'
<1>1. "aborted" \in Settled /\ "queueTimeout" \in Settled  BY DEF Settled
<1>2. state[c] # "sent"  BY DEF ExpireInQueue, AbortInQueue, Queued
<1> QED  BY <1>1, <1>2, UnsentEnds DEF ExpireInQueue, AbortInQueue

\* The request that is out ends, and its pipe is free.
LEMMA Ending ==
    ASSUME PipeInv, NEW l \in Lanes, running[l] # NoCall, NEW end \in Settled,
           state' = [state EXCEPT ![running[l]] = end], Free(l),
           UNCHANGED <<queue, left, reached>>,
           childWork' \in [Lanes -> SUBSET Calls], alive' \subseteq Lanes
    PROVE  PipeInv'
<1>1. running[l] \in Calls /\ LaneOf(running[l]) = l /\ state[running[l]] = "sent"  BY Holder
<1>2. \A d \in Calls : state'[d] = IF d = running[l] THEN end ELSE state[d]
  BY DEF PipeInv, PipeTypeOK
<1>3. \A m \in Lanes : running'[m] = IF m = l THEN NoCall ELSE running[m]
  BY DEF PipeInv, PipeTypeOK, Free
<1>4. PipeTypeOK'  BY <1>1 DEF PipeInv, PipeTypeOK, Free
<1>5. OneRequestAtATime'
  <2> SUFFICES ASSUME NEW c \in Calls PROVE state'[c] = "sent" <=> running'[LaneOf(c)] = c
    BY DEF OneRequestAtATime
  <2>1. LaneOf(c) \in Lanes /\ c # NoCall /\ end # "sent"  BY LaneIsThere, PipeConstants DEF Settled
  <2>2. state[c] = "sent" <=> running[LaneOf(c)] = c  BY DEF PipeInv, OneRequestAtATime
  <2> QED  BY <1>1, <1>2, <1>3, <2>1, <2>2
<1> QED  BY <1>2, <1>3, <1>4, <1>5, Settling

LEMMA GivenUpStep ==
    ASSUME PipeInv, NEW l \in Lanes, TimesOut(l) \/ AbortSent(l)
    PROVE  PipeInv'
<1>1. "timeout" \in Settled /\ "aborted" \in Settled  BY DEF Settled
<1>2. childWork' \in [Lanes -> SUBSET Calls] /\ alive' \subseteq Lanes
  BY DEF TimesOut, AbortSent, PipeInv, PipeTypeOK
<1> QED  BY <1>1, <1>2, Ending DEF TimesOut, AbortSent

LEMMA ChildFinishesStep ==
    ASSUME PipeInv, NEW l \in Lanes, NEW c \in Calls, ChildFinishes(l, c)
    PROVE  PipeInv'
<1>1. childWork' \in [Lanes -> SUBSET Calls] /\ alive' \subseteq Lanes
  BY DEF ChildFinishes, PipeInv, PipeTypeOK
<1>2. CASE running[l] = c
  <2>1. running[l] # NoCall  BY <1>2, PipeConstants
  <2>2. PICK end \in {"answered", "failed"} : state' = [state EXCEPT ![c] = end] /\ Free(l)
    BY <1>2 DEF ChildFinishes
  <2>3. end \in Settled  BY DEF Settled
  <2> QED  BY <1>1, <1>2, <2>1, <2>2, <2>3, Ending DEF ChildFinishes
<1>3. CASE running[l] # c
  <2>1. UNCHANGED <<queue, left, state, running, reached>>  BY <1>3 DEF ChildFinishes
  <2>2. PipeTypeOK'  BY <1>1, <2>1 DEF PipeInv, PipeTypeOK
  <2>3. OneRequestAtATime'  BY <2>1 DEF PipeInv, OneRequestAtATime
  <2> QED  BY <2>1, <2>2, <2>3, Settling
<1> QED  BY <1>2, <1>3

LEMMA ChildDiesStep == ASSUME PipeInv, NEW l \in Lanes, ChildDies(l) PROVE PipeInv'
<1>1. childWork' \in [Lanes -> SUBSET Calls] /\ alive' \subseteq Lanes
  BY DEF ChildDies, PipeInv, PipeTypeOK
<1>2. CASE running[l] # NoCall
  <2>1. "failed" \in Settled  BY DEF Settled
  <2>2. running[l] \in Calls  BY <1>2, Holder
  <2>3. state' = [state EXCEPT ![running[l]] = "failed"]  BY <2>2 DEF ChildDies, PipeInv, PipeTypeOK
  <2> QED  BY <1>1, <1>2, <2>1, <2>3, Ending DEF ChildDies
<1>3. CASE running[l] = NoCall
  <2>1. UNCHANGED <<queue, left, state, running, reached>>
    BY <1>3, PipeConstants DEF ChildDies, PipeInv, PipeTypeOK, Free
  <2>2. PipeTypeOK'  BY <1>1, <2>1 DEF PipeInv, PipeTypeOK
  <2>3. OneRequestAtATime'  BY <2>1 DEF PipeInv, OneRequestAtATime
  <2> QED  BY <2>1, <2>2, <2>3, Settling
<1> QED  BY <1>2, <1>3

\* Call c may stand before call d in a queue, when s is the state and b the rest of
\* the budgets.
MayPrecede(c, d, s, b) ==
    \/ Plan[c].high /\ ~ Plan[d].high
    \/ /\ Plan[c].high = Plan[d].high
       /\ {s[c], s[d]} = {"waiting"} => Plan[c].budget - b[c] >= Plan[d].budget - b[d]

LEMMA FairByPairs ==
    QueueIsFair <=> \A l \in Lanes : \A i, j \in DOMAIN queue[l] :
                        i < j => MayPrecede(queue[l][i], queue[l][j], state, left)
BY DEF QueueIsFair, MayPrecede, Age

LEMMA FairByPairsNext ==
    QueueIsFair' <=> \A l \in Lanes : \A i, j \in DOMAIN queue'[l] :
                        i < j => MayPrecede(queue'[l][i], queue'[l][j], state', left')
BY DEF QueueIsFair, MayPrecede, Age

\* What holds a pair in order: neither call starts to wait, and both age alike.
LEMMA StaysInOrder ==
    ASSUME NEW c \in Calls, NEW d \in Calls, MayPrecede(c, d, state, left), PipeTypeOK,
           state'[c] = "waiting" => state[c] = "waiting",
           state'[d] = "waiting" => state[d] = "waiting",
           {state'[c], state'[d]} = {"waiting"} =>
               \E n \in 0..1 : left'[c] = left[c] - n /\ left'[d] = left[d] - n
    PROVE  MayPrecede(c, d, state', left')
<1>1. CASE {state'[c], state'[d]} = {"waiting"}
  <2>1. state'[c] = "waiting" /\ state'[d] = "waiting"  BY <1>1
  <2>2. {state[c], state[d]} = {"waiting"}  BY <2>1
  <2>3. PICK n \in 0..1 : left'[c] = left[c] - n /\ left'[d] = left[d] - n  BY <1>1
  <2>4. left[c] \in Int /\ left[d] \in Int /\ Plan[c].budget \in Int /\ Plan[d].budget \in Int
    BY PipeConstants DEF PipeTypeOK
  <2>5. Plan[c].budget - left[c] >= Plan[d].budget - left[d]
           => Plan[c].budget - left'[c] >= Plan[d].budget - left'[d]
    BY <2>3, <2>4
  <2> QED  BY <2>2, <2>5 DEF MayPrecede
<1>2. CASE {state'[c], state'[d]} # {"waiting"}
  BY <1>2 DEF MayPrecede
<1> QED  BY <1>1, <1>2

\* New calls, one of a lane at most, enter their queues together: a call of work
\* alone, and the probes of a cycle.
LEMMA Joining ==
    ASSUME PipeInv, NEW S \in SUBSET Calls, \A c \in S : state[c] = "new",
           \A c, d \in S : LaneOf(c) = LaneOf(d) => c = d,
           queue' = [l \in Lanes |-> queue'[l]],
           \A l \in Lanes : (\A c \in S : LaneOf(c) # l) => queue'[l] = queue[l],
           \A c \in S : queue'[LaneOf(c)] = Enqueued(queue[LaneOf(c)], c),
           state' = [c \in Calls |-> IF c \in S THEN "waiting" ELSE state[c]],
           left' = [c \in Calls |-> IF c \in S THEN Plan[c].budget ELSE left[c]],
           UNCHANGED <<running, childWork, alive, reached>>
    PROVE  PipeInv'
<1>1. \A l \in Lanes : queue[l] \in Seq(Calls)  BY DEF PipeInv, PipeTypeOK
<1>2. \A d \in Calls : /\ state'[d] = IF d \in S THEN "waiting" ELSE state[d]
                       /\ left'[d] = IF d \in S THEN Plan[d].budget ELSE left[d]
  OBVIOUS
<1>3. ASSUME NEW m \in Lanes, NEW i \in DOMAIN queue[m]
      PROVE  /\ queue[m][i] \in Calls /\ queue[m][i] \notin S /\ LaneOf(queue[m][i]) = m
             /\ state[queue[m][i]] \in Settled \union {"waiting"}
             /\ \A j \in DOMAIN queue[m] : queue[m][i] = queue[m][j] => i = j
             /\ state'[queue[m][i]] = state[queue[m][i]] /\ left'[queue[m][i]] = left[queue[m][i]]
  <2>1. queue[m][i] \in Calls  BY DEF PipeInv, PipeTypeOK
  <2>2. /\ LaneOf(queue[m][i]) = m /\ state[queue[m][i]] \in Settled \union {"waiting"}
        /\ \A j \in DOMAIN queue[m] : queue[m][i] = queue[m][j] => i = j
    BY DEF PipeInv, InItsQueue
  <2>3. queue[m][i] \notin S  BY <2>2 DEF Settled
  <2> QED  BY <1>2, <2>1, <2>2, <2>3
<1>4. ASSUME NEW m \in Lanes, NEW i \in DOMAIN queue[m], NEW j \in DOMAIN queue[m], i < j
      PROVE  /\ MayPrecede(queue[m][i], queue[m][j], state, left)
             /\ MayPrecede(queue[m][i], queue[m][j], state', left')
  <2> DEFINE a == queue[m][i]
             b == queue[m][j]
  <2>1. MayPrecede(a, b, state, left)  BY <1>4, FairByPairs DEF PipeInv
  <2>2. a \in Calls /\ b \in Calls /\ state'[a] = state[a] /\ state'[b] = state[b]
        /\ left'[a] = left[a] /\ left'[b] = left[b] /\ left[a] \in Nat /\ left[b] \in Nat
    BY <1>3 DEF PipeInv, PipeTypeOK
  <2>3. left'[a] = left[a] - 0 /\ left'[b] = left[b] - 0  BY <2>2
  <2>4. PipeTypeOK  BY DEF PipeInv
  <2>5. MayPrecede(a, b, state', left')
    <3> HIDE DEF a, b
    <3> QED  BY <2>1, <2>2, <2>3, <2>4, StaysInOrder
  <2> QED  BY <2>1, <2>5
<1>5. ASSUME NEW l \in Lanes
      PROVE  /\ queue'[l] \in Seq(Calls)
             /\ \A i \in DOMAIN queue'[l] :
                   /\ LaneOf(queue'[l][i]) = l
                   /\ state'[queue'[l][i]] \in Settled \union {"waiting"}
             /\ \A i, j \in DOMAIN queue'[l] : queue'[l][i] = queue'[l][j] => i = j
             /\ \A i, j \in DOMAIN queue'[l] :
                   i < j => MayPrecede(queue'[l][i], queue'[l][j], state', left')
  <2>1. CASE \A c \in S : LaneOf(c) # l
    <3>1. queue'[l] = queue[l]  BY <2>1
    <3>2. \A i \in DOMAIN queue[l] :
             /\ LaneOf(queue[l][i]) = l
             /\ state'[queue[l][i]] \in Settled \union {"waiting"}
      BY <1>3
    <3>3. \A i, j \in DOMAIN queue[l] : queue[l][i] = queue[l][j] => i = j
      BY DEF PipeInv, InItsQueue
    <3> QED  BY <1>1, <1>4, <3>1, <3>2, <3>3
  <2>2. CASE \E c \in S : LaneOf(c) = l
    <3> DEFINE q == queue[l]
    <3>1. PICK c \in S : LaneOf(c) = l  BY <2>2
    <3>2. c \in Calls /\ state[c] = "new" /\ state'[c] = "waiting" /\ left'[c] = Plan[c].budget
          /\ q \in Seq(Calls) /\ queue'[l] = Enqueued(q, c)
      BY <1>1, <1>2, <3>1
    <3>3. PICK n \in 1..Len(q) + 1 : EntersAt(q, Enqueued(q, c), c, n)  BY <3>2, Enqueueing
    <3>4. Enqueued(q, c) \in Seq(Calls) /\ Len(Enqueued(q, c)) = Len(q) + 1  BY <3>2, Enqueueing
    <3>5. /\ DOMAIN q = 1..Len(q) /\ Len(q) \in Nat /\ DOMAIN queue'[l] = 1..Len(q) + 1
          /\ \A i \in 1..Len(q) + 1 :
                queue'[l][i] = IF i < n THEN q[i] ELSE IF i = n THEN c ELSE q[i - 1]
      BY <3>2, <3>3, <3>4 DEF EntersAt
    <3>6. \A i \in 1..Len(q) :
             /\ q[i] \in Calls /\ q[i] # c /\ LaneOf(q[i]) = l
             /\ state'[q[i]] \in Settled \union {"waiting"}
             /\ state'[q[i]] = state[q[i]] /\ left'[q[i]] = left[q[i]]
      <4> SUFFICES ASSUME NEW i \in 1..Len(q)
                   PROVE  /\ q[i] \in Calls /\ q[i] # c /\ LaneOf(q[i]) = l
                          /\ state'[q[i]] \in Settled \union {"waiting"}
                          /\ state'[q[i]] = state[q[i]] /\ left'[q[i]] = left[q[i]]
        OBVIOUS
      <4>1. i \in DOMAIN queue[l]  BY <3>5
      <4>2. /\ q[i] \in Calls /\ q[i] \notin S /\ LaneOf(q[i]) = l
            /\ state[q[i]] \in Settled \union {"waiting"}
            /\ state'[q[i]] = state[q[i]] /\ left'[q[i]] = left[q[i]]
        BY ONLY <1>3, <4>1
      <4> QED  BY ONLY <3>1, <4>2
    <3>13. \A i, j \in 1..Len(q) : q[i] = q[j] => i = j
      BY <3>5 DEF PipeInv, InItsQueue
    <3>7. \A i, j \in 1..Len(q) : i < j => /\ MayPrecede(q[i], q[j], state, left)
                                           /\ MayPrecede(q[i], q[j], state', left')
      BY <1>4, <3>5
    <3> HIDE DEF q
    <3>8. \A i \in DOMAIN queue'[l] : LaneOf(queue'[l][i]) = l
                                      /\ state'[queue'[l][i]] \in Settled \union {"waiting"}
      <4> SUFFICES ASSUME NEW i \in 1..Len(q) + 1
                   PROVE  LaneOf(queue'[l][i]) = l
                          /\ state'[queue'[l][i]] \in Settled \union {"waiting"}
        BY <3>5
      <4>1. \/ queue'[l][i] = c
            \/ \E k \in 1..Len(q) : queue'[l][i] = q[k]
        <5>1. CASE i < n  BY <3>3, <3>5, <5>1
        <5>2. CASE i = n  BY <3>3, <3>5, <5>2
        <5>3. CASE i > n
          <6>1. i - 1 \in 1..Len(q) /\ queue'[l][i] = q[i - 1]  BY <3>3, <3>5, <5>3
          <6> QED  BY <6>1
        <5> QED  BY <3>3, <5>1, <5>2, <5>3
      <4> QED  BY <3>1, <3>2, <3>6, <4>1
    <3>9. ASSUME NEW i \in DOMAIN queue'[l], NEW j \in DOMAIN queue'[l],
                 queue'[l][i] = queue'[l][j]
          PROVE  i = j
      <4>1. i = n <=> j = n
        <5>1. \A k \in DOMAIN queue'[l] : queue'[l][k] = c => k = n
          <6> SUFFICES ASSUME NEW k \in 1..Len(q) + 1, k # n PROVE queue'[l][k] # c
            BY <3>5
          <6>1. CASE k < n
            <7>1. k \in 1..Len(q) /\ queue'[l][k] = q[k]  BY <3>3, <3>5, <6>1
            <7> QED  BY <3>6, <7>1
          <6>2. CASE k > n
            <7>1. k - 1 \in 1..Len(q) /\ queue'[l][k] = q[k - 1]  BY <3>3, <3>5, <6>2
            <7> QED  BY <3>6, <7>1
          <6> QED  BY <3>3, <6>1, <6>2
        <5>2. n \in DOMAIN queue'[l] /\ queue'[l][n] = c  BY <3>3, <3>5
        <5> QED  BY <3>9, <5>1, <5>2
      <4>2. CASE i # n /\ j # n
        <5> DEFINE x == IF i < n THEN i ELSE i - 1
                   y == IF j < n THEN j ELSE j - 1
        <5>1. x \in 1..Len(q) /\ y \in 1..Len(q) /\ (x = y => i = j)
          BY <3>3, <3>5, <4>2
        <5>2. q[x] = q[y]  BY <3>3, <3>5, <3>9, <4>2
        <5> HIDE DEF x, y
        <5> QED  BY <3>13, <5>1, <5>2
      <4> QED  BY <4>1, <4>2
    <3>10. ASSUME NEW i \in 1..Len(q), i < n PROVE MayPrecede(q[i], c, state', left')
      <4>1. q[i] \in Calls /\ state'[q[i]] = state[q[i]] /\ left'[q[i]] = left[q[i]]
        BY <3>6
      <4>2. Plan[c].high => Plan[q[i]].high  BY <3>3, <3>10 DEF EntersAt
      <4>3. Plan[c].high \in BOOLEAN /\ Plan[q[i]].high \in BOOLEAN
            /\ Plan[c].budget \in Nat /\ Plan[q[i]].budget \in Nat
        BY <3>2, <4>1, PipeConstants
      <4>4. state'[q[i]] = "waiting" => left'[q[i]] <= Plan[q[i]].budget /\ left'[q[i]] \in Nat
        BY <4>1 DEF PipeInv, PipeTypeOK, WithinBudget, Open
      <4>5. state'[q[i]] = "waiting" => Plan[q[i]].budget - left'[q[i]] >= Plan[c].budget - left'[c]
        BY <3>2, <4>3, <4>4
      <4>6. {state'[q[i]], state'[c]} = {"waiting"}
               => Plan[q[i]].budget - left'[q[i]] >= Plan[c].budget - left'[c]
        <5>1. {state'[q[i]], state'[c]} = {"waiting"} => state'[q[i]] = "waiting"  OBVIOUS
        <5> QED  BY <4>5, <5>1
      <4>7. Plan[c].high = Plan[q[i]].high \/ (Plan[q[i]].high /\ ~ Plan[c].high)  BY <4>2, <4>3
      <4> QED  BY <4>6, <4>7 DEF MayPrecede
    <3>11. ASSUME NEW i \in 1..Len(q), n <= i PROVE MayPrecede(c, q[i], state', left')
      <4>1. n \in 1..Len(q) /\ Plan[c].high /\ ~ Plan[q[n]].high  BY <3>3, <3>5, <3>11 DEF EntersAt
      <4>2. CASE i = n  BY <4>1, <4>2 DEF MayPrecede
      <4>3. CASE i > n
        <5>1. MayPrecede(q[n], q[i], state, left)  BY <3>7, <4>1, <4>3
        <5>2. ~ Plan[q[i]].high
          <6>1. q[i] \in Calls /\ q[n] \in Calls  BY <3>6, <4>1
          <6> QED  BY <4>1, <5>1, <6>1, PipeConstants DEF MayPrecede
        <5> QED  BY <4>1, <5>2 DEF MayPrecede
      <4> QED  BY <3>5, <3>11, <4>2, <4>3
    <3>12. ASSUME NEW i \in DOMAIN queue'[l], NEW j \in DOMAIN queue'[l], i < j
           PROVE  MayPrecede(queue'[l][i], queue'[l][j], state', left')
      <4>1. CASE i = n
        <5>1. queue'[l][i] = c /\ queue'[l][j] = q[j - 1] /\ j - 1 \in 1..Len(q) /\ n <= j - 1
          BY <3>3, <3>5, <3>12, <4>1
        <5>2. MayPrecede(c, q[j - 1], state', left')  BY <3>11, <5>1
        <5> QED  BY <5>1, <5>2
      <4>2. CASE j = n
        <5>1. queue'[l][j] = c /\ queue'[l][i] = q[i] /\ i \in 1..Len(q)
          BY <3>3, <3>5, <3>12, <4>2
        <5>2. MayPrecede(q[i], c, state', left')  BY <3>10, <3>12, <4>2, <5>1
        <5> QED  BY <5>1, <5>2
      <4>3. CASE i # n /\ j # n
        <5>1. PICK x \in 1..Len(q), y \in 1..Len(q) :
                 x < y /\ queue'[l][i] = q[x] /\ queue'[l][j] = q[y]
          <6> DEFINE x == IF i < n THEN i ELSE i - 1
                     y == IF j < n THEN j ELSE j - 1
          <6>1. x \in 1..Len(q) /\ y \in 1..Len(q) /\ x < y  BY <3>3, <3>5, <3>12, <4>3
          <6>2. queue'[l][i] = q[x] /\ queue'[l][j] = q[y]  BY <3>3, <3>5, <3>12, <4>3
          <6> HIDE DEF x, y
          <6> QED  BY <6>1, <6>2
        <5>2. MayPrecede(q[x], q[y], state', left')  BY <3>7, <5>1
        <5> QED  BY <5>1, <5>2
      <4> QED  BY <4>1, <4>2, <4>3
    <3> QED  BY <3>2, <3>4, <3>8, <3>9, <3>12
  <2> QED  BY <2>1, <2>2
<1>6. PipeTypeOK'
  <2>1. queue' \in [Lanes -> Seq(Calls)]  BY <1>5
  <2>2. left' \in [Calls -> Nat] /\ state' \in [Calls -> Settled \union Open \union {"new"}]
    BY PipeConstants DEF PipeInv, PipeTypeOK, Open
  <2> QED  BY <2>1, <2>2 DEF PipeInv, PipeTypeOK
<1>7. InItsQueue'  BY <1>5 DEF InItsQueue
<1>8. InItsLane'  BY DEF PipeInv, InItsLane
<1>9. WithinBudget'  BY <1>2, PipeConstants DEF PipeInv, WithinBudget
<1>10. OneRequestAtATime'  BY <1>2 DEF PipeInv, OneRequestAtATime
<1>11. QueueIsFair'  BY <1>5, FairByPairsNext
<1> QED  BY <1>6, <1>7, <1>8, <1>9, <1>10, <1>11 DEF PipeInv

LEMMA SubmitStep == ASSUME PipeInv, NEW c \in Calls, Submit(c) PROVE PipeInv'
<1> DEFINE S == {c}
<1>1. LaneOf(c) \in Lanes  BY LaneIsThere
<1>2. S \in SUBSET Calls /\ \A d \in S : d = c /\ state[d] = "new"  BY DEF Submit
<1>3. queue' = [l \in Lanes |-> queue'[l]]
  BY DEF Submit, PipeInv, PipeTypeOK
<1>4. /\ \A l \in Lanes : LaneOf(c) # l => queue'[l] = queue[l]
      /\ queue'[LaneOf(c)] = Enqueued(queue[LaneOf(c)], c)
  BY <1>1 DEF Submit, PipeInv, PipeTypeOK
<1>5. /\ state' = [d \in Calls |-> IF d \in S THEN "waiting" ELSE state[d]]
      /\ left' = [d \in Calls |-> IF d \in S THEN Plan[d].budget ELSE left[d]]
  BY DEF Submit, PipeInv, PipeTypeOK
<1>6. c \in S /\ UNCHANGED <<running, childWork, alive, reached>>  BY DEF Submit
<1> HIDE DEF S
<1>7. \A l \in Lanes : (\A d \in S : LaneOf(d) # l) => queue'[l] = queue[l]  BY <1>4, <1>6
<1>8. \A d \in S : queue'[LaneOf(d)] = Enqueued(queue[LaneOf(d)], d)  BY <1>2, <1>4
<1>9. \A d, e \in S : LaneOf(d) = LaneOf(e) => d = e  BY <1>2
<1> QED  BY <1>2, <1>3, <1>5, <1>6, <1>7, <1>8, <1>9, Joining

\* A step that only takes entries out of the queues: what is left stands in its old
\* order, and no call that is left starts to wait or ages alone.
Thinned(q, r) ==
    /\ r \in Seq(Calls)
    /\ \A i \in DOMAIN r : \E k \in DOMAIN q : r[i] = q[k]
    /\ \A i, j \in DOMAIN r : i < j =>
          \E k, m \in DOMAIN q : k < m /\ r[i] = q[k] /\ r[j] = q[m]

LEMMA Thinning ==
    ASSUME PipeInv, queue' \in [Lanes -> Seq(Calls)],
           \A l \in Lanes : Thinned(queue[l], queue'[l]),
           \A l \in Lanes : \A i \in DOMAIN queue'[l] :
              state'[queue'[l][i]] = state[queue'[l][i]],
           \/ \A c \in Calls : state'[c] = "waiting" => left'[c] = left[c]
           \/ \A c \in Calls : state'[c] = "waiting" => left'[c] = left[c] - 1
    PROVE  InItsQueue' /\ QueueIsFair'
<1>1. \A l \in Lanes : \A i \in DOMAIN queue[l] : queue[l][i] \in Calls
  BY DEF PipeInv, PipeTypeOK
<1>2. \A l \in Lanes : DOMAIN queue'[l] \subseteq Nat
  BY DEF Thinned
<1>3. \A l \in Lanes : \A i, j \in DOMAIN queue'[l] : i < j => queue'[l][i] # queue'[l][j]
  <2> SUFFICES ASSUME NEW l \in Lanes, NEW i \in DOMAIN queue'[l], NEW j \in DOMAIN queue'[l], i < j
               PROVE  queue'[l][i] # queue'[l][j]
    OBVIOUS
  <2>1. PICK k \in DOMAIN queue[l], m \in DOMAIN queue[l] :
           k < m /\ queue'[l][i] = queue[l][k] /\ queue'[l][j] = queue[l][m]
    BY DEF Thinned
  <2>2. k # m
    <3>1. k \in Nat /\ m \in Nat  BY DEF PipeInv, PipeTypeOK
    <3> QED  BY <2>1, <3>1
  <2> QED  BY <2>1, <2>2 DEF PipeInv, InItsQueue
<1>4. InItsQueue'
  <2> SUFFICES ASSUME NEW l \in Lanes
               PROVE  /\ \A i \in DOMAIN queue'[l] :
                            /\ LaneOf(queue'[l][i]) = l
                            /\ state'[queue'[l][i]] \in Settled \union {"waiting"}
                      /\ \A i, j \in DOMAIN queue'[l] : queue'[l][i] = queue'[l][j] => i = j
    BY DEF InItsQueue
  <2>1. ASSUME NEW i \in DOMAIN queue'[l]
        PROVE  LaneOf(queue'[l][i]) = l /\ state'[queue'[l][i]] \in Settled \union {"waiting"}
    <3>1. PICK k \in DOMAIN queue[l] : queue'[l][i] = queue[l][k]  BY DEF Thinned
    <3> QED  BY <3>1 DEF PipeInv, InItsQueue
  <2>2. ASSUME NEW i \in DOMAIN queue'[l], NEW j \in DOMAIN queue'[l], queue'[l][i] = queue'[l][j]
        PROVE  i = j
    <3>1. i \in Nat /\ j \in Nat  BY <1>2
    <3>2. ~ i < j /\ ~ j < i  BY <1>3, <2>2
    <3> QED  BY <3>1, <3>2
  <2> QED  BY <2>1, <2>2
<1>5. ASSUME NEW l \in Lanes, NEW i \in DOMAIN queue'[l], NEW j \in DOMAIN queue'[l], i < j
      PROVE  MayPrecede(queue'[l][i], queue'[l][j], state', left')
  <2>1. PICK k \in DOMAIN queue[l], m \in DOMAIN queue[l] :
           k < m /\ queue'[l][i] = queue[l][k] /\ queue'[l][j] = queue[l][m]
    BY <1>5 DEF Thinned
  <2> DEFINE c == queue[l][k]
             d == queue[l][m]
  <2>2. c \in Calls /\ d \in Calls  BY <1>1
  <2>3. MayPrecede(c, d, state, left)  BY <2>1, FairByPairs DEF PipeInv
  <2>4. state'[c] = state[c] /\ state'[d] = state[d]  BY <2>1
  <2> HIDE DEF c, d
  <2>5. {state'[c], state'[d]} = {"waiting"} =>
           \E n \in 0..1 : left'[c] = left[c] - n /\ left'[d] = left[d] - n
    <3> SUFFICES ASSUME {state'[c], state'[d]} = {"waiting"}
                 PROVE  \E n \in 0..1 : left'[c] = left[c] - n /\ left'[d] = left[d] - n
      OBVIOUS
    <3>1. state'[c] = "waiting" /\ state'[d] = "waiting"  OBVIOUS
    <3>2. left[c] \in Nat /\ left[d] \in Nat  BY <2>2 DEF PipeInv, PipeTypeOK
    <3>3. CASE \A e \in Calls : state'[e] = "waiting" => left'[e] = left[e]
      <4>1. left'[c] = left[c] - 0 /\ left'[d] = left[d] - 0  BY <2>2, <3>1, <3>2, <3>3
      <4> QED  BY <4>1
    <3>4. CASE \A e \in Calls : state'[e] = "waiting" => left'[e] = left[e] - 1
      <4>1. left'[c] = left[c] - 1 /\ left'[d] = left[d] - 1  BY <2>2, <3>1, <3>4
      <4> QED  BY <4>1
    <3> QED  BY <3>3, <3>4
  <2>6. PipeTypeOK  BY DEF PipeInv
  <2>7. MayPrecede(c, d, state', left')  BY <2>2, <2>3, <2>4, <2>5, <2>6, StaysInOrder
  <2> QED  BY <2>1, <2>7 DEF c, d
<1>6. QueueIsFair'  BY <1>5, FairByPairsNext
<1> QED  BY <1>4, <1>6

LEMMA ForgetStep == ASSUME PipeInv, NEW c \in Calls, Forget(c) PROVE PipeInv'
<1>1. \A l \in Lanes : queue[l] \in Seq(Calls) /\ queue'[l] = Without(queue[l], c)
  BY DEF Forget, PipeInv, PipeTypeOK
<1>2. \A d \in Calls : /\ state'[d] = IF d = c THEN "new" ELSE state[d]
                       /\ left'[d] = IF d = c THEN 0 ELSE left[d]
  BY DEF Forget, PipeInv, PipeTypeOK
<1>3. ASSUME NEW l \in Lanes
      PROVE  Thinned(queue[l], queue'[l]) /\ \A i \in DOMAIN queue'[l] : queue'[l][i] # c
  <2>1. \A i, j \in DOMAIN queue[l] : queue[l][i] = queue[l][j] => i = j
    BY DEF PipeInv, InItsQueue
  <2> DEFINE q == queue[l]
  <2>2. q \in Seq(Calls) /\ queue'[l] = Without(q, c)  BY <1>1
  <2> HIDE DEF q
  <2>3. \A i, j \in DOMAIN q : q[i] = q[j] => i = j  BY <2>1 DEF q
  <2>4. Thinned(q, Without(q, c)) /\ \A i \in DOMAIN Without(q, c) : Without(q, c)[i] # c
    BY <2>2, <2>3, Dropping DEF Thinned
  <2> QED  BY <2>2, <2>4 DEF q
<1>4. queue' \in [Lanes -> Seq(Calls)]
  <2>1. \A l \in Lanes : Without(queue[l], c) \in Seq(Calls)  BY <1>1, <1>3 DEF Thinned
  <2> QED  BY <2>1 DEF Forget
<1>5. PipeTypeOK'  BY <1>4 DEF Forget, PipeInv, PipeTypeOK
<1>6. \A l \in Lanes : \A i \in DOMAIN queue'[l] : state'[queue'[l][i]] = state[queue'[l][i]]
  <2> SUFFICES ASSUME NEW l \in Lanes, NEW i \in DOMAIN queue'[l]
               PROVE  state'[queue'[l][i]] = state[queue'[l][i]]
    OBVIOUS
  <2>1. queue'[l][i] \in Calls  BY <1>4
  <2> QED  BY <1>2, <1>3, <2>1
<1>7. \A d \in Calls : state'[d] = "waiting" => left'[d] = left[d]  BY <1>2
<1>8. InItsQueue' /\ QueueIsFair'  BY <1>3, <1>4, <1>6, <1>7, Thinning
<1>9. InItsLane'  BY DEF Forget, PipeInv, InItsLane
<1>10. WithinBudget'  BY <1>2 DEF PipeInv, WithinBudget, Open
<1>11. OneRequestAtATime'
  <2>1. state[c] # "sent"  BY DEF Forget, Settled
  <2> QED  BY <1>2, <2>1 DEF Forget, PipeInv, OneRequestAtATime
<1> QED  BY <1>5, <1>8, <1>9, <1>10, <1>11 DEF PipeInv

LEMMA TickStep == ASSUME PipeInv, Tick PROVE PipeInv'
<1>1. \A c \in Calls : /\ left[c] \in Nat /\ Plan[c].budget \in Nat /\ state'[c] = state[c]
                       /\ left'[c] = IF state[c] \in Open THEN left[c] - 1 ELSE left[c]
                       /\ state[c] \in Open => left[c] > 0
  BY PipeConstants DEF Tick, TimePasses, NoTimerIsDue, PipeInv, PipeTypeOK
<1>2. left' \in [Calls -> Nat]
  <2>1. \A c \in Calls : left'[c] \in Nat  BY <1>1
  <2> QED  BY <2>1 DEF Tick, TimePasses
<1>3. PipeTypeOK'  BY <1>2 DEF Tick, PipeInv, PipeTypeOK
<1>4. ASSUME NEW l \in Lanes PROVE Thinned(queue[l], queue'[l])
  BY <1>4 DEF Tick, PipeInv, PipeTypeOK, Thinned
<1>5. \A c \in Calls : state'[c] = "waiting" => left'[c] = left[c] - 1  BY <1>1 DEF Open
<1>6. \A l \in Lanes : \A i \in DOMAIN queue'[l] : state'[queue'[l][i]] = state[queue'[l][i]]
  BY DEF Tick
<1>7. queue' \in [Lanes -> Seq(Calls)]  BY DEF Tick, PipeInv, PipeTypeOK
<1>8. InItsQueue' /\ QueueIsFair'  BY <1>4, <1>5, <1>6, <1>7, Thinning
<1>9. WithinBudget'  BY <1>1 DEF PipeInv, WithinBudget
<1> QED  BY <1>3, <1>8, <1>9 DEF Tick, PipeInv, InItsLane, OneRequestAtATime

LEMMA PumpStep == ASSUME PipeInv, NEW l \in Lanes, Pump(l) PROVE PipeInv'
<1> DEFINE q == queue[l]
           c == Head(q)
<1>1. /\ q \in Seq(Calls) /\ q # <<>> /\ running[l] = NoCall
      /\ queue'[l] = Tail(q) /\ \A m \in Lanes : m # l => queue'[m] = queue[m]
  BY DEF Pump, PipeInv, PipeTypeOK
<1>2. /\ c \in Calls /\ 1 \in DOMAIN q /\ c = q[1] /\ Len(q) \in Nat /\ DOMAIN q = 1..Len(q)
      /\ Tail(q) \in Seq(Calls) /\ DOMAIN Tail(q) = 1..Len(q) - 1
      /\ \A i \in 1..Len(q) - 1 : Tail(q)[i] = q[i + 1]
  <2> HIDE DEF q
  <2> QED  BY <1>1
<1>3. /\ LaneOf(c) = l /\ state[c] \in Settled \union {"waiting"}
      /\ \A i \in DOMAIN q : q[i] = c => i = 1
  BY <1>2 DEF PipeInv, InItsQueue
<1>4. \/ UNCHANGED <<state, running, childWork, reached>>
      \/ /\ \E end \in Settled : state' = [state EXCEPT ![c] = end]
         /\ UNCHANGED <<running, childWork, reached>>
      \/ /\ state' = [state EXCEPT ![c] = "sent"] /\ running' = [running EXCEPT ![l] = c]
         /\ childWork' = [childWork EXCEPT ![l] = @ \union {c}]
         /\ reached' = reached \union {c} /\ state[c] = "waiting"
  <2>1. CASE state[c] \in Settled  BY <2>1 DEF Pump, Settled
  <2>2. CASE state[c] = "waiting" /\ left[c] = 0
    <3>1. state' = [state EXCEPT ![c] = "queueTimeout"] /\ UNCHANGED <<running, childWork, reached>>
      BY <2>2 DEF Pump, Settled
    <3> QED  BY <3>1 DEF Settled
  <2>3. CASE state[c] = "waiting" /\ left[c] > 0 /\ l \notin alive
    <3>1. left[c] # 0  BY <2>3
    <3>2. state' = [state EXCEPT ![c] = "failed"] /\ UNCHANGED <<running, childWork, reached>>
      BY <2>3, <3>1 DEF Pump, Settled
    <3> QED  BY <3>2 DEF Settled
  <2>4. CASE state[c] = "waiting" /\ left[c] > 0 /\ l \in alive
    <3>1. left[c] # 0  BY <2>4
    <3> QED  BY <2>4, <3>1 DEF Pump, Settled
  <2>5. left[c] = 0 \/ left[c] > 0  BY <1>2 DEF PipeInv, PipeTypeOK
  <2> QED  BY <1>3, <2>1, <2>2, <2>3, <2>4, <2>5
<1>5. UNCHANGED <<left, alive>>  BY DEF Pump
<1>6. queue' \in [Lanes -> Seq(Calls)]
  <2>1. queue' = [queue EXCEPT ![l] = Tail(q)]  BY DEF Pump
  <2> QED  BY <1>2, <2>1 DEF PipeInv, PipeTypeOK
<1>7. ASSUME NEW m \in Lanes
      PROVE  Thinned(queue[m], queue'[m]) /\ \A i \in DOMAIN queue'[m] : queue'[m][i] # c
  <2>1. CASE m = l
    <3>1. \A i \in DOMAIN Tail(q) : i \in Nat /\ i + 1 \in DOMAIN q /\ Tail(q)[i] = q[i + 1]
      BY <1>2
    <3>2. \A i, j \in DOMAIN Tail(q) : i < j => i + 1 < j + 1  BY <1>2
    <3>3. \A i \in DOMAIN Tail(q) : Tail(q)[i] # c  BY <1>3, <3>1
    <3>4. Thinned(q, Tail(q))  BY <1>2, <3>1, <3>2 DEF Thinned
    <3> QED  BY <1>1, <2>1, <3>3, <3>4
  <2>2. CASE m # l
    <3>1. queue[m] \in Seq(Calls) /\ queue'[m] = queue[m]  BY <1>1, <2>2 DEF PipeInv, PipeTypeOK
    <3>2. \A i \in DOMAIN queue[m] : queue[m][i] # c  BY <1>3, <2>2 DEF PipeInv, InItsQueue
    <3> QED  BY <3>1, <3>2 DEF Thinned
  <2> QED  BY <2>1, <2>2
<1> HIDE DEF c, q
<1>8. \A d \in Calls : d = c \/ state'[d] = state[d]
  BY <1>4 DEF PipeInv, PipeTypeOK
<1>9. \A m \in Lanes : \A i \in DOMAIN queue'[m] : state'[queue'[m][i]] = state[queue'[m][i]]
  <2> SUFFICES ASSUME NEW m \in Lanes, NEW i \in DOMAIN queue'[m]
               PROVE  state'[queue'[m][i]] = state[queue'[m][i]]
    OBVIOUS
  <2>1. queue'[m][i] \in Calls  BY <1>6
  <2> QED  BY <1>7, <1>8, <2>1
<1>10. InItsQueue' /\ QueueIsFair'  BY <1>5, <1>6, <1>7, <1>9, Thinning
<1>11. PipeTypeOK'
  <2>1. state' \in [Calls -> Settled \union Open \union {"new"}]
    BY <1>4 DEF PipeInv, PipeTypeOK, Open
  <2>2. running' \in [Lanes -> Calls \union {NoCall}]  BY <1>2, <1>4 DEF PipeInv, PipeTypeOK
  <2>3. childWork' \in [Lanes -> SUBSET Calls]
    <3>1. childWork \in [Lanes -> SUBSET Calls] /\ c \in Calls  BY <1>2 DEF PipeInv, PipeTypeOK
    <3>2. childWork' = childWork \/ childWork' = [childWork EXCEPT ![l] = childWork[l] \union {c}]
      BY <1>4
    <3>3. childWork[l] \union {c} \in SUBSET Calls  BY <3>1
    <3> QED  BY <3>1, <3>2, <3>3
  <2>4. reached' \subseteq Calls
    <3>1. reached \subseteq Calls /\ c \in Calls  BY <1>2 DEF PipeInv, PipeTypeOK
    <3> QED  BY <1>4, <3>1
  <2> QED  BY <1>5, <1>6, <2>1, <2>2, <2>3, <2>4 DEF PipeInv, PipeTypeOK
<1>12. InItsLane'
  BY <1>3, <1>4 DEF PipeInv, PipeTypeOK, InItsLane
<1>13. WithinBudget'
  <2> SUFFICES ASSUME NEW d \in Calls, state'[d] \in Open PROVE left'[d] <= Plan[d].budget
    BY DEF WithinBudget
  <2>1. state[d] \in Open
    BY <1>4, <1>8 DEF PipeInv, PipeTypeOK, Open, Settled
  <2> QED  BY <1>5, <2>1 DEF PipeInv, WithinBudget
<1>14. OneRequestAtATime'
  <2> SUFFICES ASSUME NEW d \in Calls PROVE state'[d] = "sent" <=> running'[LaneOf(d)] = d
    BY DEF OneRequestAtATime
  <2>1. state[d] = "sent" <=> running[LaneOf(d)] = d  BY DEF PipeInv, OneRequestAtATime
  <2>2. LaneOf(d) \in Lanes /\ d # NoCall  BY LaneIsThere, PipeConstants
  <2>3. state[c] # "sent"  BY <1>3 DEF Settled
  <2>4. CASE UNCHANGED <<state, running>>  BY <2>1, <2>4
  <2>5. CASE (\E end \in Settled : state' = [state EXCEPT ![c] = end]) /\ UNCHANGED running
    <3>1. state'[c] \in Settled  BY <1>2, <2>5 DEF PipeInv, PipeTypeOK
    <3>2. state'[c] # "sent"  BY <3>1 DEF Settled
    <3> QED  BY <1>8, <2>1, <2>3, <2>5, <3>2
  <2>6. CASE state' = [state EXCEPT ![c] = "sent"] /\ running' = [running EXCEPT ![l] = c]
    <3>1. state'[c] = "sent"  BY <1>2, <2>6 DEF PipeInv, PipeTypeOK
    <3>2. \A m \in Lanes : running'[m] = IF m = l THEN c ELSE running[m]
      BY <2>6 DEF PipeInv, PipeTypeOK
    <3> QED  BY <1>1, <1>3, <1>8, <2>1, <2>2, <3>1, <3>2
  <2> QED  BY <1>4, <2>4, <2>5, <2>6
<1> QED  BY <1>10, <1>11, <1>12, <1>13, <1>14 DEF PipeInv

----------------------------------------------------------------------------
LEMMA PipeInvHoldsAtFirst == PipeInit => PipeInv
<1> SUFFICES ASSUME PipeInit PROVE PipeInv  OBVIOUS
<1>1. \A l \in Lanes : queue[l] = <<>> /\ DOMAIN queue[l] = {}  BY DEF PipeInit
<1>2. PipeTypeOK  BY DEF PipeInit, PipeTypeOK
<1>3. InItsQueue /\ QueueIsFair  BY <1>1 DEF InItsQueue, QueueIsFair
<1>4. InItsLane /\ WithinBudget  BY DEF PipeInit, InItsLane, WithinBudget, Open
<1>5. OneRequestAtATime  BY LaneIsThere, PipeConstants DEF PipeInit, OneRequestAtATime
<1> QED  BY <1>2, <1>3, <1>4, <1>5 DEF PipeInv

LEMMA PipeInvIsInductive == PipeInv /\ [PipeNext]_pipeVars => PipeInv'
<1> SUFFICES ASSUME PipeInv, [PipeNext]_pipeVars PROVE PipeInv'  OBVIOUS
<1>1. CASE UNCHANGED pipeVars
  <2>1. PipeTypeOK' /\ OneRequestAtATime'
    BY <1>1 DEF pipeVars, PipeInv, PipeTypeOK, OneRequestAtATime
  <2> QED  BY <1>1, <2>1, Settling DEF pipeVars
<1>2. ASSUME NEW c \in Calls, Refuse(c) PROVE PipeInv'  BY <1>2, RefuseStep
<1>3. ASSUME NEW c \in Calls, Submit(c) PROVE PipeInv'  BY <1>3, SubmitStep
<1>4. ASSUME NEW c \in Calls, ExpireInQueue(c) \/ AbortInQueue(c) PROVE PipeInv'
  BY <1>4, InQueueStep
<1>5. ASSUME NEW c \in Calls, Forget(c) PROVE PipeInv'  BY <1>5, ForgetStep
<1>6. ASSUME NEW l \in Lanes, Pump(l) PROVE PipeInv'  BY <1>6, PumpStep
<1>7. ASSUME NEW l \in Lanes, TimesOut(l) \/ AbortSent(l) PROVE PipeInv'  BY <1>7, GivenUpStep
<1>8. ASSUME NEW l \in Lanes, NEW c \in Calls, ChildFinishes(l, c) PROVE PipeInv'
  BY <1>8, ChildFinishesStep
<1>9. ASSUME NEW l \in Lanes, ChildDies(l) PROVE PipeInv'  BY <1>9, ChildDiesStep
<1>10. CASE Tick  BY <1>10, TickStep
<1> QED
  BY <1>1, <1>2, <1>3, <1>4, <1>5, <1>6, <1>7, <1>8, <1>9, <1>10 DEF PipeNext, LaneSteps

\* The pipes' state keeps its shape.
THEOREM PipeTypesHold == PipeSpec => []PipeTypeOK
<1>1. PipeInv => PipeTypeOK  BY DEF PipeInv
<1> QED  BY <1>1, PipeInvHoldsAtFirst, PipeInvIsInductive, PTL DEF PipeSpec

\* A call is out exactly while its lane says so (call-tool.ts's `running`).
THEOREM OneRequestHolds == PipeSpec => []OneRequestAtATime
<1>1. PipeInv => OneRequestAtATime  BY DEF PipeInv
<1> QED  BY <1>1, PipeInvHoldsAtFirst, PipeInvIsInductive, PTL DEF PipeSpec

\* High calls first and, at one level, in the order they were made, for any queue.
THEOREM QueuesAreFair == PipeSpec => []QueueIsFair
<1>1. PipeInv => QueueIsFair  BY DEF PipeInv
<1> QED  BY <1>1, PipeInvHoldsAtFirst, PipeInvIsInductive, PTL DEF PipeSpec

\* A step that answers nobody and sends nothing.
LEMMA SaysNothing ==
    ASSUME \A d \in Calls : state'[d] # "answered" \/ state'[d] = state[d], reached' \subseteq reached
    PROVE  AnswerIsOnesOwn /\ GivenUpCallStaysHome
BY DEF AnswerIsOnesOwn, GivenUpCallStaysHome

LEMMA AnswersAreForTheirCalls ==
    ASSUME PipeInv, PipeNext PROVE AnswerIsOnesOwn /\ GivenUpCallStaysHome
<1>1. ASSUME NEW c \in Calls, NEW e \in {"new", "waiting", "aborted", "unavailable", "queueTimeout"},
             state' = [state EXCEPT ![c] = e], reached' \subseteq reached
      PROVE  AnswerIsOnesOwn /\ GivenUpCallStaysHome
  <2>1. \A d \in Calls : state'[d] # "answered" \/ state'[d] = state[d]
    BY <1>1 DEF PipeInv, PipeTypeOK
  <2> QED  BY <1>1, <2>1, SaysNothing
<1>2. ASSUME NEW c \in Calls, Refuse(c) PROVE AnswerIsOnesOwn /\ GivenUpCallStaysHome
  BY <1>1, <1>2 DEF Refuse
<1>3. ASSUME NEW c \in Calls, Submit(c) PROVE AnswerIsOnesOwn /\ GivenUpCallStaysHome
  BY <1>1, <1>3 DEF Submit
<1>4. ASSUME NEW c \in Calls, ExpireInQueue(c) PROVE AnswerIsOnesOwn /\ GivenUpCallStaysHome
  BY <1>1, <1>4 DEF ExpireInQueue
<1>5. ASSUME NEW c \in Calls, AbortInQueue(c) PROVE AnswerIsOnesOwn /\ GivenUpCallStaysHome
  BY <1>1, <1>5 DEF AbortInQueue
<1>6. ASSUME NEW c \in Calls, Forget(c) PROVE AnswerIsOnesOwn /\ GivenUpCallStaysHome
  BY <1>1, <1>6 DEF Forget
<1>7. ASSUME NEW l \in Lanes, TimesOut(l) \/ AbortSent(l)
      PROVE  AnswerIsOnesOwn /\ GivenUpCallStaysHome
  <2>1. \A d \in Calls : state'[d] # "answered" \/ state'[d] = state[d]
    BY <1>7 DEF TimesOut, AbortSent, PipeInv, PipeTypeOK
  <2> QED  BY <1>7, <2>1, SaysNothing DEF TimesOut, AbortSent
<1>8. ASSUME NEW l \in Lanes, ChildDies(l) PROVE AnswerIsOnesOwn /\ GivenUpCallStaysHome
  <2>1. \A d \in Calls : state'[d] # "answered" \/ state'[d] = state[d]  BY <1>8 DEF ChildDies
  <2> QED  BY <1>8, <2>1, SaysNothing DEF ChildDies
<1>9. CASE Tick  BY <1>9, SaysNothing DEF Tick
<1>10. ASSUME NEW l \in Lanes, NEW c \in Calls, ChildFinishes(l, c)
       PROVE  AnswerIsOnesOwn /\ GivenUpCallStaysHome
  <2>1. reached' \ reached = {} /\ c \in childWork[l] /\ c \notin childWork'[l]
    BY <1>10 DEF ChildFinishes, PipeInv, PipeTypeOK
  <2>2. \A d \in Calls : d = c \/ state'[d] = state[d]
    BY <1>10 DEF ChildFinishes, PipeInv, PipeTypeOK
  <2> QED  BY <2>1, <2>2 DEF AnswerIsOnesOwn, GivenUpCallStaysHome
<1>11. ASSUME NEW l \in Lanes, Pump(l) PROVE AnswerIsOnesOwn /\ GivenUpCallStaysHome
  <2> DEFINE c == Head(queue[l])
  <2>1. c \in Calls /\ state[c] \in Settled \union {"waiting"}
    <3> DEFINE q == queue[l]
    <3>1. q \in Seq(Calls) /\ q # <<>>  BY <1>11 DEF Pump, PipeInv, PipeTypeOK
    <3>2. 1 \in DOMAIN q /\ Head(q) = q[1] /\ q[1] \in Calls
      <4> HIDE DEF q
      <4> QED  BY <3>1
    <3> QED  BY <3>2 DEF PipeInv, InItsQueue
  <2>2. left[c] = 0 \/ left[c] > 0  BY <2>1 DEF PipeInv, PipeTypeOK
  <2>3. \A d \in Calls : state'[d] # "answered" \/ state'[d] = state[d]
    BY <1>11, <2>1, <2>2 DEF Pump, Settled, PipeInv, PipeTypeOK
  <2>4. \A d \in reached' \ reached : d = c /\ state[d] = "waiting" /\ left[d] > 0
    BY <1>11, <2>1, <2>2 DEF Pump, Settled
  <2> QED  BY <2>3, <2>4 DEF AnswerIsOnesOwn, GivenUpCallStaysHome
<1> QED
  BY <1>2, <1>3, <1>4, <1>5, <1>6, <1>7, <1>8, <1>9, <1>10, <1>11 DEF PipeNext, LaneSteps

\* A request that is out is answered by its own child's own answer, and what was
\* given up in the queue is never sent (call-tool.ts).
THEOREM AnswersKeepTheirCalls == PipeSpec => AnswersAreOnesOwn
<1>1. PipeInv /\ [PipeNext]_pipeVars => [AnswerIsOnesOwn /\ GivenUpCallStaysHome]_pipeVars
  BY AnswersAreForTheirCalls
<1> QED
  BY <1>1, PipeInvHoldsAtFirst, PipeInvIsInductive, PTL DEF PipeSpec, AnswersAreOnesOwn

----------------------------------------------------------------------------
\* The monitor of the children (source-health.ts), for any lanes, probes, work and
\* times of its own.

\* A probe that waits or is out is the one its lane has under way.
OpenProbesAreKnown == \A c \in Probes : state[c] \in Open => probe[LaneOf(c)] = c

\* A lane's probe is a call of that lane.
ProbesInLane == \A l \in Lanes : probe[l] # NoCall => LaneOf(probe[l]) = l

\* A good verdict is as old as the answer it was heard from, and one that is still to
\* be written down was heard this tick.
HeardBefore ==
    \A l \in Lanes : /\ verdict[l] = "ok" => heard[l] <= age[l]
                     /\ probe[l] # NoCall /\ state[probe[l]] = "answered" => heard[l] = 0

HealthInv ==
    /\ PipeInv /\ HealthTypeOK /\ known = alive
    /\ OpenProbesAreKnown /\ ProbesInLane /\ HeardBefore

LEMMA HeadIsWaiting ==
    ASSUME PipeInv, NEW l \in Lanes, queue[l] # <<>>
    PROVE  Head(queue[l]) \in Calls /\ state[Head(queue[l])] \in Settled \union {"waiting"}
<1> DEFINE q == queue[l]
<1>1. q \in Seq(Calls) /\ q # <<>>  BY DEF PipeInv, PipeTypeOK
<1>2. 1 \in DOMAIN q /\ Head(q) = q[1] /\ q[1] \in Calls
  <2> HIDE DEF q
  <2> QED  BY <1>1
<1> QED  BY <1>2 DEF PipeInv, InItsQueue

\* What a step of the pipe does to a call: none starts to wait but one that is
\* submitted, and none is answered but one that was out.
Onward(c) ==
    /\ state'[c] \in Open => state[c] \in Open
    /\ state'[c] = "answered" => state[c] \in {"answered", "sent"}

LEMMA UnlessAnswered ==
    ASSUME PipeInv, NEW c \in Calls, NEW e \in (Settled \union {"new"}) \ {"answered"},
           state' = [state EXCEPT ![c] = e]
    PROVE  \A d \in Calls : Onward(d)
<1>1. \A d \in Calls : state'[d] = IF d = c THEN e ELSE state[d]  BY DEF PipeInv, PipeTypeOK
<1> QED  BY <1>1 DEF Onward, Open, Settled

LEMMA PipeMovesOn ==
    ASSUME PipeInv,
           \/ \E c \in Calls : Refuse(c) \/ ExpireInQueue(c) \/ AbortInQueue(c) \/ Forget(c)
           \/ \E l \in Lanes : LaneSteps(l) \/ ChildDies(l)
    PROVE  \A d \in Calls : Onward(d)
<1> DEFINE Mute == (Settled \union {"new"}) \ {"answered"}
<1>1. /\ "aborted" \in Mute /\ "unavailable" \in Mute /\ "queueTimeout" \in Mute
      /\ "timeout" \in Mute /\ "failed" \in Mute /\ "new" \in Mute
  BY DEF Settled
<1> HIDE DEF Mute
<1>2. ASSUME NEW c \in Calls, NEW e \in Mute, state' = [state EXCEPT ![c] = e]
      PROVE  \A d \in Calls : Onward(d)
  BY <1>2, UnlessAnswered DEF Mute
<1>3. ASSUME UNCHANGED state PROVE \A d \in Calls : Onward(d)  BY <1>3 DEF Onward
<1>4. ASSUME NEW c \in Calls, Refuse(c) \/ ExpireInQueue(c) \/ AbortInQueue(c) \/ Forget(c)
      PROVE  \A d \in Calls : Onward(d)
  BY <1>1, <1>2, <1>4 DEF Refuse, ExpireInQueue, AbortInQueue, Forget
<1>5. ASSUME NEW l \in Lanes, TimesOut(l) \/ AbortSent(l)
      PROVE  \A d \in Calls : Onward(d)
  <2>1. running[l] \in Calls  BY <1>5, Holder DEF TimesOut, AbortSent
  <2> QED  BY <1>1, <1>2, <1>5, <2>1 DEF TimesOut, AbortSent
<1>6. ASSUME NEW l \in Lanes, ChildDies(l) PROVE \A d \in Calls : Onward(d)
  BY <1>6 DEF ChildDies, Onward, Open
<1>7. ASSUME NEW l \in Lanes, NEW c \in Calls, ChildFinishes(l, c)
      PROVE  \A d \in Calls : Onward(d)
  <2>1. CASE running[l] # c
    <3>1. UNCHANGED state  BY <1>7, <2>1 DEF ChildFinishes
    <3> QED  BY <1>3, <3>1
  <2>2. CASE running[l] = c
    <3>1. PICK end \in {"answered", "failed"} : state' = [state EXCEPT ![c] = end]
      BY <1>7, <2>2 DEF ChildFinishes
    <3>2. state[c] = "sent"  BY <2>2, Holder, PipeConstants
    <3>3. \A d \in Calls : state'[d] = IF d = c THEN end ELSE state[d]
      BY <3>1 DEF PipeInv, PipeTypeOK
    <3> QED  BY <3>2, <3>3 DEF Onward, Open
  <2> QED  BY <2>1, <2>2
<1>8. ASSUME NEW l \in Lanes, Pump(l) PROVE \A d \in Calls : Onward(d)
  <2> DEFINE c == Head(queue[l])
  <2>1. c \in Calls /\ state[c] \in Settled \union {"waiting"}  BY <1>8, HeadIsWaiting DEF Pump
  <2>2. left[c] = 0 \/ left[c] > 0  BY <2>1 DEF PipeInv, PipeTypeOK
  <2>3. \/ UNCHANGED state
        \/ state' = [state EXCEPT ![c] = "queueTimeout"]
        \/ state' = [state EXCEPT ![c] = "failed"]
        \/ state' = [state EXCEPT ![c] = "sent"] /\ state[c] = "waiting"
    BY <1>8, <2>1, <2>2 DEF Pump, Settled
  <2> HIDE DEF c
  <2>4. CASE state' = [state EXCEPT ![c] = "sent"] /\ state[c] = "waiting"
    <3>1. \A d \in Calls : state'[d] = IF d = c THEN "sent" ELSE state[d]
      BY <2>4 DEF PipeInv, PipeTypeOK
    <3> QED  BY <2>4, <3>1 DEF Onward, Open
  <2> QED  BY <1>1, <1>2, <1>3, <2>1, <2>3, <2>4
<1> QED  BY <1>4, <1>5, <1>6, <1>7, <1>8 DEF LaneSteps

\* The probes of a cycle enter the queues of their lanes.
LEMMA ProbeOnceStep == ASSUME HealthInv, ProbeOnce PROVE HealthInv'
<1> USE DEF HealthInv
<1> DEFINE next == [l \in Asked |-> CHOOSE c \in Probes : state[c] = "new" /\ LaneOf(c) = l]
           S == {next[l] : l \in Asked}
<1>1. \A l \in Asked : /\ next[l] \in Probes /\ state[next[l]] = "new" /\ LaneOf(next[l]) = l
                       /\ l \in Lanes /\ probe[l] = NoCall
  <2> SUFFICES ASSUME NEW l \in Asked
               PROVE  /\ next[l] \in Probes /\ state[next[l]] = "new" /\ LaneOf(next[l]) = l
                      /\ l \in Lanes /\ probe[l] = NoCall
    OBVIOUS
  <2>1. \E c \in Probes : state[c] = "new" /\ LaneOf(c) = l  BY DEF Asked
  <2>2. l \in Lanes /\ probe[l] = NoCall  BY DEF Asked, HealthTypeOK
  <2> QED  BY <2>1, <2>2
<1>2. /\ probe' = [l \in Lanes |-> IF l \in Asked THEN next[l] ELSE probe[l]]
      /\ state' = [c \in Calls |-> IF c \in S THEN "waiting" ELSE state[c]]
      /\ left' = [c \in Calls |-> IF c \in S THEN Plan[c].budget ELSE left[c]]
      /\ queue' = [l \in Lanes |-> IF l \in Asked THEN Enqueued(queue[l], next[l]) ELSE queue[l]]
      /\ dueIn' = Every
      /\ UNCHANGED <<running, childWork, alive, reached, known, verdict, age, heard, faulty>>
  BY DEF ProbeOnce
<1> HIDE DEF next
<1>3. S \in SUBSET Calls /\ \A c \in S : state[c] = "new"  BY <1>1, HealthConstants
<1>4. \A c, d \in S : LaneOf(c) = LaneOf(d) => c = d  BY <1>1
<1>5. \A l \in Lanes : (\A c \in S : LaneOf(c) # l) => queue'[l] = queue[l]  BY <1>1, <1>2
<1>6. \A c \in S : queue'[LaneOf(c)] = Enqueued(queue[LaneOf(c)], c)  BY <1>1, <1>2
<1>7. queue' = [l \in Lanes |-> queue'[l]]  BY <1>2
<1>8. \A l \in Asked : next[l] \in S  OBVIOUS
<1>9. \A c \in S : probe'[LaneOf(c)] = c  BY <1>1, <1>2
<1> HIDE DEF S
<1>10. PipeInv'  BY <1>2, <1>3, <1>4, <1>5, <1>6, <1>7, Joining
<1>11. HealthTypeOK'
  <2>1. probe' \in [Lanes -> Probes \union {NoCall}]  BY <1>1, <1>2 DEF HealthTypeOK
  <2>2. dueIn' \in 0..Every  BY <1>2, HealthConstants
  <2> QED  BY <1>2, <1>10, <2>1, <2>2 DEF HealthTypeOK, PipeInv
<1>12. OpenProbesAreKnown'
  <2> SUFFICES ASSUME NEW c \in Probes, state'[c] \in Open PROVE probe'[LaneOf(c)] = c
    BY DEF OpenProbesAreKnown
  <2>1. c \in Calls /\ LaneOf(c) \in Lanes /\ c # NoCall  BY HealthConstants, LaneIsThere, PipeConstants
  <2>2. CASE c \in S  BY <1>9, <2>2
  <2>3. CASE c \notin S
    <3>1. state'[c] = state[c]  BY <1>2, <2>1, <2>3
    <3>2. probe[LaneOf(c)] = c  BY <3>1 DEF OpenProbesAreKnown
    <3>3. LaneOf(c) \notin Asked  BY <1>1, <2>1, <3>2
    <3> QED  BY <1>2, <2>1, <3>2, <3>3
  <2> QED  BY <2>2, <2>3
<1>13. HeardBefore'
  <2> SUFFICES ASSUME NEW l \in Lanes
               PROVE  /\ verdict[l] = "ok" => heard[l] <= age[l]
                      /\ probe'[l] # NoCall /\ state'[probe'[l]] = "answered" => heard[l] = 0
    BY <1>2 DEF HeardBefore
  <2>1. CASE l \in Asked
    <3>1. probe'[l] = next[l] /\ next[l] \in S  BY <1>2, <1>8, <2>1
    <3>2. state'[next[l]] = "waiting"  BY <1>2, <1>3, <3>1
    <3> QED  BY <3>1, <3>2 DEF HeardBefore
  <2>2. CASE l \notin Asked
    <3>1. probe'[l] = probe[l]  BY <1>2, <2>2
    <3>2. CASE probe[l] # NoCall
      <4>1. probe[l] \in Calls  BY <3>2, HealthConstants DEF HealthTypeOK
      <4>2. state'[probe[l]] = "answered" => state[probe[l]] = "answered"  BY <1>2, <4>1
      <4> QED  BY <3>1, <4>2 DEF HeardBefore
    <3> QED  BY <3>1, <3>2 DEF HeardBefore
  <2> QED  BY <2>1, <2>2
<1>14. ProbesInLane'  BY <1>1, <1>2 DEF ProbesInLane
<1> QED  BY <1>2, <1>10, <1>11, <1>12, <1>13, <1>14

\* A step of the pipe that submits no probe keeps what is known of them.
LEMMA ProbesMoveOn ==
    ASSUME HealthInv, PipeInv', UNCHANGED <<known, probe, verdict, age, dueIn>>, alive' = alive,
           \A c \in Probes : Onward(c),
           heard' = [l \in Lanes |->
                       IF \E c \in Probes : state[c] = "sent" /\ state'[c] = "answered" /\ LaneOf(c) = l
                       THEN 0 ELSE heard[l]],
           faulty' \subseteq Lanes
    PROVE  HealthInv'
<1> USE DEF HealthInv
<1>1. HealthTypeOK'
  <2>1. heard' \in [Lanes -> 0..Never]  BY HealthConstants DEF HealthTypeOK, Never
  <2> QED  BY <2>1 DEF HealthTypeOK, PipeInv
<1>2. OpenProbesAreKnown'  BY DEF OpenProbesAreKnown, Onward
<1>3. HeardBefore'
  <2> SUFFICES ASSUME NEW l \in Lanes
               PROVE  /\ verdict[l] = "ok" => heard'[l] <= age[l]
                      /\ probe[l] # NoCall /\ state'[probe[l]] = "answered" => heard'[l] = 0
    BY DEF HeardBefore
  <2>1. heard'[l] = 0 \/ heard'[l] = heard[l]  OBVIOUS
  <2>2. heard[l] \in Nat /\ age[l] \in Nat  BY HealthConstants DEF HealthTypeOK, Never
  <2>3. verdict[l] = "ok" => heard'[l] <= age[l]  BY <2>1, <2>2 DEF HeardBefore
  <2>4. ASSUME probe[l] # NoCall, state'[probe[l]] = "answered" PROVE heard'[l] = 0
    <3> DEFINE c == probe[l]
    <3>1. c \in Probes /\ c \in Calls /\ LaneOf(c) \in Lanes
      BY <2>4, HealthConstants, LaneIsThere DEF HealthTypeOK
    <3>2. CASE state[c] = "answered"
      <4>1. heard[l] = 0  BY <2>4, <3>2 DEF HeardBefore
      <4> QED  BY <2>1, <4>1
    <3>3. CASE state[c] = "sent"
      <4>1. probe[LaneOf(c)] = c  BY <3>1, <3>3 DEF OpenProbesAreKnown, Open
      <4>2. LaneOf(c) = l  BY <2>4, <3>1, <4>1 DEF ProbesInLane
      <4> QED  BY <2>4, <3>1, <3>3, <4>2
    <3> QED  BY <2>4, <3>1, <3>2, <3>3 DEF Onward
  <2> QED  BY <2>3, <2>4
<1>4. ProbesInLane'  BY DEF ProbesInLane
<1> QED  BY <1>1, <1>2, <1>3, <1>4

\* A step of the pipe by itself.
LEMMA PipedStep == ASSUME HealthInv, Piped PROVE HealthInv'
<1> USE DEF HealthInv
<1>1. UNCHANGED <<known, probe, verdict, age, dueIn>>
      /\ heard' = [l \in Lanes |->
                     IF \E c \in Probes : state[c] = "sent" /\ state'[c] = "answered" /\ LaneOf(c) = l
                     THEN 0 ELSE heard[l]]
  BY DEF Piped
<1>2. faulty' \subseteq Lanes
  <2>1. \A c \in Probes : LaneOf(c) \in Lanes  BY HealthConstants, LaneIsThere
  <2> QED  BY <2>1 DEF Piped, HealthTypeOK
<1>3. ASSUME NEW c \in Calls, ExpireInQueue(c) PROVE HealthInv'
  <2>1. PipeInv' /\ \A d \in Calls : Onward(d)  BY <1>3, InQueueStep, PipeMovesOn
  <2>2. alive' = alive  BY <1>3 DEF ExpireInQueue
  <2> QED  BY <1>1, <1>2, <2>1, <2>2, HealthConstants, ProbesMoveOn
<1>4. ASSUME NEW c \in Calls \ Probes, AbortInQueue(c) \/ Refuse(c) PROVE HealthInv'
  <2>1. PipeInv' /\ \A d \in Calls : Onward(d)  BY <1>4, InQueueStep, RefuseStep, PipeMovesOn
  <2>2. alive' = alive  BY <1>4 DEF AbortInQueue, Refuse
  <2> QED  BY <1>1, <1>2, <2>1, <2>2, HealthConstants, ProbesMoveOn
<1>5. ASSUME NEW c \in Calls \ Probes, Submit(c) PROVE HealthInv'
  <2>1. PipeInv'  BY <1>5, SubmitStep
  <2>2. \A d \in Probes : state'[d] = state[d]
    BY <1>5, HealthConstants DEF Submit, PipeInv, PipeTypeOK
  <2>3. \A d \in Probes : Onward(d)  BY <2>2 DEF Onward
  <2>4. alive' = alive  BY <1>5 DEF Submit
  <2> QED  BY <1>1, <1>2, <2>1, <2>3, <2>4, ProbesMoveOn
<1>6. ASSUME NEW c \in Calls, Forget(c) PROVE HealthInv'
  <2>1. PipeInv' /\ \A d \in Calls : Onward(d)  BY <1>6, ForgetStep, PipeMovesOn
  <2>2. alive' = alive  BY <1>6 DEF Forget
  <2> QED  BY <1>1, <1>2, <2>1, <2>2, HealthConstants, ProbesMoveOn
<1>7. ASSUME NEW l \in Lanes, LaneSteps(l) PROVE HealthInv'
  <2>1. PipeInv'
    <3>1. CASE Pump(l)  BY <3>1, PumpStep
    <3>2. CASE TimesOut(l) \/ AbortSent(l)  BY <3>2, GivenUpStep
    <3>3. ASSUME NEW c \in Calls, ChildFinishes(l, c) PROVE PipeInv'  BY <3>3, ChildFinishesStep
    <3> QED  BY <1>7, <3>1, <3>2, <3>3 DEF LaneSteps
  <2>2. \A d \in Calls : Onward(d)  BY <1>7, PipeMovesOn
  <2>3. alive' = alive  BY <1>7 DEF LaneSteps, Pump, TimesOut, AbortSent, ChildFinishes
  <2> QED  BY <1>1, <1>2, <2>1, <2>2, <2>3, HealthConstants, ProbesMoveOn
<1> QED  BY <1>3, <1>4, <1>5, <1>6, <1>7 DEF Piped

LEMMA ClosedStep == ASSUME HealthInv, NEW l \in Lanes, Closed(l) PROVE HealthInv'
<1> USE DEF HealthInv
<1>1. PipeInv' /\ \A d \in Calls : Onward(d)  BY ChildDiesStep, PipeMovesOn DEF Closed
<1>2. /\ known' = alive' /\ UNCHANGED <<probe, verdict, age, dueIn, heard>> /\ faulty' \subseteq Lanes
      /\ \A d \in Calls : state'[d] = "answered" => state[d] = "answered"
  BY DEF Closed, ChildDies, HealthTypeOK
<1>3. HealthTypeOK'  BY <1>1, <1>2 DEF HealthTypeOK, PipeInv, PipeTypeOK
<1>4. OpenProbesAreKnown'  BY <1>1, <1>2, HealthConstants DEF OpenProbesAreKnown, Onward
<1>5. ProbesInLane'  BY <1>2 DEF ProbesInLane
<1>6. \A m \in Lanes : probe[m] # NoCall => probe[m] \in Calls  BY HealthConstants DEF HealthTypeOK
<1>7. HeardBefore'  BY <1>2, <1>6 DEF HeardBefore
<1> QED  BY <1>1, <1>2, <1>3, <1>4, <1>5, <1>7

LEMMA SettleStep == ASSUME HealthInv, NEW l \in Lanes, Settle(l) PROVE HealthInv'
<1> USE DEF HealthInv
<1>1. /\ UNCHANGED pipeVars /\ UNCHANGED <<known, dueIn, heard, faulty>>
      /\ probe[l] # NoCall /\ state[probe[l]] \in Settled
      /\ probe' = [probe EXCEPT ![l] = NoCall]
      /\ \/ UNCHANGED <<verdict, age>>
         \/ /\ verdict' = [verdict EXCEPT ![l] = IF state[probe[l]] = "answered"
                                                 THEN "ok" ELSE "failed"]
            /\ age' = [age EXCEPT ![l] = 0]
  BY DEF Settle
<1>2. PipeInv'  BY <1>1, PipeInvIsInductive
<1>3. \A m \in Lanes : probe'[m] = IF m = l THEN NoCall ELSE probe[m]  BY <1>1 DEF HealthTypeOK
<1>4. HealthTypeOK'
  <2>1. probe' \in [Lanes -> Probes \union {NoCall}]  BY <1>1 DEF HealthTypeOK
  <2>2. verdict' \in [Lanes -> {"pending", "ok", "failed"}]  BY <1>1 DEF HealthTypeOK
  <2>3. age' \in [Lanes -> 0..Never]  BY <1>1, HealthConstants DEF HealthTypeOK, Never
  <2> QED  BY <1>1, <1>2, <2>1, <2>2, <2>3 DEF HealthTypeOK, PipeInv
<1>5. OpenProbesAreKnown'
  <2> SUFFICES ASSUME NEW c \in Probes, state[c] \in Open PROVE probe'[LaneOf(c)] = c
    BY <1>1 DEF OpenProbesAreKnown, pipeVars
  <2>1. probe[LaneOf(c)] = c /\ LaneOf(c) \in Lanes
    BY HealthConstants, LaneIsThere DEF OpenProbesAreKnown
  <2>2. LaneOf(c) # l  BY <1>1, <2>1 DEF Open, Settled
  <2> QED  BY <1>3, <2>1, <2>2
<1>6. ProbesInLane'  BY <1>3 DEF ProbesInLane
<1>7. HeardBefore'
  <2> SUFFICES ASSUME NEW m \in Lanes
               PROVE  /\ verdict'[m] = "ok" => heard[m] <= age'[m]
                      /\ probe'[m] # NoCall /\ state[probe'[m]] = "answered" => heard[m] = 0
    BY <1>1 DEF HeardBefore, pipeVars
  <2>1. CASE m # l \/ UNCHANGED <<verdict, age>>
    <3>1. verdict'[m] = verdict[m] /\ age'[m] = age[m]  BY <1>1, <2>1 DEF HealthTypeOK
    <3> QED  BY <1>3, <3>1 DEF HeardBefore
  <2>2. CASE m = l /\ ~ UNCHANGED <<verdict, age>>
    <3>1. age'[l] = 0 /\ (verdict'[l] = "ok" => state[probe[l]] = "answered")
      BY <1>1, <2>2 DEF HealthTypeOK
    <3>2. verdict'[l] = "ok" => heard[l] = 0  BY <1>1, <3>1 DEF HeardBefore
    <3> QED  BY <1>3, <2>2, <3>1, <3>2
  <2> QED  BY <2>1, <2>2
<1> QED  BY <1>1, <1>2, <1>4, <1>5, <1>6, <1>7 DEF pipeVars

LEMMA ClockStep == ASSUME HealthInv, Clock PROVE HealthInv'
<1> USE DEF HealthInv
<1>1. Tick  BY DEF Clock, Tick
<1>2. PipeInv'  BY <1>1, TickStep
<1>3. /\ UNCHANGED <<state, alive, known, probe, verdict, faulty>> /\ dueIn > 0 /\ dueIn' = dueIn - 1
      /\ \A l \in Lanes : age'[l] = Older(age[l]) /\ heard'[l] = Older(heard[l])
      /\ \A l \in Lanes : probe[l] # NoCall => state[probe[l]] \in Open
  BY DEF Clock
<1>4. \A l \in Lanes : age[l] \in 0..Never /\ heard[l] \in 0..Never  BY DEF HealthTypeOK
<1>5. Never \in Nat  BY HealthConstants DEF Never
<1>6. HealthTypeOK'
  <2>1. \A n \in 0..Never : Older(n) \in 0..Never  BY <1>5 DEF Older
  <2>2. age' \in [Lanes -> 0..Never] /\ heard' \in [Lanes -> 0..Never]
    BY <1>4, <2>1 DEF Clock
  <2>3. dueIn' \in 0..Every  BY <1>3, HealthConstants DEF HealthTypeOK
  <2> QED  BY <1>2, <1>3, <2>2, <2>3 DEF HealthTypeOK, PipeInv
<1>7. OpenProbesAreKnown' /\ ProbesInLane'  BY <1>3 DEF OpenProbesAreKnown, ProbesInLane
<1>8. HeardBefore'
  <2> SUFFICES ASSUME NEW l \in Lanes
               PROVE  /\ verdict[l] = "ok" => Older(heard[l]) <= Older(age[l])
                      /\ ~ (probe[l] # NoCall /\ state[probe[l]] = "answered")
    BY <1>3 DEF HeardBefore
  <2>1. verdict[l] = "ok" => heard[l] <= age[l]  BY DEF HeardBefore
  <2>2. heard[l] <= age[l] => Older(heard[l]) <= Older(age[l])  BY <1>4, <1>5 DEF Older
  <2> QED  BY <1>3, <2>1, <2>2 DEF Open
<1> QED  BY <1>2, <1>3, <1>6, <1>7, <1>8

LEMMA HealthInvHoldsAtFirst == HealthInit => HealthInv
<1> SUFFICES ASSUME HealthInit PROVE HealthInv  OBVIOUS
<1>1. PipeInv  BY PipeInvHoldsAtFirst DEF HealthInit
<1>2. HealthTypeOK  BY <1>1, HealthConstants DEF HealthInit, PipeInit, HealthTypeOK, PipeInv, Never
<1>3. known = alive  BY DEF HealthInit, PipeInit
<1>4. OpenProbesAreKnown  BY HealthConstants DEF HealthInit, PipeInit, OpenProbesAreKnown, Open
<1>5. ProbesInLane /\ HeardBefore  BY DEF HealthInit, ProbesInLane, HeardBefore
<1> QED  BY <1>1, <1>2, <1>3, <1>4, <1>5 DEF HealthInv

LEMMA HealthInvIsInductive == HealthInv /\ [HealthNext]_monitorVars => HealthInv'
<1> SUFFICES ASSUME HealthInv, [HealthNext]_monitorVars PROVE HealthInv'  OBVIOUS
<1>1. CASE UNCHANGED monitorVars
  <2>1. PipeInv'  BY <1>1, PipeInvIsInductive DEF monitorVars, HealthInv
  <2> QED
    BY <1>1, <2>1 DEF monitorVars, healthVars, pipeVars, HealthInv, PipeInv, HealthTypeOK,
                      OpenProbesAreKnown, ProbesInLane, HeardBefore
<1>2. CASE ProbeOnce  BY <1>2, ProbeOnceStep
<1>3. CASE Piped  BY <1>3, PipedStep
<1>4. CASE Clock  BY <1>4, ClockStep
<1>5. ASSUME NEW l \in Lanes, Settle(l) PROVE HealthInv'  BY <1>5, SettleStep
<1>6. ASSUME NEW l \in Lanes, Closed(l) PROVE HealthInv'  BY <1>6, ClosedStep
<1> QED  BY <1>1, <1>2, <1>3, <1>4, <1>5, <1>6 DEF HealthNext

\* The verdicts of the monitor (servingSources): a lane that serves was heard within
\* the freshness window and its child lives; a child has one probe under way.
LEMMA VerdictsAreHeard ==
    HealthInv => ServingWasHeard /\ DeadIsNeverServing /\ OneProbePerChild
<1> SUFFICES ASSUME HealthInv PROVE ServingWasHeard /\ DeadIsNeverServing /\ OneProbePerChild
  OBVIOUS
<1>1. ServingWasHeard
  <2> SUFFICES ASSUME NEW l \in Serving PROVE heard[l] <= Stale  BY DEF ServingWasHeard
  <2>1. l \in Lanes /\ verdict[l] = "ok" /\ age[l] <= Stale
    BY DEF Serving, HealthInv, HealthTypeOK
  <2>2. heard[l] \in Nat /\ age[l] \in Nat /\ heard[l] <= age[l]
    BY <2>1, HealthConstants DEF HealthInv, HealthTypeOK, HeardBefore, Never
  <2> QED  BY <2>1, <2>2, HealthConstants
<1>2. DeadIsNeverServing  BY DEF DeadIsNeverServing, Serving, HealthInv
<1>3. OneProbePerChild  BY DEF OneProbePerChild, HealthInv, OpenProbesAreKnown
<1> QED  BY <1>1, <1>2, <1>3

\* What /api/health says of a source was heard of it, however its child is used, late,
\* silent or dead.
THEOREM ServingIsHeard ==
    HealthSpec => [](ServingWasHeard /\ DeadIsNeverServing /\ OneProbePerChild)
  BY HealthInvHoldsAtFirst, HealthInvIsInductive, VerdictsAreHeard, PTL DEF HealthSpec

----------------------------------------------------------------------------
\* The controller of the background pass (discovery-control.ts), for any cabinets,
\* profiles, threshold and cooldown.

\* The running pass is a record of the controller; only a cabinet that is still to be
\* visited is open.
PassIsOne ==
    /\ pass \in [todo : Seq(DOMAIN Profiles), open : BOOLEAN, searching : {pass.searching},
                 failed : {pass.failed}, succeeded : BOOLEAN, ran : BOOLEAN,
                 reason : {"ok", "watch_off", "no_keywords"}, cost : SUBSET DOMAIN Profiles]
    /\ pass.open => pass.todo # <<>>

ControlInv ==
    /\ ControlTypeOK /\ PassIsOne
    /\ failures = outages /\ OpensOnOutagesOnly

LEMMA Limits ==
    /\ Threshold \in Nat /\ Threshold > 0 /\ Cooldown \in Nat
    /\ 0 \in 0..Threshold /\ 0 \in 0..Cooldown /\ Cooldown \in 0..Cooldown
BY ControlBounds

LEMMA NoPassIsOne == ASSUME NEW q \in Seq(DOMAIN Profiles), pass' = [NoPass EXCEPT !.todo = q]
                     PROVE  PassIsOne'
BY DEF PassIsOne, NoPass

LEMMA RestOfTodo == ASSUME NEW q \in Seq(DOMAIN Profiles), q # <<>> PROVE Tail(q) \in Seq(DOMAIN Profiles)
OBVIOUS

LEMMA ControlInvHoldsAtFirst == ControlInit => ControlInv
<1> SUFFICES ASSUME ControlInit PROVE ControlInv  OBVIOUS
<1>1. PassIsOne  BY DEF ControlInit, NoPass, PassIsOne
<1>2. ControlTypeOK  BY Limits DEF ControlInit, NoPass, ControlTypeOK
<1> QED  BY <1>1, <1>2 DEF ControlInit, ControlInv, OpensOnOutagesOnly

LEMMA ControlInvIsInductive == ControlInv /\ [ControlNext]_controlVars => ControlInv'
<1> SUFFICES ASSUME ControlInv, [ControlNext]_controlVars PROVE ControlInv'  OBVIOUS
<1> USE DEF ControlInv
<1>0. PassIsOne' => pass'.reason \in {"ok", "watch_off", "no_keywords"} /\ pass'.cost \subseteq DOMAIN Profiles
  BY DEF PassIsOne
<1>1. ASSUME PassIsOne', UNCHANGED <<failures, circuitOpen, cooling, outages>>, isRunning' \in BOOLEAN
      PROVE  ControlInv'
  BY <1>0, <1>1 DEF ControlTypeOK, OpensOnOutagesOnly
<1>2. CASE UNCHANGED controlVars
  <2>1. PassIsOne'  BY <1>2 DEF controlVars, PassIsOne
  <2>2. isRunning' \in BOOLEAN  BY <1>2 DEF controlVars, ControlTypeOK
  <2> QED  BY <1>1, <1>2, <2>1, <2>2 DEF controlVars
<1>3. ASSUME NEW q \in Seq(DOMAIN Profiles), TryStart(q) PROVE ControlInv'
  <2>1. PassIsOne'  BY <1>3, NoPassIsOne DEF TryStart
  <2> QED  BY <1>0, <1>3, <2>1 DEF TryStart, ControlTypeOK, OpensOnOutagesOnly
<1>4. CASE StartScheduled  BY <1>3, <1>4, ControlBounds DEF StartScheduled
<1>5. CASE StartByHand
  <2>1. \A i \in DOMAIN Cabinets : <<Cabinets[i]>> \in Seq(DOMAIN Profiles)  BY ControlBounds
  <2> QED  BY <1>3, <1>5, <2>1 DEF StartByHand
<1>6. CASE OpenCabinet
  <2>1. Tail(pass.todo) \in Seq(DOMAIN Profiles) /\ pass.todo # <<>>
    BY <1>6, RestOfTodo DEF OpenCabinet, PassIsOne
  <2>2. PassIsOne'
    <3>1. ASSUME NEW reason \in {"watch_off", "no_keywords"}, ~ pass.open,
                 pass' = [pass EXCEPT !.todo = Tail(@),
                                      !.reason = IF @ = "watch_off" THEN reason ELSE @]
          PROVE  PassIsOne'
      BY <2>1, <3>1 DEF PassIsOne
    <3>2. ASSUME pass' = [pass EXCEPT !.open = TRUE, !.searching = Profiles[Head(pass.todo)],
                                      !.failed = <<>>, !.succeeded = FALSE]
          PROVE  PassIsOne'
      BY <2>1, <3>2 DEF PassIsOne
    <3> QED  BY <1>6, <3>1, <3>2 DEF OpenCabinet
  <2> QED  BY <1>1, <1>6, <2>2 DEF OpenCabinet, ControlTypeOK
<1>7. CASE SearchProfile
  <2>1. PassIsOne'
    <3>1. ASSUME pass' = [pass EXCEPT !.searching = Tail(@), !.succeeded = TRUE] PROVE PassIsOne'
      BY <3>1 DEF PassIsOne
    <3>2. ASSUME NEW kind \in Kinds,
                 pass' = [pass EXCEPT !.searching = Tail(@), !.failed = Append(@, kind)]
          PROVE  PassIsOne'
      BY <3>2 DEF PassIsOne
    <3> QED  BY <1>7, <3>1, <3>2 DEF SearchProfile
  <2> QED  BY <1>1, <1>7, <2>1 DEF SearchProfile, ControlTypeOK
<1>8. CASE CloseCabinet
  <2>1. Tail(pass.todo) \in Seq(DOMAIN Profiles)
    BY <1>8, RestOfTodo DEF CloseCabinet, PassIsOne
  <2>2. pass' = [pass EXCEPT !.todo = Tail(@), !.open = FALSE, !.ran = TRUE, !.reason = "ok"]
    BY <1>8 DEF CloseCabinet
  <2>3. PassIsOne'  BY <2>1, <2>2 DEF PassIsOne
  <2> QED  BY <1>1, <1>8, <2>3 DEF CloseCabinet, ControlTypeOK
<1>9. CASE Finish
  <2>1. PassIsOne' /\ isRunning' = FALSE  BY <1>9 DEF Finish, PassIsOne
  <2>2. CASE UNCHANGED <<failures, circuitOpen, cooling, outages>>  BY <1>1, <2>1, <2>2
  <2>3. CASE failures' = 0 /\ circuitOpen' = FALSE /\ cooling' = 0 /\ outages' = 0
    BY <1>0, <2>1, <2>3, Limits DEF ControlTypeOK, OpensOnOutagesOnly
  <2> QED  BY <1>9, <2>2, <2>3 DEF Finish
<1>10. CASE Fail
  <2>1. pass.todo \in Seq(DOMAIN Profiles)  BY DEF PassIsOne
  <2>2. {pass.todo[i] : i \in 2..Len(pass.todo)} \subseteq DOMAIN Profiles
    <3> DEFINE q == pass.todo
    <3>1. q \in Seq(DOMAIN Profiles)  BY <2>1
    <3>2. \A i \in 2..Len(q) : q[i] \in DOMAIN Profiles
      <4> HIDE DEF q
      <4> QED  BY <3>1
    <3> QED  BY <3>2
  <2>3. pass' = [pass EXCEPT !.cost = {pass.todo[i] : i \in 2..Len(pass.todo)}]
    BY <1>10 DEF Fail
  <2>4. PassIsOne' /\ isRunning' = FALSE
    <3> DEFINE lost == {pass.todo[i] : i \in 2..Len(pass.todo)}
    <3>1. lost \in SUBSET DOMAIN Profiles /\ pass' = [pass EXCEPT !.cost = lost]  BY <2>2, <2>3
    <3> HIDE DEF lost
    <3> QED  BY <1>10, <3>1 DEF Fail, PassIsOne
  <2>5. \/ UNCHANGED <<failures, circuitOpen, cooling, outages>>
        \/ /\ failures' = Saturated(failures) /\ outages' = Saturated(outages)
           /\ \/ failures + 1 >= Threshold /\ circuitOpen' = TRUE /\ cooling' = Cooldown
              \/ UNCHANGED <<circuitOpen, cooling>>
    BY <1>10 DEF Fail
  <2>6. failures \in 0..Threshold /\ Threshold \in Nat /\ Cooldown \in 0..Cooldown
    BY Limits DEF ControlTypeOK
  <2>7. /\ Saturated(failures) \in 0..Threshold /\ Saturated(failures) >= failures
        /\ failures + 1 >= Threshold => Saturated(failures) >= Threshold
    BY <2>6 DEF Saturated
  <2>8. failures' \in 0..Threshold /\ failures' = outages' /\ circuitOpen' \in BOOLEAN
        /\ cooling' \in 0..Cooldown
    BY <2>5, <2>6, <2>7 DEF ControlTypeOK
  <2>9. circuitOpen' => outages' >= Threshold
    <3>1. circuitOpen => failures >= Threshold  BY DEF OpensOnOutagesOnly
    <3>2. CASE UNCHANGED <<failures, circuitOpen, cooling, outages>>  BY <3>1, <3>2
    <3>3. CASE outages' = Saturated(failures) /\ failures + 1 >= Threshold  BY <2>7, <3>3
    <3>4. CASE outages' = Saturated(failures) /\ UNCHANGED circuitOpen
      <4>1. Saturated(failures) \in Nat  BY <2>6, <2>7
      <4> QED  BY <2>6, <2>7, <3>1, <3>4, <4>1
    <3> QED  BY <2>5, <3>2, <3>3, <3>4
  <2> QED  BY <1>0, <2>4, <2>8, <2>9 DEF ControlTypeOK, OpensOnOutagesOnly
<1>11. CASE CoolsDown
  <2>1. PassIsOne'  BY <1>11 DEF CoolsDown, PassIsOne
  <2>2. cooling' \in 0..Cooldown  BY <1>11, Limits DEF CoolsDown, ControlTypeOK
  <2> QED  BY <1>0, <1>11, <2>1, <2>2 DEF CoolsDown, ControlTypeOK, OpensOnOutagesOnly
<1>12. CASE Restart
  <2>1. PassIsOne'  BY <1>12 DEF Restart, NoPass, PassIsOne
  <2> QED  BY <1>0, <1>12, <2>1, Limits DEF Restart, ControlTypeOK, OpensOnOutagesOnly
<1> QED
  BY <1>2, <1>4, <1>5, <1>6, <1>7, <1>8, <1>9, <1>10, <1>11, <1>12 DEF ControlNext, InPass

\* The breaker opens on as many outages as its threshold, and on nothing else.
THEOREM BreakerOpensOnOutages == ControlSpec => [](ControlTypeOK /\ OpensOnOutagesOnly)
<1>1. ControlInv => ControlTypeOK /\ OpensOnOutagesOnly  BY DEF ControlInv
<1> QED  BY <1>1, ControlInvHoldsAtFirst, ControlInvIsInductive, PTL DEF ControlSpec

----------------------------------------------------------------------------
\* The shape of the state: what a call is made of, and how many are in a session.
Word == Criteria \union {NoFilter}
ConvSet ==
    [script : {"none", "list", "find", "card"}, want : Word, at : Pages,
     op : {"none", "registry", "filtered", "open"},
     pc : Requests \union {"idle", "wait", "start", "clear"},
     holds : BOOLEAN, try : 1..2, whole : 1..2]
HttpSet ==
    [view : {"none", "live", "stale"}, card : BOOLEAN, expanded : BOOLEAN, applied : Word,
     failures : {n \in Nat : n < FailuresMax}, open : BOOLEAN]
SiteSet == [filter : Word, page : Pages, panel : BOOLEAN, degraded : BOOLEAN]
Marks == {"barged", "failed", "mistaken", "poisoned", "cleared"}

InSession == {c \in Callers : conv[c].script = "card" /\ conv[c].pc \notin {"idle", "wait", "clear"}}

\* The places of each script.
ScriptOf(r) ==
    \/ r.op = "none" /\ r.script = "none" /\ r.pc \in {"idle", "clear"} /\ r.try = 1
    \/ r.op = "registry" /\ r.script \in {"list", "card"} /\ r.pc \in {"wait", "start", "boot", "page"}
    \/ r.op = "filtered" /\ r.script = "find"
       /\ r.pc \in {"wait", "start", "boot", "expand", "submit", "restore", "page"}
    \/ r.op = "open" /\ r.script = "card" /\ r.pc \in {"start", "boot", "open", "card"}
GoodConv(r) ==
    /\ ScriptOf(r)
    /\ r.op = "filtered" <=> r.want # NoFilter
    /\ r.whole = 2 => r.script = "card"
    /\ r.pc = "wait" => r.try = 1

----------------------------------------------------------------------------
\* The queue for the lock: who waits and who holds it, the holder first.
Works(c) == conv[c].pc \in Requests \union {"start"}
QueueOrder ==
    /\ \A c \in Callers : conv[c].holds <=> c \in ToSet(lockQueue)
    /\ \A i, j \in DOMAIN lockQueue : lockQueue[i] = lockQueue[j] => i = j
    /\ \A c \in Callers : conv[c].holds => conv[c].pc \notin {"idle", "clear"}
    /\ \A c \in Callers : conv[c].pc = "wait" => conv[c].holds
    /\ \A c \in Callers : Works(c) /\ conv[c].holds => c = Head(lockQueue)

\* As long as nobody passed the lock, who works holds it; and who is at a card or at
\* its columns found no search with its filter still to drop.
Serial ==
    /\ \A c \in Callers : Works(c) => conv[c].holds
    /\ \A c, d \in Callers : conv[c].op = "open" \/ conv[c].pc = "restore" => conv[d].pc # "clear"

LockInv ==
    /\ conv \in [Callers -> ConvSet] /\ \A c \in Callers : GoodConv(conv[c])
    /\ lockQueue \in Seq(Callers) /\ seen \subseteq Marks
    /\ depth = Cardinality(InSession) /\ QueueOrder
    /\ "barged" \notin seen => Serial

NoneIs(pcs) == \A c \in Callers : conv[c].pc \notin pcs

\* What the client believes of its session is so, but while a search that ended has
\* its filter still to drop (not still) or its columns to restore; and unless an
\* answer was lost, no table is degraded but that of a search or of a card at hand
\* (not bare).
Session(h, s, lost, still, bare) ==
    /\ h.view # "live" => s = Fresh
    /\ h.view = "none" => ~ h.expanded
    /\ h.applied # NoFilter => h.expanded
    /\ h.view = "live" /\ ~ h.expanded => s.filter = NoFilter
    /\ h.view = "live" /\ h.expanded => s.panel
    /\ h.view = "live" /\ h.applied # NoFilter /\ still =>
          s.filter = h.applied /\ (lost = 0 => ~ s.degraded \/ h.applied \in Barren)
    /\ h.view = "live" /\ ~ h.expanded /\ ~ h.card /\ bare /\ lost = 0 => ~ s.degraded
Believed == Session(http, site, breaks, NoneIs({"clear", "restore"}), NoneIs({"card"}))

\* What a call at work may rely on.
ReliesOn(r, h, s) ==
    /\ r.pc = "boot" => h.view = "none"
    /\ r.op \in {"registry", "open"} /\ r.pc \in {"page", "open", "card"} /\ h.view = "live"
          => ~ h.expanded /\ ~ h.card
    /\ r.op = "open" /\ r.pc = "start" /\ h.view = "live" => ~ h.expanded
    /\ r.op = "filtered" /\ r.pc = "page" /\ h.view = "live" => h.applied = r.want
    /\ r.pc = "expand" /\ h.view = "live" => ~ h.expanded
    /\ r.pc \in {"submit", "restore"} /\ h.view = "live" => h.expanded
    /\ r.pc = "restore" /\ h.view = "live" => s.filter = r.want /\ s.page = 1
Relied == \A c \in Callers : ReliesOn(conv[c], http, site)

\* A call that expired did so because a session died, and one that expired twice
\* because two did; a card that was located is where it was found, or is sought anew.
Endures(r, h, s, n) ==
    /\ r.try = 2 \/ r.whole = 2 => n > 0
    /\ r.try = 2 /\ r.whole = 2 => n > 1
    /\ h.view = "stale" /\ n <= 1 => r.try = 1 /\ r.whole = 1
    /\ r.pc \in Requests \ {"boot"} => h.view # "none"
    /\ r.op = "open" /\ r.try = 1 =>
          /\ h.view # "none" /\ r.pc # "boot"
          /\ r.pc \in {"start", "open"} => ~ h.card /\ ~ h.expanded
          /\ r.pc \in {"start", "open"} /\ h.view = "live" => s.page = r.at /\ s.filter = NoFilter
Survives ==
    /\ http.view = "stale" => deaths > 0
    /\ \A c \in Callers : Endures(conv[c], http, site, deaths)
    /\ "failed" \in seen => deaths > 1

SessionInv ==
    /\ Believed /\ Relied
    /\ "mistaken" \notin seen /\ ("poisoned" \in seen => breaks > 0)
    /\ "cleared" \notin seen => Survives

Counted == http \in HttpSet /\ site \in SiteSet /\ deaths \in Nat /\ breaks \in Nat
ButbInv == LockInv /\ Counted /\ ("barged" \notin seen => SessionInv)

----------------------------------------------------------------------------
\* The queue for the lock, step by step.

LEMMA WithoutHead ==
    ASSUME NEW q \in Seq(Callers), q # <<>>, \A i, j \in DOMAIN q : q[i] = q[j] => i = j
    PROVE  /\ Tail(q) \in Seq(Callers) /\ Head(q) \in Callers
           /\ ToSet(Tail(q)) = ToSet(q) \ {Head(q)}
           /\ \A i, j \in DOMAIN Tail(q) : Tail(q)[i] = Tail(q)[j] => i = j
<1>1. /\ Tail(q) \in Seq(Callers) /\ Head(q) = q[1] /\ Len(q) \in Nat /\ Len(q) > 0
      /\ DOMAIN q = 1..Len(q) /\ DOMAIN Tail(q) = 1..Len(q) - 1
      /\ \A i \in 1..Len(q) - 1 : Tail(q)[i] = q[i + 1]
  OBVIOUS
<1>2. Head(q) \in Callers  BY <1>1
<1>3. ToSet(Tail(q)) \subseteq ToSet(q) \ {Head(q)}
  <2> SUFFICES ASSUME NEW i \in 1..Len(q) - 1 PROVE Tail(q)[i] \in ToSet(q) \ {Head(q)}
    BY <1>1 DEF ToSet
  <2>1. i + 1 \in DOMAIN q /\ 1 \in DOMAIN q /\ i + 1 # 1 /\ Tail(q)[i] = q[i + 1]  BY <1>1
  <2>2. q[i + 1] # q[1]  BY <2>1
  <2> QED  BY <1>1, <2>1, <2>2 DEF ToSet
<1>4. ToSet(q) \ {Head(q)} \subseteq ToSet(Tail(q))
  <2> SUFFICES ASSUME NEW i \in DOMAIN q, q[i] # q[1] PROVE q[i] \in ToSet(Tail(q))
    BY <1>1 DEF ToSet
  <2>1. i # 1 /\ i \in 1..Len(q)  BY <1>1
  <2>2. i - 1 \in DOMAIN Tail(q) /\ Tail(q)[i - 1] = q[i]  BY <1>1, <2>1
  <2> QED  BY <2>2 DEF ToSet
<1>5. ASSUME NEW i \in DOMAIN Tail(q), NEW j \in DOMAIN Tail(q), Tail(q)[i] = Tail(q)[j]
      PROVE  i = j
  <2>1. i + 1 \in DOMAIN q /\ j + 1 \in DOMAIN q /\ q[i + 1] = q[j + 1]  BY <1>1, <1>5
  <2>2. i + 1 = j + 1  BY <2>1
  <2> QED  BY <1>1, <2>2
<1> QED  BY <1>1, <1>2, <1>3, <1>4, <1>5

LEMMA WithOneMore ==
    ASSUME NEW q \in Seq(Callers), NEW c \in Callers, c \notin ToSet(q),
           \A i, j \in DOMAIN q : q[i] = q[j] => i = j
    PROVE  /\ Append(q, c) \in Seq(Callers) /\ ToSet(Append(q, c)) = ToSet(q) \union {c}
           /\ \A i, j \in DOMAIN Append(q, c) : Append(q, c)[i] = Append(q, c)[j] => i = j
           /\ q # <<>> => Head(Append(q, c)) = Head(q)
<1> DEFINE r == Append(q, c)
<1>1. /\ r \in Seq(Callers) /\ Len(q) \in Nat /\ DOMAIN q = 1..Len(q)
      /\ DOMAIN r = 1..Len(q) + 1 /\ r[Len(q) + 1] = c
      /\ \A i \in 1..Len(q) : r[i] = q[i]
  OBVIOUS
<1>2. \A i \in DOMAIN q : q[i] # c  BY DEF ToSet
<1>3. q # <<>> => Head(r) = Head(q)
  <2> SUFFICES ASSUME q # <<>> PROVE Head(r) = Head(q)  OBVIOUS
  <2>1. Head(q) = q[1] /\ 1 \in 1..Len(q) /\ Head(r) = r[1]  OBVIOUS
  <2> QED  BY <1>1, <2>1
<1> HIDE DEF r
<1>4. ToSet(r) = ToSet(q) \union {c}
  <2>1. \A i \in DOMAIN r : i \in DOMAIN q \/ i = Len(q) + 1  BY <1>1
  <2>2. ToSet(r) \subseteq ToSet(q) \union {c}  BY <1>1, <2>1 DEF ToSet
  <2>3. ToSet(q) \union {c} \subseteq ToSet(r)
    <3>1. \A i \in DOMAIN q : i \in DOMAIN r /\ r[i] = q[i]  BY <1>1
    <3>2. Len(q) + 1 \in DOMAIN r  BY <1>1
    <3> QED  BY <1>1, <3>1, <3>2 DEF ToSet
  <2> QED  BY <2>2, <2>3
<1>5. ASSUME NEW i \in DOMAIN r, NEW j \in DOMAIN r, r[i] = r[j] PROVE i = j
  <2>1. CASE i = Len(q) + 1 \/ j = Len(q) + 1  BY <1>1, <1>2, <1>5, <2>1
  <2>2. CASE i # Len(q) + 1 /\ j # Len(q) + 1
    <3>1. i \in DOMAIN q /\ j \in DOMAIN q  BY <1>1, <2>2
    <3> QED  BY <1>1, <1>5, <3>1
  <2> QED  BY <2>1, <2>2
<1> QED  BY <1>1, <1>3, <1>4, <1>5 DEF r

LEMMA SessionsAreFinite == IsFiniteSet(InSession) /\ InSession \subseteq Callers
<1>1. InSession \subseteq Callers  BY DEF InSession
<1> QED  BY <1>1, ButbBounds, FS_Subset

\* What is left of the queue and of the sessions without call c.
Gone(c, d, q) ==
    /\ d = Cardinality(InSession \ {c})
    /\ q \in Seq(Callers) /\ c \notin ToSet(q)
    /\ \A e \in Callers \ {c} : conv[e].holds <=> e \in ToSet(q)
    /\ \A i, j \in DOMAIN q : q[i] = q[j] => i = j
    /\ \A e \in Callers \ {c} : Works(e) /\ conv[e].holds => q # <<>> /\ e = Head(q)

LEMMA LeavingTheQueue ==
    ASSUME LockInv, NEW c \in Callers,
           NEW d, NEW q, \/ conv[c].pc = "idle" /\ d = depth /\ q = lockQueue
                         \/ Works(c) /\ d = Left(c) /\ q = Released(c)
    PROVE  Gone(c, d, q)
<1> USE DEF LockInv
<1>1. conv[c] \in ConvSet /\ GoodConv(conv[c])  OBVIOUS
<1>2. d = Cardinality(InSession \ {c})
  <2>1. CASE conv[c].pc = "idle" /\ d = depth
    <3>1. InSession \ {c} = InSession  BY <2>1 DEF InSession
    <3> QED  BY <2>1, <3>1
  <2>2. CASE Works(c) /\ d = Left(c) /\ conv[c].script = "card"
    <3>1. c \in InSession  BY <2>2 DEF Works, InSession, Requests
    <3>2. Cardinality(InSession \ {c}) = Cardinality(InSession) - 1
      BY <3>1, SessionsAreFinite, FS_RemoveElement
    <3> QED  BY <2>2, <3>2 DEF Left, Inside
  <2>3. CASE Works(c) /\ d = Left(c) /\ conv[c].script # "card"
    <3>1. InSession \ {c} = InSession  BY <2>3 DEF InSession
    <3>2. depth \in Nat  BY SessionsAreFinite, FS_CardinalityType
    <3>3. Inside(conv[c]) = 0  BY <2>3 DEF Inside
    <3>4. depth - 0 = depth  BY <3>2
    <3>5. d = depth  BY <2>3, <3>3, <3>4 DEF Left
    <3> QED  BY <3>1, <3>5
  <2> QED  BY <2>1, <2>2, <2>3
<1>3. CASE ~ conv[c].holds
  <2>1. q = lockQueue  BY <1>3 DEF Released
  <2>2. c \notin ToSet(lockQueue)  BY <1>3 DEF QueueOrder
  <2>3. \A e \in Callers : e \in ToSet(lockQueue) => lockQueue # <<>>  BY DEF ToSet
  <2> QED  BY <1>2, <2>1, <2>2, <2>3 DEF Gone, QueueOrder
<1>4. CASE conv[c].holds
  <2>1. Works(c) /\ q = Tail(lockQueue) /\ c = Head(lockQueue) /\ c \in ToSet(lockQueue)
    BY <1>4 DEF Released, QueueOrder
  <2>2. lockQueue # <<>>  BY <2>1 DEF ToSet
  <2>3. /\ q \in Seq(Callers) /\ ToSet(q) = ToSet(lockQueue) \ {c}
        /\ \A i, j \in DOMAIN q : q[i] = q[j] => i = j
    BY <2>1, <2>2, WithoutHead DEF QueueOrder
  <2>4. \A e \in Callers \ {c} : ~ (Works(e) /\ conv[e].holds)  BY <2>1 DEF QueueOrder
  <2> QED  BY <1>2, <2>3, <2>4 DEF Gone, QueueOrder
<1> QED  BY <1>1, <1>3, <1>4 DEF ConvSet

\* Only call c changes its place.
LEMMA OthersStay ==
    ASSUME LockInv, NEW c \in Callers, NEW r, conv' = [conv EXCEPT ![c] = r]
    PROVE  /\ conv'[c] = r /\ \A e \in Callers \ {c} : conv'[e] = conv[e]
           /\ InSession' \ {c} = InSession \ {c}
           /\ \A e \in Callers \ {c} : Works(e)' <=> Works(e)
BY DEF LockInv, InSession, Works

LEMMA CountOfSessions ==
    ASSUME NEW c \in Callers, InSession' \ {c} = InSession \ {c}
    PROVE  /\ c \in InSession' => Cardinality(InSession') = Cardinality(InSession \ {c}) + 1
           /\ c \notin InSession' => Cardinality(InSession') = Cardinality(InSession \ {c})
<1> DEFINE S == InSession \ {c}
<1>1. IsFiniteSet(S)  BY SessionsAreFinite, FS_Subset
<1>2. ASSUME c \in InSession' PROVE Cardinality(InSession') = Cardinality(S) + 1
  <2>1. InSession' = S \union {c} /\ c \notin S  BY <1>2
  <2> HIDE DEF S
  <2> QED  BY <1>1, <2>1, FS_AddElement
<1>3. ASSUME c \notin InSession' PROVE Cardinality(InSession') = Cardinality(S)
  <2>1. InSession' = S  BY <1>3
  <2> QED  BY <2>1
<1> QED  BY <1>2, <1>3
\* Nobody but call c is at work, and no search but its own has a filter to drop.
Alone(c) == \A d \in Callers \ {c} : ~ Works(d)
Still(c) == \A d \in Callers \ {c} : conv[d].pc # "clear"

LEMMA OneWorks ==
    ASSUME LockInv, "barged" \notin seen, NEW c \in Callers,
           Works(c) \/ (conv[c].pc = "wait" /\ Head(lockQueue) = c)
    PROVE  Alone(c)
<1> SUFFICES ASSUME NEW d \in Callers, Works(d) PROVE d = c  BY DEF Alone
<1>1. Serial /\ QueueOrder  BY DEF LockInv
<1>2. d = Head(lockQueue)  BY <1>1 DEF Serial, QueueOrder
<1>3. c = Head(lockQueue)  BY <1>1 DEF Serial, QueueOrder
<1> QED  BY <1>2, <1>3

\* A call goes on from one place to another.
LEMMA GoingOn ==
    ASSUME LockInv, NEW c \in Callers, Works(c), NEW r \in ConvSet, GoodConv(r),
           r.script = conv[c].script, r.holds = conv[c].holds, r.pc \in Requests \union {"start"},
           NEW why \in SUBSET Marks, Goes(c, r, why),
           "barged" \notin seen /\ (r.op = "open" \/ r.pc = "restore") => Still(c)
    PROVE  LockInv'
<1> USE DEF LockInv, Goes
<1>1. /\ conv' \in [Callers -> ConvSet] /\ \A e \in Callers : GoodConv(conv'[e])
      /\ lockQueue' \in Seq(Callers) /\ seen' \subseteq Marks
  BY OthersStay
<1>2. conv'[c] = r /\ \A e \in Callers \ {c} : conv'[e] = conv[e]  BY OthersStay
<1>3. \A e \in Callers : /\ conv'[e].holds = conv[e].holds
                         /\ Works(e)' <=> Works(e)
                         /\ conv'[e].script = conv[e].script
                         /\ (conv'[e].pc \in {"idle", "clear"} <=> conv[e].pc \in {"idle", "clear"})
                         /\ (conv'[e].pc = "wait" <=> conv[e].pc = "wait")
                         /\ (conv'[e].pc = "clear" <=> conv[e].pc = "clear")
  BY <1>2 DEF Works, Requests
<1>4. InSession' = InSession
  <2>1. \A e \in Callers : e \in InSession' <=> e \in InSession  BY <1>3 DEF InSession
  <2> QED  BY <2>1 DEF InSession
<1>5. depth' = Cardinality(InSession')  BY <1>4
<1>6. QueueOrder'  BY <1>3 DEF QueueOrder
<1>7. ASSUME "barged" \notin seen' PROVE Serial'
  <2>1. "barged" \notin seen /\ Serial  BY <1>7
  <2>2. \A e \in Callers : Works(e)' => conv'[e].holds  BY <1>3, <2>1 DEF Serial
  <2>3. ASSUME NEW e \in Callers, NEW d \in Callers, conv'[e].op = "open" \/ conv'[e].pc = "restore"
        PROVE  conv'[d].pc # "clear"
    <3>1. CASE e = c
      <4>1. Still(c) /\ conv[c].pc # "clear"  BY <1>2, <2>1, <2>3, <3>1 DEF Works, Requests
      <4> QED  BY <1>3, <4>1 DEF Still
    <3>2. CASE e # c  BY <1>2, <1>3, <2>1, <2>3, <3>2 DEF Serial
    <3> QED  BY <3>1, <3>2
  <2> QED  BY <2>2, <2>3 DEF Serial
<1> QED  BY <1>1, <1>5, <1>6, <1>7

\* Call c is put at a place outside the queue or at its end.
LEMMA Placed ==
    ASSUME LockInv, NEW c \in Callers, NEW d, NEW q, Gone(c, d, q),
           NEW r \in ConvSet, GoodConv(r), conv' = [conv EXCEPT ![c] = r],
           depth' = d + (IF r.script = "card" /\ r.pc = "start" THEN 1 ELSE 0),
           \/ r.pc = "wait" /\ r.holds /\ lockQueue' = Append(q, c)
           \/ r.pc \in {"start", "idle", "clear"} /\ ~ r.holds /\ lockQueue' = q,
           r.op # "open",
           NEW why \in SUBSET Marks, seen' = seen \union why,
           "barged" \notin seen' => r.pc # "start",
           "barged" \notin seen /\ r.pc = "clear" => Alone(c)
    PROVE  LockInv'
<1> USE DEF LockInv
<1>1. conv' \in [Callers -> ConvSet] /\ (\A e \in Callers : GoodConv(conv'[e])) /\ seen' \subseteq Marks
  BY OthersStay
<1>2. /\ conv'[c] = r /\ \A e \in Callers \ {c} : conv'[e] = conv[e]
      /\ InSession' \ {c} = InSession \ {c}
      /\ \A e \in Callers \ {c} : Works(e)' <=> Works(e)
  BY OthersStay
<1>3. depth' = Cardinality(InSession')
  <2>1. d = Cardinality(InSession \ {c}) /\ d \in Nat
    <3>1. IsFiniteSet(InSession \ {c})  BY SessionsAreFinite, FS_Subset
    <3> QED  BY <3>1, FS_CardinalityType DEF Gone
  <2>2. c \in InSession' <=> r.script = "card" /\ r.pc = "start"  BY <1>2 DEF InSession
  <2>3. CASE r.script = "card" /\ r.pc = "start"
    <3>1. Cardinality(InSession') = d + 1  BY <1>2, <2>1, <2>2, <2>3, CountOfSessions
    <3> QED  BY <2>3, <3>1
  <2>4. CASE ~ (r.script = "card" /\ r.pc = "start")
    <3>1. Cardinality(InSession') = d  BY <1>2, <2>1, <2>2, <2>4, CountOfSessions
    <3> QED  BY <2>1, <2>4, <3>1
  <2> QED  BY <2>3, <2>4
<1>4. lockQueue' \in Seq(Callers) /\ QueueOrder'
  <2>1. CASE r.pc = "wait" /\ r.holds /\ lockQueue' = Append(q, c)
    <3>1. /\ lockQueue' \in Seq(Callers) /\ ToSet(lockQueue') = ToSet(q) \union {c}
          /\ \A i, j \in DOMAIN lockQueue' : lockQueue'[i] = lockQueue'[j] => i = j
          /\ q # <<>> => Head(lockQueue') = Head(q)
      BY <2>1, WithOneMore DEF Gone
    <3>2. \A e \in Callers : conv'[e].holds <=> e \in ToSet(lockQueue')
      BY <1>2, <2>1, <3>1 DEF Gone
    <3>3. \A e \in Callers : Works(e)' /\ conv'[e].holds => e = Head(lockQueue')
      <4>1. ~ Works(c)'  BY <1>2, <2>1 DEF Works, Requests
      <4> QED  BY <1>2, <3>1, <4>1 DEF Gone
    <3> QED  BY <1>2, <2>1, <3>1, <3>2, <3>3 DEF QueueOrder
  <2>2. CASE r.pc \in {"start", "idle", "clear"} /\ ~ r.holds /\ lockQueue' = q
    <3>1. \A e \in Callers : conv'[e].holds <=> e \in ToSet(lockQueue')  BY <1>2, <2>2 DEF Gone
    <3>2. \A e \in Callers : Works(e)' /\ conv'[e].holds => e = Head(lockQueue')
      BY <1>2, <2>2 DEF Gone
    <3> QED  BY <1>2, <2>2, <3>1, <3>2 DEF QueueOrder, Gone
  <2> QED  BY <2>1, <2>2
<1>5. ASSUME "barged" \notin seen' PROVE Serial'
  <2>1. "barged" \notin seen /\ Serial /\ r.pc # "start"  BY <1>5
  <2>2. ~ Works(c)'  BY <1>2, <2>1 DEF Works, Requests
  <2>3. \A e \in Callers : Works(e)' => conv'[e].holds  BY <1>2, <2>1, <2>2 DEF Serial
  <2>4. ASSUME NEW e \in Callers, NEW f \in Callers, conv'[e].op = "open" \/ conv'[e].pc = "restore"
        PROVE  conv'[f].pc # "clear"
    <3>1. e # c  BY <1>2, <2>4
    <3>2. Works(e)
      <4>1. conv'[e] = conv[e] /\ GoodConv(conv[e])  BY <1>2, <3>1
      <4> QED  BY <2>4, <4>1 DEF Works, GoodConv, ScriptOf, Requests
    <3>3. CASE f = c  BY <1>2, <2>1, <3>1, <3>2, <3>3 DEF Alone
    <3>4. CASE f # c  BY <1>2, <2>1, <2>4, <3>1, <3>4 DEF Serial
    <3> QED  BY <3>3, <3>4
  <2> QED  BY <2>3, <2>4 DEF Serial
<1> QED  BY <1>1, <1>3, <1>4, <1>5

Waiting(r) == [r EXCEPT !.pc = "wait", !.holds = TRUE]

LEMMA Queueing ==
    ASSUME LockInv, NEW c \in Callers, NEW d, NEW q, Gone(c, d, q),
           NEW r \in ConvSet, GoodConv(Waiting(r)), r.try = 1,
           NEW why \in SUBSET Marks, Serialized(c, r, d, q, why)
    PROVE  /\ LockInv'
           /\ "barged" \notin seen' =>
                 seen' = seen \union why /\ conv' = [conv EXCEPT ![c] = Waiting(r)]
<1> DEFINE go == [r EXCEPT !.pc = "start", !.holds = FALSE]
<1>1. go \in ConvSet /\ Waiting(r) \in ConvSet  BY DEF ConvSet, Waiting
<1>2. r.op \in {"registry", "filtered"}  BY DEF GoodConv, ScriptOf, ConvSet, Waiting
<1>3. /\ go.pc = "start" /\ ~ go.holds /\ go.script = r.script /\ go.op = r.op
      /\ Waiting(r).pc = "wait" /\ Waiting(r).holds /\ Waiting(r).op = r.op
  BY DEF ConvSet, Waiting
<1>4. GoodConv(go) /\ GoodConv(Waiting(r))  BY DEF ConvSet, GoodConv, ScriptOf, Waiting
<1>5. d \in Nat
  <2>1. IsFiniteSet(InSession \ {c})  BY SessionsAreFinite, FS_Subset
  <2> QED  BY <2>1, FS_CardinalityType DEF Gone
<1>6. CASE d > 0
  <2>1. /\ seen' = seen \union (why \union {"barged"}) /\ (why \union {"barged"}) \in SUBSET Marks
        /\ conv' = [conv EXCEPT ![c] = go] /\ depth' = d + Inside(r) /\ lockQueue' = q
    BY <1>6 DEF Serialized, Marks
  <2>2. depth' = d + (IF go.script = "card" /\ go.pc = "start" THEN 1 ELSE 0)
    BY <1>3, <2>1 DEF Inside
  <2>3. "barged" \in seen'  BY <2>1
  <2> HIDE DEF go
  <2>4. LockInv'  BY <1>1, <1>2, <1>3, <1>4, <2>1, <2>2, <2>3, Placed
  <2> QED  BY <2>3, <2>4
<1>7. CASE ~ (d > 0)
  <2>1. /\ seen' = seen \union why /\ conv' = [conv EXCEPT ![c] = Waiting(r)]
        /\ depth' = d /\ lockQueue' = Append(q, c)
    BY <1>7 DEF Serialized, Waiting
  <2>2. depth' = d + (IF Waiting(r).script = "card" /\ Waiting(r).pc = "start" THEN 1 ELSE 0)
    BY <1>3, <1>5, <2>1
  <2>3. LockInv'
    BY <1>1, <1>2, <1>3, <1>4, <2>1, <2>2, Placed
  <2> QED  BY <2>1, <2>3
<1> QED  BY <1>6, <1>7

\* How a call stands once it ended.
Ended(c) == [Quiet EXCEPT !.pc = IF conv[c].script = "find" THEN "clear" ELSE "idle"]

LEMMA EndsWell ==
    ASSUME LockInv, NEW c \in Callers
    PROVE  /\ Ended(c) \in ConvSet /\ GoodConv(Ended(c)) /\ ~ Ended(c).holds
           /\ Ended(c).pc \in {"idle", "clear"} /\ Ended(c).op = "none"
           /\ Ended(c).try = 1 /\ Ended(c).whole = 1
<1> DEFINE there(pc) == [script |-> "none", want |-> NoFilter, at |-> 1, op |-> "none", pc |-> pc,
                         holds |-> FALSE, try |-> 1, whole |-> 1]
<1>1. Ended(c) = there("clear") \/ Ended(c) = there("idle")
  <2>1. CASE conv[c].script = "find"
    <3>1. Ended(c) = [Quiet EXCEPT !.pc = "clear"]  BY <2>1 DEF Ended
    <3> QED  BY <3>1 DEF Quiet
  <2>2. CASE conv[c].script # "find"
    <3>1. Ended(c) = [Quiet EXCEPT !.pc = "idle"]  BY <2>2 DEF Ended
    <3> QED  BY <3>1 DEF Quiet
  <2> QED  BY <2>1, <2>2
<1>2. CASE Ended(c) = there("clear")  BY <1>2 DEF ConvSet, GoodConv, ScriptOf, Word, Pages
<1>3. CASE Ended(c) = there("idle")  BY <1>3 DEF ConvSet, GoodConv, ScriptOf, Word, Pages
<1> QED  BY <1>1, <1>2, <1>3

LEMMA Finishing ==
    ASSUME LockInv, NEW c \in Callers, Works(c), NEW why \in SUBSET Marks, Ends(c, why)
    PROVE  LockInv' /\ conv' = [conv EXCEPT ![c] = Ended(c)] /\ seen' = seen \union why
<1>1. Gone(c, Left(c), Released(c))  BY LeavingTheQueue
<1>2. /\ conv' = [conv EXCEPT ![c] = Ended(c)] /\ seen' = seen \union why
      /\ depth' = Left(c) /\ lockQueue' = Released(c)
  BY DEF Ends, Ended
<1>3. depth' = Left(c) + (IF Ended(c).script = "card" /\ Ended(c).pc = "start" THEN 1 ELSE 0)
  <2>1. IsFiniteSet(InSession \ {c})  BY SessionsAreFinite, FS_Subset
  <2>2. Left(c) \in Nat  BY <1>1, <2>1, FS_CardinalityType DEF Gone
  <2> QED  BY <1>2, <2>2, EndsWell
<1>4. ASSUME "barged" \notin seen PROVE Alone(c)  BY <1>4, OneWorks
<1> QED  BY <1>1, <1>2, <1>3, <1>4, EndsWell, Placed

LEMMA Entering ==
    ASSUME LockInv, NEW c \in Callers, Enter(c)
    PROVE  LockInv'
<1> DEFINE r == [conv[c] EXCEPT !.pc = "start"]
<1> USE DEF LockInv, Enter
<1>1. conv[c] \in ConvSet /\ GoodConv(conv[c])  OBVIOUS
<1>2. r \in ConvSet /\ GoodConv(r) /\ r.pc = "start" /\ r.op # "open" /\ r.script = conv[c].script
      /\ r.holds = conv[c].holds
  BY <1>1 DEF ConvSet, GoodConv, ScriptOf
<1>3. conv' = [conv EXCEPT ![c] = r]  OBVIOUS
<1> HIDE DEF r
<1>4. /\ conv' \in [Callers -> ConvSet] /\ (\A e \in Callers : GoodConv(conv'[e]))
  BY <1>2, <1>3, OthersStay
<1>5. /\ conv'[c] = r /\ \A e \in Callers \ {c} : conv'[e] = conv[e]
      /\ InSession' \ {c} = InSession \ {c}
      /\ \A e \in Callers \ {c} : Works(e)' <=> Works(e)
  BY <1>2, <1>3, OthersStay
<1>6. depth' = Cardinality(InSession')
  <2>1. InSession \ {c} = InSession  BY DEF InSession
  <2>2. depth \in Nat  BY SessionsAreFinite, FS_CardinalityType
  <2>3. c \in InSession' <=> conv[c].script = "card"  BY <1>2, <1>5 DEF InSession
  <2>4. depth' = depth + Inside(conv[c])  OBVIOUS
  <2>5. CASE conv[c].script = "card"
    <3>1. Cardinality(InSession') = depth + 1  BY <1>5, <2>1, <2>3, <2>5, CountOfSessions
    <3> QED  BY <2>4, <2>5, <3>1 DEF Inside
  <2>6. CASE conv[c].script # "card"
    <3>1. Cardinality(InSession') = depth  BY <1>5, <2>1, <2>3, <2>6, CountOfSessions
    <3>2. depth' = depth + 0  BY <2>4, <2>6 DEF Inside
    <3> QED  BY <2>2, <3>1, <3>2
  <2> QED  BY <2>5, <2>6
<1>7. QueueOrder'
  <2>1. \A e \in Callers : conv'[e].holds = conv[e].holds  BY <1>2, <1>5
  <2>2. \A e \in Callers : Works(e)' /\ conv'[e].holds => e = Head(lockQueue)'
    BY <1>5, <2>1 DEF QueueOrder
  <2> QED  BY <1>2, <1>5, <2>1, <2>2 DEF QueueOrder
<1>8. ASSUME "barged" \notin seen' PROVE Serial'
  <2>1. Serial  BY <1>8
  <2>2. conv'[c].holds  BY <1>2, <1>5 DEF QueueOrder
  <2>3. conv'[c].op # "open" /\ conv'[c].pc # "restore" /\ conv'[c].pc # "clear"  BY <1>2, <1>5
  <2> QED  BY <1>5, <2>1, <2>2, <2>3 DEF Serial
<1> QED  BY <1>4, <1>6, <1>7, <1>8

LEMMA Clearing ==
    ASSUME LockInv, NEW c \in Callers, Clear(c)
    PROVE  LockInv'
<1> DEFINE r == [conv[c] EXCEPT !.pc = "idle"]
<1> USE DEF LockInv, Clear
<1>1. conv[c] \in ConvSet /\ GoodConv(conv[c]) /\ conv[c].op = "none"  BY DEF GoodConv, ScriptOf
<1>2. r \in ConvSet /\ GoodConv(r) /\ r.pc = "idle" /\ r.op = "none" /\ r.script = conv[c].script
      /\ r.holds = conv[c].holds
  BY <1>1 DEF ConvSet, GoodConv, ScriptOf
<1>3. conv' = [conv EXCEPT ![c] = r]  OBVIOUS
<1> HIDE DEF r
<1>4. /\ conv' \in [Callers -> ConvSet] /\ (\A e \in Callers : GoodConv(conv'[e]))
  BY <1>2, <1>3, OthersStay
<1>5. /\ conv'[c] = r /\ \A e \in Callers \ {c} : conv'[e] = conv[e]
      /\ InSession' \ {c} = InSession \ {c}
      /\ \A e \in Callers \ {c} : Works(e)' <=> Works(e)
  BY <1>2, <1>3, OthersStay
<1>6. depth' = Cardinality(InSession')
  <2>1. c \notin InSession /\ c \notin InSession'  BY <1>2, <1>5 DEF InSession
  <2>2. InSession' = InSession' \ {c} /\ InSession = InSession \ {c}  BY <2>1
  <2>3. InSession' = InSession  BY <1>5, <2>2
  <2> QED  BY <2>3
<1>7. QueueOrder'
  <2>1. ~ Works(c)'  BY <1>2, <1>5 DEF Works, Requests
  <2> QED  BY <1>2, <1>5, <2>1 DEF QueueOrder
<1>8. ASSUME "barged" \notin seen' PROVE Serial'
  <2>1. Serial  BY <1>8
  <2>2. ~ Works(c)'  BY <1>2, <1>5 DEF Works, Requests
  <2>3. conv'[c].op # "open" /\ conv'[c].pc # "restore" /\ conv'[c].pc # "clear"  BY <1>2, <1>5
  <2> QED  BY <1>5, <2>1, <2>2, <2>3 DEF Serial
<1>9. seen' \subseteq Marks  BY DEF Marks
<1> QED  BY <1>4, <1>6, <1>7, <1>8, <1>9
----------------------------------------------------------------------------
\* What the client and the site hold, step by step.

Alike(h, k) ==
    h.view = k.view /\ h.card = k.card /\ h.expanded = k.expanded /\ h.applied = k.applied

LEMMA HttpMoves ==
    ASSUME NEW h \in HttpSet
    PROVE  /\ Reset(h) \in HttpSet /\ Succeeded(h) \in HttpSet /\ Failed(h) \in HttpSet
           /\ Reset(h).view = "none" /\ ~ Reset(h).card /\ ~ Reset(h).expanded
           /\ Reset(h).applied = NoFilter
           /\ Alike(Succeeded(h), h) /\ Alike(Failed(h), h)
<1>1. 0 < FailuresMax /\ 0 \in Nat  BY ButbBounds
<1>2. Reset(h) \in HttpSet /\ Succeeded(h) \in HttpSet
  BY <1>1 DEF HttpSet, Reset, Succeeded, Word
<1>3. CASE h.failures + 1 >= FailuresMax
  <2>1. Failed(h) = [h EXCEPT !.failures = 0, !.open = TRUE]  BY <1>3 DEF Failed
  <2> QED  BY <1>1, <1>2, <2>1 DEF HttpSet, Reset, Succeeded, Alike
<1>4. CASE ~ (h.failures + 1 >= FailuresMax)
  <2>1. Failed(h) = [h EXCEPT !.failures = h.failures + 1]  BY <1>4 DEF Failed
  <2>2. h.failures + 1 \in {n \in Nat : n < FailuresMax}  BY <1>4, ButbBounds DEF HttpSet
  <2> QED  BY <1>1, <1>2, <2>1, <2>2 DEF HttpSet, Reset, Succeeded, Alike
<1> QED  BY <1>3, <1>4

LEMMA SiteMoves ==
    ASSUME site \in SiteSet, NEW r \in ConvSet
    PROVE  Moved(r) \in SiteSet
<1>1. CASE r.pc = "page"
  <2>1. Moved(r) = [site EXCEPT !.page = r.at]  BY <1>1 DEF Moved
  <2> QED  BY <2>1 DEF SiteSet, ConvSet
<1>2. CASE r.pc = "expand"
  <2>1. Moved(r) = [site EXCEPT !.panel = TRUE, !.degraded = TRUE]  BY <1>2 DEF Moved
  <2> QED  BY <2>1 DEF SiteSet
<1>3. CASE r.pc = "submit" /\ site.panel
  <2>1. Moved(r) = [site EXCEPT !.filter = r.want, !.page = 1, !.degraded = TRUE]
    BY <1>3 DEF Moved
  <2>2. r.want \in Word /\ 1 \in Pages  BY DEF ConvSet, Pages
  <2> QED  BY <2>1, <2>2 DEF SiteSet
<1>4. CASE r.pc = "restore" /\ site.panel
  <2>1. Moved(r) = [site EXCEPT !.degraded = FALSE]  BY <1>4 DEF Moved
  <2> QED  BY <2>1 DEF SiteSet
<1>5. CASE r.pc = "open" /\ Resolves(r)
  <2>1. Moved(r) = [site EXCEPT !.degraded = TRUE]  BY <1>5 DEF Moved
  <2> QED  BY <2>1 DEF SiteSet
<1>6. CASE /\ r.pc \notin {"page", "expand"}
           /\ ~ (r.pc = "submit" /\ site.panel) /\ ~ (r.pc = "restore" /\ site.panel)
           /\ ~ (r.pc = "open" /\ Resolves(r))
  <2>1. Moved(r) = site  BY <1>6 DEF Moved
  <2> QED  BY <2>1
<1> QED  BY <1>1, <1>2, <1>3, <1>4, <1>5, <1>6

LEMMA FreshIsASite == Fresh \in SiteSet
BY DEF Fresh, SiteSet, Word, Pages

\* What call c, which nobody disturbs, does to the session.
LEMMA AloneStep ==
    ASSUME LockInv, Counted, SessionInv, NEW c \in Callers, Alone(c),
           NEW r, conv' = [conv EXCEPT ![c] = r], deaths' = deaths,
           Session(http', site', breaks', Still(c) /\ r.pc \notin {"clear", "restore"}, r.pc # "card"),
           ReliesOn(r, http', site'),
           "mistaken" \notin seen', "poisoned" \in seen' => breaks' > 0,
           "cleared" \notin seen' =>
                 /\ "cleared" \notin seen
                 /\ http'.view = "stale" => http.view = "stale"
                 /\ Endures(r, http', site', deaths)
                 /\ "failed" \in seen' => deaths > 1
    PROVE  SessionInv'
<1>1. conv'[c] = r /\ \A d \in Callers \ {c} : conv'[d] = conv[d]  BY OthersStay
<1>2. \A d \in Callers \ {c} : conv'[d].pc \notin Requests \union {"start"} /\ conv[d] \in ConvSet
  BY <1>1 DEF Alone, Works, LockInv
<1>3. Believed'
  <2>1. NoneIs({"clear", "restore"})' => Still(c) /\ r.pc \notin {"clear", "restore"}
    BY <1>1 DEF NoneIs, Still
  <2>2. NoneIs({"card"})' => r.pc # "card"  BY <1>1 DEF NoneIs
  <2> QED  BY <2>1, <2>2 DEF Session, Believed
<1>4. Relied'
  <2> SUFFICES ASSUME NEW d \in Callers PROVE ReliesOn(conv'[d], http', site')  BY DEF Relied
  <2>1. CASE d = c  BY <1>1, <2>1
  <2>2. CASE d # c  BY <1>2, <2>2 DEF ReliesOn, Requests
  <2> QED  BY <2>1, <2>2
<1>5. ASSUME "cleared" \notin seen' PROVE Survives'
  <2>1. Survives  BY <1>5 DEF SessionInv
  <2>2. ASSUME NEW d \in Callers PROVE Endures(conv'[d], http', site', deaths')
    <3>1. CASE d = c  BY <1>1, <1>5, <3>1
    <3>2. CASE d # c
      <4>1. conv'[d] = conv[d] /\ Endures(conv[d], http, site, deaths)
        BY <1>1, <2>1, <3>2 DEF Survives
      <4>2. conv[d].op # "open"
        BY <1>1, <1>2, <3>2 DEF LockInv, GoodConv, ScriptOf, Requests
      <4>3. conv[d].pc \notin Requests  BY <1>1, <1>2, <3>2
      <4> QED  BY <1>5, <4>1, <4>2, <4>3 DEF Endures
    <3> QED  BY <3>1, <3>2
  <2> QED  BY <1>5, <2>1, <2>2 DEF Survives
<1> QED  BY <1>3, <1>4, <1>5 DEF SessionInv

\* What is so of call c at work, in an order nobody disturbs.
LEMMA AloneSees ==
    ASSUME LockInv, SessionInv, NEW c \in Callers, Alone(c)
    PROVE  /\ Session(http, site, breaks, Still(c) /\ conv[c].pc \notin {"clear", "restore"},
                      conv[c].pc # "card")
           /\ ReliesOn(conv[c], http, site)
           /\ "cleared" \notin seen => Endures(conv[c], http, site, deaths)
<1>1. Still(c) /\ conv[c].pc \notin {"clear", "restore"} => NoneIs({"clear", "restore"})
  BY DEF Still, NoneIs, Alone, Works, Requests
<1>2. conv[c].pc # "card" => NoneIs({"card"})  BY DEF NoneIs, Alone, Works, Requests
<1> QED  BY <1>1, <1>2 DEF SessionInv, Believed, Relied, Survives, Session
----------------------------------------------------------------------------
\* A call that reads the second page, that seeks the next term, that opens its card.
LEMMA SecondPage ==
    ASSUME NEW r \in ConvSet, NEW n, n = [r EXCEPT !.at = 2, !.try = 1]
    PROVE  /\ n \in ConvSet /\ n.try = 1 /\ n.script = r.script /\ n.whole = r.whole
           /\ n.op = r.op /\ n.want = r.want
<1>1. {1, 2} \subseteq Pages /\ 1 \in 1..2  BY DEF Pages
<1> QED  BY <1>1 DEF ConvSet

Seeks(r, t) == [r EXCEPT !.want = t, !.at = 1, !.try = 1]

LEMMA NextTerm ==
    ASSUME NEW r \in ConvSet, NEW t \in Word
    PROVE  /\ Seeks(r, t) \in ConvSet /\ Seeks(r, t).try = 1 /\ Seeks(r, t).script = r.script
           /\ Seeks(r, t).whole = r.whole /\ Seeks(r, t).op = r.op /\ Seeks(r, t).want = t
<1>1. {1, 2} \subseteq Pages /\ 1 \in 1..2  BY DEF Pages
<1> QED  BY <1>1 DEF ConvSet, Seeks

LEMMA ToTheCard ==
    ASSUME NEW r \in ConvSet, NEW n, n = [r EXCEPT !.op = "open", !.pc = "start", !.try = 1]
    PROVE  /\ n \in ConvSet /\ n.try = 1 /\ n.script = r.script /\ n.whole = r.whole
           /\ n.op = "open" /\ n.pc = "start" /\ n.want = r.want /\ n.at = r.at
           /\ n.holds = r.holds
<1>1. 1 \in 1..2  OBVIOUS
<1> QED  BY <1>1 DEF ConvSet

\* A call whose table has come: it goes on to its card, reads on, or ends.

Answered(c, r) ==
    /\ r.pc \in {"start", "wait", "idle", "clear"} /\ r.try = 1 /\ r.whole \in {1, conv[c].whole}
    /\ r.op = "open" => conv[c].script = "card" /\ r.at = conv[c].at
    /\ r.pc = "start" => r.op = "open"
Faults(c, t) ==
    (IF t.filter = conv[c].want /\ t.page = conv[c].at THEN {} ELSE {"mistaken"})
    \union (IF Usable(t) THEN {} ELSE {"poisoned"})

LEMMA NextReads ==
    ASSUME LockInv, NEW c \in Callers, Works(c), NEW next \in NextRead(conv[c])
    PROVE  /\ next \in ConvSet /\ GoodConv(Waiting(next)) /\ next.try = 1
           /\ Waiting(next).pc = "wait" /\ Waiting(next).op = "filtered"
           /\ Waiting(next).try = 1 /\ Waiting(next).whole = conv[c].whole
<1> DEFINE r == conv[c]
<1>1. r \in ConvSet /\ GoodConv(r) /\ r.script = "find" /\ r.op = "filtered"
  BY DEF LockInv, NextRead, GoodConv, ScriptOf
<1>2. \A t \in Following(r.want) : t \in Criteria /\ t # NoFilter
  <2> SUFFICES ASSUME NEW i \in {j \in 1..(Len(Terms) - 1) : Terms[j] = r.want}
               PROVE  Terms[i + 1] \in Criteria /\ Terms[i + 1] # NoFilter
    BY DEF Following
  <2>1. Len(Terms) \in Nat /\ DOMAIN Terms = 1..Len(Terms)  BY ButbBounds
  <2>2. i + 1 \in DOMAIN Terms  BY <2>1
  <2> QED  BY <2>2, ButbBounds DEF Criteria
<1> HIDE DEF r
<1>3. \/ next = [r EXCEPT !.at = 2, !.try = 1]
      \/ \E t \in Following(r.want) : next = Seeks(r, t)
  BY <1>1 DEF NextRead, Seeks, r
<1>4. CASE next = [r EXCEPT !.at = 2, !.try = 1]
  <2>1. next \in ConvSet /\ next.try = 1 /\ next.op = "filtered" /\ next.script = "find"
        /\ next.want = r.want /\ next.whole = r.whole
    BY <1>1, <1>4, SecondPage
  <2> QED  BY <1>1, <2>1 DEF GoodConv, ScriptOf, Waiting, ConvSet, r
<1>5. ASSUME NEW t \in Following(r.want), next = Seeks(r, t)
      PROVE  /\ next \in ConvSet /\ next.try = 1 /\ next.op = "filtered" /\ next.script = "find"
             /\ next.want # NoFilter /\ next.whole = r.whole
  <2>1. t \in Word /\ t # NoFilter  BY <1>2 DEF Word
  <2> QED  BY <1>1, <1>5, <2>1, NextTerm
<1>6. CASE \E t \in Following(r.want) : next = Seeks(r, t)
  <2>1. /\ next \in ConvSet /\ next.try = 1 /\ next.op = "filtered" /\ next.script = "find"
        /\ next.want # NoFilter /\ next.whole = r.whole
    BY <1>5, <1>6
  <2> QED  BY <1>1, <2>1 DEF GoodConv, ScriptOf, Waiting, ConvSet, r
<1> QED  BY <1>3, <1>4, <1>6

LEMMA Answering ==
    ASSUME LockInv, NEW c \in Callers, Works(c), NEW h, NEW t, Answers(c, h, t),
           "barged" \notin seen => Still(c)
    PROVE  /\ LockInv' /\ http' = Succeeded(h)
           /\ "barged" \notin seen' =>
                 /\ seen' \subseteq seen \union Faults(c, t)
                 /\ \E r : conv' = [conv EXCEPT ![c] = r] /\ Answered(c, r)
<1> DEFINE r   == conv[c]
           why == IF t.filter = conv[c].want /\ t.page = conv[c].at THEN {} ELSE {"mistaken"}
           open == [r EXCEPT !.op = "open", !.pc = "start", !.try = 1]
<1>1. r \in ConvSet /\ GoodConv(r)  BY DEF LockInv
<1>2. /\ why \in SUBSET Marks /\ why \union {"poisoned"} \in SUBSET Marks
      /\ "barged" \notin why /\ why \subseteq Faults(c, t)
      /\ ~ Usable(t) => why \union {"poisoned"} \subseteq Faults(c, t)
  BY DEF Marks, Faults
<1>3. http' = Succeeded(h)  BY DEF Answers
<1>4. \/ ~ Usable(t) /\ Ends(c, why \union {"poisoned"})
      \/ r.script = "card" /\ Goes(c, open, why)
      \/ Ends(c, why)
      \/ \E next \in NextRead(r) : Serialized(c, next, Left(c), Released(c), why)
  BY DEF Answers
<1>5. Answered(c, Ended(c))  BY EndsWell DEF Answered
<1> HIDE DEF r, why
<1>6. CASE ~ Usable(t) /\ Ends(c, why \union {"poisoned"})
  <2>1. /\ LockInv' /\ conv' = [conv EXCEPT ![c] = Ended(c)]
        /\ seen' = seen \union (why \union {"poisoned"})
    BY <1>2, <1>6, Finishing
  <2> QED  BY <1>2, <1>3, <1>5, <1>6, <2>1
<1>7. CASE Ends(c, why)
  <2>1. LockInv' /\ conv' = [conv EXCEPT ![c] = Ended(c)] /\ seen' = seen \union why
    BY <1>2, <1>7, Finishing
  <2> QED  BY <1>2, <1>3, <1>5, <2>1
<1>8. CASE r.script = "card" /\ Goes(c, open, why)
  <2>1. /\ open \in ConvSet /\ open.script = r.script /\ open.holds = r.holds
        /\ open.pc = "start" /\ open.op = "open" /\ open.try = 1 /\ open.whole = r.whole
        /\ open.at = r.at /\ open.want = r.want
    BY <1>1, ToTheCard
  <2>2. GoodConv(open)  BY <1>1, <1>8, <2>1 DEF GoodConv, ScriptOf
  <2> HIDE DEF open
  <2>3. LockInv'  BY <1>2, <1>8, <2>1, <2>2, GoingOn DEF r
  <2>4. conv' = [conv EXCEPT ![c] = open] /\ seen' = seen \union why  BY <1>8 DEF Goes
  <2>5. Answered(c, open)  BY <1>8, <2>1 DEF Answered, r
  <2> QED  BY <1>2, <1>3, <2>3, <2>4, <2>5
<1>9. CASE \E next \in NextRead(r) : Serialized(c, next, Left(c), Released(c), why)
  <2>1. PICK next \in NextRead(r) : Serialized(c, next, Left(c), Released(c), why)  BY <1>9
  <2>2. /\ next \in ConvSet /\ GoodConv(Waiting(next)) /\ next.try = 1
        /\ Waiting(next).pc = "wait" /\ Waiting(next).op = "filtered"
        /\ Waiting(next).try = 1 /\ Waiting(next).whole = conv[c].whole
    BY NextReads DEF r
  <2>3. Gone(c, Left(c), Released(c))  BY LeavingTheQueue
  <2>4. /\ LockInv'
        /\ "barged" \notin seen' => seen' = seen \union why /\ conv' = [conv EXCEPT ![c] = Waiting(next)]
    BY <1>2, <2>1, <2>2, <2>3, Queueing
  <2>5. Answered(c, Waiting(next))  BY <2>2 DEF Answered
  <2> QED  BY <1>2, <1>3, <2>4, <2>5
<1> QED  BY <1>4, <1>6, <1>7, <1>8, <1>9

LEMMA AnswersKeep ==
    ASSUME ButbInv, NEW c \in Callers, Works(c), NEW h \in HttpSet, Answers(c, h, site'),
           site' \in SiteSet, deaths' = deaths, breaks' = breaks,
           "barged" \notin seen =>
                 /\ Still(c) /\ h.view = "live" /\ Session(h, site', breaks, TRUE, TRUE)
                 /\ site'.filter = conv[c].want /\ site'.page = conv[c].at
                 /\ breaks = 0 => Usable(site')
                 /\ conv[c].script = "card" => ~ h.expanded /\ ~ h.card
    PROVE  ButbInv'
<1> USE DEF ButbInv
<1>1. /\ LockInv' /\ http' = Succeeded(h)
      /\ "barged" \notin seen' =>
            /\ seen' \subseteq seen \union Faults(c, site')
            /\ \E r : conv' = [conv EXCEPT ![c] = r] /\ Answered(c, r)
  BY Answering
<1>2. Counted' /\ Alike(http', h)  BY <1>1, HttpMoves DEF Counted
<1>3. ASSUME "barged" \notin seen' PROVE SessionInv'
  <2>1. "barged" \notin seen
    <3>1. seen \subseteq seen'  BY DEF Answers, Ends, Goes, Serialized
    <3> QED  BY <1>3, <3>1
  <2>2. SessionInv /\ Alone(c)  BY <2>1, OneWorks
  <2>3. PICK r : conv' = [conv EXCEPT ![c] = r] /\ Answered(c, r)  BY <1>1, <1>3
  <2>4. Session(http', site', breaks', Still(c) /\ r.pc \notin {"clear", "restore"}, r.pc # "card")
    BY <1>2, <2>1 DEF Session, Alike
  <2>5. ReliesOn(r, http', site')
    BY <1>2, <2>1, <2>3 DEF ReliesOn, Alike, Answered
  <2>6. "mistaken" \notin seen' /\ ("poisoned" \in seen' => breaks' > 0)
    <3>1. seen' \subseteq seen \union Faults(c, site') /\ "mistaken" \notin Faults(c, site')
      BY <1>1, <1>3, <2>1 DEF Faults
    <3>2. breaks = 0 => "poisoned" \notin Faults(c, site')  BY <2>1 DEF Faults
    <3>3. breaks # 0 => breaks > 0  BY DEF Counted
    <3> QED  BY <2>2, <3>1, <3>2, <3>3 DEF SessionInv
  <2>7. ASSUME "cleared" \notin seen'
        PROVE  /\ "cleared" \notin seen /\ http'.view # "stale"
               /\ Endures(r, http', site', deaths) /\ ("failed" \in seen' => deaths > 1)
    <3>1. /\ seen \subseteq seen' /\ seen' \subseteq seen \union Faults(c, site')
          /\ "failed" \notin Faults(c, site')
      BY <1>1, <1>3 DEF Answers, Ends, Goes, Serialized, Faults
    <3>2. Survives /\ Endures(conv[c], http, site, deaths)
      BY <2>2, <2>7, <3>1 DEF SessionInv, Survives
    <3>3. conv[c].script = "card" => conv[c].want = NoFilter
      BY DEF LockInv, GoodConv, ScriptOf
    <3>4. Endures(r, http', site', deaths)
      BY <1>2, <2>1, <2>3, <3>2, <3>3 DEF Endures, Alike, Answered, Requests
    <3> QED  BY <1>2, <2>1, <2>7, <3>1, <3>2, <3>4 DEF Survives, Alike
  <2> QED  BY <2>2, <2>3, <2>4, <2>5, <2>6, <2>7, AloneStep
<1> QED  BY <1>1, <1>2, <1>3
----------------------------------------------------------------------------
\* A call that goes from one place of its operation to another.

At(r, p) == [r EXCEPT !.pc = p]
OnItsWay(op, p) ==
    \/ op = "registry" /\ p \in {"boot", "page"}
    \/ op = "filtered" /\ p \in {"boot", "expand", "submit", "restore", "page"}
    \/ op = "open" /\ p \in {"boot", "open", "card"}

LEMMA PlaceOnly ==
    ASSUME NEW r \in ConvSet, NEW p \in Requests \union {"start", "wait", "idle", "clear"}
    PROVE  /\ At(r, p) \in ConvSet /\ At(r, p).pc = p /\ At(r, p).script = r.script
           /\ At(r, p).op = r.op /\ At(r, p).want = r.want /\ At(r, p).at = r.at
           /\ At(r, p).holds = r.holds /\ At(r, p).try = r.try /\ At(r, p).whole = r.whole
BY DEF At, ConvSet

LEMMA MovesOn ==
    ASSUME LockInv, NEW c \in Callers, Works(c), NEW p, OnItsWay(conv[c].op, p),
           Continues(c, At(conv[c], p)),
           "barged" \notin seen /\ p = "restore" => Still(c)
    PROVE  LockInv' /\ conv' = [conv EXCEPT ![c] = At(conv[c], p)] /\ seen' = seen
<1>1. conv[c] \in ConvSet /\ GoodConv(conv[c])  BY DEF LockInv
<1>2. p \in Requests  BY DEF OnItsWay, Requests
<1>3. At(conv[c], p) \in ConvSet /\ GoodConv(At(conv[c], p))
  <2>1. GoodConv(At(conv[c], p))
    BY <1>1, <1>2, PlaceOnly DEF OnItsWay, GoodConv, ScriptOf, Requests
  <2> QED  BY <1>1, <1>2, <2>1, PlaceOnly
<1>4. "barged" \notin seen /\ conv[c].op = "open" => Still(c)
  BY DEF LockInv, Serial, Still
<1>5. Goes(c, At(conv[c], p), {})  BY DEF Continues
<1>6. LockInv'  BY <1>1, <1>2, <1>3, <1>4, <1>5, PlaceOnly, GoingOn
<1> QED  BY <1>5, <1>6 DEF Goes

LEMMA AfterIs ==
    ASSUME NEW r, NEW h
    PROVE  /\ r.op = "registry" => After(r, h) = "page"
           /\ r.op = "open" => After(r, h) = "open"
           /\ r.op = "filtered" => /\ After(r, h) \in {"page", "submit", "expand"}
                                   /\ After(r, h) = "page" => h.applied = r.want
                                   /\ After(r, h) = "submit" => h.expanded
                                   /\ After(r, h) = "expand" => ~ h.expanded
<1>1. CASE r.op = "registry"  BY <1>1 DEF After
<1>2. CASE r.op = "open"  BY <1>2 DEF After
<1>3. CASE r.op = "filtered"  BY <1>3 DEF After
<1>4. CASE r.op \notin {"registry", "open", "filtered"}  BY <1>4
<1> QED  BY <1>1, <1>2, <1>3, <1>4

LEMMA EnterKeeps ==
    ASSUME ButbInv, NEW c \in Callers, Enter(c)
    PROVE  ButbInv'
<1> USE DEF ButbInv, Enter
<1>1. LockInv' /\ Counted'  BY Entering DEF Counted
<1>2. ASSUME "barged" \notin seen' PROVE SessionInv'
  <2>1. SessionInv /\ Alone(c)  BY <1>2, OneWorks
  <2> DEFINE r == At(conv[c], "start")
  <2>2. conv' = [conv EXCEPT ![c] = r]  BY DEF At
  <2>3. conv[c] \in ConvSet /\ conv[c].op \in {"registry", "filtered"}
    BY DEF LockInv, GoodConv, ScriptOf
  <2>4. r.pc = "start" /\ r.op = conv[c].op /\ r.try = conv[c].try /\ r.whole = conv[c].whole
    BY <2>3, PlaceOnly
  <2> HIDE DEF r
  <2>5. /\ Session(http, site, breaks, Still(c) /\ conv[c].pc \notin {"clear", "restore"},
                   conv[c].pc # "card")
        /\ "cleared" \notin seen => Endures(conv[c], http, site, deaths)
    BY <2>1, AloneSees
  <2>6. Session(http', site', breaks', Still(c) /\ r.pc \notin {"clear", "restore"}, r.pc # "card")
    BY <2>4, <2>5 DEF Session
  <2>7. ReliesOn(r, http', site')  BY <2>3, <2>4 DEF ReliesOn
  <2>8. "cleared" \notin seen => Endures(r, http', site', deaths)
    BY <2>3, <2>4, <2>5 DEF Endures, Requests
  <2> QED  BY <2>1, <2>2, <2>6, <2>7, <2>8, AloneStep DEF SessionInv, Survives
<1> QED  BY <1>1, <1>2

LEMMA StartKeeps ==
    ASSUME ButbInv, NEW c \in Callers, Start(c)
    PROVE  ButbInv'
<1> USE DEF ButbInv
<1>1. Works(c) /\ conv[c] \in ConvSet /\ conv[c].op \in {"registry", "filtered", "open"}
  BY DEF Start, Works, LockInv, GoodConv, ScriptOf
<1>2. CASE http.open /\ conv[c].try = 1
  <2>1. /\ http' = http /\ Ends(c, {}) /\ deaths' = deaths /\ breaks' = breaks
        /\ site' = IF http.view = "live" THEN site ELSE Fresh
    BY <1>2 DEF Start, SiteKept
  <2>2. LockInv' /\ conv' = [conv EXCEPT ![c] = Ended(c)] /\ seen' = seen
    BY <1>1, <2>1, Finishing
  <2>3. Counted'  BY <2>1, FreshIsASite DEF Counted
  <2>4. ASSUME "barged" \notin seen' PROVE SessionInv'
    <3>1. SessionInv /\ Alone(c)  BY <1>1, <2>2, <2>4, OneWorks
    <3>2. Session(http, site, breaks, Still(c) /\ conv[c].pc \notin {"clear", "restore"},
                  conv[c].pc # "card")
      BY <3>1, AloneSees
    <3>3. Session(http', site', breaks', Still(c) /\ Ended(c).pc \notin {"clear", "restore"},
                  Ended(c).pc # "card")
      BY <2>1, <3>2 DEF Session, Start
    <3>4. ReliesOn(Ended(c), http', site') /\ Endures(Ended(c), http', site', deaths)
      BY EndsWell DEF ReliesOn, Endures, Requests
    <3> QED  BY <2>1, <2>2, <3>1, <3>3, <3>4, AloneStep DEF SessionInv, Survives
  <2> QED  BY <2>2, <2>3, <2>4
<1>3. CASE ~ (http.open /\ conv[c].try = 1)
  <2> DEFINE p == IF http'.view = "none" THEN "boot" ELSE After(conv[c], http')
             r == At(conv[c], p)
  <2>1. /\ http' = IF MustReset(conv[c].op) THEN Reset(http) ELSE http
        /\ Continues(c, r) /\ deaths' = deaths /\ breaks' = breaks
        /\ site' = IF http'.view = "live" THEN site ELSE Fresh
    BY <1>3 DEF Start, SiteKept, At
  <2>2. /\ OnItsWay(conv[c].op, p) /\ p # "restore"
        /\ p = "boot" <=> http'.view = "none"
        /\ conv[c].op = "registry" /\ http'.view # "none" => p = "page"
        /\ conv[c].op = "open" /\ http'.view # "none" => p = "open"
        /\ conv[c].op = "filtered" /\ http'.view # "none" =>
              /\ p \in {"page", "submit", "expand"}
              /\ p = "page" => http'.applied = conv[c].want
              /\ p = "submit" => http'.expanded
              /\ p = "expand" => ~ http'.expanded
    BY <1>1, AfterIs DEF OnItsWay
  <2> HIDE DEF p
  <2>3. LockInv' /\ conv' = [conv EXCEPT ![c] = r] /\ seen' = seen
    BY <1>1, <2>1, <2>2, MovesOn
  <2>4. Counted'  BY <2>1, FreshIsASite, HttpMoves DEF Counted
  <2>5. p \in Requests /\ r.pc = p /\ r.op = conv[c].op /\ r.want = conv[c].want
        /\ r.at = conv[c].at /\ r.try = conv[c].try /\ r.whole = conv[c].whole
    BY <1>1, <2>2, PlaceOnly DEF OnItsWay, Requests
  <2> HIDE DEF r
  <2>6. ASSUME "barged" \notin seen' PROVE SessionInv'
    <3>1. SessionInv /\ Alone(c)  BY <1>1, <2>3, <2>6, OneWorks
    <3>2. /\ Session(http, site, breaks, Still(c) /\ conv[c].pc \notin {"clear", "restore"},
                     conv[c].pc # "card")
          /\ ReliesOn(conv[c], http, site)
          /\ "cleared" \notin seen => Endures(conv[c], http, site, deaths)
      BY <3>1, AloneSees
    <3>3. CASE MustReset(conv[c].op)
      <4>1. /\ http'.view = "none" /\ ~ http'.card /\ ~ http'.expanded /\ http'.applied = NoFilter
            /\ site' = Fresh /\ p = "boot"
        BY <2>1, <2>2, <3>3, HttpMoves DEF Counted
      <4>2. Session(http', site', breaks', Still(c) /\ r.pc \notin {"clear", "restore"}, r.pc # "card")
        BY <4>1 DEF Session
      <4>3. ReliesOn(r, http', site')  BY <2>5, <4>1 DEF ReliesOn
      <4>4. "cleared" \notin seen => Endures(r, http', site', deaths)
        BY <2>5, <3>2, <3>3, <4>1 DEF Endures, MustReset, Start
      <4> QED  BY <2>1, <2>3, <3>1, <4>1, <4>2, <4>3, <4>4, AloneStep DEF SessionInv, Survives
    <3>4. CASE ~ MustReset(conv[c].op)
      <4>1. http' = http /\ site' = site  BY <2>1, <3>2, <3>4 DEF Session
      <4>2. Session(http', site', breaks', Still(c) /\ r.pc \notin {"clear", "restore"}, r.pc # "card")
        BY <2>1, <3>2, <4>1 DEF Session, Start
      <4>3. ReliesOn(r, http', site')
        BY <1>1, <2>2, <2>5, <3>2, <3>4, <4>1 DEF ReliesOn, MustReset, Start
      <4>4. "cleared" \notin seen => Endures(r, http', site', deaths)
        BY <2>2, <2>5, <3>2, <4>1 DEF Endures, Start, Requests
      <4> QED  BY <2>1, <2>3, <3>1, <4>1, <4>2, <4>3, <4>4, AloneStep DEF SessionInv, Survives
    <3> QED  BY <3>3, <3>4
  <2> QED  BY <2>3, <2>4, <2>6
<1> QED  BY <1>2, <1>3
LEMMA BootKeeps ==
    ASSUME ButbInv, NEW c \in Callers, Boot(c)
    PROVE  ButbInv'
<1> USE DEF ButbInv
<1> DEFINE h == IF Joined(c) THEN http ELSE [http EXCEPT !.view = "live", !.card = FALSE]
<1>1. Works(c) /\ conv[c] \in ConvSet /\ conv[c].op \in {"registry", "filtered", "open"}
      /\ conv[c].pc = "boot" /\ GoodConv(conv[c])
  BY DEF Boot, Works, Requests, LockInv, GoodConv, ScriptOf
<1>2. /\ deaths' = deaths /\ breaks' = breaks /\ site' = IF Joined(c) THEN site ELSE Fresh
      /\ Joined(c) \/ NetworkIsHeard
      /\ IF conv[c].op = "registry" /\ conv[c].at = 1 THEN Answers(c, h, Fresh)
         ELSE http' = h /\ Continues(c, [conv[c] EXCEPT !.pc = After(conv[c], h)])
  BY DEF Boot
<1>3. h \in HttpSet /\ site' \in SiteSet  BY <1>2, FreshIsASite DEF Counted, HttpSet
<1>4. ASSUME "barged" \notin seen
      PROVE  /\ SessionInv /\ Alone(c) /\ ~ Joined(c) /\ Still(c)
             /\ h.view = "live" /\ ~ h.card /\ ~ h.expanded /\ h.applied = NoFilter /\ site' = Fresh
             /\ http.view = "none" /\ ("cleared" \notin seen => Endures(conv[c], http, site, deaths))
  <2>1. SessionInv /\ Alone(c)  BY <1>1, <1>4, OneWorks
  <2>2. /\ Session(http, site, breaks, Still(c) /\ conv[c].pc \notin {"clear", "restore"},
                   conv[c].pc # "card")
        /\ ReliesOn(conv[c], http, site)
        /\ "cleared" \notin seen => Endures(conv[c], http, site, deaths)
    BY <2>1, AloneSees
  <2>3. http.view = "none" /\ ~ Joined(c)  BY <1>1, <2>2 DEF ReliesOn, Joined
  <2>4. Still(c)  BY <1>2, <2>3 DEF NetworkIsHeard, Still
  <2>5. h = [http EXCEPT !.view = "live", !.card = FALSE]  BY <2>3
  <2>6. h.view = "live" /\ ~ h.card /\ h.expanded = http.expanded /\ h.applied = http.applied
    BY <2>5 DEF Counted, HttpSet
  <2> HIDE DEF h
  <2>7. ~ http.expanded /\ http.applied = NoFilter  BY <2>2, <2>3 DEF Session
  <2> QED  BY <1>2, <2>1, <2>2, <2>3, <2>4, <2>6, <2>7
<1> HIDE DEF h
<1>5. "barged" \notin seen => Session(h, site', breaks, TRUE, TRUE)
  BY <1>4 DEF Session, Fresh
<1>6. CASE conv[c].op = "registry" /\ conv[c].at = 1
  <2>1. Answers(c, h, Fresh)  BY <1>2, <1>6
  <2>2. conv[c].want = NoFilter  BY <1>1, <1>6 DEF GoodConv
  <2>3. CASE "barged" \notin seen
    <3>1. site' = Fresh /\ Answers(c, h, site')  BY <1>4, <2>1, <2>3
    <3>2. site'.filter = conv[c].want /\ site'.page = conv[c].at /\ Usable(site')
      BY <1>6, <2>2, <3>1 DEF Fresh, Usable
    <3> QED  BY <1>1, <1>2, <1>3, <1>4, <1>5, <2>3, <3>1, <3>2, AnswersKeep
  <2>4. CASE "barged" \in seen
    <3>1. LockInv' /\ http' = Succeeded(h)  BY <1>1, <2>1, <2>4, Answering
    <3>2. seen \subseteq seen'  BY <2>1 DEF Answers, Ends, Goes, Serialized
    <3> QED  BY <1>2, <1>3, <2>4, <3>1, <3>2, HttpMoves DEF Counted
  <2> QED  BY <2>3, <2>4
<1>7. CASE ~ (conv[c].op = "registry" /\ conv[c].at = 1)
  <2> DEFINE p == After(conv[c], h)
             r == At(conv[c], p)
  <2>1. http' = h /\ Continues(c, r)  BY <1>2, <1>7 DEF At
  <2>2. /\ OnItsWay(conv[c].op, p) /\ p # "restore"
        /\ conv[c].op = "registry" => p = "page"
        /\ conv[c].op = "open" => p = "open"
        /\ conv[c].op = "filtered" =>
              /\ p \in {"page", "submit", "expand"}
              /\ p = "page" => h.applied = conv[c].want
              /\ p = "submit" => h.expanded
              /\ p = "expand" => ~ h.expanded
    BY <1>1, AfterIs DEF OnItsWay
  <2> HIDE DEF p
  <2>3. LockInv' /\ conv' = [conv EXCEPT ![c] = r] /\ seen' = seen
    BY <1>1, <2>1, <2>2, MovesOn
  <2>4. p \in Requests /\ r.pc = p /\ r.op = conv[c].op /\ r.want = conv[c].want
        /\ r.at = conv[c].at /\ r.try = conv[c].try /\ r.whole = conv[c].whole
    BY <1>1, <2>2, PlaceOnly DEF OnItsWay, Requests
  <2> HIDE DEF r
  <2>5. Counted'  BY <1>2, <1>3, <2>1 DEF Counted
  <2>6. ASSUME "barged" \notin seen' PROVE SessionInv'
    <3>1. "barged" \notin seen  BY <2>3, <2>6
    <3>2. Session(http', site', breaks', Still(c) /\ r.pc \notin {"clear", "restore"}, r.pc # "card")
      BY <1>2, <1>5, <2>1, <3>1 DEF Session
    <3>3. ReliesOn(r, http', site')
      BY <1>1, <1>4, <2>1, <2>2, <2>4, <3>1 DEF ReliesOn, GoodConv
    <3>4. "cleared" \notin seen => Endures(r, http', site', deaths)
      BY <1>1, <1>4, <2>1, <2>4, <3>1 DEF Endures
    <3> QED  BY <1>2, <1>4, <2>1, <2>3, <3>1, <3>2, <3>3, <3>4, AloneStep DEF SessionInv, Survives
  <2> QED  BY <2>3, <2>5, <2>6
<1> QED  BY <1>6, <1>7

\* A call whose request is served by the session the client believes in.
LEMMA ServedSees ==
    ASSUME ButbInv, NEW c \in Callers, Served(c)
    PROVE  /\ Works(c) /\ conv[c] \in ConvSet /\ GoodConv(conv[c])
           /\ deaths' = deaths /\ breaks' = breaks /\ Still(c)
           /\ site' = Moved(conv[c]) /\ site' \in SiteSet /\ http \in HttpSet
           /\ Recognized(conv[c]) /\ http.view = "live"
           /\ "barged" \notin seen =>
                 /\ SessionInv /\ Alone(c)
                 /\ Session(http, site, breaks, conv[c].pc # "restore", conv[c].pc # "card")
                 /\ ReliesOn(conv[c], http, site)
                 /\ "cleared" \notin seen => Endures(conv[c], http, site, deaths)
<1> USE DEF ButbInv
<1>1. Works(c) /\ conv[c] \in ConvSet /\ GoodConv(conv[c])  BY DEF Served, Works, LockInv
<1>2. Still(c)  BY DEF Served, NetworkIsHeard, Still
<1>3. site' = Moved(conv[c]) /\ site' \in SiteSet  BY <1>1, SiteMoves DEF Served, Counted
<1>4. ASSUME "barged" \notin seen
      PROVE  /\ SessionInv /\ Alone(c)
             /\ Session(http, site, breaks, conv[c].pc # "restore", conv[c].pc # "card")
             /\ ReliesOn(conv[c], http, site)
             /\ "cleared" \notin seen => Endures(conv[c], http, site, deaths)
  <2>1. SessionInv /\ Alone(c)  BY <1>1, <1>4, OneWorks
  <2>2. conv[c].pc # "clear"  BY <1>1 DEF Works, Requests
  <2>3. /\ Session(http, site, breaks, Still(c) /\ conv[c].pc \notin {"clear", "restore"},
                   conv[c].pc # "card")
        /\ ReliesOn(conv[c], http, site)
        /\ "cleared" \notin seen => Endures(conv[c], http, site, deaths)
    BY <2>1, AloneSees
  <2> QED  BY <1>2, <2>1, <2>2, <2>3 DEF Session
<1> QED  BY <1>1, <1>2, <1>3, <1>4 DEF Served, Recognized, Counted

\* A request that leads its call to another place.
LEMMA ServedMoves ==
    ASSUME ButbInv, NEW c \in Callers, Served(c), NEW p, OnItsWay(conv[c].op, p), p # "boot",
           Continues(c, At(conv[c], p)), http' \in HttpSet, http'.view = "live",
           "barged" \notin seen =>
                 /\ Session(http', site', breaks, p # "restore", p # "card")
                 /\ ReliesOn(At(conv[c], p), http', site')
                 /\ conv[c].op = "open" => p = "card"
    PROVE  ButbInv'
<1> USE DEF ButbInv
<1> DEFINE r == At(conv[c], p)
<1>1. /\ Works(c) /\ conv[c] \in ConvSet /\ deaths' = deaths /\ breaks' = breaks /\ Still(c)
      /\ site' \in SiteSet
  BY ServedSees
<1>2. LockInv' /\ conv' = [conv EXCEPT ![c] = r] /\ seen' = seen  BY <1>1, MovesOn
<1>3. Counted'  BY <1>1 DEF Counted
<1>4. p \in Requests /\ r.pc = p /\ r.op = conv[c].op /\ r.try = conv[c].try /\ r.whole = conv[c].whole
  BY <1>1, PlaceOnly DEF OnItsWay, Requests
<1>5. ASSUME "barged" \notin seen' PROVE SessionInv'
  <2>1. /\ SessionInv /\ Alone(c) /\ "barged" \notin seen
        /\ "cleared" \notin seen => Endures(conv[c], http, site, deaths)
    BY <1>2, <1>5, ServedSees
  <2>2. ReliesOn(r, http', site')  BY <2>1
  <2> HIDE DEF r
  <2>3. Session(http', site', breaks', Still(c) /\ r.pc \notin {"clear", "restore"}, r.pc # "card")
    BY <1>1, <1>4, <2>1 DEF Session
  <2>4. "cleared" \notin seen => Endures(r, http', site', deaths)
    BY <1>4, <2>1 DEF Endures
  <2> QED  BY <1>1, <1>2, <2>1, <2>2, <2>3, <2>4, AloneStep DEF SessionInv, Survives
<1> QED  BY <1>2, <1>3, <1>5
LEMMA ServedKeeps ==
    ASSUME ButbInv, NEW c \in Callers, Served(c)
    PROVE  ButbInv'
<1> DEFINE r == conv[c]
<1>1. /\ Works(c) /\ r \in ConvSet /\ GoodConv(r)
      /\ deaths' = deaths /\ breaks' = breaks /\ Still(c)
      /\ site' = Moved(r) /\ site' \in SiteSet /\ http \in HttpSet
      /\ Recognized(r) /\ http.view = "live"
      /\ "barged" \notin seen =>
            /\ Session(http, site, breaks, r.pc # "restore", r.pc # "card")
            /\ ReliesOn(r, http, site)
            /\ "cleared" \notin seen => Endures(r, http, site, deaths)
  BY ServedSees
<1>2. site \in SiteSet /\ breaks \in Nat  BY DEF ButbInv, Counted
<1>3. r.op \in {"registry", "filtered", "open"}  BY <1>1 DEF GoodConv, ScriptOf, Works, Requests
<1>4. CASE Page(c)
  <2>1. r.pc = "page" /\ Answers(c, http, site')  BY <1>4 DEF Page
  <2>2. site' = [site EXCEPT !.page = r.at]  BY <1>1, <2>1 DEF Moved
  <2>3. /\ site'.page = r.at /\ site'.filter = site.filter /\ site'.panel = site.panel
        /\ site'.degraded = site.degraded
    BY <1>2, <2>2 DEF SiteSet
  <2> HIDE DEF r
  <2>4. ASSUME "barged" \notin seen
        PROVE  /\ Session(http, site', breaks, TRUE, TRUE) /\ site'.filter = r.want
               /\ breaks = 0 => Usable(site')
               /\ r.script = "card" => ~ http.expanded /\ ~ http.card
    <3>1. Session(http, site', breaks, TRUE, TRUE)
      BY <1>1, <2>1, <2>3, <2>4 DEF Session
    <3>2. CASE r.op = "filtered"
      <4>1. http.applied = r.want /\ r.want # NoFilter /\ r.script # "card"
        BY <1>1, <2>1, <2>4, <3>2 DEF ReliesOn, GoodConv, ScriptOf
      <4> QED  BY <1>1, <3>1, <4>1 DEF Session, Usable
    <3>3. CASE r.op # "filtered"
      <4>1. ~ http.expanded /\ ~ http.card /\ r.want = NoFilter
        BY <1>1, <1>3, <2>1, <2>4, <3>3 DEF ReliesOn, GoodConv
      <4> QED  BY <1>1, <3>1, <4>1 DEF Session, Usable
    <3> QED  BY <3>1, <3>2, <3>3
  <2> QED  BY <1>1, <2>1, <2>3, <2>4, AnswersKeep DEF r
<1>5. CASE Expand(c)
  <2>1. r.pc = "expand" /\ r.op = "filtered" /\ http' = [http EXCEPT !.expanded = TRUE]
        /\ Continues(c, At(r, "submit"))
    BY <1>1, <1>5 DEF Expand, At, GoodConv, ScriptOf
  <2>2. site' = [site EXCEPT !.panel = TRUE, !.degraded = TRUE]  BY <1>1, <2>1 DEF Moved
  <2>3. http' \in HttpSet /\ http'.view = "live" /\ http'.expanded /\ http'.applied = http.applied
    BY <1>1, <2>1 DEF HttpSet
  <2>4. site'.panel /\ OnItsWay(r.op, "submit")  BY <1>2, <2>1, <2>2 DEF SiteSet, OnItsWay
  <2>5. At(r, "submit").pc = "submit" /\ At(r, "submit").op = "filtered"
    BY <1>1, <2>1, PlaceOnly DEF Requests
  <2> HIDE DEF r
  <2>6. ASSUME "barged" \notin seen
        PROVE  Session(http', site', breaks, TRUE, TRUE) /\ ReliesOn(At(r, "submit"), http', site')
    <3>1. http.applied = NoFilter  BY <1>1, <2>1, <2>6 DEF Session, ReliesOn
    <3> QED  BY <2>3, <2>4, <2>5, <3>1 DEF Session, ReliesOn
  <2>7. "barged" \notin seen => Session(http', site', breaks, "submit" # "restore", "submit" # "card")
    BY <2>6 DEF Session
  <2> QED  BY <2>1, <2>3, <2>4, <2>6, <2>7, ServedMoves DEF r
<1>6. ASSUME Searched(c), r.op = "filtered",
             site'.filter = r.want, site'.page = 1, site'.panel,
             ~ site'.degraded \/ r.want \in Barren, http.expanded \/ "barged" \in seen
      PROVE  ButbInv'
  <2> DEFINE h == [http EXCEPT !.applied = r.want, !.card = FALSE]
  <2>1. r.want \in Word /\ r.want # NoFilter /\ r.script = "find"
    BY <1>1, <1>6 DEF GoodConv, ScriptOf, ConvSet
  <2>2. IF r.at = 1 THEN Answers(c, h, site')
        ELSE http' = h /\ Continues(c, At(r, "page"))
    BY <1>6 DEF Searched, At
  <2> HIDE DEF r
  <2>3. h \in HttpSet /\ h.view = "live" /\ h.applied = r.want /\ h.expanded = http.expanded
    BY <1>1, <2>1 DEF HttpSet
  <2> HIDE DEF h
  <2>4. "barged" \notin seen => Session(h, site', breaks, TRUE, TRUE)
    BY <1>6, <2>3 DEF Session
  <2>5. CASE r.at = 1
    <3>1. Usable(site')  BY <1>6 DEF Usable
    <3> QED  BY <1>1, <1>6, <2>1, <2>2, <2>3, <2>4, <2>5, <3>1, AnswersKeep DEF r
  <2>6. CASE r.at # 1
    <3>1. http' = h /\ Continues(c, At(r, "page"))  BY <2>2, <2>6
    <3>2. OnItsWay(r.op, "page")  BY <1>6 DEF OnItsWay
    <3>3. At(r, "page").pc = "page" /\ At(r, "page").op = "filtered" /\ At(r, "page").want = r.want
      BY <1>1, <1>6, PlaceOnly DEF Requests
    <3>4. ReliesOn(At(r, "page"), http', site')  BY <2>3, <3>1, <3>3 DEF ReliesOn
    <3>5. "barged" \notin seen => Session(http', site', breaks, "page" # "restore", "page" # "card")
      BY <2>4, <3>1 DEF Session
    <3>6. r.op # "open"  BY <1>6
    <3> QED  BY <2>3, <3>1, <3>2, <3>4, <3>5, <3>6, ServedMoves DEF r
  <2> QED  BY <2>5, <2>6
<1>7. CASE SubmitSearch(c)
  <2>1. r.pc = "submit" /\ r.op = "filtered" /\ site.panel
    BY <1>1, <1>7 DEF SubmitSearch, GoodConv, ScriptOf, Recognized
  <2>2. site' = [site EXCEPT !.filter = r.want, !.page = 1, !.degraded = TRUE]
    BY <1>1, <2>1 DEF Moved
  <2>3. site'.filter = r.want /\ site'.page = 1 /\ site'.panel  BY <1>2, <2>1, <2>2 DEF SiteSet
  <2>4. http.expanded \/ "barged" \in seen  BY <1>1, <2>1 DEF ReliesOn
  <2>5. CASE r.want \in Barren
    <3>1. Searched(c)  BY <1>7, <2>5 DEF SubmitSearch
    <3> QED  BY <1>6, <2>1, <2>3, <2>4, <2>5, <3>1
  <2>6. CASE r.want \notin Barren
    <3>1. Continues(c, At(r, "restore")) /\ http' = http  BY <1>7, <2>6 DEF SubmitSearch, At
    <3>2. OnItsWay(r.op, "restore")  BY <2>1 DEF OnItsWay
    <3>3. /\ At(r, "restore").pc = "restore" /\ At(r, "restore").op = "filtered"
          /\ At(r, "restore").want = r.want
      BY <1>1, <2>1, PlaceOnly DEF Requests
    <3> HIDE DEF r
    <3>4. "barged" \notin seen => ReliesOn(At(r, "restore"), http', site')
      BY <2>3, <2>4, <3>1, <3>3 DEF ReliesOn
    <3>5. "barged" \notin seen =>
             Session(http', site', breaks, "restore" # "restore", "restore" # "card")
      BY <1>1, <2>3, <2>4, <3>1 DEF Session
    <3>6. r.op # "open"  BY <2>1
    <3> QED  BY <1>1, <3>1, <3>2, <3>4, <3>5, <3>6, ServedMoves DEF r
  <2> QED  BY <2>5, <2>6
<1>8. CASE Restore(c)
  <2>1. r.pc = "restore" /\ r.op = "filtered" /\ site.panel /\ Searched(c)
    BY <1>1, <1>8 DEF Restore, GoodConv, ScriptOf, Recognized
  <2>2. site' = [site EXCEPT !.degraded = FALSE]  BY <1>1, <2>1 DEF Moved
  <2>3. site'.filter = site.filter /\ site'.page = site.page /\ site'.panel /\ ~ site'.degraded
    BY <1>2, <2>1, <2>2 DEF SiteSet
  <2>4. CASE "barged" \notin seen
    <3>1. site.filter = r.want /\ site.page = 1 /\ http.expanded  BY <1>1, <2>1, <2>4 DEF ReliesOn
    <3> QED  BY <1>6, <2>1, <2>3, <3>1
  <2>5. CASE "barged" \in seen
    <3> DEFINE h == [http EXCEPT !.applied = r.want, !.card = FALSE]
    <3>1. IF r.at = 1 THEN Answers(c, h, site') ELSE http' = h /\ Continues(c, At(r, "page"))
      BY <2>1 DEF Searched, At
    <3>2. r.want \in Word  BY <1>1 DEF ConvSet
    <3> HIDE DEF r
    <3>3. h \in HttpSet /\ h.view = "live"  BY <1>1, <3>2 DEF HttpSet
    <3> HIDE DEF h
    <3>4. CASE r.at = 1  BY <1>1, <2>5, <3>1, <3>3, <3>4, AnswersKeep DEF r
    <3>5. CASE r.at # 1
      <4>1. OnItsWay(r.op, "page")  BY <2>1 DEF OnItsWay
      <4> QED  BY <2>5, <3>1, <3>3, <3>5, <4>1, ServedMoves DEF r
    <3> QED  BY <3>4, <3>5
  <2> QED  BY <2>4, <2>5
<1>9. CASE OpenCard(c)
  <2>1. r.pc = "open" /\ r.op = "open" /\ Resolves(r) /\ Continues(c, At(r, "card")) /\ http' = http
    BY <1>1, <1>9 DEF OpenCard, GoodConv, ScriptOf, Recognized, At
  <2>2. site' = [site EXCEPT !.degraded = TRUE]  BY <1>1, <2>1 DEF Moved
  <2>3. site'.filter = NoFilter  BY <1>2, <2>1, <2>2 DEF SiteSet, Resolves
  <2>4. OnItsWay(r.op, "card")  BY <2>1 DEF OnItsWay
  <2>5. At(r, "card").pc = "card" /\ At(r, "card").op = "open"  BY <1>1, <2>1, PlaceOnly DEF Requests
  <2> HIDE DEF r
  <2>6. ASSUME "barged" \notin seen
        PROVE  /\ Session(http', site', breaks, "card" # "restore", "card" # "card")
               /\ ReliesOn(At(r, "card"), http', site')
    <3>1. ~ http.expanded /\ ~ http.card /\ http.applied = NoFilter
      BY <1>1, <2>1, <2>6 DEF Session, ReliesOn
    <3> QED  BY <1>1, <2>1, <2>3, <2>5, <3>1 DEF Session, ReliesOn
  <2> QED  BY <1>1, <2>1, <2>4, <2>6, ServedMoves DEF r
<1>10. CASE Card(c)
  <2> DEFINE h == [http EXCEPT !.card = TRUE]
  <2>1. r.pc = "card" /\ r.op = "open" /\ http' = Succeeded(h) /\ Ends(c, {})
    BY <1>1, <1>10 DEF Card, GoodConv, ScriptOf
  <2>2. site' = site  BY <1>1, <2>1 DEF Moved
  <2>3. /\ h \in HttpSet /\ h.view = "live" /\ h.card /\ h.expanded = http.expanded
        /\ h.applied = http.applied
    BY <1>1 DEF HttpSet
  <2> HIDE DEF h, r
  <2>4. http' \in HttpSet /\ Alike(http', h)  BY <2>1, <2>3, HttpMoves
  <2>5. LockInv' /\ conv' = [conv EXCEPT ![c] = Ended(c)] /\ seen' = seen
    BY <1>1, <2>1, Finishing DEF ButbInv
  <2>6. Counted'  BY <1>1, <2>4 DEF Counted, ButbInv
  <2>7. ASSUME "barged" \notin seen' PROVE SessionInv'
    <3>1. SessionInv /\ Alone(c)  BY <2>5, <2>7, ServedSees
    <3>2. Session(http', site', breaks', Still(c) /\ Ended(c).pc \notin {"clear", "restore"},
                  Ended(c).pc # "card")
      BY <1>1, <2>1, <2>2, <2>3, <2>4, <2>5, <2>7 DEF Session, Alike
    <3>3. ReliesOn(Ended(c), http', site') /\ Endures(Ended(c), http', site', deaths)
      BY EndsWell DEF ReliesOn, Endures, Requests, ButbInv
    <3> QED  BY <1>1, <2>3, <2>4, <2>5, <3>1, <3>2, <3>3, AloneStep DEF SessionInv, Survives, Alike, ButbInv
  <2> QED  BY <2>5, <2>6, <2>7 DEF ButbInv
<1> QED  BY <1>4, <1>5, <1>7, <1>8, <1>9, <1>10 DEF Served
\* A call that ends, whatever it has done to the session.
LEMMA EndingKeeps ==
    ASSUME ButbInv, NEW c \in Callers, Works(c), NEW why \in SUBSET {"failed"}, Ends(c, why),
           http' \in HttpSet, site' \in SiteSet, deaths' = deaths, breaks' \in Nat,
           "poisoned" \in seen => (breaks > 0 => breaks' > 0),
           "barged" \notin seen /\ SessionInv /\ Alone(c) =>
                 /\ Session(http', site', breaks', Still(c) /\ Ended(c).pc # "clear", TRUE)
                 /\ "cleared" \notin seen =>
                       /\ http'.view = "stale" => http.view = "stale"
                       /\ why = {} \/ deaths > 1
    PROVE  ButbInv'
<1> USE DEF ButbInv
<1>1. LockInv' /\ conv' = [conv EXCEPT ![c] = Ended(c)] /\ seen' = seen \union why
  <2>1. why \in SUBSET Marks  BY DEF Marks
  <2> QED  BY <2>1, Finishing
<1>2. Counted'  BY DEF Counted
<1>3. ASSUME "barged" \notin seen' PROVE SessionInv'
  <2>1. "barged" \notin seen /\ SessionInv /\ Alone(c)  BY <1>1, <1>3, OneWorks
  <2>2. Session(http', site', breaks', Still(c) /\ Ended(c).pc \notin {"clear", "restore"},
                Ended(c).pc # "card")
    BY <2>1 DEF Session
  <2>3. ReliesOn(Ended(c), http', site') /\ Endures(Ended(c), http', site', deaths)
    BY EndsWell DEF ReliesOn, Endures, Requests
  <2>4. "mistaken" \notin seen' /\ ("poisoned" \in seen' => breaks' > 0)
    BY <1>1, <2>1 DEF SessionInv
  <2>5. ASSUME "cleared" \notin seen'
        PROVE  /\ "cleared" \notin seen /\ (http'.view = "stale" => http.view = "stale")
               /\ "failed" \in seen' => deaths > 1
    BY <1>1, <2>1, <2>5 DEF SessionInv, Survives
  <2> QED  BY <1>1, <2>1, <2>2, <2>3, <2>4, <2>5, AloneStep
<1> QED  BY <1>1, <1>2, <1>3

LEMMA UnrecognizedKeeps ==
    ASSUME ButbInv, NEW c \in Callers, Unrecognized(c)
    PROVE  ButbInv'
<1> USE DEF ButbInv
<1> DEFINE r == conv[c]
<1>1. /\ Works(c) /\ r \in ConvSet /\ GoodConv(r) /\ r.pc \in Requests \ {"boot"}
      /\ ~ Recognized(r) /\ deaths' = deaths /\ breaks' = breaks /\ breaks \in Nat
      /\ http \in HttpSet /\ site \in SiteSet /\ deaths \in Nat
  BY DEF Unrecognized, Works, LockInv, Counted
<1>2. SiteKept /\ Still(c)  BY DEF Unrecognized, NetworkIsHeard, Still
<1>3. \/ r.pc = "expand" /\ http.view = "stale" /\ http' = Failed(http) /\ Ends(c, {})
      \/ r.pc = "card" /\ http' = Succeeded([http EXCEPT !.card = TRUE]) /\ Ends(c, {})
      \/ Expires(c)
  BY DEF Unrecognized
<1>4. ASSUME "barged" \notin seen
      PROVE  /\ SessionInv /\ Alone(c)
             /\ Session(http, site, breaks, r.pc # "restore", r.pc # "card")
             /\ ReliesOn(r, http, site)
             /\ "cleared" \notin seen => Endures(r, http, site, deaths) /\ Survives
  <2>1. SessionInv /\ Alone(c)  BY <1>1, <1>4, OneWorks
  <2>2. r.pc # "clear"  BY <1>1 DEF Requests
  <2>3. /\ Session(http, site, breaks, Still(c) /\ conv[c].pc \notin {"clear", "restore"},
                   conv[c].pc # "card")
        /\ ReliesOn(conv[c], http, site)
        /\ "cleared" \notin seen => Endures(conv[c], http, site, deaths)
    BY <2>1, AloneSees
  <2> QED  BY <1>2, <2>1, <2>2, <2>3 DEF Session, SessionInv
<1> HIDE DEF r
<1>5. CASE r.pc = "expand" /\ http.view = "stale" /\ http' = Failed(http) /\ Ends(c, {})
  <2>1. http' \in HttpSet /\ Alike(http', http) /\ site' = Fresh
    BY <1>1, <1>2, <1>5, HttpMoves DEF SiteKept, Alike
  <2>2. "barged" \notin seen => Session(http', site', breaks', TRUE, TRUE)
    BY <1>4, <1>5, <2>1 DEF Session, Alike
  <2>3. "barged" \notin seen => Session(http', site', breaks', Still(c) /\ Ended(c).pc # "clear", TRUE)
    BY <2>2 DEF Session
  <2> QED  BY <1>1, <1>5, <2>1, <2>3, FreshIsASite, EndingKeeps DEF Alike
<1>6. CASE r.pc = "card" /\ http' = Succeeded([http EXCEPT !.card = TRUE]) /\ Ends(c, {})
  <2> DEFINE h == [http EXCEPT !.card = TRUE]
  <2>1. h \in HttpSet /\ h.view = http.view /\ h.expanded = http.expanded /\ h.applied = http.applied
    BY <1>1 DEF HttpSet
  <2>2. http' = Succeeded(h)  BY <1>6
  <2> HIDE DEF h
  <2>3. http' \in HttpSet /\ Alike(http', h)  BY <2>1, <2>2, HttpMoves
  <2>4. http.view # "live"  BY <1>1, <1>6 DEF Recognized
  <2>5. site' = Fresh  BY <1>2, <2>1, <2>3, <2>4 DEF SiteKept, Alike
  <2>6. "barged" \notin seen => Session(http', site', breaks', Still(c) /\ Ended(c).pc # "clear", TRUE)
    BY <1>4, <2>1, <2>3, <2>4, <2>5 DEF Session, Alike
  <2> QED  BY <1>1, <1>6, <2>1, <2>3, <2>5, <2>6, FreshIsASite, EndingKeeps DEF Alike
<1>7. ASSUME "barged" \notin seen, "cleared" \notin seen, r.pc # "expand" \/ http.view # "stale"
      PROVE  /\ http.view = "stale" \/ r.try = 2
             /\ r.try = 2 /\ r.script # "card" => http.view = "stale"
  <2>1. http.view # "none"  BY <1>1, <1>4, <1>7 DEF Endures
  <2>2. CASE http.view = "live"
    <3>1. r.pc \in {"submit", "restore"} => site.panel
      BY <1>4, <1>7, <2>2 DEF Session, ReliesOn
    <3>2. r.pc = "open" /\ ~ Resolves(r)  BY <1>1, <2>2, <3>1 DEF Recognized
    <3>3. r.op = "open" /\ r.script = "card"  BY <1>1, <3>2 DEF GoodConv, ScriptOf
    <3>4. r.try # 1  BY <1>4, <1>7, <2>2, <3>2, <3>3 DEF Endures, Resolves
    <3>5. r.try = 2  BY <1>1, <3>4 DEF ConvSet
    <3> QED  BY <3>3, <3>5
  <2> QED  BY <1>1, <2>1, <2>2 DEF HttpSet
<1>8. CASE Expires(c) /\ (r.pc # "expand" \/ http.view # "stale")
  <2>1. CASE r.try = 1
    <3> DEFINE n == [r EXCEPT !.try = 2, !.pc = "start"]
    <3>1. http' = Reset(http) /\ Goes(c, n, {})  BY <1>8, <2>1 DEF Expires, Continues, r
    <3>2. /\ n \in ConvSet /\ n.pc = "start" /\ n.script = r.script /\ n.op = r.op /\ n.want = r.want
          /\ n.holds = r.holds /\ n.try = 2 /\ n.whole = r.whole
      <4>1. 2 \in 1..2  OBVIOUS
      <4> QED  BY <1>1, <4>1 DEF ConvSet
    <3> HIDE DEF n
    <3>3. GoodConv(n)  BY <1>1, <3>2 DEF GoodConv, ScriptOf, Requests
    <3>4. "barged" \notin seen /\ n.op = "open" => Still(c)  BY <1>2
    <3>5. LockInv'  BY <1>1, <3>1, <3>2, <3>3, <3>4, GoingOn DEF r
    <3>6. conv' = [conv EXCEPT ![c] = n] /\ seen' = seen  BY <3>1 DEF Goes
    <3>7. /\ http' \in HttpSet /\ http'.view = "none" /\ ~ http'.expanded /\ http'.applied = NoFilter
          /\ site' = Fresh
      BY <1>1, <1>2, <3>1, HttpMoves DEF SiteKept
    <3>8. Counted'  BY <1>1, <3>7, FreshIsASite DEF Counted
    <3>9. ASSUME "barged" \notin seen' PROVE SessionInv'
      <4>1. Session(http', site', breaks', Still(c) /\ n.pc \notin {"clear", "restore"}, n.pc # "card")
        BY <3>7 DEF Session
      <4>2. ReliesOn(n, http', site')  BY <3>2, <3>7 DEF ReliesOn
      <4>3. "cleared" \notin seen => Endures(n, http', site', deaths)
        <5> SUFFICES ASSUME "cleared" \notin seen PROVE Endures(n, http', site', deaths)  OBVIOUS
        <5>1. http.view = "stale"  BY <1>7, <1>8, <2>1, <3>6, <3>9
        <5>2. deaths > 0 /\ (deaths <= 1 => r.whole = 1)
          BY <1>4, <3>6, <3>9, <5>1 DEF Survives, Endures
        <5>3. n.whole = 2 => deaths > 1  BY <1>1, <3>2, <5>2
        <5> QED  BY <3>2, <3>7, <5>2, <5>3 DEF Endures, Requests
      <4> QED
        BY <1>1, <1>4, <3>6, <3>7, <3>9, <4>1, <4>2, <4>3, AloneStep DEF SessionInv, Survives
    <3> QED  BY <3>5, <3>8, <3>9
  <2>2. CASE r.try # 1
    <3>1. r.try = 2 /\ http' = Failed(http)  BY <1>1, <1>8, <2>2 DEF Expires, ConvSet, r
    <3>2. http' \in HttpSet /\ Alike(http', http)  BY <1>1, <3>1, HttpMoves
    <3>3. site' = IF http.view = "live" THEN site ELSE Fresh  BY <1>2, <3>2 DEF SiteKept, Alike
    <3>4. site' \in SiteSet  BY <1>1, <3>3, FreshIsASite
    <3>5. ASSUME "barged" \notin seen
          PROVE  Session(http', site', breaks', r.pc # "restore", r.pc # "card")
      BY <1>1, <1>4, <3>2, <3>3, <3>5 DEF Session, Alike
    <3>6. CASE LoadsAgain(c)
      <4> DEFINE n == [r EXCEPT !.op = "registry", !.try = 1, !.whole = 2]
      <4>1. Serialized(c, n, Left(c), Released(c), {}) /\ r.script = "card" /\ r.whole = 1
        BY <1>8, <2>2, <3>6 DEF Expires, LoadsAgain, r
      <4>2. /\ n \in ConvSet /\ n.script = "card" /\ n.op = "registry" /\ n.want = r.want
            /\ n.try = 1 /\ n.whole = 2 /\ n.pc = r.pc
        <5>1. 1 \in 1..2 /\ 2 \in 1..2  OBVIOUS
        <5> QED  BY <1>1, <4>1, <5>1 DEF ConvSet
      <4> HIDE DEF n
      <4>3. r.want = NoFilter  BY <1>1, <4>1 DEF GoodConv, ScriptOf
      <4>4. /\ Waiting(n).script = "card" /\ Waiting(n).op = "registry" /\ Waiting(n).want = r.want
            /\ Waiting(n).try = 1 /\ Waiting(n).whole = 2 /\ Waiting(n).pc = "wait"
        BY <4>2 DEF Waiting, ConvSet
      <4>5. GoodConv(Waiting(n))  BY <4>3, <4>4 DEF GoodConv, ScriptOf
      <4>6. /\ LockInv'
            /\ "barged" \notin seen' => seen' = seen /\ conv' = [conv EXCEPT ![c] = Waiting(n)]
        <5>1. Gone(c, Left(c), Released(c))  BY <1>1, LeavingTheQueue
        <5>2. {} \in SUBSET Marks /\ seen \union {} = seen  OBVIOUS
        <5> QED  BY <4>1, <4>2, <4>5, <5>1, <5>2, Queueing
      <4>7. Counted'  BY <1>1, <3>2, <3>4 DEF Counted
      <4>8. ASSUME "barged" \notin seen' PROVE SessionInv'
        <5>1. "barged" \notin seen /\ seen' = seen /\ conv' = [conv EXCEPT ![c] = Waiting(n)]
          BY <4>6, <4>8
        <5>2. SessionInv /\ Alone(c)  BY <1>4, <5>1
        <5>3. r.pc \in {"page", "open", "card"}
          BY <1>1, <4>1 DEF GoodConv, ScriptOf, Requests
        <5>4. r.pc = "card" => http.view # "live"  BY <1>1 DEF Recognized
        <5>5. Session(http', site', breaks', Still(c) /\ Waiting(n).pc \notin {"clear", "restore"},
                      Waiting(n).pc # "card")
          BY <3>2, <3>5, <5>1, <5>3, <5>4 DEF Session, Alike
        <5>6. ReliesOn(Waiting(n), http', site')  BY <4>4 DEF ReliesOn
        <5>7. "cleared" \notin seen => Endures(Waiting(n), http', site', deaths)
          BY <1>4, <3>1, <3>2, <4>4, <5>1 DEF Endures, Alike, Requests
        <5> QED
          BY <1>1, <3>2, <5>1, <5>2, <5>5, <5>6, <5>7, AloneStep DEF SessionInv, Survives, Alike
      <4> QED  BY <4>6, <4>7, <4>8
    <3>7. CASE ~ LoadsAgain(c)
      <4>1. Ends(c, {"failed"}) /\ (r.script # "card" \/ r.whole # 1)
        BY <1>8, <2>2, <3>7 DEF Expires, LoadsAgain, r
      <4>2. ASSUME "barged" \notin seen
            PROVE  /\ Session(http', site', breaks', Still(c) /\ Ended(c).pc # "clear", TRUE)
                   /\ "cleared" \notin seen => deaths > 1
        <5>1. ASSUME "cleared" \notin seen PROVE deaths > 1
          <6>1. CASE r.script # "card"
            <7>1. http.view = "stale"  BY <1>7, <1>8, <3>1, <4>2, <5>1, <6>1
            <7> QED  BY <1>1, <1>4, <3>1, <4>2, <5>1, <7>1 DEF Endures
          <6>2. CASE r.whole # 1
            <7>1. r.whole = 2  BY <1>1, <6>2 DEF ConvSet
            <7> QED  BY <1>4, <3>1, <4>2, <5>1, <7>1 DEF Endures
          <6> QED  BY <4>1, <6>1, <6>2
        <5>2. r.pc = "card" => http.view # "live"  BY <1>1 DEF Recognized
        <5>3. r.pc = "restore" => Ended(c).pc = "clear"
          <6>1. ASSUME r.pc = "restore" PROVE conv[c].script = "find"
            BY <1>1, <6>1 DEF GoodConv, ScriptOf, r
          <6>2. CASE conv[c].script = "find"
            <7>1. Ended(c) = [Quiet EXCEPT !.pc = "clear"]  BY <6>2 DEF Ended
            <7> QED  BY <7>1 DEF Quiet
          <6> QED  BY <6>1, <6>2
        <5> QED  BY <3>2, <3>5, <4>2, <5>1, <5>2, <5>3 DEF Session, Alike
      <4> QED  BY <1>1, <3>2, <3>4, <4>1, <4>2, EndingKeeps DEF Alike
    <3> QED  BY <3>6, <3>7
  <2> QED  BY <2>1, <2>2
<1>9. CASE Expires(c) /\ r.pc = "expand" /\ http.view = "stale"
  <2>1. http' = Failed(http) /\ Ends(c, {})  BY <1>9 DEF Unrecognized, r
  <2> QED  BY <1>5, <1>9, <2>1
<1> QED  BY <1>3, <1>5, <1>6, <1>8, <1>9
LEMMA FailureKeeps ==
    ASSUME ButbInv, NEW c \in Callers, RequestFails(c)
    PROVE  ButbInv'
<1> USE DEF ButbInv
<1> DEFINE r == conv[c]
<1>1. /\ Works(c) /\ r \in ConvSet /\ GoodConv(r) /\ r.pc \in Requests
      /\ deaths' = deaths /\ http \in HttpSet /\ site \in SiteSet /\ Still(c) /\ Ends(c, {})
      /\ IF http.view = "live" THEN site' = Moved(r) \/ site' = site ELSE site' = site
  BY DEF RequestFails, Works, LockInv, Counted, NetworkIsHeard, Still, Reached
<1>2. breaks' \in Nat /\ breaks' > 0 /\ breaks' # 0  BY DEF RequestFails, Counted
<1>3. http' \in HttpSet /\ Alike(http', http)
  <2>1. http' = http \/ http' = Failed(http)  BY DEF RequestFails
  <2> QED  BY <1>1, <2>1, HttpMoves DEF Alike
<1>4. site' \in SiteSet  BY <1>1, SiteMoves
<1>5. Ended(c).pc # "clear" => r.script # "find"
  <2>1. ASSUME r.script = "find" PROVE Ended(c).pc = "clear"
    <3>1. Ended(c) = [Quiet EXCEPT !.pc = "clear"]  BY <2>1 DEF Ended
    <3> QED  BY <3>1 DEF Quiet
  <2> QED  BY <2>1
<1> HIDE DEF r
<1>6. r.script # "find" => r.pc \in {"boot", "page", "open", "card"}
  BY <1>1 DEF GoodConv, ScriptOf, Requests
<1>7. ASSUME "barged" \notin seen, SessionInv, Alone(c)
      PROVE  Session(http', site', breaks', Still(c) /\ Ended(c).pc # "clear", TRUE)
  <2>1. /\ Session(http, site, breaks, r.pc # "restore", r.pc # "card") /\ ReliesOn(r, http, site)
    <3>1. /\ Session(http, site, breaks, Still(c) /\ r.pc \notin {"clear", "restore"}, r.pc # "card")
          /\ ReliesOn(r, http, site)
      BY <1>7, AloneSees DEF r
    <3> QED  BY <1>1, <3>1 DEF Session, Requests
  <2>2. CASE site' = site  BY <1>2, <1>3, <1>5, <1>6, <2>1, <2>2 DEF Session, Alike
  <2>3. CASE site' = Moved(r) /\ http.view = "live"
    <3>1. /\ site'.filter = site.filter \/ r.pc = "submit"
          /\ site'.panel = site.panel \/ site'.panel
      <4>1. CASE r.pc = "page"
        <5>1. site' = [site EXCEPT !.page = r.at]  BY <2>3, <4>1 DEF Moved
        <5> QED  BY <1>1, <5>1 DEF SiteSet
      <4>2. CASE r.pc = "expand"
        <5>1. site' = [site EXCEPT !.panel = TRUE, !.degraded = TRUE]  BY <2>3, <4>2 DEF Moved
        <5> QED  BY <1>1, <5>1 DEF SiteSet
      <4>3. CASE r.pc = "submit" /\ site.panel
        <5>1. site' = [site EXCEPT !.filter = r.want, !.page = 1, !.degraded = TRUE]
          BY <2>3, <4>3 DEF Moved
        <5> QED  BY <1>1, <4>3, <5>1 DEF SiteSet
      <4>4. CASE r.pc = "restore" /\ site.panel
        <5>1. site' = [site EXCEPT !.degraded = FALSE]  BY <2>3, <4>4 DEF Moved
        <5> QED  BY <1>1, <5>1 DEF SiteSet
      <4>5. CASE r.pc = "open" /\ Resolves(r)
        <5>1. site' = [site EXCEPT !.degraded = TRUE]  BY <2>3, <4>5 DEF Moved
        <5> QED  BY <1>1, <5>1 DEF SiteSet
      <4>6. CASE /\ r.pc \notin {"page", "expand"}
                 /\ ~ (r.pc = "submit" /\ site.panel) /\ ~ (r.pc = "restore" /\ site.panel)
                 /\ ~ (r.pc = "open" /\ Resolves(r))
        <5>1. site' = site  BY <2>3, <4>6 DEF Moved
        <5> QED  BY <5>1
      <4> QED  BY <4>1, <4>2, <4>3, <4>4, <4>5, <4>6
    <3>2. r.pc = "submit" => http.expanded  BY <2>1, <2>3 DEF ReliesOn
    <3> QED  BY <1>2, <1>3, <1>5, <1>6, <2>1, <2>3, <3>1, <3>2 DEF Session, Alike
  <2> QED  BY <1>1, <2>2, <2>3
<1> QED  BY <1>1, <1>2, <1>3, <1>4, <1>7, EndingKeeps DEF Alike

\* The call as it is made.
Begun(script, want, at, op) ==
    [Quiet EXCEPT !.script = script, !.want = want, !.at = at, !.op = op]

LEMMA BegunIs ==
    ASSUME NEW script, NEW want, NEW at, NEW op
    PROVE  Begun(script, want, at, op) =
               [script |-> script, want |-> want, at |-> at, op |-> op, pc |-> "idle",
                holds |-> FALSE, try |-> 1, whole |-> 1]
<1> DEFINE q == [script |-> "none", want |-> NoFilter, at |-> 1, op |-> "none", pc |-> "idle",
                 holds |-> FALSE, try |-> 1, whole |-> 1]
<1>1. Begun(script, want, at, op) =
          [q EXCEPT !.script = script, !.want = want, !.at = at, !.op = op]
  BY DEF Begun, Quiet
<1> QED  BY <1>1

LEMMA CallKeeps ==
    ASSUME ButbInv, NEW c \in Callers, NEW script \in {"list", "find", "card"},
           NEW want \in Criteria \union {NoFilter}, NEW at \in Pages, Call(c, script, want, at)
    PROVE  ButbInv'
<1> USE DEF ButbInv
<1> DEFINE op == IF script = "find" THEN "filtered" ELSE "registry"
           r  == Begun(script, want, at, op)
<1>1. /\ conv[c].pc = "idle" /\ (script = "find" <=> want # NoFilter)
      /\ Serialized(c, r, depth, lockQueue, {}) /\ http' = http /\ site' = site
      /\ deaths' = deaths /\ breaks' = breaks
  BY DEF Call, Begun
<1>2. op \in {"filtered", "registry"} /\ (op = "filtered" <=> script = "find")  OBVIOUS
<1> HIDE DEF op
<1>3. r = [script |-> script, want |-> want, at |-> at, op |-> op, pc |-> "idle",
           holds |-> FALSE, try |-> 1, whole |-> 1]
  BY BegunIs
<1> HIDE DEF r
<1>4. r \in ConvSet  BY <1>2, <1>3 DEF ConvSet, Word
<1>5. /\ Waiting(r).pc = "wait" /\ Waiting(r).op = op /\ Waiting(r).script = script
      /\ Waiting(r).want = want /\ Waiting(r).try = 1 /\ Waiting(r).whole = 1
  BY <1>3, <1>4 DEF Waiting, ConvSet
<1>6. GoodConv(Waiting(r))  BY <1>1, <1>2, <1>5 DEF GoodConv, ScriptOf
<1>7. /\ LockInv'
      /\ "barged" \notin seen' => seen' = seen /\ conv' = [conv EXCEPT ![c] = Waiting(r)]
  <2>1. Gone(c, depth, lockQueue)  BY <1>1, LeavingTheQueue
  <2>2. {} \in SUBSET Marks /\ seen \union {} = seen /\ r.try = 1  BY <1>3
  <2> QED  BY <1>1, <1>4, <1>6, <2>1, <2>2, Queueing
<1>8. Counted'  BY <1>1 DEF Counted
<1>9. ASSUME "barged" \notin seen' PROVE SessionInv'
  <2>1. SessionInv /\ seen' = seen /\ conv' = [conv EXCEPT ![c] = Waiting(r)]  BY <1>7, <1>9
  <2>2. conv'[c] = Waiting(r) /\ \A d \in Callers \ {c} : conv'[d] = conv[d]  BY <2>1, OthersStay
  <2>3. Believed'
    <3>1. NoneIs({"clear", "restore"})' => NoneIs({"clear", "restore"})  BY <1>1, <2>2 DEF NoneIs
    <3>2. NoneIs({"card"})' => NoneIs({"card"})  BY <1>1, <2>2 DEF NoneIs
    <3> QED  BY <1>1, <2>1, <3>1, <3>2 DEF Believed, Session, SessionInv
  <2>4. Relied'
    <3>1. ReliesOn(conv'[c], http', site')  BY <1>2, <1>5, <2>2 DEF ReliesOn
    <3> QED  BY <1>1, <2>1, <2>2, <3>1 DEF Relied, SessionInv
  <2>5. "cleared" \notin seen => Survives'
    <3>1. Endures(conv'[c], http', site', deaths')  BY <1>2, <1>5, <2>2 DEF Endures, Requests
    <3> QED  BY <1>1, <2>1, <2>2, <3>1 DEF Survives, SessionInv
  <2> QED  BY <1>1, <2>1, <2>3, <2>4, <2>5 DEF SessionInv
<1> QED  BY <1>7, <1>8, <1>9

LEMMA ClearKeeps ==
    ASSUME ButbInv, NEW c \in Callers, Clear(c)
    PROVE  ButbInv'
<1> USE DEF ButbInv
<1>1. /\ conv[c].pc = "clear" /\ deaths' = deaths /\ breaks' = breaks
      /\ http' = IF http.expanded \/ http.applied # NoFilter THEN Reset(http) ELSE http
      /\ site' = IF http'.view = "live" THEN site ELSE Fresh
      /\ conv' = [conv EXCEPT ![c] = At(conv[c], "idle")]
      /\ seen \subseteq seen' /\ seen' \subseteq seen \union {"cleared"}
      /\ "cleared" \notin seen' => http' = http \/ \A d \in Callers : conv[d].pc \notin Requests
  BY DEF Clear, SiteKept, At
<1>2. LockInv'  BY Clearing
<1>3. Counted'  BY <1>1, HttpMoves, FreshIsASite DEF Counted
<1>4. ASSUME "barged" \notin seen' PROVE SessionInv'
  <2>1. SessionInv /\ Serial  BY <1>1, <1>4 DEF LockInv
  <2>2. conv[c] \in ConvSet /\ conv[c].op = "none"  BY <1>1 DEF LockInv, GoodConv, ScriptOf
  <2>3. /\ conv'[c] = At(conv[c], "idle") /\ \A d \in Callers \ {c} : conv'[d] = conv[d]
    BY <1>1, OthersStay
  <2>4. conv'[c].pc = "idle" /\ conv'[c].op = "none"
        /\ conv'[c].try = conv[c].try /\ conv'[c].whole = conv[c].whole
    BY <2>2, <2>3, PlaceOnly
  <2>5. \A d \in Callers : conv[d].op # "open" /\ conv[d].pc # "restore"
    BY <1>1, <2>1 DEF Serial
  <2>6. CASE http.expanded \/ http.applied # NoFilter
    <3>1. /\ http'.view = "none" /\ ~ http'.expanded /\ http'.applied = NoFilter /\ site' = Fresh
      BY <1>1, <2>6, HttpMoves DEF Counted
    <3>2. Believed'  BY <3>1 DEF Believed, Session
    <3>3. Relied'  BY <3>1 DEF Relied, ReliesOn
    <3>4. ASSUME "cleared" \notin seen' PROVE Survives'
      <4>1. http' # http
        <5>1. CASE http'.expanded # http.expanded  BY <5>1
        <5>2. CASE http'.applied # http.applied  BY <5>2
        <5> QED  BY <2>6, <3>1, <5>1, <5>2
      <4>2. \A d \in Callers : conv[d].pc \notin Requests  BY <1>1, <3>4, <4>1
      <4>3. Survives  BY <1>1, <2>1, <3>4 DEF SessionInv
      <4>4. ASSUME NEW d \in Callers PROVE Endures(conv'[d], http', site', deaths')
        <5>1. Endures(conv[d], http, site, deaths)  BY <4>3 DEF Survives
        <5>2. CASE d = c
          BY <1>1, <2>4, <3>1, <5>1, <5>2 DEF Endures, Requests
        <5>3. CASE d # c
          BY <1>1, <2>3, <2>5, <3>1, <4>2, <5>1, <5>3 DEF Endures
        <5> QED  BY <5>2, <5>3
      <4> QED  BY <1>1, <3>1, <3>4, <4>3, <4>4 DEF Survives
    <3> QED  BY <1>1, <2>1, <3>2, <3>3, <3>4 DEF SessionInv
  <2>7. CASE ~ (http.expanded \/ http.applied # NoFilter)
    <3>1. http' = http /\ site' = site
      BY <1>1, <2>1, <2>7 DEF SessionInv, Believed, Session
    <3>2. Believed'
      <4>1. NoneIs({"card"})' => NoneIs({"card"})  BY <1>1, <2>3 DEF NoneIs
      <4> QED  BY <1>1, <2>1, <2>7, <3>1, <4>1 DEF SessionInv, Believed, Session
    <3>3. Relied'
      <4>1. ReliesOn(conv'[c], http', site')  BY <2>4 DEF ReliesOn
      <4> QED  BY <2>1, <2>3, <3>1, <4>1 DEF SessionInv, Relied
    <3>4. ASSUME "cleared" \notin seen' PROVE Survives'
      <4>1. Survives  BY <1>1, <2>1, <3>4 DEF SessionInv
      <4>2. Endures(conv'[c], http', site', deaths')
        BY <1>1, <2>4, <3>1, <4>1 DEF Survives, Endures, Requests
      <4> QED  BY <1>1, <2>3, <3>1, <3>4, <4>1, <4>2 DEF Survives
    <3> QED  BY <1>1, <2>1, <3>2, <3>3, <3>4 DEF SessionInv
  <2> QED  BY <2>6, <2>7
<1> QED  BY <1>2, <1>3, <1>4

LEMMA DeathKeeps ==
    ASSUME ButbInv, SessionDies
    PROVE  ButbInv'
<1> USE DEF ButbInv
<1>1. /\ http.view = "live" /\ deaths' = deaths + 1 /\ http' = [http EXCEPT !.view = "stale"]
      /\ site' = Fresh /\ conv' = conv /\ breaks' = breaks /\ seen' = seen
      /\ lockQueue' = lockQueue /\ depth' = depth
  BY DEF SessionDies
<1>2. LockInv'
  <2>1. InSession' = InSession /\ QueueOrder' = QueueOrder /\ Serial' = Serial
    BY <1>1 DEF InSession, QueueOrder, Serial, Works
  <2> QED  BY <1>1, <2>1 DEF LockInv
<1>3. /\ http' \in HttpSet /\ http'.view = "stale" /\ http'.card = http.card
      /\ http'.expanded = http.expanded /\ http'.applied = http.applied
  BY <1>1 DEF Counted, HttpSet
<1>4. Counted'  BY <1>1, <1>3, FreshIsASite DEF Counted
<1>5. ASSUME "barged" \notin seen' PROVE SessionInv'
  <2>1. SessionInv  BY <1>1, <1>5
  <2>2. Believed'  BY <1>1, <1>3, <2>1 DEF SessionInv, Believed, Session
  <2>3. Relied'  BY <1>1, <1>3, <2>1 DEF SessionInv, Relied, ReliesOn
  <2>4. ASSUME "cleared" \notin seen' PROVE Survives'
    <3>1. Survives /\ deaths \in Nat  BY <1>1, <2>1, <2>4 DEF SessionInv, Counted
    <3>2. ASSUME NEW d \in Callers PROVE Endures(conv[d], http', site', deaths + 1)
      <4>1. Endures(conv[d], http, site, deaths) /\ conv[d] \in ConvSet
        BY <3>1 DEF Survives, LockInv
      <4>2. deaths + 1 <= 1 => conv[d].try = 1 /\ conv[d].whole = 1
        BY <3>1, <4>1 DEF Endures, ConvSet
      <4> QED  BY <1>1, <1>3, <3>1, <4>1, <4>2 DEF Endures
    <3> QED  BY <1>1, <1>3, <3>1, <3>2 DEF Survives
  <2> QED  BY <1>1, <2>1, <2>2, <2>3, <2>4 DEF SessionInv
<1> QED  BY <1>2, <1>4, <1>5

LEMMA ClosingKeeps ==
    ASSUME ButbInv, CircuitCloses \/ UNCHANGED butbVars
    PROVE  ButbInv'
<1> USE DEF ButbInv
<1>1. /\ site' = site /\ conv' = conv /\ breaks' = breaks /\ seen' = seen /\ deaths' = deaths
      /\ lockQueue' = lockQueue /\ depth' = depth
      /\ http' = http \/ http' = [http EXCEPT !.open = FALSE]
  BY DEF CircuitCloses, butbVars
<1>2. LockInv'
  <2>1. InSession' = InSession /\ QueueOrder' = QueueOrder /\ Serial' = Serial
    BY <1>1 DEF InSession, QueueOrder, Serial, Works
  <2> QED  BY <1>1, <2>1 DEF LockInv
<1>3. http' \in HttpSet /\ Alike(http', http)
  BY <1>1 DEF Counted, HttpSet, Alike
<1>4. Counted'  BY <1>1, <1>3 DEF Counted
<1>5. ASSUME "barged" \notin seen' PROVE SessionInv'
  <2>1. SessionInv  BY <1>1, <1>5
  <2>2. Believed'  BY <1>1, <1>3, <2>1 DEF SessionInv, Believed, Session, NoneIs, Alike
  <2>3. Relied'  BY <1>1, <1>3, <2>1 DEF SessionInv, Relied, ReliesOn, Alike
  <2>4. "cleared" \notin seen' => Survives'
    BY <1>1, <1>3, <2>1 DEF SessionInv, Survives, Endures, Alike
  <2> QED  BY <1>1, <2>1, <2>2, <2>3, <2>4 DEF SessionInv
<1> QED  BY <1>2, <1>4, <1>5

LEMMA ButbInitially ==
    ASSUME ButbInit
    PROVE  ButbInv
<1> USE DEF ButbInit
<1>1. \A c \in Callers : conv[c] = Quiet  OBVIOUS
<1>2. Quiet \in ConvSet /\ GoodConv(Quiet)
  BY DEF Quiet, ConvSet, GoodConv, ScriptOf, Word, Pages
<1>3. InSession = {}  BY <1>1 DEF InSession, Quiet
<1>4. depth = Cardinality(InSession)  BY <1>3, FS_EmptySet
<1>5. QueueOrder /\ Serial
  <2>1. lockQueue = <<>> /\ ToSet(lockQueue) = {}  BY DEF ToSet
  <2> QED  BY <1>1, <2>1 DEF QueueOrder, Serial, Works, Requests, Quiet
<1>6. LockInv  BY <1>1, <1>2, <1>4, <1>5 DEF LockInv
<1>7. Counted
  <2>1. 0 < FailuresMax  BY ButbBounds
  <2> QED  BY <2>1, FreshIsASite DEF Counted, HttpSet, Word
<1>8. SessionInv
  <2>1. Believed  BY DEF Believed, Session, Fresh
  <2>2. Relied  BY <1>1 DEF Relied, ReliesOn, Quiet
  <2>3. Survives  BY <1>1 DEF Survives, Endures, Quiet, Requests
  <2> QED  BY <2>1, <2>2, <2>3 DEF SessionInv
<1> QED  BY <1>6, <1>7, <1>8 DEF ButbInv

\* The invariant of the session: the lock and its queue, what the client believes of
\* the session, and what a call has lost to sessions that died.
THEOREM ButbInduction == ButbSpec => []ButbInv
<1>1. ButbInit => ButbInv  BY ButbInitially
<1>2. ButbInv /\ [ButbNext]_butbVars => ButbInv'
  <2> SUFFICES ASSUME ButbInv, [ButbNext]_butbVars PROVE ButbInv'  OBVIOUS
  <2>1. ASSUME NEW c \in Callers, Carries(c) PROVE ButbInv'
    BY <2>1, EnterKeeps, StartKeeps, BootKeeps, ServedKeeps, UnrecognizedKeeps, ClearKeeps
    DEF Carries
  <2>2. ASSUME NEW c \in Callers, RequestFails(c) PROVE ButbInv'  BY <2>2, FailureKeeps
  <2>3. ASSUME NEW c \in Callers, NEW script \in {"list", "find", "card"},
               NEW want \in Criteria \union {NoFilter}, NEW at \in Pages, Call(c, script, want, at)
        PROVE  ButbInv'
    BY <2>3, CallKeeps
  <2>4. CASE SessionDies  BY <2>4, DeathKeeps
  <2>5. CASE CircuitCloses \/ UNCHANGED butbVars  BY <2>5, ClosingKeeps
  <2> QED  BY <2>1, <2>2, <2>3, <2>4, <2>5 DEF ButbNext
<1> QED  BY <1>1, <1>2, PTL DEF ButbSpec

LEMMA ButbInvImplies ==
    ASSUME ButbInv
    PROVE  ButbTypeOK /\ AnsweredAsAsked /\ OneDeathIsInvisible
<1> USE DEF ButbInv
<1>1. ButbTypeOK
  <2>1. depth \in 0..Cardinality(Callers)
    <3>1. /\ IsFiniteSet(Callers) /\ InSession \subseteq Callers /\ Cardinality(Callers) \in Nat
          /\ Cardinality(InSession) \in Nat
      BY ButbBounds, SessionsAreFinite, FS_CardinalityType
    <3>2. Cardinality(InSession) <= Cardinality(Callers)  BY <3>1, FS_Subset
    <3> QED  BY <3>1, <3>2 DEF LockInv
  <2>2. \A c \in Callers : conv[c].pc \in Requests \union {"idle", "wait", "start", "clear"}
    BY DEF LockInv, ConvSet
  <2> QED  BY <2>1, <2>2 DEF ButbTypeOK, Counted, HttpSet, SiteSet, Word
<1>2. AnsweredAsAsked  BY DEF AnsweredAsAsked, SessionInv
<1>3. OneDeathIsInvisible  BY DEF OneDeathIsInvisible, SessionInv, Survives
<1> QED  BY <1>1, <1>2, <1>3

\* The table handed on is the page of the search that was asked for, whoever has used
\* the session before and wherever it was lost; and one lost session costs nobody his
\* call, nor does a degraded table. But for calls that got in each other's way.
THEOREM SessionsAreInvisible ==
    ButbSpec => [](ButbTypeOK /\ AnsweredAsAsked /\ OneDeathIsInvisible)
<1>1. ButbInv => ButbTypeOK /\ AnsweredAsAsked /\ OneDeathIsInvisible  BY ButbInvImplies
<1> QED  BY <1>1, ButbInduction, PTL

----------------------------------------------------------------------------
\* All three at once: every promise of the parts between the API process and the
\* sources it reads.
THEOREM PipesKeepTheirPromises == SourcesSpec => []PipesKeepTheirWord
<1>1. HealthInv => HealthTypeOK /\ QueueIsFair  BY DEF HealthInv, PipeInv
<1>2. HealthSpec => [](HealthTypeOK /\ QueueIsFair)
  BY <1>1, HealthInvHoldsAtFirst, HealthInvIsInductive, PTL DEF HealthSpec
<1>3. ASSUME HealthTypeOK, QueueIsFair,
             ServingWasHeard /\ DeadIsNeverServing /\ OneProbePerChild,
             ControlTypeOK /\ OpensOnOutagesOnly,
             ButbTypeOK /\ AnsweredAsAsked /\ OneDeathIsInvisible
      PROVE  PipesKeepTheirWord
  <2>1. SourcesTypeOK  BY ONLY <1>3 DEF SourcesTypeOK
  <2>2. VerdictsAreTrue  BY ONLY <1>3 DEF VerdictsAreTrue
  <2> QED  BY ONLY <1>3, <2>1, <2>2 DEF PipesKeepTheirWord
<1> QED
  BY <1>2, <1>3, ServingIsHeard, BreakerOpensOnOutages, SessionsAreInvisible, PTL
  DEF SourcesSpec
=============================================================================
