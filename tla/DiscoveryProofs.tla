-------------------------- MODULE DiscoveryProofs --------------------------
(***************************************************************************)
(* Proofs about the background passes. Discovery: type correctness and the *)
(* honesty of the watermark, for every set of lanes, window size, page     *)
(* bound, margin, bootstrap and number of rows, edits and faults.          *)
(* WatchRota: the followed cases take turns, for any cases and any size of *)
(* a pass, however decisions, readings at the desk, failures and restarts  *)
(* come in between. Scans: whichever part of a pass is followed, it keeps  *)
(* its place and reads its window, from the lemmas of the modules that     *)
(* prove this of each scan.                                                *)
(***************************************************************************)
EXTENDS Scans, FiniteSetTheorems, TLAPS

----------------------------------------------------------------------------
(* The turns of the followed cases.                                        *)

Rota == RotaInit /\ [][RotaNext]_rotaVars

----------------------------------------------------------------------------
\* Times are numbered anew at each step, in their order and without gaps: a new
\* time is later than all of them.
WithoutGaps == \A t \in Times(memory, rows, round) : t <= Cardinality(Times(memory, rows, round) \ {Unread})

\* The times of a state are finitely many numbers.
LEMMA TimesAreFinite ==
    ASSUME NEW m \in [Cases -> Nat], NEW r \in [Cases -> Nat], NEW p, p.now \in Nat
    PROVE  IsFiniteSet(Times(m, r, p)) /\ Times(m, r, p) \in SUBSET Nat
<1>1. IsFiniteSet({m[c] : c \in Cases}) /\ IsFiniteSet({r[c] : c \in Cases})
  <2>1. m \in Surjection(Cases, {m[c] : c \in Cases}) /\ r \in Surjection(Cases, {r[c] : c \in Cases})
    BY DEF Surjection
  <2> QED BY <2>1, FS_Surjection, RotaBounds
<1>2. IsFiniteSet({p.now})
  BY FS_Singleton
<1> QED BY <1>1, <1>2, FS_Union DEF Times

\* Counting the times up to one of them keeps their order.
LEMMA AmongKeepsOrder ==
    ASSUME NEW T \in SUBSET Nat, IsFiniteSet(T)
    PROVE  /\ \A t \in T : Among(T, t) \in 0..Cardinality(T \ {Unread})
           /\ \A t, u \in T : t < u => Among(T, t) < Among(T, u)
<1> DEFINE UpTo(t) == {u \in T \ {Unread} : u <= t}
<1>1. IsFiniteSet(T \ {Unread}) /\ Cardinality(T \ {Unread}) \in Nat
  BY FS_Difference, FS_CardinalityType
<1>2. \A t \in T : /\ IsFiniteSet(UpTo(t)) /\ Cardinality(UpTo(t)) \in Nat
                   /\ Cardinality(UpTo(t)) <= Cardinality(T \ {Unread})
  BY <1>1, FS_Subset, FS_CardinalityType
<1>3. ASSUME NEW t \in T, NEW u \in T, t < u PROVE Cardinality(UpTo(t)) < Cardinality(UpTo(u))
  <2>1. UpTo(t) \in SUBSET UpTo(u)
    <3>1. \A x \in T : x \in Nat
      OBVIOUS
    <3>2. \A x \in T : x <= t => x <= u
      BY <1>3, <3>1
    <3> QED BY <3>2
  <2>2. u \in UpTo(u) /\ u \notin UpTo(t)
    BY <1>3 DEF Unread
  <2>3. Cardinality(UpTo(t)) <= Cardinality(UpTo(u)) /\ Cardinality(UpTo(t)) # Cardinality(UpTo(u))
    BY <1>2, <2>1, <2>2, FS_Subset
  <2> QED BY <1>2, <2>3
<1> QED BY <1>1, <1>2, <1>3 DEF Among

\* Numbering anew keeps what was earlier, and leaves no gaps.
LEMMA SettleKeepsOrder ==
    ASSUME NEW m \in [Cases -> Nat], NEW r \in [Cases -> Nat], NEW p, p.now \in Nat,
           Settle(m, r, p), p = [p EXCEPT !.now = p.now]
    PROVE  /\ memory' \in [Cases -> Nat] /\ rows' \in [Cases -> Nat]
           /\ round' = [p EXCEPT !.now = round'.now] /\ round'.now \in Nat
           /\ WithoutGaps'
           /\ m = r => memory' = rows'
           /\ \A c, d \in Cases : m[c] < m[d] => memory'[c] < memory'[d]
           /\ \A c \in Cases : m[c] < p.now => memory'[c] < round'.now
<1> DEFINE T == Times(m, r, p)
           N == Times(memory', rows', round')
           f == [t \in T \ {Unread} |-> Among(T, t)]
<1>1. IsFiniteSet(T) /\ T \in SUBSET Nat
  BY TimesAreFinite
<1>2. /\ memory' = [c \in Cases |-> Among(T, m[c])]
      /\ rows' = [c \in Cases |-> Among(T, r[c])]
      /\ round' = [p EXCEPT !.now = Among(T, p.now)]
  BY DEF Settle
<1>3. /\ \A c \in Cases : m[c] \in T /\ r[c] \in T
      /\ p.now \in T
  BY DEF Times
<1>4. round'.now = Among(T, p.now)
  BY <1>2
<1>5. N = {Among(T, t) : t \in T}
  BY <1>2, <1>4 DEF Times
<1> HIDE DEF T, N
<1>6. /\ \A t \in T : Among(T, t) \in 0..Cardinality(T \ {Unread})
      /\ \A t, u \in T : t < u => Among(T, t) < Among(T, u)
  BY <1>1, AmongKeepsOrder
<1>7. /\ IsFiniteSet(T \ {Unread}) /\ Cardinality(T \ {Unread}) \in Nat
  BY <1>1, FS_Difference, FS_CardinalityType
<1>8. IsFiniteSet(N \ {Unread}) /\ Cardinality(N \ {Unread}) \in Nat
  <2>1. N \ {Unread} \in SUBSET (0..Cardinality(T \ {Unread}))
    BY <1>5, <1>6
  <2>2. IsFiniteSet(0..Cardinality(T \ {Unread}))
    <3>1. 0 \in Int /\ Cardinality(T \ {Unread}) \in Int
      BY <1>7
    <3> QED BY <3>1, FS_Interval, Zenon
  <2> QED BY <2>1, <2>2, FS_Subset, FS_CardinalityType
<1>9. f \in Injection(T \ {Unread}, N \ {Unread})
  <2>1. \A t \in T \ {Unread} : Among(T, t) # Unread
    <3> SUFFICES ASSUME NEW t \in T \ {Unread} PROVE Among(T, t) # 0
      BY DEF Unread
    <3> DEFINE S == {u \in T \ {Unread} : u <= t}
    <3>1. IsFiniteSet(S) /\ t \in S
      BY <1>1, <1>7, FS_Subset
    <3> QED BY <3>1, FS_EmptySet DEF Among
  <2>2. \A t, u \in T \ {Unread} : t # u => Among(T, t) # Among(T, u)
    <3> SUFFICES ASSUME NEW t \in T \ {Unread}, NEW u \in T \ {Unread}, t # u
                 PROVE  Among(T, t) # Among(T, u)
      OBVIOUS
    <3>1. t \in Nat /\ u \in Nat /\ Among(T, t) \in Nat /\ Among(T, u) \in Nat
      BY <1>1, <1>6
    <3>2. t < u \/ u < t
      BY <3>1
    <3> QED BY <1>6, <3>1, <3>2
  <2>3. f \in [T \ {Unread} -> N \ {Unread}]
    BY <1>5, <2>1
  <2> QED BY <2>2, <2>3 DEF Injection, IsInjective
<1>10. Cardinality(T \ {Unread}) <= Cardinality(N \ {Unread})
  BY <1>8, <1>9, FS_Injection
<1>11. \A t \in N : t <= Cardinality(N \ {Unread})
  BY <1>5, <1>6, <1>7, <1>8, <1>10
<1>12. WithoutGaps'
  BY <1>11 DEF WithoutGaps, N
<1> QED BY <1>2, <1>3, <1>4, <1>6, <1>7, <1>12
----------------------------------------------------------------------------
\* The order of a pass.

\* c has its turn in this pass before the patient.
ComesBefore(c, left) ==
    \E i \in 1..Len(left) : left[i] = c /\ \A j \in 1..i - 1 : left[j] # patient

Once(left) == \A i, j \in 1..Len(left) : left[i] = left[j] => i = j

Rounds == [at : {"rest", "read"}, left : Seq(Cases), now : Nat, read : SUBSET Cases]

\* At rest nobody is waiting; in a pass nobody is twice.
RoundIsInOrder ==
    /\ round \in Rounds /\ Once(round.left)
    /\ round.at = "rest" => round.left = << >> /\ round.read = {}

\* What a pass has read is not saved before its end; until then nothing is lost.
StoreFollows == ~unsaved /\ round.read = {} => rows = memory

\* A case that was read once since the patient's turn, and is to be read once more
\* before it, gets a later time than the patient has; one that was read twice has
\* it, and is not ahead any more.
TakesTurns(c) ==
    /\ passedBy[c] <= 2
    /\ passedBy[c] = 1 /\ ComesBefore(c, round.left) => memory[patient] < round.now
    /\ passedBy[c] = 2 => ~ComesBefore(c, round.left) /\ memory[patient] < memory[c]

RotaTypes ==
    /\ memory \in [Cases -> Nat] /\ rows \in [Cases -> Nat]
    /\ followed \subseteq Cases /\ patient \in Cases
    /\ passedBy \in [Cases -> 0..3] /\ unsaved \in BOOLEAN

RotaInv ==
    /\ RotaTypes /\ RoundIsInOrder /\ WithoutGaps /\ StoreFollows
    /\ passedBy[patient] = 0
    /\ patient \notin followed => passedBy = NobodyYet
    /\ ~unsaved => \A c \in Cases : TakesTurns(c)

\* Nobody was read since the patient's turn: nobody is owed anything.
LEMMA FreshStart ==
    ASSUME passedBy = NobodyYet, patient \in Cases
    PROVE  passedBy \in [Cases -> 0..3] /\ passedBy[patient] = 0 /\ \A c \in Cases : TakesTurns(c)
BY DEF NobodyYet, TakesTurns

\* Any new time is later than those there are.
LEMMA NowIsLater ==
    ASSUME RotaInv
    PROVE  /\ Now \in Nat
           /\ \A c \in Cases : memory[c] < Now /\ rows[c] < Now
           /\ round.now < Now
<1> DEFINE T == Times(memory, rows, round)
<1>1. IsFiniteSet(T) /\ round.now \in Nat
  BY TimesAreFinite DEF RotaInv, RotaTypes, RoundIsInOrder, Rounds
<1>2. Cardinality(T \ {Unread}) \in Nat
  BY <1>1, FS_Difference, FS_CardinalityType
<1>3. \A c \in Cases : memory[c] \in T /\ rows[c] \in T
  BY DEF Times
<1>4. round.now \in T
  BY DEF Times
<1>5. \A t \in T : t <= Cardinality(T \ {Unread})
  BY DEF RotaInv, WithoutGaps
<1>6. Now = Cardinality(T \ {Unread}) + 1
  BY DEF Now, Clock
<1> HIDE DEF T
<1>7. \A c \in Cases : memory[c] \in Nat /\ rows[c] \in Nat
  BY DEF RotaInv, RotaTypes
<1> QED BY <1>1, <1>2, <1>3, <1>4, <1>5, <1>6, <1>7

\* What is left of a list without repetitions has none.
LEMMA TailIsOnce ==
    ASSUME NEW left \in Seq(Cases), left # << >>, Once(left)
    PROVE  Once(Tail(left))
<1> DEFINE rest == Tail(left)
<1>1. /\ Len(rest) = Len(left) - 1 /\ Len(left) \in Nat /\ Len(left) >= 1
      /\ \A i \in 1..Len(rest) : rest[i] = left[i + 1]
  OBVIOUS
<1> HIDE DEF rest
<1>2. ASSUME NEW i \in 1..Len(rest), NEW j \in 1..Len(rest), rest[i] = rest[j] PROVE i = j
  <2>1. i + 1 \in 1..Len(left) /\ j + 1 \in 1..Len(left) /\ left[i + 1] = left[j + 1]
    BY <1>1, <1>2
  <2>2. i + 1 = j + 1
    BY <2>1 DEF Once
  <2> QED BY <2>2
<1>3. Once(rest)
  BY <1>2 DEF Once
<1> QED BY <1>3 DEF rest

\* Going on with the list puts nobody ahead who was not.
LEMMA TailKeepsOrder ==
    ASSUME NEW left \in Seq(Cases), left # << >>, Once(left), Head(left) # patient
    PROVE  /\ Tail(left) \in Seq(Cases) /\ Once(Tail(left))
           /\ \A c \in Cases : ComesBefore(c, Tail(left)) => ComesBefore(c, left) /\ c # Head(left)
           /\ ComesBefore(Head(left), left)
<1> DEFINE rest == Tail(left)
<1>1. /\ rest \in Seq(Cases) /\ Len(rest) = Len(left) - 1 /\ Len(left) \in Nat /\ Len(left) >= 1
      /\ \A i \in 1..Len(rest) : rest[i] = left[i + 1]
      /\ Head(left) = left[1]
  OBVIOUS
<1> HIDE DEF rest
<1>2. Once(rest)
  BY TailIsOnce DEF rest
<1>3. ASSUME NEW c \in Cases, ComesBefore(c, rest) PROVE ComesBefore(c, left) /\ c # Head(left)
  <2>1. PICK i \in 1..Len(rest) : rest[i] = c /\ \A j \in 1..i - 1 : rest[j] # patient
    BY <1>3 DEF ComesBefore
  <2>2. i + 1 \in 1..Len(left) /\ left[i + 1] = c /\ i + 1 # 1 /\ 1 \in 1..Len(left)
    BY <1>1, <2>1
  <2>3. \A j \in 1..i : left[j] # patient
    <3> SUFFICES ASSUME NEW j \in 1..i PROVE left[j] # patient
      OBVIOUS
    <3>1. CASE j = 1
      BY <1>1, <3>1
    <3>2. CASE j # 1
      <4>1. j - 1 \in 1..i - 1 /\ j - 1 \in 1..Len(rest) /\ (j - 1) + 1 = j
        BY <1>1, <2>1, <3>2
      <4> QED BY <1>1, <2>1, <4>1
    <3> QED BY <3>1, <3>2
  <2>4. ComesBefore(c, left)
    <3>1. (i + 1) - 1 = i
      BY <2>1
    <3> QED BY <2>2, <2>3, <3>1 DEF ComesBefore
  <2>5. c # left[1]
    BY <2>2 DEF Once
  <2> QED BY <1>1, <2>4, <2>5
<1>4. ComesBefore(Head(left), left)
  <2>1. 1 \in 1..Len(left) /\ \A j \in 1..1 - 1 : FALSE
    BY <1>1
  <2> QED BY <1>1, <2>1 DEF ComesBefore
<1> QED BY <1>1, <1>2, <1>3, <1>4 DEF rest

\* What every step that settles new times has in common.
LEMMA StepIsInOrder ==
    ASSUME NEW m \in [Cases -> Nat], NEW r \in [Cases -> Nat], NEW p \in Rounds, Settle(m, r, p),
           Once(p.left), p.at = "rest" => p.left = << >> /\ p.read = {}
    PROVE  /\ memory' \in [Cases -> Nat] /\ rows' \in [Cases -> Nat]
           /\ RoundIsInOrder' /\ WithoutGaps'
           /\ round'.left = p.left /\ round'.read = p.read
           /\ m = r => memory' = rows'
           /\ \A c, d \in Cases : m[c] < m[d] => memory'[c] < memory'[d]
           /\ \A c \in Cases : m[c] < p.now => memory'[c] < round'.now
<1>1. p.now \in Nat /\ p = [p EXCEPT !.now = p.now]
  BY DEF Rounds
<1>2. /\ memory' \in [Cases -> Nat] /\ rows' \in [Cases -> Nat]
      /\ round' = [p EXCEPT !.now = round'.now] /\ round'.now \in Nat
      /\ WithoutGaps'
      /\ m = r => memory' = rows'
      /\ \A c, d \in Cases : m[c] < m[d] => memory'[c] < memory'[d]
      /\ \A c \in Cases : m[c] < p.now => memory'[c] < round'.now
  BY <1>1, SettleKeepsOrder
<1>3. /\ round' \in Rounds /\ round'.left = p.left /\ round'.read = p.read /\ round'.at = p.at
  BY <1>2 DEF Rounds
<1>4. RoundIsInOrder'
  BY <1>3 DEF RoundIsInOrder, Once
<1> QED BY <1>2, <1>3, <1>4

\* A pass that begins lists the patient before whoever was read twice since its turn.
LEMMA StartRoundTakesTurns == RotaInv /\ StartRound => RotaInv'
<1> SUFFICES ASSUME RotaInv, StartRound PROVE RotaInv'
  OBVIOUS
<1>1. PICK s \in Listings : /\ OldestFirst(s)
                            /\ Settle(memory, rows, [at |-> "read", left |-> s, now |-> Now, read |-> {}])
  BY DEF StartRound
<1> DEFINE p == [at |-> "read", left |-> s, now |-> Now, read |-> {}]
<1>2. Ceiling \in Nat
  <2>1. IsFiniteSet(followed)
    BY FS_Subset, RotaBounds DEF RotaInv, RotaTypes
  <2> QED BY <2>1, FS_CardinalityType, RotaBounds DEF Ceiling
<1>3. s \in Seq(Cases) /\ Len(s) = Ceiling /\ Once(s)
  <2>1. s \in [1..Ceiling -> followed] /\ \A i, j \in 1..Ceiling : i # j => s[i] # s[j]
    BY DEF Listings
  <2>2. s \in [1..Ceiling -> Cases]
    BY <2>1 DEF RotaInv, RotaTypes
  <2>3. s \in Seq(Cases) /\ Len(s) = Ceiling
    BY <1>2, <2>2
  <2> QED BY <2>1, <2>3 DEF Once
<1>4. p \in Rounds /\ Now \in Nat /\ \A c \in Cases : memory[c] < Now
  BY <1>3, NowIsLater DEF Rounds
<1>5. memory \in [Cases -> Nat] /\ rows \in [Cases -> Nat]
  BY DEF RotaInv, RotaTypes
<1>6. /\ memory' \in [Cases -> Nat] /\ rows' \in [Cases -> Nat]
      /\ RoundIsInOrder' /\ WithoutGaps'
      /\ round'.left = s /\ round'.read = {}
      /\ memory = rows => memory' = rows'
      /\ \A c, d \in Cases : memory[c] < memory[d] => memory'[c] < memory'[d]
      /\ \A c \in Cases : memory[c] < Now => memory'[c] < round'.now
  <2>1. p.left = s /\ p.read = {} /\ p.now = Now /\ p.at = "read"
    OBVIOUS
  <2> HIDE DEF p
  <2>2. Settle(memory, rows, p)
    BY <1>1 DEF p
  <2> QED BY <1>3, <1>4, <1>5, <2>1, <2>2, StepIsInOrder
<1>7. UNCHANGED <<followed, patient, passedBy, unsaved>>
  BY DEF StartRound
<1>8. ~unsaved => rows = memory
  BY DEF StartRound, RotaInv, RoundIsInOrder, StoreFollows
<1>9. ASSUME ~unsaved, NEW c \in Cases PROVE TakesTurns(c)'
  <2>1. TakesTurns(c) /\ patient \in Cases /\ passedBy[patient] = 0
    BY <1>9 DEF RotaInv, RotaTypes
  <2>2. memory'[patient] < round'.now
    BY <1>4, <1>6, <2>1
  <2>3. ASSUME passedBy[c] = 2, ComesBefore(c, s) PROVE FALSE
    <3>1. memory[patient] < memory[c]
      BY <2>1, <2>3 DEF TakesTurns
    <3>2. patient \in followed /\ patient # c
      BY <2>1, <2>3 DEF RotaInv, NobodyYet
    <3>3. PICK i \in 1..Ceiling : s[i] = c /\ \A j \in 1..i - 1 : s[j] # patient
      BY <1>3, <2>3 DEF ComesBefore
    <3>4. Captured = memory
      BY <1>8, <1>9 DEF Captured
    <3>5. memory[c] <= memory[patient]
      <4>1. CASE patient \in Left(s)
        BY <1>1, <3>3, <3>4, <4>1 DEF OldestFirst
      <4>2. CASE patient \notin Left(s)
        <5>1. PICK j \in 1..Ceiling : s[j] = patient
          BY <3>2, <4>2 DEF Left
        <5>2. i <= j
          BY <1>2, <3>3, <5>1
        <5> QED BY <1>1, <3>3, <3>4, <5>1, <5>2 DEF OldestFirst
      <4> QED BY <4>1, <4>2
    <3> QED BY <1>5, <2>1, <3>1, <3>5
  <2>4. passedBy[c] = 2 => memory'[patient] < memory'[c]
    BY <1>6, <2>1 DEF TakesTurns
  <2>5. ComesBefore(c, round.left)' => ComesBefore(c, s)
    BY <1>6, <1>7 DEF ComesBefore
  <2> QED BY <1>7, <2>1, <2>2, <2>3, <2>4, <2>5 DEF TakesTurns
<1>10. StoreFollows'
  BY <1>6, <1>7, <1>8 DEF StoreFollows
<1> QED BY <1>6, <1>7, <1>9, <1>10 DEF RotaInv, RotaTypes, NobodyYet

\* Where the list stands when the next case is taken from it.
LEMMA TurnsGoOn ==
    ASSUME RotaInv, round.at = "read", round.left # << >>, NEW q \in SUBSET Cases
    PROVE  /\ TurnOf \in Cases
           /\ GoesOn(q) \in Rounds /\ GoesOn(q).at = "read" /\ GoesOn(q).now = round.now
           /\ GoesOn(q).left = Tail(round.left) /\ GoesOn(q).read = q
<1>1. round \in Rounds
  BY DEF RotaInv, RoundIsInOrder
<1>2. round.left \in Seq(Cases)
  BY <1>1 DEF Rounds
<1>3. Head(round.left) \in Cases /\ Tail(round.left) \in Seq(Cases)
  BY <1>2
<1> QED BY <1>1, <1>3 DEF TurnOf, GoesOn, Rounds

\* Another case is read: twice since the patient's turn, it has the later time.
LEMMA ReadsTakesTurns == RotaInv /\ Reads => RotaInv'
<1> SUFFICES ASSUME RotaInv, Reads PROVE RotaInv'
  OBVIOUS
<1> DEFINE t == TurnOf
           q == GoesOn(round.read \union {t})
<1>1. /\ round.at = "read" /\ round.left # << >>
      /\ Settle(Stamped(t), rows, q) /\ PassesBy(t)
      /\ UNCHANGED <<followed, patient, unsaved>>
  BY DEF Reads
<1>2. /\ round \in Rounds /\ round.left \in Seq(Cases) /\ Once(round.left) /\ round.now \in Nat
      /\ memory \in [Cases -> Nat] /\ rows \in [Cases -> Nat] /\ patient \in Cases
  BY DEF RotaInv, RotaTypes, RoundIsInOrder, Rounds
<1>3. round.read \union {t} \in SUBSET Cases /\ t \in Cases
  <2>1. t \in Cases /\ round.read \in SUBSET Cases
    BY <1>1, <1>2, TurnsGoOn DEF Rounds
  <2> QED BY <2>1
<1>4. /\ q \in Rounds /\ q.at = "read" /\ q.now = round.now
      /\ q.left = Tail(round.left) /\ q.read = round.read \union {t}
  BY <1>1, <1>3, TurnsGoOn
<1>5. Once(Tail(round.left))
  BY <1>1, <1>2, TailIsOnce
<1> HIDE DEF q, t
<1>6. Stamped(t) \in [Cases -> Nat]
  BY <1>2 DEF Stamped
<1>7. /\ memory' \in [Cases -> Nat] /\ rows' \in [Cases -> Nat]
      /\ RoundIsInOrder' /\ WithoutGaps'
      /\ round'.left = Tail(round.left) /\ round'.read = round.read \union {t}
      /\ \A c, d \in Cases : Stamped(t)[c] < Stamped(t)[d] => memory'[c] < memory'[d]
      /\ \A c \in Cases : Stamped(t)[c] < round.now => memory'[c] < round'.now
  <2>1. Settle(Stamped(t), rows, q) /\ Once(q.left) /\ q.at # "rest"
    BY <1>1, <1>4, <1>5
  <2>2. rows \in [Cases -> Nat] /\ q \in Rounds
    BY <1>2, <1>4
  <2> DEFINE m == Stamped(t)
  <2>3. m \in [Cases -> Nat] /\ Settle(m, rows, q)
    BY <1>6, <2>1
  <2> HIDE DEF m
  <2>4. /\ memory' \in [Cases -> Nat] /\ rows' \in [Cases -> Nat]
        /\ RoundIsInOrder' /\ WithoutGaps'
        /\ round'.left = q.left /\ round'.read = q.read
        /\ \A c, d \in Cases : m[c] < m[d] => memory'[c] < memory'[d]
        /\ \A c \in Cases : m[c] < q.now => memory'[c] < round'.now
    BY <2>1, <2>2, <2>3, StepIsInOrder
  <2> QED BY <1>4, <2>4 DEF m
<1>8. StoreFollows'
  BY <1>7 DEF StoreFollows
<1>9. CASE passedBy' = NobodyYet
  <2>1. passedBy' \in [Cases -> 0..3] /\ passedBy'[patient] = 0 /\ (\A c \in Cases : TakesTurns(c)')
    BY <1>1, <1>2, <1>9 DEF NobodyYet, TakesTurns
  <2> QED BY <1>1, <1>7, <1>8, <1>9, <2>1 DEF RotaInv, RotaTypes, NobodyYet
<1>10. CASE passedBy' # NobodyYet
  <2>1. t # patient /\ patient \in followed
    BY <1>1, <1>10 DEF PassesBy, RotaInv
  <2>2. passedBy' = [passedBy EXCEPT ![t] = IF passedBy[t] < 3 THEN passedBy[t] + 1 ELSE 3]
    BY <1>1, <2>1 DEF PassesBy
  <2>3. passedBy' \in [Cases -> 0..3] /\ passedBy'[patient] = 0
    <3>1. passedBy \in [Cases -> 0..3] /\ passedBy[patient] = 0
      BY DEF RotaInv, RotaTypes
    <3>2. (IF passedBy[t] < 3 THEN passedBy[t] + 1 ELSE 3) \in 0..3
      BY <1>3, <3>1
    <3> QED BY <1>2, <2>1, <2>2, <3>1, <3>2
  <2>4. /\ \A c \in Cases : ComesBefore(c, Tail(round.left)) => ComesBefore(c, round.left) /\ c # t
        /\ ComesBefore(t, round.left)
    BY <1>1, <1>2, <2>1, TailKeepsOrder DEF TurnOf, t
  <2>5. ASSUME NEW c \in Cases, ~unsaved PROVE TakesTurns(c)'
    <3>1. TakesTurns(c) /\ passedBy[c] \in 0..3
      BY <2>5 DEF RotaInv, RotaTypes
    <3>2. ComesBefore(c, round.left)' => ComesBefore(c, round.left) /\ c # t
      <4>1. ComesBefore(c, round.left)' => ComesBefore(c, Tail(round.left))
        BY <1>1, <1>7 DEF ComesBefore
      <4> QED BY <2>4, <4>1
    <3>3. Stamped(t)[patient] = memory[patient]
      BY <1>2, <2>1 DEF Stamped
    <3>4. CASE c = t
      <4>1. passedBy[c] \in {0, 1} /\ passedBy'[c] = passedBy[c] + 1
        BY <2>2, <2>4, <3>1, <3>4 DEF TakesTurns, RotaInv, RotaTypes
      <4>2. passedBy'[c] = 2 => memory'[patient] < memory'[c]
        <5> SUFFICES ASSUME passedBy'[c] = 2 PROVE memory'[patient] < memory'[c]
          OBVIOUS
        <5>1. memory[patient] < round.now
          BY <2>4, <3>1, <3>4, <4>1 DEF TakesTurns
        <5>2. Stamped(t)[c] = round.now
          BY <1>2, <3>4 DEF Stamped
        <5> QED BY <1>2, <1>7, <3>3, <5>1, <5>2
      <4>3. patient' = patient /\ passedBy'[c] \in {1, 2} /\ ~ComesBefore(c, round.left)'
        BY <1>1, <3>2, <3>4, <4>1
      <4> QED BY <4>2, <4>3 DEF TakesTurns
    <3>5. CASE c # t
      <4>1. passedBy'[c] = passedBy[c] /\ Stamped(t)[c] = memory[c]
        BY <1>2, <2>2, <3>5 DEF Stamped, RotaInv, RotaTypes
      <4>2. memory[patient] < memory[c] => memory'[patient] < memory'[c]
        BY <1>2, <1>7, <3>3, <4>1
      <4>3. memory[patient] < round.now => memory'[patient] < round'.now
        BY <1>2, <1>7, <3>3
      <4> QED BY <1>1, <3>1, <3>2, <4>1, <4>2, <4>3 DEF TakesTurns
    <3> QED BY <3>4, <3>5
  <2> QED BY <1>1, <1>7, <1>8, <2>1, <2>3, <2>5 DEF RotaInv, RotaTypes, NobodyYet
<1> QED BY <1>9, <1>10

\* A page that cannot be read costs its turn and changes no time.
LEMMA UnreadableTakesTurns == RotaInv /\ Unreadable => RotaInv'
<1> SUFFICES ASSUME RotaInv, Unreadable PROVE RotaInv'
  OBVIOUS
<1>1. /\ round.at = "read" /\ round.left # << >> /\ round' = GoesOn(round.read)
      /\ passedBy' = IF TurnOf = patient THEN NobodyYet ELSE passedBy
      /\ UNCHANGED <<followed, memory, rows, patient, unsaved>>
  BY DEF Unreadable
<1>2. /\ round \in Rounds /\ round.left \in Seq(Cases) /\ Once(round.left)
      /\ round.read \in SUBSET Cases /\ patient \in Cases
  BY DEF RotaInv, RotaTypes, RoundIsInOrder, Rounds
<1>3. /\ round' \in Rounds /\ round'.at = "read" /\ round'.now = round.now
      /\ round'.left = Tail(round.left) /\ round'.read = round.read
  BY <1>1, <1>2, TurnsGoOn
<1>4. Once(Tail(round.left))
  BY <1>1, <1>2, TailIsOnce
<1>5. RoundIsInOrder' /\ StoreFollows'
  BY <1>1, <1>3, <1>4 DEF RoundIsInOrder, Once, RotaInv, StoreFollows
<1>6. WithoutGaps'
  <2>1. Times(memory, rows, round)' = Times(memory, rows, round)
    BY <1>1, <1>3 DEF Times
  <2> QED BY <2>1 DEF RotaInv, WithoutGaps
<1>7. CASE passedBy' = NobodyYet
  <2>1. passedBy' \in [Cases -> 0..3] /\ passedBy'[patient] = 0 /\ (\A c \in Cases : TakesTurns(c)')
    BY <1>1, <1>2, <1>7 DEF NobodyYet, TakesTurns
  <2> QED BY <1>1, <1>5, <1>6, <1>7, <2>1 DEF RotaInv, RotaTypes, NobodyYet
<1>8. CASE passedBy' # NobodyYet
  <2>1. TurnOf # patient /\ passedBy' = passedBy
    BY <1>1, <1>8
  <2>2. \A c \in Cases : ComesBefore(c, Tail(round.left)) => ComesBefore(c, round.left)
    BY <1>1, <1>2, <2>1, TailKeepsOrder DEF TurnOf
  <2>3. ASSUME NEW c \in Cases, ~unsaved PROVE TakesTurns(c)'
    <3>1. TakesTurns(c)
      BY <2>3 DEF RotaInv
    <3>2. ComesBefore(c, round.left)' => ComesBefore(c, round.left)
      <4>1. ComesBefore(c, round.left)' => ComesBefore(c, Tail(round.left))
        BY <1>1, <1>3 DEF ComesBefore
      <4> QED BY <2>2, <4>1
    <3> QED BY <1>1, <1>3, <2>1, <3>1, <3>2 DEF TakesTurns
  <2> QED BY <1>1, <1>5, <1>6, <2>1, <2>3 DEF RotaInv, RotaTypes, NobodyYet
<1> QED BY <1>7, <1>8

\* The pass is over: the order of the times is what it was, unless a save is owed.
LEMMA RestsInOrder ==
    ASSUME RotaInv, NEW m \in [Cases -> Nat], NEW r \in [Cases -> Nat], Settle(m, r, Resting),
           UNCHANGED <<followed, patient, passedBy>>, unsaved' \in BOOLEAN, unsaved => unsaved',
           ~unsaved' => m = memory /\ r = memory
    PROVE  RotaInv'
<1>1. Resting \in Rounds /\ Once(Resting.left) /\ Resting.left = << >> /\ Resting.read = {}
  BY DEF Resting, Rounds, Once
<1>2. /\ memory' \in [Cases -> Nat] /\ rows' \in [Cases -> Nat]
      /\ RoundIsInOrder' /\ WithoutGaps'
      /\ round'.left = << >>
      /\ m = r => memory' = rows'
      /\ \A c, d \in Cases : m[c] < m[d] => memory'[c] < memory'[d]
  BY <1>1, StepIsInOrder
<1>3. ASSUME ~unsaved', NEW c \in Cases PROVE TakesTurns(c)'
  <2>1. TakesTurns(c) /\ patient \in Cases /\ m = memory
    BY <1>3 DEF RotaInv, RotaTypes
  <2>2. ~ComesBefore(c, round.left)'
    BY <1>2 DEF ComesBefore
  <2> QED BY <1>2, <2>1, <2>2 DEF TakesTurns
<1>4. StoreFollows'
  BY <1>2 DEF StoreFollows
<1> QED BY <1>2, <1>3, <1>4 DEF RotaInv, RotaTypes, NobodyYet

\* The end of a pass, saved or not, and that of the process.
LEMMA EndTakesTurns == RotaInv /\ (Saves \/ SaveFails \/ RotaRestart) => RotaInv'
<1> SUFFICES ASSUME RotaInv, Saves \/ SaveFails \/ RotaRestart PROVE RotaInv'
  OBVIOUS
<1>1. memory \in [Cases -> Nat] /\ rows \in [Cases -> Nat] /\ unsaved \in BOOLEAN
  BY DEF RotaInv, RotaTypes
<1>2. CASE Saves
  <2>1. PICK r \in {memory} \union (IF round.read = {} THEN {rows} ELSE {}) :
               Settle(memory, r, Resting)
    BY <1>2 DEF Saves
  <2>2. r \in [Cases -> Nat] /\ (~unsaved => r = memory)
    BY <1>1 DEF RotaInv, StoreFollows
  <2>3. UNCHANGED <<followed, patient, passedBy, unsaved>>
    BY <1>2 DEF Saves
  <2> QED BY <1>1, <2>1, <2>2, <2>3, RestsInOrder
<1>3. CASE SaveFails
  BY <1>1, <1>3, RestsInOrder DEF SaveFails
<1>4. CASE RotaRestart
  <2>1. /\ Settle(rows, rows, Resting) /\ UNCHANGED <<followed, patient, passedBy>>
        /\ unsaved' = (unsaved \/ memory # rows)
    BY <1>4 DEF RotaRestart
  <2>2. unsaved' \in BOOLEAN /\ (unsaved => unsaved') /\ (~unsaved' => rows = memory)
    BY <2>1
  <2> QED BY <1>1, <2>1, <2>2, RestsInOrder
<1> QED BY <1>2, <1>3, <1>4

\* The specialist does something to one case c between two steps of a pass, and the
\* cabinet is saved: c may get the latest time of all; the patient's turn is over if
\* it is the patient.
LEMMA DeskKeepsOrder ==
    ASSUME RotaInv, NEW c \in Cases, NEW m \in [Cases -> Nat], Settle(m, m, round),
           \A d \in Cases \ {c} : m[d] = memory[d],
           m[c] = memory[c] \/ \A d \in Cases : memory[d] < m[c],
           passedBy' = IF c = patient THEN NobodyYet ELSE passedBy,
           followed' \subseteq Cases, followed' \ {c} = followed \ {c},
           UNCHANGED <<patient, unsaved>>
    PROVE  RotaInv'
<1>1. /\ round \in Rounds /\ Once(round.left) /\ patient \in Cases
      /\ round.at = "rest" => round.left = << >> /\ round.read = {}
      /\ memory \in [Cases -> Nat]
  BY DEF RotaInv, RotaTypes, RoundIsInOrder
<1>2. /\ memory' \in [Cases -> Nat] /\ rows' \in [Cases -> Nat]
      /\ RoundIsInOrder' /\ WithoutGaps'
      /\ round'.left = round.left /\ memory' = rows'
      /\ \A d, e \in Cases : m[d] < m[e] => memory'[d] < memory'[e]
      /\ \A d \in Cases : m[d] < round.now => memory'[d] < round'.now
  BY <1>1, StepIsInOrder
<1>3. StoreFollows'
  BY <1>2 DEF StoreFollows
<1>4. CASE c = patient
  <2>1. passedBy' \in [Cases -> 0..3] /\ passedBy'[patient] = 0 /\ (\A d \in Cases : TakesTurns(d)')
    BY <1>1, <1>4 DEF NobodyYet, TakesTurns
  <2> QED BY <1>2, <1>3, <1>4, <2>1 DEF RotaInv, RotaTypes, NobodyYet
<1>5. CASE c # patient
  <2>1. passedBy' = passedBy /\ (patient \in followed' <=> patient \in followed)
    BY <1>5
  <2>2. ASSUME ~unsaved, NEW d \in Cases PROVE TakesTurns(d)'
    <3>1. TakesTurns(d) /\ m[patient] = memory[patient]
      BY <1>1, <1>5, <2>2 DEF RotaInv
    <3>2. ComesBefore(d, round.left)' <=> ComesBefore(d, round.left)
      BY <1>2 DEF ComesBefore
    <3>3. memory[patient] < memory[d] => memory'[patient] < memory'[d]
      <4>1. memory[patient] < memory[d] => m[patient] < m[d]
        BY <1>1, <3>1
      <4> QED BY <1>1, <1>2, <4>1
    <3>4. memory[patient] < round.now => memory'[patient] < round'.now
      BY <1>1, <1>2, <3>1
    <3> QED BY <2>1, <3>1, <3>2, <3>3, <3>4 DEF TakesTurns
  <2> QED BY <1>2, <1>3, <2>1, <2>2 DEF RotaInv, RotaTypes, NobodyYet
<1> QED BY <1>4, <1>5

\* A case read at the desk, a decision.
LEMMA DeskTakesTurns ==
    ASSUME RotaInv, NEW c \in Cases, DeskReads(c) \/ Decides(c)
    PROVE  RotaInv'
<1>1. memory \in [Cases -> Nat] /\ followed \subseteq Cases
  BY DEF RotaInv, RotaTypes
<1>2. CASE DeskReads(c)
  <2>1. Now \in Nat /\ \A d \in Cases : memory[d] < Now
    BY NowIsLater
  <2> DEFINE m == [memory EXCEPT ![c] = Now]
  <2>2. /\ Settle(m, m, round) /\ UNCHANGED <<followed, patient, unsaved>>
        /\ passedBy' = IF c = patient THEN NobodyYet ELSE passedBy
    BY <1>2 DEF DeskReads
  <2>3. /\ m \in [Cases -> Nat] /\ \A d \in Cases \ {c} : m[d] = memory[d]
        /\ \A d \in Cases : memory[d] < m[c]
    BY <1>1, <2>1
  <2> HIDE DEF m
  <2> QED BY <1>1, <2>2, <2>3, DeskKeepsOrder
<1>3. CASE Decides(c)
  <2>1. /\ Settle(memory, memory, round) /\ UNCHANGED <<patient, unsaved>>
        /\ passedBy' = IF c = patient THEN NobodyYet ELSE passedBy
        /\ followed' = IF c \in followed THEN followed \ {c} ELSE followed \union {c}
    BY <1>3 DEF Decides
  <2>2. followed' \subseteq Cases /\ followed' \ {c} = followed \ {c}
    BY <1>1, <2>1
  <2> QED BY <1>1, <2>1, <2>2, DeskKeepsOrder
<1> QED BY <1>2, <1>3

\* All cases have a snapshot when the rota starts, or none has.
LEMMA RotaStarts == RotaInit => RotaInv
<1> SUFFICES ASSUME RotaInit PROVE RotaInv
  OBVIOUS
<1>1. /\ memory \in [Cases -> Nat] /\ rows = memory /\ round = Resting /\ passedBy = NobodyYet
      /\ patient \in Cases /\ followed = Cases /\ unsaved = FALSE
  BY DEF RotaInit, NobodyYet
<1>2. RoundIsInOrder
  BY <1>1 DEF RoundIsInOrder, Resting, Rounds, Once
<1>3. WithoutGaps
  <2> DEFINE T == Times(memory, rows, round)
  <2>1. \A t \in T : t \in {0, 1}
    BY <1>1 DEF Times, Resting, RotaInit, NobodyYet
  <2>2. IsFiniteSet(T)
    BY <1>1, TimesAreFinite DEF Resting
  <2> HIDE DEF T
  <2>3. IsFiniteSet(T \ {Unread}) /\ Cardinality(T \ {Unread}) \in Nat
    BY <2>2, FS_Difference, FS_CardinalityType
  <2>4. ASSUME NEW t \in T PROVE t <= Cardinality(T \ {Unread})
    <3>1. CASE t = 0
      BY <2>3, <3>1
    <3>2. CASE t = 1
      <4>1. t \in T \ {Unread}
        BY <3>2 DEF Unread
      <4>2. Cardinality(T \ {Unread}) # 0
        BY <2>3, <4>1, FS_EmptySet
      <4> QED BY <2>3, <3>2, <4>2
    <3> QED BY <2>1, <3>1, <3>2
  <2> QED BY <2>4 DEF WithoutGaps, T
<1>4. passedBy \in [Cases -> 0..3] /\ passedBy[patient] = 0 /\ \A c \in Cases : TakesTurns(c)
  BY <1>1, FreshStart
<1> QED BY <1>1, <1>2, <1>3, <1>4 DEF RotaInv, RotaTypes, StoreFollows

LEMMA RotaStep ==
    ASSUME RotaInv, [RotaNext]_rotaVars PROVE RotaInv'
<1>1. CASE StartRound
  BY <1>1, StartRoundTakesTurns
<1>2. CASE Reads
  BY <1>2, ReadsTakesTurns
<1>3. CASE Unreadable
  BY <1>3, UnreadableTakesTurns
<1>4. CASE Saves \/ SaveFails \/ RotaRestart
  BY <1>4, EndTakesTurns
<1>5. CASE \E c \in Cases : DeskReads(c) \/ Decides(c)
  BY <1>5, DeskTakesTurns
<1>6. CASE UNCHANGED rotaVars
  <2>1. UNCHANGED <<followed, memory, rows, round, patient, passedBy, unsaved>>
    BY <1>6 DEF rotaVars
  <2>2. RotaTypes' /\ RoundIsInOrder' /\ StoreFollows'
    BY <2>1 DEF RotaInv, RotaTypes, RoundIsInOrder, Once, StoreFollows
  <2>3. Times(memory, rows, round)' = Times(memory, rows, round)
    BY <2>1 DEF Times
  <2>4. WithoutGaps'
    BY <2>3 DEF RotaInv, WithoutGaps
  <2>5. ASSUME NEW c \in Cases PROVE TakesTurns(c)' <=> TakesTurns(c)
    <3>1. ComesBefore(c, round.left)' <=> ComesBefore(c, round.left)
      BY <2>1 DEF ComesBefore
    <3> QED BY <2>1, <3>1 DEF TakesTurns
  <2> QED BY <2>1, <2>2, <2>4, <2>5 DEF RotaInv, NobodyYet
<1> QED BY <1>1, <1>2, <1>3, <1>4, <1>5, <1>6 DEF RotaNext

\* Where the list comes from and which pages are gone, no step of the rota changes.
LEMMA RotaTyped ==
    ASSUME RotaInv, lists \in {"rows", "memory"}, gone \in Withdrawn PROVE RotaTypeOK
BY DEF RotaInv, RotaTypes, RoundIsInOrder, Rounds, RotaTypeOK

LEMMA RotaStays ==
    ASSUME [RotaNext]_rotaVars PROVE UNCHANGED <<lists, gone>>
BY DEF RotaNext, rotaVars, StartRound, Reads, Unreadable, Saves, SaveFails, RotaRestart,
       DeskReads, Decides

\* Every case gets its turn before another is read a third time, whether the list
\* comes from the store or from memory, as long as no save was missed.
THEOREM EveryCaseHasItsTurn == Rota => []InTurn
<1>1. RotaInv /\ [RotaNext]_rotaVars => RotaInv'
  BY RotaStep
<1>2. RotaInv => InTurn
  BY DEF RotaInv, InTurn, TakesTurns
<1> QED BY <1>1, <1>2, RotaStarts, PTL DEF Rota

-----------------------------------------------------------------------------
(* The watermark.                                                          *)
USE LanesAssumption, SizesAssumption, TimesAssumption, DurableAssumption, BoundsAssumption

(* The constants built from the lanes have their types. *)
LEMMA ConstantTypes ==
    /\ NoTime \in Int
    /\ NoToken \in Tokens
    /\ NoCursors \in [Lanes -> Tokens]
    /\ Never \in [Lanes -> Int]
    /\ NoPass \in Passes
    /\ \A t \in Nat : NewCabinet(t) \in Cabinets
<1>1. NoTime \in Int
  BY DEF NoTime
<1>2. NoToken \in Tokens
  BY DEF NoToken, Tokens
<1>3. NoCursors \in [Lanes -> Tokens]
  BY <1>2 DEF NoCursors
<1>4. Never \in [Lanes -> Int]
  BY <1>1 DEF Never
<1>5. NoPass \in Passes
  BY <1>1, <1>3, <1>4 DEF NoPass, Passes
<1>6. \A t \in Nat : NewCabinet(t) \in Cabinets
  BY <1>1, <1>3, <1>4 DEF NewCabinet, Cabinets
<1> QED BY <1>1, <1>2, <1>3, <1>4, <1>5, <1>6

(* What a lane call returns has the right type. *)
LEMMA LaneTypes ==
    ASSUME TypeOK, NEW l \in Lanes
    PROVE  /\ PublishedFrom(cabinet, now) \in Int
           /\ LaneStart(l) \in Nat \ {0}
           /\ NewToken(l) \in Tokens
           /\ LaneHits(l) \subseteq Rows
<1>1. PublishedFrom(cabinet, now) \in Int
  BY DEF TypeOK, Cabinets, PublishedFrom
<1>2. LaneStart(l) \in Nat \ {0}
  <2>1. pass.cursors[l].next \in Nat /\ pass.page \in Nat /\ pass.page * Limit \in Nat
    BY DEF TypeOK, Passes, Tokens
  <2> QED BY <2>1 DEF LaneStart, LaneResumes, Resumes
<1>3. NewToken(l) \in Tokens
  BY SMTT(30), <1>2 DEF NewToken, Tokens, TypeOK, Passes
<1>4. LaneHits(l) \subseteq Rows
  <2>1. Len(registry[l]) \in Nat
    BY DEF TypeOK
  <2>2. WindowRows(registry[l], pass.from, LaneStart(l)) \subseteq Nat
    BY <2>1 DEF WindowRows
  <2> QED BY <2>2 DEF LaneHits, Rows
<1> QED BY <1>1, <1>2, <1>3, <1>4

(* Type correctness is inductive. *)
LEMMA TypeStep ==
    ASSUME TypeOK, [Next]_vars
    PROVE  TypeOK'
<1> USE ConstantTypes
<1>0. /\ now \in Nat
      /\ registry \in [Lanes -> Seq(Nat)]
      /\ cabinet \in Cabinets
      /\ saved \in Cabinets
      /\ pass \in Passes
      /\ faults \in Nat
  BY DEF TypeOK
<1>1. CASE StartPass
  <2>1. SinceAtStart \in [Lanes -> Int]
    BY <1>0 DEF SinceAtStart, Cabinets
  <2>2. PublishedFrom(cabinet, now) \in Int
    BY <1>0 DEF Cabinets, PublishedFrom
  <2>3. cabinet.terms \in Nat /\ cabinet.cursors \in [Lanes -> Tokens]
    BY <1>0 DEF Cabinets
  <2>4. now \in Int
    BY <1>0
  <2> HIDE ConstantTypes
  <2>5. pass' \in Passes
    BY <1>1, <2>1, <2>2, <2>3, <2>4 DEF StartPass, Passes
  <2> QED BY <1>0, <1>1, <2>5 DEF StartPass, TypeOK
<1>2. CASE \E failing \in SUBSET Lanes : PageAnswers(failing)
  <2> PICK failing \in SUBSET Lanes : PageAnswers(failing)
    BY <1>2
  <2>1. MergePageCursors(failing) \in [Lanes -> Tokens]
    BY <1>0, LaneTypes DEF MergePageCursors, Passes, TypeOK
  <2>2. ReadHeads(failing) \in [Lanes -> Int]
    BY <1>0 DEF ReadHeads, Passes
  <2>3. UNION {LaneHits(l) : l \in Lanes \ failing} \subseteq Rows
    BY LaneTypes
  <2> DEFINE more == \E l \in Lanes \ failing : LaneMore(l)
  <2>4. PhaseAfter(pass.page + 1, more) \in {"idle", "search", "score"}
    BY DEF PhaseAfter
  <2>5. more \in BOOLEAN /\ (pass.failed \/ failing # {}) \in BOOLEAN
    OBVIOUS
  <2>6. /\ pass.startedAt \in Int /\ pass.from \in Int /\ pass.terms \in Nat
        /\ pass.page + 1 \in Nat
        /\ pass.hits \cup UNION {LaneHits(l) : l \in Lanes \ failing} \in SUBSET Rows
        /\ pass.answered \cup (Lanes \ failing) \in SUBSET Lanes
    BY <1>0, <2>3 DEF Passes
  <2>7. pass' = [phase |-> PhaseAfter(pass.page + 1, more),
                 startedAt |-> pass.startedAt, from |-> pass.from, terms |-> pass.terms,
                 page |-> pass.page + 1,
                 cursors |-> MergePageCursors(failing), since |-> ReadHeads(failing),
                 hits |-> pass.hits \cup UNION {LaneHits(l) : l \in Lanes \ failing},
                 answered |-> pass.answered \cup (Lanes \ failing),
                 more |-> more, failed |-> pass.failed \/ failing # {}]
    BY DEF PageAnswers
  <2> HIDE ConstantTypes DEF more
  <2>8. pass' \in Passes
    BY <2>1, <2>2, <2>4, <2>5, <2>6, <2>7 DEF Passes
  <2>9. faults' \in Nat
    BY <1>0 DEF PageAnswers
  <2> QED BY <1>0, <2>8, <2>9 DEF PageAnswers, TypeOK
<1>3. CASE FirstPageFails
  BY <1>0, <1>3 DEF FirstPageFails, TypeOK
<1>4. CASE LaterPageFails
  <2>1. pass' \in Passes
    BY <1>0, <1>4 DEF LaterPageFails, Passes
  <2> QED BY <1>0, <1>4, <2>1 DEF LaterPageFails, TypeOK
<1>5. CASE PassDies
  BY <1>0, <1>5 DEF PassDies, TypeOK
<1>6. Delivered \in SUBSET Rows /\ SinceRecorded \in [Lanes -> Int]
  BY <1>0 DEF Delivered, SinceRecorded, Cabinets, Passes
<1>7. CASE RecordClosedWindow
  <2>1. Shortfalls \subseteq Gaps
    BY DEF Shortfalls, Gaps
  <2>2. cabinet.gaps \cup Shortfalls \in SUBSET Gaps
    <3>1. cabinet.gaps \in SUBSET Gaps
      BY <1>0 DEF Cabinets
    <3> QED BY <2>1, <3>1, Zenon
  <2>3. (IF cabinet.watermark = NoTime THEN pass.from ELSE cabinet.floor) \in Int
    BY <1>0 DEF Cabinets, Passes
  <2>4. pass.startedAt \in Int
    BY <1>0 DEF Passes
  <2>5. cabinet' \in Cabinets
    BY <1>0, <1>6, <1>7, <2>2, <2>3, <2>4 DEF RecordClosedWindow, Cabinets
  <2> QED BY <1>0, <1>7, <2>5 DEF RecordClosedWindow, TypeOK
<1>8. CASE RecordHeldWindow
  <2>1. cabinet' \in Cabinets
    BY <1>0, <1>6, <1>8 DEF RecordHeldWindow, Cabinets, Passes
  <2> QED BY <1>0, <1>8, <2>1 DEF RecordHeldWindow, TypeOK
<1>9. CASE EditProfile
  <2>1. cabinet.terms + 1 \in Nat
    <3> HIDE ConstantTypes
    <3>1. cabinet.terms \in Nat
      BY <1>0 DEF Cabinets
    <3> QED BY <3>1
  <2>2. NewCabinet(cabinet.terms + 1) \in Cabinets
    BY <2>1, ConstantTypes, Zenon
  <2> HIDE ConstantTypes
  <2> QED BY <1>0, <1>9, <2>2 DEF EditProfile, TypeOK
<1>10. Durable(cabinet) \in Cabinets
  BY <1>0 DEF Durable, Cabinets
<1>11. CASE SaveCabinet
  BY <1>0, <1>10, <1>11 DEF SaveCabinet, TypeOK
<1>12. CASE SaveProfile
  <2>1. CardsSaved \in SUBSET Rows
    BY <1>0 DEF CardsSaved, Cabinets
  <2>2. cabinet.gaps \cup {"cards"} \in SUBSET Gaps
    BY <1>0 DEF Cabinets, Gaps
  <2>3. saved' \in Cabinets
    BY <1>0, <1>10, <1>12, <2>1, <2>2 DEF SaveProfile, Cabinets
  <2> QED BY <1>0, <1>12, <2>3 DEF SaveProfile, TypeOK
<1>13. CASE Restart
  BY <1>0, <1>13 DEF Restart, TypeOK
<1>14. CASE \E l \in Lanes : Post(l)
  <2> PICK l \in Lanes : Post(l)
    BY <1>14
  <2>1. registry' \in [Lanes -> Seq(Nat)]
    BY <1>0 DEF Post
  <2> QED BY <1>0, <2>1 DEF Post, TypeOK
<1>15. CASE Tick
  BY <1>0, <1>15 DEF Tick, TypeOK
<1>16. CASE UNCHANGED vars
  BY <1>0, <1>16 DEF vars, TypeOK
<1> QED
  BY <1>1, <1>2, <1>3, <1>4, <1>5, <1>7, <1>8, <1>9, <1>11, <1>12, <1>13, <1>14, <1>15, <1>16
     DEF Next, ReadPage

(* Every variable of the discovery pass keeps its type: tokens, watermark  *)
(* and history stay in range through every step of the pass, the store and *)
(* the specialist.                                                         *)
THEOREM TypeCorrect == Spec => []TypeOK
<1>1. Init => TypeOK
  BY ConstantTypes DEF Init, TypeOK
<1>2. TypeOK /\ [Next]_vars => TypeOK'
  BY TypeStep
<1> QED BY <1>1, <1>2, PTL DEF Spec

-----------------------------------------------------------------------------
(* A promise about what was delivered still holds when more was delivered. *)
LEMMA PromiseGrows ==
    ASSUME NEW l, NEW list, NEW today, NEW cursor, NEW since, NEW from,
           NEW delivered, NEW more,
           delivered \subseteq more,
           LanePromise(l, list, today, cursor, since, from, delivered)
    PROVE  LanePromise(l, list, today, cursor, since, from, more)
BY DEF LanePromise

(* A lane without history promises nothing. *)
LEMMA NeverPromises ==
    ASSUME NEW l, NEW list, NEW today, NEW cursor, NEW from, NEW delivered
    PROVE  LanePromise(l, list, today, cursor, NoTime, from, delivered)
BY DEF LanePromise

(* later continues list: rows were only posted at its head, on day today   *)
(* or after.                                                               *)
Continues(list, later, today) ==
    /\ list \in Seq(Nat) /\ later \in Seq(Nat)
    /\ Len(list) <= Len(later)
    /\ \A i \in 1..Len(later) :
          IF i <= Len(list) THEN later[i] = list[i] ELSE later[i] >= today

(* Posts and the calendar break no promise: a new row pushes the old ones  *)
(* down, further behind the token, and is too young to have been promised. *)
LEMMA PromiseLasts ==
    ASSUME NEW l, NEW list, NEW later, NEW today \in Nat, NEW day \in Nat, today <= day,
           NEW cursor \in Tokens, NEW since \in Int, NEW from \in Int, NEW after \in Int,
           from <= after, NEW delivered,
           Continues(list, later, today),
           LanePromise(l, list, today, cursor, since, from, delivered)
    PROVE  LanePromise(l, later, day, cursor, since, after, delivered)
<1> SUFFICES ASSUME since # NoTime
             PROVE  /\ since \in 0..day
                    /\ \A i \in 1..Len(later) :
                          later[i] < since /\ Ahead(later, i, cursor, after)
                            => <<l, i>> \in delivered
  BY DEF LanePromise
<1>0. Len(list) \in Nat /\ Len(later) \in Nat /\ Len(list) <= Len(later)
  BY DEF Continues
<1>1. since \in 0..today
  BY DEF LanePromise
<1>2. since \in 0..day
  BY <1>1
<1>3. ASSUME NEW i \in 1..Len(later), later[i] < since, Ahead(later, i, cursor, after)
      PROVE  <<l, i>> \in delivered
  <2>1. later[i] \in Nat
    BY <1>0 DEF Continues
  <2>2. i \in 1..Len(list) /\ later[i] = list[i]
    BY <1>0, <1>1, <1>3, <2>1 DEF Continues
  <2>3. Ahead(list, i, cursor, from)
    BY <1>0, <1>3, <2>1, <2>2 DEF Ahead, Position, Tokens
  <2> QED BY <1>3, <2>2, <2>3 DEF LanePromise
<1> QED BY <1>2, <1>3

(* The same of everything a cabinet stands for. *)
LEMMA CabinetLasts ==
    ASSUME NEW c \in Cabinets, NEW reg, NEW later, NEW today \in Nat, NEW day \in Nat,
           today <= day,
           \A l \in Lanes : Continues(reg[l], later[l], today),
           CabinetInv(c, reg, today)
    PROVE  CabinetInv(c, later, day)
<1>1. c.watermark # NoTime => c.watermark \in 0..day
  BY DEF CabinetInv
<1>2. ASSUME c.gaps = {} PROVE NothingBehindWatermark(c, later)
  <2> SUFFICES ASSUME c.watermark # NoTime, NEW l \in Lanes, NEW i \in 1..Len(later[l]),
                      later[l][i] >= c.floor, later[l][i] < c.watermark - Margin
               PROVE  <<l, i>> \in c.found
    BY DEF NothingBehindWatermark
  <2>0. Len(reg[l]) \in Nat /\ Len(later[l]) \in Nat /\ later[l][i] \in Nat
    BY DEF Continues
  <2>1. c.watermark \in 0..today /\ NothingBehindWatermark(c, reg)
    BY <1>2 DEF CabinetInv
  <2>2. i \in 1..Len(reg[l]) /\ later[l][i] = reg[l][i]
    BY <2>0, <2>1 DEF Continues
  <2> QED BY <2>1, <2>2 DEF NothingBehindWatermark
<1>3. ASSUME c.gaps = {}, NEW l \in Lanes
      PROVE  LanePromise(l, later[l], day, c.cursors[l], c.since[l],
                         PublishedFrom(c, day), c.found)
  <2>1. /\ c.cursors[l] \in Tokens
        /\ c.since[l] \in Int
        /\ c.watermark \in Int
    BY DEF Cabinets
  <2>2. /\ PublishedFrom(c, today) \in Int
        /\ PublishedFrom(c, day) \in Int
        /\ PublishedFrom(c, today) <= PublishedFrom(c, day)
    BY <2>1 DEF PublishedFrom
  <2>3. LanePromise(l, reg[l], today, c.cursors[l], c.since[l], PublishedFrom(c, today), c.found)
    BY <1>3 DEF CabinetInv
  <2> QED BY <2>1, <2>2, <2>3, PromiseLasts
<1> QED BY <1>1, <1>2, <1>3 DEF CabinetInv

(* Every step of the specification leaves the registries and the calendar  *)
(* in a state that continues the one before.                               *)
LEMMA EnvironmentStep ==
    ASSUME TypeOK, [Next]_vars
    PROVE  /\ now \in Nat /\ now' \in Nat /\ now <= now'
           /\ \A l \in Lanes : Continues(registry[l], registry'[l], now)
<1>0. now \in Nat /\ registry \in [Lanes -> Seq(Nat)]
  BY DEF TypeOK
<1>1. CASE \E l \in Lanes : Post(l)
  <2> PICK l \in Lanes : Post(l)
    BY <1>1
  <2>1. now' = now /\ registry' = [registry EXCEPT ![l] = Append(@, now)]
    BY DEF Post
  <2>2. ASSUME NEW k \in Lanes PROVE Continues(registry[k], registry'[k], now)
    <3>1. CASE k = l
      <4>1. registry'[k] = Append(registry[k], now) /\ registry[k] \in Seq(Nat)
        BY <1>0, <2>1, <3>1
      <4> QED BY <1>0, <4>1 DEF Continues
    <3>2. CASE k # l
      <4>1. registry'[k] = registry[k] /\ registry[k] \in Seq(Nat)
        BY <1>0, <2>1, <3>2
      <4> QED BY <1>0, <4>1 DEF Continues
    <3> QED BY <3>1, <3>2
  <2> QED BY <1>0, <2>1, <2>2
<1>2. CASE registry' = registry /\ now' \in {now, now + 1}
  <2>1. ASSUME NEW k \in Lanes PROVE Continues(registry[k], registry'[k], now)
    <3>1. registry'[k] = registry[k] /\ registry[k] \in Seq(Nat)
      BY <1>0, <1>2
    <3> QED BY <1>0, <3>1 DEF Continues
  <2> QED BY <1>0, <1>2, <2>1
<1>3. ~(\E l \in Lanes : Post(l)) => registry' = registry /\ now' \in {now, now + 1}
  BY DEF Next, vars, StartPass, ReadPage, PageAnswers, FirstPageFails, LaterPageFails, PassDies,
         RecordClosedWindow, RecordHeldWindow, EditProfile, SaveCabinet, SaveProfile, Restart, Tick
<1> QED BY <1>1, <1>2, <1>3

-----------------------------------------------------------------------------
(* The three ways a lane call carries a lane's promise on.  A scan of the  *)
(* head starts a promise as of the day of the call.                        *)
LEMMA HeadScan ==
    ASSUME NEW l, NEW list \in Seq(Nat), NEW today \in Nat, NEW from \in Int, NEW terms \in Nat,
           NEW delivered
    PROVE  LanePromise(l, list, today,
                       IF MoreBelow(list, from, 1)
                       THEN [next |-> 1 + Limit, from |-> from, terms |-> terms] ELSE NoToken,
                       today, from, delivered \cup ({l} \X WindowRows(list, from, 1)))
<1> DEFINE cursor == IF MoreBelow(list, from, 1)
                    THEN [next |-> 1 + Limit, from |-> from, terms |-> terms] ELSE NoToken
<1>0. Len(list) \in Nat
  OBVIOUS
<1>1. ASSUME NEW i \in 1..Len(list), Ahead(list, i, cursor, from)
      PROVE  i \in WindowRows(list, from, 1)
  <2>1. list[i] \in Nat
    BY <1>0
  <2>2. CASE MoreBelow(list, from, 1)
    <3>1. cursor.next = 1 + Limit /\ cursor.from = from /\ cursor # NoToken
      BY <2>2 DEF NoToken
    <3> QED BY <1>0, <1>1, <3>1 DEF Ahead, WindowRows, Position
  <2>3. CASE ~MoreBelow(list, from, 1)
    <3>1. list[i] >= from
      BY <1>1, <2>3 DEF Ahead
    <3>2. Position(list, i) < 1 + Limit
      BY <1>0, <2>1, <2>3, <3>1 DEF MoreBelow, Position
    <3> QED BY <1>0, <3>1, <3>2 DEF WindowRows, Position
  <2> QED BY <2>2, <2>3
<1> HIDE DEF cursor
<1>2. LanePromise(l, list, today, cursor, today, from,
                  delivered \cup ({l} \X WindowRows(list, from, 1)))
  BY <1>1 DEF LanePromise
<1> QED BY <1>2 DEF cursor

(* A resumed scan delivers the window under the token and moves the token  *)
(* below it; without more rows below, the lane's window is delivered.      *)
LEMMA ResumedScan ==
    ASSUME NEW l, NEW list \in Seq(Nat), NEW today \in Nat, NEW cursor \in Tokens, NEW since \in Int,
           NEW from \in Int, NEW terms \in Nat, NEW delivered,
           cursor.next > 0, cursor.from = from,
           LanePromise(l, list, today, cursor, since, from, delivered)
    PROVE  LanePromise(l, list, today,
                       IF MoreBelow(list, from, cursor.next)
                       THEN [next |-> cursor.next + Limit, from |-> from, terms |-> terms]
                       ELSE NoToken,
                       since, from,
                       delivered \cup ({l} \X WindowRows(list, from, cursor.next)))
<1> DEFINE after == IF MoreBelow(list, from, cursor.next)
                    THEN [next |-> cursor.next + Limit, from |-> from, terms |-> terms] ELSE NoToken
           more == delivered \cup ({l} \X WindowRows(list, from, cursor.next))
<1> SUFFICES ASSUME since # NoTime
             PROVE  /\ since \in 0..today
                    /\ \A i \in 1..Len(list) :
                          list[i] < since /\ Ahead(list, i, after, from) => <<l, i>> \in more
  BY DEF LanePromise
<1>0. Len(list) \in Nat /\ cursor.next \in Nat
  BY DEF Tokens
<1>1. since \in 0..today
  BY DEF LanePromise
<1>2. ASSUME NEW i \in 1..Len(list), list[i] < since, Ahead(list, i, after, from)
      PROVE  <<l, i>> \in more
  <2>1. list[i] \in Nat
    BY <1>0
  <2>2. list[i] >= from /\ Position(list, i) < cursor.next + Limit
    <3>1. CASE MoreBelow(list, from, cursor.next)
      <4>1. after.next = cursor.next + Limit /\ after.from = from /\ after # NoToken
        BY <1>0, <3>1 DEF NoToken
      <4> QED BY <1>2, <4>1 DEF Ahead
    <3>2. CASE ~MoreBelow(list, from, cursor.next)
      <4>1. list[i] >= from
        BY <1>2, <3>2 DEF Ahead
      <4> QED BY <1>0, <2>1, <3>2, <4>1 DEF MoreBelow, Position
    <3> QED BY <3>1, <3>2
  <2>3. CASE Position(list, i) < cursor.next
    <3>1. cursor # NoToken
      BY DEF NoToken
    <3>2. Ahead(list, i, cursor, from)
      BY <2>2, <2>3, <3>1 DEF Ahead
    <3> QED BY <1>2, <3>2 DEF LanePromise
  <2>4. CASE ~(Position(list, i) < cursor.next)
    <3>1. i \in WindowRows(list, from, cursor.next)
      BY <1>0, <2>2, <2>4 DEF WindowRows, Position
    <3> QED BY <3>1
  <2> QED BY <2>3, <2>4
<1> QED BY <1>1, <1>2

(* A lane that was read to its end keeps its promise whatever it is asked  *)
(* and answers next.                                                       *)
LEMMA ScanPastTheEnd ==
    ASSUME NEW l, NEW list, NEW today, NEW since, NEW from, NEW start, NEW terms, NEW delivered,
           LanePromise(l, list, today, NoToken, since, from, delivered)
    PROVE  LanePromise(l, list, today,
                       IF MoreBelow(list, from, start)
                       THEN [next |-> start + Limit, from |-> from, terms |-> terms] ELSE NoToken,
                       since, from,
                       delivered \cup ({l} \X WindowRows(list, from, start)))
<1> DEFINE after == IF MoreBelow(list, from, start)
                    THEN [next |-> start + Limit, from |-> from, terms |-> terms] ELSE NoToken
<1>1. \A i : Ahead(list, i, after, from) => Ahead(list, i, NoToken, from)
  <2>1. after = NoToken \/ after.from = from
    OBVIOUS
  <2> HIDE DEF after
  <2> QED BY <2>1 DEF Ahead
<1> HIDE DEF after
<1>2. LanePromise(l, list, today, after, since, from,
                  delivered \cup ({l} \X WindowRows(list, from, start)))
  BY <1>1 DEF LanePromise
<1> QED BY <1>2 DEF after

-----------------------------------------------------------------------------
(* One page answered: every lane's promise is carried on, whether the lane *)
(* failed, resumed, scanned its head or was asked past its end.            *)
LEMMA PagePromise ==
    ASSUME TypeOK, PassInv, NEW failing \in SUBSET Lanes, PageAnswers(failing),
           SameTerms, cabinet.gaps = {}, NEW l \in Lanes
    PROVE  LanePromise(l, registry[l], now, MergePageCursors(failing)[l], ReadHeads(failing)[l],
                       pass.from,
                       cabinet.found \cup (pass.hits \cup UNION {LaneHits(k) : k \in Lanes \ failing}))
<1> DEFINE list == registry[l]
           before == cabinet.found \cup pass.hits
           all == cabinet.found \cup (pass.hits \cup UNION {LaneHits(k) : k \in Lanes \ failing})
           cursor == pass.cursors[l]
           answer == IF MoreBelow(list, pass.from, LaneStart(l))
                     THEN [next |-> LaneStart(l) + Limit, from |-> pass.from, terms |-> pass.terms]
                     ELSE NoToken
           mine == before \cup ({l} \X WindowRows(list, pass.from, LaneStart(l)))
<1>0. /\ list \in Seq(Nat) /\ now \in Nat /\ pass.from \in Int /\ pass.terms \in Nat
      /\ cursor \in Tokens /\ pass.since[l] \in Int /\ pass.page \in Nat
  BY DEF TypeOK, Passes
<1>1. LanePromise(l, list, now, cursor, pass.since[l], pass.from, before)
  BY DEF PassInv, PageAnswers
<1>2. pass.since[l] # NoTime => cursor = NoToken \/ LaneResumes(l)
  BY DEF PassInv, PageAnswers
<1>3. CASE l \in failing
  <2>1. MergePageCursors(failing)[l] = cursor /\ ReadHeads(failing)[l] = pass.since[l]
    BY <1>3 DEF MergePageCursors, ReadHeads
  <2>2. before \subseteq all
    OBVIOUS
  <2> HIDE DEF before, all, cursor, list
  <2>3. LanePromise(l, list, now, cursor, pass.since[l], pass.from, all)
    BY <1>1, <2>2, PromiseGrows
  <2> QED BY <2>1, <2>3 DEF all, list
<1>4. CASE l \notin failing
  <2>1. MergePageCursors(failing)[l] = answer
    BY <1>4 DEF MergePageCursors, LaneMore, NewToken
  <2>2. mine \subseteq all
    BY <1>4 DEF LaneHits
  <2>3. LanePromise(l, list, now, answer, ReadHeads(failing)[l], pass.from, mine)
    <3>1. CASE LaneResumes(l)
      <4>1. ReadHeads(failing)[l] = pass.since[l]
        BY <3>1 DEF ReadHeads
      <4>2. cursor.next > 0 /\ cursor.from = pass.from /\ LaneStart(l) = cursor.next
        BY <3>1 DEF LaneResumes, Resumes, LaneStart
      <4> HIDE DEF before, list, cursor
      <4>3. LanePromise(l, list, now,
                        IF MoreBelow(list, pass.from, cursor.next)
                        THEN [next |-> cursor.next + Limit, from |-> pass.from, terms |-> pass.terms]
                        ELSE NoToken,
                        pass.since[l], pass.from,
                        before \cup ({l} \X WindowRows(list, pass.from, cursor.next)))
        BY <1>0, <1>1, <4>2, ResumedScan
      <4> QED BY <4>1, <4>2, <4>3
    <3>2. CASE ~LaneResumes(l) /\ pass.page = 0
      <4>1. ReadHeads(failing)[l] = now
        BY <1>4, <3>2 DEF ReadHeads
      <4>2. LaneStart(l) = 1
        BY <3>2 DEF LaneStart
      <4> HIDE DEF before, list, cursor
      <4>3. LanePromise(l, list, now,
                        IF MoreBelow(list, pass.from, 1)
                        THEN [next |-> 1 + Limit, from |-> pass.from, terms |-> pass.terms]
                        ELSE NoToken,
                        now, pass.from, before \cup ({l} \X WindowRows(list, pass.from, 1)))
        BY <1>0, HeadScan
      <4> QED BY <4>1, <4>2, <4>3
    <3>3. CASE ~LaneResumes(l) /\ pass.page # 0
      <4>1. ReadHeads(failing)[l] = pass.since[l]
        BY <3>3 DEF ReadHeads
      <4>2. CASE pass.since[l] = NoTime
        BY <4>1, <4>2, NeverPromises
      <4>3. CASE cursor = NoToken
        <5>1. LanePromise(l, list, now, NoToken, pass.since[l], pass.from, before)
          BY <1>1, <4>3
        <5> HIDE DEF before, list, cursor
        <5>2. LanePromise(l, list, now,
                          IF MoreBelow(list, pass.from, LaneStart(l))
                          THEN [next |-> LaneStart(l) + Limit, from |-> pass.from,
                                terms |-> pass.terms]
                          ELSE NoToken,
                          pass.since[l], pass.from,
                          before \cup ({l} \X WindowRows(list, pass.from, LaneStart(l))))
          BY <5>1, ScanPastTheEnd
        <5> QED BY <4>1, <5>2
      <4> QED BY <1>2, <3>3, <4>2, <4>3
    <3> QED BY <3>1, <3>2, <3>3
  <2> HIDE DEF mine, all, list, answer
  <2>4. LanePromise(l, list, now, answer, ReadHeads(failing)[l], pass.from, all)
    BY <2>2, <2>3, PromiseGrows
  <2> QED BY <2>1, <2>4 DEF all, list
<1> QED BY <1>3, <1>4

-----------------------------------------------------------------------------
(* The durable part of a cabinet promises no more than the cabinet.        *)
LEMMA DurablePromise ==
    ASSUME NEW c \in Cabinets, NEW reg, NEW today, CabinetInv(c, reg, today)
    PROVE  CabinetInv(Durable(c), reg, today)
<1>1. CASE CursorsDurable
  BY <1>1 DEF Durable
<1>2. CASE ~CursorsDurable
  <2> DEFINE d == Durable(c)
  <2>1. /\ d.watermark = c.watermark /\ d.gaps = c.gaps /\ d.found = c.found
        /\ d.floor = c.floor /\ d.since = Never
    BY <1>2 DEF Durable, Cabinets
  <2>2. NothingBehindWatermark(c, reg) => NothingBehindWatermark(d, reg)
    BY <2>1 DEF NothingBehindWatermark
  <2> HIDE DEF d
  <2>3. \A l \in Lanes : d.since[l] = NoTime
    BY <2>1 DEF Never
  <2>4. \A l \in Lanes : LanePromise(l, reg[l], today, d.cursors[l], d.since[l],
                                    PublishedFrom(d, today), d.found)
    BY <2>3, NeverPromises
  <2> QED BY <2>1, <2>2, <2>4 DEF CabinetInv, d
<1> QED BY <1>1, <1>2

(* A cabinet with more cards found keeps what its profile promised. *)
LEMMA CardsAdded ==
    ASSUME NEW c \in Cabinets, NEW d \in Cabinets, NEW reg, NEW today,
           d.terms = c.terms, d.watermark = c.watermark, d.cursors = c.cursors, d.floor = c.floor,
           d.since = c.since, d.gaps = c.gaps, c.found \subseteq d.found,
           CabinetInv(c, reg, today)
    PROVE  CabinetInv(d, reg, today)
<1>1. d.watermark # NoTime => d.watermark \in 0..today
  BY DEF CabinetInv
<1>2. PublishedFrom(d, today) = PublishedFrom(c, today)
  BY DEF PublishedFrom
<1>3. ASSUME d.gaps = {} PROVE NothingBehindWatermark(d, reg)
  BY <1>3 DEF CabinetInv, NothingBehindWatermark
<1>4. ASSUME d.gaps = {}, NEW l \in Lanes
      PROVE  LanePromise(l, reg[l], today, d.cursors[l], d.since[l],
                         PublishedFrom(d, today), d.found)
  <2>1. LanePromise(l, reg[l], today, d.cursors[l], d.since[l], PublishedFrom(d, today), c.found)
    BY <1>2, <1>4 DEF CabinetInv
  <2> QED BY <2>1, PromiseGrows
<1> QED BY <1>1, <1>3, <1>4 DEF CabinetInv

(* The store: whatever is saved keeps the promise of what it was saved     *)
(* from, or says in gaps that the cards are missing.                       *)
LEMMA SavedStep ==
    ASSUME IInv, [Next]_vars
    PROVE  CabinetInv(saved, registry, now)'
<1> USE DEF IInv
<1>0. /\ cabinet \in Cabinets /\ saved \in Cabinets
      /\ Durable(cabinet) \in Cabinets
      /\ now \in Nat
  <2>1. cabinet \in Cabinets /\ saved \in Cabinets /\ now \in Nat
    BY DEF TypeOK
  <2>2. Durable(cabinet) \in Cabinets
    BY <2>1, ConstantTypes DEF Durable, Cabinets
  <2> QED BY <2>1, <2>2
<1>1. CASE saved' = saved
  <2>1. CabinetInv(saved, registry', now')
    BY <1>0, EnvironmentStep, CabinetLasts
  <2> QED BY <1>1, <2>1
<1>2. CASE SaveCabinet
  <2>1. saved' = Durable(cabinet) /\ registry' = registry /\ now' = now
    BY <1>2 DEF SaveCabinet
  <2>2. CabinetInv(Durable(cabinet), registry, now)
    BY <1>0, DurablePromise
  <2> QED BY <2>1, <2>2
<1>3. CASE SaveProfile
  <2>1. registry' = registry /\ now' = now /\ saved' \in Cabinets
    BY <1>3, TypeStep DEF SaveProfile, TypeOK
  <2>2. CabinetInv(Durable(cabinet), registry, now)
    BY <1>0, DurablePromise
  <2>3. CASE CardsStranded
    <3>1. "cards" \in saved'.gaps /\ saved'.watermark = Durable(cabinet).watermark
      BY <1>0, <1>3, <2>3 DEF SaveProfile, Cabinets
    <3>2. saved'.watermark # NoTime => saved'.watermark \in 0..now
      BY <2>2, <3>1 DEF CabinetInv
    <3>3. CabinetInv(saved', registry, now)
      BY <3>1, <3>2 DEF CabinetInv
    <3> QED BY <2>1, <3>3
  <2>4. CASE ~CardsStranded
    <3> DEFINE d == Durable(cabinet)
    <3>1. d.found = cabinet.found /\ d.gaps = cabinet.gaps
      BY <1>0 DEF Durable, Cabinets
    <3>2. saved' = [d EXCEPT !.found = CardsSaved, !.since = d.since, !.gaps = cabinet.gaps]
      BY <1>3, <2>4 DEF SaveProfile
    <3>3. d \in Cabinets
      BY <1>0
    <3> HIDE DEF d
    <3>4. /\ saved'.terms = d.terms /\ saved'.watermark = d.watermark
          /\ saved'.cursors = d.cursors /\ saved'.floor = d.floor
          /\ saved'.since = d.since /\ saved'.gaps = d.gaps
          /\ saved'.found = CardsSaved
      BY <3>1, <3>2, <3>3 DEF Cabinets
    <3>5. d.found \subseteq saved'.found
      BY <2>4, <3>1, <3>4 DEF CardsStranded
    <3>6. CabinetInv(d, registry, now)
      BY <2>2 DEF d
    <3>7. CabinetInv(saved', registry, now)
      BY <2>1, <3>3, <3>4, <3>5, <3>6, CardsAdded
    <3> QED BY <2>1, <3>7
  <2> QED BY <2>3, <2>4
<1>4. saved' = saved \/ SaveCabinet \/ SaveProfile
  BY DEF Next, vars, StartPass, ReadPage, PageAnswers, FirstPageFails, LaterPageFails, PassDies,
         RecordClosedWindow, RecordHeldWindow, EditProfile, Restart, Post, Tick
<1> QED BY <1>1, <1>2, <1>3, <1>4

(* The memory: recording a pass keeps the promise, or says in gaps how the *)
(* pass fell short.                                                        *)
LEMMA CabinetStep ==
    ASSUME IInv, [Next]_vars
    PROVE  CabinetInv(cabinet, registry, now)'
<1>0. /\ cabinet \in Cabinets /\ saved \in Cabinets /\ pass \in Passes /\ now \in Nat
      /\ cabinet' \in Cabinets
      /\ CabinetInv(cabinet, registry, now) /\ CabinetInv(saved, registry, now)
  BY TypeStep DEF IInv, TypeOK
<1>1. CASE cabinet' = cabinet
  <2>1. CabinetInv(cabinet, registry', now')
    BY <1>0, EnvironmentStep, CabinetLasts DEF IInv
  <2> QED BY <1>1, <2>1
<1>2. CASE Restart
  <2>1. cabinet' = saved /\ registry' = registry /\ now' = now
    BY <1>2 DEF Restart
  <2> QED BY <1>0, <2>1
<1>3. CASE EditProfile
  <2> DEFINE c == NewCabinet(cabinet.terms + 1)
  <2>1. cabinet' = c /\ registry' = registry /\ now' = now
    BY <1>3 DEF EditProfile
  <2>2. c.watermark = NoTime /\ \A l \in Lanes : c.since[l] = NoTime
    BY DEF NewCabinet, Never
  <2> HIDE DEF c
  <2>3. \A l \in Lanes : LanePromise(l, registry[l], now, c.cursors[l], c.since[l],
                                    PublishedFrom(c, now), c.found)
    BY <2>2, NeverPromises
  <2>4. CabinetInv(c, registry, now)
    BY <2>2, <2>3 DEF CabinetInv, NothingBehindWatermark
  <2> QED BY <2>1, <2>4
<1>4. CASE RecordHeldWindow
  <2>0. /\ registry' = registry /\ now' = now
        /\ cabinet'.watermark = cabinet.watermark /\ cabinet'.cursors = pass.cursors
        /\ cabinet'.found = Delivered /\ cabinet'.since = SinceRecorded
        /\ cabinet'.floor = cabinet.floor /\ cabinet'.gaps = cabinet.gaps
    BY <1>0, <1>4 DEF RecordHeldWindow, Cabinets
  <2>1. cabinet'.watermark # NoTime => cabinet'.watermark \in 0..now
    BY <1>0, <2>0 DEF CabinetInv
  <2>2. ASSUME cabinet.gaps = {} PROVE NothingBehindWatermark(cabinet', registry)
    <3>1. NothingBehindWatermark(cabinet, registry) /\ cabinet.found \subseteq cabinet'.found
      BY <1>0, <2>0, <2>2 DEF CabinetInv, Delivered
    <3> QED BY <2>0, <3>1 DEF NothingBehindWatermark
  <2>3. ASSUME cabinet.gaps = {}, NEW l \in Lanes
        PROVE  LanePromise(l, registry[l], now, cabinet'.cursors[l], cabinet'.since[l],
                           PublishedFrom(cabinet', now), cabinet'.found)
    <3>1. CASE ~SameTerms
      <4>1. cabinet'.since[l] = NoTime
        BY <2>0, <3>1 DEF SinceRecorded, Never
      <4> QED BY <4>1, NeverPromises
    <3>2. CASE SameTerms
      <4>1. /\ cabinet'.since[l] = pass.since[l]
            /\ cabinet'.found = cabinet.found \cup pass.hits
        BY <2>0, <3>2 DEF SinceRecorded, Delivered
      <4>2. LanePromise(l, registry[l], now, pass.cursors[l], pass.since[l], pass.from,
                        cabinet.found \cup pass.hits)
        BY <1>4, <2>3, <3>2 DEF IInv, PassInv, RecordHeldWindow
      <4>3. pass.from <= PublishedFrom(cabinet', now)
        <5>1. pass.from = PublishedFrom(cabinet, pass.startedAt) /\ pass.startedAt \in 0..now
          BY <1>4, <3>2 DEF IInv, PassInv, RecordHeldWindow
        <5>2. cabinet.watermark \in Int
          BY <1>0 DEF Cabinets
        <5> QED BY <1>0, <2>0, <5>1, <5>2 DEF PublishedFrom
      <4>4. Continues(registry[l], registry[l], now)
        <5>1. registry[l] \in Seq(Nat)
          BY DEF IInv, TypeOK
        <5> QED BY <5>1 DEF Continues
      <4>5. /\ pass.cursors[l] \in Tokens /\ pass.since[l] \in Int /\ pass.from \in Int
            /\ PublishedFrom(cabinet', now) \in Int
        BY <1>0 DEF Passes, Cabinets, PublishedFrom
      <4>6. LanePromise(l, registry[l], now, pass.cursors[l], pass.since[l],
                        PublishedFrom(cabinet', now), cabinet.found \cup pass.hits)
        BY <1>0, <4>2, <4>3, <4>4, <4>5, PromiseLasts
      <4> QED BY <2>0, <4>1, <4>6
    <3> QED BY <3>1, <3>2
  <2> QED BY <2>0, <2>1, <2>2, <2>3 DEF CabinetInv
<1>5. CASE RecordClosedWindow
  <2>0. /\ registry' = registry /\ now' = now
        /\ cabinet'.watermark = pass.startedAt /\ cabinet'.cursors = NoCursors
        /\ cabinet'.found = Delivered /\ cabinet'.since = SinceRecorded
        /\ cabinet'.floor = IF cabinet.watermark = NoTime THEN pass.from ELSE cabinet.floor
        /\ cabinet'.gaps = cabinet.gaps \cup Shortfalls
    BY <1>0, <1>5 DEF RecordClosedWindow, Cabinets
  <2>1. pass.startedAt \in 0..now /\ pass.cursors = NoCursors
    BY <1>5 DEF IInv, PassInv, RecordClosedWindow
  <2>2. SUFFICES ASSUME cabinet'.gaps = {}
                 PROVE  /\ NothingBehindWatermark(cabinet', registry)
                        /\ \A l \in Lanes :
                              LanePromise(l, registry[l], now, cabinet'.cursors[l],
                                          cabinet'.since[l], PublishedFrom(cabinet', now),
                                          cabinet'.found)
    BY <2>0, <2>1 DEF CabinetInv
  <2>3. cabinet.gaps = {} /\ Shortfalls = {}
    BY <2>0, <2>2
  <2>4. SameTerms
    BY <2>3 DEF Shortfalls
  <2>5. \A l \in Lanes : pass.since[l] # NoTime
    BY <2>3 DEF Shortfalls
  <2>6. \A l \in Lanes : pass.since[l] \notin (NoTime + 1)..(pass.startedAt - Margin - 1)
    BY <2>3 DEF Shortfalls
  <2>7. /\ pass.from = PublishedFrom(cabinet, pass.startedAt)
        /\ pass.from <= pass.startedAt - Margin
        /\ \A l \in Lanes : LanePromise(l, registry[l], now, NoToken, pass.since[l], pass.from,
                                        cabinet.found \cup pass.hits)
    BY <1>5, <2>1, <2>3, <2>4 DEF IInv, PassInv, RecordClosedWindow, NoCursors
  <2>8. cabinet'.found = cabinet.found \cup pass.hits /\ cabinet'.since = pass.since
    BY <2>0, <2>4 DEF Delivered, SinceRecorded
  <2>9. pass.from \in Int /\ cabinet.watermark \in Int /\ NoTime \in Int
    BY <1>0, ConstantTypes DEF Passes, Cabinets
  <2>10. ASSUME NEW l \in Lanes
         PROVE  LanePromise(l, registry[l], now, cabinet'.cursors[l], cabinet'.since[l],
                            PublishedFrom(cabinet', now), cabinet'.found)
    <3>1. pass.from <= PublishedFrom(cabinet', now)
      BY <2>0, <2>1, <2>7, <2>9 DEF PublishedFrom, NoTime
    <3>2. Continues(registry[l], registry[l], now)
      <4>1. registry[l] \in Seq(Nat)
        BY DEF IInv, TypeOK
      <4> QED BY <4>1 DEF Continues
    <3>3. /\ NoToken \in Tokens /\ pass.since[l] \in Int
          /\ PublishedFrom(cabinet', now) \in Int
      BY <1>0, ConstantTypes DEF Passes, Cabinets, PublishedFrom
    <3>4. LanePromise(l, registry[l], now, NoToken, pass.since[l], pass.from,
                      cabinet.found \cup pass.hits)
      BY <2>7
    <3>5. LanePromise(l, registry[l], now, NoToken, pass.since[l],
                      PublishedFrom(cabinet', now), cabinet.found \cup pass.hits)
      <4> DEFINE after == PublishedFrom(cabinet', now)
                 delivered == cabinet.found \cup pass.hits
      <4>1. after \in Int /\ pass.from <= after
        BY <3>1, <3>3
      <4> HIDE DEF after, delivered
      <4>2. LanePromise(l, registry[l], now, NoToken, pass.since[l], pass.from, delivered)
        BY <3>4 DEF delivered
      <4>3. LanePromise(l, registry[l], now, NoToken, pass.since[l], after, delivered)
        BY <1>0, <2>9, <3>2, <3>3, <4>1, <4>2, PromiseLasts
      <4> QED BY <4>3 DEF after, delivered
    <3> QED BY <2>0, <2>8, <3>5 DEF NoCursors
  <2>11. NothingBehindWatermark(cabinet', registry)
    <3> SUFFICES ASSUME NEW l \in Lanes, NEW i \in 1..Len(registry[l]),
                        registry[l][i] >= cabinet'.floor,
                        registry[l][i] < cabinet'.watermark - Margin
                 PROVE  <<l, i>> \in cabinet'.found
      BY DEF NothingBehindWatermark
    <3>0. registry[l] \in Seq(Nat) /\ registry[l][i] \in Nat
      BY DEF IInv, TypeOK
    <3>1. pass.since[l] \in 0..now
      BY <2>5, <2>7 DEF LanePromise
    <3>2. registry[l][i] < pass.since[l]
      <4>1. pass.since[l] \notin (NoTime + 1)..(pass.startedAt - Margin - 1)
        BY <2>6
      <4>2. NoTime + 1 <= pass.since[l]
        BY <3>1 DEF NoTime
      <4>3. pass.since[l] >= pass.startedAt - Margin
        BY <1>0, <2>1, <2>9, <3>1, <4>1, <4>2
      <4> QED BY SMTT(30), <1>0, <2>0, <2>1, <3>0, <3>1, <4>3
    <3>3. CASE registry[l][i] >= pass.from
      BY <2>5, <2>7, <2>8, <3>2, <3>3 DEF LanePromise, Ahead
    <3>4. CASE ~(registry[l][i] >= pass.from)
      <4>1. cabinet.watermark # NoTime
        BY <2>0, <3>4
      <4>2. registry[l][i] >= cabinet.floor /\ registry[l][i] < cabinet.watermark - Margin
        BY <2>0, <2>7, <2>9, <3>0, <3>4, <4>1 DEF PublishedFrom
      <4>3. <<l, i>> \in cabinet.found
        BY <1>0, <2>3, <4>1, <4>2 DEF CabinetInv, NothingBehindWatermark
      <4> QED BY <2>8, <4>3
    <3> QED BY <3>3, <3>4
  <2> QED BY <2>10, <2>11
<1>6. cabinet' = cabinet \/ Restart \/ EditProfile \/ RecordHeldWindow \/ RecordClosedWindow
  BY DEF Next, vars, StartPass, ReadPage, PageAnswers, FirstPageFails, LaterPageFails, PassDies,
         SaveCabinet, SaveProfile, Post, Tick
<1> QED BY <1>1, <1>2, <1>3, <1>4, <1>5, <1>6

-----------------------------------------------------------------------------
(* The pass in progress: started from the cabinet's promise, carried on by *)
(* every page, void once the profile was edited.                           *)
LEMMA RecordedPassStep ==
    ASSUME IInv, [Next]_vars
    PROVE  PassInv'
<1>0. /\ cabinet \in Cabinets /\ pass \in Passes /\ now \in Nat /\ pass' \in Passes
      /\ registry \in [Lanes -> Seq(Nat)]
      /\ CabinetInv(cabinet, registry, now) /\ PassInv
  BY TypeStep DEF IInv, TypeOK
<1>1. CASE pass'.phase = "idle"
  BY <1>1 DEF PassInv
<1>2. CASE StartPass
  <2>1. /\ pass'.phase = "search" /\ pass'.startedAt = now /\ pass'.terms = cabinet.terms
        /\ pass'.from = PublishedFrom(cabinet, now) /\ pass'.cursors = cabinet.cursors
        /\ pass'.since = SinceAtStart /\ pass'.hits = {}
        /\ cabinet' = cabinet /\ registry' = registry /\ now' = now
    BY <1>2 DEF StartPass
  <2>2. ASSUME NEW l \in Lanes, SinceAtStart[l] # NoTime
        PROVE  /\ SinceAtStart[l] = cabinet.since[l]
               /\ cabinet.cursors[l] = NoToken \/ LaneResumes(l)'
    BY <2>1, <2>2 DEF SinceAtStart, LaneResumes, Resumes
  <2>3. PublishedFrom(cabinet, now) <= now - Margin
    <3>1. cabinet.watermark \in Int /\ (cabinet.watermark # NoTime => cabinet.watermark \in 0..now)
      BY <1>0 DEF Cabinets, CabinetInv
    <3> QED BY <1>0, <3>1 DEF PublishedFrom
  <2>4. ASSUME cabinet.gaps = {}, NEW l \in Lanes
        PROVE  LanePromise(l, registry[l], now, cabinet.cursors[l], SinceAtStart[l],
                           PublishedFrom(cabinet, now), cabinet.found)
    <3>1. CASE SinceAtStart[l] = NoTime
      BY <3>1, NeverPromises
    <3>2. CASE SinceAtStart[l] # NoTime
      BY <1>0, <2>2, <2>4, <3>2 DEF CabinetInv
    <3> QED BY <3>1, <3>2
  <2>5. cabinet.found \cup pass'.hits = cabinet.found
    BY <2>1
  <2>6. cabinet.terms \in Nat
    BY <1>0 DEF Cabinets
  <2>7. pass'.startedAt \in 0..now' /\ pass'.terms <= cabinet'.terms
    BY <1>0, <2>1, <2>6
  <2>8. \A l \in Lanes : pass'.since[l] # NoTime => pass'.cursors[l] = NoToken \/ LaneResumes(l)'
    BY <2>1, <2>2
  <2>9. pass'.from = PublishedFrom(cabinet', pass'.startedAt) /\ pass'.from <= pass'.startedAt - Margin
    BY <2>1, <2>3
  <2>10. cabinet'.gaps = {} =>
           \A l \in Lanes : LanePromise(l, registry'[l], now', pass'.cursors[l], pass'.since[l],
                                       pass'.from, cabinet'.found \cup pass'.hits)
    BY <2>1, <2>4, <2>5
  <2> QED BY <2>1, <2>7, <2>8, <2>9, <2>10 DEF PassInv
<1>3. CASE \E failing \in SUBSET Lanes : PageAnswers(failing)
  <2> PICK failing \in SUBSET Lanes : PageAnswers(failing)
    BY <1>3
  <2>1. /\ pass.phase = "search"
        /\ pass'.startedAt = pass.startedAt /\ pass'.terms = pass.terms /\ pass'.from = pass.from
        /\ pass'.cursors = MergePageCursors(failing) /\ pass'.since = ReadHeads(failing)
        /\ pass'.hits = pass.hits \cup UNION {LaneHits(l) : l \in Lanes \ failing}
        /\ pass'.more = (\E l \in Lanes \ failing : LaneMore(l))
        /\ pass'.failed = (pass.failed \/ failing # {})
        /\ cabinet' = cabinet /\ registry' = registry /\ now' = now
    BY DEF PageAnswers
  <2>2. FullyRead' => pass'.cursors = NoCursors
    <3> SUFFICES ASSUME FullyRead' PROVE MergePageCursors(failing) = NoCursors
      BY <2>1
    <3>1. failing = {} /\ ~\E l \in Lanes : LaneMore(l)
      BY <2>1 DEF FullyRead
    <3> QED BY <3>1 DEF MergePageCursors, NoCursors
  <2>3. ASSUME NEW l \in Lanes, ReadHeads(failing)[l] # NoTime
        PROVE  MergePageCursors(failing)[l] = NoToken \/ LaneResumes(l)'
    <3>1. CASE l \in failing
      <4>1. MergePageCursors(failing)[l] = pass.cursors[l] /\ ReadHeads(failing)[l] = pass.since[l]
        BY <3>1 DEF MergePageCursors, ReadHeads
      <4>2. pass.cursors[l] = NoToken \/ LaneResumes(l)
        BY <1>0, <2>1, <2>3, <4>1 DEF PassInv
      <4> QED BY <2>1, <4>1, <4>2 DEF LaneResumes
    <3>2. CASE l \notin failing /\ LaneMore(l)
      <4>1. MergePageCursors(failing)[l] = NewToken(l)
        BY <3>2 DEF MergePageCursors
      <4>2. LaneStart(l) + Limit > 0
        BY LaneTypes DEF IInv
      <4>3. Resumes(l, NewToken(l), pass.from, pass.terms)
        BY <4>2 DEF Resumes, NewToken
      <4> QED BY <2>1, <4>1, <4>3 DEF LaneResumes
    <3>3. CASE l \notin failing /\ ~LaneMore(l)
      BY <3>3 DEF MergePageCursors
    <3> QED BY <3>1, <3>2, <3>3
  <2>4. ASSUME SameTerms, cabinet.gaps = {}, NEW l \in Lanes
        PROVE  LanePromise(l, registry[l], now, MergePageCursors(failing)[l],
                           ReadHeads(failing)[l], pass.from,
                           cabinet.found \cup (pass.hits \cup
                             UNION {LaneHits(k) : k \in Lanes \ failing}))
    BY <1>0, <2>4, PagePromise DEF IInv
  <2>5. SameTerms' = SameTerms
    BY <2>1 DEF SameTerms
  <2>6. /\ pass.startedAt \in 0..now /\ pass.terms <= cabinet.terms
        /\ SameTerms => /\ pass.from = PublishedFrom(cabinet, pass.startedAt)
                        /\ pass.from <= pass.startedAt - Margin
    BY <1>0, <2>1 DEF PassInv
  <2>7. SameTerms /\ cabinet.gaps = {} =>
          \A l \in Lanes : LanePromise(l, registry'[l], now', pass'.cursors[l], pass'.since[l],
                                      pass'.from, cabinet'.found \cup pass'.hits)
    BY <2>1, <2>4
  <2>8. \A l \in Lanes : pass'.since[l] # NoTime => pass'.cursors[l] = NoToken \/ LaneResumes(l)'
    BY <2>1, <2>3
  <2> QED BY <2>1, <2>2, <2>5, <2>6, <2>7, <2>8 DEF PassInv
<1>4. CASE LaterPageFails
  <2>1. /\ pass.phase = "search"
        /\ pass'.startedAt = pass.startedAt /\ pass'.terms = pass.terms /\ pass'.from = pass.from
        /\ pass'.cursors = pass.cursors /\ pass'.since = pass.since /\ pass'.hits = pass.hits
        /\ pass'.failed = TRUE
        /\ cabinet' = cabinet /\ registry' = registry /\ now' = now
    BY <1>0, <1>4 DEF LaterPageFails, Passes
  <2> QED BY <1>0, <2>1 DEF PassInv, FullyRead, SameTerms, LaneResumes
<1>5. CASE EditProfile /\ pass.phase # "idle"
  <2>1. /\ pass' = pass /\ registry' = registry /\ now' = now
        /\ cabinet'.terms = cabinet.terms + 1
    BY <1>5 DEF EditProfile, NewCabinet
  <2>2. pass.terms \in Nat /\ cabinet.terms \in Nat
    BY <1>0 DEF Passes, Cabinets
  <2>3. pass.terms <= cabinet'.terms /\ ~SameTerms'
    BY <1>0, <1>5, <2>1, <2>2 DEF PassInv, SameTerms
  <2> QED BY <1>0, <1>5, <2>1, <2>3 DEF PassInv, FullyRead, LaneResumes
<1>6. CASE pass' = pass /\ cabinet' = cabinet /\ pass.phase # "idle"
  <2>1. now \in Nat /\ now' \in Nat /\ now <= now'
    BY EnvironmentStep DEF IInv
  <2>2. ASSUME SameTerms, cabinet.gaps = {}, NEW l \in Lanes
        PROVE  LanePromise(l, registry'[l], now', pass.cursors[l], pass.since[l],
                           pass.from, cabinet.found \cup pass.hits)
    <3> DEFINE delivered == cabinet.found \cup pass.hits
    <3>1. Continues(registry[l], registry'[l], now)
      BY EnvironmentStep DEF IInv
    <3>2. LanePromise(l, registry[l], now, pass.cursors[l], pass.since[l], pass.from, delivered)
      BY <1>0, <1>6, <2>2 DEF PassInv
    <3>3. pass.cursors[l] \in Tokens /\ pass.since[l] \in Int /\ pass.from \in Int
      BY <1>0 DEF Passes
    <3> HIDE DEF delivered
    <3>4. LanePromise(l, registry'[l], now', pass.cursors[l], pass.since[l], pass.from, delivered)
      BY <2>1, <3>1, <3>2, <3>3, PromiseLasts
    <3> QED BY <3>4 DEF delivered
  <2>3. pass.startedAt \in 0..now'
    BY <1>0, <1>6, <2>1 DEF PassInv
  <2> QED BY <1>0, <1>6, <2>2, <2>3 DEF PassInv, FullyRead, SameTerms, LaneResumes
<1>7. \/ pass'.phase = "idle" \/ StartPass \/ \E failing \in SUBSET Lanes : PageAnswers(failing)
      \/ LaterPageFails \/ EditProfile \/ (pass' = pass /\ cabinet' = cabinet)
  BY DEF Next, vars, ReadPage, FirstPageFails, PassDies, RecordClosedWindow, RecordHeldWindow,
         Restart, NoPass, SaveCabinet, SaveProfile, Post, Tick
<1>8. EditProfile => pass' = pass
  BY DEF EditProfile
<1> QED BY <1>1, <1>2, <1>3, <1>4, <1>5, <1>6, <1>7, <1>8

LEMMA DiscoveryInitially ==
    ASSUME Init PROVE IInv
<1>1. TypeOK
  BY ConstantTypes DEF Init, TypeOK
<1> DEFINE c == NewCabinet(0)
<1>2. cabinet = c /\ saved = c
  BY DEF Init
<1>3. c.watermark = NoTime /\ \A l \in Lanes : c.since[l] = NoTime
  BY DEF NewCabinet, Never
<1> HIDE DEF c
<1>4. \A l \in Lanes : LanePromise(l, registry[l], now, c.cursors[l], c.since[l],
                                  PublishedFrom(c, now), c.found)
  BY <1>3, NeverPromises
<1>5. CabinetInv(c, registry, now)
  BY <1>3, <1>4 DEF CabinetInv, NothingBehindWatermark
<1>6. PassInv
  BY DEF Init, PassInv, NoPass
<1> QED BY <1>1, <1>2, <1>5, <1>6 DEF IInv

LEMMA DiscoveryStep ==
    ASSUME IInv, [Next]_vars PROVE IInv'
<1>1. TypeOK'
  BY TypeStep DEF IInv
<1>2. CabinetInv(cabinet, registry, now)' /\ CabinetInv(saved, registry, now)' /\ PassInv'
  BY CabinetStep, SavedStep, RecordedPassStep
<1> QED BY <1>1, <1>2 DEF IInv

(* The strengthening of WatermarkHonest is inductive: what since promises  *)
(* of each lane is what makes the closing of a window safe.                *)
THEOREM Invariance == Spec => []IInv
<1>1. Init => IInv
  BY DiscoveryInitially
<1>2. IInv /\ [Next]_vars => IInv'
  BY DiscoveryStep
<1> QED BY <1>1, <1>2, PTL DEF Spec

(* The watermark is honest: every row behind it was delivered, in memory   *)
(* and in the store, unless gaps names the way a recorded pass fell short. *)
(* This is what the discovery pass owes the specialist, for any number of  *)
(* sources, window sizes, failures, restarts and saves.                    *)
THEOREM WatermarkIsHonest == Spec => []WatermarkHonest
<1>1. IInv => WatermarkHonest
  BY DEF IInv, CabinetInv, WatermarkHonest, HonestBut
<1> QED BY Invariance, <1>1, PTL

-----------------------------------------------------------------------------
(* Until a lane answers, the pass holds the token it started with; a pass  *)
(* that counts as fully read was answered by every lane.                   *)
PlaceInv ==
    pass.phase # "idle" =>
        /\ SameTerms => \A l \in Lanes \ pass.answered : pass.cursors[l] = cabinet.cursors[l]
        /\ pass.phase = "score" /\ FullyRead => pass.answered = Lanes

(* No step takes the place of a lane that answered nothing. *)
LEMMA PlaceStep ==
    ASSUME IInv, PlaceInv, [Next]_vars
    PROVE  PlaceInv'
<1>0. /\ cabinet \in Cabinets /\ pass \in Passes /\ PassInv
  BY DEF IInv, TypeOK
<1>1. CASE pass'.phase = "idle"
  BY <1>1 DEF PlaceInv
<1>2. CASE StartPass
  BY <1>2 DEF StartPass, PlaceInv
<1>3. CASE \E failing \in SUBSET Lanes : PageAnswers(failing)
  <2> PICK failing \in SUBSET Lanes : PageAnswers(failing)
    BY <1>3
  <2>1. /\ pass.phase = "search" /\ pass'.terms = pass.terms
        /\ pass'.cursors = MergePageCursors(failing)
        /\ pass'.answered = pass.answered \cup (Lanes \ failing)
        /\ pass'.failed = (pass.failed \/ failing # {})
        /\ cabinet' = cabinet
    BY DEF PageAnswers
  <2>2. ASSUME SameTerms, NEW l \in Lanes \ pass'.answered
        PROVE  pass'.cursors[l] = cabinet.cursors[l]
    <3>1. l \in failing /\ l \in Lanes \ pass.answered
      BY <2>1, <2>2
    <3>2. MergePageCursors(failing)[l] = pass.cursors[l]
      BY <3>1 DEF MergePageCursors
    <3> QED BY <2>1, <2>2, <3>1, <3>2 DEF PlaceInv
  <2>3. FullyRead' => pass'.answered = Lanes
    <3>1. pass.answered \subseteq Lanes
      BY <1>0 DEF Passes
    <3> QED BY <2>1, <3>1 DEF FullyRead
  <2> QED BY <2>1, <2>2, <2>3 DEF PlaceInv, SameTerms
<1>4. CASE LaterPageFails
  <2>1. /\ pass.phase = "search" /\ pass'.terms = pass.terms /\ pass'.cursors = pass.cursors
        /\ pass'.answered = pass.answered /\ pass'.failed = TRUE /\ cabinet' = cabinet
    BY <1>0, <1>4 DEF LaterPageFails, Passes
  <2> QED BY <2>1 DEF PlaceInv, SameTerms, FullyRead
<1>5. CASE EditProfile /\ pass.phase # "idle"
  <2>1. pass' = pass /\ cabinet'.terms = cabinet.terms + 1
    BY <1>5 DEF EditProfile, NewCabinet
  <2>2. pass.terms \in Nat /\ cabinet.terms \in Nat /\ pass.terms <= cabinet.terms
    BY <1>0, <1>5 DEF Passes, Cabinets, PassInv
  <2>3. ~SameTerms'
    BY <2>1, <2>2 DEF SameTerms
  <2> QED BY <1>5, <2>1, <2>3 DEF PlaceInv, FullyRead
<1>6. CASE pass' = pass /\ cabinet' = cabinet
  BY <1>6 DEF PlaceInv, SameTerms, FullyRead
<1>7. \/ pass'.phase = "idle" \/ StartPass \/ \E failing \in SUBSET Lanes : PageAnswers(failing)
      \/ LaterPageFails \/ EditProfile \/ (pass' = pass /\ cabinet' = cabinet)
  BY DEF Next, vars, ReadPage, FirstPageFails, PassDies, RecordClosedWindow, RecordHeldWindow,
         Restart, NoPass, SaveCabinet, SaveProfile, Post, Tick
<1>8. EditProfile => pass' = pass
  BY DEF EditProfile
<1> QED BY <1>1, <1>2, <1>3, <1>4, <1>5, <1>6, <1>7, <1>8

(* A lane that answered nothing during a pass holds the watermark and      *)
(* keeps the place that earlier passes had reached (mergePageCursors).     *)
THEOREM SilentLanesKeepTheirPlace == Spec => SilentLaneKeepsItsPlace
<1> DEFINE Keeps == \A l \in Lanes : Recorded /\ l \notin pass.answered =>
                       /\ cabinet'.watermark = cabinet.watermark
                       /\ SameTerms => cabinet'.cursors[l] = cabinet.cursors[l]
<1>1. Init => PlaceInv
  BY DEF Init, PlaceInv, NoPass
<1>2. IInv /\ PlaceInv /\ [Next]_vars => PlaceInv'
  BY PlaceStep
<1>3. IInv /\ PlaceInv /\ [Next]_vars => [Keeps]_vars
  <2> SUFFICES ASSUME IInv, PlaceInv, [Next]_vars, NEW l \in Lanes,
                      Recorded, l \notin pass.answered
               PROVE  /\ cabinet'.watermark = cabinet.watermark
                      /\ SameTerms => cabinet'.cursors[l] = cabinet.cursors[l]
    OBVIOUS
  <2>0. cabinet \in Cabinets /\ pass.phase = "score" /\ pass'.phase = "idle"
        /\ faults \in Nat /\ faults' = faults
    BY DEF IInv, TypeOK, Recorded
  <2>1. CASE RecordHeldWindow
    <3>1. cabinet'.watermark = cabinet.watermark /\ cabinet'.cursors = pass.cursors
      BY <2>0, <2>1 DEF RecordHeldWindow, Cabinets
    <3> QED BY <2>0, <3>1 DEF PlaceInv
  <2>2. CASE RecordClosedWindow
    <3>1. pass.answered = Lanes
      BY <2>0, <2>2 DEF RecordClosedWindow, PlaceInv
    <3> QED BY <3>1
  <2>3. RecordHeldWindow \/ RecordClosedWindow
    BY <2>0 DEF Next, vars, ReadPage, StartPass, PageAnswers, FirstPageFails, LaterPageFails,
                PassDies, EditProfile, SaveCabinet, SaveProfile, Restart, Post, Tick
  <2> QED BY <2>1, <2>2, <2>3
<1>4. Spec => []PlaceInv
  BY Invariance, <1>1, <1>2, PTL DEF Spec
<1> QED BY Invariance, <1>3, <1>4, PTL DEF Spec, SilentLaneKeepsItsPlace

-----------------------------------------------------------------------------
(* The one default source.  A profile nobody edited and whose cards are    *)
(* with it has a token only for a window whose head it has read, and a     *)
(* pass that is over its first page has read the head of its own.          *)
HeadRead(c) ==
    c.terms = 0 /\ "cards" \notin c.gaps =>
        /\ "head" \notin c.gaps
        /\ \A l \in Lanes : c.cursors[l] # NoToken => c.since[l] # NoTime

HeadIsRead ==
    pass.phase # "idle" /\ cabinet.terms = 0 /\ "cards" \notin cabinet.gaps =>
        /\ pass.phase = "score" => pass.page > 0
        /\ \A l \in Lanes : pass.page > 0 \/ LaneResumes(l) => pass.since[l] # NoTime

OneSourceInv == HeadRead(cabinet) /\ HeadRead(saved) /\ HeadIsRead

(* The profile nobody edited is the one its pass was started for. *)
LEMMA UneditedPass ==
    ASSUME IInv, pass.phase # "idle", cabinet.terms = 0
    PROVE  SameTerms
<1>1. pass.terms \in Nat /\ pass.terms <= cabinet.terms
  BY DEF IInv, TypeOK, Passes, PassInv
<1> QED BY <1>1 DEF SameTerms

(* A pass that is recorded has read the head of every lane that has a token. *)
LEMMA HeadOfTheMemory ==
    ASSUME IInv, OneSourceInv, [Next]_vars
    PROVE  HeadRead(cabinet)'
<1>0. cabinet \in Cabinets /\ saved \in Cabinets /\ pass \in Passes /\ cabinet' \in Cabinets
  BY TypeStep DEF IInv, TypeOK
<1>1. CASE cabinet' = cabinet \/ cabinet' = saved
  BY <1>1 DEF OneSourceInv, HeadRead
<1>2. CASE EditProfile
  <2>1. cabinet.terms \in Nat /\ cabinet'.terms = cabinet.terms + 1
    BY <1>0, <1>2 DEF EditProfile, NewCabinet, Cabinets
  <2> QED BY <2>1 DEF HeadRead
<1>3. CASE RecordHeldWindow
  <2>1. /\ cabinet'.terms = cabinet.terms /\ cabinet'.gaps = cabinet.gaps
        /\ cabinet'.cursors = pass.cursors /\ cabinet'.since = SinceRecorded
        /\ pass.phase = "score"
    BY <1>0, <1>3 DEF RecordHeldWindow, Cabinets
  <2>2. cabinet.terms = 0 => SinceRecorded = pass.since
    BY <2>1, UneditedPass DEF SinceRecorded
  <2>3. cabinet.terms = 0 /\ "cards" \notin cabinet.gaps => \A l \in Lanes : pass.since[l] # NoTime
    BY <2>1 DEF OneSourceInv, HeadIsRead
  <2> QED BY <2>1, <2>2, <2>3 DEF OneSourceInv, HeadRead
<1>4. CASE RecordClosedWindow
  <2>1. /\ cabinet'.terms = cabinet.terms /\ cabinet'.gaps = cabinet.gaps \cup Shortfalls
        /\ cabinet'.cursors = NoCursors /\ pass.phase = "score"
    BY <1>0, <1>4 DEF RecordClosedWindow, Cabinets
  <2>2. cabinet.terms = 0 /\ "cards" \notin cabinet.gaps => \A l \in Lanes : pass.since[l] # NoTime
    BY <2>1 DEF OneSourceInv, HeadIsRead
  <2>3. cabinet.terms = 0 /\ "cards" \notin cabinet.gaps => "head" \notin Shortfalls
    BY <2>2 DEF Shortfalls
  <2>4. \A l \in Lanes : cabinet'.cursors[l] = NoToken
    BY <2>1 DEF NoCursors
  <2> QED BY <2>1, <2>3, <2>4 DEF OneSourceInv, HeadRead
<1>5. \/ cabinet' = cabinet \/ cabinet' = saved \/ EditProfile
      \/ RecordHeldWindow \/ RecordClosedWindow
  BY DEF Next, vars, StartPass, ReadPage, PageAnswers, FirstPageFails, LaterPageFails, PassDies,
         SaveCabinet, SaveProfile, Restart, Post, Tick
<1> QED BY <1>1, <1>2, <1>3, <1>4, <1>5

(* What is saved has read its heads too, or lacks its cards. *)
LEMMA HeadOfTheStore ==
    ASSUME IInv, OneSourceInv, [Next]_vars
    PROVE  HeadRead(saved)'
<1>0. cabinet \in Cabinets /\ saved \in Cabinets
  BY DEF IInv, TypeOK
<1> DEFINE d == Durable(cabinet)
<1>1. /\ d \in Cabinets /\ d.terms = cabinet.terms /\ d.gaps = cabinet.gaps
      /\ \A l \in Lanes : d.cursors[l] # NoToken =>
            d.cursors[l] = cabinet.cursors[l] /\ d.since[l] = cabinet.since[l]
  BY <1>0, ConstantTypes DEF Durable, Cabinets, NoCursors
<1>2. HeadRead(d)
  BY <1>1 DEF OneSourceInv, HeadRead
<1> HIDE DEF d
<1>3. CASE saved' = saved
  BY <1>3 DEF OneSourceInv, HeadRead
<1>4. CASE SaveCabinet
  <2>1. saved' = d
    BY <1>4 DEF SaveCabinet, d
  <2> QED BY <1>2, <2>1 DEF HeadRead
<1>5. CASE SaveProfile
  <2> DEFINE since == IF CardsStranded THEN Never ELSE d.since
             gaps == IF CardsStranded THEN cabinet.gaps \cup {"cards"} ELSE cabinet.gaps
  <2>1. saved' = [d EXCEPT !.found = CardsSaved, !.since = since, !.gaps = gaps]
    BY <1>5 DEF SaveProfile, d
  <2> HIDE DEF since, gaps
  <2>2. /\ saved'.terms = d.terms /\ saved'.cursors = d.cursors
        /\ saved'.since = since /\ saved'.gaps = gaps
    BY <1>1, <2>1 DEF Cabinets
  <2>3. CASE CardsStranded
    BY <2>2, <2>3 DEF HeadRead, gaps
  <2>4. CASE ~CardsStranded
    BY <1>1, <1>2, <2>2, <2>4 DEF HeadRead, gaps, since
  <2> QED BY <2>3, <2>4
<1>6. saved' = saved \/ SaveCabinet \/ SaveProfile
  BY DEF Next, vars, StartPass, ReadPage, PageAnswers, FirstPageFails, LaterPageFails, PassDies,
         RecordClosedWindow, RecordHeldWindow, EditProfile, Restart, Post, Tick
<1> QED BY <1>3, <1>4, <1>5, <1>6

(* The one lane answers a page or the page is not read: the first page of  *)
(* a pass scans the head, or goes on from a token that knows it.           *)
LEMMA HeadOfThePass ==
    ASSUME IInv, OneSourceInv, [Next]_vars, Cardinality(Lanes) = 1
    PROVE  HeadIsRead'
<1>0. /\ cabinet \in Cabinets /\ pass \in Passes /\ now \in Nat /\ NoTime < 0
      /\ pass'.phase # "idle" => pass'.phase \in {"search", "score"}
  BY TypeStep, TimesAssumption DEF IInv, TypeOK, NoTime, Passes
<1>1. CASE pass'.phase = "idle"
  BY <1>1 DEF HeadIsRead
<1>2. CASE StartPass
  <2>1. /\ pass'.phase = "search" /\ pass'.page = 0 /\ pass'.terms = cabinet.terms
        /\ pass'.from = PublishedFrom(cabinet, now)
        /\ pass'.cursors = cabinet.cursors /\ pass'.since = SinceAtStart /\ cabinet' = cabinet
    BY <1>2 DEF StartPass
  <2>2. ASSUME NEW l \in Lanes, LaneResumes(l)', cabinet.terms = 0, "cards" \notin cabinet.gaps
        PROVE  SinceAtStart[l] # NoTime
    <3>1. Resumes(l, cabinet.cursors[l], PublishedFrom(cabinet, now), cabinet.terms)
      BY <2>1, <2>2 DEF LaneResumes
    <3>2. cabinet.cursors[l] # NoToken
      BY <3>1 DEF Resumes, NoToken
    <3>3. SinceAtStart[l] = cabinet.since[l]
      BY <3>1 DEF SinceAtStart
    <3> QED BY <2>2, <3>2, <3>3 DEF OneSourceInv, HeadRead
  <2> QED BY <2>1, <2>2 DEF HeadIsRead
<1>3. CASE \E failing \in SUBSET Lanes : PageAnswers(failing)
  <2> PICK failing \in SUBSET Lanes : PageAnswers(failing)
    BY <1>3
  <2>1. /\ pass.phase = "search" /\ pass'.page = pass.page + 1
        /\ pass'.since = ReadHeads(failing) /\ cabinet' = cabinet /\ Lanes \ failing # {}
    BY DEF PageAnswers
  <2>2. failing = {}
    <3>1. PICK l : Lanes = {l}
      BY LanesAssumption, FS_Singleton
    <3> QED BY <2>1, <3>1
  <2>3. pass.page \in Nat
    BY <1>0 DEF Passes
  <2>4. ASSUME NEW l \in Lanes, cabinet.terms = 0, "cards" \notin cabinet.gaps
        PROVE  ReadHeads(failing)[l] # NoTime
    <3>1. CASE pass.page > 0 \/ LaneResumes(l)
      BY <2>1, <2>3, <2>4, <3>1 DEF OneSourceInv, HeadIsRead, ReadHeads
    <3>2. CASE ~(pass.page > 0) /\ ~LaneResumes(l)
      <4>1. ReadHeads(failing)[l] = now
        BY <2>2, <2>3, <3>2 DEF ReadHeads
      <4> QED BY <1>0, <4>1
    <3> QED BY <3>1, <3>2
  <2> QED BY <2>1, <2>3, <2>4 DEF HeadIsRead
<1>4. CASE LaterPageFails
  <2>1. /\ pass.phase = "search" /\ pass.page > 0 /\ pass'.page = pass.page
        /\ pass'.since = pass.since /\ cabinet' = cabinet
    BY <1>0, <1>4 DEF LaterPageFails, Passes
  <2> QED BY <2>1 DEF OneSourceInv, HeadIsRead
<1>5. CASE EditProfile
  <2>1. cabinet.terms \in Nat /\ cabinet'.terms = cabinet.terms + 1
    BY <1>0, <1>5 DEF EditProfile, NewCabinet, Cabinets
  <2> QED BY <2>1 DEF HeadIsRead
<1>6. CASE pass' = pass /\ cabinet' = cabinet
  BY <1>6 DEF OneSourceInv, HeadIsRead, LaneResumes
<1>7. \/ pass'.phase = "idle" \/ StartPass \/ \E failing \in SUBSET Lanes : PageAnswers(failing)
      \/ LaterPageFails \/ EditProfile \/ (pass' = pass /\ cabinet' = cabinet)
  BY DEF Next, vars, ReadPage, FirstPageFails, PassDies, RecordClosedWindow, RecordHeldWindow,
         Restart, NoPass, SaveCabinet, SaveProfile, Post, Tick
<1> QED BY <1>1, <1>2, <1>3, <1>4, <1>5, <1>6, <1>7

LEMMA OneSourceInitially ==
    ASSUME Init PROVE OneSourceInv
BY DEF Init, NewCabinet, NoPass, NoCursors, OneSourceInv, HeadRead, HeadIsRead

LEMMA OneSourceStep ==
    ASSUME IInv, OneSourceInv, [Next]_vars, Cardinality(Lanes) = 1 PROVE OneSourceInv'
<1>1. HeadRead(cabinet)' /\ HeadRead(saved)'
  BY HeadOfTheMemory, HeadOfTheStore
<1>2. HeadIsRead'
  BY HeadOfThePass
<1> QED BY <1>1, <1>2 DEF OneSourceInv

LEMMA OneSourceHeld ==
    ASSUME Cardinality(Lanes) = 1 => OneSourceInv PROVE OneSourceReadsTheHead
BY DEF OneSourceInv, HeadRead, OneSourceReadsTheHead

(* With the one default source a pass never closes a window whose head it  *)
(* did not deliver: failed calls, dead passes and restarts only delay it,  *)
(* unless the profile was edited or the store has it without its cards.    *)
THEOREM OneSourceReadsItsHead == Spec => []OneSourceReadsTheHead
<1>1. CASE Cardinality(Lanes) = 1
  <2>1. Init => OneSourceInv
    BY OneSourceInitially
  <2>2. IInv /\ OneSourceInv /\ [Next]_vars => OneSourceInv'
    BY <1>1, OneSourceStep
  <2>3. OneSourceInv => OneSourceReadsTheHead
    BY OneSourceHeld
  <2> QED BY Invariance, <2>1, <2>2, <2>3, PTL DEF Spec
<1>2. CASE Cardinality(Lanes) # 1
  <2>1. OneSourceReadsTheHead
    BY <1>2 DEF OneSourceReadsTheHead
  <2> QED BY <2>1, PTL
<1> QED BY <1>1, <1>2
-----------------------------------------------------------------------------
(* What a background pass reads, put together: whichever part is followed, *)
(* its own invariant holds, for none of its steps is a step of another.    *)
Parts == {"phrase", "subject", "registry", "deep", "window", "rota"}

ScansInv ==
    /\ scan \in Parts
    /\ scan = "phrase"   => Phrase!PhraseInv
    /\ scan = "subject"  => Subject!SubjectInv /\ Subject!AnchorInv
    /\ scan = "registry" => Registry!RegistryInv
    /\ scan = "deep"     => Deep!RegistryInv
    /\ scan = "window"   => IInv /\ (Cardinality(Lanes) = 1 => OneSourceInv)
    /\ scan = "rota"     => RotaInv /\ lists \in {"rows", "memory"} /\ gone \in Withdrawn

LEMMA ScansInitially ==
    ASSUME ScansInit PROVE ScansInv
<1>1. CASE scan = "phrase" /\ Phrase!Init
  BY <1>1, ScansBounds, Phrase!PhraseInitially DEF ScansInv, Parts
<1>2. CASE scan = "subject" /\ Subject!Init
  BY <1>2, ScansBounds, Subject!SubjectInitially, Subject!AnchorInitially DEF ScansInv, Parts
<1>3. CASE scan = "registry" /\ Registry!Init
  BY <1>3, ScansBounds, Registry!RegistryInitially DEF ScansInv, Parts
<1>4. CASE scan = "deep" /\ Deep!Init
  BY <1>4, ScansBounds, Deep!RegistryInitially DEF ScansInv, Parts
<1>5. CASE scan = "window" /\ Init
  BY <1>5, DiscoveryInitially, OneSourceInitially DEF ScansInv, Parts
<1>6. CASE scan = "rota" /\ RotaInit
  <2>1. lists \in {"rows", "memory"} /\ gone \in Withdrawn
    BY <1>6 DEF RotaInit
  <2> QED BY <1>6, <2>1, RotaStarts DEF ScansInv, Parts
<1> QED BY <1>1, <1>2, <1>3, <1>4, <1>5, <1>6 DEF ScansInit

(* A step is one of the part that is followed, or none. *)
LEMMA ScansParts ==
    ASSUME [ScansNext]_scansVars
    PROVE  /\ scan' = scan
           /\ scan = "phrase"   => [Phrase!Next]_(Phrase!vars)
           /\ scan = "subject"  => [Subject!Next]_(Subject!vars) /\ cut' = cut
           /\ scan = "registry" => [Registry!Next]_(Registry!vars)
           /\ scan = "deep"     => [Deep!Next]_(Deep!vars)
           /\ scan = "window"   => [Next]_vars /\ UNCHANGED scanVars
           /\ scan = "rota"     => [RotaNext]_rotaVars /\ UNCHANGED scanVars
<1>1. CASE PhraseNext    BY <1>1 DEF PhraseNext, OfScan
<1>2. CASE SubjectNext   BY <1>2 DEF SubjectNext, OfScan
<1>3. CASE RegistryNext  BY <1>3 DEF RegistryNext, OfScan
<1>4. CASE DeepNext      BY <1>4 DEF DeepNext, OfScan
<1>5. CASE WindowNext    BY <1>5 DEF WindowNext, OfWindow
<1>6. CASE RotaSteps     BY <1>6 DEF RotaSteps, OfRota
<1>7. CASE UNCHANGED scansVars
  BY <1>7 DEF scansVars, scanVars, subjectOnly, Phrase!vars, Subject!vars, Subject!history,
              Registry!vars, Registry!history, Deep!vars, Deep!history
<1> QED BY <1>1, <1>2, <1>3, <1>4, <1>5, <1>6, <1>7 DEF ScansNext

LEMMA ScansStep ==
    ASSUME ScansInv, [ScansNext]_scansVars PROVE ScansInv'
<1>0. scan' = scan /\ scan \in Parts
  BY ScansParts DEF ScansInv
<1>1. CASE scan = "phrase"
  BY <1>0, <1>1, ScansParts, ScansBounds, Phrase!PhraseStep DEF ScansInv
<1>2. CASE scan = "subject"
  BY <1>0, <1>2, ScansParts, ScansBounds, Subject!SubjectStep, Subject!AnchorStep DEF ScansInv
<1>3. CASE scan = "registry"
  BY <1>0, <1>3, ScansParts, ScansBounds, Registry!RegistryStep DEF ScansInv
<1>4. CASE scan = "deep"
  BY <1>0, <1>4, ScansParts, ScansBounds, Deep!RegistryStep DEF ScansInv
<1>5. CASE scan = "window"
  <2>1. IInv /\ [Next]_vars /\ (Cardinality(Lanes) = 1 => OneSourceInv)
    BY <1>5, ScansParts DEF ScansInv
  <2>2. IInv' /\ (Cardinality(Lanes) = 1 => OneSourceInv')
    BY <2>1, DiscoveryStep, OneSourceStep
  <2> QED BY <1>0, <1>5, <2>2 DEF ScansInv
<1>6. CASE scan = "rota"
  <2>1. RotaInv' /\ lists' = lists /\ gone' = gone
    BY <1>6, ScansParts, RotaStep, RotaStays DEF ScansInv
  <2> QED BY <1>0, <1>6, <2>1 DEF ScansInv
<1> QED BY <1>0, <1>1, <1>2, <1>3, <1>4, <1>5, <1>6 DEF Parts

THEOREM ScansInduction == ScansSpec => []ScansInv
<1>1. ScansInit => ScansInv
  BY ScansInitially
<1>2. ScansInv /\ [ScansNext]_scansVars => ScansInv'
  BY ScansStep
<1> QED BY <1>1, <1>2, PTL DEF ScansSpec

(* No reading goes on from below a row it has not read: the anchor of the  *)
(* subject search passes no row over for one phrase, and with one source a *)
(* window is not closed over an unread head; whichever part is followed,   *)
(* its state has its types.                                                *)
THEOREM ScansKeepTheirPlaces == ScansSpec => []PlacesAreKept
<1>1. ASSUME ScansInv PROVE PlacesAreKept
  <2>1. scan = "phrase" => Phrase!TypeOK
    BY <1>1, Phrase!PhraseTyped DEF ScansInv
  <2>2. scan = "subject" => Subject!TypeOK /\ Subject!OnePhraseKeepsItsAnchor
    BY <1>1, ScansBounds, Subject!SubjectTyped, Subject!AnchorHeld DEF ScansInv
  <2>3. scan = "registry" => Registry!TypeOK
    BY <1>1, ScansBounds, Registry!RegistryTyped DEF ScansInv
  <2>4. scan = "deep" => Deep!TypeOK
    BY <1>1, ScansBounds, Deep!RegistryTyped DEF ScansInv
  <2>5. scan = "window" => TypeOK /\ OneSourceReadsTheHead
    <3>1. ASSUME scan = "window" PROVE TypeOK /\ (Cardinality(Lanes) = 1 => OneSourceInv)
      BY <1>1, <3>1 DEF ScansInv, IInv
    <3> QED BY <3>1, OneSourceHeld
  <2>6. scan = "rota" => RotaTypeOK
    BY <1>1, RotaTyped DEF ScansInv
  <2> QED BY <2>1, <2>2, <2>3, <2>4, <2>5, <2>6 DEF PlacesAreKept, TypesOK
<1> QED BY <1>1, ScansInduction, PTL

(* A step of any scan is one of the reading all of them implement, or none. *)
LEMMA ScansRead ==
    ASSUME ScansInv, [ScansNext]_scansVars, scan = "phrase" => Phrase!Owed' \subseteq Procedures
    PROVE  [Promise!Next]_(Promise!vars)
<1> USE DEF Promise!Next, Promise!Answer, Promise!Reask, Promise!Slip, Promise!vars
<1>0. scan' = scan /\ scan \in Parts
  BY ScansParts DEF ScansInv
<1>1. CASE scan = "phrase"
  <2>1. [Phrase!Abstract!Next]_(Phrase!Abstract!vars)
    BY <1>1, ScansParts, ScansBounds, Phrase!PhraseReads DEF ScansInv
  <2> QED BY <1>0, <1>1, <2>1
          DEF Phrase!Abstract!Next, Phrase!Abstract!Answer, Phrase!Abstract!Reask,
              Phrase!Abstract!Slip, Phrase!Abstract!vars
<1>2. CASE scan = "subject"
  <2>1. [Subject!Abstract!Next]_(Subject!Abstract!vars)
    BY <1>2, ScansParts, ScansBounds, Subject!SubjectReads DEF ScansInv
  <2> QED BY <1>0, <1>2, <2>1
          DEF Subject!Abstract!Next, Subject!Abstract!Answer, Subject!Abstract!Reask,
              Subject!Abstract!Slip, Subject!Abstract!vars
<1>3. CASE scan = "registry"
  <2>1. [Registry!Abstract!Next]_(Registry!Abstract!vars)
    BY <1>3, ScansParts, ScansBounds, Registry!RegistryReads DEF ScansInv
  <2> QED BY <1>0, <1>3, <2>1
          DEF Registry!Abstract!Next, Registry!Abstract!Answer, Registry!Abstract!Reask,
              Registry!Abstract!Slip, Registry!Abstract!vars
<1>4. CASE scan = "deep"
  <2>1. [Deep!Abstract!Next]_(Deep!Abstract!vars)
    BY <1>4, ScansParts, ScansBounds, Deep!RegistryReads DEF ScansInv
  <2> QED BY <1>0, <1>4, <2>1
          DEF Deep!Abstract!Next, Deep!Abstract!Answer, Deep!Abstract!Reask,
              Deep!Abstract!Slip, Deep!Abstract!vars
<1>5. CASE scan \in {"window", "rota"}
  <2>1. UNCHANGED scanVars
    BY <1>5, ScansParts
  <2> QED BY <1>0, <1>5, <2>1 DEF scanVars, subjectOnly
<1> QED BY <1>0, <1>1, <1>2, <1>3, <1>4, <1>5 DEF Parts

(* Each scan of a registry implements the reading of module WindowRead: it *)
(* calls a window read only when all of it was handed over, but for the    *)
(* losses that scan names.                                                 *)
THEOREM ScansReadTheirWindow == ScansSpec => WindowIsRead
<1> DEFINE OwedIsListed == scan = "phrase" => Phrase!Owed \subseteq Procedures
<1>1. ScansInv => OwedIsListed
  BY ScansBounds, Phrase!OwedRows DEF ScansInv
<1>2. ScansInit => Promise!Init
  <2> SUFFICES ASSUME ScansInit PROVE Promise!Init
    OBVIOUS
  <2>1. OwedIsListed
    BY <1>1, ScansInitially
  <2> QED BY <2>1 DEF ScansInit, Promise!Init, Phrase!Init, Subject!Init, Registry!Init, Deep!Init,
                      NotPhrase, NotSubject, NotRegistry, NoScan
<1>3. ScansInv /\ [ScansNext]_scansVars /\ OwedIsListed' => [Promise!Next]_(Promise!vars)
  BY ScansRead, ScansParts
<1> QED BY <1>1, <1>2, <1>3, ScansInduction, PTL DEF ScansSpec, WindowIsRead, Promise!Spec

(* The cursor of the registry scan moves down the registry or stays, but   *)
(* for an answer that overflows and one that has outrun its registry.      *)
THEOREM ScansNeverRewind == ScansSpec => CursorNeverRewinds
<1>1. ScansInv /\ [ScansNext]_scansVars
        => /\ scan = "registry" => Registry!CursorMovesDown
           /\ scan = "deep" => Deep!CursorMovesDown
  BY ScansParts, ScansBounds, Registry!CursorStep, Deep!CursorStep DEF ScansInv
<1> QED BY <1>1, ScansInduction, PTL DEF ScansSpec, CursorNeverRewinds

=============================================================================
