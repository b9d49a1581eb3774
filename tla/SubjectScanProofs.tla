------------------------- MODULE SubjectScanProofs -------------------------
\* What holds of the subject search of BUTB (module SubjectScan) for every set of
\* phrases, size of page and answer, page cap, and every change of the registry, loss
\* of the process's windows and loss of an answer: it implements the reading of module
\* WindowRead.
EXTENDS SubjectScan, TLAPS, SequenceTheorems, FiniteSetTheorems, WellFoundedInduction

LEMMA Removal ==
    ASSUME NEW q \in Seq(Rows), NEW n \in DOMAIN q
    PROVE  /\ RemoveAt(q, n) \in Seq(Rows) /\ Len(RemoveAt(q, n)) = Len(q) - 1
           /\ \A i \in 1..Len(q) - 1 : RemoveAt(q, n)[i] = IF i < n THEN q[i] ELSE q[i + 1]
<1> DEFINE before == SubSeq(q, 1, n - 1)
           after == SubSeq(q, n + 1, Len(q))
<1>1. before \in Seq(Rows) /\ Len(before) = n - 1 /\ \A i \in 1..n - 1 : before[i] = q[i]
  BY SubSeqProperties
<1>2. /\ after \in Seq(Rows) /\ Len(after) = Len(q) - n
      /\ \A i \in 1..Len(q) - n : after[i] = q[n + i]
  BY SubSeqProperties
<1>3. RemoveAt(q, n) = before \o after  BY DEF RemoveAt
<1> HIDE DEF before, after
<1>4. /\ before \o after \in Seq(Rows) /\ Len(before \o after) = Len(before) + Len(after)
      /\ \A i \in 1..Len(before) + Len(after) :
            (before \o after)[i] = IF i <= Len(before) THEN before[i] ELSE after[i - Len(before)]
  BY <1>1, <1>2, ConcatProperties
<1>5. Len(before) + Len(after) = Len(q) - 1  BY <1>1, <1>2
<1>6. ASSUME NEW i \in 1..Len(q) - 1
      PROVE  (before \o after)[i] = IF i < n THEN q[i] ELSE q[i + 1]
  <2>1. CASE i < n
    <3>1. i \in 1..n - 1 /\ i <= Len(before)  BY <1>1, <2>1
    <3> QED  BY <1>1, <1>4, <1>5, <2>1, <3>1
  <2>2. CASE ~ i < n
    <3>1. ~ i <= Len(before) /\ i - Len(before) \in 1..Len(q) - n /\ n + (i - Len(before)) = i + 1
      BY <1>1, <2>2
    <3> QED  BY <1>1, <1>2, <1>4, <1>5, <2>2, <3>1
  <2> QED  BY <2>1, <2>2
<1> QED  BY <1>3, <1>4, <1>5, <1>6

\* A row that enters at the head moves every other one place down.
LEMMA Heading ==
    ASSUME NEW q \in Seq(Rows), NEW r \in Rows
    PROVE  /\ <<r>> \o q \in Seq(Rows) /\ Len(<<r>> \o q) = Len(q) + 1
           /\ \A i \in 1..Len(q) + 1 : (<<r>> \o q)[i] = IF i = 1 THEN r ELSE q[i - 1]
<1>1. <<r>> \in Seq(Rows) /\ Len(<<r>>) = 1 /\ <<r>>[1] = r  OBVIOUS
<1> DEFINE s == <<r>>
<1> HIDE DEF s
<1>2. /\ s \o q \in Seq(Rows) /\ Len(s \o q) = Len(s) + Len(q)
      /\ \A i \in 1..Len(s) + Len(q) : (s \o q)[i] = IF i <= Len(s) THEN s[i] ELSE q[i - Len(s)]
  BY <1>1, ConcatProperties DEF s
<1> QED  BY <1>1, <1>2 DEF s

\* A row that leaves a list leaves its one place in it.
LEMMA RemovalOfARow ==
    ASSUME Rows \subseteq Nat, NEW q \in Seq(Rows), NewestFirst(q), NEW n \in DOMAIN q
    PROVE  RemoveFirst(q, q[n]) = RemoveAt(q, n)
<1> DEFINE I == {i \in 1..Len(q) : q[i] = q[n]}
<1>1. ASSUME NEW i \in 1..Len(q), q[i] = q[n]  PROVE i = n
  <2>1. q[i] \in Rows /\ q[n] \in Rows  OBVIOUS
  <2>2. q[i] \in Nat /\ q[n] \in Nat  BY <2>1
  <2>3. ~ i < n /\ ~ n < i  BY <1>1, <2>2 DEF NewestFirst
  <2> QED  BY <1>1, <2>3
<1>2. I = {n}  BY <1>1
<1> HIDE DEF I
<1>3. Min(I) = n /\ I # {}  BY <1>2 DEF Min
<1>4. SelectInSeq(q, LAMBDA v : v = q[n]) = n  BY <1>3 DEF SelectInSeq, I
<1> QED  BY <1>4 DEF RemoveFirst

----------------------------------------------------------------------------
\* Of the first n places of s every row of O is in R: it was collected, or lost in a way
\* the history names.
ReadTo(s, n, O, R) == \A i \in DOMAIN s : i <= n /\ s[i] \in O => s[i] \in R

LEMMA HeadingReads ==
    ASSUME NEW s \in Seq(Rows), NEW r \in Rows, NEW n \in Nat, NEW O, NEW R,
           ReadTo(s, n, O, R), r \in O => r \in R
    PROVE  ReadTo(<<r>> \o s, n, O, R)
<1> DEFINE t == <<r>> \o s
<1>1. /\ t \in Seq(Rows) /\ Len(t) = Len(s) + 1
      /\ \A i \in 1..Len(s) + 1 : t[i] = IF i = 1 THEN r ELSE s[i - 1]
  BY Heading
<1> HIDE DEF t
<1>2. ASSUME NEW i \in DOMAIN t, i <= n, t[i] \in O  PROVE t[i] \in R
  <2>1. CASE i = 1  BY <1>1, <1>2, <2>1
  <2>2. CASE i # 1
    <3>1. i - 1 \in DOMAIN s /\ i - 1 <= n /\ t[i] = s[i - 1]  BY <1>1, <1>2, <2>2
    <3> QED  BY <1>2, <3>1 DEF ReadTo
  <2> QED  BY <2>1, <2>2
<1>3. ReadTo(t, n, O, R)  BY <1>2 DEF ReadTo
<1> QED  BY <1>3 DEF t

LEMMA RemovalReads ==
    ASSUME NEW s \in Seq(Rows), NEW k \in DOMAIN s, NEW n \in Nat, NEW O, NEW R, NEW T,
           ReadTo(s, n, O, R), R \subseteq T, k <= n /\ n + 1 \in DOMAIN s => s[n + 1] \in T
    PROVE  ReadTo(RemoveAt(s, k), n, O, T)
<1> DEFINE t == RemoveAt(s, k)
<1>1. /\ t \in Seq(Rows) /\ Len(t) = Len(s) - 1
      /\ \A i \in 1..Len(s) - 1 : t[i] = IF i < k THEN s[i] ELSE s[i + 1]
  BY Removal
<1> HIDE DEF t
<1>2. ASSUME NEW i \in DOMAIN t, i <= n, t[i] \in O  PROVE t[i] \in T
  <2>1. i \in 1..Len(s) - 1  BY <1>1
  <2>2. CASE i < k
    <3>1. i \in DOMAIN s /\ t[i] = s[i]  BY <1>1, <2>1, <2>2
    <3> QED  BY <1>2, <3>1 DEF ReadTo
  <2>3. CASE ~ i < k
    <3>1. i + 1 \in DOMAIN s /\ t[i] = s[i + 1]  BY <1>1, <2>1, <2>3
    <3>2. CASE i + 1 <= n  BY <1>2, <3>1, <3>2 DEF ReadTo
    <3>3. CASE ~ i + 1 <= n
      <4>1. i = n /\ k <= n  BY <1>2, <2>1, <2>3, <3>3
      <4> QED  BY <3>1, <4>1
    <3> QED  BY <3>2, <3>3
  <2> QED  BY <2>2, <2>3
<1>3. ReadTo(t, n, O, T)  BY <1>2 DEF ReadTo
<1> QED  BY <1>3 DEF t

LEMMA PageReads ==
    ASSUME NEW s \in Seq(Rows), NEW n \in Nat, NEW m \in Nat, NEW O, NEW R, NEW T,
           ReadTo(s, n, O, R), R \subseteq T, Slice(s, n, m) \intersect O \subseteq T
    PROVE  ReadTo(s, n + m, O, T)
<1> SUFFICES ASSUME NEW i \in DOMAIN s, i <= n + m, s[i] \in O  PROVE s[i] \in T
  BY DEF ReadTo
<1>1. CASE i <= n  BY <1>1 DEF ReadTo
<1>2. CASE ~ i <= n
  <2>1. n < i  BY <1>2
  <2>2. s[i] \in Slice(s, n, m)  BY <2>1 DEF Slice
  <2> QED  BY <2>2
<1> QED  BY <1>1, <1>2

\* Once the places that were read are all there are, nothing is left.
LEMMA EndReads ==
    ASSUME NEW s \in Seq(Rows), NEW n \in Nat, NEW O, NEW R,
           ReadTo(s, n, O, R), Len(s) <= n, O \subseteq ToSet(s) \union R
    PROVE  O \subseteq R
<1> SUFFICES ASSUME NEW r \in O, r \in ToSet(s)  PROVE r \in R
  OBVIOUS
<1>1. PICK i \in DOMAIN s : s[i] = r  BY DEF ToSet
<1>2. i <= n  OBVIOUS
<1> QED  BY <1>1, <1>2 DEF ReadTo

\* What the places say is not disturbed when more is collected or lost.
LEMMA ReadsMore ==
    ASSUME NEW s, NEW n, NEW O, NEW R, NEW T, ReadTo(s, n, O, R), R \subseteq T
    PROVE  ReadTo(s, n, O, T)
BY DEF ReadTo

LEMMA NothingRead ==
    ASSUME NEW s \in Seq(Rows), NEW O, NEW R  PROVE ReadTo(s, 0, O, R)
BY DEF ReadTo

\* The places above page p.
Base(p) == (p - 1) * PageSize

LEMMA NextBase ==
    ASSUME SubjectBounds, NEW p \in Nat \ {0}
    PROVE  Base(p) \in Nat /\ Base(p + 1) = Base(p) + PageSize
<1>1. PageSize \in Nat \ {0} /\ p - 1 \in Nat  BY DEF SubjectBounds
<1>2. \A k \in Nat : k * PageSize \in Nat /\ (k + 1) * PageSize = k * PageSize + PageSize  BY <1>1
<1>3. (p + 1) - 1 = (p - 1) + 1  OBVIOUS
<1> QED  BY <1>1, <1>2, <1>3 DEF Base

\* A place of a list comes first among some.
LEMMA LeastExists ==
    ASSUME NEW S \in SUBSET Nat, S # {}
    PROVE  \E x \in S : \A y \in S : x <= y
<1> DEFINE R == OpToRel(<, Nat)
<1>1. IsWellFoundedOn(R, Nat)  BY NatLessThanWellFounded
<1>2. PICK x \in S : \A y \in S : ~ (<<y, x>> \in R)  BY <1>1, WFMin
<1>3. ASSUME NEW y \in S  PROVE x <= y
  <2>1. ~ y < x /\ x \in Nat /\ y \in Nat  BY <1>2 DEF OpToRel
  <2> QED  BY <2>1
<1> QED  BY <1>2, <1>3

----------------------------------------------------------------------------
Pages == Nat \ {0}
Collected == {S \in SUBSET Rows : IsFiniteSet(S)}
Terms == 1..Len(query) + 1
Calls == [term : Terms, page : Pages, rows : Collected, budget : Nat, read : Nat,
          open : BOOLEAN, stop : BOOLEAN, more : BOOLEAN]
Tokens == [ret : Nat, anchor : Rows \union {None}, term : Terms, page : Nat]
Windows == [rows : Collected, done : 0..Len(query), page : Nat]

\* The types, with the shape of a call in flight, of the token and of a cached window. A
\* call that is not stopped is inside a phrase; one that stopped of itself is past all.
TypeInv ==
    /\ found \in [Phrases -> Seq(Rows)] /\ \A ph \in Phrases : NewestFirst(found[ph])
    /\ query \in Subjects /\ events \in 0..Events /\ closed \in BOOLEAN
    /\ owed \subseteq Rows /\ got \subseteq Rows /\ passed \subseteq Rows /\ stale \subseteq Rows
    /\ torn \subseteq Rows /\ slipped \subseteq Rows /\ narrow \subseteq Rows
    /\ token # NoToken => token \in Tokens
    /\ window # NoWindow => window \in Windows
    /\ call # NoCall => call \in Calls
    /\ call # NoCall => (call.stop <=> call.more \/ call.term > Len(query))

Lost == got \union passed \union stale \union torn \union slipped \union narrow

\* Every owed row is current, and is listed for a phrase or has slipped.
OwedInv ==
    \A r \in owed : r >= Floor /\ (r \in slipped \/ \E k \in DOMAIN query : r \in ToSet(found[query[k]]))

\* What stands before a place is in R.
Past(term, page, R) ==
    \A k \in DOMAIN query :
        /\ k < term => ToSet(found[query[k]]) \intersect owed \subseteq R
        /\ k = term => ReadTo(found[query[k]], Base(page), owed, R)

\* Before the place of a call, every owed row was collected or is lost by name; and so
\* before the place of the token, for the window it goes on with.
PlaceInv ==
    /\ call # NoCall =>
          ~closed /\ window.rows \subseteq call.rows /\ Past(call.term, call.page, Lost \union call.rows)
    /\ token # NoToken /\ window # NoWindow =>
          Past(token.term, Opened(token.page), Lost \union window.rows)

SubjectInv == TypeInv /\ OwedInv /\ PlaceInv

LEMMA Asked ==
    ASSUME SubjectBounds, query \in Subjects
    PROVE  /\ Len(query) \in Nat /\ DOMAIN query = 1..Len(query)
           /\ \A k \in DOMAIN query : query[k] \in Phrases /\ query[k] \in ToSet(query)
           /\ ToSet(query) \subseteq Phrases /\ \A ph \in ToSet(query) : \E k \in DOMAIN query : ph = query[k]
BY DEF SubjectBounds, Phrases, ToSet

LEMMA Shapes ==
    /\ \A c \in Calls : c # NoCall /\ c # NoWindow
    /\ \A t \in Tokens : t # NoCall /\ t # NoWindow /\ t # NoToken
    /\ \A w \in Windows : w # NoCall /\ w # NoWindow
    /\ NoToken # NoCall /\ NoToken # NoWindow /\ NoToken.page = None
<1>1. ASSUME NEW c \in Calls  PROVE c # NoCall /\ c # NoWindow
  <2>1. "page" \in DOMAIN c  BY DEF Calls
  <2> QED  BY <2>1 DEF NoCall, NoWindow
<1>2. ASSUME NEW t \in Tokens  PROVE t # NoCall /\ t # NoWindow /\ t # NoToken
  <2>1. "page" \in DOMAIN t /\ t.term # None  BY DEF Tokens, Terms, None
  <2> QED  BY <2>1 DEF NoCall, NoWindow, NoToken
<1>3. ASSUME NEW w \in Windows  PROVE w # NoCall /\ w # NoWindow
  <2>1. "page" \in DOMAIN w  BY DEF Windows
  <2> QED  BY <2>1 DEF NoCall, NoWindow
<1>4. NoToken # NoCall /\ NoToken # NoWindow /\ NoToken.page = None
  <2>1. "page" \in DOMAIN NoToken  BY DEF NoToken
  <2> QED  BY <2>1 DEF NoCall, NoWindow, NoToken
<1> QED  BY <1>1, <1>2, <1>3, <1>4

LEMMA PastMore ==
    ASSUME NEW t, NEW p, NEW R, NEW S, Past(t, p, R), R \subseteq S  PROVE Past(t, p, S)
BY ReadsMore DEF Past

\* It stands when nothing of it changes.
LEMMA PastStays ==
    ASSUME NEW t, NEW p, NEW R, Past(t, p, R), UNCHANGED <<found, query, owed>>
    PROVE  \A k \in DOMAIN query' :
              /\ k < t => ToSet(found'[query'[k]]) \intersect owed' \subseteq R
              /\ k = t => ReadTo(found'[query'[k]], Base(p), owed', R)
BY DEF Past

\* The head of the first phrase has nothing before it.
LEMMA PastNothing ==
    ASSUME SubjectBounds, TypeInv, NEW R  PROVE Past(1, 1, R)
<1>1. Base(1) = 0  BY DEF Base, SubjectBounds
<1>2. ASSUME NEW k \in DOMAIN query  PROVE ~ k < 1 /\ found[query[k]] \in Seq(Rows)
  BY <1>2, Asked DEF TypeInv
<1> QED  BY <1>1, <1>2, NothingRead DEF Past

\* A page that is not known opens at the first one.
LEMMA OpenedPages ==
    ASSUME NEW p \in Nat
    PROVE  Opened(p) \in Pages /\ (Opened(p) # 1 => p # None /\ Opened(p) = p)
BY DEF Opened, Pages, None

LEMMA SliceIsCollected ==
    ASSUME NEW s \in Seq(Rows), NEW n, NEW m
    PROVE  Slice(s, n, m) \in Collected
<1> DEFINE I == {j \in DOMAIN s : n < j /\ j <= n + m}
           f == [j \in I |-> s[j]]
<1>1. IsFiniteSet(I)
  <2>1. IsFiniteSet(1..Len(s))  BY FS_Interval
  <2>2. I \subseteq 1..Len(s)  OBVIOUS
  <2> QED  BY <2>1, <2>2, FS_Subset
<1>2. Slice(s, n, m) = {s[j] : j \in I}  BY DEF Slice
<1>3. f \in Surjection(I, {s[j] : j \in I})  BY DEF Surjection
<1>4. \A j \in I : s[j] \in Rows  OBVIOUS
<1> HIDE DEF I, f
<1>5. IsFiniteSet({s[j] : j \in I})  BY <1>1, <1>3, FS_Surjection
<1> QED  BY <1>2, <1>4, <1>5 DEF Collected

LEMMA SomeAreCollected ==
    /\ {} \in Collected
    /\ \A S, T \in Collected : S \union T \in Collected
    /\ \A S \in Collected : \A T : T \subseteq S => T \in Collected
    /\ \A S \in Collected : Current(S) \in Collected /\ Cardinality(S) \in Nat
    /\ \A S \in Collected : \A r : Depth(S, r) \in Nat
<1>1. {} \in Collected  BY FS_EmptySet DEF Collected
<1>2. \A S, T \in Collected : S \union T \in Collected  BY FS_Union DEF Collected
<1>3. \A S \in Collected : \A T : T \subseteq S => T \in Collected  BY FS_Subset DEF Collected
<1>4. \A S \in Collected : Cardinality(S) \in Nat  BY FS_CardinalityType DEF Collected
<1>5. ASSUME NEW S \in Collected, NEW r
      PROVE  Current(S) \in Collected /\ Depth(S, r) \in Nat
  <2>1. Current(S) \subseteq S /\ {s \in S : s >= r} \subseteq S  BY DEF Current
  <2> QED  BY <1>3, <1>4, <2>1 DEF Depth
<1> QED  BY <1>1, <1>2, <1>3, <1>4, <1>5

\* What stands before a place is all that was read when the place was reached.
LEMMA BeforeReads ==
    ASSUME SubjectBounds, TypeInv, NEW t \in Terms, NEW p \in Pages, NEW O \in SUBSET Rows,
           \A r \in O : r >= Floor, NEW R, Before(t, p) \intersect O \subseteq R
    PROVE  \A k \in DOMAIN query :
              /\ k < t => ToSet(found[query[k]]) \intersect O \subseteq R
              /\ k = t => ReadTo(found[query[k]], Base(p), O, R)
<1> SUFFICES ASSUME NEW k \in DOMAIN query
             PROVE  /\ k < t => ToSet(found[query[k]]) \intersect O \subseteq R
                    /\ k = t => ReadTo(found[query[k]], Base(p), O, R)
  OBVIOUS
<1> DEFINE lst == found[query[k]]
<1>1. lst \in Seq(Rows)  BY Asked DEF TypeInv
<1>2. ASSUME k < t, NEW r \in ToSet(lst), r \in O  PROVE r \in R
  <2>1. r \in Listed(query[k])  BY <1>2 DEF Listed, Current
  <2>2. r \in Before(t, p)  BY <1>2, <2>1 DEF Before
  <2> QED  BY <1>2, <2>2
<1>3. ASSUME k = t, NEW i \in DOMAIN lst, i <= Base(p), lst[i] \in O  PROVE lst[i] \in R
  <2>1. i \in Nat \ {0} /\ Base(p) \in Nat
    <3>1. DOMAIN lst = 1..Len(lst) /\ Len(lst) \in Nat  BY <1>1
    <3>2. i \in Nat \ {0}  BY <1>3, <3>1
    <3>3. Base(p) \in Nat  BY NextBase DEF Pages
    <3> QED  BY <3>2, <3>3
  <2>2. 0 < i /\ i <= 0 + Base(p)  BY <1>3, <2>1
  <2>3. lst[i] \in Slice(lst, 0, Base(p))  BY <2>2 DEF Slice
  <2>4. lst[i] \in Current(Slice(found[query[k]], 0, (p - 1) * PageSize))
    BY <1>3, <2>3 DEF Current, Base
  <2>5. lst[i] \in Before(t, p)  BY <1>3, <2>4 DEF Before
  <2> QED  BY <1>3, <2>5
<1> QED  BY <1>2, <1>3 DEF ReadTo

----------------------------------------------------------------------------
\* A reading begins where the token and the window say, and names what it is put past.
LEMMA Asking ==
    ASSUME SubjectBounds, SubjectInv, Ask
    PROVE  /\ SubjectInv' /\ ~closed /\ UNCHANGED <<got, passed, torn, slipped, narrow, closed>>
           /\ stale \subseteq stale' /\ owed' \subseteq Rows
           /\ token # NoToken => UNCHANGED <<owed, stale>>
<1> USE DEF SubjectInv
<1>1. /\ call = NoCall /\ ~closed
      /\ UNCHANGED <<found, query, token, window, events, got, passed, torn, slipped, narrow, closed>>
  BY DEF Ask
<1>2. /\ Len(query) \in Nat /\ DOMAIN query = 1..Len(query)
      /\ \A k \in DOMAIN query : query[k] \in Phrases /\ query[k] \in ToSet(query)
      /\ ToSet(query) \subseteq Phrases /\ \A ph \in ToSet(query) : \E k \in DOMAIN query : ph = query[k]
  BY Asked DEF TypeInv
<1>3. Rows \subseteq Nat /\ \A ph \in Phrases : found[ph] \in Seq(Rows)  BY DEF SubjectBounds, TypeInv
<1> DEFINE term == StartTerm
           page == StartPage
<1>4. term \in Terms /\ page \in Pages /\ window.rows \in Collected
  <2>1. CASE window = NoWindow
    <3>1. window.rows = {} /\ term = 1 /\ page = 1  BY <2>1 DEF NoWindow, StartTerm, StartPage
    <3> QED  BY <1>2, <3>1, SomeAreCollected DEF Terms, Pages
  <2>2. CASE window # NoWindow
    <3>1. window \in Windows  BY <2>2 DEF TypeInv
    <3>2. window.done + 1 \in Terms /\ window.page \in Nat /\ window.rows \in Collected
      BY <1>2, <3>1 DEF Windows, Terms
    <3>3. token # NoToken => token.term \in Terms /\ token.page \in Nat  BY DEF TypeInv, Tokens
    <3> QED  BY <2>2, <3>2, <3>3, OpenedPages DEF StartTerm, StartPage
  <2> QED  BY <2>1, <2>2
<1>5. token.ret \in Nat /\ Limit \in Nat  BY DEF TypeInv, Tokens, NoToken, SubjectBounds
<1> HIDE DEF term, page
<1> DEFINE c == [term |-> term, page |-> page, rows |-> window.rows, budget |-> token.ret + Limit,
                 read |-> 0, open |-> FALSE, stop |-> term > Len(query), more |-> FALSE]
<1>6. call' = c  BY DEF Ask, term, page
<1>7. c \in Calls /\ c.term = term /\ c.page = page /\ c.rows = window.rows
      /\ (c.stop <=> c.more \/ c.term > Len(query))
  <2>1. (term > Len(query)) \in BOOLEAN /\ token.ret + Limit \in Nat  BY <1>5
  <2>2. /\ c.stop = (term > Len(query)) /\ c.more = FALSE
        /\ c.term = term /\ c.page = page /\ c.rows = window.rows
    OBVIOUS
  <2>3. c \in Calls  BY <1>4, <2>1 DEF Calls
  <2> QED  BY <2>2, <2>3
<1> HIDE DEF c
<1>8. /\ owed' \subseteq Rows /\ stale \subseteq stale' /\ stale' \subseteq Rows
      /\ Past(term, page, Lost \union window.rows)' /\ OwedInv'
      /\ token # NoToken => UNCHANGED <<owed, stale>>
  <2>1. CASE token # NoToken
    <3>1. UNCHANGED <<owed, stale>>  BY <2>1 DEF Ask
    <3>2. Past(term, page, Lost \union window.rows)
      <4>1. CASE window = NoWindow
        <5>1. term = 1 /\ page = 1  BY <4>1 DEF term, page, StartTerm, StartPage
        <5> QED  BY <5>1, PastNothing
      <4>2. CASE window # NoWindow
        <5>1. term = token.term /\ page = Opened(token.page)
          BY <2>1, <4>2 DEF term, page, StartTerm, StartPage
        <5> QED  BY <2>1, <4>2, <5>1 DEF PlaceInv
      <4> QED  BY <4>1, <4>2
    <3>3. Past(term, page, Lost \union window.rows)'
      BY <1>1, <3>1, <3>2 DEF Past, Lost, ReadTo, Base, term, page, StartTerm, StartPage, Opened
    <3>4. OwedInv'  BY <1>1, <3>1 DEF OwedInv
    <3> QED  BY <2>1, <3>1, <3>3, <3>4 DEF TypeInv
  <2>2. CASE token = NoToken
    <3>1. owed' = UNION {Listed(ph) : ph \in ToSet(query)} /\ stale' = stale \union Overlooked
      BY <2>2 DEF Ask
    <3>2. \A r \in owed' : r \in Rows /\ r >= Floor /\ \E k \in DOMAIN query : r \in Listed(query[k])
      <4> SUFFICES ASSUME NEW ph \in ToSet(query), NEW r \in Listed(ph)
                   PROVE  r \in Rows /\ r >= Floor /\ \E k \in DOMAIN query : r \in Listed(query[k])
        BY <3>1
      <4>1. PICK k \in DOMAIN query : ph = query[k]  BY <1>2
      <4>2. r \in ToSet(found[ph]) /\ r >= Floor  BY DEF Listed, Current
      <4>3. r \in Rows  BY <1>2, <1>3, <4>2 DEF ToSet
      <4> QED  BY <4>1, <4>2, <4>3
    <3>3. OwedInv'
      <4>1. \A k \in DOMAIN query : Listed(query[k]) \subseteq ToSet(found[query[k]])
        BY DEF Listed, Current
      <4> QED  BY <1>1, <3>2, <4>1 DEF OwedInv
    <3>4. Before(term, page) \union UNION {{r \in Listed(query[k]) :
                \E s \in window.rows \intersect Listed(query[k]) : s < r} :
                  k \in {term} \intersect DOMAIN query} \subseteq Rows
      <4>1. ASSUME NEW k \in DOMAIN query
            PROVE  /\ Listed(query[k]) \subseteq Rows
                   /\ \A n : Current(Slice(found[query[k]], 0, n)) \subseteq Rows
        <5>1. found[query[k]] \in Seq(Rows)  BY <1>2, <1>3
        <5>2. ToSet(found[query[k]]) \subseteq Rows /\ \A n : Slice(found[query[k]], 0, n) \subseteq Rows
          BY <5>1, SliceIsCollected DEF ToSet, Collected
        <5> QED  BY <5>2 DEF Listed, Current
      <4>2. Before(term, page) \subseteq Rows
        <5> SUFFICES ASSUME NEW r \in Before(term, page)  PROVE r \in Rows
          OBVIOUS
        <5>1. \/ \E k \in DOMAIN query : r \in Listed(query[k])
              \/ \E k \in DOMAIN query : r \in Current(Slice(found[query[k]], 0, (page - 1) * PageSize))
          BY DEF Before
        <5> QED  BY <4>1, <5>1
      <4> QED  BY <4>1, <4>2
    <3>5. stale \subseteq stale' /\ stale' \subseteq Rows
      BY <3>1, <3>4 DEF Overlooked, TypeInv, term, page
    <3>6. Before(term, page) \subseteq stale' \union window.rows
      BY <3>1 DEF Overlooked, term, page
    <3>7. stale' \union window.rows \subseteq Lost' \union window.rows'  BY <1>1 DEF Lost
    <3>8. \A k \in DOMAIN query :
              /\ k < term => ToSet(found[query[k]]) \intersect owed' \subseteq Lost' \union window.rows'
              /\ k = term => ReadTo(found[query[k]], Base(page), owed', Lost' \union window.rows')
      <4>1. Before(term, page) \intersect owed' \subseteq Lost' \union window.rows'  BY <3>6, <3>7
      <4>2. owed' \in SUBSET Rows /\ \A r \in owed' : r >= Floor  BY <3>2
      <4> QED  BY <1>4, <4>1, <4>2, BeforeReads
    <3>9. Past(term, page, Lost \union window.rows)'
      BY <1>1, <3>8 DEF Past, ReadTo, Base, term, page, StartTerm, StartPage, Opened
    <3> QED  BY <2>2, <3>2, <3>3, <3>5, <3>9
  <2> QED  BY <2>1, <2>2
<1>9. TypeInv'
  BY <1>1, <1>6, <1>7, <1>8 DEF TypeInv, NewestFirst, Tokens, Windows, Calls, Terms
<1>10. PlaceInv'
  <2>1. /\ ~closed' /\ window'.rows \subseteq call'.rows
        /\ Past(call.term, call.page, Lost \union call.rows)'
    BY <1>1, <1>6, <1>7, <1>8 DEF Past, ReadTo, Base, term, page, StartTerm, StartPage, Opened
  <2>2. token' # NoToken /\ window' # NoWindow =>
            Past(token.term, Opened(token.page), Lost \union window.rows)'
    BY <1>1, <1>8 DEF PlaceInv, Past, Lost, ReadTo, Base, Opened
  <2> QED  BY <2>1, <2>2 DEF PlaceInv
<1> QED  BY <1>1, <1>8, <1>9, <1>10

\* Below a row that is older than the watermark every row of the list is older too.
LEMMA OldReads ==
    ASSUME SubjectBounds, NEW s \in Seq(Rows), NewestFirst(s), NEW n \in Nat, NEW m \in Nat,
           NEW O \in SUBSET Rows, \A r \in O : r >= Floor, NEW R, ReadTo(s, n + m, O, R),
           NEW r \in Slice(s, n, m), ~ r >= Floor
    PROVE  ToSet(s) \intersect O \subseteq R
<1>1. PICK j \in DOMAIN s : s[j] = r /\ n < j /\ j <= n + m  BY DEF Slice
<1>2. Rows \subseteq Nat /\ Floor \in Nat  BY DEF SubjectBounds
<1> SUFFICES ASSUME NEW i \in DOMAIN s, s[i] \in O  PROVE s[i] \in R
  BY DEF ToSet
<1>3. CASE i <= j  BY <1>1, <1>3 DEF ReadTo
<1>4. CASE ~ i <= j
  <2>1. s[i] \in Rows /\ s[j] \in Rows  OBVIOUS
  <2>2. s[i] \in Nat /\ s[j] \in Nat  BY <1>2, <2>1
  <2>3. j < i /\ s[j] > s[i]  BY <1>4 DEF NewestFirst
  <2>4. s[i] >= Floor  OBVIOUS
  <2> QED  BY <1>1, <1>2, <2>2, <2>3, <2>4
<1> QED  BY <1>3, <1>4

LEMMA LastPages ==
    ASSUME SubjectBounds, NEW n \in Nat, NEW p \in Pages, p >= (n + PageSize - 1) \div PageSize
    PROVE  n <= Base(p) + PageSize
<1> DEFINE q == (n + PageSize - 1) \div PageSize
           d == p - q
<1>1. PageSize \in Nat \ {0} /\ p \in Nat \ {0}  BY DEF SubjectBounds, Pages
<1>2. q \in Nat /\ n + PageSize - 1 < PageSize * q + PageSize  BY <1>1
<1>3. p >= q  OBVIOUS
<1> HIDE DEF q
<1>4. d \in Nat /\ p = q + d  BY <1>1, <1>2, <1>3
<1> HIDE DEF d
<1>5. PageSize * p = PageSize * q + PageSize * d  BY <1>1, <1>2, <1>4
<1>6. PageSize * q \in Nat /\ PageSize * d \in Nat  BY <1>1, <1>2, <1>4
<1>7. n <= PageSize * p  BY <1>1, <1>2, <1>5, <1>6
<1>8. Base(p) + PageSize = PageSize * p
  <2>1. \A x \in Nat : x * PageSize + PageSize = PageSize * (x + 1)  BY <1>1
  <2>2. p - 1 \in Nat /\ (p - 1) + 1 = p  BY <1>1
  <2> QED  BY <2>1, <2>2 DEF Base
<1> QED  BY <1>7, <1>8

\* What the pages down to the next one say of a set of rows, and when that is all of them.
LEMMA APageShows ==
    ASSUME SubjectBounds, NEW s \in Seq(Rows), NewestFirst(s), NEW p \in Pages,
           NEW O \in SUBSET Rows, \A r \in O : r >= Floor, NEW R, ReadTo(s, Base(p), O, R),
           NEW page, page = Slice(s, Base(p), PageSize)
    PROVE  /\ ReadTo(s, Base(p + 1), O, R \union Current(page))
           /\ page = {} \/ page # Current(page) \/ p >= (Len(s) + PageSize - 1) \div PageSize
                 => ToSet(s) \intersect O \subseteq R \union Current(page)
<1> DEFINE n == Base(p)
           T == R \union Current(page)
<1>1. n \in Nat /\ Base(p + 1) = n + PageSize /\ PageSize \in Nat \ {0}
  BY NextBase DEF Pages, SubjectBounds
<1>2. R \subseteq T /\ page \intersect O \subseteq T  BY DEF Current
<1>3. ReadTo(s, n, O, R)  OBVIOUS
<1>4. page = Slice(s, n, PageSize)  OBVIOUS
<1> HIDE DEF n, T
<1>5. ReadTo(s, n + PageSize, O, T)  BY <1>1, <1>2, <1>3, <1>4, PageReads
<1>6. ASSUME page = {}  PROVE ToSet(s) \intersect O \subseteq T
  <2>1. Len(s) <= n
    <3> SUFFICES ASSUME ~ Len(s) <= n  PROVE FALSE
      OBVIOUS
    <3>1. n + 1 \in DOMAIN s /\ n < n + 1 /\ n + 1 <= n + PageSize  BY <1>1
    <3>2. s[n + 1] \in Slice(s, n, PageSize)  BY <3>1 DEF Slice
    <3> QED  BY <1>4, <1>6, <3>2
  <2> QED  BY <1>1, <1>5, <2>1 DEF ReadTo, ToSet
<1>7. ASSUME page # Current(page)  PROVE ToSet(s) \intersect O \subseteq T
  <2>1. PICK r \in page : ~ r >= Floor  BY <1>7 DEF Current
  <2> QED  BY <1>1, <1>4, <1>5, <2>1, OldReads
<1>8. ASSUME p >= (Len(s) + PageSize - 1) \div PageSize  PROVE ToSet(s) \intersect O \subseteq T
  <2>1. Len(s) \in Nat  OBVIOUS
  <2>2. Len(s) <= n + PageSize  BY <1>8, <2>1, LastPages DEF n
  <2> QED  BY <1>1, <1>5, <2>2 DEF ReadTo, ToSet
<1> QED  BY <1>1, <1>5, <1>6, <1>7, <1>8 DEF n, T

\* A call that goes on is inside a phrase, and turns to a page of it.
LEMMA InsideAPhrase ==
    ASSUME SubjectBounds, SubjectInv, call # NoCall, ~call.stop
    PROVE  LET ph == query[call.term]
               page == PageRows(ph, call.page)
           IN  /\ call \in Calls /\ call.page \in Pages /\ call.term \in DOMAIN query /\ ~call.more
               /\ found[ph] \in Seq(Rows) /\ NewestFirst(found[ph])
               /\ page = Slice(found[ph], Base(call.page), PageSize)
               /\ call.rows \union Current(page) \in Collected
<1> DEFINE s == found[query[call.term]]
<1>1. /\ Len(query) \in Nat /\ DOMAIN query = 1..Len(query)
      /\ \A k \in DOMAIN query : query[k] \in Phrases
  BY Asked DEF SubjectInv, TypeInv
<1>2. call \in Calls /\ call.page \in Pages /\ call.rows \in Collected /\ call.term \in Terms
  BY DEF SubjectInv, TypeInv, Calls
<1>3. ~call.more /\ call.term \in DOMAIN query
  <2>1. ~call.more /\ ~ call.term > Len(query)  BY DEF SubjectInv, TypeInv
  <2> QED  BY <1>1, <1>2, <2>1 DEF Terms
<1>4. s \in Seq(Rows) /\ NewestFirst(s)  BY <1>1, <1>3 DEF SubjectInv, TypeInv
<1>5. PageRows(query[call.term], call.page) = Slice(s, Base(call.page), PageSize)
  BY DEF PageRows, Base
<1> HIDE DEF s
<1>6. Slice(s, Base(call.page), PageSize) \in Collected  BY <1>4, SliceIsCollected
<1>7. call.rows \union Current(PageRows(query[call.term], call.page)) \in Collected
  BY <1>2, <1>5, <1>6, SomeAreCollected
<1> QED  BY <1>2, <1>3, <1>4, <1>5, <1>7 DEF s

\* What a call has read of its phrase, once it has read the next page, and when that is all.
LEMMA APageIsRead ==
    ASSUME SubjectBounds, SubjectInv, call # NoCall, ~call.stop
    PROVE  LET ph   == query[call.term]
               page == PageRows(ph, call.page)
               rows == call.rows \union Current(page)
           IN  /\ Past(call.term, call.page, Lost \union rows)
               /\ ReadTo(found[ph], Base(call.page + 1), owed, Lost \union rows)
               /\ page = {} \/ page # Current(page) \/ call.page >= LastPage(ph)
                     => ToSet(found[ph]) \intersect owed \subseteq Lost \union rows
<1> DEFINE ph   == query[call.term]
           s    == found[ph]
           page == PageRows(ph, call.page)
           rows == call.rows \union Current(page)
           R    == Lost \union call.rows
<1>1. /\ call.page \in Pages /\ call.term \in DOMAIN query /\ s \in Seq(Rows) /\ NewestFirst(s)
      /\ page = Slice(s, Base(call.page), PageSize)
  BY InsideAPhrase
<1>2. owed \in SUBSET Rows /\ \A r \in owed : r >= Floor  BY DEF SubjectInv, TypeInv, OwedInv
<1>3. Past(call.term, call.page, R)  BY DEF SubjectInv, PlaceInv
<1>4. ReadTo(s, Base(call.page), owed, R)  BY <1>1, <1>3 DEF Past
<1>5. LastPage(ph) = (Len(s) + PageSize - 1) \div PageSize  BY DEF LastPage
<1>6. Lost \union rows = R \union Current(page)  OBVIOUS
<1> HIDE DEF ph, s, page, rows, R
<1>7. /\ ReadTo(s, Base(call.page + 1), owed, R \union Current(page))
      /\ page = {} \/ page # Current(page) \/ call.page >= (Len(s) + PageSize - 1) \div PageSize
            => ToSet(s) \intersect owed \subseteq R \union Current(page)
  <2> DEFINE n == call.page
  <2>1. n \in Pages /\ ReadTo(s, Base(n), owed, R) /\ page = Slice(s, Base(n), PageSize)
    BY <1>1, <1>4
  <2> HIDE DEF n
  <2>2. /\ ReadTo(s, Base(n + 1), owed, R \union Current(page))
        /\ page = {} \/ page # Current(page) \/ n >= (Len(s) + PageSize - 1) \div PageSize
              => ToSet(s) \intersect owed \subseteq R \union Current(page)
    BY <1>1, <1>2, <2>1, APageShows
  <2> QED  BY <2>2 DEF n
<1>8. Past(call.term, call.page, Lost \union rows)
  <2>1. R \subseteq Lost \union rows  BY <1>6
  <2> QED  BY <1>3, <2>1, PastMore
<1> QED  BY <1>5, <1>6, <1>7, <1>8 DEF ph, s, page, rows

\* A step of a call that keeps what it has and does not lose its place.
LEMMA CallMoves ==
    ASSUME SubjectInv, call # NoCall, UNCHANGED <<found, query, token, window>>, UNCHANGED history,
           events' \in 0..Events, call' \in Calls, call.rows \subseteq call'.rows,
           call'.stop <=> call'.more \/ call'.term > Len(query),
           Past(call'.term, call'.page, Lost \union call'.rows)
    PROVE  SubjectInv'
<1> USE DEF SubjectInv, history
<1>1. TypeInv'  BY DEF TypeInv, NewestFirst, Tokens, Windows, Calls, Terms
<1>2. OwedInv'  BY DEF OwedInv
<1>3. window.rows \subseteq call'.rows /\ ~closed  BY DEF PlaceInv
<1>4. PlaceInv'
  <2>1. Past(call.term, call.page, Lost \union call.rows)'
    BY DEF Past, Lost, ReadTo, Base
  <2>2. token' # NoToken /\ window' # NoWindow =>
            Past(token.term, Opened(token.page), Lost \union window.rows)'
    BY DEF PlaceInv, Past, Lost, ReadTo, Base, Opened
  <2> QED  BY <1>3, <2>1, <2>2 DEF PlaceInv
<1> QED  BY <1>1, <1>2, <1>4

\* A call that has read a page turns to the next one, or to the next phrase.
LEMMA APageIsTurned ==
    ASSUME SubjectBounds, SubjectInv, FilteredPage
    PROVE  LET ph   == query[call.term]
               page == PageRows(ph, call.page)
           IN  /\ call' \in Calls /\ call'.rows = call.rows \union Current(page)
               /\ call'.budget = call.budget
               /\ call'.stop <=> call'.more \/ call'.term > Len(query)
               /\ \/ /\ call'.term = call.term + 1 /\ call'.page = 1
                     /\ page = {} \/ page # Current(page) \/ call.page >= LastPage(ph)
                  \/ call'.term = call.term /\ call'.page = call.page + 1
<1> DEFINE ph   == query[call.term]
           page == PageRows(ph, call.page)
           rows == call.rows \union Current(page)
           read == [call EXCEPT !.rows = @ \union Current(page), !.read = @ + 1, !.open = TRUE]
           next == [read EXCEPT !.page = @ + 1]
<1>1. /\ call # NoCall /\ ~call.stop /\ call' = AfterPage(call, ph, page)
  BY DEF FilteredPage
<1>2. call \in Calls /\ call.term \in DOMAIN query /\ ~call.more /\ rows \in Collected
  BY <1>1, InsideAPhrase
<1>3. \/ /\ call' = NextPhrase(read)
         /\ page = {} \/ page # Current(page) \/ call.page >= LastPage(ph)
      \/ call' = Truncated(next)
      \/ call' = next
  BY <1>1 DEF AfterPage
<1>4. Len(query) \in Nat /\ DOMAIN query = 1..Len(query)  BY Asked DEF SubjectInv, TypeInv
<1> HIDE DEF page
<1>5. /\ read \in Calls /\ read.term = call.term /\ read.page = call.page /\ read.rows = rows
      /\ read.budget = call.budget /\ read.stop = FALSE /\ read.more = FALSE
  <2>1. call.stop = FALSE /\ call.more = FALSE /\ call.read + 1 \in Nat  BY <1>1, <1>2 DEF Calls
  <2>2. read = [call EXCEPT !.rows = rows, !.read = call.read + 1, !.open = TRUE]
    BY <1>2 DEF Calls
  <2> HIDE DEF read, rows
  <2> QED  BY <1>2, <2>1, <2>2 DEF Calls
<1> HIDE DEF read
<1>6. /\ next \in Calls /\ next.term = call.term /\ next.page = call.page + 1 /\ next.rows = rows
      /\ next.budget = call.budget /\ next.stop = FALSE /\ next.more = FALSE
  <2>1. call.page + 1 \in Pages /\ read.page + 1 \in Pages  BY <1>2, <1>5 DEF Calls, Pages
  <2> QED  BY <1>5, <2>1 DEF Calls
<1> HIDE DEF next
<1>7. CASE call' = NextPhrase(read) /\ (page = {} \/ page # Current(page) \/ call.page >= LastPage(ph))
  <2>1. /\ call'.term = call.term + 1 /\ call'.page = 1 /\ call'.rows = rows /\ call'.more = FALSE
        /\ call'.budget = call.budget
        /\ (call'.stop <=> call.term = Len(query)) /\ call' \in Calls
    <3>1. call.term + 1 \in Terms /\ 1 \in Pages  BY <1>2, <1>4 DEF Terms, Pages
    <3>2. call' = [read EXCEPT !.term = call.term + 1, !.page = 1, !.open = FALSE,
                               !.stop = (call.term = Len(query))]
      BY <1>5, <1>7 DEF NextPhrase, Calls
    <3>3. (call.term = Len(query)) \in BOOLEAN  OBVIOUS
    <3> QED  BY <1>5, <3>1, <3>2, <3>3 DEF Calls
  <2>2. call'.stop <=> call'.more \/ call'.term > Len(query)  BY <1>2, <1>4, <2>1
  <2> QED  BY <1>7, <2>1, <2>2 DEF page
<1>8. CASE call' = Truncated(next)
  <2>1. /\ call'.term = call.term /\ call'.page = call.page + 1 /\ call'.rows = rows
        /\ call'.budget = call.budget /\ call'.more /\ call'.stop /\ call' \in Calls
    BY <1>6, <1>8 DEF Truncated, Calls
  <2> QED  BY <2>1 DEF page
<1>9. CASE call' = next
  <2>1. ~ call'.term > Len(query)  BY <1>2, <1>4, <1>6, <1>9
  <2> QED  BY <1>6, <1>9, <2>1 DEF page
<1> QED  BY <1>3, <1>7, <1>8, <1>9

\* A page is read: its rows are collected, and the place moves on.
LEMMA ReadingAPage ==
    ASSUME SubjectBounds, SubjectInv, FilteredPage  PROVE SubjectInv'
<1> DEFINE ph   == query[call.term]
           page == PageRows(ph, call.page)
           R    == Lost \union (call.rows \union Current(page))
<1>1. /\ call # NoCall /\ ~call.stop
      /\ UNCHANGED <<found, query, token, window>> /\ UNCHANGED history /\ events' = events
  BY DEF FilteredPage
<1>2. /\ call.term \in DOMAIN query /\ Past(call.term, call.page, R)
      /\ ReadTo(found[ph], Base(call.page + 1), owed, R)
      /\ page = {} \/ page # Current(page) \/ call.page >= LastPage(ph)
            => ToSet(found[ph]) \intersect owed \subseteq R
  BY <1>1, APageIsRead, InsideAPhrase
<1>3. /\ call' \in Calls /\ Lost \union call'.rows = R /\ call.rows \subseteq call'.rows
      /\ call'.stop <=> call'.more \/ call'.term > Len(query)
      /\ \/ /\ call'.term = call.term + 1 /\ call'.page = 1
            /\ page = {} \/ page # Current(page) \/ call.page >= LastPage(ph)
         \/ call'.term = call.term /\ call'.page = call.page + 1
  BY APageIsTurned
<1>4. /\ Len(query) \in Nat /\ DOMAIN query = 1..Len(query) /\ events \in 0..Events
      /\ \A k \in DOMAIN query : query[k] \in Phrases /\ found[query[k]] \in Seq(Rows)
  BY Asked DEF SubjectInv, TypeInv
<1> HIDE DEF page, R
<1>5. ASSUME page = {} \/ page # Current(page) \/ call.page >= LastPage(ph)
      PROVE  Past(call.term + 1, 1, R)
  <2>1. Base(1) = 0  BY DEF Base, SubjectBounds
  <2> SUFFICES ASSUME NEW k \in DOMAIN query
               PROVE  /\ k < call.term + 1 => ToSet(found[query[k]]) \intersect owed \subseteq R
                      /\ k = call.term + 1 => ReadTo(found[query[k]], 0, owed, R)
    BY <2>1 DEF Past
  <2>2. k < call.term + 1 => k < call.term \/ k = call.term  BY <1>2, <1>4
  <2>3. ReadTo(found[query[k]], 0, owed, R)  BY <1>4, NothingRead
  <2> QED  BY <1>2, <1>5, <2>2, <2>3 DEF Past
<1>6. Past(call.term, call.page + 1, R)
  <2> SUFFICES ASSUME NEW k \in DOMAIN query
               PROVE  /\ k < call.term => ToSet(found[query[k]]) \intersect owed \subseteq R
                      /\ k = call.term => ReadTo(found[query[k]], Base(call.page + 1), owed, R)
    BY DEF Past
  <2> QED  BY <1>2 DEF Past
<1>7. Past(call'.term, call'.page, Lost \union call'.rows)  BY <1>3, <1>5, <1>6
<1> QED  BY <1>1, <1>3, <1>4, <1>7, CallMoves

\* A call that is cut stops where it is.
LEMMA CuttingShort ==
    ASSUME SubjectBounds, SubjectInv, PageBound \/ Deadline  PROVE SubjectInv'
<1>1. /\ call # NoCall /\ UNCHANGED <<found, query, token, window>> /\ UNCHANGED history
      /\ events \in 0..Events /\ events' \in 0..Events
  BY DEF PageBound, Deadline, SubjectInv, TypeInv, SubjectBounds
<1>2. call \in Calls /\ Past(call.term, call.page, Lost \union call.rows)
  BY <1>1 DEF SubjectInv, TypeInv, PlaceInv
<1>3. PICK open \in BOOLEAN : call' = Truncated([call EXCEPT !.open = open])
  <2>1. CASE PageBound
    <3>1. call' = Truncated([call EXCEPT !.open = call.open]) /\ call.open \in BOOLEAN
      BY <1>2, <2>1 DEF PageBound, Calls
    <3> QED  BY <3>1
  <2>2. CASE Deadline
    <3>1. call.open \in BOOLEAN  BY <1>2 DEF Calls
    <3> QED  BY <2>2, <3>1 DEF Deadline
  <2> QED  BY <2>1, <2>2
<1>4. /\ call' \in Calls /\ call'.term = call.term /\ call'.page = call.page /\ call'.rows = call.rows
      /\ call'.stop /\ call'.more
  BY <1>2, <1>3 DEF Truncated, Calls
<1> QED  BY <1>1, <1>2, <1>4, CallMoves

\* A step that ends the call or leaves it, and keeps what stands.
LEMMA CallEnds ==
    ASSUME SubjectBounds, SubjectInv, UNCHANGED <<found, query, owed>>, events' \in 0..Events,
           call' = NoCall, closed' \in BOOLEAN, Lost \subseteq Lost', slipped \subseteq slipped',
           got' \subseteq Rows, passed' \subseteq Rows, stale' \subseteq Rows, torn' \subseteq Rows,
           slipped' \subseteq Rows, narrow' \subseteq Rows,
           token' # NoToken => token' \in Tokens, window' # NoWindow => window' \in Windows,
           token' # NoToken /\ window' # NoWindow =>
              Past(token'.term, Opened(token'.page), Lost' \union window'.rows)
    PROVE  SubjectInv'
<1> USE DEF SubjectInv
<1>1. TypeInv'  BY DEF TypeInv, NewestFirst, Tokens, Windows, Terms
<1>2. OwedInv'  BY DEF OwedInv
<1>3. PlaceInv'
  <2>1. token' # NoToken /\ window' # NoWindow =>
            Past(token.term, Opened(token.page), Lost \union window.rows)'
    BY DEF Past, Lost, ReadTo, Base, Opened
  <2> QED  BY <2>1 DEF PlaceInv
<1> QED  BY <1>1, <1>2, <1>3

\* What a caller that gave up leaves is no less than it found.
LEMMA KeptWindow ==
    ASSUME SubjectInv, call # NoCall
    PROVE  /\ Kept # NoWindow => Kept \in Windows /\ window # NoWindow /\ window.rows \subseteq Kept.rows
           /\ call \in Calls /\ ~closed
<1>1. call \in Calls /\ ~closed /\ window.rows \subseteq call.rows
  BY DEF SubjectInv, TypeInv, PlaceInv
<1>2. ASSUME Kept # NoWindow
      PROVE  Kept \in Windows /\ window # NoWindow /\ window.rows \subseteq Kept.rows
  <2>1. window # NoWindow /\ window \in Windows  BY <1>2 DEF Kept, SubjectInv, TypeInv
  <2>2. Kept = [window EXCEPT !.rows = call.rows] /\ call.rows \in Collected
    BY <1>1, <2>1 DEF Kept, Calls
  <2>3. Kept \in Windows /\ Kept.rows = call.rows  BY <2>1, <2>2 DEF Windows
  <2> QED  BY <1>1, <2>1, <2>3
<1> QED  BY <1>1, <1>2

LEMMA Aborting ==
    ASSUME SubjectBounds, SubjectInv, Abort  PROVE SubjectInv'
<1>1. /\ call # NoCall /\ call' = NoCall /\ window' = Kept
      /\ UNCHANGED <<found, query, token>> /\ UNCHANGED history
      /\ events' \in 0..Events
  BY DEF Abort, SubjectInv, TypeInv, SubjectBounds
<1>2. /\ Kept # NoWindow => Kept \in Windows /\ window # NoWindow /\ window.rows \subseteq Kept.rows
      /\ ~closed
  BY <1>1, KeptWindow
<1>3. token' # NoToken /\ window' # NoWindow =>
          Past(token'.term, Opened(token'.page), Lost' \union window'.rows)
  <2> SUFFICES ASSUME token # NoToken, Kept # NoWindow
               PROVE  Past(token.term, Opened(token.page), Lost' \union Kept.rows)
    BY <1>1
  <2>1. Lost \union window.rows \subseteq Lost' \union Kept.rows  BY <1>1, <1>2 DEF Lost, history
  <2>2. Past(token.term, Opened(token.page), Lost \union window.rows)
    BY <1>2 DEF SubjectInv, PlaceInv
  <2> QED  BY <2>1, <2>2, PastMore
<1> QED  BY <1>1, <1>2, <1>3, CallEnds DEF SubjectInv, TypeInv, Lost, history

\* The fallback hands over some of the rows whose title shows the phrase, and counts the
\* others as lost.
LEMMA FallingBack ==
    ASSUME SubjectBounds, SubjectInv, FallBack
    PROVE  /\ SubjectInv' /\ ~closed /\ UNCHANGED <<owed, passed, stale, torn, slipped>>
           /\ got \subseteq got' /\ narrow \subseteq narrow'
           /\ closed' => owed \subseteq got' \union narrow'
<1>1. /\ call # NoCall /\ call' = NoCall /\ window' = Kept /\ token' = NoToken
      /\ UNCHANGED <<found, query, owed, passed, stale, torn, slipped>>
      /\ narrow' = narrow \union (owed \ Titled) /\ events' \in 0..Events
  BY DEF FallBack, SubjectInv, TypeInv, SubjectBounds
<1>2. PICK hits \in SUBSET (owed \intersect Titled) :
          got' = got \union hits /\ closed' \in {FALSE, hits = owed \intersect Titled}
  BY DEF FallBack
<1>3. (Kept # NoWindow => Kept \in Windows) /\ ~closed  BY <1>1, KeptWindow
<1>4. /\ closed' \in BOOLEAN /\ got' \subseteq Rows /\ narrow' \subseteq Rows
      /\ passed \subseteq Rows /\ stale \subseteq Rows /\ torn \subseteq Rows /\ slipped \subseteq Rows
  BY <1>1, <1>2 DEF SubjectInv, TypeInv
<1>5. SubjectInv'
  BY <1>1, <1>2, <1>3, <1>4, CallEnds DEF Lost
<1> QED  BY <1>1, <1>2, <1>3, <1>5

LEMMA Forgetting ==
    ASSUME SubjectBounds, SubjectInv, Forget  PROVE SubjectInv'
<1>1. /\ call' = NoCall /\ window' = NoWindow /\ UNCHANGED <<found, query, token>> /\ UNCHANGED history
      /\ events' \in 0..Events
  BY DEF Forget, SubjectInv, TypeInv, SubjectBounds
<1> QED  BY <1>1, CallEnds DEF SubjectInv, TypeInv, Lost, history

LEMMA AskingAnew ==
    ASSUME SubjectBounds, SubjectInv, ReadAgain  PROVE SubjectInv' /\ ~closed'
<1>1. /\ call = NoCall /\ call' = NoCall /\ closed' = FALSE
      /\ UNCHANGED <<found, query, token, window, owed, got, passed, stale, torn, slipped, narrow>>
      /\ events' \in 0..Events
  BY DEF ReadAgain, SubjectInv, TypeInv, PlaceInv, SubjectBounds
<1>2. token # NoToken /\ window # NoWindow =>
          Past(token.term, Opened(token.page), Lost' \union window.rows)
  BY <1>1 DEF SubjectInv, PlaceInv, Lost
<1> QED  BY <1>1, <1>2, CallEnds DEF SubjectInv, TypeInv, Lost

LEMMA AnswerShapes ==
    ASSUME SubjectBounds, SubjectInv, call # NoCall
    PROVE  /\ TokenAfter(call) \in Tokens /\ WindowAfter(call) \in Windows /\ Skipped(call) \in Nat
           /\ call \in Calls /\ call.rows \in Collected /\ Hits(call) \subseteq call.rows
           /\ window.rows \subseteq call.rows /\ ~closed
           /\ Past(call.term, call.page, Lost \union call.rows)
<1>1. /\ call \in Calls /\ call.rows \in Collected /\ call.page \in Pages /\ call.term \in Terms
      /\ window.rows \subseteq call.rows /\ ~closed
      /\ Past(call.term, call.page, Lost \union call.rows)
  BY DEF SubjectInv, TypeInv, PlaceInv, Calls
<1>2. Len(query) \in Nat  BY Asked DEF SubjectInv, TypeInv
<1>3. token.ret \in Nat /\ token.anchor \in Rows \union {None}
  BY DEF SubjectInv, TypeInv, Tokens, NoToken
<1>4. Skipped(call) \in Nat  BY <1>1, <1>3, SomeAreCollected DEF Skipped
<1>5. Hits(call) \subseteq call.rows  BY DEF Hits
<1>6. Cardinality(Hits(call)) \in Nat  BY <1>1, <1>5, SomeAreCollected
<1> DEFINE last == {r \in call.rows : Depth(call.rows, r) = Skipped(call) + Cardinality(Hits(call))}
           anchor == IF last = {} THEN token.anchor ELSE Min(last)
<1>7. anchor \in Rows \union {None}
  <2>1. last \subseteq Rows /\ Rows \subseteq Nat  BY <1>1 DEF Collected, SubjectBounds
  <2>2. ASSUME last # {}  PROVE Min(last) \in last
    <3>1. last \in SUBSET Nat  BY <2>1
    <3> HIDE DEF last
    <3>2. \E x \in last : \A y \in last : x <= y  BY <2>2, <3>1, LeastExists
    <3> QED  BY <3>2 DEF Min
  <2> HIDE DEF last
  <2> QED  BY <1>3, <2>1, <2>2
<1>8. (IF call.open THEN call.page ELSE None) \in Nat  BY <1>1 DEF Pages, None
<1>9. TokenAfter(call) = [ret |-> Skipped(call) + Cardinality(Hits(call)), anchor |-> anchor,
                          term |-> call.term, page |-> IF call.open THEN call.page ELSE None]
  BY DEF TokenAfter
<1>10. TokenAfter(call) \in Tokens
  <2>1. Skipped(call) + Cardinality(Hits(call)) \in Nat  BY <1>4, <1>6
  <2> HIDE DEF anchor
  <2> QED  BY <1>1, <1>7, <1>8, <1>9, <2>1 DEF Tokens
<1>11. WindowAfter(call) \in Windows
  <2>1. call.term - 1 \in 0..Len(query)  BY <1>1, <1>2 DEF Terms
  <2> QED  BY <1>1, <1>8, <2>1 DEF WindowAfter, Windows
<1> QED  BY <1>1, <1>4, <1>5, <1>10, <1>11

\* An answer that arrives: its token says where the call stopped, and an answer that ends
\* the reading has handed over every row it owed, or lost it by name.
LEMMA Hearing ==
    ASSUME SubjectBounds, SubjectInv, Answer(TRUE)
    PROVE  /\ SubjectInv' /\ ~closed /\ UNCHANGED <<owed, stale, torn, slipped, narrow>>
           /\ got \subseteq got' /\ passed \subseteq passed'
           /\ closed' => owed \subseteq Lost'
<1>1. /\ call # NoCall /\ call.stop /\ window' = WindowAfter(call) /\ got' = got \union Hits(call)
      /\ passed' = passed \union LeftOut(call) /\ call' = NoCall
      /\ token' = (IF HasMore(call) THEN TokenAfter(call) ELSE NoToken) /\ closed' = ~HasMore(call)
      /\ UNCHANGED <<found, query, events, owed, stale, torn, slipped, narrow>>
  BY DEF Answer
<1>2. /\ TokenAfter(call) \in Tokens /\ WindowAfter(call) \in Windows /\ Skipped(call) \in Nat
      /\ call \in Calls /\ call.rows \in Collected /\ Hits(call) \subseteq call.rows
      /\ ~closed /\ Past(call.term, call.page, Lost \union call.rows)
  BY <1>1, AnswerShapes
<1>3. LeftOut(call) \subseteq owed /\ WindowAfter(call).rows = call.rows
  BY DEF LeftOut, WindowAfter
<1>4. Lost \subseteq Lost'  BY <1>1 DEF Lost
<1>5. token' # NoToken /\ window' # NoWindow =>
          Past(token'.term, Opened(token'.page), Lost' \union window'.rows)
  <2> SUFFICES ASSUME token' = TokenAfter(call)
               PROVE  Past(token'.term, Opened(token'.page), Lost' \union window'.rows)
    BY <1>1
  <2>1. token'.term = call.term /\ token'.page = IF call.open THEN call.page ELSE None
    BY DEF TokenAfter
  <2>2. Lost \union call.rows \subseteq Lost' \union window'.rows  BY <1>1, <1>3, <1>4
  <2>3. Past(call.term, call.page, Lost' \union window'.rows)  BY <1>2, <2>2, PastMore
  <2>4. CASE call.open
    <3>1. call.page \in Nat \ {0}  BY <1>2 DEF Calls, Pages
    <3>2. Opened(token'.page) = call.page  BY <2>1, <2>4, <3>1 DEF Opened, None
    <3> QED  BY <2>1, <2>3, <3>2
  <2>5. CASE ~call.open
    <3>1. Opened(token'.page) = 1  BY <2>1, <2>5 DEF Opened
    <3>2. Base(1) = 0  BY DEF Base, SubjectBounds
    <3>3. \A k \in DOMAIN query : ReadTo(found[query[k]], 0, owed, Lost' \union window'.rows)
      <4>1. \A k \in DOMAIN query : found[query[k]] \in Seq(Rows)  BY Asked DEF SubjectInv, TypeInv
      <4> QED  BY <4>1, NothingRead
    <3> QED  BY <2>1, <2>3, <3>1, <3>2, <3>3 DEF Past
  <2> QED  BY <2>4, <2>5
<1>6. got' \subseteq Rows /\ passed' \subseteq Rows /\ stale \subseteq Rows /\ torn \subseteq Rows
      /\ slipped \subseteq Rows /\ narrow \subseteq Rows /\ events \in 0..Events
  BY <1>1, <1>2, <1>3 DEF SubjectInv, TypeInv, Collected
<1>7. SubjectInv'
  <2>1. closed' \in BOOLEAN /\ (token' # NoToken => token' \in Tokens)  BY <1>1, <1>2
  <2> QED  BY <1>1, <1>2, <1>4, <1>5, <1>6, <2>1, CallEnds
<1>8. ASSUME closed', NEW r \in owed  PROVE r \in Lost'
  <2>1. ~HasMore(call) /\ ~call.more  BY <1>1, <1>8 DEF HasMore
  <2>2. call.term > Len(query)  BY <1>1, <2>1 DEF SubjectInv, TypeInv
  <2>3. r \in Lost \union call.rows
    <3>1. CASE r \in slipped  BY <3>1 DEF Lost
    <3>2. CASE r \notin slipped
      <4>1. PICK k \in DOMAIN query : r \in ToSet(found[query[k]])  BY <3>2 DEF SubjectInv, OwedInv
      <4>2. k < call.term
        <5>1. Len(query) \in Nat /\ k \in 1..Len(query)  BY Asked DEF SubjectInv, TypeInv
        <5>2. call.term \in Nat  BY <1>2, <5>1 DEF Calls, Terms
        <5> QED  BY <2>2, <5>1, <5>2
      <4> QED  BY <1>2, <4>1, <4>2 DEF Past
    <3> QED  BY <3>1, <3>2
  <2>4. CASE r \in call.rows /\ r \notin Hits(call) /\ r \notin got
    <3> DEFINE depth == Depth(call.rows, r)
               skip  == Skipped(call)
    <3>1. depth \in Nat /\ skip \in Nat /\ Limit \in Nat  BY <1>2, SomeAreCollected DEF SubjectBounds
    <3>2. depth \notin skip + 1 .. skip + Limit  BY <2>4 DEF Hits
    <3> HIDE DEF depth, skip
    <3>3. depth - skip <= 0 \/ depth - skip > Limit  BY <3>1, <3>2
    <3>4. r \in LeftOut(call)  BY <2>1, <2>4, <3>3 DEF LeftOut, depth, skip
    <3> QED  BY <1>1, <3>4 DEF Lost
  <2> QED  BY <1>1, <1>4, <2>3, <2>4 DEF Lost
<1> QED  BY <1>1, <1>2, <1>7, <1>8

\* An answer that is lost: the window it leaves serves the token that the caller still holds,
\* but for what a window that was rebuilt for it does not hold.
LEMMA Losing ==
    ASSUME SubjectBounds, SubjectInv, Answer(FALSE)
    PROVE  /\ SubjectInv' /\ UNCHANGED <<owed, got, passed, stale, slipped, narrow, closed>>
           /\ torn \subseteq torn'
<1>1. /\ call # NoCall /\ window' = WindowAfter(call) /\ call' = NoCall
      /\ UNCHANGED <<found, query, token, owed, got, passed, stale, slipped, narrow, closed>>
      /\ events' \in 0..Events
      /\ torn' = IF token = NoToken \/ window # NoWindow THEN torn
                 ELSE torn \union (Before(token.term, Opened(token.page)) \ call.rows)
  BY DEF Answer, SubjectInv, TypeInv, SubjectBounds
<1>2. /\ WindowAfter(call) \in Windows /\ WindowAfter(call).rows = call.rows
      /\ window.rows \subseteq call.rows /\ ~closed
  BY <1>1, AnswerShapes DEF WindowAfter
<1>3. torn \subseteq torn' /\ torn' \subseteq Rows
  <2>1. \A t, p : Before(t, p) \subseteq Rows
    <3> SUFFICES ASSUME NEW t, NEW p, NEW r \in Before(t, p)  PROVE r \in Rows
      OBVIOUS
    <3>1. PICK k \in DOMAIN query :
              r \in Listed(query[k]) \/ r \in Current(Slice(found[query[k]], 0, (p - 1) * PageSize))
      BY DEF Before
    <3>2. found[query[k]] \in Seq(Rows)  BY Asked DEF SubjectInv, TypeInv
    <3>3. ToSet(found[query[k]]) \subseteq Rows  BY <3>2 DEF ToSet
    <3>4. Slice(found[query[k]], 0, (p - 1) * PageSize) \subseteq Rows
      BY <3>2, SliceIsCollected DEF Collected
    <3> QED  BY <3>1, <3>3, <3>4 DEF Listed, Current
  <2> QED  BY <1>1, <2>1 DEF SubjectInv, TypeInv
<1>4. Lost \subseteq Lost' /\ torn' \subseteq Lost'  BY <1>1, <1>3 DEF Lost
<1>5. token' # NoToken /\ window' # NoWindow =>
          Past(token'.term, Opened(token'.page), Lost' \union window'.rows)
  <2> SUFFICES ASSUME token # NoToken
               PROVE  Past(token.term, Opened(token.page), Lost' \union call.rows)
    BY <1>1, <1>2
  <2>1. CASE window # NoWindow
    <3>1. Past(token.term, Opened(token.page), Lost \union window.rows)
      BY <2>1 DEF SubjectInv, PlaceInv
    <3>2. Lost \union window.rows \subseteq Lost' \union call.rows  BY <1>2, <1>4
    <3> QED  BY <3>1, <3>2, PastMore
  <2>2. CASE window = NoWindow
    <3>1. token.term \in Terms /\ Opened(token.page) \in Pages
      BY OpenedPages DEF SubjectInv, TypeInv, Tokens
    <3>2. Before(token.term, Opened(token.page)) \intersect owed \subseteq Lost' \union call.rows
      BY <1>1, <1>4, <2>2
    <3>3. owed \in SUBSET Rows /\ \A r \in owed : r >= Floor  BY DEF SubjectInv, TypeInv, OwedInv
    <3>4. TypeInv  BY DEF SubjectInv
    <3> QED  BY <3>1, <3>2, <3>3, <3>4, BeforeReads DEF Past
  <2> QED  BY <2>1, <2>2
<1>6. SubjectInv'
  BY <1>1, <1>2, <1>3, <1>4, <1>5, CallEnds DEF SubjectInv, TypeInv
<1> QED  BY <1>1, <1>3, <1>6

\* A row that is posted heads the lists of its phrases, and leaves the others alone.
LEMMA PostedLists ==
    ASSUME SubjectBounds, TypeInv, NEW r \in Rows, NEW phs \in SUBSET Phrases, Post(r, phs),
           NEW ph \in Phrases
    PROVE  /\ found'[ph] \in Seq(Rows) /\ NewestFirst(found'[ph])
           /\ ToSet(found[ph]) \subseteq ToSet(found'[ph]) /\ r \notin ToSet(found[ph])
           /\ ToSet(found'[ph]) \subseteq ToSet(found[ph]) \union {r}
           /\ \A n \in Nat, O, R \in SUBSET Rows :
                 ReadTo(found[ph], n, O, R) /\ (r \in O => r \in R) => ReadTo(found'[ph], n, O, R)
<1>1. found' = [q \in Phrases |-> IF q \in phs THEN <<r>> \o found[q] ELSE found[q]]
  BY DEF Post
<1>2. Rows \subseteq Nat
  BY DEF SubjectBounds
<1>3. found[ph] \in Seq(Rows) /\ NewestFirst(found[ph])  BY DEF TypeInv
<1>4. r \notin ToSet(found[ph]) /\ \A s \in ToSet(found[ph]) : s < r
  <2>1. \A s \in ToSet(found[ph]) : s < r  BY DEF Post
  <2>2. r \in Nat /\ ~ r < r  BY <1>2
  <2> QED  BY <2>1, <2>2
<1>5. CASE ph \notin phs
  <2>1. found'[ph] = found[ph]  BY <1>1, <1>5
  <2> QED  BY <1>3, <1>4, <2>1
<1>6. CASE ph \in phs
  <2> DEFINE old == found[ph]
             new == <<r>> \o found[ph]
  <2>1. found'[ph] = new  BY <1>1, <1>6
  <2>2. /\ new \in Seq(Rows) /\ Len(new) = Len(old) + 1
        /\ \A i \in 1..Len(old) + 1 : new[i] = IF i = 1 THEN r ELSE old[i - 1]
    BY <1>3, Heading
  <2>3. \A n \in Nat, O, R \in SUBSET Rows :
           ReadTo(old, n, O, R) /\ (r \in O => r \in R) => ReadTo(new, n, O, R)
    BY <1>3, HeadingReads
  <2>6. old \in Seq(Rows) /\ NewestFirst(old)  BY <1>3
  <2> HIDE DEF old, new
  <2>4. ToSet(old) \subseteq ToSet(new)
    <3> SUFFICES ASSUME NEW i \in DOMAIN old  PROVE old[i] \in ToSet(new)
      BY DEF ToSet
    <3>1. i + 1 \in DOMAIN new /\ new[i + 1] = old[i]
      <4>1. i + 1 \in 1..Len(old) + 1 /\ i + 1 # 1 /\ (i + 1) - 1 = i  BY <2>6
      <4> QED  BY <2>2, <4>1
    <3> QED  BY <3>1 DEF ToSet
  <2>7. ToSet(new) \subseteq ToSet(old) \union {r}
    <3> SUFFICES ASSUME NEW i \in DOMAIN new, i # 1  PROVE new[i] \in ToSet(old)
      BY <2>2 DEF ToSet
    <3>1. i - 1 \in DOMAIN old /\ new[i] = old[i - 1]  BY <2>2, <2>6
    <3> QED  BY <3>1 DEF ToSet
  <2>5. NewestFirst(new)
    <3> SUFFICES ASSUME NEW i \in DOMAIN new, NEW j \in DOMAIN new, i < j
                 PROVE  new[i] > new[j]
      BY DEF NewestFirst
    <3>1. i \in 1..Len(old) + 1 /\ j \in 1..Len(old) + 1 /\ j # 1 /\ j - 1 \in DOMAIN old
      BY <1>3, <2>2 DEF old
    <3> DEFINE z == old[j - 1]
    <3>2. z \in Rows /\ z \in ToSet(old)  BY <1>3, <3>1 DEF old, ToSet
    <3> HIDE DEF z
    <3>3. new[j] = z  BY <2>2, <3>1 DEF z
    <3>4. CASE i = 1
      <4>1. new[i] = r /\ r \in Nat /\ z \in Nat /\ z < r  BY <1>2, <1>4, <2>2, <3>1, <3>2, <3>4 DEF old
      <4> QED  BY <3>3, <4>1
    <3>5. CASE i # 1
      <4>1. i - 1 \in DOMAIN old /\ i - 1 < j - 1 /\ new[i] = old[i - 1]
        BY <1>3, <2>2, <3>1, <3>5 DEF old
      <4> QED  BY <1>3, <3>1, <3>3, <4>1 DEF NewestFirst, old, z
    <3> QED  BY <3>4, <3>5
  <2> QED  BY <1>4, <2>1, <2>2, <2>3, <2>4, <2>5, <2>7 DEF old
<1> QED  BY <1>5, <1>6

\* A new row is owed to no reading that began before it.
LEMMA Posting ==
    ASSUME SubjectBounds, SubjectInv, NEW r \in Rows, NEW phs \in SUBSET Phrases, Post(r, phs)
    PROVE  SubjectInv' /\ UNCHANGED <<owed, got, passed, stale, torn, slipped, narrow, closed>>
<1> USE DEF SubjectInv
<1>1. UNCHANGED <<query, token, window, call, owed, got, passed, stale, torn, slipped, narrow, closed>>
  BY DEF Post, history
<1>2. found' = [ph \in Phrases |-> IF ph \in phs THEN <<r>> \o found[ph] ELSE found[ph]]
  BY DEF Post
<1>3. /\ Rows \subseteq Nat /\ \A k \in DOMAIN query : query[k] \in Phrases
  BY Asked DEF SubjectBounds, TypeInv
<1>4. ASSUME NEW ph \in Phrases
      PROVE  /\ found'[ph] \in Seq(Rows) /\ NewestFirst(found'[ph])
             /\ ToSet(found[ph]) \subseteq ToSet(found'[ph]) /\ r \notin ToSet(found[ph])
             /\ ToSet(found'[ph]) \subseteq ToSet(found[ph]) \union {r}
             /\ \A n \in Nat, O, R \in SUBSET Rows :
                   ReadTo(found[ph], n, O, R) /\ (r \in O => r \in R) => ReadTo(found'[ph], n, O, R)
  BY PostedLists
<1>5. Lost \subseteq Rows /\ owed \in SUBSET Rows  BY DEF TypeInv, Lost
<1>6. TypeInv'
  <2>1. events' \in 0..Events  BY DEF Post, TypeInv, SubjectBounds
  <2>2. found' \in [Phrases -> Seq(Rows)]  BY <1>2, <1>4
  <2> QED  BY <1>1, <1>4, <2>1, <2>2 DEF TypeInv, NewestFirst, Tokens, Windows, Calls, Terms
<1>7. OwedInv'  BY <1>1, <1>3, <1>4 DEF OwedInv
<1>8. r \in owed => r \in Lost  BY <1>3, <1>4 DEF OwedInv, Lost
<1>9. ASSUME NEW t, NEW p \in Pages, NEW R \in SUBSET Rows, Lost \subseteq R, Past(t, p, R)
      PROVE  \A k \in DOMAIN query :
                /\ k < t => ToSet(found'[query[k]]) \intersect owed \subseteq R
                /\ k = t => ReadTo(found'[query[k]], Base(p), owed, R)
  <2> SUFFICES ASSUME NEW k \in DOMAIN query
               PROVE  /\ k < t => ToSet(found'[query[k]]) \intersect owed \subseteq R
                      /\ k = t => ReadTo(found'[query[k]], Base(p), owed, R)
    OBVIOUS
  <2>1. query[k] \in Phrases /\ Base(p) \in Nat /\ (r \in owed => r \in R)
    BY <1>3, <1>8, <1>9, NextBase DEF Pages
  <2>2. ToSet(found'[query[k]]) \subseteq ToSet(found[query[k]]) \union {r}  BY <1>4, <2>1
  <2>3. k = t => ReadTo(found'[query[k]], Base(p), owed, R)
    BY <1>4, <1>5, <1>9, <2>1 DEF Past
  <2> QED  BY <1>9, <2>1, <2>2, <2>3 DEF Past
<1>10. PlaceInv'
  <2>1. ASSUME call # NoCall
        PROVE  /\ ~closed /\ window.rows \subseteq call.rows
               /\ \A k \in DOMAIN query :
                     /\ k < call.term => ToSet(found'[query[k]]) \intersect owed \subseteq Lost \union call.rows
                     /\ k = call.term => ReadTo(found'[query[k]], Base(call.page), owed, Lost \union call.rows)
    <3>1. call.page \in Pages /\ call.rows \subseteq Rows  BY <2>1 DEF TypeInv, Calls, Collected
    <3>2. Past(call.term, call.page, Lost \union call.rows) /\ ~closed /\ window.rows \subseteq call.rows
      BY <2>1 DEF PlaceInv
    <3>3. Lost \union call.rows \in SUBSET Rows /\ Lost \subseteq Lost \union call.rows  BY <1>5, <3>1
    <3> QED  BY <1>9, <3>1, <3>2, <3>3
  <2>2. ASSUME token # NoToken, window # NoWindow
        PROVE  \A k \in DOMAIN query :
                  /\ k < token.term => ToSet(found'[query[k]]) \intersect owed \subseteq Lost \union window.rows
                  /\ k = token.term =>
                        ReadTo(found'[query[k]], Base(Opened(token.page)), owed, Lost \union window.rows)
    <3>1. Opened(token.page) \in Pages /\ window.rows \subseteq Rows
      BY <2>2, OpenedPages DEF TypeInv, Tokens, Windows, Collected
    <3>2. Past(token.term, Opened(token.page), Lost \union window.rows)  BY <2>2 DEF PlaceInv
    <3>3. Lost \union window.rows \in SUBSET Rows /\ Lost \subseteq Lost \union window.rows  BY <1>5, <3>1
    <3> QED  BY <1>9, <3>1, <3>2, <3>3
  <2>3. call' # NoCall =>
            ~closed' /\ window'.rows \subseteq call'.rows /\ Past(call.term, call.page, Lost \union call.rows)'
    BY <1>1, <2>1 DEF Past, Lost, ReadTo, Base
  <2>4. token' # NoToken /\ window' # NoWindow =>
            Past(token.term, Opened(token.page), Lost \union window.rows)'
    BY <1>1, <2>2 DEF Past, Lost, ReadTo, Base, Opened
  <2> QED  BY <2>3, <2>4 DEF PlaceInv
<1> QED  BY <1>1, <1>6, <1>7, <1>10

\* The pages that are behind a place.
NextPages == {c.page : c \in {token, window, call} \ {NoWindow, NoCall}}

\* A withdrawn row is slipped, and so is each row that moves up to a page that a token, a
\* window or a call is past.
LEMMA Withdrawing ==
    ASSUME SubjectBounds, SubjectInv, NEW r \in Rows, Withdraw(r)
    PROVE  /\ SubjectInv' /\ slipped \subseteq slipped'
           /\ UNCHANGED <<owed, got, passed, stale, torn, narrow, closed>>
<1> USE DEF SubjectInv
<1>1. UNCHANGED <<query, token, window, call, owed, got, passed, stale, torn, narrow, closed>>
  BY DEF Withdraw
<1>2. /\ found' = [ph \in Phrases |-> RemoveFirst(found[ph], r)]
      /\ slipped' = slipped \union {r} \union Slips(r)
  BY DEF Withdraw
<1>3. /\ Rows \subseteq Nat /\ ToSet(query) \subseteq Phrases /\ PageSize \in Nat \ {0}
      /\ \A k \in DOMAIN query : query[k] \in Phrases /\ query[k] \in ToSet(query)
  BY Asked DEF SubjectBounds, TypeInv
<1>4. ASSUME NEW p \in NextPages, p # None  PROVE p \in Pages
  <2>1. PICK c \in {token, window, call} \ {NoWindow, NoCall} : p = c.page  BY DEF NextPages
  <2>2. CASE c = token
    <3>1. c # NoToken  BY <1>4, <2>1, <2>2, Shapes
    <3>2. token \in Tokens  BY <2>2, <3>1 DEF TypeInv
    <3> QED  BY <1>4, <2>1, <2>2, <3>2 DEF Tokens, Pages, None
  <2>3. CASE c = window
    <3>1. window \in Windows  BY <2>1, <2>3 DEF TypeInv
    <3> QED  BY <1>4, <2>1, <2>3, <3>1 DEF Windows, Pages, None
  <2>4. CASE c = call
    <3>1. call \in Calls  BY <2>1, <2>4 DEF TypeInv
    <3> QED  BY <2>1, <2>4, <3>1 DEF Calls
  <2> QED  BY <2>1, <2>2, <2>3, <2>4
<1>5. slipped \subseteq slipped' /\ slipped' \subseteq Rows /\ r \in slipped'
  <2>1. Slips(r) \subseteq Rows
    <3> SUFFICES ASSUME NEW ph \in ToSet(query), NEW p \in NextPages, p # None,
                        (p - 1) * PageSize < Len(found[ph])
                 PROVE  found[ph][(p - 1) * PageSize + 1] \in Rows
      BY DEF Slips, NextPages
    <3>1. Base(p) \in Nat  BY <1>4, NextBase DEF Pages
    <3>2. found[ph] \in Seq(Rows)  BY <1>3 DEF TypeInv
    <3>3. Base(p) < Len(found[ph])  BY DEF Base
    <3>4. Base(p) + 1 \in DOMAIN found[ph]  BY <3>1, <3>2, <3>3
    <3> QED  BY <3>2, <3>4 DEF Base
  <2> QED  BY <1>2, <2>1 DEF TypeInv
<1>6. ASSUME NEW ph \in Phrases
      PROVE  /\ found'[ph] \in Seq(Rows) /\ NewestFirst(found'[ph])
             /\ ToSet(found[ph]) \subseteq ToSet(found'[ph]) \union slipped'
             /\ ToSet(found'[ph]) \subseteq ToSet(found[ph])
             /\ \A p \in NextPages, O, R, T \in SUBSET Rows :
                   ph \in ToSet(query) /\ p # None /\ ReadTo(found[ph], Base(p), O, R) /\ R \subseteq T /\ slipped' \subseteq T
                     => ReadTo(found'[ph], Base(p), O, T)
  <2> DEFINE old == found[ph]
             new == RemoveFirst(old, r)
  <2>1. found'[ph] = new  BY <1>2
  <2>2. old \in Seq(Rows) /\ NewestFirst(old)  BY DEF TypeInv
  <2>3. CASE r \notin ToSet(old)
    <3>1. new = old
      <4>1. ~ \E i \in 1..Len(old) : old[i] = r  BY <2>2, <2>3 DEF ToSet
      <4> QED  BY <4>1 DEF RemoveFirst
    <3>2. \A n, O, R, T : ReadTo(old, n, O, R) /\ R \subseteq T => ReadTo(old, n, O, T)
      BY ReadsMore
    <3> HIDE DEF new, old
    <3>3. found'[ph] = found[ph]  BY <2>1, <3>1 DEF old
    <3> QED  BY <2>2, <3>2, <3>3 DEF old
  <2>4. CASE r \in ToSet(old)
    <3>1. PICK k \in DOMAIN old : old[k] = r  BY <2>4 DEF ToSet
    <3>2. new = RemoveAt(old, k)  BY <1>3, <2>2, <3>1, RemovalOfARow
    <3>3. /\ new \in Seq(Rows) /\ Len(new) = Len(old) - 1
          /\ \A i \in 1..Len(old) - 1 : new[i] = IF i < k THEN old[i] ELSE old[i + 1]
      BY <2>2, <3>2, Removal
    <3> HIDE DEF new
    <3>4. NewestFirst(new)
      <4> SUFFICES ASSUME NEW i \in DOMAIN new, NEW j \in DOMAIN new, i < j
                   PROVE  new[i] > new[j]
        BY DEF NewestFirst
      <4> DEFINE x == IF i < k THEN i ELSE i + 1
                 y == IF j < k THEN j ELSE j + 1
      <4>1. x \in DOMAIN old /\ y \in DOMAIN old /\ x < y
            /\ i \in 1..Len(old) - 1 /\ j \in 1..Len(old) - 1
        BY <2>2, <3>3
      <4>2. new[i] = old[x] /\ new[j] = old[y]  BY <3>3, <4>1
      <4> HIDE DEF x, y
      <4> QED  BY <2>2, <4>1, <4>2 DEF NewestFirst
    <3>7. ToSet(new) \subseteq ToSet(old)
      <4> SUFFICES ASSUME NEW i \in DOMAIN new  PROVE new[i] \in ToSet(old)
        BY DEF ToSet
      <4>1. (i \in DOMAIN old /\ new[i] = old[i]) \/ (i + 1 \in DOMAIN old /\ new[i] = old[i + 1])
        BY <2>2, <3>3
      <4> QED  BY <4>1 DEF ToSet
    <3>5. ToSet(old) \subseteq ToSet(new) \union slipped'
      <4> SUFFICES ASSUME NEW i \in DOMAIN old  PROVE old[i] \in ToSet(new) \union slipped'
        BY DEF ToSet
      <4>1. CASE i = k  BY <1>5, <3>1, <4>1
      <4>2. CASE i < k
        <5>1. i \in DOMAIN new /\ new[i] = old[i]  BY <2>2, <3>3, <4>2
        <5> QED  BY <5>1 DEF ToSet
      <4>3. CASE i > k
        <5>1. i - 1 \in DOMAIN new /\ i - 1 \in 1..Len(old) - 1 /\ ~ i - 1 < k /\ (i - 1) + 1 = i
          BY <2>2, <3>3, <4>3
        <5>2. new[i - 1] = old[i]  BY <3>3, <5>1
        <5> QED  BY <5>1, <5>2 DEF ToSet
      <4> QED  BY <2>2, <4>1, <4>2, <4>3
    <3>6. ASSUME NEW p \in NextPages, NEW O \in SUBSET Rows, NEW R \in SUBSET Rows,
                 NEW T \in SUBSET Rows, ph \in ToSet(query), p # None, ReadTo(old, Base(p), O, R), R \subseteq T, slipped' \subseteq T
          PROVE  ReadTo(new, Base(p), O, T)
      <4> DEFINE n == Base(p)
      <4>1. n \in Nat /\ n = (p - 1) * PageSize  BY <1>4, <3>6, NextBase DEF Pages, Base
      <4> HIDE DEF n
      <4>2. k <= n /\ n + 1 \in DOMAIN old => old[n + 1] \in T
        <5> SUFFICES ASSUME k <= n, n + 1 \in DOMAIN old  PROVE old[n + 1] \in slipped'
          BY <3>6
        <5>1. n < Len(old)  BY <2>2, <4>1
        <5>2. r \in Slice(old, 0, n)
          <6>1. 0 < k /\ k <= 0 + n  BY <2>2, <3>1, <4>1
          <6> QED  BY <3>1, <6>1 DEF Slice
        <5>3. old[n + 1] \in Slips(r)
          <6>1. <<ph, p>> \in ToSet(query) \X NextPages  BY <3>6
          <6> QED  BY <3>6, <4>1, <5>1, <5>2, <6>1 DEF Slips, NextPages
        <5> QED  BY <1>2, <5>3
      <4>3. ReadTo(RemoveAt(old, k), n, O, T)
        <5>1. ReadTo(old, n, O, R)  BY <3>6 DEF n
        <5> HIDE DEF old
        <5> QED  BY <2>2, <3>1, <3>6, <4>1, <4>2, <5>1, RemovalReads
      <4> QED  BY <3>2, <4>3 DEF n
    <3> QED  BY <2>1, <3>3, <3>4, <3>5, <3>6, <3>7
  <2> QED  BY <2>3, <2>4
<1>7. Lost \subseteq Lost' /\ Lost' \subseteq Rows /\ slipped' \subseteq Lost' /\ Lost \subseteq Rows
      /\ owed \in SUBSET Rows
  BY <1>1, <1>5 DEF TypeInv, Lost
<1>8. TypeInv'
  <2>1. events' \in 0..Events  BY DEF Withdraw, TypeInv, SubjectBounds
  <2>2. found' \in [Phrases -> Seq(Rows)]  BY <1>2, <1>6
  <2> QED  BY <1>1, <1>5, <1>6, <2>1, <2>2 DEF TypeInv, NewestFirst, Tokens, Windows, Calls, Terms
<1>9. OwedInv'  BY <1>1, <1>3, <1>5, <1>6 DEF OwedInv
<1>10. ASSUME NEW t, NEW p \in Pages, p = 1 \/ p \in NextPages, NEW C \in SUBSET Rows,
              Past(t, p, Lost \union C)
       PROVE  \A k \in DOMAIN query :
                 /\ k < t => ToSet(found'[query[k]]) \intersect owed \subseteq Lost' \union C
                 /\ k = t => ReadTo(found'[query[k]], Base(p), owed, Lost' \union C)
  <2> DEFINE R == Lost \union C
             T == Lost' \union C
  <2>1. R \subseteq T /\ slipped' \subseteq T /\ R \in SUBSET Rows /\ T \in SUBSET Rows  BY <1>7
  <2>2. Past(t, p, R)  BY <1>10
  <2> HIDE DEF R, T
  <2>3. ASSUME NEW k \in DOMAIN query
        PROVE  /\ k < t => ToSet(found'[query[k]]) \intersect owed \subseteq T
               /\ k = t => ReadTo(found'[query[k]], Base(p), owed, T)
    <3>1. query[k] \in Phrases /\ query[k] \in ToSet(query)  BY <1>3
    <3>2. ToSet(found'[query[k]]) \subseteq ToSet(found[query[k]])  BY <1>6, <3>1
    <3>3. CASE p = 1
      <4>1. Base(p) = 0 /\ found'[query[k]] \in Seq(Rows)  BY <1>3, <1>6, <3>1, <3>3 DEF Base
      <4> QED  BY <2>1, <2>2, <3>2, <4>1, NothingRead DEF Past
    <3>4. CASE p \in NextPages
      <4>1. p # None  BY <1>10 DEF Pages, None
      <4>2. k = t => ReadTo(found[query[k]], Base(p), owed, R)  BY <2>2 DEF Past
      <4>3. k = t => ReadTo(found'[query[k]], Base(p), owed, T)
        BY <1>6, <1>7, <2>1, <3>1, <3>4, <4>1, <4>2
      <4> QED  BY <2>1, <2>2, <3>2, <4>3 DEF Past
    <3> QED  BY <1>10, <3>3, <3>4
  <2> QED  BY <2>3 DEF T
<1>11. PlaceInv'
  <2>1. ASSUME call # NoCall
        PROVE  /\ ~closed /\ window.rows \subseteq call.rows
               /\ \A k \in DOMAIN query :
                     /\ k < call.term => ToSet(found'[query[k]]) \intersect owed \subseteq Lost' \union call.rows
                     /\ k = call.term => ReadTo(found'[query[k]], Base(call.page), owed, Lost' \union call.rows)
    <3>1. call \in Calls  BY <2>1 DEF TypeInv
    <3>2. call.page \in Pages /\ call.rows \subseteq Rows  BY <3>1 DEF Calls, Collected
    <3>3. call.page \in NextPages  BY <2>1, <3>1, Shapes DEF NextPages
    <3>4. Past(call.term, call.page, Lost \union call.rows) /\ ~closed /\ window.rows \subseteq call.rows
      BY <2>1 DEF PlaceInv
    <3> QED  BY <1>10, <3>2, <3>3, <3>4
  <2>2. ASSUME token # NoToken, window # NoWindow
        PROVE  \A k \in DOMAIN query :
                  /\ k < token.term => ToSet(found'[query[k]]) \intersect owed \subseteq Lost' \union window.rows
                  /\ k = token.term =>
                        ReadTo(found'[query[k]], Base(Opened(token.page)), owed, Lost' \union window.rows)
    <3>1. token \in Tokens /\ window.rows \subseteq Rows  BY <2>2 DEF TypeInv, Windows, Collected
    <3>2. token.page \in Nat /\ token.page \in NextPages  BY <3>1, Shapes DEF NextPages, Tokens
    <3>3. Opened(token.page) \in Pages /\ (Opened(token.page) = 1 \/ Opened(token.page) \in NextPages)
      BY <3>2, OpenedPages
    <3>4. Past(token.term, Opened(token.page), Lost \union window.rows)  BY <2>2 DEF PlaceInv
    <3> QED  BY <1>10, <3>1, <3>3, <3>4
  <2>3. call' # NoCall =>
            ~closed' /\ window'.rows \subseteq call'.rows /\ Past(call.term, call.page, Lost \union call.rows)'
    BY <1>1, <2>1 DEF Past, Lost, ReadTo, Base
  <2>4. token' # NoToken /\ window' # NoWindow =>
            Past(token.term, Opened(token.page), Lost \union window.rows)'
    BY <1>1, <2>2 DEF Past, Lost, ReadTo, Base, Opened
  <2> QED  BY <2>3, <2>4 DEF PlaceInv
<1> QED  BY <1>1, <1>5, <1>8, <1>9, <1>11

LEMMA SubjectInitially ==
    ASSUME SubjectBounds, Init  PROVE SubjectInv
<1>1. found \in [Phrases -> Seq(Rows)] /\ \A ph \in Phrases : NewestFirst(found[ph])
  BY DEF Init, SubjectBounds
<1>2. 0 \in 0..Events  BY DEF SubjectBounds
<1>3. TypeInv  BY <1>1, <1>2 DEF Init, TypeInv
<1> QED  BY <1>3 DEF Init, SubjectInv, OwedInv, PlaceInv

LEMMA SubjectStep ==
    ASSUME SubjectBounds, SubjectInv, [Next]_vars  PROVE SubjectInv'
<1>1. CASE Ask            BY <1>1, Asking
<1>2. CASE FilteredPage   BY <1>2, ReadingAPage
<1>3. CASE PageBound      BY <1>3, CuttingShort
<1>4. CASE Answer(TRUE)   BY <1>4, Hearing
<1>5. CASE Deadline       BY <1>5, CuttingShort
<1>6. CASE Answer(FALSE)  BY <1>6, Losing
<1>7. CASE Abort          BY <1>7, Aborting
<1>8. CASE FallBack       BY <1>8, FallingBack
<1>9. CASE Forget         BY <1>9, Forgetting
<1>10. CASE ReadAgain     BY <1>10, AskingAnew
<1>11. ASSUME NEW r \in Rows, NEW phs \in SUBSET Phrases, Post(r, phs)  PROVE SubjectInv'
  BY <1>11, Posting
<1>12. ASSUME NEW r \in Rows, Withdraw(r)  PROVE SubjectInv'
  BY <1>12, Withdrawing
<1>13. CASE UNCHANGED vars
  BY <1>13 DEF vars, SubjectInv, TypeInv, OwedInv, PlaceInv, Past, Lost, ReadTo, Base, Opened,
               NewestFirst, Calls, Tokens, Windows, Terms
<1> QED
  BY <1>1, <1>2, <1>3, <1>4, <1>5, <1>6, <1>7, <1>8, <1>9, <1>10, <1>11, <1>12, <1>13
  DEF Next, Reading, Disturbance

\* The search of BUTB is where its call and its token say: of the phrases before the place,
\* and of the pages above it, every owed row was handed over, collected, or lost by name.
THEOREM SubjectInduction == SubjectBounds => (Spec => []SubjectInv)
<1> SUFFICES ASSUME SubjectBounds  PROVE Spec => []SubjectInv
  OBVIOUS
<1>1. Init => SubjectInv  BY SubjectInitially
<1>2. SubjectInv /\ [Next]_vars => SubjectInv'  BY SubjectStep
<1> QED  BY <1>1, <1>2, PTL DEF Spec

LEMMA SubjectTyped ==
    ASSUME SubjectBounds, SubjectInv  PROVE TypeOK
<1>1. window.rows \subseteq Rows /\ (window # NoWindow => window.done <= Len(query))
  <2>1. CASE window = NoWindow  BY <2>1 DEF NoWindow
  <2>2. CASE window # NoWindow
    <3>1. Len(query) \in Nat  BY Asked DEF SubjectInv, TypeInv
    <3> QED  BY <2>2, <3>1 DEF SubjectInv, TypeInv, Windows, Collected
  <2> QED  BY <2>1, <2>2
<1>2. token.anchor \in Rows \union {None}  BY DEF SubjectInv, TypeInv, Tokens, NoToken
<1>3. UNION {owed, got, passed, stale, torn, slipped, narrow} \subseteq Rows
  BY DEF SubjectInv, TypeInv
<1> QED  BY <1>1, <1>2, <1>3 DEF SubjectInv, TypeInv, TypeOK

\* The types of the search of BUTB.
THEOREM SubjectTypes == SubjectBounds => (Spec => []TypeOK)
<1> SUFFICES ASSUME SubjectBounds  PROVE Spec => []TypeOK
  OBVIOUS
<1>1. SubjectInv => TypeOK  BY SubjectTyped
<1> QED  BY <1>1, SubjectInduction, PTL

LEMMA FiveSets ==
    ASSUME NEW A, NEW B, NEW C, NEW D, NEW E
    PROVE  UNION {A, B, C, D, E} = A \union B \union C \union D \union E
OBVIOUS

\* A step of the search is a step of the reading it implements, or none.
LEMMA SubjectReads ==
    ASSUME SubjectBounds, SubjectInv, [Next]_vars
    PROVE  [Abstract!Next]_(Abstract!vars)
<1> DEFINE dropped == UNION {passed, stale, torn, slipped, narrow}
<1>1. /\ dropped = passed \union stale \union torn \union slipped \union narrow
      /\ dropped' = passed' \union stale' \union torn' \union slipped' \union narrow'
  BY FiveSets
<1>2. SubjectInv'  BY SubjectStep
<1>3. dropped' \subseteq Rows /\ got' \subseteq Rows /\ owed' \subseteq Rows /\ closed' \in BOOLEAN
  BY <1>1, <1>2 DEF SubjectInv, TypeInv
<1> HIDE DEF dropped
<1>4. ASSUME UNCHANGED <<owed, got, closed>>, dropped \subseteq dropped'  PROVE Abstract!Next
  BY <1>3, <1>4 DEF Abstract!Next, Abstract!Slip, dropped
<1>5. ASSUME ~closed, got \subseteq got', dropped \subseteq dropped', owed' = owed,
             closed' => owed \subseteq got' \union dropped'
      PROVE  Abstract!Next
  BY <1>3, <1>5 DEF Abstract!Next, Abstract!Answer, dropped
<1>6. ASSUME ~closed', got' = got, dropped \subseteq dropped'  PROVE Abstract!Next
  BY <1>3, <1>6 DEF Abstract!Next, Abstract!Reask, dropped
<1>7. CASE Ask
  <2>1. ~closed /\ UNCHANGED <<got, passed, torn, slipped, narrow, closed>> /\ stale \subseteq stale'
    BY <1>7, Asking
  <2> QED  BY <1>1, <1>6, <2>1
<1>8. CASE FilteredPage \/ PageBound \/ Deadline \/ Abort \/ Forget
  <2>1. UNCHANGED history  BY <1>8 DEF FilteredPage, PageBound, Deadline, Abort, Forget
  <2> QED  BY <1>1, <1>4, <2>1 DEF history
<1>9. CASE Answer(TRUE)
  <2>1. /\ ~closed /\ UNCHANGED <<owed, stale, torn, slipped, narrow>>
        /\ got \subseteq got' /\ passed \subseteq passed' /\ (closed' => owed \subseteq Lost')
    BY <1>9, Hearing
  <2>2. Lost' = got' \union dropped'  BY <1>1 DEF Lost
  <2> QED  BY <1>1, <1>5, <2>1, <2>2
<1>10. CASE Answer(FALSE)
  <2>1. UNCHANGED <<owed, got, passed, stale, slipped, narrow, closed>> /\ torn \subseteq torn'
    BY <1>10, Losing
  <2> QED  BY <1>1, <1>4, <2>1
<1>11. CASE FallBack
  <2>1. /\ ~closed /\ UNCHANGED <<owed, passed, stale, torn, slipped>>
        /\ got \subseteq got' /\ narrow \subseteq narrow'
        /\ closed' => owed \subseteq got' \union narrow'
    BY <1>11, FallingBack
  <2> QED  BY <1>1, <1>5, <2>1
<1>12. CASE ReadAgain
  <2>1. ~closed' /\ UNCHANGED <<got, passed, stale, torn, slipped, narrow>>
    BY <1>12 DEF ReadAgain
  <2> QED  BY <1>1, <1>6, <2>1
<1>13. ASSUME NEW r \in Rows, NEW phs \in SUBSET Phrases, Post(r, phs)  PROVE Abstract!Next
  <2>1. UNCHANGED <<owed, got, passed, stale, torn, slipped, narrow, closed>>  BY <1>13, Posting
  <2> QED  BY <1>1, <1>4, <2>1
<1>14. ASSUME NEW r \in Rows, Withdraw(r)  PROVE Abstract!Next
  <2>1. UNCHANGED <<owed, got, passed, stale, torn, narrow, closed>> /\ slipped \subseteq slipped'
    BY <1>14, Withdrawing
  <2> QED  BY <1>1, <1>4, <2>1
<1>15. CASE UNCHANGED vars
  BY <1>15 DEF vars, Abstract!vars
<1> QED
  BY <1>7, <1>8, <1>9, <1>10, <1>11, <1>12, <1>13, <1>14, <1>15 DEF Next, Reading, Disturbance

\* The search of BUTB implements the reading of module WindowRead: it says that nothing more
\* follows only when every row it owed was handed over, but for those lost in one of the ways
\* the history names.
THEOREM SubjectWindowIsRead == SubjectBounds => (Spec => WindowIsRead)
<1> SUFFICES ASSUME SubjectBounds  PROVE Spec => WindowIsRead
  OBVIOUS
<1>1. Init => Abstract!Init  BY DEF Init, Abstract!Init
<1>2. SubjectInv /\ [Next]_vars => [Abstract!Next]_(Abstract!vars)  BY SubjectReads
<1> QED  BY <1>1, <1>2, SubjectInduction, PTL DEF Spec, WindowIsRead, Abstract!Spec

----------------------------------------------------------------------------
\* The place of a row among those collected: how many of them are as new.

\* Newer rows come first, and no two share a place.
LEMMA DepthOrder ==
    ASSUME Rows \subseteq Nat, NEW C \in Collected
    PROVE  /\ \A r \in C : Depth(C, r) \in 1..Cardinality(C)
           /\ \A r, s \in C : Depth(C, r) <= Depth(C, s) <=> r >= s
           /\ \A A \in SUBSET C : \A s \in C : (\A r \in A : r >= s) => Cardinality(A) <= Depth(C, s)
<1> DEFINE Above(r) == {s \in C : s >= r}
<1>1. IsFiniteSet(C) /\ \A r \in C : r \in Nat  BY DEF Collected
<1>2. ASSUME NEW r \in C
      PROVE  /\ IsFiniteSet(Above(r)) /\ r \in Above(r) /\ Cardinality(Above(r)) \in Nat
             /\ Cardinality(Above(r)) <= Cardinality(C) /\ Cardinality(Above(r)) # 0
  <2>1. Above(r) \in SUBSET C /\ r \in Above(r)  BY <1>1
  <2> HIDE DEF Above
  <2>2. IsFiniteSet(Above(r)) /\ Cardinality(Above(r)) <= Cardinality(C)  BY <1>1, <2>1, FS_Subset
  <2>3. Cardinality(Above(r)) \in Nat /\ Cardinality(Above(r)) # 0
    BY <2>1, <2>2, FS_CardinalityType, FS_EmptySet
  <2> QED  BY <2>1, <2>2, <2>3
<1>3. Cardinality(C) \in Nat  BY <1>1, FS_CardinalityType
<1>4. ASSUME NEW r \in C, NEW s \in C, r >= s
      PROVE  Cardinality(Above(r)) <= Cardinality(Above(s))
  <2>1. Above(r) \in SUBSET Above(s)  BY <1>1, <1>4
  <2> HIDE DEF Above
  <2> QED  BY <1>2, <2>1, FS_Subset
<1>5. ASSUME NEW r \in C, NEW s \in C, ~ r >= s
      PROVE  ~ Cardinality(Above(r)) <= Cardinality(Above(s))
  <2>1. Above(s) \in SUBSET Above(r) /\ r \in Above(r) /\ r \notin Above(s)
        /\ s \in Above(r)
    BY <1>1, <1>5
  <2>2. s \in Above(s) /\ r \in Nat /\ s \in Nat  BY <1>1
  <2> HIDE DEF Above
  <2>3. Cardinality(Above(s)) <= Cardinality(Above(r))
        /\ Cardinality(Above(r)) # Cardinality(Above(s))
    BY <1>2, <2>1, FS_Subset
  <2> QED  BY <1>2, <2>3
<1>6. ASSUME NEW A \in SUBSET C, NEW s \in C, \A r \in A : r >= s
      PROVE  Cardinality(A) <= Cardinality(Above(s))
  <2>1. A \in SUBSET Above(s)  BY <1>6
  <2> HIDE DEF Above
  <2> QED  BY <1>2, <2>1, FS_Subset
<1> HIDE DEF Above
<1>7. \A r : Depth(C, r) = Cardinality(Above(r))  BY DEF Depth, Above
<1> QED  BY <1>2, <1>3, <1>4, <1>5, <1>6, <1>7

\* Every place is taken.
LEMMA Ranked ==
    ASSUME Rows \subseteq Nat, NEW C \in Collected, NEW n \in 1..Cardinality(C)
    PROVE  \E r \in C : Depth(C, r) = n
<1> DEFINE N == 1..Cardinality(C)
           f == [r \in C |-> Depth(C, r)]
<1>1. IsFiniteSet(C) /\ Cardinality(C) \in Nat  BY FS_CardinalityType DEF Collected
<1>2. IsFiniteSet(N) /\ Cardinality(N) = Cardinality(C)
  <2>1. 1 \in Int /\ Cardinality(C) \in Int  BY <1>1
  <2>2. /\ IsFiniteSet(N)
        /\ Cardinality(N) = IF 1 > Cardinality(C) THEN 0 ELSE Cardinality(C) - 1 + 1
    BY <2>1, FS_Interval, Zenon
  <2> QED  BY <1>1, <2>2
<1>3. f \in Injection(C, N)
  <2>1. f \in [C -> N]  BY DepthOrder
  <2>2. ASSUME NEW r \in C, NEW s \in C, f[r] = f[s]  PROVE r = s
    <3>1. r \in Nat /\ s \in Nat  BY DEF Collected
    <3>2. Depth(C, r) = Depth(C, s) /\ Depth(C, r) \in Nat  BY <2>2, DepthOrder
    <3>3. r >= s /\ s >= r  BY <3>2, DepthOrder
    <3> QED  BY <3>1, <3>3
  <2> HIDE DEF f
  <2> QED  BY <2>1, <2>2 DEF Injection, IsInjective
<1>4. f \in Surjection(C, N)  BY <1>1, <1>2, <1>3, FS_Injection
<1>5. \E r \in C : f[r] = n  BY <1>4 DEF Surjection
<1> QED  BY <1>5

\* The rows of an interval of places are no more than its places.
LEMMA RowsOfPlaces ==
    ASSUME Rows \subseteq Nat, NEW C \in Collected, NEW m \in Nat, NEW n \in Nat,
           NEW H \in SUBSET C, \A r \in H : Depth(C, r) \in m + 1 .. m + n
    PROVE  Cardinality(H) \in 0..n
<1> DEFINE N == m + 1 .. m + n
           f == [r \in H |-> Depth(C, r)]
<1>1. IsFiniteSet(N) /\ Cardinality(N) = n
  <2>1. m + 1 \in Int /\ m + n \in Int  OBVIOUS
  <2>2. IsFiniteSet(N) /\ Cardinality(N) = IF m + 1 > m + n THEN 0 ELSE (m + n) - (m + 1) + 1
    BY <2>1, FS_Interval, Zenon
  <2> QED  BY <2>2
<1>2. f \in Injection(H, N)
  <2>1. f \in [H -> N]  OBVIOUS
  <2>2. ASSUME NEW r \in H, NEW s \in H, f[r] = f[s]  PROVE r = s
    <3>1. r \in Nat /\ s \in Nat  BY DEF Collected
    <3>2. Depth(C, r) = Depth(C, s) /\ Depth(C, r) \in Nat  BY <2>2, DepthOrder
    <3>3. r >= s /\ s >= r  BY <3>2, DepthOrder
    <3> QED  BY <3>1, <3>3
  <2> HIDE DEF f
  <2> QED  BY <2>1, <2>2 DEF Injection, IsInjective
<1> HIDE DEF N, f
<1>3. IsFiniteSet(H) /\ Cardinality(H) <= Cardinality(N)  BY <1>1, <1>2, FS_Injection
<1>4. Cardinality(H) \in Nat  BY <1>3, FS_CardinalityType
<1> QED  BY <1>1, <1>3, <1>4

----------------------------------------------------------------------------
\* The anchor of a search for one phrase. It is the last row handed over, and the next
\* answer leaves out everything as new; which loses nothing as long as all of that was
\* handed over. Why it was is a matter of order: what was collected of a list that is read
\* from its head has every row that is newer than one it has.

\* Of a set O of rows, what was collected at a place has all that the place is past, and
\* all that is newer than a row it has; but for those in R.
InOrder(s, term, page, O, W, R) ==
    /\ term # 1 => ToSet(s) \intersect O \subseteq W \union R
    /\ ReadTo(s, Base(page), O, W \union R)
    /\ \A w \in W, r \in O : r > w => r \in W \union R

\* So have a call c and a token t with its window w.
Follows(s, c, t, w, O, R) ==
    /\ c # NoCall => InOrder(s, c.term, c.page, O, c.rows, R)
    /\ t # NoToken /\ w # NoWindow => InOrder(s, t.term, Opened(t.page), O, w.rows, R)

\* Nothing was withdrawn, and no window was rebuilt for an answer that was then lost.
Calm == Len(query) = 1 /\ slipped = {} /\ torn = {}

\* As many rows as were handed over, all as new as the anchor, were collected, and a call
\* that goes on from the token will have collected them before it comes to the anchor.
Anchored ==
    \E A \in SUBSET Listed(query[1]) :
        /\ token.anchor \in A /\ \A r \in A : r >= token.anchor
        /\ Cardinality(A) >= token.ret
        /\ Follows(found[query[1]], call, token, window, A, {})

AnchorHolds ==
    /\ passed \subseteq stale
    /\ owed \subseteq Listed(query[1]) /\ window.rows \subseteq Listed(query[1])
    /\ call # NoCall => call.rows \subseteq Listed(query[1]) /\ call.budget = token.ret + Limit
    /\ Follows(found[query[1]], call, token, window, owed, stale)
    /\ token.anchor = None => token.ret = 0
    /\ token.anchor # None =>
          Anchored /\ \A r \in owed : r >= token.anchor => r \in got \union stale

AnchorInv == Calm => AnchorHolds

LEMMA OnePhrase ==
    ASSUME SubjectBounds, TypeInv, Len(query) = 1
    PROVE  /\ Rows \subseteq Nat \ {None} /\ DOMAIN query = {1} /\ ToSet(query) = {query[1]}
           /\ query[1] \in Phrases /\ found[query[1]] \in Seq(Rows) /\ NewestFirst(found[query[1]])
           /\ Listed(query[1]) \subseteq Rows /\ Listed(query[1]) \subseteq ToSet(found[query[1]])
           /\ \A r \in Listed(query[1]) : r >= Floor
           /\ \A r \in ToSet(found[query[1]]) : r >= Floor => r \in Listed(query[1])
<1>1. /\ DOMAIN query = 1..1 /\ \A k \in DOMAIN query : query[k] \in Phrases
      /\ ToSet(query) \subseteq Phrases /\ \A ph \in ToSet(query) : \E k \in DOMAIN query : ph = query[k]
      /\ \A k \in DOMAIN query : query[k] \in ToSet(query)
  BY Asked DEF TypeInv
<1>2. DOMAIN query = {1} /\ ToSet(query) = {query[1]}  BY <1>1
<1>3. query[1] \in Phrases /\ found[query[1]] \in Seq(Rows) /\ NewestFirst(found[query[1]])
  BY <1>1, <1>2 DEF TypeInv
<1>4. ToSet(found[query[1]]) \subseteq Rows  BY <1>3 DEF ToSet
<1>5. Rows \subseteq Nat \ {None}  BY DEF SubjectBounds, None
<1> QED  BY <1>2, <1>3, <1>4, <1>5 DEF Listed, Current

\* More that is collected without going past a place, and in order, keeps it in order.
LEMMA InOrderMore ==
    ASSUME NEW s, NEW t, NEW p, NEW O, NEW W, NEW R, InOrder(s, t, p, O, W, R),
           NEW V, W \subseteq V, \A w \in V, r \in O : r > w => r \in V \union R
    PROVE  InOrder(s, t, p, O, V, R)
<1>1. W \union R \subseteq V \union R  OBVIOUS
<1> QED  BY <1>1, ReadsMore DEF InOrder

\* The head of the first phrase, with nothing collected, is in order.
LEMMA InOrderAtFirst ==
    ASSUME SubjectBounds, NEW s \in Seq(Rows), NEW O, NEW R
    PROVE  InOrder(s, 1, 1, O, {}, R)
<1>1. Base(1) = 0  BY DEF Base, SubjectBounds
<1> QED  BY <1>1, NothingRead DEF InOrder

\* A page that is not known opens at the head, where nothing is to be past.
LEMMA InOrderReopened ==
    ASSUME SubjectBounds, NEW s \in Seq(Rows), NEW t, NEW p, NEW O, NEW W, NEW R,
           InOrder(s, t, p, O, W, R)
    PROVE  InOrder(s, t, 1, O, W, R)
<1>1. Base(1) = 0  BY DEF Base, SubjectBounds
<1>2. ReadTo(s, 0, O, W \union R)  BY NothingRead
<1> QED  BY <1>1, <1>2 DEF InOrder

\* A step that hands nothing over and begins no reading keeps the anchor, if it keeps the
\* order of every set of rows that are listed.
LEMMA AnchorStays ==
    ASSUME AnchorHolds, UNCHANGED <<query, owed, passed>>, got \subseteq got',
           Listed(query[1]) \subseteq Listed(query[1])',
           window'.rows \subseteq Listed(query[1]),
           call' # NoCall => call'.rows \subseteq Listed(query[1]) /\ call'.budget = token'.ret + Limit,
           token' = token \/ token' = NoToken,
           stale' = stale, stale \in SUBSET Rows,
           \A O \in SUBSET Listed(query[1]) : \A R \in SUBSET Rows :
              Follows(found[query[1]], call, token, window, O, R)
                => Follows(found'[query[1]], call', token', window', O, R)
    PROVE  AnchorHolds'
<1> DEFINE L == Listed(query[1])
           M == Listed(query[1])'
           s == found[query[1]]
           u == found'[query[1]]
<1>1. /\ owed \in SUBSET L /\ passed \subseteq stale /\ Follows(s, call, token, window, owed, stale)
      /\ token.anchor = None => token.ret = 0
      /\ token.anchor # None => Anchored /\ \A r \in owed : r >= token.anchor => r \in got \union stale
  BY DEF AnchorHolds
<1>2. Follows(u, call', token', window', owed', stale')
  BY <1>1
<1>3. token'.anchor = None => token'.ret = 0
  BY <1>1 DEF NoToken
<1>4. ASSUME token'.anchor # None
      PROVE  \E A \in SUBSET M : /\ token'.anchor \in A /\ \A r \in A : r >= token'.anchor
                                 /\ Cardinality(A) >= token'.ret
                                 /\ Follows(u, call', token', window', A, {})
  <2>1. token' = token  BY <1>4 DEF NoToken
  <2>2. PICK A \in SUBSET L : /\ token.anchor \in A /\ \A r \in A : r >= token.anchor
                              /\ Cardinality(A) >= token.ret
                              /\ Follows(s, call, token, window, A, {})
    BY <1>1, <1>4, <2>1 DEF Anchored
  <2>3. {} \in SUBSET Rows  OBVIOUS
  <2>4. Follows(u, call', token', window', A, {})  BY <2>2, <2>3
  <2>5. A \in SUBSET M  BY <2>2
  <2> QED  BY <2>1, <2>2, <2>4, <2>5
<1>5. ASSUME token'.anchor # None, NEW r \in owed', r >= token'.anchor
      PROVE  r \in got' \union stale'
  <2>1. token' = token  BY <1>5 DEF NoToken
  <2> QED  BY <1>1, <1>5, <2>1
<1>6. query'[1] = query[1]  OBVIOUS
<1>7. /\ owed' \subseteq M /\ window'.rows \subseteq M /\ passed' \subseteq stale'
      /\ call' # NoCall => call'.rows \subseteq M
  BY <1>1
<1> HIDE DEF L
<1>8. Anchored' <=> \E A \in SUBSET M : /\ token'.anchor \in A /\ \A r \in A : r >= token'.anchor
                                        /\ Cardinality(A) >= token'.ret
                                        /\ Follows(u, call', token', window', A, {})
  BY <1>6 DEF Anchored, Follows, InOrder, ReadTo, Base, Opened
<1>9. Follows(found[query[1]], call, token, window, owed, stale)' <=> Follows(u, call', token', window', owed', stale')
  BY <1>6 DEF Follows, InOrder, ReadTo, Base, Opened
<1> HIDE DEF M, u
<1> QED  BY <1>2, <1>3, <1>4, <1>5, <1>7, <1>8, <1>9 DEF AnchorHolds, M

\* A page is read of the one phrase there is.
LEMMA PageKeepsOrder ==
    ASSUME SubjectBounds, SubjectInv, Len(query) = 1, FilteredPage,
           NEW O \in SUBSET Listed(query[1]), NEW R,
           InOrder(found[query[1]], call.term, call.page, O, call.rows, R)
    PROVE  InOrder(found[query[1]], call'.term, call'.page, O, call'.rows, R)
<1> DEFINE s == found[query[1]]
           p == call.page
           page == PageRows(query[1], p)
           W == call.rows \union Current(page)
           T == (call.rows \union R) \union Current(page)
<1>1. /\ Rows \subseteq Nat \ {None} /\ DOMAIN query = {1} /\ s \in Seq(Rows) /\ NewestFirst(s)
      /\ O \in SUBSET Rows /\ O \subseteq ToSet(s) /\ \A r \in O : r >= Floor
  BY OnePhrase DEF SubjectInv
<1>2. /\ call # NoCall /\ ~call.stop  BY DEF FilteredPage
<1>3. /\ call.term = 1 /\ p \in Pages /\ page = Slice(s, Base(p), PageSize)
  BY <1>1, <1>2, InsideAPhrase
<1>4. /\ call'.rows = W
      /\ \/ /\ call'.term = 2 /\ call'.page = 1
            /\ page = {} \/ page # Current(page) \/ p >= LastPage(query[1])
         \/ call'.term = 1 /\ call'.page = p + 1
  BY <1>3, APageIsTurned
<1>5. LastPage(query[1]) = (Len(s) + PageSize - 1) \div PageSize  BY DEF LastPage
<1>6. Base(p) \in Nat /\ Base(p + 1) = Base(p) + PageSize /\ Base(1) = 0 /\ PageSize \in Nat
  BY <1>3, NextBase DEF Pages, Base, SubjectBounds
<1>7. /\ ReadTo(s, Base(p), O, call.rows \union R)
      /\ \A w \in call.rows, r \in O : r > w => r \in call.rows \union R
  BY DEF InOrder
<1>8. W \union R = T /\ call.rows \union R \subseteq T  OBVIOUS
<1>9. \A w \in Current(page) : w \in page  BY DEF Current
<1> DEFINE Q == call.rows \union R
<1> HIDE DEF s, p, page, W, Q
<1>10. /\ ReadTo(s, Base(p + 1), O, T)
       /\ page = {} \/ page # Current(page) \/ p >= (Len(s) + PageSize - 1) \div PageSize
             => ToSet(s) \intersect O \subseteq T
  <2>1. ReadTo(s, Base(p), O, Q)  BY <1>7 DEF Q
  <2>2. T = Q \union Current(page)  BY DEF Q
  <2> HIDE DEF T
  <2>3. /\ ReadTo(s, Base(p + 1), O, Q \union Current(page))
        /\ page = {} \/ page # Current(page) \/ p >= (Len(s) + PageSize - 1) \div PageSize
              => ToSet(s) \intersect O \subseteq Q \union Current(page)
    BY <1>1, <1>3, <2>1, APageShows
  <2> QED  BY <2>2, <2>3
<1> HIDE DEF T
<1>11. ASSUME NEW w \in page, NEW r \in O, r > w  PROVE r \in T
  <2>1. PICK j \in DOMAIN s : s[j] = w /\ j <= Base(p) + PageSize  BY <1>3 DEF Slice
  <2>2. PICK i \in DOMAIN s : s[i] = r  BY <1>1 DEF ToSet
  <2>3. i \in Nat /\ j \in Nat /\ s[i] \in Rows /\ s[j] \in Rows  BY <1>1
  <2>4. s[i] \in Nat /\ s[j] \in Nat  BY <1>1, <2>3
  <2>5. i <= j
    <3>1. j < i => s[j] > s[i]  BY <1>1 DEF NewestFirst
    <3> QED  BY <1>11, <2>1, <2>2, <2>3, <2>4, <3>1
  <2>6. i <= Base(p + 1)  BY <1>6, <2>1, <2>3, <2>5
  <2> QED  BY <1>10, <2>2, <2>6 DEF ReadTo
<1>12. \A w \in W, r \in O : r > w => r \in T
  BY <1>7, <1>8, <1>9, <1>11 DEF W
<1>13. CASE call'.term = 2 /\ call'.page = 1
            /\ (page = {} \/ page # Current(page) \/ p >= LastPage(query[1]))
  <2>1. ReadTo(s, 0, O, T)  BY <1>1, NothingRead
  <2>2. ToSet(s) \intersect O \subseteq T  BY <1>5, <1>10, <1>13
  <2> QED  BY <1>4, <1>6, <1>8, <1>12, <1>13, <2>1, <2>2 DEF InOrder, s
<1>14. CASE call'.term = 1 /\ call'.page = p + 1
  BY <1>4, <1>8, <1>10, <1>12, <1>14 DEF InOrder, s
<1> QED  BY <1>4, <1>13, <1>14

\* The first row of a list that grew at its head is new.
LEMMA PostKeepsOrder ==
    ASSUME SubjectBounds, SubjectInv, Len(query) = 1,
           NEW r \in Rows, NEW phs \in SUBSET Phrases, Post(r, phs),
           NEW t, NEW p \in Pages, NEW O \in SUBSET Listed(query[1]),
           NEW W \in SUBSET Rows, NEW R \in SUBSET Rows,
           InOrder(found[query[1]], t, p, O, W, R)
    PROVE  InOrder(found'[query[1]], t, p, O, W, R)
<1> DEFINE s == found[query[1]]
           u == found'[query[1]]
<1>1. query[1] \in Phrases /\ O \subseteq ToSet(s) /\ O \in SUBSET Rows
  BY OnePhrase DEF SubjectInv
<1>2. /\ r \notin ToSet(s) /\ ToSet(u) \subseteq ToSet(s) \union {r}
      /\ \A n \in Nat, P, Q \in SUBSET Rows :
            ReadTo(s, n, P, Q) /\ (r \in P => r \in Q) => ReadTo(u, n, P, Q)
  BY <1>1, PostedLists DEF SubjectInv
<1>3. Base(p) \in Nat  BY NextBase DEF Pages
<1>4. W \union R \in SUBSET Rows /\ r \notin O  BY <1>1, <1>2
<1>5. /\ t # 1 => ToSet(s) \intersect O \subseteq W \union R
      /\ ReadTo(s, Base(p), O, W \union R)
      /\ \A w \in W, x \in O : x > w => x \in W \union R
  BY DEF InOrder
<1> HIDE DEF s, u
<1>6. ReadTo(u, Base(p), O, W \union R)  BY <1>1, <1>2, <1>3, <1>4, <1>5
<1>7. t # 1 => ToSet(u) \intersect O \subseteq W \union R  BY <1>2, <1>4, <1>5
<1> QED  BY <1>5, <1>6, <1>7 DEF InOrder, u

\* A window that lacks nothing a place is past, but for what is in R.
LEMMA RebuiltInOrder ==
    ASSUME SubjectBounds, SubjectInv, Len(query) = 1, NEW t \in Terms, NEW p \in Pages,
           NEW O \in SUBSET Listed(query[1]), NEW W, NEW R, Before(t, p) \subseteq W \union R,
           \A w \in W, r \in O : r > w => r \in W \union R
    PROVE  InOrder(found[query[1]], t, p, O, W, R)
<1>1. DOMAIN query = {1} /\ O \in SUBSET Rows /\ (\A r \in O : r >= Floor) /\ found[query[1]] \in Seq(Rows)
  BY OnePhrase DEF SubjectInv
<1>2. /\ 1 < t => ToSet(found[query[1]]) \intersect O \subseteq W \union R
      /\ 1 = t => ReadTo(found[query[1]], Base(p), O, W \union R)
  BY <1>1, BeforeReads DEF SubjectInv
<1>3. t \in {1, 2}  BY DEF Terms
<1>4. CASE t = 1  BY <1>2, <1>4 DEF InOrder
<1>5. CASE t = 2
  <2>1. ToSet(found[query[1]]) \intersect O \subseteq W \union R  BY <1>2, <1>5
  <2>2. ReadTo(found[query[1]], Base(p), O, W \union R)  BY <1>1, <2>1 DEF ReadTo, ToSet
  <2> QED  BY <1>5, <2>1, <2>2 DEF InOrder
<1> QED  BY <1>3, <1>4, <1>5

\* The steps that hand nothing over and begin no reading. A call turns a page,
LEMMA PagingKeepsAnchor ==
    ASSUME SubjectBounds, SubjectInv, Len(query) = 1, AnchorHolds, FilteredPage
    PROVE  AnchorHolds'
<1> DEFINE s == found[query[1]]
           L == Listed(query[1])
<1>1. /\ call # NoCall /\ ~call.stop /\ UNCHANGED <<found, query, token, window>> /\ UNCHANGED history
  BY DEF FilteredPage
<1>2. /\ DOMAIN query = {1} /\ \A r \in ToSet(s) : r >= Floor => r \in L
  BY OnePhrase DEF SubjectInv
<1>3. /\ call.term = 1 /\ PageRows(query[1], call.page) = Slice(s, Base(call.page), PageSize)
  BY <1>1, <1>2, InsideAPhrase
<1>4. call' \in Calls /\ call'.rows = call.rows \union Current(PageRows(query[1], call.page))
      /\ call'.budget = call.budget
  BY <1>3, APageIsTurned
<1>5. Current(PageRows(query[1], call.page)) \subseteq L
  <2> SUFFICES ASSUME NEW r \in Slice(s, Base(call.page), PageSize), r >= Floor  PROVE r \in L
    BY <1>3 DEF Current
  <2>1. r \in ToSet(s)  BY DEF Slice, ToSet
  <2> QED  BY <1>2, <2>1
<1>6. window'.rows \subseteq L /\ call'.rows \subseteq L /\ call'.budget = token'.ret + Limit
  BY <1>1, <1>4, <1>5 DEF AnchorHolds
<1>7. ASSUME NEW O \in SUBSET L, NEW R \in SUBSET Rows, Follows(s, call, token, window, O, R)
      PROVE  Follows(found'[query[1]], call', token', window', O, R)
  <2>1. InOrder(s, call.term, call.page, O, call.rows, R)  BY <1>1, <1>7 DEF Follows
  <2>2. InOrder(s, call'.term, call'.page, O, call'.rows, R)  BY <2>1, PageKeepsOrder
  <2> QED  BY <1>1, <1>7, <2>2 DEF Follows
<1>8. Listed(query[1])' = L  BY <1>1 DEF Listed
<1>9. stale \in SUBSET Rows  BY DEF SubjectInv, TypeInv
<1>10. UNCHANGED <<owed, passed, got, stale>>  BY <1>1 DEF history
<1> QED  BY <1>1, <1>6, <1>7, <1>8, <1>9, <1>10, AnchorStays

\* is cut short,
LEMMA CuttingKeepsAnchor ==
    ASSUME SubjectBounds, SubjectInv, AnchorHolds, PageBound \/ Deadline
    PROVE  AnchorHolds'
<1>1. /\ call # NoCall /\ UNCHANGED <<found, query, token, window>> /\ UNCHANGED history
  BY DEF PageBound, Deadline
<1>2. call \in Calls  BY <1>1 DEF SubjectInv, TypeInv
<1>3. PICK open \in BOOLEAN : call' = Truncated([call EXCEPT !.open = open])
  <2>1. CASE PageBound
    <3>1. call' = Truncated([call EXCEPT !.open = call.open]) /\ call.open \in BOOLEAN
      BY <1>2, <2>1 DEF PageBound, Calls
    <3> QED  BY <3>1
  <2>2. CASE Deadline
    <3>1. call.open \in BOOLEAN  BY <1>2 DEF Calls
    <3> QED  BY <2>2, <3>1 DEF Deadline
  <2> QED  BY <2>1, <2>2
<1>4. /\ call'.term = call.term /\ call'.page = call.page /\ call'.rows = call.rows
      /\ call'.budget = call.budget
  BY <1>2, <1>3 DEF Truncated, Calls
<1>5. /\ window'.rows \subseteq Listed(query[1]) /\ call'.rows \subseteq Listed(query[1])
      /\ call'.budget = token'.ret + Limit
  BY <1>1, <1>4 DEF AnchorHolds
<1>6. ASSUME NEW O, NEW R, Follows(found[query[1]], call, token, window, O, R)
      PROVE  Follows(found'[query[1]], call', token', window', O, R)
  BY <1>1, <1>4, <1>6 DEF Follows
<1>7. Listed(query[1])' = Listed(query[1])  BY <1>1 DEF Listed
<1>8. stale \in SUBSET Rows  BY DEF SubjectInv, TypeInv
<1>9. UNCHANGED <<owed, passed, got, stale>>  BY <1>1 DEF history
<1> QED  BY <1>1, <1>5, <1>6, <1>7, <1>8, <1>9, AnchorStays

\* is answered, and the answer is lost,
LEMMA LosingKeepsAnchor ==
    ASSUME SubjectBounds, SubjectInv, Calm, AnchorHolds, Answer(FALSE), torn' = {}
    PROVE  AnchorHolds'
<1> DEFINE s == found[query[1]]
           L == Listed(query[1])
<1>1. /\ call # NoCall /\ window' = WindowAfter(call) /\ call' = NoCall
      /\ UNCHANGED <<found, query, token, owed, got, passed, stale>>
      /\ torn' = IF token = NoToken \/ window # NoWindow THEN torn
                 ELSE torn \union (Before(token.term, Opened(token.page)) \ call.rows)
  BY DEF Answer
<1>2. window'.rows = call.rows /\ window.rows \subseteq call.rows
  BY <1>1 DEF WindowAfter, SubjectInv, PlaceInv
<1>3. window'.rows \subseteq L  BY <1>1, <1>2 DEF AnchorHolds
<1>4. ASSUME NEW O \in SUBSET L, NEW R \in SUBSET Rows, Follows(s, call, token, window, O, R)
      PROVE  Follows(found'[query[1]], call', token', window', O, R)
  <2> SUFFICES ASSUME token # NoToken
               PROVE  InOrder(s, token.term, Opened(token.page), O, call.rows, R)
    BY <1>1, <1>2 DEF Follows
  <2>1. \A w \in call.rows, r \in O : r > w => r \in call.rows \union R
    BY <1>1, <1>4 DEF Follows, InOrder
  <2>2. CASE window # NoWindow
    <3>1. InOrder(s, token.term, Opened(token.page), O, window.rows, R)  BY <1>4, <2>2 DEF Follows
    <3> QED  BY <1>2, <2>1, <3>1, InOrderMore
  <2>3. CASE window = NoWindow
    <3>1. Before(token.term, Opened(token.page)) \subseteq call.rows \union R  BY <1>1, <2>3
    <3>2. token.term \in Terms /\ Opened(token.page) \in Pages
      BY OpenedPages DEF SubjectInv, TypeInv, Tokens
    <3> QED  BY <2>1, <3>1, <3>2, RebuiltInOrder DEF Calm
  <2> QED  BY <2>2, <2>3
<1>5. Listed(query[1])' = L  BY <1>1 DEF Listed
<1>6. stale \in SUBSET Rows  BY DEF SubjectInv, TypeInv
<1> QED  BY <1>1, <1>3, <1>4, <1>5, <1>6, AnchorStays

\* or is given up, by the caller or for the fallback;
LEMMA LeavingKeepsAnchor ==
    ASSUME SubjectBounds, SubjectInv, AnchorHolds, Abort \/ FallBack
    PROVE  AnchorHolds'
<1> DEFINE s == found[query[1]]
           L == Listed(query[1])
<1>1. /\ call # NoCall /\ window' = Kept /\ call' = NoCall /\ UNCHANGED <<found, query>>
      /\ UNCHANGED <<owed, passed, stale>> /\ got \subseteq got' /\ (token' = token \/ token' = NoToken)
  BY DEF Abort, FallBack, history
<1>2. /\ Kept # NoWindow => Kept.rows = call.rows /\ window # NoWindow
      /\ Kept = NoWindow => Kept.rows = {}
      /\ window.rows \subseteq call.rows
  <2>1. window # NoWindow => window \in Windows  BY DEF SubjectInv, TypeInv
  <2>2. window.rows \subseteq call.rows  BY <1>1 DEF SubjectInv, PlaceInv
  <2> QED  BY <2>1, <2>2 DEF Kept, NoWindow, Windows
<1>3. window'.rows \subseteq L  BY <1>1, <1>2 DEF AnchorHolds
<1>4. ASSUME NEW O \in SUBSET L, NEW R \in SUBSET Rows, Follows(s, call, token, window, O, R)
      PROVE  Follows(found'[query[1]], call', token', window', O, R)
  <2> SUFFICES ASSUME token # NoToken, Kept # NoWindow
               PROVE  InOrder(s, token.term, Opened(token.page), O, call.rows, R)
    BY <1>1, <1>2 DEF Follows
  <2>1. \A w \in call.rows, r \in O : r > w => r \in call.rows \union R
    BY <1>1, <1>4 DEF Follows, InOrder
  <2>2. InOrder(s, token.term, Opened(token.page), O, window.rows, R)  BY <1>2, <1>4 DEF Follows
  <2> QED  BY <1>2, <2>1, <2>2, InOrderMore
<1>5. Listed(query[1])' = L  BY <1>1 DEF Listed
<1>6. stale \in SUBSET Rows  BY DEF SubjectInv, TypeInv
<1> QED  BY <1>1, <1>3, <1>4, <1>5, <1>6, AnchorStays

\* the window is forgotten, or the question is asked anew, or nothing happens;
LEMMA WaitingKeepsAnchor ==
    ASSUME SubjectInv, AnchorHolds, Forget \/ ReadAgain \/ UNCHANGED vars
    PROVE  AnchorHolds'
<1>1. /\ UNCHANGED <<found, query, token, call, owed, passed, got, stale>>
      /\ window' = window \/ window' = NoWindow
  BY DEF Forget, ReadAgain, vars, history
<1>2. /\ window'.rows \subseteq Listed(query[1])
      /\ call' # NoCall => call'.rows \subseteq Listed(query[1]) /\ call'.budget = token'.ret + Limit
  BY <1>1 DEF AnchorHolds, NoWindow
<1>3. ASSUME NEW O, NEW R, Follows(found[query[1]], call, token, window, O, R)
      PROVE  Follows(found'[query[1]], call', token', window', O, R)
  BY <1>1, <1>3 DEF Follows
<1>4. Listed(query[1])' = Listed(query[1])  BY <1>1 DEF Listed
<1>5. stale \in SUBSET Rows  BY DEF SubjectInv, TypeInv
<1> QED  BY <1>1, <1>2, <1>3, <1>4, <1>5, AnchorStays

\* a row is posted;
LEMMA PostingKeepsAnchor ==
    ASSUME SubjectBounds, SubjectInv, Len(query) = 1, AnchorHolds,
           NEW r \in Rows, NEW phs \in SUBSET Phrases, Post(r, phs)
    PROVE  AnchorHolds'
<1> DEFINE L == Listed(query[1])
<1>1. UNCHANGED <<query, token, window, call>> /\ UNCHANGED <<owed, passed, got, stale>>
  BY DEF Post, history
<1>2. L \subseteq Listed(query[1])'
  <2>1. query[1] \in Phrases  BY OnePhrase DEF SubjectInv
  <2>2. ToSet(found[query[1]]) \subseteq ToSet(found'[query[1]])  BY <2>1, PostedLists DEF SubjectInv
  <2> QED  BY <1>1, <2>2 DEF Listed, Current
<1>3. /\ window'.rows \subseteq L
      /\ call' # NoCall => call'.rows \subseteq L /\ call'.budget = token'.ret + Limit
  BY <1>1 DEF AnchorHolds
<1>4. ASSUME NEW O \in SUBSET L, NEW R \in SUBSET Rows, Follows(found[query[1]], call, token, window, O, R)
      PROVE  Follows(found'[query[1]], call', token', window', O, R)
  <2>1. ASSUME call # NoCall
        PROVE  InOrder(found'[query[1]], call.term, call.page, O, call.rows, R)
    <3>1. call.page \in Pages /\ call.rows \in SUBSET Rows
      BY <2>1 DEF SubjectInv, TypeInv, Calls, Collected
    <3> QED  BY <1>4, <2>1, <3>1, PostKeepsOrder DEF Follows
  <2>2. ASSUME token # NoToken, window # NoWindow
        PROVE  InOrder(found'[query[1]], token.term, Opened(token.page), O, window.rows, R)
    <3>1. Opened(token.page) \in Pages /\ window.rows \in SUBSET Rows
      BY <2>2, OpenedPages DEF SubjectInv, TypeInv, Tokens, Windows, Collected
    <3> QED  BY <1>4, <2>2, <3>1, PostKeepsOrder DEF Follows
  <2> QED  BY <1>1, <2>1, <2>2 DEF Follows
<1>5. stale \in SUBSET Rows  BY DEF SubjectInv, TypeInv
<1> QED  BY <1>1, <1>2, <1>3, <1>4, <1>5, AnchorStays

\* or a call goes on from the token.
LEMMA GoingOnKeepsAnchor ==
    ASSUME SubjectBounds, SubjectInv, Len(query) = 1, AnchorHolds, Ask, token # NoToken
    PROVE  AnchorHolds'
<1> DEFINE s == found[query[1]]
<1>1. /\ UNCHANGED <<found, query, token, window, owed, passed, got, stale>>
      /\ call' = [term  |-> StartTerm, page |-> StartPage, rows |-> window.rows,
                  budget |-> token.ret + Limit, read |-> 0, open |-> FALSE,
                  stop  |-> StartTerm > Len(query), more |-> FALSE]
  BY DEF Ask
<1>2. call'.term = StartTerm /\ call'.page = StartPage /\ call'.rows = window.rows
      /\ call'.budget = token.ret + Limit
  BY <1>1
<1>3. window'.rows \subseteq Listed(query[1]) /\ call'.rows \subseteq Listed(query[1])
  BY <1>1, <1>2 DEF AnchorHolds
<1>4. ASSUME NEW O, NEW R, Follows(s, call, token, window, O, R)
      PROVE  Follows(found'[query[1]], call', token', window', O, R)
  <2>1. InOrder(s, StartTerm, StartPage, O, window.rows, R)
    <3>1. CASE window # NoWindow
      BY <1>4, <3>1 DEF Follows, StartTerm, StartPage
    <3>2. CASE window = NoWindow
      <4>1. StartTerm = 1 /\ StartPage = 1 /\ window.rows = {}
        BY <3>2 DEF StartTerm, StartPage, NoWindow
      <4>2. s \in Seq(Rows)  BY OnePhrase DEF SubjectInv
      <4> QED  BY <4>1, <4>2, InOrderAtFirst
    <3> QED  BY <3>1, <3>2
  <2> HIDE DEF s
  <2>2. Follows(s, call', token, window, O, R)  BY <1>2, <1>4, <2>1 DEF Follows
  <2> QED  BY <1>1, <2>2 DEF s
<1>5. Listed(query[1])' = Listed(query[1])  BY <1>1 DEF Listed
<1>6. stale \in SUBSET Rows  BY DEF SubjectInv, TypeInv
<1> QED  BY <1>1, <1>2, <1>3, <1>4, <1>5, <1>6, AnchorStays

\* A reading begins in a cached window: it owes nothing that is newer than a row of it, but
\* what it names as stale.
LEMMA BeginningKeepsAnchor ==
    ASSUME SubjectBounds, SubjectInv, Len(query) = 1, AnchorHolds, Ask, token = NoToken
    PROVE  AnchorHolds'
<1> DEFINE s == found[query[1]]
           L == Listed(query[1])
           W == window.rows
           late == {r \in L : \E w \in W \intersect L : w < r}
<1>1. /\ UNCHANGED <<found, query, token, window, passed, got>>
      /\ owed' = UNION {Listed(ph) : ph \in ToSet(query)} /\ stale' = stale \union Overlooked
      /\ call' = [term  |-> StartTerm, page |-> StartPage, rows |-> window.rows,
                  budget |-> token.ret + Limit, read |-> 0, open |-> FALSE,
                  stop  |-> StartTerm > Len(query), more |-> FALSE]
  BY DEF Ask
<1>2. call'.term = StartTerm /\ call'.page = StartPage /\ call'.rows = W
      /\ call'.budget = token.ret + Limit
  BY <1>1
<1>3. DOMAIN query = {1} /\ ToSet(query) = {query[1]} /\ Rows \subseteq Nat /\ L \subseteq Rows
  BY OnePhrase DEF SubjectInv
<1>4. owed' = L  BY <1>1, <1>3
<1>5. /\ W \subseteq L /\ passed \subseteq stale /\ (token.anchor = None => token.ret = 0)
      /\ token.anchor = None
  BY DEF AnchorHolds, NoToken
<1>6. SubjectInv'  BY Asking
<1>7. call' # NoCall  BY <1>1 DEF NoCall
<1>8. StartTerm \in Terms /\ StartPage \in Pages
  <2>1. call' \in Calls'  BY <1>6, <1>7 DEF SubjectInv, TypeInv
  <2>2. call'.term \in Terms' /\ call'.page \in Pages  BY <2>1 DEF Calls
  <2> QED  BY <1>1, <1>2, <2>2 DEF Terms
<1>9. Before(StartTerm, StartPage) \subseteq W \union stale'  BY <1>1 DEF Overlooked
<1>10. ASSUME NEW w \in W, NEW r \in L, r > w  PROVE r \in W \union stale'
  <2>1. CASE StartTerm = 1
    <3>1. w \in W \intersect L /\ w < r  BY <1>3, <1>5, <1>10
    <3>2. r \in late  BY <3>1
    <3>3. late \subseteq W \union stale'  BY <1>1, <1>3, <2>1 DEF Overlooked
    <3> QED  BY <3>2, <3>3
  <2>2. CASE StartTerm # 1
    <3>1. 1 < StartTerm  BY <1>8, <2>2 DEF Terms
    <3>2. L \subseteq Before(StartTerm, StartPage)  BY <1>3, <3>1 DEF Before
    <3> QED  BY <1>9, <3>2
  <2> QED  BY <2>1, <2>2
<1>11. InOrder(s, StartTerm, StartPage, L, W, stale')
  BY <1>8, <1>9, <1>10, RebuiltInOrder
<1> HIDE DEF s, L, W
<1>12. Follows(s, call', token, window, L, stale')  BY <1>2, <1>11 DEF Follows
<1>13. Listed(query[1])' = L  BY <1>1 DEF Listed, L
<1>14. Follows(found[query[1]], call, token, window, owed, stale)'
  BY <1>1, <1>4, <1>12 DEF Follows, s, InOrder, ReadTo, Base, Opened
<1>15. /\ passed' \subseteq stale' /\ window'.rows \subseteq L /\ call'.rows \subseteq L
       /\ call'.budget = token'.ret + Limit
  BY <1>1, <1>2, <1>5 DEF W, L
<1> QED  BY <1>1, <1>4, <1>5, <1>13, <1>14, <1>15 DEF AnchorHolds

\* An answer skips as much as was handed over, and nothing it skips is new.
LEMMA SkippedIsOld ==
    ASSUME SubjectBounds, SubjectInv, Len(query) = 1, AnchorHolds, call # NoCall
    PROVE  /\ Skipped(call) \in Nat /\ token.ret \in Nat /\ token.ret <= Skipped(call)
           /\ \A r \in owed \intersect call.rows :
                 Depth(call.rows, r) <= Skipped(call) => r \in got \union stale
<1> DEFINE s == found[query[1]]
           C == call.rows
           a == token.anchor
<1>1. C \in Collected /\ Rows \subseteq Nat \ {None} /\ C \subseteq Rows
  BY OnePhrase DEF SubjectInv, TypeInv, Calls, Collected
<1>2. token.ret \in Nat  BY DEF SubjectInv, TypeInv, Tokens, NoToken
<1>3. \A r \in C : Depth(C, r) \in 1..Cardinality(C) /\ Cardinality(C) \in Nat
  BY <1>1, DepthOrder, SomeAreCollected
<1>4. ASSUME a # None
      PROVE  \E A \in SUBSET Nat : /\ a \in A /\ \A r \in A : r >= a
                    /\ Cardinality(A) >= token.ret
                    /\ \A w \in C, r \in A : r > w => r \in C
  <2>1. PICK A \in SUBSET Listed(query[1]) :
                 /\ a \in A /\ \A r \in A : r >= a
                 /\ Cardinality(A) >= token.ret
                 /\ Follows(s, call, token, window, A, {})
    BY <1>4 DEF AnchorHolds, Anchored
  <2>2. InOrder(s, call.term, call.page, A, C, {})  BY <2>1 DEF Follows
  <2>3. \A w \in C, r \in A : r > w => r \in C  BY <2>2 DEF InOrder
  <2>4. A \in SUBSET Nat  BY <2>1, OnePhrase DEF SubjectInv
  <2> QED  BY <2>1, <2>3, <2>4
<1>5. ASSUME a # None, NEW r \in owed, r >= a  PROVE r \in got \union stale
  BY <1>5 DEF AnchorHolds
<1>6. a = None => token.ret = 0  BY DEF AnchorHolds
<1>7. Skipped(call) = IF a \in C THEN Depth(C, a) ELSE token.ret  BY DEF Skipped
<1>8. a \in Rows \union {None}  BY DEF SubjectInv, TypeInv, Tokens, NoToken
<1> HIDE DEF s, C, a
<1>9. CASE a \in C
  <2>1. a # None /\ a \in Nat  BY <1>1, <1>9
  <2>2. PICK A \in SUBSET Nat : /\ a \in A /\ \A r \in A : r >= a
                                /\ Cardinality(A) >= token.ret
                                /\ \A w \in C, r \in A : r > w => r \in C
    BY <1>4, <2>1
  <2>3. A \in SUBSET C
    <3> SUFFICES ASSUME NEW r \in A  PROVE r \in C
      OBVIOUS
    <3>1. r \in Nat /\ r >= a  BY <2>2
    <3>2. r = a \/ r > a  BY <2>1, <3>1
    <3> QED  BY <1>9, <2>2, <3>2
  <2>4. Cardinality(A) <= Depth(C, a) /\ Cardinality(A) \in Nat /\ Depth(C, a) \in Nat
    <3>1. Cardinality(A) <= Depth(C, a)  BY <1>1, <1>9, <2>2, <2>3, DepthOrder
    <3>2. A \in Collected  BY <1>1, <2>3, SomeAreCollected
    <3> QED  BY <1>1, <3>1, <3>2, SomeAreCollected
  <2>5. Skipped(call) = Depth(C, a) /\ token.ret <= Depth(C, a)
    <3> DEFINE n == Cardinality(A)
    <3>1. n >= token.ret /\ n <= Depth(C, a) /\ n \in Nat  BY <2>2, <2>4
    <3> HIDE DEF n
    <3> QED  BY <1>2, <1>7, <1>9, <2>4, <3>1
  <2>6. ASSUME NEW r \in owed \intersect C, Depth(C, r) <= Depth(C, a)  PROVE r \in got \union stale
    <3>1. r >= a  BY <1>1, <1>9, <2>6, DepthOrder
    <3> QED  BY <1>5, <2>1, <2>6, <3>1
  <2> QED  BY <1>2, <2>4, <2>5, <2>6 DEF C
<1>10. CASE a \notin C
  <2>1. Skipped(call) = token.ret  BY <1>7, <1>10
  <2>2. ASSUME NEW r \in owed \intersect C, Depth(C, r) <= token.ret  PROVE r \in got \union stale
    <3>1. a # None  BY <1>3, <1>6, <2>2
    <3>2. r \in Nat /\ a \in Nat  BY <1>1, <1>8, <3>1
    <3>3. PICK A : /\ a \in A /\ \A w \in C, x \in A : x > w => x \in C  BY <1>4, <3>1
    <3>4. ~ a > r  BY <1>10, <2>2, <3>3
    <3> QED  BY <1>5, <2>2, <3>1, <3>2, <3>4
  <2> QED  BY <1>2, <2>1, <2>2 DEF C
<1> QED  BY <1>9, <1>10

\* So nothing is left out but what is stale.
LEMMA NothingNewIsLeftOut ==
    ASSUME SubjectBounds, SubjectInv, Len(query) = 1, AnchorHolds, call # NoCall
    PROVE  LeftOut(call) \subseteq stale
<1> DEFINE C == call.rows
           k == Skipped(call)
<1>1. /\ C \in Collected /\ Rows \subseteq Nat /\ call.budget = token.ret + Limit /\ Limit \in Nat
  BY DEF SubjectInv, TypeInv, Calls, SubjectBounds, AnchorHolds
<1>2. /\ k \in Nat /\ token.ret \in Nat /\ token.ret <= k
      /\ \A r \in owed \intersect C : Depth(C, r) <= k => r \in got \union stale
  BY SkippedIsOld
<1>3. Cardinality(C) \in Nat /\ \A r \in C : Depth(C, r) \in 1..Cardinality(C)
  BY <1>1, DepthOrder, SomeAreCollected
<1>4. LeftOut(call) =
        {r \in (owed \intersect C) \ got :
            \/ Depth(C, r) - k <= 0
            \/ ~(call.more \/ Cardinality(C) > call.budget) /\ Depth(C, r) - k > Limit}
  BY DEF LeftOut, HasMore
<1> HIDE DEF C, k
<1> SUFFICES ASSUME NEW r \in LeftOut(call)  PROVE r \in stale
  OBVIOUS
<1>5. r \in owed \intersect C /\ r \notin got  BY <1>4
<1>6. Depth(C, r) \in Nat /\ Depth(C, r) <= Cardinality(C)  BY <1>3, <1>5
<1>7. Depth(C, r) <= k  BY <1>1, <1>2, <1>3, <1>4, <1>6
<1> QED  BY <1>2, <1>5, <1>7

\* The anchor of the next token is the last row handed over, at the place the token counts;
\* or the old one, of which the window lacks, when nothing was handed over.
LEMMA NextAnchor ==
    ASSUME SubjectBounds, SubjectInv, Len(query) = 1, AnchorHolds, call # NoCall
    PROVE  LET t == TokenAfter(call)
           IN  /\ t.ret \in Nat
               /\ \A r \in call.rows : Depth(call.rows, r) <= t.ret =>
                                          Depth(call.rows, r) <= Skipped(call) \/ r \in Hits(call)
               /\ \/ t.anchor \in call.rows /\ Depth(call.rows, t.anchor) = t.ret
                  \/ t.anchor = token.anchor /\ t.ret = token.ret
<1> DEFINE C == call.rows
           k == Skipped(call)
           H == Hits(call)
           n == k + Cardinality(H)
           last == {r \in C : Depth(C, r) = n}
           t == TokenAfter(call)
<1>1. C \in Collected /\ Rows \subseteq Nat /\ Limit \in Nat /\ C \subseteq Rows
  BY DEF SubjectInv, TypeInv, Calls, Collected, SubjectBounds
<1>2. k \in Nat  BY SkippedIsOld
<1>3. Cardinality(C) \in Nat /\ \A r \in C : Depth(C, r) \in 1..Cardinality(C)
  BY <1>1, DepthOrder, SomeAreCollected
<1>4. t.ret = n /\ t.anchor = IF last = {} THEN token.anchor ELSE Min(last)
  BY DEF TokenAfter
<1>5. H = {r \in C : Depth(C, r) \in k + 1 .. k + Limit} /\ H \in SUBSET C  BY DEF Hits
<1>6. k = IF token.anchor \in C THEN Depth(C, token.anchor) ELSE token.ret  BY DEF Skipped
<1> HIDE DEF C, k, H, t
<1>7. Cardinality(H) \in 0..Limit  BY <1>1, <1>2, <1>5, RowsOfPlaces
<1>8. n \in Nat  BY <1>1, <1>2, <1>7
<1> HIDE DEF n
<1>9. ASSUME NEW r \in C, Depth(C, r) <= n  PROVE Depth(C, r) <= k \/ r \in H
  <2>1. Depth(C, r) \in Nat /\ n <= k + Limit  BY <1>1, <1>2, <1>3, <1>7 DEF n
  <2> QED  BY <1>1, <1>2, <1>5, <1>8, <1>9, <2>1
<1>10. CASE last # {}
  <2>1. last \in SUBSET Nat /\ last # {}  BY <1>1, <1>10
  <2>2. \E x \in last : \A y \in last : x <= y  BY <2>1, LeastExists
  <2>3. Min(last) \in last  BY <2>2 DEF Min
  <2>4. t.anchor \in C /\ Depth(C, t.anchor) = n  BY <1>4, <1>10, <2>3
  <2> QED  BY <1>4, <1>8, <1>9, <2>4 DEF C, k, H, t
<1>11. CASE last = {}
  <2>1. H = {}
    <3> SUFFICES ASSUME NEW r \in H  PROVE FALSE
      OBVIOUS
    <3>1. r \in C /\ Depth(C, r) \in Nat /\ k < Depth(C, r) /\ Depth(C, r) <= Cardinality(C)
      BY <1>1, <1>2, <1>3, <1>5
    <3>2. Cardinality(C) - k \in Nat  BY <1>2, <1>3, <3>1
    <3>3. \A s \in H : Depth(C, s) \in k + 1 .. k + (Cardinality(C) - k)
      BY <1>1, <1>2, <1>3, <1>5
    <3> DEFINE m == Cardinality(C) - k
    <3>4. Cardinality(H) \in 0..m
      <4> HIDE DEF m
      <4>1. m \in Nat /\ \A s \in H : Depth(C, s) \in k + 1 .. k + m  BY <3>2, <3>3 DEF m
      <4> QED  BY <1>1, <1>2, <1>5, <4>1, RowsOfPlaces
    <3>5. Cardinality(H) # 0
      <4>1. IsFiniteSet(H)  BY <1>1, <1>5, FS_Subset DEF Collected
      <4> QED  BY <4>1, FS_EmptySet
    <3>6. n \in 1..Cardinality(C)  BY <1>2, <1>3, <3>4, <3>5 DEF n
    <3>7. PICK x \in C : Depth(C, x) = n  BY <1>1, <3>6, Ranked
    <3> QED  BY <1>11, <3>7
  <2>2. n = k
    <3>1. Cardinality(H) = 0  BY <2>1, FS_EmptySet
    <3> QED  BY <1>2, <3>1 DEF n
  <2>3. token.anchor \notin C
    <3>1. token.anchor \in C => token.anchor \in last  BY <1>6, <2>2
    <3> QED  BY <1>11, <3>1
  <2>4. t.anchor = token.anchor /\ t.ret = token.ret  BY <1>4, <1>6, <1>11, <2>2, <2>3
  <2> QED  BY <1>4, <1>8, <1>9, <2>4 DEF C, k, H, t
<1> QED  BY <1>10, <1>11

\* An answer moves the anchor to its last row.
LEMMA HearingKeepsAnchor ==
    ASSUME SubjectBounds, SubjectInv, Len(query) = 1, AnchorHolds, Answer(TRUE)
    PROVE  AnchorHolds'
<1> DEFINE s == found[query[1]]
           L == Listed(query[1])
           C == call.rows
           t == TokenAfter(call)
<1>1. /\ call # NoCall /\ UNCHANGED <<found, query, owed, stale>> /\ call' = NoCall
      /\ window' = WindowAfter(call) /\ got' = got \union Hits(call)
      /\ passed' = passed \union LeftOut(call)
      /\ token' = IF HasMore(call) THEN t ELSE NoToken
  BY DEF Answer
<1>2. call \in Calls /\ C \in Collected /\ Rows \subseteq Nat \ {None}
  BY <1>1, OnePhrase DEF SubjectInv, TypeInv, Calls
<1>3. /\ owed \subseteq L /\ C \subseteq L /\ passed \subseteq stale
      /\ InOrder(s, call.term, call.page, owed, C, stale)
      /\ token.anchor = None => token.ret = 0
      /\ token.anchor # None => Anchored /\ \A r \in owed : r >= token.anchor => r \in got \union stale
  BY <1>1 DEF AnchorHolds, Follows
<1>4. passed' \subseteq stale'  BY <1>1, <1>3, NothingNewIsLeftOut
<1>5. window'.rows = C  BY <1>1 DEF WindowAfter
<1>6. Listed(query[1])' = L  BY <1>1 DEF Listed
<1>7. CASE ~HasMore(call)
  <2>1. token' = NoToken /\ token'.anchor = None /\ token'.ret = 0  BY <1>1, <1>7 DEF NoToken
  <2>2. Follows(found[query[1]], call, token, window, owed, stale)'  BY <1>1, <2>1 DEF Follows
  <2> HIDE DEF C, L
  <2> QED  BY <1>1, <1>3, <1>4, <1>5, <1>6, <2>1, <2>2 DEF AnchorHolds
<1>8. CASE HasMore(call)
  <2>1. token' = t /\ t.term = call.term /\ t.page = IF call.open THEN call.page ELSE None
    BY <1>1, <1>8 DEF TokenAfter
  <2>2. call.page \in Pages /\ call.open \in BOOLEAN  BY <1>2 DEF Calls
  <2>3. Opened(t.page) = IF call.open THEN call.page ELSE 1
    BY <2>1, <2>2 DEF Opened, Pages, None
  <2>4. /\ t.ret \in Nat
        /\ \A r \in C : Depth(C, r) <= t.ret => Depth(C, r) <= Skipped(call) \/ r \in Hits(call)
        /\ \/ t.anchor \in C /\ Depth(C, t.anchor) = t.ret
           \/ t.anchor = token.anchor /\ t.ret = token.ret
    BY <1>1, NextAnchor
  <2>5. \A r \in owed \intersect C : Depth(C, r) <= Skipped(call) => r \in got \union stale
    BY <1>1, SkippedIsOld
  <2>6. s \in Seq(Rows)  BY OnePhrase DEF SubjectInv
  <2> HIDE DEF s, L, C, t
  <2>7. ASSUME NEW O, NEW R, InOrder(s, call.term, call.page, O, C, R)
        PROVE  Follows(s, NoCall, t, window', O, R)
    <3>1. InOrder(s, call.term, 1, O, C, R)  BY <2>6, <2>7, InOrderReopened
    <3>2. InOrder(s, t.term, Opened(t.page), O, C, R)  BY <2>1, <2>2, <2>3, <2>7, <3>1
    <3> QED  BY <1>5, <3>2 DEF Follows
  <2>8. Follows(s, NoCall, t, window', owed, stale)  BY <1>3, <2>7
  <2>9. /\ t.anchor = None => t.ret = 0
        /\ t.anchor # None =>
              /\ \E A \in SUBSET L : /\ t.anchor \in A /\ \A r \in A : r >= t.anchor
                                     /\ Cardinality(A) >= t.ret
                                     /\ Follows(s, NoCall, t, window', A, {})
              /\ \A r \in owed : r >= t.anchor => r \in got' \union stale
    <3>1. CASE t.anchor \in C /\ Depth(C, t.anchor) = t.ret
      <4> DEFINE A == {r \in C : r >= t.anchor}
      <4>1. A \in SUBSET L /\ t.anchor \in A /\ (\A r \in A : r >= t.anchor) /\ t.anchor # None
        <5>1. t.anchor \in Nat \ {None}  BY <1>2, <3>1 DEF Collected
        <5> QED  BY <1>3, <3>1, <5>1
      <4>2. Cardinality(A) >= t.ret
        <5>1. Cardinality(A) = t.ret  BY <3>1 DEF Depth
        <5> HIDE DEF A
        <5> QED  BY <2>4, <5>1
      <4>3. Follows(s, NoCall, t, window', A, {})
        <5>1. A \subseteq C  OBVIOUS
        <5> HIDE DEF A
        <5>2. InOrder(s, t.term, Opened(t.page), A, C, {})  BY <5>1 DEF InOrder, ReadTo
        <5> QED  BY <1>5, <5>2 DEF Follows
      <4>4. ASSUME NEW r \in owed, r >= t.anchor  PROVE r \in got' \union stale
        <5>1. r \in C \union stale
          <6>1. r \in Nat /\ t.anchor \in Nat
            BY <1>2, <3>1 DEF SubjectInv, TypeInv, Collected
          <6>2. r = t.anchor \/ r > t.anchor  BY <4>4, <6>1
          <6>3. \A w \in C, x \in owed : x > w => x \in C \union stale  BY <1>3 DEF InOrder
          <6> QED  BY <3>1, <6>2, <6>3
        <5>2. CASE r \in C
          <6>1. Depth(C, r) <= Depth(C, t.anchor)  BY <1>2, <3>1, <4>4, <5>2, DepthOrder
          <6> QED  BY <1>1, <2>4, <2>5, <3>1, <5>2, <6>1
        <5> QED  BY <5>1, <5>2
      <4> HIDE DEF A
      <4> QED  BY <4>1, <4>2, <4>3, <4>4
    <3>2. CASE t.anchor = token.anchor /\ t.ret = token.ret /\ token.anchor # None
      <4>1. PICK A \in SUBSET L : /\ t.anchor \in A /\ \A r \in A : r >= t.anchor
                                  /\ Cardinality(A) >= t.ret
                                  /\ InOrder(s, call.term, call.page, A, C, {})
        BY <1>1, <1>3, <3>2 DEF Anchored, Follows, s, L, C
      <4>2. Follows(s, NoCall, t, window', A, {})  BY <2>7, <4>1
      <4>3. \A r \in owed : r >= t.anchor => r \in got' \union stale  BY <1>1, <1>3, <3>2
      <4> QED  BY <3>2, <4>1, <4>2, <4>3
    <3> QED  BY <1>3, <2>4, <3>1, <3>2
  <2>10. /\ token' = t /\ call' = NoCall /\ query' = query /\ found'[query[1]] = s
         /\ owed' = owed /\ stale' = stale
    BY <1>1, <2>1 DEF s
  <2>11. Follows(found[query[1]], call, token, window, owed, stale)'
    <3>1. Follows(found'[query[1]], call', token', window', owed', stale')  BY <2>8, <2>10
    <3> QED  BY <2>10, <3>1 DEF Follows, InOrder, ReadTo, Base, Opened
  <2>12. Anchored' <=> \E A \in SUBSET L :
                          /\ t.anchor \in A /\ \A r \in A : r >= t.anchor
                          /\ Cardinality(A) >= t.ret
                          /\ Follows(s, NoCall, t, window', A, {})
    <3> DEFINE u == token'
               x == window'
    <3>1. Anchored' <=> \E A \in SUBSET Listed(query[1])' :
                           /\ u.anchor \in A /\ \A r \in A : r >= u.anchor
                           /\ Cardinality(A) >= u.ret
                           /\ Follows(found'[query[1]], call', u, x, A, {})
      BY <2>10 DEF Anchored, Follows, InOrder, ReadTo, Base, Opened
    <3> QED  BY <1>6, <2>10, <3>1
  <2> QED  BY <1>3, <1>4, <1>5, <1>6, <2>9, <2>10, <2>11, <2>12 DEF AnchorHolds, L
<1> QED  BY <1>7, <1>8

\* What was withdrawn stays so, and so does what was lost with a window.
LEMMA CalmBefore ==
    ASSUME SubjectBounds, SubjectInv, [Next]_vars
    PROVE  /\ query' = query /\ torn \subseteq torn' /\ slipped \subseteq slipped'
           /\ \A r \in Rows : Withdraw(r) => slipped' # {}
<1>1. \A r \in Rows : Withdraw(r) => /\ query' = query /\ torn' = torn /\ slipped \subseteq slipped'
                                     /\ slipped' # {}
  BY DEF Withdraw
<1>2. CASE Ask \/ ReadAgain \/ FallBack \/ Answer(TRUE)
  BY <1>1, <1>2 DEF Ask, ReadAgain, FallBack, Answer
<1>3. CASE FilteredPage \/ PageBound \/ Deadline \/ Abort \/ Forget \/ UNCHANGED vars
  BY <1>1, <1>3 DEF FilteredPage, PageBound, Deadline, Abort, Forget, vars, history
<1>4. CASE Answer(FALSE)
  <2>1. torn \subseteq torn'  BY <1>4, Losing
  <2> QED  BY <1>1, <1>4, <2>1 DEF Answer
<1>5. ASSUME NEW r \in Rows, NEW phs \in SUBSET Phrases, Post(r, phs)
      PROVE  query' = query /\ torn \subseteq torn' /\ slipped \subseteq slipped'
  BY <1>5 DEF Post, history
<1> QED
  BY <1>1, <1>2, <1>3, <1>4, <1>5 DEF Next, Reading, Disturbance

LEMMA AnchorInitially ==
    ASSUME Init  PROVE AnchorInv
BY DEF Init, AnchorInv, AnchorHolds, Follows, NoToken, NoWindow

LEMMA AnchorStep ==
    ASSUME SubjectBounds, SubjectInv, AnchorInv, [Next]_vars
    PROVE  AnchorInv'
<1> SUFFICES ASSUME Calm'  PROVE AnchorHolds'
  BY DEF AnchorInv
<1>1. Calm /\ torn' = {} /\ \A r \in Rows : ~Withdraw(r)
  BY CalmBefore DEF Calm
<1>2. Len(query) = 1 /\ AnchorHolds  BY <1>1 DEF Calm, AnchorInv
<1>3. CASE Ask
  BY <1>2, <1>3, BeginningKeepsAnchor, GoingOnKeepsAnchor
<1>4. CASE FilteredPage                        BY <1>2, <1>4, PagingKeepsAnchor
<1>5. CASE PageBound \/ Deadline               BY <1>2, <1>5, CuttingKeepsAnchor
<1>6. CASE Answer(TRUE)                        BY <1>2, <1>6, HearingKeepsAnchor
<1>7. CASE Answer(FALSE)                       BY <1>1, <1>2, <1>7, LosingKeepsAnchor
<1>8. CASE Abort \/ FallBack                   BY <1>2, <1>8, LeavingKeepsAnchor
<1>9. CASE Forget \/ ReadAgain \/ UNCHANGED vars  BY <1>2, <1>9, WaitingKeepsAnchor
<1>10. ASSUME NEW r \in Rows, NEW phs \in SUBSET Phrases, Post(r, phs)  PROVE AnchorHolds'
  BY <1>2, <1>10, PostingKeepsAnchor
<1> QED
  BY <1>1, <1>3, <1>4, <1>5, <1>6, <1>7, <1>8, <1>9, <1>10 DEF Next, Reading, Disturbance

LEMMA AnchorHeld ==
    ASSUME AnchorInv  PROVE OnePhraseKeepsItsAnchor
BY DEF AnchorInv, Calm, AnchorHolds, OnePhraseKeepsItsAnchor

\* For one phrase the anchor of the search of BUTB is sound: an answer leaves nothing out but
\* what a cached place was past when the reading began, whatever is posted, cached, evicted,
\* cut short or given up; as long as no row was withdrawn and no answer that rebuilt a lost
\* window was lost itself.
THEOREM AnchorIsKept == SubjectBounds => (Spec => []OnePhraseKeepsItsAnchor)
<1> SUFFICES ASSUME SubjectBounds  PROVE Spec => []OnePhraseKeepsItsAnchor
  OBVIOUS
<1>1. Init => AnchorInv  BY AnchorInitially
<1>2. SubjectInv /\ AnchorInv /\ [Next]_vars => AnchorInv'  BY AnchorStep
<1>3. AnchorInv => OnePhraseKeepsItsAnchor  BY AnchorHeld
<1> QED  BY <1>1, <1>2, <1>3, SubjectInduction, PTL DEF Spec

=============================================================================
