-------------------------- MODULE PhraseScanProofs --------------------------
\* What holds of the goszakupki.by search (module PhraseScan) for every set of phrases,
\* size of page and answer, and every change of the site: it implements the reading of
\* module WindowRead.
EXTENDS PhraseScan, TLAPS, SequenceTheorems, WellFoundedInduction

LEMMA Removal ==
    ASSUME NEW q \in Seq(Rows), NEW n \in DOMAIN q
    PROVE  /\ RemoveAt(q, n) \in Seq(Rows) /\ Len(RemoveAt(q, n)) = Len(q) - 1
           /\ \A i \in 1..Len(q) - 1 : RemoveAt(q, n)[i] = IF i < n THEN q[i] ELSE q[i + 1]
<1> DEFINE before == SubSeq(q, 1, n - 1)
           after == SubSeq(q, n + 1, Len(q))
<1>1. before \in Seq(Rows) /\ Len(before) = n - 1 /\ \A i \in 1..n - 1 : before[i] = q[i]
  BY SubSeqProperties
<1>2. /\ after \in Seq(Rows) /\ Len(after) = Len(q) - n
      /\ \A i \in 1..Len(q) - n : after[i] = q[n + i]
  BY SubSeqProperties
<1>3. RemoveAt(q, n) = before \o after  BY DEF RemoveAt
<1> HIDE DEF before, after
<1>4. /\ before \o after \in Seq(Rows) /\ Len(before \o after) = Len(before) + Len(after)
      /\ \A i \in 1..Len(before) + Len(after) :
            (before \o after)[i] = IF i <= Len(before) THEN before[i] ELSE after[i - Len(before)]
  BY <1>1, <1>2, ConcatProperties
<1>5. Len(before) + Len(after) = Len(q) - 1  BY <1>1, <1>2
<1>6. ASSUME NEW i \in 1..Len(q) - 1
      PROVE  (before \o after)[i] = IF i < n THEN q[i] ELSE q[i + 1]
  <2>1. CASE i < n
    <3>1. i \in 1..n - 1 /\ i <= Len(before)  BY <1>1, <2>1
    <3> QED  BY <1>1, <1>4, <1>5, <2>1, <3>1
  <2>2. CASE ~ i < n
    <3>1. ~ i <= Len(before) /\ i - Len(before) \in 1..Len(q) - n /\ n + (i - Len(before)) = i + 1
      BY <1>1, <2>2
    <3> QED  BY <1>1, <1>2, <1>4, <1>5, <2>2, <3>1
  <2> QED  BY <2>1, <2>2
<1> QED  BY <1>3, <1>4, <1>5, <1>6

\* A row that enters at the head moves every other one place down.
LEMMA Heading ==
    ASSUME NEW q \in Seq(Rows), NEW r \in Rows
    PROVE  /\ <<r>> \o q \in Seq(Rows) /\ Len(<<r>> \o q) = Len(q) + 1
           /\ \A i \in 1..Len(q) + 1 : (<<r>> \o q)[i] = IF i = 1 THEN r ELSE q[i - 1]
<1>1. <<r>> \in Seq(Rows) /\ Len(<<r>>) = 1 /\ <<r>>[1] = r  OBVIOUS
<1> DEFINE s == <<r>>
<1> HIDE DEF s
<1>2. /\ s \o q \in Seq(Rows) /\ Len(s \o q) = Len(s) + Len(q)
      /\ \A i \in 1..Len(s) + Len(q) : (s \o q)[i] = IF i <= Len(s) THEN s[i] ELSE q[i - Len(s)]
  BY <1>1, ConcatProperties DEF s
<1> QED  BY <1>1, <1>2 DEF s

\* A row that leaves a list leaves its one place in it.
LEMMA RemovalOfARow ==
    ASSUME Rows \subseteq Nat, NEW q \in Seq(Rows), NewestFirst(q), NEW n \in DOMAIN q
    PROVE  RemoveFirst(q, q[n]) = RemoveAt(q, n)
<1> DEFINE I == {i \in 1..Len(q) : q[i] = q[n]}
<1>1. ASSUME NEW i \in 1..Len(q), q[i] = q[n]  PROVE i = n
  <2>1. q[i] \in Rows /\ q[n] \in Rows  OBVIOUS
  <2>2. q[i] \in Nat /\ q[n] \in Nat  BY <2>1
  <2>3. ~ i < n /\ ~ n < i  BY <1>1, <2>2 DEF NewestFirst
  <2> QED  BY <1>1, <2>3
<1>2. I = {n}  BY <1>1
<1> HIDE DEF I
<1>3. Min(I) = n /\ I # {}  BY <1>2 DEF Min
<1>4. SelectInSeq(q, LAMBDA v : v = q[n]) = n  BY <1>3 DEF SelectInSeq, I
<1> QED  BY <1>4 DEF RemoveFirst

----------------------------------------------------------------------------
\* Of the first n places of s every row of O is in R: it was collected, or lost in a way
\* the history names.
ReadTo(s, n, O, R) == \A i \in DOMAIN s : i <= n /\ s[i] \in O => s[i] \in R

LEMMA HeadingReads ==
    ASSUME NEW s \in Seq(Rows), NEW r \in Rows, NEW n \in Nat, NEW O, NEW R,
           ReadTo(s, n, O, R), r \in O => r \in R
    PROVE  ReadTo(<<r>> \o s, n, O, R)
<1> DEFINE t == <<r>> \o s
<1>1. /\ t \in Seq(Rows) /\ Len(t) = Len(s) + 1
      /\ \A i \in 1..Len(s) + 1 : t[i] = IF i = 1 THEN r ELSE s[i - 1]
  BY Heading
<1> HIDE DEF t
<1>2. ASSUME NEW i \in DOMAIN t, i <= n, t[i] \in O  PROVE t[i] \in R
  <2>1. CASE i = 1  BY <1>1, <1>2, <2>1
  <2>2. CASE i # 1
    <3>1. i - 1 \in DOMAIN s /\ i - 1 <= n /\ t[i] = s[i - 1]  BY <1>1, <1>2, <2>2
    <3> QED  BY <1>2, <3>1 DEF ReadTo
  <2> QED  BY <2>1, <2>2
<1>3. ReadTo(t, n, O, R)  BY <1>2 DEF ReadTo
<1> QED  BY <1>3 DEF t

LEMMA RemovalReads ==
    ASSUME NEW s \in Seq(Rows), NEW k \in DOMAIN s, NEW n \in Nat, NEW O, NEW R, NEW T,
           ReadTo(s, n, O, R), R \subseteq T, k <= n /\ n + 1 \in DOMAIN s => s[n + 1] \in T
    PROVE  ReadTo(RemoveAt(s, k), n, O, T)
<1> DEFINE t == RemoveAt(s, k)
<1>1. /\ t \in Seq(Rows) /\ Len(t) = Len(s) - 1
      /\ \A i \in 1..Len(s) - 1 : t[i] = IF i < k THEN s[i] ELSE s[i + 1]
  BY Removal
<1> HIDE DEF t
<1>2. ASSUME NEW i \in DOMAIN t, i <= n, t[i] \in O  PROVE t[i] \in T
  <2>1. i \in 1..Len(s) - 1  BY <1>1
  <2>2. CASE i < k
    <3>1. i \in DOMAIN s /\ t[i] = s[i]  BY <1>1, <2>1, <2>2
    <3> QED  BY <1>2, <3>1 DEF ReadTo
  <2>3. CASE ~ i < k
    <3>1. i + 1 \in DOMAIN s /\ t[i] = s[i + 1]  BY <1>1, <2>1, <2>3
    <3>2. CASE i + 1 <= n  BY <1>2, <3>1, <3>2 DEF ReadTo
    <3>3. CASE ~ i + 1 <= n
      <4>1. i = n /\ k <= n  BY <1>2, <2>1, <2>3, <3>3
      <4> QED  BY <3>1, <4>1
    <3> QED  BY <3>2, <3>3
  <2> QED  BY <2>2, <2>3
<1>3. ReadTo(t, n, O, T)  BY <1>2 DEF ReadTo
<1> QED  BY <1>3 DEF t

LEMMA PageReads ==
    ASSUME NEW s \in Seq(Rows), NEW n \in Nat, NEW m \in Nat, NEW O, NEW R, NEW T,
           ReadTo(s, n, O, R), R \subseteq T, Slice(s, n, m) \intersect O \subseteq T
    PROVE  ReadTo(s, n + m, O, T)
<1> SUFFICES ASSUME NEW i \in DOMAIN s, i <= n + m, s[i] \in O  PROVE s[i] \in T
  BY DEF ReadTo
<1>1. CASE i <= n  BY <1>1 DEF ReadTo
<1>2. CASE ~ i <= n
  <2>1. n < i  BY <1>2
  <2>2. s[i] \in Slice(s, n, m)  BY <2>1 DEF Slice
  <2> QED  BY <2>2
<1> QED  BY <1>1, <1>2

\* Once the places that were read are all there are, nothing is left.
LEMMA EndReads ==
    ASSUME NEW s \in Seq(Rows), NEW n \in Nat, NEW O, NEW R,
           ReadTo(s, n, O, R), Len(s) <= n, O \subseteq ToSet(s) \union R
    PROVE  O \subseteq R
<1> SUFFICES ASSUME NEW r \in O, r \in ToSet(s)  PROVE r \in R
  OBVIOUS
<1>1. PICK i \in DOMAIN s : s[i] = r  BY DEF ToSet
<1>2. i <= n  OBVIOUS
<1> QED  BY <1>1, <1>2 DEF ReadTo

\* What the places say is not disturbed when more is collected or lost.
LEMMA ReadsMore ==
    ASSUME NEW s, NEW n, NEW O, NEW R, NEW T, ReadTo(s, n, O, R), R \subseteq T
    PROVE  ReadTo(s, n, O, T)
BY DEF ReadTo

LEMMA NothingRead ==
    ASSUME NEW s \in Seq(Rows), NEW O, NEW R  PROVE ReadTo(s, 0, O, R)
BY DEF ReadTo

\* The places above page p.
Base(p) == (p - 1) * PageSize

LEMMA NextBase ==
    ASSUME ScanBounds, NEW p \in Nat \ {0}
    PROVE  Base(p) \in Nat /\ Base(p + 1) = Base(p) + PageSize
<1>1. PageSize \in Nat \ {0} /\ p - 1 \in Nat  BY DEF ScanBounds
<1>2. \A k \in Nat : k * PageSize \in Nat /\ (k + 1) * PageSize = k * PageSize + PageSize  BY <1>1
<1>3. (p + 1) - 1 = (p - 1) + 1  OBVIOUS
<1> QED  BY <1>1, <1>2, <1>3 DEF Base

\* A place of a list comes first among some.
LEMMA LeastExists ==
    ASSUME NEW S \in SUBSET Nat, S # {}
    PROVE  \E x \in S : \A y \in S : x <= y
<1> DEFINE R == OpToRel(<, Nat)
<1>1. IsWellFoundedOn(R, Nat)  BY NatLessThanWellFounded
<1>2. PICK x \in S : \A y \in S : ~ (<<y, x>> \in R)  BY <1>1, WFMin
<1>3. ASSUME NEW y \in S  PROVE x <= y
  <2>1. ~ y < x /\ x \in Nat /\ y \in Nat  BY <1>2 DEF OpToRel
  <2> QED  BY <2>1
<1> QED  BY <1>2, <1>3

----------------------------------------------------------------------------
Pages == Nat \ {0}
Calls == [at : [PhraseSet -> Pages], more : [PhraseSet -> BOOLEAN], pages : [PhraseSet -> Nat],
          rows : [PhraseSet -> SUBSET Rows], owes : [PhraseSet -> SUBSET Rows],
          first : BOOLEAN, todo : SUBSET DOMAIN query.phrases]

\* The types, with the shape of a call in flight and of the token.
TypeInv ==
    /\ found \in [Phrases -> Seq(Rows)] /\ \A ph \in Phrases : NewestFirst(found[ph])
    /\ query \in Questions /\ events \in 0..Events /\ closed \in BOOLEAN
    /\ got \subseteq Rows /\ cut \subseteq Rows /\ slipped \subseteq Rows
    /\ owed \in [Phrases -> SUBSET Rows]
    /\ token # NoToken =>
          /\ DOMAIN token.at \subseteq Phrases /\ DOMAIN token.at # {} /\ token.ended \subseteq Phrases
          /\ \A ph \in DOMAIN token.at : token.at[ph] \in Pages
    /\ call # NoCall => call \in Calls

Lost == got \union cut \union slipped

\* What the token says is read of a phrase was handed over, or is lost by name.
TokenInv ==
    token # NoToken => \A ph \in Phrases :
        /\ ph \in token.ended => owed[ph] \subseteq Lost
        /\ ph \in DOMAIN token.at => ReadTo(found[ph], Base(token.at[ph]), owed[ph], Lost)
        /\ ph \in token.ended \union DOMAIN token.at => owed[ph] \subseteq token.kept

\* So it is with a call, but for what the call itself has collected.
CallReads(c, ph) ==
    /\ c.owes[ph] \subseteq query.kept /\ c.owes[ph] \subseteq ToSet(found[ph]) \union slipped
    /\ ReadTo(found[ph], Base(c.at[ph]), c.owes[ph], Lost \union c.rows[ph])
    /\ ~c.more[ph] => c.owes[ph] \subseteq Lost \union c.rows[ph]

ReadInv ==
    /\ \A ph \in Phrases : owed[ph] \subseteq ToSet(found[ph]) \union slipped
    /\ TokenInv
    /\ call # NoCall => ~closed /\ \A ph \in PhraseSet : CallReads(call, ph)

PhraseInv == TypeInv /\ ReadInv

LEMMA AskedPhrases ==
    ASSUME ScanBounds, query \in Questions
    PROVE  /\ PhraseSet \subseteq Phrases /\ query.kept \subseteq Rows
           /\ \A k \in DOMAIN query.phrases : query.phrases[k] \in PhraseSet
BY DEF ScanBounds, PhraseSet, Phrases, ToSet

LEMMA CallFields ==
    ASSUME NEW c \in Calls
    PROVE  /\ c.at \in [PhraseSet -> Pages] /\ c.more \in [PhraseSet -> BOOLEAN]
           /\ c.pages \in [PhraseSet -> Nat] /\ c.rows \in [PhraseSet -> SUBSET Rows]
           /\ c.owes \in [PhraseSet -> SUBSET Rows] /\ c.first \in BOOLEAN
           /\ c.todo \subseteq DOMAIN query.phrases /\ c # NoCall
<1>1. "todo" \in DOMAIN c  BY DEF Calls
<1>2. "todo" \notin DOMAIN NoCall  BY DEF NoCall
<1> QED  BY <1>1, <1>2 DEF Calls

\* A call that has read a page of one phrase.
LEMMA PageRead ==
    ASSUME NEW c \in Calls, NEW ph \in PhraseSet, query.kept \subseteq Rows
    PROVE  LET d == AfterPage(c, ph)
           IN  /\ d \in Calls /\ d.owes = c.owes /\ d.todo = c.todo /\ d.first = c.first
               /\ d.at[ph] = c.at[ph] + 1 /\ d.more[ph] = HasNextPage(ph, c.at[ph])
               /\ d.rows[ph] = c.rows[ph] \union (PageRows(ph, c.at[ph]) \intersect query.kept)
               /\ \A q \in PhraseSet \ {ph} :
                     d.at[q] = c.at[q] /\ d.more[q] = c.more[q] /\ d.rows[q] = c.rows[q]
<1> DEFINE n   == c.at[ph]
           new == PageRows(ph, n) \intersect query.kept
           has == HasNextPage(ph, n)
           at    == [c.at EXCEPT ![ph] = n + 1]
           pages == [c.pages EXCEPT ![ph] = @ + 1]
           rows  == [c.rows EXCEPT ![ph] = @ \union new]
           more  == [c.more EXCEPT ![ph] = has]
           d == AfterPage(c, ph)
<1>1. d = [c EXCEPT !.at = at, !.pages = pages, !.rows = rows, !.more = more]
  BY CallFields DEF AfterPage
<1>2. n \in Pages /\ n + 1 \in Pages /\ new \subseteq Rows /\ has \in BOOLEAN
  BY CallFields DEF Pages, HasNextPage
<1> HIDE DEF n, new, has
<1>3. /\ at \in [PhraseSet -> Pages] /\ at[ph] = n + 1 /\ \A q \in PhraseSet \ {ph} : at[q] = c.at[q]
  BY <1>2, CallFields
<1>4. pages \in [PhraseSet -> Nat]  BY CallFields
<1>5. /\ rows \in [PhraseSet -> SUBSET Rows] /\ rows[ph] = c.rows[ph] \union new
      /\ \A q \in PhraseSet \ {ph} : rows[q] = c.rows[q]
  BY <1>2, CallFields
<1>6. /\ more \in [PhraseSet -> BOOLEAN] /\ more[ph] = has
      /\ \A q \in PhraseSet \ {ph} : more[q] = c.more[q]
  BY <1>2, CallFields
<1> HIDE DEF at, pages, rows, more, d
<1>7. /\ d \in Calls /\ d.owes = c.owes /\ d.todo = c.todo /\ d.first = c.first
      /\ d.at = at /\ d.rows = rows /\ d.more = more
  BY <1>1, <1>3, <1>4, <1>5, <1>6 DEF Calls
<1> QED  BY <1>3, <1>5, <1>6, <1>7 DEF d, n, new, has

\* A question asked anew goes on where the token says, and reads the other phrases from
\* their heads.
LEMMA Asking ==
    ASSUME ScanBounds, PhraseInv, Ask  PROVE  PhraseInv'
<1> USE DEF PhraseInv
<1>1. UNCHANGED <<found, query, token, events, owed, got, cut, slipped, closed>> /\ ~closed
  BY DEF Ask
<1>2. /\ PhraseSet \subseteq Phrases /\ query.kept \subseteq Rows /\ PhraseSet' = PhraseSet
      /\ query \in Questions /\ Rows \subseteq Nat
  BY <1>1, AskedPhrases DEF TypeInv, PhraseSet, ScanBounds
<1>3. ASSUME NEW ph \in PhraseSet
      PROVE  /\ OwedBy(ph) \subseteq Rows /\ PlaceOf(ph) \in Pages
             /\ OwedBy(ph) \subseteq query.kept /\ OwedBy(ph) \subseteq ToSet(found[ph]) \union slipped
             /\ Ended(ph) => OwedBy(ph) \subseteq Lost
             /\ ~Ended(ph) => ReadTo(found[ph], Base(PlaceOf(ph)), OwedBy(ph), Lost)
  <2>1. ph \in Phrases /\ found[ph] \in Seq(Rows)  BY <1>2 DEF TypeInv
  <2>2. Base(1) = 0 /\ 1 \in Pages /\ ReadTo(found[ph], 0, OwedBy(ph), Lost)
    BY <2>1, NothingRead DEF Base, Pages, ScanBounds
  <2>3. CASE Resumes /\ ph \in token.ended \union DOMAIN token.at
    <3>1. OwedBy(ph) = owed[ph] /\ token # NoToken /\ token.kept = query.kept
      BY <2>3 DEF OwedBy, Resumes
    <3>2. owed[ph] \subseteq Rows /\ owed[ph] \subseteq token.kept
          /\ owed[ph] \subseteq ToSet(found[ph]) \union slipped
      BY <2>1, <2>3, <3>1 DEF TypeInv, ReadInv, TokenInv
    <3>3. Ended(ph) => owed[ph] \subseteq Lost
      BY <2>1, <3>1 DEF Ended, ReadInv, TokenInv
    <3>4. PlaceOf(ph) \in Pages /\ ReadTo(found[ph], Base(PlaceOf(ph)), owed[ph], Lost)
      <4>1. CASE ph \in DOMAIN token.at
        BY <2>1, <2>3, <3>1, <4>1 DEF PlaceOf, TypeInv, ReadInv, TokenInv
      <4>2. CASE ph \notin DOMAIN token.at  BY <2>2, <3>1, <4>2 DEF PlaceOf
      <4> QED  BY <4>1, <4>2
    <3> QED  BY <3>1, <3>2, <3>3, <3>4
  <2>4. CASE ~(Resumes /\ ph \in token.ended \union DOMAIN token.at)
    <3>1. OwedBy(ph) = ToSet(found[ph]) \intersect query.kept /\ PlaceOf(ph) = 1 /\ ~Ended(ph)
      BY <2>4 DEF OwedBy, Listed, PlaceOf, Ended
    <3> QED  BY <1>2, <2>2, <3>1
  <2> QED  BY <2>3, <2>4
<1> DEFINE at   == [ph \in PhraseSet |-> IF Ended(ph) THEN 1 ELSE PlaceOf(ph)]
           more == [ph \in PhraseSet |-> ~Ended(ph)]
           rows == [ph \in PhraseSet |-> {}]
           owes == [ph \in PhraseSet |-> OwedBy(ph)]
           pages == [ph \in PhraseSet |-> 0]
           todo == {k \in DOMAIN query.phrases : ~Ended(query.phrases[k])}
<1>4. call' = [at |-> at, more |-> more, pages |-> pages, rows |-> rows, owes |-> owes,
               first |-> TRUE, todo |-> todo]
  BY DEF Ask
<1>5. /\ at \in [PhraseSet -> Pages] /\ more \in [PhraseSet -> BOOLEAN]
      /\ pages \in [PhraseSet -> Nat] /\ rows \in [PhraseSet -> SUBSET Rows]
      /\ owes \in [PhraseSet -> SUBSET Rows] /\ todo \subseteq DOMAIN query.phrases
  <2>1. 1 \in Pages  BY DEF Pages
  <2>2. \A ph \in PhraseSet : Ended(ph) \in BOOLEAN  BY DEF Ended, Resumes
  <2>3. at \in [PhraseSet -> Pages]  BY <1>3, <2>1
  <2>4. owes \in [PhraseSet -> SUBSET Rows]  BY <1>3
  <2>5. pages \in [PhraseSet -> Nat] /\ rows \in [PhraseSet -> SUBSET Rows]
        /\ more \in [PhraseSet -> BOOLEAN] /\ todo \subseteq DOMAIN query.phrases
    BY <2>2
  <2> QED  BY <2>3, <2>4, <2>5
<1> DEFINE c == [at |-> at, more |-> more, pages |-> pages, rows |-> rows, owes |-> owes,
                 first |-> TRUE, todo |-> todo]
<1>6. ASSUME NEW ph \in PhraseSet
      PROVE  /\ at[ph] = (IF Ended(ph) THEN 1 ELSE PlaceOf(ph)) /\ rows[ph] = {}
             /\ owes[ph] = OwedBy(ph) /\ (~more[ph] => Ended(ph))
  OBVIOUS
<1> HIDE DEF at, more, rows, owes, pages, todo
<1>7. c \in Calls  BY <1>5 DEF Calls
<1>8. ASSUME NEW ph \in PhraseSet  PROVE CallReads(c, ph)
  <2>1. found[ph] \in Seq(Rows)  BY <1>2 DEF TypeInv
  <2>2. ReadTo(found[ph], Base(at[ph]), owes[ph], Lost \union rows[ph])
    <3>1. CASE Ended(ph)
      <4>1. at[ph] = 1 /\ Base(1) = 0  BY <1>6, <3>1 DEF Base, ScanBounds
      <4> QED  BY <2>1, <4>1, NothingRead
    <3>2. CASE ~Ended(ph)
      <4>1. at[ph] = PlaceOf(ph) /\ owes[ph] = OwedBy(ph) /\ rows[ph] = {}  BY <1>6, <3>2
      <4>2. Lost \union {} = Lost  OBVIOUS
      <4> QED  BY <1>3, <3>2, <4>1, <4>2
    <3> QED  BY <3>1, <3>2
  <2> QED  BY <1>3, <1>6, <2>2 DEF CallReads
<1>9. call' = c  BY <1>4
<1> HIDE DEF c
<1>10. TypeInv'  BY <1>1, <1>2, <1>7, <1>9 DEF TypeInv, Calls, NewestFirst
<1>11. ReadInv'
  <2>1. \A ph \in PhraseSet : CallReads(call, ph)'
    BY <1>1, <1>8, <1>9 DEF CallReads, Lost, ReadTo, Base
  <2> QED  BY <1>1, <1>2, <2>1 DEF ReadInv, TokenInv, Lost, ReadTo, Base
<1> QED  BY <1>10, <1>11

LEMMA ReadingAPage ==
    ASSUME ScanBounds, PhraseInv, FetchNextPage
    PROVE  PhraseInv' /\ call # NoCall /\ call' # NoCall /\ call'.owes = call.owes
<1> USE DEF PhraseInv
<1>1. UNCHANGED <<found, query, token, events, owed, got, cut, slipped, closed>>
  BY DEF FetchNextPage
<1>2. /\ PhraseSet \subseteq Phrases /\ query.kept \subseteq Rows /\ PhraseSet' = PhraseSet
      /\ \A k \in DOMAIN query.phrases : query.phrases[k] \in PhraseSet
  BY <1>1, AskedPhrases DEF TypeInv, PhraseSet
<1>3. call # NoCall /\ call \in Calls /\ call.todo # {} /\ ~closed
  BY DEF FetchNextPage, TypeInv, ReadInv
<1> DEFINE k == Min(call.todo)
           ph == query.phrases[k]
           read == AfterPage(call, ph)
           rest == call.todo \ {k}
           todo == NextTodo(read, rest)
<1>4. k \in call.todo
  <2>1. call.todo \subseteq 1..Len(query.phrases) /\ 1..Len(query.phrases) \subseteq Nat
    BY <1>3, CallFields DEF TypeInv, ScanBounds
  <2> QED  BY <1>3, <2>1, LeastExists DEF Min
<1>5. ph \in PhraseSet  BY <1>2, <1>3, <1>4, CallFields
<1> HIDE DEF k, ph
<1>6. /\ read \in Calls /\ read.owes = call.owes /\ read.todo = call.todo
      /\ read.at[ph] = call.at[ph] + 1 /\ read.more[ph] = HasNextPage(ph, call.at[ph])
      /\ read.rows[ph] = call.rows[ph] \union (PageRows(ph, call.at[ph]) \intersect query.kept)
      /\ \A q \in PhraseSet \ {ph} :
            read.at[q] = call.at[q] /\ read.more[q] = call.more[q] /\ read.rows[q] = call.rows[q]
  BY <1>2, <1>3, <1>5, PageRead
<1> HIDE DEF read
<1>7. todo \subseteq DOMAIN query.phrases
  BY <1>3, CallFields DEF NextTodo, Alive
<1> HIDE DEF rest, todo
<1>8. call' = [read EXCEPT !.todo = todo, !.first = @ /\ todo = rest]
  BY DEF FetchNextPage, k, ph, read, rest, todo
<1>9. /\ call' \in Calls /\ call'.owes = call.owes /\ call'.at = read.at /\ call'.more = read.more
      /\ call'.rows = read.rows
  <2> DEFINE first == read.first /\ todo = rest
  <2>1. call' = [read EXCEPT !.todo = todo, !.first = first] /\ first \in BOOLEAN  BY <1>8
  <2> HIDE DEF first
  <2> QED  BY <1>6, <1>7, <2>1 DEF Calls
<1>10. ASSUME NEW q \in PhraseSet  PROVE CallReads(call, q)'
  <2>1. CallReads(call, q)  BY <1>3 DEF ReadInv
  <2>2. CASE q # ph
    <3>1. call'.at[q] = call.at[q] /\ call'.more[q] = call.more[q] /\ call'.rows[q] = call.rows[q]
          /\ call'.owes[q] = call.owes[q]
      BY <1>6, <1>9, <2>2
    <3> QED  BY <1>1, <2>1, <3>1 DEF CallReads, Lost, ReadTo, Base
  <2>3. CASE q = ph
    <3> DEFINE n == call.at[ph]
               b == Base(n)
               O == call.owes[ph]
               T == Lost \union call'.rows[ph]
               lst == found[ph]
    <3>1. n \in Nat \ {0} /\ b \in Nat /\ Base(n + 1) = b + PageSize /\ PageSize \in Nat
      BY <1>3, <1>5, NextBase, CallFields DEF Pages, ScanBounds
    <3>2. lst \in Seq(Rows) /\ O \subseteq query.kept /\ O \subseteq ToSet(lst) \union slipped
          /\ ReadTo(lst, b, O, Lost \union call.rows[ph])
      BY <1>2, <1>5, <2>1, <2>3 DEF TypeInv, CallReads
    <3>3. call'.rows[ph] = call.rows[ph] \union (Slice(lst, b, PageSize) \intersect query.kept)
          /\ call'.at[ph] = n + 1 /\ call'.more[ph] = (n * PageSize < Len(lst))
          /\ call'.owes[ph] = O
      BY <1>6, <1>9 DEF PageRows, HasNextPage, Base
    <3> HIDE DEF n, b, O, lst
    <3>4. ReadTo(lst, b + PageSize, O, T)
      <4>1. Lost \union call.rows[ph] \subseteq T /\ Slice(lst, b, PageSize) \intersect O \subseteq T
        BY <3>2, <3>3
      <4> HIDE DEF T
      <4> QED  BY <3>1, <3>2, <4>1, PageReads
    <3>5. ~call'.more[ph] => O \subseteq T
      <4> SUFFICES ASSUME ~call'.more[ph]  PROVE O \subseteq T
        OBVIOUS
      <4>1. Len(lst) <= b + PageSize
        <5>1. n * PageSize = b + PageSize
          <6>1. (n + 1) - 1 = n  BY <3>1
          <6> QED  BY <3>1, <6>1 DEF Base
        <5>2. ~ (b + PageSize < Len(lst))
          <6>1. ~ (n * PageSize < Len(lst))  BY <3>3
          <6> QED  BY <5>1, <6>1
        <5>3. Len(lst) \in Nat /\ b + PageSize \in Nat  BY <3>1, <3>2
        <5> QED  BY <5>2, <5>3
      <4>2. O \subseteq ToSet(lst) \union T  BY <3>2 DEF Lost
      <4> HIDE DEF T
      <4> QED  BY <3>1, <3>2, <3>4, <4>1, <4>2, EndReads
    <3>6. Base(call'.at[ph]) = b + PageSize  BY <3>1, <3>3
    <3>7. /\ call'.owes[ph] \subseteq query.kept /\ call'.owes[ph] \subseteq ToSet(found[ph]) \union slipped
          /\ ReadTo(found[ph], Base(call'.at[ph]), call'.owes[ph], Lost \union call'.rows[ph])
          /\ ~call'.more[ph] => call'.owes[ph] \subseteq Lost \union call'.rows[ph]
      BY <3>2, <3>3, <3>4, <3>5, <3>6 DEF lst
    <3> QED  BY <1>1, <2>3, <3>7 DEF CallReads, Lost, ReadTo, Base
  <2> QED  BY <2>2, <2>3
<1>11. TypeInv'  BY <1>1, <1>2, <1>9 DEF TypeInv, Calls, NewestFirst
<1>12. ReadInv'  BY <1>1, <1>2, <1>3, <1>10 DEF ReadInv, TokenInv, Lost, ReadTo, Base
<1>13. call' # NoCall
  <2>1. "todo" \in DOMAIN call'  BY <1>9 DEF Calls
  <2>2. "todo" \notin DOMAIN NoCall  BY DEF NoCall
  <2> QED  BY <2>1, <2>2
<1> QED  BY <1>3, <1>9, <1>11, <1>12, <1>13

LEMMA Failing ==
    ASSUME ScanBounds, PhraseInv, FetchFails
    PROVE  PhraseInv' /\ ~closed /\ UNCHANGED <<got, cut, slipped, closed>>
<1> USE DEF PhraseInv
<1>1. UNCHANGED <<found, query, token, owed, got, cut, slipped, closed>> /\ call' = NoCall
      /\ call # NoCall
  BY DEF FetchFails
<1>2. events' \in 0..Events  BY DEF FetchFails, TypeInv, ScanBounds
<1>3. TypeInv'  BY <1>1, <1>2 DEF TypeInv, Calls, NewestFirst
<1>4. ReadInv'  BY <1>1 DEF ReadInv, TokenInv, Lost, ReadTo, Base
<1> QED  BY <1>1, <1>3, <1>4 DEF ReadInv

\* An answer hands over what it collected or names what it cuts. The token it leaves says
\* what is read; without one, all that was owed is.
LEMMA Answering ==
    ASSUME ScanBounds, PhraseInv, Answer
    PROVE  /\ PhraseInv' /\ ~closed /\ got \subseteq got' /\ cut \subseteq cut' /\ slipped' = slipped
           /\ Owed' = Owed /\ (closed' => Owed \subseteq got' \union (cut' \union slipped'))
<1> USE DEF PhraseInv
<1> DEFINE hasMore == \E ph \in PhraseSet : call.more[ph]
<1>1. /\ call # NoCall /\ call \in Calls /\ ~closed /\ \A ph \in PhraseSet : CallReads(call, ph)
  BY DEF Answer, TypeInv, ReadInv
<1>2. /\ PhraseSet \subseteq Phrases /\ query.kept \subseteq Rows /\ PhraseSet' = PhraseSet
  BY AskedPhrases DEF Answer, TypeInv, PhraseSet
<1>3. /\ got' = got \union Hits(call) /\ cut' = cut \union (Unique(call) \ Hits(call))
      /\ token' = (IF hasMore THEN TokenOf(call) ELSE NoToken) /\ closed' = ~hasMore
      /\ owed' = [ph \in Phrases |-> IF ph \in PhraseSet THEN call.owes[ph] ELSE owed[ph]]
      /\ call' = NoCall /\ UNCHANGED <<found, query, events, slipped>>
  BY DEF Answer
<1>4. Hits(call) \subseteq Unique(call) /\ Unique(call) \subseteq Rows
      /\ \A ph \in PhraseSet : call.rows[ph] \subseteq Unique(call)
  BY <1>1, CallFields DEF Hits, Unique
<1>5. got \subseteq got' /\ cut \subseteq cut' /\ got' \subseteq Rows /\ cut' \subseteq Rows
      /\ Lost \union Unique(call) \subseteq Lost'
  BY <1>3, <1>4 DEF TypeInv, Lost
<1>6. /\ owed' \in [Phrases -> SUBSET Rows]
      /\ \A ph \in PhraseSet : owed'[ph] = call.owes[ph]
      /\ \A ph \in Phrases \ PhraseSet : owed'[ph] = owed[ph]
  BY <1>1, <1>2, <1>3, CallFields DEF TypeInv
<1>7. ASSUME NEW ph \in PhraseSet
      PROVE  /\ owed'[ph] \subseteq query.kept /\ owed'[ph] \subseteq ToSet(found[ph]) \union slipped
             /\ ReadTo(found[ph], Base(call.at[ph]), owed'[ph], Lost')
             /\ ~call.more[ph] => owed'[ph] \subseteq Lost'
  <2>1. CallReads(call, ph) /\ owed'[ph] = call.owes[ph]  BY <1>1, <1>6
  <2>2. Lost \union call.rows[ph] \subseteq Lost'  BY <1>4, <1>5
  <2> QED  BY <2>1, <2>2, ReadsMore DEF CallReads
<1>8. \A ph \in Phrases : owed'[ph] \subseteq ToSet(found[ph]) \union slipped
  BY <1>6, <1>7 DEF ReadInv
<1>9. Owed' = Owed
  <2>1. Owed = UNION {call.owes[ph] : ph \in PhraseSet}  BY <1>1 DEF Owed
  <2>2. Owed' = UNION {owed'[ph] : ph \in PhraseSet}  BY <1>2, <1>3 DEF Owed
  <2> QED  BY <1>6, <2>1, <2>2
<1>10. closed' => Owed \subseteq got' \union (cut' \union slipped')
  <2> SUFFICES ASSUME ~hasMore  PROVE Owed' \subseteq got' \union (cut' \union slipped')
    BY <1>3, <1>9
  <2>1. \A ph \in PhraseSet : owed'[ph] \subseteq Lost'  BY <1>7
  <2>2. Owed' = UNION {owed'[ph] : ph \in PhraseSet}  BY <1>2, <1>3 DEF Owed
  <2>3. Owed' \subseteq Lost'  BY <2>1, <2>2
  <2> QED  BY <2>3 DEF Lost
<1>11. /\ token' # NoToken =>
             /\ DOMAIN token'.at \subseteq Phrases /\ DOMAIN token'.at # {} /\ token'.ended \subseteq Phrases
             /\ \A ph \in DOMAIN token'.at : token'.at[ph] \in Pages
       /\ TokenInv'
  <2>1. CASE hasMore
    <3>1. token' = TokenOf(call)  BY <1>3, <2>1
    <3>2. /\ DOMAIN token'.at = {ph \in PhraseSet : call.more[ph]}
          /\ \A ph \in DOMAIN token'.at : token'.at[ph] = call.at[ph]
          /\ token'.ended = {ph \in PhraseSet : ~call.more[ph]} /\ token'.kept = query.kept
      BY <3>1 DEF TokenOf
    <3>3. \A ph \in PhraseSet : call.at[ph] \in Pages  BY <1>1, CallFields
    <3>4. /\ DOMAIN token'.at \subseteq Phrases /\ DOMAIN token'.at # {} /\ token'.ended \subseteq Phrases
          /\ \A ph \in DOMAIN token'.at : token'.at[ph] \in Pages
      BY <1>2, <2>1, <3>2, <3>3
    <3>5. ASSUME NEW ph \in Phrases
          PROVE  /\ ph \in token'.ended => owed'[ph] \subseteq Lost'
                 /\ ph \in DOMAIN token'.at =>
                       ReadTo(found[ph], Base(token'.at[ph]), owed'[ph], Lost')
                 /\ ph \in token'.ended \union DOMAIN token'.at => owed'[ph] \subseteq token'.kept
      BY <1>7, <3>2
    <3>6. TokenInv'  BY <1>3, <3>5 DEF TokenInv, ReadTo, Base
    <3> QED  BY <3>4, <3>6
  <2>2. CASE ~hasMore
    <3>1. token' = NoToken  BY <1>3, <2>2
    <3> QED  BY <3>1 DEF TokenInv, NoToken
  <2> QED  BY <2>1, <2>2
<1>12. TypeInv'
  <2>1. closed' \in BOOLEAN /\ call' = NoCall /\ UNCHANGED <<found, query, events, slipped>>  BY <1>3
  <2> QED  BY <1>5, <1>6, <1>11, <2>1 DEF TypeInv, NewestFirst
<1>13. ReadInv'  BY <1>3, <1>8, <1>11 DEF ReadInv
<1> QED  BY <1>1, <1>3, <1>5, <1>9, <1>10, <1>12, <1>13

\* A row posted moves the others down: what was read stays read.
LEMMA Posting ==
    ASSUME ScanBounds, PhraseInv, NEW r \in Rows, NEW phs \in SUBSET Phrases, Post(r, phs)
    PROVE  PhraseInv'
<1> USE DEF PhraseInv
<1>1. UNCHANGED <<query, token, call, owed, got, cut, slipped, closed>>  BY DEF Post
<1>2. found' = [ph \in Phrases |-> IF ph \in phs THEN <<r>> \o found[ph] ELSE found[ph]]
  BY DEF Post
<1>3. Rows \subseteq Nat /\ PhraseSet \subseteq Phrases /\ PhraseSet' = PhraseSet
  BY <1>1, AskedPhrases DEF ScanBounds, TypeInv, PhraseSet
<1>4. ASSUME NEW ph \in Phrases
      PROVE  /\ found'[ph] \in Seq(Rows) /\ NewestFirst(found'[ph])
             /\ ToSet(found[ph]) \subseteq ToSet(found'[ph]) /\ r \notin ToSet(found[ph])
             /\ \A n \in Nat, O, R \in SUBSET Rows :
                   ReadTo(found[ph], n, O, R) /\ (r \in O => r \in R) => ReadTo(found'[ph], n, O, R)
  <2>1. found[ph] \in Seq(Rows) /\ NewestFirst(found[ph])  BY DEF TypeInv
  <2>2. r \notin ToSet(found[ph]) /\ \A s \in ToSet(found[ph]) : s < r  BY DEF Post
  <2>3. CASE ph \notin phs
    <3>1. found'[ph] = found[ph]  BY <1>2, <2>3
    <3> QED  BY <2>1, <2>2, <3>1
  <2>4. CASE ph \in phs
    <3> DEFINE old == found[ph]
               new == <<r>> \o found[ph]
    <3>1. found'[ph] = new  BY <1>2, <2>4
    <3>2. /\ new \in Seq(Rows) /\ Len(new) = Len(old) + 1
          /\ \A i \in 1..Len(old) + 1 : new[i] = IF i = 1 THEN r ELSE old[i - 1]
      BY <2>1, Heading
    <3>3. \A n \in Nat, O, R \in SUBSET Rows :
             ReadTo(old, n, O, R) /\ (r \in O => r \in R) => ReadTo(new, n, O, R)
      BY <2>1, HeadingReads
    <3>6. old \in Seq(Rows) /\ NewestFirst(old)  BY <2>1
    <3> HIDE DEF old, new
    <3>4. ToSet(old) \subseteq ToSet(new)
      <4> SUFFICES ASSUME NEW i \in DOMAIN old  PROVE old[i] \in ToSet(new)
        BY DEF ToSet
      <4>1. i + 1 \in DOMAIN new /\ new[i + 1] = old[i]
        <5>1. i + 1 \in 1..Len(old) + 1 /\ i + 1 # 1 /\ (i + 1) - 1 = i  BY <3>6
        <5> QED  BY <3>2, <5>1
      <4> QED  BY <4>1 DEF ToSet
    <3>5. NewestFirst(new)
      <4> SUFFICES ASSUME NEW i \in DOMAIN new, NEW j \in DOMAIN new, i < j
                   PROVE  new[i] > new[j]
        BY DEF NewestFirst
      <4>1. i \in 1..Len(old) + 1 /\ j \in 1..Len(old) + 1 /\ j # 1 /\ j - 1 \in DOMAIN old
        BY <2>1, <3>2 DEF old
      <4> DEFINE z == old[j - 1]
      <4>2. z \in Rows /\ z \in ToSet(old)  BY <2>1, <4>1 DEF old, ToSet
      <4> HIDE DEF z
      <4>3. new[j] = z  BY <3>2, <4>1 DEF z
      <4>4. CASE i = 1
        <5>1. new[i] = r /\ r \in Nat /\ z \in Nat /\ z < r  BY <1>3, <2>2, <3>2, <4>1, <4>2, <4>4 DEF old
        <5> QED  BY <4>3, <5>1
      <4>5. CASE i # 1
        <5>1. i - 1 \in DOMAIN old /\ i - 1 < j - 1 /\ new[i] = old[i - 1]
          BY <2>1, <3>2, <4>1, <4>5 DEF old
        <5> QED  BY <2>1, <4>1, <4>3, <5>1 DEF NewestFirst, old, z
      <4> QED  BY <4>4, <4>5
    <3> QED  BY <2>2, <3>1, <3>2, <3>3, <3>4, <3>5 DEF old
  <2> QED  BY <2>3, <2>4
<1>5. Lost \subseteq Rows  BY DEF TypeInv, Lost
<1>6. TypeInv'
  <2>1. events' \in 0..Events  BY DEF Post, TypeInv, ScanBounds
  <2>2. found' \in [Phrases -> Seq(Rows)]  BY <1>2, <1>4
  <2> QED  BY <1>1, <1>3, <1>4, <2>1, <2>2 DEF TypeInv, Calls, NewestFirst
<1>7. \A ph \in Phrases : owed[ph] \subseteq ToSet(found'[ph]) \union slipped
  BY <1>4 DEF ReadInv
<1>8. ASSUME token # NoToken, NEW ph \in Phrases, ph \in DOMAIN token.at
      PROVE  ReadTo(found'[ph], Base(token.at[ph]), owed[ph], Lost)
  <2>1. Base(token.at[ph]) \in Nat /\ owed[ph] \in SUBSET Rows
    BY <1>8, NextBase DEF TypeInv, Pages
  <2>2. ReadTo(found[ph], Base(token.at[ph]), owed[ph], Lost)
    BY <1>8 DEF ReadInv, TokenInv
  <2>3. r \in owed[ph] => r \in Lost  BY <1>4 DEF ReadInv, Lost
  <2> QED  BY <1>4, <1>5, <2>1, <2>2, <2>3
<1>9. TokenInv'
  BY <1>1, <1>8 DEF ReadInv, TokenInv, Lost, ReadTo, Base
<1>10. ASSUME call # NoCall, NEW ph \in PhraseSet  PROVE CallReads(call, ph)'
  <2>1. CallReads(call, ph) /\ call \in Calls /\ ph \in Phrases
    BY <1>3, <1>10 DEF ReadInv, TypeInv
  <2>2. Base(call.at[ph]) \in Nat /\ call.owes[ph] \in SUBSET Rows
        /\ Lost \union call.rows[ph] \in SUBSET Rows
    BY <1>5, <2>1, CallFields, NextBase DEF Pages
  <2>3. r \in call.owes[ph] => r \in Lost \union call.rows[ph]
    BY <1>4, <2>1 DEF CallReads, Lost
  <2>4. ReadTo(found'[ph], Base(call.at[ph]), call.owes[ph], Lost \union call.rows[ph])
    BY <1>4, <2>1, <2>2, <2>3 DEF CallReads
  <2>5. call.owes[ph] \subseteq ToSet(found'[ph]) \union slipped  BY <1>4, <2>1 DEF CallReads
  <2> QED  BY <1>1, <2>1, <2>4, <2>5 DEF CallReads, Lost, ReadTo, Base
<1>11. ReadInv'  BY <1>1, <1>3, <1>7, <1>9, <1>10 DEF ReadInv
<1> QED  BY <1>6, <1>11

\* A withdrawn row is slipped, and so is each row that moves up to a page the token or the
\* call is past.
LEMMA Withdrawing ==
    ASSUME ScanBounds, PhraseInv, NEW r \in Rows, Withdraw(r)
    PROVE  PhraseInv' /\ slipped \subseteq slipped' /\ UNCHANGED <<query, call, owed, got, cut, closed>>
<1> USE DEF PhraseInv
<1>1. UNCHANGED <<query, token, call, owed, got, cut, closed>>  BY DEF Withdraw
<1>2. /\ found' = [ph \in Phrases |-> RemoveFirst(found[ph], r)]
      /\ slipped' = slipped \union {r} \union UNION {Slips(ph, r) : ph \in Phrases}
  BY DEF Withdraw
<1>3. Rows \subseteq Nat /\ PhraseSet \subseteq Phrases /\ PhraseSet' = PhraseSet
  BY <1>1, AskedPhrases DEF ScanBounds, TypeInv, PhraseSet
<1>4. ASSUME NEW ph \in Phrases, NEW p \in NextPages(ph)  PROVE p \in Pages
  <2>1. PICK d \in {token, call} : ph \in DOMAIN d.at /\ p = d.at[ph]  BY <1>4 DEF NextPages
  <2>2. CASE d = token
    <3>1. token # NoToken
      <4>1. DOMAIN NoToken.at = {}  BY DEF NoToken
      <4> QED  BY <2>1, <2>2, <4>1
    <3> QED  BY <2>1, <2>2, <3>1 DEF TypeInv
  <2>3. CASE d = call
    <3>1. call # NoCall
      <4>1. DOMAIN NoCall.at = {}  BY DEF NoCall
      <4> QED  BY <2>1, <2>3, <4>1
    <3>2. call.at \in [PhraseSet -> Pages]  BY <3>1, CallFields DEF TypeInv
    <3> QED  BY <2>1, <2>3, <3>2
  <2> QED  BY <2>1, <2>2, <2>3
<1>5. slipped \subseteq slipped' /\ slipped' \subseteq Rows /\ r \in slipped'
  <2>1. ASSUME NEW ph \in Phrases  PROVE Slips(ph, r) \subseteq Rows
    <3> SUFFICES ASSUME NEW n \in NextPages(ph), (n - 1) * PageSize < Len(found[ph])
                 PROVE  found[ph][(n - 1) * PageSize + 1] \in Rows
      BY DEF Slips
    <3>1. Base(n) \in Nat  BY <1>4, NextBase DEF Pages
    <3>2. found[ph] \in Seq(Rows)  BY DEF TypeInv
    <3>3. Base(n) < Len(found[ph])  BY DEF Base
    <3>4. Base(n) + 1 \in DOMAIN found[ph]  BY <3>1, <3>2, <3>3
    <3> QED  BY <3>2, <3>4 DEF Base
  <2> QED  BY <1>2, <2>1 DEF TypeInv
<1>6. ASSUME NEW ph \in Phrases
      PROVE  /\ found'[ph] \in Seq(Rows) /\ NewestFirst(found'[ph])
             /\ ToSet(found[ph]) \subseteq ToSet(found'[ph]) \union slipped'
             /\ \A p \in NextPages(ph), O, R, T \in SUBSET Rows :
                   ReadTo(found[ph], Base(p), O, R) /\ R \subseteq T /\ slipped' \subseteq T
                     => ReadTo(found'[ph], Base(p), O, T)
  <2> DEFINE old == found[ph]
             new == RemoveFirst(old, r)
  <2>1. found'[ph] = new  BY <1>2
  <2>2. old \in Seq(Rows) /\ NewestFirst(old)  BY DEF TypeInv
  <2>3. CASE r \notin ToSet(old)
    <3>1. new = old
      <4>1. ~ \E i \in 1..Len(old) : old[i] = r  BY <2>2, <2>3 DEF ToSet
      <4> QED  BY <4>1 DEF RemoveFirst
    <3>2. \A n, O, R, T : ReadTo(old, n, O, R) /\ R \subseteq T => ReadTo(old, n, O, T)
      BY ReadsMore
    <3> HIDE DEF new, old
    <3>3. found'[ph] = found[ph]  BY <2>1, <3>1 DEF old
    <3> QED  BY <2>2, <3>2, <3>3 DEF old
  <2>4. CASE r \in ToSet(old)
    <3>1. PICK k \in DOMAIN old : old[k] = r  BY <2>4 DEF ToSet
    <3>2. new = RemoveAt(old, k)  BY <1>3, <2>2, <3>1, RemovalOfARow
    <3>3. /\ new \in Seq(Rows) /\ Len(new) = Len(old) - 1
          /\ \A i \in 1..Len(old) - 1 : new[i] = IF i < k THEN old[i] ELSE old[i + 1]
      BY <2>2, <3>2, Removal
    <3> HIDE DEF new
    <3>4. NewestFirst(new)
      <4> SUFFICES ASSUME NEW i \in DOMAIN new, NEW j \in DOMAIN new, i < j
                   PROVE  new[i] > new[j]
        BY DEF NewestFirst
      <4> DEFINE x == IF i < k THEN i ELSE i + 1
                 y == IF j < k THEN j ELSE j + 1
      <4>1. x \in DOMAIN old /\ y \in DOMAIN old /\ x < y
            /\ i \in 1..Len(old) - 1 /\ j \in 1..Len(old) - 1
        BY <2>2, <3>3
      <4>2. new[i] = old[x] /\ new[j] = old[y]  BY <3>3, <4>1
      <4> HIDE DEF x, y
      <4> QED  BY <2>2, <4>1, <4>2 DEF NewestFirst
    <3>5. ToSet(old) \subseteq ToSet(new) \union slipped'
      <4> SUFFICES ASSUME NEW i \in DOMAIN old  PROVE old[i] \in ToSet(new) \union slipped'
        BY DEF ToSet
      <4>1. CASE i = k  BY <1>5, <3>1, <4>1
      <4>2. CASE i < k
        <5>1. i \in DOMAIN new /\ new[i] = old[i]  BY <2>2, <3>3, <4>2
        <5> QED  BY <5>1 DEF ToSet
      <4>3. CASE i > k
        <5>1. i - 1 \in DOMAIN new /\ i - 1 \in 1..Len(old) - 1 /\ ~ i - 1 < k /\ (i - 1) + 1 = i
          BY <2>2, <3>3, <4>3
        <5>2. new[i - 1] = old[i]  BY <3>3, <5>1
        <5> QED  BY <5>1, <5>2 DEF ToSet
      <4> QED  BY <2>2, <4>1, <4>2, <4>3
    <3>6. ASSUME NEW p \in NextPages(ph), NEW O \in SUBSET Rows, NEW R \in SUBSET Rows,
                 NEW T \in SUBSET Rows, ReadTo(old, Base(p), O, R), R \subseteq T, slipped' \subseteq T
          PROVE  ReadTo(new, Base(p), O, T)
      <4> DEFINE n == Base(p)
      <4>1. n \in Nat /\ n = (p - 1) * PageSize  BY <1>4, NextBase DEF Pages, Base
      <4> HIDE DEF n
      <4>2. k <= n /\ n + 1 \in DOMAIN old => old[n + 1] \in T
        <5> SUFFICES ASSUME k <= n, n + 1 \in DOMAIN old  PROVE old[n + 1] \in slipped'
          BY <3>6
        <5>1. n < Len(old)  BY <2>2, <4>1
        <5>2. r \in Slice(old, 0, n)
          <6>1. 0 < k /\ k <= 0 + n  BY <2>2, <3>1, <4>1
          <6> QED  BY <3>1, <6>1 DEF Slice
        <5>3. old[n + 1] \in Slips(ph, r)  BY <3>6, <4>1, <5>1, <5>2 DEF Slips
        <5> QED  BY <1>2, <5>3
      <4>3. ReadTo(RemoveAt(old, k), n, O, T)
        <5>1. ReadTo(old, n, O, R)  BY <3>6 DEF n
        <5> HIDE DEF old
        <5> QED  BY <2>2, <3>1, <3>6, <4>1, <4>2, <5>1, RemovalReads
      <4> QED  BY <3>2, <4>3 DEF n
    <3> QED  BY <2>1, <3>3, <3>4, <3>5, <3>6
  <2> QED  BY <2>3, <2>4
<1>7. Lost \subseteq Lost' /\ Lost' \subseteq Rows /\ slipped' \subseteq Lost' /\ Lost \subseteq Rows
  BY <1>1, <1>5 DEF TypeInv, Lost
<1>8. TypeInv'
  <2>1. events' \in 0..Events  BY DEF Withdraw, TypeInv, ScanBounds
  <2>2. found' \in [Phrases -> Seq(Rows)]  BY <1>2, <1>6
  <2> QED  BY <1>1, <1>3, <1>5, <1>6, <2>1, <2>2 DEF TypeInv, Calls, NewestFirst
<1>9. \A ph \in Phrases : owed[ph] \subseteq ToSet(found'[ph]) \union slipped'
  BY <1>5, <1>6 DEF ReadInv
<1>10. ASSUME token # NoToken, NEW ph \in Phrases
       PROVE  /\ ph \in token.ended => owed[ph] \subseteq Lost'
              /\ ph \in DOMAIN token.at => ReadTo(found'[ph], Base(token.at[ph]), owed[ph], Lost')
              /\ ph \in token.ended \union DOMAIN token.at => owed[ph] \subseteq token.kept
  <2>1. /\ ph \in token.ended => owed[ph] \subseteq Lost
        /\ ph \in DOMAIN token.at => ReadTo(found[ph], Base(token.at[ph]), owed[ph], Lost)
        /\ ph \in token.ended \union DOMAIN token.at => owed[ph] \subseteq token.kept
        /\ owed[ph] \in SUBSET Rows
    BY <1>10 DEF ReadInv, TokenInv, TypeInv
  <2>2. ph \in DOMAIN token.at => token.at[ph] \in NextPages(ph)  BY DEF NextPages
  <2> QED  BY <1>6, <1>7, <2>1, <2>2
<1>11. TokenInv'
  BY <1>1, <1>10 DEF TokenInv, ReadTo, Base
<1>12. ASSUME call # NoCall, NEW ph \in PhraseSet  PROVE CallReads(call, ph)'
  <2>1. CallReads(call, ph) /\ call \in Calls /\ ph \in Phrases
    BY <1>3, <1>12 DEF ReadInv, TypeInv
  <2>2. call.at[ph] \in NextPages(ph)
    <3>1. ph \in DOMAIN call.at  BY <2>1, CallFields
    <3> QED  BY <3>1 DEF NextPages
  <2>3. call.owes[ph] \in SUBSET Rows /\ Lost \union call.rows[ph] \in SUBSET Rows
        /\ Lost' \union call.rows[ph] \in SUBSET Rows
    BY <1>7, <2>1, CallFields
  <2>4. ReadTo(found'[ph], Base(call.at[ph]), call.owes[ph], Lost' \union call.rows[ph])
    <3> DEFINE R == Lost \union call.rows[ph]
               T == Lost' \union call.rows[ph]
    <3>1. ReadTo(found[ph], Base(call.at[ph]), call.owes[ph], R)  BY <2>1 DEF CallReads
    <3>2. R \subseteq T /\ slipped' \subseteq T /\ R \in SUBSET Rows /\ T \in SUBSET Rows  BY <1>7, <2>3
    <3> HIDE DEF R, T
    <3>3. ReadTo(found'[ph], Base(call.at[ph]), call.owes[ph], T)  BY <1>6, <2>1, <2>2, <2>3, <3>1, <3>2
    <3> QED  BY <3>3 DEF T
  <2>5. call.owes[ph] \subseteq ToSet(found'[ph]) \union slipped'
    BY <1>5, <1>6, <2>1 DEF CallReads
  <2> QED  BY <1>1, <1>7, <2>1, <2>4, <2>5 DEF CallReads, Lost, ReadTo, Base
<1>13. ReadInv'  BY <1>1, <1>3, <1>9, <1>11, <1>12 DEF ReadInv
<1> QED  BY <1>1, <1>5, <1>8, <1>13

LEMMA Editing ==
    ASSUME ScanBounds, PhraseInv, NEW q \in Questions, Edit(q)
    PROVE  PhraseInv' /\ ~closed /\ UNCHANGED <<got, cut, slipped, closed>>
<1> USE DEF PhraseInv
<1>1. UNCHANGED <<found, token, call, owed, got, cut, slipped, closed>> /\ call = NoCall
      /\ ~closed /\ query' \in Questions
  BY DEF Edit
<1>2. events' \in 0..Events  BY DEF Edit, TypeInv, ScanBounds
<1> QED  BY <1>1, <1>2 DEF TypeInv, NewestFirst, ReadInv, TokenInv, Lost, ReadTo, Base

----------------------------------------------------------------------------
LEMMA PhraseInitially ==
    ASSUME ScanBounds, Init  PROVE  PhraseInv
<1>1. found \in [Phrases -> Seq(Rows)] /\ \A ph \in Phrases : NewestFirst(found[ph])
  BY DEF Init, ScanBounds
<1>2. 0 \in 0..Events  BY DEF ScanBounds
<1>3. TypeInv  BY <1>1, <1>2 DEF Init, TypeInv
<1> QED  BY <1>3 DEF Init, PhraseInv, ReadInv, TokenInv

LEMMA PhraseStep ==
    ASSUME ScanBounds, PhraseInv, [Next]_vars  PROVE  PhraseInv'
<1>1. CASE Ask            BY <1>1, Asking
<1>2. CASE FetchNextPage  BY <1>2, ReadingAPage
<1>3. CASE Answer         BY <1>3, Answering
<1>4. CASE FetchFails     BY <1>4, Failing
<1>5. ASSUME NEW r \in Rows, NEW phs \in SUBSET Phrases, Post(r, phs)  PROVE PhraseInv'
  BY <1>5, Posting
<1>6. ASSUME NEW r \in Rows, Withdraw(r)  PROVE PhraseInv'
  BY <1>6, Withdrawing
<1>7. ASSUME NEW q \in Questions, Edit(q)  PROVE PhraseInv'
  BY <1>7, Editing
<1>8. CASE UNCHANGED vars
  <2>1. PhraseSet' = PhraseSet  BY <1>8 DEF vars, PhraseSet
  <2> QED  BY <1>8, <2>1 DEF vars, PhraseInv, TypeInv, Calls, ReadInv, TokenInv, CallReads, Lost,
              ReadTo, Base, NewestFirst
<1> QED  BY <1>1, <1>2, <1>3, <1>4, <1>5, <1>6, <1>7, <1>8 DEF Next, Reading, Disturbance

\* The goszakupki.by search is where its token says: of every phrase, what stands above the
\* page it reads next was handed over, collected, or lost by name.
THEOREM PhraseInduction == ScanBounds => (Spec => []PhraseInv)
<1> SUFFICES ASSUME ScanBounds  PROVE Spec => []PhraseInv
  OBVIOUS
<1>1. Init => PhraseInv  BY PhraseInitially
<1>2. PhraseInv /\ [Next]_vars => PhraseInv'  BY PhraseStep
<1> QED  BY <1>1, <1>2, PTL DEF Spec

LEMMA PhraseTyped ==
    ASSUME PhraseInv  PROVE TypeOK
BY DEF PhraseInv, TypeInv, TypeOK, NoToken

\* The types of the goszakupki.by search.
THEOREM PhraseTypes == ScanBounds => (Spec => []TypeOK)
<1> SUFFICES ASSUME ScanBounds  PROVE Spec => []TypeOK
  OBVIOUS
<1>1. PhraseInv => TypeOK  BY PhraseTyped
<1> QED  BY <1>1, PhraseInduction, PTL

LEMMA OwedRows ==
    ASSUME ScanBounds, PhraseInv  PROVE Owed \subseteq Rows
<1>1. PhraseSet \subseteq Phrases  BY AskedPhrases DEF PhraseInv, TypeInv
<1>2. CASE call = NoCall  BY <1>1, <1>2 DEF Owed, PhraseInv, TypeInv
<1>3. CASE call # NoCall
  <2>1. \A ph \in PhraseSet : call.owes[ph] \subseteq Rows
    BY <1>3, CallFields DEF PhraseInv, TypeInv
  <2> QED  BY <1>3, <2>1 DEF Owed
<1> QED  BY <1>2, <1>3

\* A step of the search is a step of the reading it implements, or none.
LEMMA PhraseReads ==
    ASSUME ScanBounds, PhraseInv, [Next]_vars, Owed' \subseteq Rows
    PROVE  [Abstract!Next]_(Abstract!vars)
<1> USE DEF Abstract!Next, Abstract!vars
<1>0. PhraseInv' /\ Owed' \subseteq Rows /\ cut' \union slipped' \subseteq Rows /\ got' \subseteq Rows
  <2>1. PhraseInv'  BY PhraseStep
  <2> QED  BY <2>1 DEF PhraseInv, TypeInv
<1>1. CASE Ask
  <2>1. closed' = FALSE /\ UNCHANGED <<got, cut, slipped>>
    BY <1>1 DEF Ask, PhraseInv, TypeInv
  <2>2. Abstract!Reask  BY <1>0, <2>1 DEF Abstract!Reask
  <2> QED  BY <2>2
<1>2. CASE FetchNextPage
  <2>1. UNCHANGED <<query, owed, got, cut, slipped, closed>>  BY <1>2 DEF FetchNextPage
  <2>2. call # NoCall /\ call' # NoCall /\ call'.owes = call.owes  BY <1>2, ReadingAPage
  <2>3. Owed' = Owed  BY <2>1, <2>2 DEF Owed, PhraseSet
  <2> QED  BY <2>1, <2>3
<1>3. CASE Answer
  <2>1. /\ ~closed /\ got \subseteq got' /\ cut \subseteq cut' /\ slipped' = slipped
        /\ Owed' = Owed /\ (closed' => Owed \subseteq got' \union (cut' \union slipped'))
    BY <1>3, Answering
  <2>2. Abstract!Answer  BY <1>0, <2>1 DEF PhraseInv, TypeInv, Abstract!Answer
  <2> QED  BY <2>2
<1>4. CASE FetchFails
  <2>1. Abstract!Reask  BY <1>0, <1>4, Failing DEF PhraseInv, TypeInv, Abstract!Reask
  <2> QED  BY <2>1
<1>5. ASSUME NEW r \in Rows, NEW phs \in SUBSET Phrases, Post(r, phs)  PROVE UNCHANGED Abstract!vars
  BY <1>5 DEF Post, Owed, PhraseSet
<1>6. ASSUME NEW r \in Rows, Withdraw(r)  PROVE Abstract!Slip
  <2>1. slipped \subseteq slipped' /\ UNCHANGED <<query, call, owed, got, cut, closed>>
    BY <1>6, Withdrawing
  <2>2. Owed' = Owed  BY <2>1 DEF Owed, PhraseSet
  <2> QED  BY <1>0, <2>1, <2>2 DEF Abstract!Slip
<1>7. ASSUME NEW q \in Questions, Edit(q)  PROVE Abstract!Reask
  BY <1>0, <1>7, Editing DEF PhraseInv, TypeInv, Abstract!Reask
<1>8. CASE UNCHANGED vars  BY <1>8 DEF vars, Owed, PhraseSet
<1> QED  BY <1>1, <1>2, <1>3, <1>4, <1>5, <1>6, <1>7, <1>8 DEF Next, Reading, Disturbance

\* The goszakupki.by search implements the reading of module WindowRead: it says that
\* nothing more follows only when every row it owed was handed over, but for those cut
\* from a full answer, and those a withdrawal moved to a page that was read.
THEOREM PhraseWindowIsRead == ScanBounds => (Spec => WindowIsRead)
<1> SUFFICES ASSUME ScanBounds  PROVE Spec => WindowIsRead
  OBVIOUS
<1>1. PhraseInv => Owed \subseteq Rows  BY OwedRows
<1>2. Init => Abstract!Init
  <2> SUFFICES ASSUME Init  PROVE Abstract!Init
    OBVIOUS
  <2>1. Owed \subseteq Rows  BY <1>1, PhraseInitially
  <2> QED  BY <2>1 DEF Init, Abstract!Init
<1>3. PhraseInv /\ [Next]_vars /\ (Owed \subseteq Rows)' => [Abstract!Next]_(Abstract!vars)
  BY PhraseReads
<1> QED  BY <1>1, <1>2, <1>3, PhraseInduction, PTL DEF Spec, WindowIsRead, Abstract!Spec

=============================================================================
