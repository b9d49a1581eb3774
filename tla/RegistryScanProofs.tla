------------------------- MODULE RegistryScanProofs -------------------------
\* What holds of the plain registry scan (module RegistryScan) for every size of
\* page and answer, every depth and every registry: the scan implements the
\* reading of module WindowRead, and its cursor moves down or stays.
EXTENDS RegistryScan, TLAPS, SequenceTheorems

\* The places a scan is past when it reads page p next.
Base(p) == (p - 1) * PageSize

LEMMA NextBase ==
    ASSUME RegistryBounds, NEW p \in Nat \ {0}
    PROVE  Base(p) \in Nat /\ Base(p + 1) = Base(p) + PageSize
<1>1. PageSize \in Nat \ {0} /\ p - 1 \in Nat  BY DEF RegistryBounds
<1>2. \A k \in Nat : k * PageSize \in Nat /\ (k + 1) * PageSize = k * PageSize + PageSize  BY <1>1
<1>3. (p + 1) - 1 = (p - 1) + 1  OBVIOUS
<1> QED  BY <1>1, <1>2, <1>3 DEF Base

LEMMA LeastIsMin ==
    ASSUME NEW S \in SUBSET Nat, NEW z \in S, \A y \in S : z <= y
    PROVE  Min(S) = z
<1>1. Min(S) \in S /\ \A y \in S : Min(S) <= y  BY DEF Min
<1> DEFINE m == Min(S)
<1> HIDE DEF m
<1>2. m \in S /\ m <= z /\ z <= m  BY <1>1 DEF m
<1>3. m \in Nat /\ z \in Nat  BY <1>2
<1>4. m = z  BY <1>2, <1>3
<1> QED  BY <1>4 DEF m

\* What page p of the table holds: the rows of the PageSize places below its base. When it
\* holds any, the last of them is its oldest, and newer than all that stands below.
LEMMA PageFacts ==
    ASSUME RegistryBounds, registry \in Seq(Rows), NewestFirst(registry), NEW p \in Nat \ {0}
    PROVE  /\ Page(p) \subseteq Rows
           /\ Page(p) = {} => Len(registry) <= Base(p)
           /\ \A i \in DOMAIN registry :
                 Base(p) < i /\ i <= Base(p) + PageSize => registry[i] \in Page(p)
           /\ Page(p) # {} =>
                 /\ Min(Page(p)) \in Page(p)
                 /\ \A r \in Page(p) : Min(Page(p)) <= r
                 /\ \A i \in DOMAIN registry :
                       Base(p) + PageSize < i => registry[i] < Min(Page(p))
<1> DEFINE b == Base(p)
           s == Page(p)
           last == IF b + PageSize <= Len(registry) THEN b + PageSize ELSE Len(registry)
<1>0. PageSize \in Nat \ {0} /\ Rows \subseteq Nat \ {0} /\ registry \in Seq(Rows)
  BY DEF RegistryBounds
<1>1. b \in Nat /\ PageSize \in Nat \ {0} /\ Rows \subseteq Nat /\ Len(registry) \in Nat
  <2>1. b \in Nat  BY NextBase
  <2>2. Len(registry) \in Nat  BY <1>0
  <2>3. Rows \subseteq Nat  BY <1>0
  <2> HIDE DEF b
  <2> QED  BY <1>0, <2>1, <2>2, <2>3
<1>2. s = Slice(registry, b, PageSize)  BY DEF Page, Base
<1> HIDE DEF b, s
<1>3. s \subseteq Rows
      /\ \A i \in DOMAIN registry : b < i /\ i <= b + PageSize => registry[i] \in s
  BY <1>2 DEF Slice
<1>4. ASSUME b < Len(registry)
      PROVE  /\ registry[last] \in s /\ \A r \in s : registry[last] <= r
             /\ \A i \in DOMAIN registry : b + PageSize < i => registry[i] < registry[last]
  <2>1. last \in DOMAIN registry /\ b < last /\ last <= b + PageSize
        /\ (\A i \in DOMAIN registry : i <= b + PageSize => i <= last)
        /\ (\A i \in DOMAIN registry : b + PageSize < i => last < i)
    <3> DEFINE n == b + PageSize
    <3>1. n \in Nat /\ b < n /\ b \in Nat  BY <1>1
    <3> HIDE DEF n
    <3>2. last = IF n <= Len(registry) THEN n ELSE Len(registry)  BY DEF n
    <3>3. DOMAIN registry = 1..Len(registry)  OBVIOUS
    <3> HIDE DEF last
    <3>4. last \in 1..Len(registry) /\ b < last /\ last <= n
          /\ (\A i \in 1..Len(registry) : i <= n => i <= last)
          /\ (\A i \in 1..Len(registry) : n < i => last < i)
      BY <1>1, <1>4, <3>1, <3>2
    <3> QED  BY <3>3, <3>4 DEF n
  <2> HIDE DEF last
  <2>2. registry[last] \in s  BY <1>3, <2>1
  <2>3. ASSUME NEW r \in s  PROVE registry[last] <= r
    <3>1. PICK i \in DOMAIN registry : r = registry[i] /\ i <= b + PageSize  BY <1>2 DEF Slice
    <3>2. registry[last] \in Nat /\ registry[i] \in Nat
      <4>1. registry[last] \in Rows /\ registry[i] \in Rows  BY <1>0, <2>1
      <4> QED  BY <1>1, <4>1
    <3>3. i = last \/ i < last  BY <1>1, <2>1, <3>1
    <3> QED  BY <2>1, <3>1, <3>2, <3>3 DEF NewestFirst
  <2>4. ASSUME NEW i \in DOMAIN registry, b + PageSize < i  PROVE registry[i] < registry[last]
    <3>1. registry[last] \in Nat /\ registry[i] \in Nat
      <4>1. registry[last] \in Rows /\ registry[i] \in Rows  BY <1>0, <2>1
      <4> QED  BY <1>1, <4>1
    <3> QED  BY <2>1, <2>4, <3>1 DEF NewestFirst
  <2> QED  BY <2>2, <2>3, <2>4
<1>5. s = {} => Len(registry) <= b
  <2> SUFFICES ASSUME b < Len(registry)  PROVE s # {}
    BY <1>1
  <2> QED  BY <1>4
<1>6. ASSUME s # {}  PROVE Min(s) = registry[last] /\ b < Len(registry)
  <2>1. b < Len(registry)
    <3>1. PICK i \in DOMAIN registry : b < i  BY <1>2, <1>6 DEF Slice
    <3> QED  BY <1>1, <3>1
  <2> DEFINE z == registry[last]
  <2>2. z \in s /\ \A r \in s : z <= r  BY <1>4, <2>1
  <2> HIDE DEF z
  <2>3. s \subseteq Nat  BY <1>1, <1>3
  <2>4. Min(s) = z  BY <2>2, <2>3, LeastIsMin
  <2> QED  BY <2>1, <2>4 DEF z
<1> HIDE DEF last
<1> QED  BY <1>3, <1>4, <1>5, <1>6 DEF b, s

LEMMA Removal ==
    ASSUME NEW q \in Seq(Rows), NEW n \in DOMAIN q
    PROVE  /\ RemoveAt(q, n) \in Seq(Rows) /\ Len(RemoveAt(q, n)) = Len(q) - 1
           /\ \A i \in 1..Len(q) - 1 : RemoveAt(q, n)[i] = IF i < n THEN q[i] ELSE q[i + 1]
<1> DEFINE before == SubSeq(q, 1, n - 1)
           after == SubSeq(q, n + 1, Len(q))
<1>1. before \in Seq(Rows) /\ Len(before) = n - 1 /\ \A i \in 1..n - 1 : before[i] = q[i]
  BY SubSeqProperties
<1>2. /\ after \in Seq(Rows) /\ Len(after) = Len(q) - n
      /\ \A i \in 1..Len(q) - n : after[i] = q[n + i]
  BY SubSeqProperties
<1>3. RemoveAt(q, n) = before \o after  BY DEF RemoveAt
<1> HIDE DEF before, after
<1>4. /\ before \o after \in Seq(Rows) /\ Len(before \o after) = Len(before) + Len(after)
      /\ \A i \in 1..Len(before) + Len(after) :
            (before \o after)[i] = IF i <= Len(before) THEN before[i] ELSE after[i - Len(before)]
  BY <1>1, <1>2, ConcatProperties
<1>5. Len(before) + Len(after) = Len(q) - 1  BY <1>1, <1>2
<1>6. ASSUME NEW i \in 1..Len(q) - 1
      PROVE  (before \o after)[i] = IF i < n THEN q[i] ELSE q[i + 1]
  <2>1. CASE i < n
    <3>1. i \in 1..n - 1 /\ i <= Len(before)  BY <1>1, <2>1
    <3> QED  BY <1>1, <1>4, <1>5, <2>1, <3>1
  <2>2. CASE ~ i < n
    <3>1. ~ i <= Len(before) /\ i - Len(before) \in 1..Len(q) - n /\ n + (i - Len(before)) = i + 1
      BY <1>1, <2>2
    <3> QED  BY <1>1, <1>2, <1>4, <1>5, <2>2, <3>1
  <2> QED  BY <2>1, <2>2
<1> QED  BY <1>3, <1>4, <1>5, <1>6

\* A row that enters at the head moves every other one place down.
LEMMA Heading ==
    ASSUME NEW q \in Seq(Rows), NEW r \in Rows
    PROVE  /\ <<r>> \o q \in Seq(Rows) /\ Len(<<r>> \o q) = Len(q) + 1
           /\ \A i \in 1..Len(q) + 1 : (<<r>> \o q)[i] = IF i = 1 THEN r ELSE q[i - 1]
<1>1. <<r>> \in Seq(Rows) /\ Len(<<r>>) = 1 /\ <<r>>[1] = r  OBVIOUS
<1> DEFINE s == <<r>>
<1> HIDE DEF s
<1>2. /\ s \o q \in Seq(Rows) /\ Len(s \o q) = Len(s) + Len(q)
      /\ \A i \in 1..Len(s) + Len(q) : (s \o q)[i] = IF i <= Len(s) THEN s[i] ELSE q[i - Len(s)]
  BY <1>1, ConcatProperties DEF s
<1> QED  BY <1>1, <1>2 DEF s

----------------------------------------------------------------------------
Places == Rows \union {None}
Calls == [page : Nat \ {0}, rows : SUBSET Rows, tail : BOOLEAN, deepest : Places,
          before : Places, stop : BOOLEAN, more : BOOLEAN, upward : BOOLEAN]

\* The types, with the shape of a call in flight and of the token.
TypeInv ==
    /\ registry \in Seq(Rows) /\ NewestFirst(registry) /\ events \in 0..Events
    /\ owed \subseteq Rows /\ got \subseteq Rows /\ cut \subseteq Rows /\ slipped \subseteq Rows
    /\ closed \in BOOLEAN
    /\ token = NoToken \/ \E r \in Rows : token = CursorAt(r)
    /\ call = NoCall \/ call \in Calls

\* What the scan has read: of the places above the page it reads next, every owed row is
\* collected; and a call that stops without a token to give has read all it owes. A
\* withdrawal only moves rows the history names (`slipped`).
ReadAbove == \A i \in DOMAIN registry :
    i <= Base(call.page) /\ registry[i] \in owed => registry[i] \in call.rows \union slipped
ReadInv ==
    /\ owed \subseteq Wanted(Rows) /\ owed \subseteq ToSet(registry) \union slipped
    /\ call # NoCall => ~closed /\ (call.more => call.stop)
    /\ call # NoCall /\ ~call.stop => ReadAbove
    /\ call # NoCall /\ call.stop /\ ~call.more => owed \subseteq call.rows \union slipped

\* A call that was handed a cursor counts what it collects only from there on: the
\* deepest row it has read is not above the cursor's day.
CursorInv ==
    token # NoToken /\ call # NoCall /\ call.tail /\ ~call.upward =>
        call.deepest \in Rows /\ DayOf[call.deepest] <= token.day

RegistryInv == TypeInv /\ ReadInv /\ CursorInv

LEMMA CallFields ==
    ASSUME NEW c \in Calls
    PROVE  /\ c # NoCall /\ c.page \in Nat \ {0} /\ c.rows \subseteq Rows /\ c.tail \in BOOLEAN
           /\ c.deepest \in Places /\ c.before \in Places
           /\ c.stop \in BOOLEAN /\ c.more \in BOOLEAN /\ c.upward \in BOOLEAN
<1>1. /\ c.page \in Nat \ {0} /\ c.rows \subseteq Rows /\ c.tail \in BOOLEAN
      /\ c.deepest \in Places /\ c.before \in Places
      /\ c.stop \in BOOLEAN /\ c.more \in BOOLEAN /\ c.upward \in BOOLEAN
  BY DEF Calls
<1>2. NoCall.page = 0  BY DEF NoCall, None
<1>3. c # NoCall  BY <1>1, <1>2
<1> QED  BY <1>1, <1>3

\* A call that has read a page: what it collected, how deep it is, and how it goes on.
LEMMA PageRead ==
    ASSUME NEW c \in Calls, NEW rows \in SUBSET Rows, Min(rows) \in Rows
    PROVE  LET d == AfterPage(c, rows)
           IN  /\ d \in Calls
               /\ d.rows = c.rows \union Wanted(rows) /\ d.deepest = Min(rows)
               /\ d.upward = (c.upward \/ (c.deepest # None /\ Min(rows) > c.deepest))
               /\ d.tail => c.tail \/ BelowCursor(rows)
               /\ \/ BehindWatermark(rows) /\ d.stop /\ d.more = c.more
                  \/ d.stop /\ d.more
                  \/ ~BehindWatermark(rows) /\ d.page = c.page + 1
                     /\ d.stop = c.stop /\ d.more = c.more
<1> DEFINE new == Wanted(rows)
           below == BelowCursor(rows)
           behind == BehindWatermark(rows)
           z == Min(rows)
           up == c.deepest # None /\ z > c.deepest
<1>1. new \subseteq Rows /\ below \in BOOLEAN /\ behind \in BOOLEAN /\ up \in BOOLEAN
  BY DEF Wanted, BelowCursor, BehindWatermark
<1>2. z \in Rows  OBVIOUS
<1> DEFINE read == [c EXCEPT !.rows = @ \union new, !.before = c.deepest, !.deepest = z,
                             !.upward = @ \/ up]
           full == c.tail /\ Cardinality(read.rows) >= Limit
<1>3. AfterPage(c, rows) =
        IF behind THEN [read EXCEPT !.stop = TRUE]
        ELSE IF full \/ c.page = MaxSearchPages
             THEN [read EXCEPT !.stop = TRUE, !.more = TRUE, !.tail = @ \/ below]
             ELSE [read EXCEPT !.page = @ + 1, !.tail = @ \/ below]
  BY DEF AfterPage
<1> HIDE DEF new, below, behind, z, up
<1>4. /\ read \in Calls /\ read.rows = c.rows \union new /\ read.deepest = z
      /\ read.upward = (c.upward \/ up) /\ read.tail = c.tail
      /\ read.page = c.page /\ read.stop = c.stop /\ read.more = c.more
  BY <1>1, <1>2 DEF Calls, Places
<1> HIDE DEF read, full
<1> DEFINE a1 == [read EXCEPT !.stop = TRUE]
           a2 == [read EXCEPT !.stop = TRUE, !.more = TRUE, !.tail = @ \/ below]
           a3 == [read EXCEPT !.page = @ + 1, !.tail = @ \/ below]
           Same(d) == d \in Calls /\ d.rows = read.rows /\ d.deepest = read.deepest
                      /\ d.upward = read.upward
<1>5. Same(a1) /\ a1.tail = read.tail /\ a1.stop /\ a1.more = read.more
  BY <1>4 DEF Calls
<1>6. Same(a2) /\ a2.tail = (read.tail \/ below) /\ a2.stop /\ a2.more
  BY <1>1, <1>4 DEF Calls
<1>7. Same(a3) /\ a3.tail = (read.tail \/ below) /\ a3.page = read.page + 1
      /\ a3.stop = read.stop /\ a3.more = read.more
  <2>1. read.page + 1 \in Nat \ {0} /\ (read.tail \/ below) \in BOOLEAN
    BY <1>1, <1>4, CallFields
  <2> DEFINE p == read.page + 1
             tl == read.tail \/ below
  <2> HIDE DEF p, tl
  <2>2. a3 = [read EXCEPT !.page = p, !.tail = tl]  BY DEF a3, p, tl
  <2>3. p \in Nat \ {0} /\ tl \in BOOLEAN  BY <2>1 DEF p, tl
  <2>4. Same(a3) /\ a3.tail = tl /\ a3.page = p /\ a3.stop = read.stop /\ a3.more = read.more
    BY <1>4, <2>2, <2>3 DEF Calls
  <2> QED  BY <2>4 DEF p, tl
<1> DEFINE d == AfterPage(c, rows)
<1>8. (behind /\ d = a1) \/ d = a2 \/ (~behind /\ d = a3)  BY <1>3
<1> HIDE DEF d, a1, a2, a3
<1>9. Same(d) /\ (d.tail => c.tail \/ below)
  BY <1>4, <1>5, <1>6, <1>7, <1>8
<1>10. \/ behind /\ d.stop /\ d.more = c.more
       \/ d.stop /\ d.more
       \/ ~behind /\ d.page = c.page + 1 /\ d.stop = c.stop /\ d.more = c.more
  BY <1>4, <1>5, <1>6, <1>7, <1>8
<1>11. /\ d \in Calls /\ d.rows = c.rows \union new /\ d.deepest = z
       /\ d.upward = (c.upward \/ up) /\ (d.tail => c.tail \/ below)
  BY <1>4, <1>9
<1> QED  BY <1>10, <1>11 DEF d, new, below, behind, z, up

LEMMA TokenFields ==
    ASSUME RegistryBounds, TypeInv, token # NoToken
    PROVE  /\ token.row \in Rows /\ token.day = DayOf[token.row] /\ token.day \in Nat
<1>1. PICK r \in Rows : token = CursorAt(r)  BY DEF TypeInv
<1> QED  BY <1>1 DEF CursorAt, RegistryBounds

LEMMA Asking ==
    ASSUME RegistryBounds, RegistryInv, Ask  PROVE  RegistryInv'
<1> USE DEF RegistryInv
<1>1. /\ call' \in Calls /\ call'.page = 1 /\ call'.rows = {} /\ call'.stop = FALSE
      /\ call'.more = FALSE /\ call'.tail = (token = NoToken)
  BY DEF Ask, Calls, Places
<1>2. TypeInv'
  <2>1. owed' \subseteq Rows  BY DEF Ask, TypeInv, Wanted, RegistryBounds
  <2> QED  BY <1>1, <2>1 DEF Ask, TypeInv, NewestFirst, CursorAt
<1>3. ReadInv'
  <2>1. owed' \subseteq Wanted(Rows) /\ owed' \subseteq ToSet(registry) \union slipped
    <3>1. ToSet(registry) \subseteq Rows  BY DEF TypeInv, ToSet
    <3> QED  BY <3>1 DEF Ask, ReadInv, Wanted
  <2>2. ReadAbove'
    <3>1. Base(call'.page) = 0  BY <1>1 DEF Base, RegistryBounds
    <3>2. ~ closed' /\ registry' = registry /\ \A i \in DOMAIN registry : ~ i <= 0
      BY DEF Ask, TypeInv
    <3> QED  BY <3>1, <3>2 DEF ReadAbove
  <2>3. ~ closed' /\ registry' = registry /\ slipped' = slipped  BY DEF Ask
  <2> QED  BY <1>1, <2>1, <2>2, <2>3 DEF ReadInv, Wanted
<1>4. CursorInv'
  BY <1>1 DEF CursorInv, Ask
<1> QED  BY <1>2, <1>3, <1>4

\* Below a page that reaches the watermark nothing is owed.
LEMMA ReadingAPage ==
    ASSUME RegistryBounds, RegistryInv, ReadPage  PROVE  RegistryInv'
<1> USE DEF RegistryInv
<1> DEFINE p == call.page
           rows == Page(p)
<1>1. call \in Calls /\ call # NoCall /\ call.stop = FALSE /\ call.more = FALSE /\ p \in Nat \ {0}
      /\ ~closed /\ ReadAbove
  BY CallFields DEF ReadPage, TypeInv, ReadInv
<1>2. UNCHANGED <<registry, token, events, owed, got, cut, slipped, closed>>
  BY DEF ReadPage, history
<1>3. Base(p) \in Nat /\ Base(p + 1) = Base(p) + PageSize /\ PageSize \in Nat
  BY <1>1, NextBase DEF RegistryBounds
<1>4. registry \in Seq(Rows) /\ NewestFirst(registry) /\ Rows \subseteq Nat
  BY DEF TypeInv, RegistryBounds
<1>5. CASE rows = {}
  <2>1. call' = [call EXCEPT !.stop = TRUE]  BY <1>5 DEF ReadPage
  <2>2. /\ call' \in Calls /\ call'.rows = call.rows /\ call'.stop /\ ~call'.more
        /\ call'.tail = call.tail /\ call'.deepest = call.deepest /\ call'.upward = call.upward
    BY <1>1, <2>1 DEF Calls
  <2>3. Len(registry) <= Base(p)  BY <1>1, <1>4, <1>5, PageFacts
  <2>4. owed \subseteq call.rows \union slipped
    <3> SUFFICES ASSUME NEW r \in owed, r \in ToSet(registry)  PROVE r \in call.rows \union slipped
      BY DEF ReadInv
    <3>1. PICK i \in DOMAIN registry : registry[i] = r  BY DEF ToSet
    <3>2. i <= Base(p)  BY <1>3, <1>4, <2>3
    <3> QED  BY <1>1, <3>1, <3>2 DEF ReadAbove
  <2>5. TypeInv'  BY <1>2, <2>2 DEF TypeInv, NewestFirst, CursorAt
  <2>6. ReadInv'  BY <1>1, <1>2, <2>2, <2>4 DEF ReadInv
  <2>7. CursorInv'  BY <1>1, <1>2, <2>2 DEF CursorInv
  <2> QED  BY <2>5, <2>6, <2>7
<1>6. CASE rows # {}
  <2> DEFINE z == Min(rows)
             shown == rows
  <2>1. /\ z \in Rows /\ z \in shown
        /\ \A r \in shown : r \in Rows /\ z <= r
        /\ \A i \in DOMAIN registry :
              Base(p) < i /\ i <= Base(p) + PageSize => registry[i] \in shown
        /\ \A i \in DOMAIN registry : Base(p) + PageSize < i => registry[i] < z
    BY <1>1, <1>4, <1>6, PageFacts
  <2>2. call' = AfterPage(call, rows)  BY <1>6 DEF ReadPage
  <2>3. /\ call' \in Calls
        /\ call'.rows = call.rows \union Wanted(shown) /\ call'.deepest = z
        /\ call'.upward = (call.upward \/ (call.deepest # None /\ z > call.deepest))
        /\ call'.tail => call.tail \/ BelowCursor(shown)
        /\ \/ BehindWatermark(shown) /\ call'.stop /\ call'.more = call.more
           \/ call'.stop /\ call'.more
           \/ ~BehindWatermark(shown) /\ call'.page = p + 1
              /\ call'.stop = call.stop /\ call'.more = call.more
    <3>1. shown \subseteq Rows  BY <2>1
    <3> QED  BY <1>1, <2>1, <2>2, <3>1, PageRead
  <2> HIDE DEF p, rows, z, shown
  <2>4. TypeInv'  BY <1>2, <2>3 DEF TypeInv, NewestFirst, CursorAt
  \* The rows of the page that was read are collected, as far as they are owed.
  <2>5. ASSUME NEW i \in DOMAIN registry, i <= Base(p) + PageSize, registry[i] \in owed
        PROVE  registry[i] \in call'.rows \union slipped
    <3>1. CASE i <= Base(p)
      <4>1. registry[i] \in call.rows \union slipped  BY <1>1, <2>5, <3>1 DEF ReadAbove, p
      <4> QED  BY <2>3, <4>1
    <3>2. CASE ~ i <= Base(p)
      <4>1. registry[i] \in shown  BY <1>3, <1>4, <2>1, <2>5, <3>2
      <4>2. registry[i] \in Wanted(Rows)  BY <2>5 DEF ReadInv
      <4> QED  BY <2>3, <4>1, <4>2 DEF Wanted
    <3> QED  BY <3>1, <3>2
  <2>6. BehindWatermark(shown) => owed \subseteq call'.rows \union slipped
    <3> SUFFICES ASSUME BehindWatermark(shown), NEW r \in owed, r \in ToSet(registry)
                 PROVE  r \in call'.rows \union slipped
      BY DEF ReadInv
    <3>1. PICK i \in DOMAIN registry : registry[i] = r  BY DEF ToSet
    <3>2. CASE i <= Base(p) + PageSize  BY <2>5, <3>1, <3>2
    <3>3. CASE ~ i <= Base(p) + PageSize
      <4>1. PICK y \in shown : DayOf[y] < Floor  BY DEF BehindWatermark
      <4>2. r < z /\ z <= y /\ r \in Rows /\ y \in Rows  BY <1>3, <1>4, <2>1, <3>1, <3>3, <4>1
      <4>3. r < y  BY <1>4, <2>1, <4>2
      <4>4. DayOf[r] <= DayOf[y] /\ DayOf[r] \in Nat /\ DayOf[y] \in Nat /\ Floor \in Nat
        BY <4>2, <4>3 DEF RegistryBounds
      <4>5. DayOf[r] >= Floor  BY DEF ReadInv, Wanted
      <4> QED  BY <4>1, <4>4, <4>5
    <3> QED  BY <3>2, <3>3
  <2>7. ReadInv'
    <3>1. call'.stop /\ ~call'.more => owed \subseteq call'.rows \union slipped
      BY <1>1, <2>3, <2>6
    <3>2. ~call'.stop => ReadAbove'
      <4> SUFFICES ASSUME ~call'.stop  PROVE ReadAbove'
        OBVIOUS
      <4>1. Base(call'.page) = Base(p) + PageSize  BY <1>3, <2>3
      <4>2. \A i \in DOMAIN registry' :
               i <= Base(call'.page) /\ registry'[i] \in owed' => registry'[i] \in call'.rows \union slipped'
        BY <1>2, <2>5, <4>1
      <4> QED  BY <4>2 DEF ReadAbove, Base
    <3> QED  BY <1>1, <1>2, <2>3, <3>1, <3>2 DEF ReadInv
  <2>8. CursorInv'
    <3> SUFFICES ASSUME token # NoToken, call'.tail, ~call'.upward
                 PROVE  z \in Rows /\ DayOf[z] <= token.day
      BY <1>2, <2>3 DEF CursorInv
    <3>1. token.row \in Rows /\ token.day = DayOf[token.row] /\ token.day \in Nat
      BY TokenFields
    <3>2. \A r, t \in Rows : r <= t => DayOf[r] <= DayOf[t] /\ DayOf[r] \in Nat /\ DayOf[t] \in Nat
      <4> SUFFICES ASSUME NEW r \in Rows, NEW t \in Rows, r <= t
                   PROVE  DayOf[r] <= DayOf[t] /\ DayOf[r] \in Nat /\ DayOf[t] \in Nat
        OBVIOUS
      <4>1. r < t \/ r = t  BY <1>4
      <4> QED  BY <4>1 DEF RegistryBounds
    <3>3. CASE call.tail
      <4>1. call.deepest \in Rows /\ DayOf[call.deepest] <= token.day /\ ~ z > call.deepest
        <5>1. call.deepest \in Rows /\ DayOf[call.deepest] <= token.day
          BY <1>1, <2>3, <3>3 DEF CursorInv
        <5>2. None \notin Rows  BY DEF None, RegistryBounds
        <5> QED  BY <2>3, <5>1, <5>2
      <4>2. z <= call.deepest
        <5>1. z \in Nat /\ call.deepest \in Nat  BY <1>4, <2>1, <4>1
        <5> QED  BY <4>1, <5>1
      <4>3. DayOf[z] <= DayOf[call.deepest] /\ DayOf[z] \in Nat /\ DayOf[call.deepest] \in Nat
        BY <2>1, <3>2, <4>1, <4>2
      <4> QED  BY <2>1, <3>1, <4>1, <4>3
    <3>4. CASE ~call.tail
      <4>1. PICK r \in shown : r = token.row \/ DayOf[r] < token.day
        BY <2>3, <3>4 DEF BelowCursor
      <4>2. DayOf[z] <= DayOf[r] /\ DayOf[z] \in Nat /\ DayOf[r] \in Nat  BY <2>1, <3>2, <4>1
      <4> QED  BY <2>1, <3>1, <4>1, <4>2
    <3> QED  BY <3>3, <3>4
  <2> QED  BY <2>4, <2>7, <2>8
<1> QED  BY <1>5, <1>6

LEMMA OutOfTime ==
    ASSUME RegistryBounds, RegistryInv, Deadline  PROVE  RegistryInv'
<1> USE DEF RegistryInv
<1>1. call \in Calls  BY DEF Deadline, TypeInv
<1>2. UNCHANGED <<registry, token, owed, got, cut, slipped, closed>>  BY DEF Deadline, history
<1>3. /\ call' \in Calls /\ call'.stop /\ call'.more
      /\ call'.tail = call.tail /\ call'.deepest = call.deepest /\ call'.upward = call.upward
  BY <1>1 DEF Deadline, Calls
<1>4. events' \in 0..Events  BY DEF Deadline, TypeInv, RegistryBounds
<1>5. call # NoCall  BY DEF Deadline
<1> QED  BY <1>2, <1>3, <1>4, <1>5 DEF TypeInv, NewestFirst, CursorAt, ReadInv, CursorInv

LEMMA Failing ==
    ASSUME RegistryBounds, RegistryInv, PageFails  PROVE  RegistryInv'
<1> USE DEF RegistryInv
<1>1. UNCHANGED <<registry, token, owed, got, cut, slipped, closed>> /\ call' = NoCall
  BY DEF PageFails, history
<1>2. events' \in 0..Events  BY DEF PageFails, TypeInv, RegistryBounds
<1> QED  BY <1>1, <1>2 DEF TypeInv, NewestFirst, CursorAt, ReadInv, CursorInv

\* An answer hands over what it collected or names what it cuts, and is the last one only
\* when that was all it owed.
LEMMA Answering ==
    ASSUME RegistryBounds, RegistryInv, Answer
    PROVE  /\ RegistryInv' /\ ~closed /\ got \subseteq got' /\ cut \subseteq cut'
           /\ owed' = owed /\ slipped' = slipped
           /\ closed' => owed \subseteq got' \union (cut' \union slipped')
<1> USE DEF RegistryInv
<1>1. call \in Calls /\ call # NoCall /\ call.stop /\ ~closed /\ call.rows \subseteq Rows
      /\ call.more \in BOOLEAN /\ call.deepest \in Places /\ call.before \in Places
  BY CallFields DEF Answer, TypeInv, ReadInv
<1>2. /\ UNCHANGED <<registry, events, owed, slipped>> /\ call' = NoCall
      /\ closed' = ~call.more /\ got' = got \union Hits(call)
      /\ cut' = IF call.more THEN cut ELSE cut \union (call.rows \ Hits(call))
      /\ token' = IF call.more THEN TokenAfter(call) ELSE NoToken
  BY DEF Answer
<1>3. Hits(call) \subseteq call.rows  BY DEF Hits
<1>4. got' \subseteq Rows /\ cut' \subseteq Rows /\ got \subseteq got' /\ cut \subseteq cut'
  BY <1>1, <1>2, <1>3 DEF TypeInv
<1>5. token' = NoToken \/ \E r \in Rows : token' = CursorAt(r)
  <2> DEFINE anchor == IF ~call.tail THEN None
                       ELSE IF Cardinality(call.rows) > Limit /\ call.before # None THEN call.before
                       ELSE call.deepest
  <2>1. anchor \in Places  BY <1>1 DEF Places
  <2>2. TokenAfter(call) = IF anchor # None THEN CursorAt(anchor) ELSE token  BY DEF TokenAfter
  <2> HIDE DEF anchor
  <2> QED  BY <1>2, <2>1, <2>2 DEF Places, TypeInv
<1>6. closed' => owed \subseteq got' \union (cut' \union slipped')
  <2> SUFFICES ASSUME ~call.more, NEW r \in owed  PROVE r \in got' \union (cut' \union slipped')
    BY <1>2
  <2>1. r \in call.rows \union slipped  BY <1>1 DEF ReadInv
  <2> QED  BY <1>2, <2>1
<1>7. TypeInv'
  <2>1. \A r : CursorAt(r)' = CursorAt(r)  BY DEF CursorAt
  <2>2. registry' \in Seq(Rows) /\ NewestFirst(registry') /\ events' \in 0..Events
        /\ owed' \subseteq Rows /\ slipped' \subseteq Rows /\ closed' \in BOOLEAN
    BY <1>1, <1>2 DEF TypeInv
  <2> QED  BY <1>2, <1>4, <1>5, <2>2 DEF TypeInv, NewestFirst, CursorAt
<1>8. ReadInv'  BY <1>2 DEF ReadInv, Wanted
<1>9. CursorInv'  BY <1>2 DEF CursorInv
<1> QED  BY <1>1, <1>2, <1>4, <1>6, <1>7, <1>8, <1>9

\* Rows that enter at the head move what is read down, never up.
LEMMA Posting ==
    ASSUME RegistryBounds, RegistryInv, NEW r \in Rows, Post(r)  PROVE  RegistryInv'
<1> USE DEF RegistryInv
<1>1. UNCHANGED <<token, call, owed, got, cut, slipped, closed>>  BY DEF Post, history
<1>2. registry \in Seq(Rows) /\ NewestFirst(registry) /\ Rows \subseteq Nat
  BY DEF TypeInv, RegistryBounds
<1>3. /\ registry' \in Seq(Rows) /\ Len(registry') = Len(registry) + 1
      /\ \A i \in 1..Len(registry) + 1 : registry'[i] = IF i = 1 THEN r ELSE registry[i - 1]
  BY <1>2, Heading DEF Post
<1>4. \A i \in DOMAIN registry : registry[i] < r  BY DEF Post, ToSet
<1>5. NewestFirst(registry')
  <2> SUFFICES ASSUME NEW i \in DOMAIN registry', NEW j \in DOMAIN registry', i < j
               PROVE  registry'[i] > registry'[j]
    BY DEF NewestFirst
  <2>1. i \in 1..Len(registry) + 1 /\ j \in 1..Len(registry) + 1 /\ j # 1 /\ j - 1 \in DOMAIN registry
    BY <1>2, <1>3
  <2>2. registry'[j] = registry[j - 1]  BY <1>3, <2>1
  <2>3. CASE i = 1
    <3> DEFINE z == registry[j - 1]
    <3>1. z \in Rows /\ z < r  BY <1>2, <1>4, <2>1
    <3> HIDE DEF z
    <3>2. registry'[i] = r /\ registry'[j] = z  BY <1>3, <2>1, <2>2, <2>3 DEF z
    <3>3. r \in Nat /\ z \in Nat  BY <1>2, <3>1
    <3>4. r > z  BY <3>1, <3>3
    <3> QED  BY <3>2, <3>4
  <2>4. CASE i # 1
    <3>1. i - 1 \in DOMAIN registry /\ i - 1 < j - 1 /\ registry'[i] = registry[i - 1]
      BY <1>2, <1>3, <2>1, <2>4
    <3> QED  BY <1>2, <2>1, <2>2, <3>1 DEF NewestFirst
  <2> QED  BY <2>3, <2>4
<1>6. TypeInv'
  <2>1. events' \in 0..Events  BY DEF Post, TypeInv, RegistryBounds
  <2> QED  BY <1>1, <1>3, <1>5, <2>1 DEF TypeInv, NewestFirst, CursorAt
<1>7. ToSet(registry) \subseteq ToSet(registry')
  <2> SUFFICES ASSUME NEW i \in DOMAIN registry  PROVE registry[i] \in ToSet(registry')
    BY DEF ToSet
  <2>1. i + 1 \in DOMAIN registry' /\ registry'[i + 1] = registry[i]  BY <1>2, <1>3
  <2> QED  BY <2>1 DEF ToSet
<1>8. ASSUME call # NoCall, ReadAbove  PROVE ReadAbove'
  <2> SUFFICES ASSUME NEW i \in DOMAIN registry', i <= Base(call.page), registry'[i] \in owed
               PROVE  registry'[i] \in call.rows \union slipped
    BY <1>1 DEF ReadAbove, Base
  <2>0. Base(call.page) \in Nat  BY <1>8, NextBase, CallFields DEF TypeInv
  <2>1. CASE i = 1
    <3>1. registry'[i] = r  BY <1>2, <1>3, <2>1
    <3>2. r \notin ToSet(registry)
      <4> SUFFICES ASSUME NEW j \in DOMAIN registry, registry[j] = r  PROVE FALSE
        BY DEF ToSet
      <4>1. r \in Nat /\ r < r  BY <1>2, <1>4
      <4> QED  BY <4>1
    <3> QED  BY <3>1, <3>2 DEF ReadInv
  <2>2. CASE i # 1
    <3>1. i - 1 \in DOMAIN registry /\ i - 1 <= Base(call.page) /\ registry'[i] = registry[i - 1]
      BY <1>2, <1>3, <2>0, <2>2
    <3> QED  BY <1>8, <3>1 DEF ReadAbove
  <2> QED  BY <2>1, <2>2
<1>9. ReadInv'  BY <1>1, <1>7, <1>8 DEF ReadInv, Wanted
<1>10. CursorInv'  BY <1>1 DEF CursorInv
<1> QED  BY <1>6, <1>9, <1>10

\* A withdrawn row is slipped, and so is the row that moves up to a place the scan is past.
LEMMA Withdrawing ==
    ASSUME RegistryBounds, RegistryInv, NEW n \in DOMAIN registry, Withdraw(n)
    PROVE  RegistryInv' /\ slipped \subseteq slipped' /\ owed' = owed /\ got' = got
           /\ cut' = cut /\ closed' = closed
<1> USE DEF RegistryInv
<1> DEFINE b == Base(call.page)
<1>1. UNCHANGED <<token, call, owed, got, cut, closed>>  BY DEF Withdraw
<1>2. registry \in Seq(Rows) /\ NewestFirst(registry) /\ Rows \subseteq Nat
  BY DEF TypeInv, RegistryBounds
<1>3. /\ registry' \in Seq(Rows) /\ Len(registry') = Len(registry) - 1
      /\ \A i \in 1..Len(registry) - 1 : registry'[i] = IF i < n THEN registry[i] ELSE registry[i + 1]
  BY <1>2, Removal DEF Withdraw
<1>4. slipped' = slipped \union {registry[n]} \union
         (IF call # NoCall /\ n <= b THEN Slice(registry, b, 1) ELSE {})
  BY DEF Withdraw, Base
<1> HIDE DEF b
<1>5. NewestFirst(registry')
  <2> SUFFICES ASSUME NEW i \in DOMAIN registry', NEW j \in DOMAIN registry', i < j
               PROVE  registry'[i] > registry'[j]
    BY DEF NewestFirst
  <2> DEFINE x == IF i < n THEN i ELSE i + 1
             y == IF j < n THEN j ELSE j + 1
  <2>1. x \in DOMAIN registry /\ y \in DOMAIN registry /\ x < y
        /\ i \in 1..Len(registry) - 1 /\ j \in 1..Len(registry) - 1
    BY <1>2, <1>3
  <2>2. registry'[i] = registry[x] /\ registry'[j] = registry[y]  BY <1>3, <2>1
  <2> HIDE DEF x, y
  <2> QED  BY <1>2, <2>1, <2>2 DEF NewestFirst
<1>6. ASSUME call # NoCall  PROVE b \in Nat /\ Slice(registry, b, 1) \subseteq Rows
        /\ (b + 1 \in DOMAIN registry => registry[b + 1] \in Slice(registry, b, 1))
  <2>1. b \in Nat  BY <1>6, NextBase, CallFields DEF TypeInv, b
  <2> QED  BY <1>2, <2>1 DEF Slice
<1>7. slipped \subseteq slipped' /\ slipped' \subseteq Rows /\ registry[n] \in slipped'
  <2> DEFINE more == IF call # NoCall /\ n <= b THEN Slice(registry, b, 1) ELSE {}
  <2>1. more \subseteq Rows  BY <1>6
  <2>2. slipped' = slipped \union {registry[n]} \union more  BY <1>4
  <2> HIDE DEF more
  <2>3. registry[n] \in Rows /\ slipped \subseteq Rows  BY <1>2 DEF TypeInv
  <2> QED  BY <2>1, <2>2, <2>3
<1>8. TypeInv'
  <2>1. events' \in 0..Events  BY DEF Withdraw, TypeInv, RegistryBounds
  <2> QED  BY <1>1, <1>3, <1>5, <1>7, <2>1 DEF TypeInv, NewestFirst, CursorAt
<1>9. ToSet(registry) \subseteq ToSet(registry') \union slipped'
  <2> SUFFICES ASSUME NEW i \in DOMAIN registry  PROVE registry[i] \in ToSet(registry') \union slipped'
    BY DEF ToSet
  <2>1. CASE i = n  BY <1>7, <2>1
  <2>2. CASE i < n
    <3>1. i \in DOMAIN registry' /\ registry'[i] = registry[i]  BY <1>2, <1>3, <2>2
    <3> QED  BY <3>1 DEF ToSet
  <2>3. CASE i > n
    <3>1. i - 1 \in DOMAIN registry' /\ i - 1 \in 1..Len(registry) - 1 /\ ~ i - 1 < n /\ (i - 1) + 1 = i
      BY <1>2, <1>3, <2>3
    <3>2. registry'[i - 1] = registry[i]  BY <1>3, <3>1
    <3> QED  BY <3>1, <3>2 DEF ToSet
  <2> QED  BY <1>2, <2>1, <2>2, <2>3
<1>10. ASSUME call # NoCall, ReadAbove  PROVE ReadAbove'
  <2> SUFFICES ASSUME NEW i \in DOMAIN registry', i <= b, registry'[i] \in owed
               PROVE  registry'[i] \in call.rows \union slipped'
    BY <1>1 DEF ReadAbove, Base, b
  <2>1. i \in 1..Len(registry) - 1 /\ b \in Nat  BY <1>2, <1>3, <1>6, <1>10
  <2>2. CASE i < n
    <3>1. registry'[i] = registry[i] /\ i \in DOMAIN registry  BY <1>2, <1>3, <2>1, <2>2
    <3> QED  BY <1>7, <1>10, <3>1 DEF ReadAbove, b
  <2>3. CASE ~ i < n
    <3>1. registry'[i] = registry[i + 1] /\ i + 1 \in DOMAIN registry  BY <1>2, <1>3, <2>1, <2>3
    <3>2. CASE i + 1 <= b  BY <1>7, <1>10, <3>1, <3>2 DEF ReadAbove, b
    <3>3. CASE ~ i + 1 <= b
      <4>1. i = b /\ n <= b /\ b + 1 \in DOMAIN registry  BY <1>2, <2>1, <2>3, <3>1, <3>3
      <4>2. registry[b + 1] \in slipped'  BY <1>4, <1>6, <1>10, <4>1
      <4> QED  BY <3>1, <4>1, <4>2
    <3> QED  BY <3>2, <3>3
  <2> QED  BY <2>2, <2>3
<1>11. ReadInv'  BY <1>1, <1>7, <1>9, <1>10 DEF ReadInv, Wanted
<1>12. CursorInv'  BY <1>1 DEF CursorInv
<1> QED  BY <1>1, <1>7, <1>8, <1>11, <1>12

----------------------------------------------------------------------------
LEMMA RegistryInitially ==
    ASSUME RegistryBounds, Init  PROVE  RegistryInv
<1>1. TypeInv
  <2>1. 0 \in 0..Events  BY DEF RegistryBounds
  <2>2. registry \in Seq(Rows) /\ NewestFirst(registry)  BY DEF Init, RegistryBounds
  <2> QED  BY <2>1, <2>2 DEF Init, TypeInv
<1> QED  BY <1>1 DEF Init, RegistryInv, ReadInv, CursorInv, Wanted

LEMMA RegistryStep ==
    ASSUME RegistryBounds, RegistryInv, [Next]_vars  PROVE  RegistryInv'
<1>1. CASE Ask        BY <1>1, Asking
<1>2. CASE ReadPage   BY <1>2, ReadingAPage
<1>3. CASE Answer     BY <1>3, Answering
<1>4. CASE Deadline   BY <1>4, OutOfTime
<1>5. CASE PageFails  BY <1>5, Failing
<1>6. ASSUME NEW r \in Rows, Post(r)  PROVE RegistryInv'
  BY <1>6, Posting
<1>7. ASSUME NEW n \in DOMAIN registry, Withdraw(n)  PROVE RegistryInv'
  BY <1>7, Withdrawing
<1>8. CASE UNCHANGED vars
  BY <1>8 DEF vars, RegistryInv, TypeInv, ReadInv, ReadAbove, CursorInv, NewestFirst, CursorAt, Wanted, Base
<1> QED  BY <1>1, <1>2, <1>3, <1>4, <1>5, <1>6, <1>7, <1>8 DEF Next, Reading, Disturbance

\* The registry scan is where its places say: what stands above the page it reads next is
\* collected, as far as it is owed, and a call given a cursor counts from there down.
THEOREM RegistryInduction == RegistryBounds => (Spec => []RegistryInv)
<1> SUFFICES ASSUME RegistryBounds  PROVE Spec => []RegistryInv
  OBVIOUS
<1>1. Init => RegistryInv  BY RegistryInitially
<1>2. RegistryInv /\ [Next]_vars => RegistryInv'  BY RegistryStep
<1> QED  BY <1>1, <1>2, PTL DEF Spec

LEMMA RegistryTyped ==
    ASSUME RegistryBounds, RegistryInv  PROVE TypeOK
<1>1. token.row \in Rows \union {None}
  <2>1. CASE token = NoToken  BY <2>1 DEF NoToken
  <2>2. CASE token # NoToken  BY <2>2, TokenFields DEF RegistryInv
  <2> QED  BY <2>1, <2>2
<1> QED  BY <1>1 DEF RegistryInv, TypeInv, TypeOK

\* The types of the registry scan.
THEOREM RegistryTypes == RegistryBounds => (Spec => []TypeOK)
<1> SUFFICES ASSUME RegistryBounds  PROVE Spec => []TypeOK
  OBVIOUS
<1>1. RegistryInv => TypeOK  BY RegistryTyped
<1> QED  BY <1>1, RegistryInduction, PTL

\* A step of the scan is a step of the reading it implements, or none.
LEMMA RegistryReads ==
    ASSUME RegistryBounds, RegistryInv, [Next]_vars
    PROVE  [Abstract!Next]_(Abstract!vars)
<1> USE DEF Abstract!Next, Abstract!vars
<1>1. CASE Ask
  <2>1. owed' \subseteq Rows  BY <1>1, Asking DEF RegistryInv, TypeInv
  <2>2. CASE token = NoToken
    <3>1. cut \union slipped \subseteq Rows  BY DEF RegistryInv, TypeInv
    <3> QED  BY <1>1, <2>1, <3>1 DEF Ask, Abstract!Reask
  <2>3. CASE token # NoToken  BY <1>1, <2>3 DEF Ask
  <2> QED  BY <2>2, <2>3
<1>2. CASE ReadPage   BY <1>2 DEF ReadPage, history
<1>3. CASE Answer
  <2>1. RegistryInv'  BY <1>3, RegistryStep DEF Next, Reading
  <2>2. /\ ~closed /\ got \subseteq got' /\ cut \subseteq cut' /\ owed' = owed /\ slipped' = slipped
        /\ closed' => owed \subseteq got' \union (cut' \union slipped')
    BY <1>3, Answering
  <2>3. Abstract!Answer  BY <2>1, <2>2 DEF RegistryInv, TypeInv, Abstract!Answer
  <2> QED  BY <2>3
<1>4. CASE Deadline   BY <1>4 DEF Deadline, history
<1>5. CASE PageFails  BY <1>5 DEF PageFails, history
<1>6. ASSUME NEW r \in Rows, Post(r)  PROVE UNCHANGED Abstract!vars
  BY <1>6 DEF Post, history
<1>7. ASSUME NEW n \in DOMAIN registry, Withdraw(n)  PROVE Abstract!Slip
  <2>1. RegistryInv'  BY <1>7, Withdrawing
  <2> QED  BY <1>7, <2>1, Withdrawing DEF RegistryInv, TypeInv, Abstract!Slip
<1>8. CASE UNCHANGED vars  BY <1>8 DEF vars
<1> QED  BY <1>1, <1>2, <1>3, <1>4, <1>5, <1>6, <1>7, <1>8 DEF Next, Reading, Disturbance

\* The registry scan implements the reading of module WindowRead: it says that nothing
\* more follows only when every row it owed was handed over, but for those cut on the
\* page that fills the answer and reaches the watermark, and those a withdrawal moved.
THEOREM RegistryWindowIsRead == RegistryBounds => (Spec => WindowIsRead)
<1> SUFFICES ASSUME RegistryBounds  PROVE Spec => WindowIsRead
  OBVIOUS
<1>1. Init => Abstract!Init  BY DEF Init, Abstract!Init
<1>2. RegistryInv /\ [Next]_vars => [Abstract!Next]_(Abstract!vars)  BY RegistryReads
<1> QED  BY <1>1, <1>2, RegistryInduction, PTL DEF Spec, WindowIsRead, Abstract!Spec

LEMMA CursorStep ==
    ASSUME RegistryBounds, RegistryInv, [Next]_vars  PROVE CursorMovesDown
<1> SUFFICES ASSUME token # NoToken, token' # NoToken, ~Overflows, ~Outrun
             PROVE  token'.day <= token.day
  BY DEF CursorMovesDown
<1>1. token.day \in Nat  BY TokenFields DEF RegistryInv
<1>2. CASE Answer
  <2>1. call # NoCall /\ call.more /\ token' = TokenAfter(call)  BY <1>2 DEF Answer
  <2>2. CASE call.tail
    <3>1. call.deepest \in Rows /\ DayOf[call.deepest] <= token.day /\ call.deepest # None
      BY <2>1, <2>2 DEF RegistryInv, CursorInv, Outrun, None, RegistryBounds
    <3>2. TokenAfter(call) = CursorAt(call.deepest)
      BY <2>1, <2>2, <3>1 DEF TokenAfter, Overflows
    <3> QED  BY <2>1, <3>1, <3>2 DEF CursorAt
  <2>3. CASE ~call.tail  BY <1>1, <2>1, <2>3 DEF TokenAfter
  <2> QED  BY <2>2, <2>3
<1>3. CASE ~Answer
  <2>1. token' = token
    BY <1>3 DEF Next, Reading, Disturbance, Ask, ReadPage, Deadline, PageFails, Post, Withdraw, vars
  <2> QED  BY <1>1, <2>1
<1> QED  BY <1>2, <1>3

\* The cursor moves down the registry or stays, but for the two excuses the property names.
THEOREM RegistryNeverRewinds == RegistryBounds => (Spec => CursorNeverRewinds)
<1> SUFFICES ASSUME RegistryBounds  PROVE Spec => CursorNeverRewinds
  OBVIOUS
<1>1. RegistryInv /\ [Next]_vars => CursorMovesDown  BY CursorStep
<1> QED  BY <1>1, RegistryInduction, PTL DEF Spec, CursorNeverRewinds

=============================================================================
