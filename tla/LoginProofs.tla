----------------------------- MODULE LoginProofs -----------------------------
(***************************************************************************)
(* Proofs about Login, for any number of servers, addresses, logins and    *)
(* file descriptors, and for every fate of the connections.                *)
(***************************************************************************)
EXTENDS Login, SequenceTheorems, WellFoundedInduction, TLAPS

(* A set of naturals that has a member has a least one.                    *)
LEMMA Least ==
  ASSUME NEW T, T \subseteq Nat, T # {}
  PROVE  \E x \in T : \A y \in T : x <= y
<1>1. PICK x \in T : \A y \in T : ~(<<y, x>> \in OpToRel(<, Nat))
  BY NatLessThanWellFounded, WFMin
<1>2. ASSUME NEW y \in T PROVE x <= y
  <2>1. x \in Nat /\ y \in Nat
    OBVIOUS
  <2>2. ~(y < x)
    BY <1>1, <2>1 DEF OpToRel
  <2>3. QED
    BY <2>1, <2>2
<1>3. QED
  BY <1>2
-----------------------------------------------------------------------------
(* A record of the list, and the order that the list is kept in.           *)
Record == [host : Host, prio : Prios]
Ascending(l) == \A i, j \in 1 .. Len(l) : i <= j => l[i].prio <= l[j].prio

(* A sequence put together from the first w elements of another, one new   *)
(* element and what is left from position v on.                            *)
Splice(l, e, w, v) == SubSeq(l, 1, w) \o <<e>> \o SubSeq(l, v, Len(l))
LEMMA Spliced ==
  ASSUME NEW l \in Seq(Record), NEW e \in Record, NEW w \in 1 .. Len(l), NEW v \in Nat, v > w
  PROVE  /\ Splice(l, e, w, v) \in Seq(Record)
         /\ Splice(l, e, w, v) # <<>> /\ Len(Splice(l, e, w, v)) \in Nat
         /\ \A i \in 1 .. w : Splice(l, e, w, v)[i] = l[i]
         /\ Splice(l, e, w, v)[w + 1] = e
         /\ \A i \in w + 2 .. Len(Splice(l, e, w, v)) :
              /\ i + v - w - 2 \in v .. Len(l)
              /\ Splice(l, e, w, v)[i] = l[i + v - w - 2]
<1> DEFINE n == Len(l)
           a == SubSeq(l, 1, w)
           b == SubSeq(l, v, n)
           c == a \o <<e>>
           s == Splice(l, e, w, v)
<1>1. n \in Nat /\ w \in Nat /\ w >= 1 /\ w <= n /\ v \in Nat /\ v > w
  BY LenProperties
<1>2. \A i \in 1 .. n : l[i] \in Record
  BY ElementOfSeq
<1> HIDE DEF n, s
<1>3. a \in Seq(Record) /\ Len(a) = w /\ \A i \in 1 .. w : a[i] = l[i]
  <2>1. \A i \in 1 .. w : l[i] \in Record
    BY <1>1, <1>2
  <2>2. /\ a \in Seq(Record) /\ Len(a) = IF 1 <= w THEN w - 1 + 1 ELSE 0
        /\ \A i \in 1 .. w - 1 + 1 : a[i] = l[1 + i - 1]
    BY <1>1, <2>1, SubSeqProperties
  <2>3. w - 1 + 1 = w /\ \A i \in 1 .. w : 1 + i - 1 = i
    BY <1>1
  <2>4. QED
    BY <1>1, <2>2, <2>3
<1>4. /\ b \in Seq(Record) /\ Len(b) = IF v <= n THEN n - v + 1 ELSE 0
      /\ \A i \in 1 .. n - v + 1 : b[i] = l[v + i - 1]
  <2>1. \A i \in v .. n : l[i] \in Record
    BY <1>1, <1>2
  <2>2. QED
    BY <1>1, <2>1, SubSeqProperties
<1> HIDE DEF a, b
<1>5. <<e>> \in Seq(Record) /\ Len(<<e>>) = 1 /\ <<e>>[1] = e
  OBVIOUS
<1>6. /\ c \in Seq(Record) /\ Len(c) = w + 1
      /\ \A i \in 1 .. w + 1 : c[i] = IF i <= w THEN a[i] ELSE <<e>>[i - w]
  BY <1>3, <1>5, ConcatProperties
<1>7. (\A i \in 1 .. w : c[i] = l[i]) /\ c[w + 1] = e
  <2>1. ASSUME NEW i \in 1 .. w PROVE c[i] = l[i]
    <3>1. i \in 1 .. w + 1 /\ i <= w
      BY <1>1
    <3>2. QED
      BY <1>3, <1>6, <3>1
  <2>2. w + 1 \in 1 .. w + 1 /\ ~(w + 1 <= w) /\ w + 1 - w = 1
    BY <1>1
  <2>3. QED
    BY <1>5, <1>6, <2>1, <2>2
<1> HIDE DEF c
<1>8. /\ s \in Seq(Record) /\ Len(s) = w + 1 + Len(b)
      /\ \A i \in 1 .. w + 1 + Len(b) : s[i] = IF i <= w + 1 THEN c[i] ELSE b[i - (w + 1)]
  <2>1. s = c \o b
    BY DEF Splice, a, b, c, n, s
  <2>2. /\ s \in Seq(Record) /\ Len(s) = Len(c) + Len(b)
        /\ \A i \in 1 .. Len(c) + Len(b) : s[i] = IF i <= Len(c) THEN c[i] ELSE b[i - Len(c)]
    <3>1. c \in Seq(Record) /\ b \in Seq(Record)
      BY <1>4, <1>6
    <3>2. /\ c \o b \in Seq(Record) /\ Len(c \o b) = Len(c) + Len(b)
          /\ \A i \in 1 .. Len(c) + Len(b) :
               (c \o b)[i] = IF i <= Len(c) THEN c[i] ELSE b[i - Len(c)]
      BY <3>1, ConcatProperties
    <3>3. QED
      BY <2>1, <3>2, Zenon
  <2>3. Len(c) = w + 1
    BY <1>6
  <2>4. QED
    BY <2>2, <2>3
<1>9. Len(b) \in Nat
  BY <1>1, <1>4
<1>10. \A i \in 1 .. w + 1 : s[i] = c[i]
  <2>1. ASSUME NEW i \in 1 .. w + 1 PROVE i \in 1 .. w + 1 + Len(b) /\ i <= w + 1
    BY <1>1, <1>9
  <2>2. QED
    BY <1>8, <2>1
<1>11. ASSUME NEW i \in w + 2 .. Len(s)
       PROVE  i + v - w - 2 \in v .. n /\ s[i] = l[i + v - w - 2]
  <2>1. v <= n /\ Len(b) = n - v + 1
    BY <1>1, <1>4, <1>8
  <2>2. /\ i \in 1 .. w + 1 + Len(b) /\ ~(i <= w + 1)
        /\ i - (w + 1) \in 1 .. n - v + 1 /\ v + (i - (w + 1)) - 1 = i + v - w - 2
        /\ i + v - w - 2 \in v .. n
    <3>1. Len(s) = w + 1 + (n - v + 1) /\ i \in Int /\ w + 2 <= i /\ i <= Len(s)
      BY <1>8, <2>1
    <3>2. i \in 1 .. w + 1 + (n - v + 1) /\ ~(i <= w + 1) /\ i - (w + 1) \in 1 .. n - v + 1
      BY <1>1, <3>1
    <3>3. v + (i - (w + 1)) - 1 = i + v - w - 2 /\ i + v - w - 2 \in v .. n
      BY <1>1, <3>1
    <3>4. QED
      BY <2>1, <3>2, <3>3
  <2>3. s[i] = b[i - (w + 1)] /\ b[i - (w + 1)] = l[v + (i - (w + 1)) - 1]
    BY <1>4, <1>8, <2>2
  <2>4. QED
    BY <2>2, <2>3
<1>12. /\ \A i \in 1 .. w : s[i] = l[i]
       /\ s[w + 1] = e
  <2>1. \A i \in 1 .. w : i \in 1 .. w + 1
    BY <1>1
  <2>2. w + 1 \in 1 .. w + 1
    BY <1>1
  <2>3. QED
    BY <1>7, <1>10, <2>1, <2>2
<1>13. s # <<>> /\ Len(s) \in Nat
  <2>1. Len(s) = w + 1 + Len(b)
    BY <1>8
  <2>2. Len(s) \in Nat /\ Len(s) # 0
    BY <1>1, <1>9, <2>1
  <2>3. QED
    BY <2>2, EmptySeq
<1>14. QED
  BY <1>8, <1>11, <1>12, <1>13 DEF n, s

(* There is a place in the middle of the list for a record that does not   *)
(* belong in front of it.                                                  *)
IsPlace(l, e, i) ==
  /\ \A j \in 2 .. i : e.prio > l[j].prio
  /\ i < Len(l) => e.prio <= l[i + 1].prio
LEMMA PlaceExists ==
  ASSUME NEW l \in Seq(Record), l # <<>>, NEW e \in Record
  PROVE  \E i \in 1 .. Len(l) : IsPlace(l, e, i)
<1> DEFINE n == Len(l)
           T == {i \in 1 .. n : i = n \/ e.prio <= l[i + 1].prio}
<1>1. n \in Nat /\ n >= 1
  BY EmptySeq, LenProperties
<1>2. e.prio \in Nat /\ \A i \in 1 .. n : l[i].prio \in Nat
  <2>1. \A i \in 1 .. n : l[i] \in Record
    BY ElementOfSeq
  <2>2. QED
    BY <2>1, LoginAssumption DEF Record
<1> HIDE DEF n
<1>3. n \in T /\ T \subseteq Nat
  BY <1>1
<1>4. PICK x \in T : \A y \in T : x <= y
  <2> HIDE DEF T
  <2>1. QED
    BY <1>3, Least
<1>5. x \in 1 .. n /\ (x < n => e.prio <= l[x + 1].prio)
  BY <1>1
<1>6. ASSUME NEW j \in 2 .. x PROVE e.prio > l[j].prio
  <2>1. j - 1 \in 1 .. n /\ j - 1 # n /\ ~(x <= j - 1) /\ (j - 1) + 1 = j /\ j \in 1 .. n
    BY <1>1, <1>5
  <2>2. j - 1 \notin T
    BY <1>4, <2>1
  <2>3. ~(e.prio <= l[j].prio)
    BY <2>1, <2>2
  <2>4. QED
    BY <1>2, <2>1, <2>3
<1>7. QED
  BY <1>5, <1>6 DEF IsPlace, n

(* The insertion keeps the order, and no record that is in the list or     *)
(* comes to it is better than the one in front.                            *)
LEMMA InsertKeeps ==
  ASSUME NEW l \in Seq(Record), Ascending(l), NEW e \in Record
  PROVE  /\ Insert(l, e) \in Seq(Record) /\ Insert(l, e) # <<>> /\ Ascending(Insert(l, e))
         /\ Head(Insert(l, e)).prio <= e.prio
         /\ l # <<>> => Head(Insert(l, e)).prio <= Head(l).prio
<1> DEFINE n == Len(l)
           s == Insert(l, e)
<1>1. n \in Nat
  BY LenProperties
<1>2. e.prio \in Nat /\ \A i \in 1 .. n : l[i].prio \in Nat
  <2>1. \A i \in 1 .. n : l[i] \in Record
    BY ElementOfSeq
  <2>2. QED
    BY <2>1, LoginAssumption DEF Record
<1>3. l # <<>> => n >= 1 /\ Head(l) = l[1]
  BY EmptySeq, <1>1
<1>order. \A i, j \in 1 .. n : i <= j => l[i].prio <= l[j].prio
  BY DEF Ascending
<1>4. CASE l = <<>> \/ e.prio <= Head(l).prio
  <2> DEFINE p == <<e>> \o l
  <2>1. s = p
    BY <1>4 DEF Insert
  <2>2. <<e>> \in Seq(Record) /\ Len(<<e>>) = 1 /\ <<e>>[1] = e
    OBVIOUS
  <2> HIDE DEF n, s
  <2>3. /\ p \in Seq(Record) /\ Len(p) = 1 + n
        /\ \A i \in 1 .. 1 + n : p[i] = IF i <= 1 THEN <<e>>[i] ELSE l[i - 1]
    BY <2>2, ConcatProperties DEF n
  <2> HIDE DEF p
  <2>4. p[1] = e /\ \A i \in 2 .. 1 + n : i - 1 \in 1 .. n /\ p[i] = l[i - 1]
    <3>1. 1 \in 1 .. 1 + n
      BY <1>1
    <3>2. ASSUME NEW i \in 2 .. 1 + n PROVE i \in 1 .. 1 + n /\ ~(i <= 1) /\ i - 1 \in 1 .. n
      BY <1>1
    <3>3. QED
      BY <2>2, <2>3, <3>1, <3>2
  <2>5. p # <<>> /\ Head(p) = e
    <3>1. Len(p) # 0
      BY <1>1, <2>3
    <3>2. QED
      BY <2>3, <2>4, <3>1, EmptySeq
  <2>6. \A i \in 1 .. n : e.prio <= l[i].prio
    <3>1. ASSUME NEW i \in 1 .. n PROVE e.prio <= l[i].prio
      <4>1. n # 0 /\ 1 \in 1 .. n /\ 1 <= i
        BY <1>1
      <4>2. e.prio <= l[1].prio
        BY <1>3, <1>4, <4>1, EmptySeq DEF n
      <4>3. l[1].prio <= l[i].prio
        BY <1>order, <4>1
      <4>4. QED
        BY <1>2, <4>1, <4>2, <4>3
    <3>2. QED
      BY <3>1
  <2>7. ASSUME NEW i \in 1 .. Len(p), NEW j \in 1 .. Len(p), i <= j
        PROVE  p[i].prio <= p[j].prio
    <3>1. CASE i = 1 /\ j = 1
      BY <1>2, <2>4, <3>1
    <3>2. CASE i = 1 /\ j # 1
      <4>1. j \in 2 .. 1 + n
        BY <1>1, <2>3, <3>2
      <4>2. QED
        BY <2>4, <2>6, <3>2, <4>1
    <3>3. CASE i # 1
      <4>1. i \in 2 .. 1 + n /\ j \in 2 .. 1 + n
        BY <1>1, <2>3, <2>7, <3>3
      <4>2. i - 1 \in 1 .. n /\ j - 1 \in 1 .. n /\ i - 1 <= j - 1
        BY <1>1, <2>7, <4>1
      <4>3. p[i] = l[i - 1] /\ p[j] = l[j - 1]
        BY <2>4, <4>1
      <4>4. QED
        BY <1>order, <4>2, <4>3
    <3>4. QED
      BY <3>1, <3>2, <3>3
  <2>8. Ascending(p)
    BY <2>7 DEF Ascending
  <2>9. e.prio <= e.prio /\ (l # <<>> => e.prio <= Head(l).prio)
    BY <1>2, <1>4
  <2>10. QED
    BY <2>1, <2>3, <2>5, <2>8, <2>9 DEF s
<1>5. CASE ~(l = <<>> \/ e.prio <= Head(l).prio)
  <2> DEFINE w == CHOOSE i \in 1 .. n : IsPlace(l, e, i)
             p == Splice(l, e, w, w + 2)
  <2>1. s = p
    BY <1>5 DEF Insert, IsPlace, Splice
  <2>2. w \in 1 .. n /\ IsPlace(l, e, w)
    BY <1>5, PlaceExists
  <2>3. n >= 1 /\ Head(l) = l[1] /\ 1 \in 1 .. n /\ w \in Nat /\ w + 2 \in Nat /\ w + 2 > w
    BY <1>1, <1>3, <1>5, <2>2
  <2> HIDE DEF w, s
  <2>4. /\ p \in Seq(Record) /\ p # <<>> /\ Len(p) \in Nat
        /\ \A i \in 1 .. w : p[i] = l[i]
        /\ p[w + 1] = e
        /\ \A i \in w + 2 .. Len(p) :
             i + (w + 2) - w - 2 \in w + 2 .. n /\ p[i] = l[i + (w + 2) - w - 2]
    <3>1. PICK v \in Nat : v = w + 2
      BY <2>3
    <3>2. w \in 1 .. Len(l) /\ v > w
      BY <2>2, <2>3, <3>1
    <3>3. p = Splice(l, e, w, v)
      BY <3>1
    <3> HIDE DEF p
    <3>4. /\ p \in Seq(Record) /\ p # <<>> /\ Len(p) \in Nat
          /\ \A i \in 1 .. w : p[i] = l[i]
          /\ p[w + 1] = e
          /\ \A i \in w + 2 .. Len(p) : i + v - w - 2 \in v .. Len(l) /\ p[i] = l[i + v - w - 2]
      BY <3>2, <3>3, Spliced
    <3>5. QED
      BY <3>1, <3>4
  <2> HIDE DEF p, n
  <2>5. \A i \in w + 2 .. Len(p) : i \in 1 .. n /\ p[i] = l[i]
    <3>1. ASSUME NEW i \in w + 2 .. Len(p) PROVE i + (w + 2) - w - 2 = i
      BY <2>3, <2>4
    <3>2. \A i \in w + 2 .. n : i \in 1 .. n
      BY <1>1, <2>3
    <3>3. QED
      BY <2>4, <3>1, <3>2
  <2>6. \A i \in 1 .. w : i \in 1 .. n /\ l[i].prio <= e.prio
    <3>1. ASSUME NEW i \in 1 .. w PROVE i \in 1 .. n /\ l[i].prio <= e.prio
      <4>1. i \in 1 .. n
        BY <1>1, <2>2
      <4>2. CASE i = 1
        BY <1>2, <1>5, <2>3, <4>2
      <4>3. CASE i # 1
        <5>1. i \in 2 .. w
          BY <2>3, <4>3
        <5>2. e.prio > l[i].prio
          BY <2>2, <5>1 DEF IsPlace
        <5>3. QED
          BY <1>2, <4>1, <5>2
      <4>4. QED
        BY <4>1, <4>2, <4>3
    <3>2. QED
      BY <3>1
  <2>7. \A i \in w + 2 .. Len(p) : e.prio <= l[i].prio
    <3>1. ASSUME NEW i \in w + 2 .. Len(p) PROVE e.prio <= l[i].prio
      <4>1. i \in 1 .. n /\ w + 1 \in 1 .. n /\ w < n /\ w + 1 <= i
        BY <1>1, <2>3, <2>5
      <4>2. e.prio <= l[w + 1].prio
        BY <2>2, <4>1 DEF IsPlace, n
      <4>3. l[w + 1].prio <= l[i].prio
        BY <1>order, <4>1
      <4>4. QED
        BY <1>2, <4>1, <4>2, <4>3
    <3>2. QED
      BY <3>1
  <2>8. ASSUME NEW i \in 1 .. Len(p), NEW j \in 1 .. Len(p), i <= j
        PROVE  p[i].prio <= p[j].prio
    <3>1. i \in 1 .. w \/ i = w + 1 \/ i \in w + 2 .. Len(p)
      BY <2>3, <2>4
    <3>2. j \in 1 .. w \/ j = w + 1 \/ j \in w + 2 .. Len(p)
      BY <2>3, <2>4
    <3>3. CASE i = w + 1
      <4>1. j \notin 1 .. w
        BY <2>3, <2>8, <3>3
      <4>2. QED
        BY <1>2, <2>4, <2>5, <2>7, <3>2, <3>3, <4>1
    <3>4. CASE j = w + 1
      <4>1. i \notin w + 2 .. Len(p)
        BY <2>3, <2>8, <3>4
      <4>2. QED
        BY <1>2, <2>4, <2>6, <3>1, <3>4, <4>1
    <3>5. CASE i # w + 1 /\ j # w + 1
      <4>1. i \in 1 .. n /\ p[i] = l[i]
        BY <2>4, <2>5, <2>6, <3>1, <3>5
      <4>2. j \in 1 .. n /\ p[j] = l[j]
        BY <2>4, <2>5, <2>6, <3>2, <3>5
      <4>3. QED
        BY <1>order, <2>8, <4>1, <4>2
    <3>6. QED
      BY <3>3, <3>4, <3>5
  <2>9. Ascending(p)
    BY <2>8 DEF Ascending
  <2>10. Head(p) = l[1]
    <3>1. 1 \in 1 .. w
      BY <2>2, <1>1
    <3>2. Head(p) = p[1]
      BY <2>4
    <3>3. QED
      BY <2>4, <3>1, <3>2
  <2>11. l[1].prio <= e.prio /\ l[1].prio <= l[1].prio
    BY <1>2, <1>5, <2>3
  <2>12. QED
    BY <2>1, <2>3, <2>4, <2>9, <2>10, <2>11 DEF s
<1>6. QED
  BY <1>4, <1>5
-----------------------------------------------------------------------------
(* The addresses of the server in front of the list.                       *)
LEMMA ServerType ==
  ASSUME LoginTypeOK, list # <<>>
  PROVE  /\ server_ai \in Seq(Address) /\ Len(server_ai) \in Nat
         /\ \A i \in 1 .. Len(server_ai) : server_ai[i] \in Address /\ fate[server_ai[i]] \in Fates
<1>1. list \in Seq([host : Host, prio : Prios]) /\ fate \in [Address -> Fates]
  BY DEF LoginTypeOK
<1>2. Head(list) \in [host : Host, prio : Prios]
  BY <1>1, HeadTailProperties
<1>3. Head(list).host \in 1 .. NumHosts
  BY <1>2 DEF Host
<1>4. server_ai \in Seq(Address)
  BY <1>3, LoginAssumption DEF server_ai
<1>5. QED
  BY <1>1, <1>4, ElementOfSeq, LenProperties

(* They are a sequence, also in the next state.                            *)
ServerLen == list # <<>> => Len(server_ai) \in Nat
LEMMA ServerLenType == LoginTypeOK => ServerLen
  BY ServerType DEF ServerLen
LEMMA ServerLenNext == (LoginTypeOK => ServerLen)'
  BY ServerLenType, PTL

(* The types, of the context and of everything else.                       *)
ContextTypes ==
  /\ state \in 0 .. 8 /\ error \in {"OK", "SOCKET_ERROR"}
  /\ list \in Seq(Record) /\ answer \in Seq(Prios)
  /\ skip \in Nat /\ wait \in Nat /\ polls \in Nat /\ tried \subseteq Nat
  /\ sock \in Fds \union {0} /\ parameters \in {"none", "old", "client", "both"}
SessionTypes ==
  /\ login \in BOOLEAN
  /\ ssock \in Fds \union {0} /\ open \subseteq Fds
  /\ keys \in {"none", "old", "client", "both"}
  /\ conn \in {"LOGGED_OUT", "LOGGED_IN", "DISCONNECTED"}
  /\ fate \in [Address -> Fates] /\ logouts \in Nat /\ orderly \in BOOLEAN
  /\ req \in [Login -> {"absent", "NEW", "RUNNING", "failed", "OK"}]
LEMMA TypesSplit == LoginTypeOK <=> ContextTypes /\ SessionTypes
  BY DEF LoginTypeOK, ContextTypes, SessionTypes, Record

LEMMA NewContextTypes == NewContext => ContextTypes'
<1>1. <<>> \in Seq(Record) /\ <<>> \in Seq(Prios)
  BY EmptySeq
<1>2. QED
  BY <1>1 DEF NewContext, ContextTypes

(* No action takes the context out of its types, ...                       *)
LEMMA ContextTypeNext ==
  ASSUME LoginTypeOK, ContextIsOwned, BestServerFirst, [LoginNext]_loginVars
  PROVE  ContextTypes'
<1>0. ContextTypes
  BY TypesSplit
<1>1. CASE UNCHANGED ctxVars
  BY <1>0, <1>1 DEF ctxVars, ContextTypes
<1>2. CASE NewContext
  BY <1>2, NewContextTypes
<1>3. ASSUME NEW r \in Login, NEW p \in Prios, LookupRecord(r, p) PROVE ContextTypes'
  <2>1. /\ answer' = Append(answer, p) /\ Len(answer) < NumHosts
        /\ list' = Insert(list, [host |-> Len(answer) + 1, prio |-> p])
        /\ UNCHANGED <<state, error, skip, wait, polls, tried, sock, parameters>>
    BY <1>3 DEF LookupRecord
  <2>2. answer \in Seq(Prios) /\ Len(answer) \in Nat /\ list \in Seq(Record)
    BY <1>0, LenProperties DEF ContextTypes
  <2>3. [host |-> Len(answer) + 1, prio |-> p] \in Record
    <3>1. Len(answer) + 1 \in Host
      BY <2>1, <2>2, LoginAssumption DEF Host
    <3>2. QED
      BY <3>1 DEF Record
  <2>4. Ascending(list)
    BY DEF BestServerFirst, Ascending
  <2>5. list' \in Seq(Record)
    BY <2>1, <2>2, <2>3, <2>4, InsertKeeps
  <2>6. answer' \in Seq(Prios)
    BY <2>1, <2>2, AppendProperties
  <2>7. QED
    BY <1>0, <2>1, <2>5, <2>6 DEF ContextTypes
<1>4. ASSUME NEW r \in Login, LookupDone(r) PROVE ContextTypes'
  <2>1. <<>> \in Seq(Prios)
    BY EmptySeq
  <2>2. QED
    BY <1>0, <1>4, <2>1 DEF LookupDone, Continue, ContextTypes
<1>5. ASSUME NEW r \in Login, PickServer(r) PROVE ContextTypes'
  BY <1>0, <1>5 DEF PickServer, Continue, ContextTypes
<1>6. ASSUME NEW r \in Login, state = 2, NEW i \in 1 .. Len(server_ai), NEW fd \in Fds,
             Connect(r, i, fd)
      PROVE  ContextTypes'
  <2>1. list # <<>>
    BY <1>6 DEF ContextIsOwned
  <2>2. i \in Nat
    BY <2>1, ServerType
  <2>3. QED
    BY <1>0, <1>6, <2>2 DEF Connect, Reopen, Continue, ContextTypes
<1>7. ASSUME NEW r \in Login, NoAddress(r) PROVE ContextTypes'
  <2>1. Len(server_ai) \in Nat
    BY <1>7, ServerType DEF ContextIsOwned, NoAddress, In
  <2>2. QED
    BY <1>0, <1>7, <2>1 DEF NoAddress, Continue, ContextTypes
<1>8. ASSUME NEW r \in Login, Connected(r) PROVE ContextTypes'
  BY <1>0, <1>8 DEF Connected, Continue, ContextTypes
<1>9. ASSUME NEW r \in Login, Refused(r) PROVE ContextTypes'
  BY <1>0, <1>9 DEF Refused, Continue, ContextTypes
<1>10. ASSUME NEW r \in Login, Unanswered(r) PROVE ContextTypes'
  BY <1>0, <1>10 DEF Unanswered, Continue, ContextTypes
<1>11. ASSUME NEW r \in Login, SendParameters(r) PROVE ContextTypes'
  BY <1>0, <1>11 DEF SendParameters, Continue, ContextTypes
<1>12. ASSUME NEW r \in Login, ExchangeBreaks(r) PROVE ContextTypes'
  BY <1>0, <1>12 DEF ExchangeBreaks, Continue, ContextTypes
<1>13. ASSUME NEW r \in Login, ReceiveParameters(r) PROVE ContextTypes'
  BY <1>0, <1>13 DEF ReceiveParameters, Continue, ContextTypes
<1>14. ASSUME NEW r \in Login, Compute(r) PROVE ContextTypes'
  BY <1>0, <1>14 DEF Compute, Continue, ContextTypes
<1>15. ASSUME NEW r \in Login, SendAuth(r) PROVE ContextTypes'
  BY <1>0, <1>15 DEF SendAuth, Continue, ContextTypes
<1>16. ASSUME NEW r \in Login, Process(r) PROVE ContextTypes'
  <2>1. Fails(r) \/ StartLogin(r) \/ LoggedIn(r) => NewContext
    BY DEF Fails, StartLogin, LoggedIn
  <2>2. LoginCancelled(r) => UNCHANGED ctxVars
    BY DEF LoginCancelled
  <2>3. QED
    BY <1>1, <1>2, <1>3, <1>4, <1>5, <1>6, <1>7, <1>8, <1>9, <1>10, <1>11, <1>12, <1>13, <1>14,
       <1>15, <1>16, <2>1, <2>2
    DEF Process, LookupFails, PickFails, NoSocket, PollFails, Denied, AuthFails
<1>17. (\E r \in Login : AppLogin(r)) \/ Disconnect \/ UNCHANGED loginVars => UNCHANGED ctxVars
  BY DEF AppLogin, Disconnect, loginVars
<1>18. Logout => NewContext
  BY DEF Logout
<1>19. QED
  BY <1>1, <1>2, <1>16, <1>17, <1>18 DEF LoginNext
-----------------------------------------------------------------------------
(* login_process() returns 0: the request goes on, with the socket that it *)
(* has, without one, or with a new one in place of it.                     *)
Keeps == UNCHANGED <<open, sock>> /\ (state' >= 3 => state >= 3)
Closes == open' = Closed(sock) /\ sock' = 0 /\ state' = 2
Opens(fd) == fd \notin Closed(sock) /\ open' = Closed(sock) \union {fd} /\ sock' = fd
Continues(r) ==
  /\ req[r] = "RUNNING" /\ login
  /\ UNCHANGED <<fate, login, req, sessionVars, logouts>>
  /\ Keeps \/ Closes \/ \E fd \in Fds : Opens(fd)
  /\ state' >= 1 => list' = list /\ (list # <<>> \/ state >= 1)

(* What becomes of a request in a pass of the networking thread.           *)
LEMMA ProcessSteps ==
  ASSUME NEW r \in Login, Process(r)
  PROVE  \/ StartLogin(r) \/ LoginCancelled(r)
         \/ req[r] = "RUNNING" /\ login /\ (Fails(r) \/ LoggedIn(r))
         \/ Continues(r)
<1> USE DEF Continues, Keeps, In, Continue
<1>1. ASSUME NEW p \in Prios, LookupRecord(r, p) PROVE Continues(r)
  BY <1>1 DEF LookupRecord
<1>2. CASE LookupDone(r)
  BY <1>2 DEF LookupDone
<1>3. CASE PickServer(r)
  BY <1>3 DEF PickServer
<1>4. ASSUME NEW i, NEW fd \in Fds, Connect(r, i, fd) PROVE Continues(r)
  <2>1. Opens(fd)
    BY <1>4 DEF Connect, Reopen, Opens
  <2>2. QED
    BY <1>4, <2>1 DEF Connect, Reopen
<1>5. CASE NoAddress(r)
  BY <1>5 DEF NoAddress
<1>6. CASE Connected(r)
  BY <1>6 DEF Connected
<1>7. CASE Refused(r)
  BY <1>7 DEF Refused, Closes
<1>8. CASE Unanswered(r)
  <2>1. CASE wait + 1 >= MaxPolls
    BY <1>8, <2>1 DEF Unanswered, Closes
  <2>2. CASE ~(wait + 1 >= MaxPolls)
    BY <1>8, <2>2 DEF Unanswered
  <2>3. QED
    BY <2>1, <2>2
<1>9. CASE SendParameters(r)
  BY <1>9 DEF SendParameters
<1>10. CASE ExchangeBreaks(r)
  BY <1>10 DEF ExchangeBreaks
<1>11. CASE ReceiveParameters(r)
  BY <1>11 DEF ReceiveParameters
<1>12. CASE Compute(r)
  BY <1>12 DEF Compute
<1>13. CASE SendAuth(r)
  BY <1>13 DEF SendAuth
<1>14. (\E i \in 1 .. Len(server_ai) : NoSocket(r, i)) \/ LookupFails(r) \/ PickFails(r)
         \/ PollFails(r) \/ Denied(r) \/ AuthFails(r)
           => req[r] = "RUNNING" /\ login /\ Fails(r)
  BY DEF NoSocket, LookupFails, PickFails, PollFails, Denied, AuthFails
<1>15. LoggedIn(r) => req[r] = "RUNNING" /\ login /\ LoggedIn(r)
  BY DEF LoggedIn
<1> HIDE DEF Continues, Keeps, In, Continue
<1>16. QED
  BY <1>1, <1>2, <1>3, <1>4, <1>5, <1>6, <1>7, <1>8, <1>9, <1>10, <1>11, <1>12, <1>13, <1>14,
     <1>15 DEF Process

(* ... and neither does any take the session out of its own.               *)
LEMMA SessionTypeNext ==
  ASSUME LoginTypeOK, [LoginNext]_loginVars
  PROVE  SessionTypes'
<1>0. ContextTypes /\ SessionTypes
  BY TypesSplit
<1>1. ASSUME NEW r \in Login, AppLogin(r) PROVE SessionTypes'
  BY <1>0, <1>1 DEF AppLogin, SessionTypes
<1>2. ASSUME NEW r \in Login, StartLogin(r) PROVE SessionTypes'
  BY <1>0, <1>2 DEF StartLogin, SessionTypes, sessionVars
<1>3. ASSUME NEW r \in Login, LoginCancelled(r) PROVE SessionTypes'
  BY <1>0, <1>3 DEF LoginCancelled, SessionTypes, sessionVars
<1>4. ASSUME NEW r \in Login, Fails(r) PROVE SessionTypes'
  BY <1>0, <1>4 DEF Fails, SessionTypes, sessionVars, Closed
<1>5. ASSUME NEW r \in Login, LoggedIn(r) PROVE SessionTypes'
  BY <1>0, <1>5 DEF LoggedIn, SessionTypes, ContextTypes
<1>6. ASSUME NEW r \in Login, Continues(r) PROVE SessionTypes'
  <2>1. open' \subseteq Fds
    BY <1>0, <1>6 DEF Continues, Keeps, Closes, Opens, Closed, SessionTypes
  <2>2. QED
    BY <1>0, <1>6, <2>1 DEF Continues, SessionTypes, sessionVars
<1>7. CASE Logout
  <2>1. /\ open' \subseteq open /\ login' = FALSE /\ ssock' = 0 /\ keys' = "none"
        /\ conn' = "LOGGED_OUT" /\ UNCHANGED <<fate, req>> /\ logouts' = logouts + 1
        /\ orderly' = (orderly /\ ~Outstanding)
    BY <1>7 DEF Logout, NewContext
  <2>2. orderly' \in BOOLEAN
    BY <2>1
  <2>3. logouts' \in Nat
    BY <1>0, <2>1 DEF SessionTypes
  <2>4. open' \subseteq Fds
    BY <1>0, <2>1 DEF SessionTypes
  <2>5. QED
    BY <1>0, <2>1, <2>2, <2>3, <2>4 DEF SessionTypes
<1>8. CASE Disconnect
  BY <1>0, <1>8 DEF Disconnect, SessionTypes, Closed
<1>9. CASE UNCHANGED loginVars
  BY <1>0, <1>9 DEF loginVars, sessionVars, SessionTypes
<1>10. QED
  BY <1>1, <1>2, <1>3, <1>4, <1>5, <1>6, <1>7, <1>8, <1>9, ProcessSteps DEF LoginNext

LEMMA TypeNext ==
  ASSUME LoginTypeOK, ContextIsOwned, BestServerFirst, [LoginNext]_loginVars
  PROVE  LoginTypeOK'
<1>1. ContextTypes' /\ SessionTypes'
  BY ContextTypeNext, SessionTypeNext
<1>2. (ContextTypes /\ SessionTypes)' => LoginTypeOK'
  BY DEF LoginTypeOK, ContextTypes, SessionTypes, Record
<1>3. QED
  BY <1>1, <1>2

(* Every priority is a number.                                             *)
LEMMA HeadPrio ==
  ASSUME NEW l \in Seq(Record), l # <<>>
  PROVE  Head(l).prio \in Nat
<1>1. Head(l) \in Record
  BY HeadTailProperties
<1>2. QED
  BY <1>1, LoginAssumption DEF Record

(* The order of the list, and the best server in front.                    *)
LEMMA BestNext ==
  ASSUME LoginTypeOK, BestServerFirst, [LoginNext]_loginVars
  PROVE  BestServerFirst'
<1>1. CASE list' = list /\ answer' = answer
  BY <1>1 DEF BestServerFirst
<1>2. CASE list' = list /\ answer' = <<>>
  BY <1>2 DEF BestServerFirst
<1>3. CASE list' = <<>> /\ answer' = <<>>
  <2>1. \A i : i \notin 1 .. Len(<<>>)
    OBVIOUS
  <2>2. QED
    BY <1>3, <2>1 DEF BestServerFirst
<1>4. ASSUME NEW r \in Login, NEW p \in Prios, LookupRecord(r, p) PROVE BestServerFirst'
  <2> DEFINE e == [host |-> Len(answer) + 1, prio |-> p]
  <2>1. answer' = Append(answer, p) /\ Len(answer) < NumHosts /\ list' = Insert(list, e)
    BY <1>4 DEF LookupRecord
  <2>2. answer \in Seq(Prios) /\ Len(answer) \in Nat /\ list \in Seq(Record) /\ p \in Nat
    BY TypesSplit, LenProperties, LoginAssumption DEF ContextTypes
  <2>3. e \in Record /\ e.prio = p
    <3>1. Len(answer) + 1 \in Host
      BY <2>1, <2>2, LoginAssumption DEF Host
    <3>2. QED
      BY <3>1 DEF Record
  <2>4. Ascending(list)
    BY DEF BestServerFirst, Ascending
  <2> HIDE DEF e
  <2>5. /\ list' \in Seq(Record) /\ list' # <<>> /\ Ascending(list') /\ Head(list').prio <= p
        /\ list # <<>> => Head(list').prio <= Head(list).prio
    BY <2>1, <2>2, <2>3, <2>4, InsertKeeps
  <2>6. /\ Len(answer') = Len(answer) + 1
        /\ \A i \in 1 .. Len(answer) : answer'[i] = answer[i]
        /\ answer'[Len(answer) + 1] = p
    BY <2>1, <2>2, AppendProperties
  <2>7. Head(list').prio \in Nat
    BY <2>5, HeadPrio
  <2>8. ASSUME NEW i \in 1 .. Len(answer) PROVE Head(list').prio <= answer[i]
    <3>1. answer # <<>>
      BY <2>2, EmptySeq
    <3>2. list # <<>> /\ Head(list).prio <= answer[i]
      BY <3>1 DEF BestServerFirst
    <3>3. Head(list).prio \in Nat
      BY <2>2, <3>2, HeadPrio
    <3>4. answer[i] \in Nat
      BY <2>2, ElementOfSeq, LoginAssumption
    <3>5. QED
      BY <2>5, <2>7, <3>2, <3>3, <3>4
  <2>9. ASSUME NEW i \in 1 .. Len(answer') PROVE Head(list').prio <= answer'[i]
    <3>1. i \in 1 .. Len(answer) \/ i = Len(answer) + 1
      BY <2>2, <2>6
    <3>2. QED
      BY <2>5, <2>6, <2>8, <3>1
  <2>10. QED
    BY <2>5, <2>9 DEF BestServerFirst, Ascending
<1>5. ASSUME NEW r \in Login, Process(r) PROVE BestServerFirst'
  <2>1. Fails(r) \/ StartLogin(r) \/ LoggedIn(r) => list' = <<>> /\ answer' = <<>>
    BY DEF Fails, StartLogin, LoggedIn, NewContext
  <2>2. \/ LoginCancelled(r) \/ PickServer(r) \/ NoAddress(r) \/ Connected(r) \/ Refused(r)
        \/ Unanswered(r) \/ SendParameters(r) \/ ExchangeBreaks(r) \/ ReceiveParameters(r)
        \/ Compute(r) \/ SendAuth(r) \/ (\E i \in 1 .. Len(server_ai), fd \in Fds : Connect(r, i, fd))
        => list' = list /\ answer' = answer
    BY DEF LoginCancelled, PickServer, NoAddress, Connected, Refused, Unanswered, SendParameters,
           ExchangeBreaks, ReceiveParameters, Compute, SendAuth, Connect, Reopen, ctxVars
  <2>3. LookupDone(r) => list' = list /\ answer' = <<>>
    BY DEF LookupDone
  <2>4. QED
    BY <1>1, <1>2, <1>3, <1>4, <1>5, <2>1, <2>2, <2>3
    DEF Process, LookupFails, PickFails, NoSocket, PollFails, Denied, AuthFails
<1>6. (\E r \in Login : AppLogin(r)) \/ Disconnect \/ UNCHANGED loginVars
        => list' = list /\ answer' = answer
  BY DEF AppLogin, Disconnect, loginVars, ctxVars
<1>7. Logout => list' = <<>> /\ answer' = <<>>
  BY DEF Logout, NewContext
<1>8. QED
  BY <1>1, <1>3, <1>5, <1>6, <1>7 DEF LoginNext

(* The socket of the login and that of the session.                        *)
LEMMA SocketsNext ==
  ASSUME LoginTypeOK, ContextIsOwned, SocketsAreOwned, [LoginNext]_loginVars
  PROVE  SocketsAreOwned'
<1>0. /\ sock \in Fds \union {0} /\ ssock \in Fds \union {0} /\ open \subseteq Fds /\ 0 \notin Fds
      /\ login \in BOOLEAN /\ state \in 0 .. 8
  BY DEF LoginTypeOK, Fds
<1>1. ASSUME NEW r \in Login, AppLogin(r) PROVE SocketsAreOwned'
  BY <1>1 DEF AppLogin, SocketsAreOwned, ctxVars
<1>2. ASSUME NEW r \in Login, StartLogin(r) PROVE SocketsAreOwned'
  <2>1. state' = 0 /\ sock' = 0 /\ UNCHANGED <<open, ssock, conn>>
    BY <1>2 DEF StartLogin, NewContext, sessionVars
  <2>2. QED
    BY <2>1 DEF SocketsAreOwned
<1>3. ASSUME NEW r \in Login, LoginCancelled(r) PROVE SocketsAreOwned'
  BY <1>3 DEF LoginCancelled, SocketsAreOwned, ctxVars, sessionVars
<1>4. ASSUME NEW r \in Login, login, Fails(r) PROVE SocketsAreOwned'
  <2>1. ~login' /\ open' = open \ {sock} /\ UNCHANGED <<ssock, conn>>
    BY <1>4 DEF Fails, Closed, sessionVars
  <2>2. conn = "LOGGED_IN" => ssock \in open \ {sock}
    BY <1>0, <1>4 DEF SocketsAreOwned
  <2>3. QED
    BY <2>1, <2>2 DEF SocketsAreOwned
<1>5. ASSUME NEW r \in Login, login, LoggedIn(r) PROVE SocketsAreOwned'
  <2>1. ~login' /\ open' = open /\ ssock' = sock /\ conn' = "LOGGED_IN" /\ state = 8
    BY <1>5 DEF LoggedIn, In
  <2>2. sock \in open
    BY <1>5, <2>1 DEF SocketsAreOwned
  <2>3. QED
    BY <2>1, <2>2 DEF SocketsAreOwned
<1>6. ASSUME NEW r \in Login, Continues(r) PROVE SocketsAreOwned'
  <2>1. login /\ login' /\ UNCHANGED <<ssock, conn>>
    BY <1>6 DEF Continues, sessionVars
  <2>2. conn = "LOGGED_IN" => ssock \in open /\ ssock \in Closed(sock)
    BY <1>0, <2>1 DEF SocketsAreOwned, Closed
  <2>3. ssock # 0 => conn = "LOGGED_IN"
    BY DEF SocketsAreOwned
  <2>4. CASE Keeps
    BY <2>1, <2>4 DEF Keeps, SocketsAreOwned
  <2>5. CASE Closes
    BY <2>1, <2>2, <2>3, <2>5 DEF Closes, SocketsAreOwned
  <2>6. ASSUME NEW fd \in Fds, Opens(fd) PROVE SocketsAreOwned'
    <3>1. sock' = fd /\ fd \in open' /\ fd # 0 /\ (conn = "LOGGED_IN" => ssock \in open')
      BY <1>0, <2>2, <2>6 DEF Opens
    <3>2. fd # ssock
      BY <1>0, <2>2, <2>3, <2>6 DEF Opens
    <3>3. QED
      BY <2>1, <2>3, <3>1, <3>2 DEF SocketsAreOwned
  <2>7. QED
    BY <1>6, <2>4, <2>5, <2>6 DEF Continues
<1>7. CASE Logout
  BY <1>7 DEF Logout, NewContext, SocketsAreOwned
<1>8. CASE Disconnect
  <2>1. /\ conn' # "LOGGED_IN" /\ ssock' = 0 /\ open' = open \ {ssock}
        /\ UNCHANGED <<login, state, sock>>
    BY <1>8 DEF Disconnect, Closed, ctxVars
  <2>2. login /\ state >= 3 => sock # 0
    BY <1>0 DEF SocketsAreOwned
  <2>3. QED
    BY <2>1, <2>2 DEF SocketsAreOwned
<1>9. CASE UNCHANGED loginVars
  BY <1>9 DEF loginVars, ctxVars, sessionVars, SocketsAreOwned
<1>10. QED
  BY <1>1, <1>2, <1>3, <1>4, <1>5, <1>6, <1>7, <1>8, <1>9, ProcessSteps DEF LoginNext

(* The context and the request that it belongs to.                         *)
LEMMA ContextNext ==
  ASSUME LoginTypeOK, ContextIsOwned, [LoginNext]_loginVars
  PROVE  ContextIsOwned'
<1>0. req \in [Login -> {"absent", "NEW", "RUNNING", "failed", "OK"}]
  BY DEF LoginTypeOK
<1>1. ASSUME NEW r \in Login, AppLogin(r) PROVE ContextIsOwned'
  <2>1. \A q \in Login : req[q] = "RUNNING" => req'[q] = "RUNNING"
    BY <1>0, <1>1 DEF AppLogin
  <2>2. QED
    BY <1>1, <2>1 DEF AppLogin, ContextIsOwned, ctxVars
<1>2. ASSUME NewContext, ~login' PROVE ContextIsOwned'
  BY <1>2 DEF NewContext, ContextIsOwned
<1>3. ASSUME NEW r \in Login, StartLogin(r) PROVE ContextIsOwned'
  <2>1. req'[r] = "RUNNING" /\ login' /\ state' = 0
    BY <1>0, <1>3 DEF StartLogin, NewContext
  <2>2. QED
    BY <2>1 DEF ContextIsOwned
<1>4. ASSUME NEW r \in Login, LoginCancelled(r) PROVE ContextIsOwned'
  BY <1>4 DEF LoginCancelled, ContextIsOwned, ctxVars
<1>5. ASSUME NEW r \in Login, Continues(r) PROVE ContextIsOwned'
  BY <1>5 DEF Continues, ContextIsOwned
<1>6. CASE Disconnect \/ UNCHANGED loginVars
  BY <1>6 DEF Disconnect, loginVars, ctxVars, ContextIsOwned
<1>7. \A r \in Login : Fails(r) \/ LoggedIn(r) => NewContext /\ ~login'
  BY DEF Fails, LoggedIn
<1>8. Logout => NewContext /\ ~login'
  BY DEF Logout
<1>9. QED
  BY <1>1, <1>2, <1>3, <1>4, <1>5, <1>6, <1>7, <1>8, ProcessSteps DEF LoginNext

(* An orderly application.                                                 *)
LEMMA OrderNext ==
  ASSUME LoginTypeOK, ContextIsOwned, OneAtATime, [LoginNext]_loginVars
  PROVE  OneAtATime'
<1> DEFINE Due(q) == req[q] \in {"NEW", "RUNNING"}
<1>0. /\ req \in [Login -> {"absent", "NEW", "RUNNING", "failed", "OK"}]
      /\ OneAtATime <=> (orderly => /\ \A q, u \in Login : Due(q) /\ Due(u) => q = u
                                    /\ (\E q \in Login : Due(q)) => conn # "LOGGED_IN")
  BY DEF LoginTypeOK, OneAtATime, Outstanding
<1>next. OneAtATime' <=> (orderly' => /\ \A q, u \in Login : Due(q)' /\ Due(u)' => q = u
                                      /\ (\E q \in Login : Due(q)') => conn' # "LOGGED_IN")
  BY DEF OneAtATime, Outstanding
<1>1. ASSUME NEW r \in Login, AppLogin(r) PROVE OneAtATime'
  <2>1. orderly' => orderly /\ (\A q \in Login : ~Due(q)) /\ conn # "LOGGED_IN"
    BY <1>1 DEF AppLogin, Outstanding
  <2>2. \A q \in Login : q # r => req'[q] = req[q]
    BY <1>0, <1>1 DEF AppLogin
  <2>3. conn' = conn
    BY <1>1 DEF AppLogin
  <2>4. QED
    BY <1>next, <2>1, <2>2, <2>3
<1>2. ASSUME orderly' => orderly, conn' = conn \/ conn' # "LOGGED_IN",
             \A q \in Login : Due(q)' => Due(q)
      PROVE  OneAtATime'
  BY <1>0, <1>2, <1>next
<1>3. ASSUME NEW r \in Login, StartLogin(r) PROVE OneAtATime'
  <2>1. \A q \in Login : Due(q)' => Due(q)
    BY <1>0, <1>3 DEF StartLogin
  <2>2. QED
    BY <1>2, <1>3, <2>1 DEF StartLogin, sessionVars
<1>4. ASSUME NEW r \in Login, LoginCancelled(r) PROVE OneAtATime'
  <2>1. \A q \in Login : Due(q)' => Due(q)
    BY <1>0, <1>4 DEF LoginCancelled
  <2>2. QED
    BY <1>2, <1>4, <2>1 DEF LoginCancelled, sessionVars
<1>5. ASSUME NEW r \in Login, Fails(r) PROVE OneAtATime'
  <2>1. \A q \in Login : Due(q)' => Due(q)
    BY <1>0, <1>5 DEF Fails
  <2>2. QED
    BY <1>2, <1>5, <2>1 DEF Fails, sessionVars
<1>6. ASSUME NEW r \in Login, req[r] = "RUNNING", LoggedIn(r) PROVE OneAtATime'
  <2>1. req'[r] = "OK" /\ (\A q \in Login : q # r => req'[q] = req[q]) /\ orderly' = orderly
    BY <1>0, <1>6 DEF LoggedIn
  <2>2. orderly => \A q \in Login : ~Due(q)'
    BY <1>0, <1>6, <2>1
  <2>3. QED
    BY <1>next, <2>1, <2>2
<1>7. ASSUME NEW r \in Login, Continues(r) PROVE OneAtATime'
  BY <1>2, <1>7 DEF Continues, sessionVars
<1>8. CASE Logout
  BY <1>2, <1>8 DEF Logout
<1>9. CASE Disconnect
  BY <1>2, <1>9 DEF Disconnect
<1>10. CASE UNCHANGED loginVars
  BY <1>2, <1>10 DEF loginVars, sessionVars
<1>11. QED
  BY <1>1, <1>3, <1>4, <1>5, <1>6, <1>7, <1>8, <1>9, <1>10, ProcessSteps DEF LoginNext

(* When no address is left, all of a suitable family have been tried: if   *)
(* one was not, the first such would be the next address.                  *)
LEMMA NoneLeft ==
  ASSUME LoginTypeOK, list # <<>>, TriedSoFar, \A i \in 1 .. Len(server_ai) : ~IsNextAddress(i)
  PROVE  tried = {i \in 1 .. Len(server_ai) : fate[server_ai[i]] # "other"}
<1> DEFINE n == Len(server_ai)
           Suits(i) == fate[server_ai[i]] # "other"
           T == {i \in skip + 1 .. n : Suits(i)}
<1>1. /\ n \in Nat /\ skip \in Nat /\ skip <= n
      /\ tried = {i \in 1 .. skip : Suits(i)}
  BY ServerType DEF TriedSoFar, LoginTypeOK
<1>2. \A i \in 1 .. n : ~IsNextAddress(i)
  OBVIOUS
<1> HIDE DEF n, Suits
<1>3. T = {}
  <2>1. SUFFICES ASSUME T # {} PROVE FALSE
    OBVIOUS
  <2>2. PICK x \in T : \A y \in T : x <= y
    <3>1. T \subseteq Nat
      BY <1>1
    <3> HIDE DEF T
    <3>2. QED
      BY <2>1, <3>1, Least
  <2>3. x \in 1 .. n /\ x > skip /\ Suits(x)
    BY <1>1
  <2>4. ASSUME NEW j \in skip + 1 .. x - 1 PROVE ~Suits(j)
    <3>1. j \in skip + 1 .. n /\ ~(x <= j)
      BY <1>1, <2>3
    <3>2. QED
      BY <2>2, <3>1
  <2>5. IsNextAddress(x)
    BY <2>3, <2>4 DEF IsNextAddress, Suits
  <2>6. QED
    BY <1>2, <2>3, <2>5
<1>4. \A i \in 1 .. n : i \in 1 .. skip \/ i \in skip + 1 .. n
  BY <1>1
<1>5. \A i \in 1 .. skip : i \in 1 .. n
  BY <1>1
<1>6. tried = {i \in 1 .. n : Suits(i)}
  BY <1>1, <1>3, <1>4, <1>5
<1>7. QED
  BY <1>6 DEF n, Suits

(* The addresses that were tried.                                          *)
LEMMA TriedNext ==
  ASSUME LoginTypeOK, ContextIsOwned, BestServerFirst, TriedSoFar, [LoginNext]_loginVars
  PROVE  TriedSoFar'
<1>0. skip \in Nat /\ state \in 0 .. 8 /\ fate' = fate
  BY DEF LoginTypeOK, LoginNext, Process, AppLogin, StartLogin, LoginCancelled, LookupRecord,
         LookupDone, LookupFails, PickServer, PickFails, Fails, Continue, NoSocket, Connect,
         NoAddress, Connected, Refused, Unanswered, PollFails, SendParameters, ExchangeBreaks,
         ReceiveParameters, Denied, Compute, SendAuth, LoggedIn, AuthFails, Logout, Disconnect,
         loginVars
<1>1. ASSUME NewContext PROVE TriedSoFar'
  BY <1>1 DEF NewContext, TriedSoFar
<1>2. ASSUME UNCHANGED <<list, skip, tried>>, state' = state \/ state' # 0 PROVE TriedSoFar'
  BY <1>0, <1>2 DEF TriedSoFar, server_ai
<1>3. ASSUME skip' = 0, tried' = {} PROVE TriedSoFar'
  <2>1. list' # <<>> => Len(server_ai)' \in Nat
    BY TypeNext, ServerLenNext DEF ServerLen
  <2>2. QED
    BY <1>3, <2>1 DEF TriedSoFar
<1>4. ASSUME NEW r \in Login, NEW p \in Prios, LookupRecord(r, p) PROVE TriedSoFar'
  BY <1>3, <1>4 DEF LookupRecord, In, TriedSoFar
<1>5. ASSUME NEW r \in Login, PickServer(r) PROVE TriedSoFar'
  BY <1>3, <1>5 DEF PickServer
<1>6. ASSUME NEW r \in Login, state = 2, NEW i \in 1 .. Len(server_ai), NEW fd \in Fds,
             Connect(r, i, fd)
      PROVE  TriedSoFar'
  <2>1. list # <<>> /\ Len(server_ai) \in Nat /\ i \in Nat
    BY <1>6, ServerType DEF ContextIsOwned
  <2>2. /\ list' = list /\ skip' = i /\ tried' = tried \union {i} /\ state' # 0
        /\ i > skip /\ fate[server_ai[i]] # "other"
        /\ \A j \in skip + 1 .. i - 1 : fate[server_ai[j]] = "other"
    BY <1>6 DEF Connect, Reopen, IsNextAddress, Continue
  <2>3. tried = {x \in 1 .. skip : fate[server_ai[x]] # "other"}
    BY <2>1 DEF TriedSoFar
  <2> DEFINE T == {x \in 1 .. i : fate[server_ai[x]] # "other"}
  <2>4. ASSUME NEW x \in T PROVE x \in tried \union {i}
    <3>1. x \in 1 .. skip \/ x \in skip + 1 .. i - 1 \/ x = i
      BY <1>0, <2>1, <2>2
    <3>2. QED
      BY <2>2, <2>3, <3>1
  <2>5. ASSUME NEW x \in tried \union {i} PROVE x \in T
    <3>1. CASE x = i
      BY <2>1, <2>2, <3>1
    <3>2. CASE x \in tried
      <4>1. x \in 1 .. skip /\ fate[server_ai[x]] # "other"
        BY <2>3, <3>2
      <4>2. x \in 1 .. i
        BY <1>0, <2>1, <2>2, <4>1
      <4>3. QED
        BY <4>1, <4>2
    <3>3. QED
      BY <3>1, <3>2
  <2>6. tried' = T
    BY <2>2, <2>4, <2>5
  <2>7. server_ai' = server_ai
    BY <2>2 DEF server_ai
  <2>8. i <= Len(server_ai)
    BY <2>1
  <2> HIDE DEF T
  <2>9. tried' = {x \in 1 .. skip' : fate'[server_ai'[x]] # "other"}
    BY <1>0, <2>2, <2>6, <2>7 DEF T
  <2>10. skip' <= Len(server_ai')
    BY <2>2, <2>7, <2>8
  <2>11. QED
    BY <2>1, <2>2, <2>9, <2>10 DEF TriedSoFar
<1>7. ASSUME NEW r \in Login, NoAddress(r) PROVE TriedSoFar'
  <2>1. /\ list # <<>> /\ Len(server_ai) \in Nat
        /\ list' = list /\ skip' = Len(server_ai) /\ tried' = tried /\ state' # 0
    BY <1>7, ServerType DEF NoAddress, In, Continue, ContextIsOwned
  <2>2. tried = {x \in 1 .. Len(server_ai) : fate[server_ai[x]] # "other"}
    BY <1>7, <2>1, NoneLeft DEF NoAddress
  <2>3. server_ai' = server_ai
    BY <2>1 DEF server_ai
  <2>4. /\ skip' <= Len(server_ai')
        /\ tried' = {x \in 1 .. skip' : fate'[server_ai'[x]] # "other"}
    BY <1>0, <2>1, <2>2, <2>3
  <2>5. QED
    BY <2>1, <2>4 DEF TriedSoFar
<1>8. ASSUME NEW r \in Login, Process(r) PROVE TriedSoFar'
  <2>1. Fails(r) \/ StartLogin(r) \/ LoggedIn(r) => NewContext
    BY DEF Fails, StartLogin, LoggedIn
  <2>2. \/ LoginCancelled(r) \/ LookupDone(r) \/ Connected(r) \/ Refused(r)
        \/ SendParameters(r) \/ ExchangeBreaks(r) \/ ReceiveParameters(r)
        \/ Compute(r) \/ SendAuth(r)
        => UNCHANGED <<list, skip, tried>> /\ (state' = state \/ state' # 0)
    BY DEF LoginCancelled, LookupDone, Connected, Refused, SendParameters, ExchangeBreaks,
           ReceiveParameters, Compute, SendAuth, Continue, ctxVars
  <2>3. Unanswered(r) => UNCHANGED <<list, skip, tried>> /\ (state' = state \/ state' # 0)
    BY DEF Unanswered, Continue
  <2>4. QED
    BY <1>1, <1>2, <1>4, <1>5, <1>6, <1>7, <1>8, <2>1, <2>2, <2>3
    DEF Process, LookupFails, PickFails, NoSocket, PollFails, Denied, AuthFails
<1>9. (\E r \in Login : AppLogin(r)) \/ Disconnect \/ UNCHANGED loginVars
        => UNCHANGED <<list, skip, tried>> /\ state' = state
  BY DEF AppLogin, Disconnect, loginVars, ctxVars
<1>10. Logout => NewContext
  BY DEF Logout
<1>11. QED
  BY <1>1, <1>2, <1>8, <1>9, <1>10 DEF LoginNext
-----------------------------------------------------------------------------
(* The invariant of the login holds in every state, also if logins and     *)
(* logouts overlap: the server in front of the list is the best that was   *)
(* found, login and session have an open socket each and never share it,   *)
(* a context belongs to a running request, and the addresses up to the     *)
(* current one were connected to.                                          *)
THEOREM LoginInvariant == LoginSpec => []LoginInv
<1>1. LoginInit => LoginInv
  <2> SUFFICES ASSUME LoginInit PROVE LoginInv
    OBVIOUS
  <2> USE DEF LoginInit
  <2>1. <<>> \in Seq([host : Host, prio : Prios]) /\ <<>> \in Seq(Prios) /\ Len(<<>>) = 0
    BY EmptySeq
  <2>2. LoginTypeOK
    <3>1. req \in [Login -> {"absent", "NEW", "RUNNING", "failed", "OK"}]
      OBVIOUS
    <3>2. list \in Seq([host : Host, prio : Prios]) /\ answer \in Seq(Prios)
      BY <2>1
    <3>3. login \in BOOLEAN /\ error \in {"OK", "SOCKET_ERROR"} /\ orderly \in BOOLEAN
      OBVIOUS
    <3>4. /\ skip \in Nat /\ wait \in Nat /\ polls \in Nat /\ tried \subseteq Nat
          /\ sock \in Fds \union {0} /\ ssock \in Fds \union {0} /\ open \subseteq Fds
          /\ logouts \in Nat /\ state \in 0 .. 8
      OBVIOUS
    <3>5. QED
      BY <3>1, <3>2, <3>3, <3>4 DEF LoginTypeOK
  <2>3. BestServerFirst
    <3>1. \A i : i \notin 1 .. Len(<<>>)
      BY <2>1
    <3>2. QED
      BY <3>1 DEF BestServerFirst
  <2>4. SocketsAreOwned /\ ContextIsOwned /\ TriedSoFar
    BY DEF SocketsAreOwned, ContextIsOwned, TriedSoFar
  <2>5. OneAtATime
    BY DEF OneAtATime, Outstanding
  <2>6. QED
    BY <2>2, <2>3, <2>4, <2>5 DEF LoginInv
<1>2. LoginInv /\ [LoginNext]_loginVars => LoginInv'
  BY TypeNext, BestNext, SocketsNext, ContextNext, TriedNext, OrderNext DEF LoginInv
<1>3. QED
  BY <1>1, <1>2, PTL DEF LoginSpec

(* An application that waits for each login and logs out before the next   *)
(* never leaves a descriptor open that neither the session nor the login   *)
(* knows of, whatever fails in between.                                    *)
THEOREM LoginLeaksNothing == LoginSpec => []NoSocketLeak
<1>1. LoginInit => NoSocketLeak
  BY DEF LoginInit, NoSocketLeak
<1>2. ASSUME LoginInv, NoSocketLeak, [LoginNext]_loginVars
      PROVE  NoSocketLeak'
  <2>0. /\ LoginTypeOK /\ ContextIsOwned /\ OneAtATime /\ SocketsAreOwned
        /\ login \in BOOLEAN /\ open \subseteq Fds /\ 0 \notin Fds
    BY <1>2 DEF LoginInv, LoginTypeOK, Fds
  <2>1. ASSUME NEW r \in Login, AppLogin(r) PROVE NoSocketLeak'
    BY <1>2, <2>1 DEF AppLogin, NoSocketLeak, ctxVars
  <2>2. ASSUME NEW r \in Login, StartLogin(r) PROVE NoSocketLeak'
    <3>1. orderly' = orderly /\ ssock' = ssock /\ open' = open /\ req[r] = "NEW"
      BY <2>2 DEF StartLogin, sessionVars
    <3>2. orderly => ~login
      BY <2>0, <3>1 DEF ContextIsOwned, OneAtATime
    <3>3. QED
      BY <1>2, <3>1, <3>2 DEF NoSocketLeak
  <2>3. ASSUME NEW r \in Login, LoginCancelled(r) PROVE NoSocketLeak'
    BY <1>2, <2>3 DEF LoginCancelled, NoSocketLeak, ctxVars, sessionVars
  <2>4. ASSUME NEW r \in Login, login, Fails(r) PROVE NoSocketLeak'
    BY <1>2, <2>4 DEF Fails, Closed, NoSocketLeak, sessionVars
  <2>5. ASSUME NEW r \in Login, login, req[r] = "RUNNING", LoggedIn(r) PROVE NoSocketLeak'
    <3>1. orderly' = orderly /\ ssock' = sock /\ open' = open
      BY <2>5 DEF LoggedIn
    <3>2. orderly => conn # "LOGGED_IN"
      BY <2>0, <2>5 DEF OneAtATime, Outstanding
    <3>3. orderly => open \subseteq {sock}
      BY <1>2, <2>0, <2>5, <3>2 DEF NoSocketLeak, SocketsAreOwned
    <3>4. QED
      BY <3>1, <3>3 DEF NoSocketLeak
  <2>6. ASSUME NEW r \in Login, Continues(r) PROVE NoSocketLeak'
    <3>1. orderly' = orderly /\ ssock' = ssock /\ login /\ login'
      BY <2>6 DEF Continues, sessionVars
    <3>2. orderly => open \subseteq {ssock, sock}
      BY <1>2, <3>1 DEF NoSocketLeak
    <3>3. orderly => open' \subseteq {ssock, sock'}
      BY <2>6, <3>2 DEF Continues, Keeps, Closes, Opens, Closed
    <3>4. QED
      BY <3>1, <3>3 DEF NoSocketLeak
  <2>7. CASE Logout
    <3>1. orderly' => orderly /\ ~Outstanding
      BY <2>7 DEF Logout
    <3>2. orderly' => ~login
      BY <2>0, <3>1 DEF ContextIsOwned, Outstanding
    <3>3. open' \subseteq open \ {ssock} /\ ~login'
      BY <2>7 DEF Logout
    <3>4. QED
      BY <1>2, <3>1, <3>2, <3>3 DEF NoSocketLeak
  <2>8. CASE Disconnect
    BY <1>2, <2>8 DEF Disconnect, Closed, NoSocketLeak, ctxVars
  <2>9. CASE UNCHANGED loginVars
    BY <1>2, <2>9 DEF loginVars, ctxVars, sessionVars, NoSocketLeak
  <2>10. QED
    BY <1>2, <2>1, <2>2, <2>3, <2>4, <2>5, <2>6, <2>7, <2>8, <2>9, ProcessSteps DEF LoginNext
<1>3. QED
  BY <1>1, <1>2, LoginInvariant, PTL DEF LoginSpec

(* The keys of a session belong to the connection that it uses: every      *)
(* connection that breaks in the middle of the exchange makes the next one *)
(* begin with the parameters of the client.                                *)
THEOREM LoginKeysFit == LoginSpec => []KeysFitSocket
<1>1. LoginInit => KeysFitSocket
  BY DEF LoginInit, KeysFitSocket
<1>2. ASSUME LoginInv, KeysFitSocket, [LoginNext]_loginVars
      PROVE  KeysFitSocket'
  <2>0. login \in BOOLEAN /\ state \in 0 .. 8
    BY <1>2 DEF LoginInv, LoginTypeOK
  <2>1. ASSUME UNCHANGED <<keys, conn>>, state' \in 0 .. 4 PROVE KeysFitSocket'
    BY <1>2, <2>1 DEF KeysFitSocket
  <2>2. ASSUME UNCHANGED <<keys, conn, login, state, parameters>> PROVE KeysFitSocket'
    BY <1>2, <2>2 DEF KeysFitSocket
  <2>3. ASSUME UNCHANGED <<keys, conn>>, ~login' PROVE KeysFitSocket'
    BY <1>2, <2>3 DEF KeysFitSocket
  <2>4. ASSUME NEW r \in Login, SendParameters(r) PROVE KeysFitSocket'
    BY <1>2, <2>4 DEF SendParameters, Continue, KeysFitSocket, sessionVars
  <2>5. ASSUME NEW r \in Login, ReceiveParameters(r) PROVE KeysFitSocket'
    BY <1>2, <2>5 DEF ReceiveParameters, In, Continue, KeysFitSocket, sessionVars
  <2>6. ASSUME NEW r \in Login, Compute(r) PROVE KeysFitSocket'
    BY <1>2, <2>6 DEF Compute, In, Continue, KeysFitSocket, sessionVars
  <2>7. ASSUME NEW r \in Login, SendAuth(r) PROVE KeysFitSocket'
    BY <1>2, <2>7 DEF SendAuth, In, Continue, KeysFitSocket, sessionVars
  <2>8. ASSUME NEW r \in Login, LoggedIn(r) PROVE KeysFitSocket'
    BY <1>2, <2>8 DEF LoggedIn, In, KeysFitSocket
  <2>9. ASSUME NEW r \in Login, Process(r) PROVE KeysFitSocket'
    <3>1. StartLogin(r) => UNCHANGED <<keys, conn>> /\ state' \in 0 .. 4
      BY DEF StartLogin, NewContext, sessionVars
    <3>2. LoginCancelled(r) => UNCHANGED <<keys, conn, login, state, parameters>>
      BY DEF LoginCancelled, ctxVars, sessionVars
    <3>3. ASSUME NEW p \in Prios, LookupRecord(r, p) PROVE UNCHANGED <<keys, conn>> /\ state' \in 0 .. 4
      BY <3>3 DEF LookupRecord, In, sessionVars
    <3>4. LookupDone(r) \/ PickServer(r) \/ NoAddress(r) \/ Connected(r) \/ Refused(r)
            \/ ExchangeBreaks(r) => UNCHANGED <<keys, conn>> /\ state' \in 0 .. 4
      BY DEF LookupDone, PickServer, NoAddress, Connected, Refused, ExchangeBreaks, Continue,
             sessionVars
    <3>5. ASSUME NEW i, NEW fd, Connect(r, i, fd) PROVE UNCHANGED <<keys, conn>> /\ state' \in 0 .. 4
      <4>1. state' = 1 \/ state' = 3
        BY <3>5 DEF Connect, Continue
      <4>2. QED
        BY <3>5, <4>1 DEF Connect, Continue, sessionVars
    <3>6. Unanswered(r) => UNCHANGED <<keys, conn>> /\ state' \in 0 .. 4
      BY DEF Unanswered, Continue, sessionVars
    <3>7. Fails(r) => UNCHANGED <<keys, conn>> /\ ~login'
      BY DEF Fails, sessionVars
    <3>8. QED
      BY <2>1, <2>2, <2>3, <2>4, <2>5, <2>6, <2>7, <2>8, <2>9, <3>1, <3>2, <3>3, <3>4, <3>5,
         <3>6, <3>7
      DEF Process, LookupFails, PickFails, NoSocket, PollFails, Denied, AuthFails
  <2>10. (\E r \in Login : AppLogin(r)) \/ UNCHANGED loginVars
           => UNCHANGED <<keys, conn, login, state, parameters>>
    BY DEF AppLogin, loginVars, ctxVars, sessionVars
  <2>11. CASE Logout
    BY <2>11 DEF Logout, NewContext, KeysFitSocket
  <2>12. CASE Disconnect
    BY <1>2, <2>12 DEF Disconnect, KeysFitSocket, ctxVars
  <2>13. QED
    BY <1>2, <2>2, <2>9, <2>10, <2>11, <2>12 DEF LoginNext
<1>3. QED
  BY <1>1, <1>2, LoginInvariant, PTL DEF LoginSpec

(* A server is given up only after a connection to each of its addresses   *)
(* that is of a suitable family, or when connect() has just failed at once *)
(* for one, after connections to all that come before it.                  *)
THEOREM LoginTriesAddresses == LoginSpec => AddressesAreTried
<1> DEFINE Ways == \/ tried = Suitable /\ tried' = tried
                   \/ \E i \in Suitable \ tried : /\ fate[server_ai[i]] = "noroute"
                                                  /\ tried' = {j \in Suitable : j <= i}
           Given == state = 2 /\ state' = 1 => Ways
<1>1. ASSUME LoginInv, [LoginNext]_loginVars
      PROVE  [Given]_loginVars
  <2>1. SUFFICES ASSUME LoginNext, state = 2, state' = 1 PROVE Ways
    BY <1>1
  <2>2. list # <<>> /\ LoginTypeOK /\ TriedSoFar /\ skip \in Nat
    BY <1>1, <2>1 DEF LoginInv, ContextIsOwned, LoginTypeOK
  <2>3. ASSUME NEW r \in Login, NEW i \in 1 .. Len(server_ai), NEW fd \in Fds, Connect(r, i, fd)
        PROVE  Ways
    <3> DEFINE n == Len(server_ai)
               Suits(j) == fate[server_ai[j]] # "other"
    <3>1. /\ n \in Nat /\ i \in 1 .. n /\ skip <= n /\ tried = {j \in 1 .. skip : Suits(j)}
      BY <2>2, ServerType DEF TriedSoFar
    <3>2. /\ Suits(i) /\ i > skip /\ \A j \in skip + 1 .. i - 1 : ~Suits(j)
          /\ tried' = tried \union {i}
      BY <2>3 DEF Connect, Reopen, IsNextAddress
    <3>3. fate[server_ai[i]] = "noroute"
      BY <2>1, <2>3 DEF Connect, Continue
    <3>4. Suitable = {j \in 1 .. n : Suits(j)}
      BY DEF Suitable
    <3> HIDE DEF n, Suits
    <3>5. i \in Suitable /\ i \notin tried
      BY <2>2, <3>1, <3>2, <3>4
    <3>6. ASSUME NEW j, j \in tried' PROVE j \in Suitable /\ j <= i
      BY <2>2, <3>1, <3>2, <3>4, <3>6
    <3>7. ASSUME NEW j \in Suitable, j <= i PROVE j \in tried'
      BY <2>2, <3>1, <3>2, <3>4, <3>7
    <3>8. QED
      BY <3>3, <3>5, <3>6, <3>7
  <2>4. ASSUME NEW r \in Login, NoAddress(r)
        PROVE  Ways
    BY <2>2, <2>4, NoneLeft DEF NoAddress, Suitable
  <2>5. ASSUME NEW r \in Login, Process(r)
        PROVE  NoAddress(r) \/ \E i \in 1 .. Len(server_ai) : \E fd \in Fds : Connect(r, i, fd)
    <3>1. Fails(r) \/ StartLogin(r) \/ LoggedIn(r) => state' = 0
      BY DEF Fails, StartLogin, LoggedIn, NewContext
    <3>2. LoginCancelled(r) => state' = state
      BY DEF LoginCancelled, ctxVars
    <3>3. ~Fails(r) /\ ~StartLogin(r) /\ ~LoggedIn(r) /\ ~LoginCancelled(r)
      BY <2>1, <3>1, <3>2
    <3>4. /\ \A i : ~NoSocket(r, i)
          /\ ~LookupFails(r) /\ ~PickFails(r) /\ ~PollFails(r) /\ ~Denied(r) /\ ~AuthFails(r)
      BY <3>3 DEF LookupFails, PickFails, NoSocket, PollFails, Denied, AuthFails
    <3>5. /\ \A p : ~LookupRecord(r, p)
          /\ ~LookupDone(r) /\ ~PickServer(r) /\ ~Connected(r) /\ ~Refused(r) /\ ~Unanswered(r)
      BY <2>1 DEF LookupRecord, LookupDone, PickServer, Connected, Refused, Unanswered, In
    <3>6. /\ ~SendParameters(r) /\ ~ExchangeBreaks(r) /\ ~ReceiveParameters(r)
          /\ ~Compute(r) /\ ~SendAuth(r)
      BY <2>1 DEF SendParameters, ExchangeBreaks, ReceiveParameters, Compute, SendAuth, In
    <3>7. QED
      BY <2>5, <3>3, <3>4, <3>5, <3>6 DEF Process
  <2>6. (\E r \in Login : AppLogin(r)) \/ Disconnect => state' = state
    BY DEF AppLogin, Disconnect, ctxVars
  <2>7. Logout => state' = 0
    BY DEF Logout, NewContext
  <2>8. QED
    BY <2>1, <2>3, <2>4, <2>5, <2>6, <2>7 DEF LoginNext
<1>2. QED
  BY <1>1, LoginInvariant, PTL DEF LoginSpec, AddressesAreTried
=============================================================================
