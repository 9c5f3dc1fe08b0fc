---------------------------- MODULE TracksProofs ----------------------------
(***************************************************************************)
(* Proofs about Tracks: what the table keeps whatever has raced, and that  *)
(* only races can send a thread to memory that has been freed.             *)
(***************************************************************************)
EXTENDS Tracks, SequenceTheorems, FiniteSetTheorems, WellFoundedInduction, TLAPS

(* A set of naturals that has a member has a least one.                    *)
LEMMA Least ==
  ASSUME NEW T, T \subseteq Nat, T # {}
  PROVE  /\ Min(T) \in T /\ \A y \in T : Min(T) <= y
<1>1. PICK x \in T : \A y \in T : ~(<<y, x>> \in OpToRel(<, Nat))
  BY NatLessThanWellFounded, WFMin
<1>2. ASSUME NEW y \in T PROVE x <= y
  <2>1. x \in Nat /\ y \in Nat
    OBVIOUS
  <2>2. ~(y < x)
    BY <1>1, <2>1 DEF OpToRel
  <2>3. QED
    BY <2>1, <2>2
<1>3. \E z \in T : \A y \in T : z <= y
  BY <1>2
<1>4. QED
  BY <1>3 DEF Min
-----------------------------------------------------------------------------

(* The entries of a table, and its order.                                  *)
Table == [1 .. Buckets -> Seq(Node)]
Entries(t) == UNION {Range(t[b]) : b \in 1 .. Buckets}
InOrder(t, ids) ==
  \A b \in 1 .. Buckets :
    /\ \A i \in DOMAIN t[b] : Bucket(ids[t[b][i]]) = b
    /\ \A i, j \in DOMAIN t[b] : t[b][i] = t[b][j] => i = j

(* The places of a thread, and of the collector with an entry in hand.     *)
Walking == {"visit", "remove", "removing", "free", "next"}
Places == Walking \union
  {"idle", "insert", "init", "add", "added", "sub", "subtracted", "bucket", "end"}

Types ==
  /\ table \in Table
  /\ entry \subseteq Node /\ dont_free \subseteq Node /\ freelist \subseteq Node
  /\ owner \in Thread /\ depth \in Nat
  /\ key \in [Node -> Key]
  /\ memory \in [Node -> {"none", "raw", "live", "freed"}]
  /\ ref_count \in [Node -> Nat]
  /\ iter \in [offset : 0 .. Buckets + 1, entry : Node \union {Nil}, next : Node \union {Nil}]
  /\ pc \in [Thread -> Places] /\ arg \in [Thread -> Node \union {Nil}]
  /\ reg \in [Thread -> Nat] /\ held \in [Thread -> SUBSET Node]
  /\ visited \subseteq Node /\ astray \in BOOLEAN
  /\ races \subseteq {"freed in use", "raw", "twice", "stale head", "lost update"}

(* A bucket has the entries of its keys, each once.                        *)
Sorted == InOrder(table, key)

(* What is allocated is in the table or on the freelist, not on both.      *)
Accounted ==
  /\ count = Cardinality(InTable)
  /\ entry = InTable \union freelist /\ InTable \intersect freelist = {}
  /\ \A n \in entry : memory[n] # "none"

(* A thread works on a track that is or was allocated, and nobody knows of *)
(* one that is not in the table yet.                                       *)
Works(th) ==
  /\ pc[th] \notin {"idle", "bucket", "next", "end"} => arg[th] \in Node
  /\ arg[th] \in Node => memory[arg[th]] # "none"
  /\ \A n \in held[th] : memory[n] # "none"
  /\ pc[th] = "insert" =>
       /\ memory[arg[th]] = "raw" /\ arg[th] \notin entry
       /\ arg[Other(th)] # arg[th] /\ \A t \in Thread : arg[th] \notin held[t]

Working == \A th \in Thread : Works(th)

(* The collector has the mutex while it walks, and nobody else walks.      *)
Walk ==
  /\ pc["main"] \notin {"bucket", "visit", "next", "end"}
  /\ iter.offset = 0 => iter.entry = Nil /\ pc["io"] \notin {"bucket", "visit", "next", "end"}
  /\ iter.offset > 0 =>
       /\ pc["io"] \in Walking \union {"bucket", "end"}
       /\ owner = "io" /\ depth > 0
       /\ iter.entry # Nil <=> pc["io"] \in Walking
  /\ iter.entry # Nil => iter.offset <= Buckets /\ iter.entry \in entry \intersect dont_free
  /\ iter.entry # Nil /\ pc["io"] \in {"visit", "remove", "removing"} =>
       arg["io"] = iter.entry

(* The collector has seen every entry of a bucket before the place i.      *)
SeenBefore(b, i) == \A j \in DOMAIN table[b] : j < i => table[b][j] \in visited

(* Its own entry, until that is removed, is before the place i.            *)
CurrentBefore(b, i) ==
  pc["io"] \in {"visit", "remove", "removing"} =>
    \E j \in DOMAIN table[b] : j < i /\ table[b][j] = iter.entry

(* In its bucket it has seen what is before the entry that it goes to next. *)
Ahead ==
  IF iter.next = Nil
  THEN /\ SeenBefore(iter.offset, Len(table[iter.offset]) + 1)
       /\ CurrentBefore(iter.offset, Len(table[iter.offset]) + 1)
  ELSE \E i \in DOMAIN table[iter.offset] :
         /\ table[iter.offset][i] = iter.next
         /\ SeenBefore(iter.offset, i) /\ CurrentBefore(iter.offset, i)

(* And it has seen the buckets that it left.                               *)
Progress ==
  /\ \A b \in 1 .. Buckets : b < iter.offset => SeenBefore(b, Len(table[b]) + 1)
  /\ pc["io"] = "end" => iter.offset = Buckets + 1
  /\ iter.entry # Nil => Ahead

(* The number of threads that have a reference to a track.                 *)
Holders(h, n) == Cardinality({th \in Thread : n \in h[th]})

(* Without a race, the table has tracks that are alive, or that a thread   *)
(* is about to initialise, one for an id, and counts are right.            *)
GoodTracks ==
  /\ ~astray
  /\ depth = IF iter.offset > 0 THEN 1 ELSE 0
  /\ \A n \in InTable :
       \/ memory[n] = "live"
       \/ memory[n] = "raw" /\ \E th \in Thread : pc[th] = "init" /\ arg[th] = n
  /\ \A m, n \in InTable : key[m] = key[n] => m = n
  /\ \A n \in Node :
       memory[n] = "live" => ref_count[n] = Holders(held, n)
  /\ \A th \in Thread : \A n \in held[th] : memory[n] = "live" /\ n \in InTable

(* Without a race, a thread works on a track of the table that is alive;   *)
(* one that initialises or frees a track is alone with it.                 *)
GoodThread(th) ==
  LET n == arg[th]
      alone == ~UsedBy(Other(th), n) /\ \A t \in Thread : n \notin held[t] IN
  /\ pc[th] = "init" => n \in InTable /\ memory[n] = "raw" /\ alone
  /\ pc[th] \in {"add", "added"} => n \in InTable /\ memory[n] = "live" /\ n \notin held[th]
  /\ pc[th] \in {"sub", "subtracted"} => n \in held[th]
  /\ pc[th] \in {"remove", "removing"} => n \in InTable /\ memory[n] = "live" /\ alone
  /\ pc[th] = "removing" => reg[th] \in Range(Chain(key[n]))
  /\ pc[th] = "free" => n \notin InTable /\ memory[n] = "live" /\ alone

Good == races = {} => GoodTracks /\ \A th \in Thread : GoodThread(th)

TracksInd == Types /\ Sorted /\ Accounted /\ Working /\ Walk /\ Progress /\ Good
-----------------------------------------------------------------------------
(* A table with an entry more, and with one less.                          *)
With(t, b, n) == [t EXCEPT ![b] = Append(@, n)]
Less(t, b, i) == [t EXCEPT ![b] = Without(@, i)]

(* There are two threads.                                                  *)
LEMMA TwoThreads ==
  ASSUME NEW th \in Thread
  PROVE  /\ Other(th) \in Thread /\ Other(th) # th /\ Other(Other(th)) = th
         /\ \A t \in Thread : t = th \/ t = Other(th)
         /\ "main" \in Thread /\ "io" \in Thread /\ Other("main") = "io" /\ Other("io") = "main"
  BY DEF Thread, Other

LEMMA MainAndIo ==
  /\ "main" \in Thread /\ "io" \in Thread /\ \A t \in Thread : t = "main" \/ t = "io"
  /\ Other("main") = "io" /\ Other("io") = "main"
  BY DEF Thread, Other

(* Where an entry is.                                                      *)
LEMMA Membership ==
  ASSUME NEW t, NEW n
  PROVE  n \in Entries(t) <=> \E b \in 1 .. Buckets : \E i \in DOMAIN t[b] : t[b][i] = n
  BY DEF Entries, Range

LEMMA InItsBucket ==
  ASSUME NEW t \in Table, NEW ids \in [Node -> Key], InOrder(t, ids), NEW n \in Entries(t)
  PROVE  /\ n \in Node /\ Bucket(ids[n]) \in 1 .. Buckets
         /\ \E i \in DOMAIN t[Bucket(ids[n])] : t[Bucket(ids[n])][i] = n
<1>1. PICK b \in 1 .. Buckets : \E i \in DOMAIN t[b] : t[b][i] = n
  BY Membership
<1>0. PICK i \in DOMAIN t[b] : t[b][i] = n
  BY <1>1
<1>2. t[b] \in Seq(Node)
  BY DEF Table
<1>3. n \in Node
  BY <1>0, <1>2, ElementOfSeq, LenProperties
<1>4. Bucket(ids[n]) = b
  BY <1>0 DEF InOrder
<1>5. QED
  BY <1>0, <1>3, <1>4

(* An entry that is appended.                                              *)
LEMMA Appended ==
  ASSUME NEW t \in Table, NEW ids \in [Node -> Key], InOrder(t, ids),
         NEW n \in Node, n \notin Entries(t), NEW u,
         u = With(t, Bucket(ids[n]), n)
  PROVE  /\ u \in Table /\ InOrder(u, ids) /\ Entries(u) = Entries(t) \union {n}
         /\ \A b \in 1 .. Buckets : Range(t[b]) \subseteq Range(u[b])
<1> DEFINE c == Bucket(ids[n])
<1>1. c \in 1 .. Buckets
  BY TracksAssumption
<1>2. u[c] = Append(t[c], n) /\ \A b \in 1 .. Buckets : b # c => u[b] = t[b]
  BY <1>1 DEF Table, With
<1>3. t[c] \in Seq(Node) /\ Len(t[c]) \in Nat /\ DOMAIN t[c] = 1 .. Len(t[c])
  BY <1>1, LenProperties DEF Table
<1>4. /\ u[c] \in Seq(Node) /\ DOMAIN u[c] = 1 .. Len(t[c]) + 1
      /\ \A i \in DOMAIN t[c] : u[c][i] = t[c][i]
      /\ u[c][Len(t[c]) + 1] = n
  BY <1>2, <1>3, AppendProperties, LenProperties
<1>5. u \in Table
  BY <1>1, <1>2, <1>4 DEF Table, With
<1>6. \A i \in DOMAIN t[c] : t[c][i] # n
  BY <1>1, Membership
<1>7. \A i \in DOMAIN u[c] : i \in DOMAIN t[c] \/ i = Len(t[c]) + 1
  BY <1>3, <1>4
<1>8. InOrder(u, ids)
  <2>1. ASSUME NEW b \in 1 .. Buckets
        PROVE  /\ \A i \in DOMAIN u[b] : Bucket(ids[u[b][i]]) = b
               /\ \A i, j \in DOMAIN u[b] : u[b][i] = u[b][j] => i = j
    <3>1. CASE b # c
      BY <1>2, <3>1 DEF InOrder
    <3>2. CASE b = c
      <4>1. ASSUME NEW i \in DOMAIN u[c] PROVE Bucket(ids[u[c][i]]) = c
        BY <1>1, <1>4, <1>7 DEF InOrder
      <4>2. ASSUME NEW i \in DOMAIN u[c], NEW j \in DOMAIN u[c], u[c][i] = u[c][j]
            PROVE  i = j
        BY <1>1, <1>4, <1>6, <1>7, <4>2 DEF InOrder
      <4>3. QED
        BY <3>2, <4>1, <4>2
    <3>3. QED
      BY <3>1, <3>2
  <2>2. QED
    BY <2>1 DEF InOrder
<1>9. \A b \in 1 .. Buckets : Range(u[b]) = IF b = c THEN Range(t[b]) \union {n} ELSE Range(t[b])
  <2>1. ASSUME NEW x \in Range(u[c]) PROVE x \in Range(t[c]) \union {n}
    <3>1. PICK i \in DOMAIN u[c] : x = u[c][i]
      BY DEF Range
    <3>2. QED
      BY <1>4, <1>7, <3>1 DEF Range
  <2>2. ASSUME NEW x \in Range(t[c]) \union {n} PROVE x \in Range(u[c])
    <3>1. CASE x = n
      <4>1. Len(t[c]) + 1 \in DOMAIN u[c]
        BY <1>3, <1>4
      <4>2. QED
        BY <1>4, <3>1, <4>1 DEF Range
    <3>2. CASE x # n
      <4>1. PICK i \in DOMAIN t[c] : x = t[c][i]
        BY <3>2 DEF Range
      <4>2. i \in DOMAIN u[c]
        BY <1>3, <1>4
      <4>3. QED
        BY <1>4, <4>1, <4>2 DEF Range
    <3>3. QED
      BY <3>1, <3>2
  <2>3. Range(u[c]) = Range(t[c]) \union {n}
    BY <2>1, <2>2
  <2>4. QED
    BY <1>2, <2>3
<1>10. Entries(u) = Entries(t) \union {n}
  <2>1. ASSUME NEW x \in Entries(u) PROVE x \in Entries(t) \union {n}
    <3>1. PICK b \in 1 .. Buckets : x \in Range(u[b])
      BY DEF Entries
    <3>2. x \in Range(t[b]) \/ x = n
      BY <1>9, <3>1
    <3>3. QED
      BY <3>2 DEF Entries
  <2>2. ASSUME NEW x \in Entries(t) \union {n} PROVE x \in Entries(u)
    <3>1. CASE x = n
      <4>1. x \in Range(u[c])
        BY <1>1, <1>9, <3>1
      <4>2. QED
        BY <1>1, <4>1 DEF Entries
    <3>2. CASE x # n
      <4>1. PICK b \in 1 .. Buckets : x \in Range(t[b])
        BY <3>2 DEF Entries
      <4>2. x \in Range(u[b])
        BY <1>9, <4>1
      <4>3. QED
        BY <4>2 DEF Entries
    <3>3. QED
      BY <3>1, <3>2
  <2>3. QED
    BY <2>1, <2>2
<1>11. QED
  BY <1>5, <1>8, <1>9, <1>10

(* A sequence without one of its elements.                                 *)
LEMMA Removed ==
  ASSUME NEW S, NEW s \in Seq(S), NEW i \in 1 .. Len(s)
  PROVE  /\ Without(s, i) \in Seq(S) /\ Len(Without(s, i)) = Len(s) - 1 /\ Len(s) \in Nat
         /\ \A j \in 1 .. Len(s) - 1 : Without(s, i)[j] = IF j < i THEN s[j] ELSE s[j + 1]
<1> DEFINE n == Len(s)
           w == Without(s, i)
           a == SubSeq(s, 1, i - 1)
           z == SubSeq(s, i + 1, n)
<1>1. n \in Nat /\ i \in Nat /\ 1 <= i /\ i <= n
  BY LenProperties
<1>2. \A j \in 1 .. n : s[j] \in S
  BY ElementOfSeq
<1>3. w = a \o z
  BY DEF Without
<1> HIDE DEF n, w
<1>4. a \in Seq(S) /\ Len(a) = i - 1 /\ \A j \in 1 .. i - 1 : a[j] = s[j]
  <2>1. \A j \in 1 .. i - 1 : s[j] \in S
    BY <1>1, <1>2
  <2>2. /\ a \in Seq(S) /\ Len(a) = IF 1 <= i - 1 THEN i - 1 - 1 + 1 ELSE 0
        /\ \A j \in 1 .. i - 1 - 1 + 1 : a[j] = s[1 + j - 1]
    BY <1>1, <2>1, SubSeqProperties
  <2>3. QED
    BY <1>1, <2>2
<1>5. z \in Seq(S) /\ Len(z) = n - i /\ \A j \in 1 .. n - i : z[j] = s[i + j]
  <2>1. \A j \in i + 1 .. n : s[j] \in S
    BY <1>1, <1>2
  <2>2. /\ z \in Seq(S) /\ Len(z) = IF i + 1 <= n THEN n - (i + 1) + 1 ELSE 0
        /\ \A j \in 1 .. n - (i + 1) + 1 : z[j] = s[i + 1 + j - 1]
    BY <1>1, <2>1, SubSeqProperties
  <2>3. n - (i + 1) + 1 = n - i /\ \A j \in 1 .. n - i : i + 1 + j - 1 = i + j
    BY <1>1
  <2>4. QED
    BY <1>1, <2>2, <2>3
<1> HIDE DEF a, z
<1>6. /\ w \in Seq(S) /\ Len(w) = Len(a) + Len(z)
      /\ \A j \in 1 .. Len(a) + Len(z) : w[j] = IF j <= Len(a) THEN a[j] ELSE z[j - Len(a)]
  BY <1>3, <1>4, <1>5, ConcatProperties
<1>7. ASSUME NEW j \in 1 .. n - 1 PROVE w[j] = IF j < i THEN s[j] ELSE s[j + 1]
  <2>1. CASE j < i
    BY <1>1, <1>4, <1>5, <1>6, <2>1
  <2>2. CASE ~(j < i)
    <3>1. j - (i - 1) \in 1 .. n - i /\ i + (j - (i - 1)) = j + 1 /\ ~(j <= i - 1)
      BY <1>1, <2>2
    <3>2. w[j] = z[j - (i - 1)]
      BY <1>1, <1>4, <1>5, <1>6, <3>1
    <3>3. QED
      BY <1>5, <2>2, <3>1, <3>2
  <2>3. QED
    BY <2>1, <2>2
<1>8. Len(a) + Len(z) = n - 1
  BY <1>1, <1>4, <1>5
<1>9. w \in Seq(S) /\ Len(w) = n - 1 /\ n \in Nat
  BY <1>1, <1>6, <1>8
<1>10. QED
  BY <1>7, <1>9 DEF n, w

(* What the table u has when the entry i of a bucket is removed from t.    *)
TakenOut(t, u, ids, c, i) ==
  /\ u \in Table /\ InOrder(u, ids) /\ Entries(u) = Entries(t) \ {t[c][i]}
  /\ \A b \in 1 .. Buckets : \A n \in Range(t[b]) : n # t[c][i] => n \in Range(u[b])
  /\ \A b \in 1 .. Buckets : b # c => u[b] = t[b]
  /\ Len(u[c]) = Len(t[c]) - 1 /\ DOMAIN u[c] = 1 .. Len(t[c]) - 1
  /\ \A j \in DOMAIN u[c] : u[c][j] = IF j < i THEN t[c][j] ELSE t[c][j + 1]

LEMMA Unlinked ==
  ASSUME NEW t \in Table, NEW ids \in [Node -> Key], InOrder(t, ids),
         NEW c \in 1 .. Buckets, NEW i \in DOMAIN t[c], NEW u, u = Less(t, c, i)
  PROVE  TakenOut(t, u, ids, c, i)
<1> DEFINE n == t[c][i]
<1>1. t[c] \in Seq(Node) /\ Len(t[c]) \in Nat /\ DOMAIN t[c] = 1 .. Len(t[c])
  BY LenProperties DEF Table
<1>2. u[c] = Without(t[c], i) /\ \A b \in 1 .. Buckets : b # c => u[b] = t[b]
  BY DEF Table, Less
<1>3. /\ u[c] \in Seq(Node) /\ Len(u[c]) = Len(t[c]) - 1
      /\ \A j \in 1 .. Len(t[c]) - 1 : u[c][j] = IF j < i THEN t[c][j] ELSE t[c][j + 1]
  BY <1>1, <1>2, Removed
<1>4. DOMAIN u[c] = 1 .. Len(t[c]) - 1
  BY <1>3, LenProperties
<1>5. u \in Table
  BY <1>2, <1>3 DEF Table, Less
<1>6. ASSUME NEW j \in DOMAIN u[c]
      PROVE  \E k \in DOMAIN t[c] : k # i /\ u[c][j] = t[c][k] /\ k = IF j < i THEN j ELSE j + 1
  <2>1. CASE j < i
    <3>1. j \in DOMAIN t[c] /\ j # i
      BY <1>1, <1>4, <2>1
    <3>2. QED
      BY <1>3, <1>4, <2>1, <3>1
  <2>2. CASE ~(j < i)
    <3>1. j + 1 \in DOMAIN t[c] /\ j + 1 # i
      BY <1>1, <1>4, <2>2
    <3>2. QED
      BY <1>3, <1>4, <2>2, <3>1
  <2>3. QED
    BY <2>1, <2>2
<1>7. InOrder(u, ids)
  <2>1. ASSUME NEW b \in 1 .. Buckets
        PROVE  /\ \A j \in DOMAIN u[b] : Bucket(ids[u[b][j]]) = b
               /\ \A j, k \in DOMAIN u[b] : u[b][j] = u[b][k] => j = k
    <3>1. CASE b # c
      BY <1>2, <3>1 DEF InOrder
    <3>2. CASE b = c
      <4>1. ASSUME NEW j \in DOMAIN u[c] PROVE Bucket(ids[u[c][j]]) = c
        BY <1>6 DEF InOrder
      <4>2. ASSUME NEW j \in DOMAIN u[c], NEW k \in DOMAIN u[c], u[c][j] = u[c][k]
            PROVE  j = k
        <5>1. PICK v \in DOMAIN t[c] : u[c][j] = t[c][v] /\ v = IF j < i THEN j ELSE j + 1
          BY <1>6
        <5>2. PICK w \in DOMAIN t[c] : u[c][k] = t[c][w] /\ w = IF k < i THEN k ELSE k + 1
          BY <1>6
        <5>3. v = w
          BY <4>2, <5>1, <5>2 DEF InOrder
        <5>4. j \in Nat /\ k \in Nat /\ i \in Nat
          BY <1>1, <1>4
        <5>5. QED
          BY <5>1, <5>2, <5>3, <5>4
      <4>3. QED
        BY <3>2, <4>1, <4>2
    <3>3. QED
      BY <3>1, <3>2
  <2>2. QED
    BY <2>1 DEF InOrder
<1>8. ASSUME NEW k \in DOMAIN t[c], k # i PROVE t[c][k] \in Range(u[c])
  <2>1. CASE k < i
    <3>1. k \in DOMAIN u[c]
      BY <1>1, <1>4, <2>1
    <3>2. QED
      BY <1>3, <1>4, <2>1, <3>1 DEF Range
  <2>2. CASE ~(k < i)
    <3>1. k - 1 \in DOMAIN u[c] /\ ~(k - 1 < i) /\ k - 1 + 1 = k
      BY <1>1, <1>4, <1>8, <2>2
    <3>2. u[c][k - 1] = t[c][k]
      BY <1>3, <1>4, <3>1
    <3>3. QED
      BY <3>1, <3>2 DEF Range
  <2>3. QED
    BY <2>1, <2>2
<1>9. \A b \in 1 .. Buckets : \A x \in Range(t[b]) : x # n => x \in Range(u[b])
  <2>1. ASSUME NEW b \in 1 .. Buckets, NEW x \in Range(t[b]), x # n PROVE x \in Range(u[b])
    <3>1. CASE b # c
      BY <1>2, <3>1
    <3>2. CASE b = c
      <4>1. PICK k \in DOMAIN t[c] : x = t[c][k]
        BY <3>2 DEF Range
      <4>2. QED
        BY <1>8, <2>1, <3>2, <4>1
    <3>3. QED
      BY <3>1, <3>2
  <2>2. QED
    BY <2>1
<1>10. Entries(u) = Entries(t) \ {n}
  <2>1. ASSUME NEW x \in Entries(u) PROVE x \in Entries(t) /\ x # n
    <3>1. PICK b \in 1 .. Buckets : \E j \in DOMAIN u[b] : u[b][j] = x
      BY Membership
    <3>2. PICK j \in DOMAIN u[b] : u[b][j] = x
      BY <3>1
    <3>3. CASE b # c
      <4>1. j \in DOMAIN t[b] /\ t[b][j] = x
        BY <1>2, <3>2, <3>3
      <4>2. x # n
        BY <3>3, <4>1 DEF InOrder
      <4>3. QED
        BY <4>1, <4>2, Membership
    <3>4. CASE b = c
      <4>1. PICK k \in DOMAIN t[c] : k # i /\ u[c][j] = t[c][k]
        BY <1>6, <3>4
      <4>2. x = t[c][k]
        BY <3>2, <3>4, <4>1
      <4>3. x # n
        BY <4>1, <4>2 DEF InOrder
      <4>4. QED
        BY <4>2, <4>3, Membership
    <3>5. QED
      BY <3>3, <3>4
  <2>2. ASSUME NEW x \in Entries(t), x # n PROVE x \in Entries(u)
    <3>1. PICK b \in 1 .. Buckets : x \in Range(t[b])
      BY DEF Entries
    <3>2. x \in Range(u[b])
      BY <1>9, <2>2, <3>1
    <3>3. QED
      BY <3>2 DEF Entries
  <2>3. QED
    BY <2>1, <2>2
<1>11. QED
  BY <1>1, <1>2, <1>3, <1>4, <1>5, <1>7, <1>9, <1>10 DEF TakenOut
-----------------------------------------------------------------------------
(* The threads that have a reference to a track.                           *)
LEMMA HoldersOf ==
  ASSUME NEW h \in [Thread -> SUBSET Node], NEW n
  PROVE  /\ Holders(h, n) \in Nat
         /\ Holders(h, n) = 0 <=> \A th \in Thread : n \notin h[th]
<1> DEFINE H == {th \in Thread : n \in h[th]}
<1>1. IsFiniteSet(Thread)
  <2>1. IsFiniteSet({"main"})
    BY FS_Singleton
  <2>2. IsFiniteSet({"main"} \union {"io"})
    BY <2>1, FS_AddElement
  <2>3. Thread = {"main"} \union {"io"}
    BY DEF Thread
  <2>4. QED
    BY <2>2, <2>3
<1>2. IsFiniteSet(H)
  BY <1>1, FS_Subset
<1>3. Cardinality(H) \in Nat /\ (Cardinality(H) = 0 <=> H = {})
  BY <1>2, FS_CardinalityType, FS_EmptySet
<1>4. Holders(h, n) = Cardinality(H)
  BY DEF Holders
<1>5. QED
  BY <1>3, <1>4

(* Without a race, a track without references is one whose count is zero.  *)
LEMMA Unheld ==
  ASSUME Types, GoodTracks, NEW n \in Node, memory[n] = "live"
  PROVE  ref_count[n] = 0 <=> \A th \in Thread : n \notin held[th]
<1>1. held \in [Thread -> SUBSET Node]
  BY DEF Types
<1>2. ref_count[n] = Holders(held, n)
  BY DEF GoodTracks
<1>3. QED
  BY <1>1, <1>2, HoldersOf

(* A thread takes a reference to a track, or gives it back.                *)
LEMMA HoldersChange ==
  ASSUME NEW h \in [Thread -> SUBSET Node], NEW th \in Thread, NEW n \in Node, n \notin h[th],
         NEW g \in [Thread -> SUBSET Node], g[th] = h[th] \union {n},
         g[Other(th)] = h[Other(th)]
  PROVE  /\ Holders(g, n) = Holders(h, n) + 1
         /\ \A m : m # n => Holders(g, m) = Holders(h, m)
<1> DEFINE H(m) == {t \in Thread : m \in h[t]}
           G(m) == {t \in Thread : m \in g[t]}
<1>0. \A t \in Thread : t = th \/ t = Other(th)
  BY TwoThreads
<1>1. IsFiniteSet(Thread)
  <2>1. IsFiniteSet({"main"})
    BY FS_Singleton
  <2>2. IsFiniteSet({"main"} \union {"io"})
    BY <2>1, FS_AddElement
  <2>3. Thread = {"main"} \union {"io"}
    BY DEF Thread
  <2>4. QED
    BY <2>2, <2>3
<1>2. IsFiniteSet(H(n))
  BY <1>1, FS_Subset
<1>3. G(n) = H(n) \union {th}
  BY <1>0, TwoThreads
<1>4. th \notin H(n)
  OBVIOUS
<1> HIDE DEF H, G
<1>5. Cardinality(G(n)) = Cardinality(H(n)) + 1
  BY <1>2, <1>3, <1>4, FS_AddElement
<1>6. ASSUME NEW m, m # n PROVE G(m) = H(m)
  BY <1>0, <1>6, TwoThreads DEF G, H
<1>7. \A m : Holders(g, m) = Cardinality(G(m)) /\ Holders(h, m) = Cardinality(H(m))
  BY DEF Holders, G, H
<1>8. QED
  BY <1>5, <1>6, <1>7

(* A thread goes to another place.                                         *)
LEMMA Went ==
  ASSUME Types, NEW th \in Thread, NEW where \in Places, NEW n \in Node \union {Nil},
         NEW value \in Nat, Goto(th, where, n, value)
  PROVE  /\ pc' \in [Thread -> Places] /\ arg' \in [Thread -> Node \union {Nil}]
         /\ reg' \in [Thread -> Nat]
         /\ pc'[th] = where /\ arg'[th] = n /\ reg'[th] = value
         /\ pc'[Other(th)] = pc[Other(th)] /\ arg'[Other(th)] = arg[Other(th)]
         /\ reg'[Other(th)] = reg[Other(th)]
<1>1. Other(th) \in Thread /\ Other(th) # th
  BY TwoThreads
<1>2. /\ pc \in [Thread -> Places] /\ arg \in [Thread -> Node \union {Nil}]
      /\ reg \in [Thread -> Nat]
  BY DEF Types
<1>3. /\ pc' = [pc EXCEPT ![th] = where] /\ arg' = [arg EXCEPT ![th] = n]
      /\ reg' = [reg EXCEPT ![th] = value]
  BY DEF Goto
<1>4. QED
  BY <1>1, <1>2, <1>3

(* Entries are nodes, of which there are finitely many.                    *)
LEMMA EntriesAre ==
  ASSUME Types, Sorted, Accounted
  PROVE  /\ InTable = Entries(table) /\ InTable \subseteq Node /\ IsFiniteSet(InTable)
         /\ \A n \in InTable : n \in entry /\ memory[n] # "none"
         /\ \A n \in InTable : n \in Range(Chain(key[n]))
         /\ \A n \in Node : Bucket(key[n]) \in 1 .. Buckets /\ Range(Chain(key[n])) \subseteq InTable
<1>1. InTable = Entries(table)
  BY DEF InTable, Entries
<1>2. table \in Table /\ key \in [Node -> Key] /\ InOrder(table, key)
  BY DEF Types, Sorted
<1>3. \A n \in InTable : n \in Node /\ n \in Range(Chain(key[n]))
  BY <1>1, <1>2, InItsBucket DEF Range, Chain
<1>4. IsFiniteSet(Node)
  BY TracksAssumption, FS_Interval DEF Node
<1>5. InTable \subseteq Node /\ IsFiniteSet(InTable)
  BY <1>3, <1>4, FS_Subset
<1>6. \A n \in Node : Bucket(key[n]) \in 1 .. Buckets
  BY <1>2, TracksAssumption
<1>7. \A n \in Node : Range(Chain(key[n])) \subseteq InTable
  BY <1>6 DEF Chain, InTable
<1>8. QED
  BY <1>1, <1>3, <1>5, <1>6, <1>7 DEF Accounted

(* References are to nodes.                                                *)
LEMMA HeldAre ==
  ASSUME Types
  PROVE  held \in [Thread -> SUBSET Node] /\ \A th \in Thread : held[th] \subseteq Node
<1>1. held \in [Thread -> SUBSET Node]
  BY DEF Types
<1>2. QED
  BY <1>1

(* What depends on the table and on the memory of its tracks.              *)
LEMMA TableStays ==
  ASSUME Types, Sorted, Accounted, UNCHANGED <<table, count, entry, freelist>>,
         \A n \in Node : memory[n] # "none" => key'[n] = key[n] /\ memory'[n] # "none"
  PROVE  Sorted' /\ Accounted' /\ InTable' = InTable
<1>1. InTable' = InTable
  BY DEF InTable
<1>2. Accounted'
  BY <1>1 DEF Accounted, Types
<1>3. ASSUME NEW b \in 1 .. Buckets, NEW i \in DOMAIN table[b]
      PROVE  key'[table[b][i]] = key[table[b][i]]
  <2>1. table[b][i] \in Entries(table)
    BY Membership
  <2>2. table[b][i] \in Node
    BY <2>1, InItsBucket DEF Types, Sorted
  <2>3. table[b][i] \in entry
    BY <2>1 DEF Accounted, InTable, Entries
  <2>4. QED
    BY <2>2, <2>3 DEF Accounted
<1>4. Sorted'
  BY <1>3 DEF Sorted, InOrder
<1>5. QED
  BY <1>1, <1>2, <1>4

(* What depends on the walk, which the main thread cannot begin.           *)
LEMMA WalkStays ==
  ASSUME Types, Walk, Progress, UNCHANGED <<lockVars, table, entry, dont_free, iter, visited>>,
         pc'["main"] \notin {"bucket", "visit", "next", "end"},
         iter.offset = 0 => pc'["io"] \notin {"bucket", "visit", "next", "end"},
         iter.offset > 0 =>
           /\ pc'["io"] \in Walking \union {"bucket", "end"}
           /\ pc'["io"] \in Walking <=> pc["io"] \in Walking,
         iter.entry # Nil /\ pc'["io"] \in {"visit", "remove", "removing"} =>
           pc["io"] \in {"visit", "remove", "removing"} /\ arg'["io"] = arg["io"],
         pc'["io"] = "end" => pc["io"] = "end"
  PROVE  Walk' /\ Progress'
<1>1. Walk'
  BY DEF Walk, lockVars, Types
<1>2. \A b, i : SeenBefore(b, i)' <=> SeenBefore(b, i)
  BY DEF SeenBefore
<1>3. ASSUME iter.entry # Nil, NEW b, NEW i, CurrentBefore(b, i) PROVE CurrentBefore(b, i)'
  BY <1>3 DEF CurrentBefore
<1>4. Progress'
  BY <1>2, <1>3 DEF Progress, Ahead
<1>5. QED
  BY <1>1, <1>4

(* The other thread goes on, or the collector does not walk.               *)
LEMMA WalkOfMain ==
  ASSUME Types, Walk, Progress, UNCHANGED <<lockVars, table, entry, dont_free, iter, visited>>,
         NEW th \in Thread, iter.offset = 0 \/ th = "main",
         pc'[th] \notin {"bucket", "visit", "next", "end"},
         pc'[Other(th)] = pc[Other(th)], arg'[Other(th)] = arg[Other(th)]
  PROVE  Walk' /\ Progress'
<1>1. CASE th = "main"
  <2>1. pc'["io"] = pc["io"] /\ arg'["io"] = arg["io"] /\ pc'["main"] = pc'[th]
    BY <1>1, TwoThreads
  <2>2. QED
    BY <2>1, WalkStays DEF Walk
<1>2. CASE th # "main" /\ iter.offset = 0
  <2>1. pc'["main"] = pc["main"] /\ pc'["io"] = pc'[th]
    BY <1>2, TwoThreads DEF Thread
  <2>2. iter.entry = Nil
    BY <1>2 DEF Walk
  <2>3. QED
    BY <1>2, <2>1, <2>2, WalkStays DEF Walk
<1>3. QED
  BY <1>1, <1>2

(* The collector walks or it does not.                                     *)
LEMMA WalksOrNot ==
  ASSUME Types
  PROVE  iter.offset \in Nat /\ (iter.offset = 0 \/ iter.offset > 0) /\ depth \in Nat
<1>1. iter.offset \in 0 .. Buckets + 1 /\ depth \in Nat
  BY DEF Types
<1>2. QED
  BY <1>1, TracksAssumption

(* A thread that is not at these places is not walking.                    *)
LEMMA NotWalking ==
  ASSUME Types, Walk, NEW th \in Thread, pc[th] \notin Walking \union {"bucket", "end"}
  PROVE  iter.offset = 0 \/ th = "main"
<1>1. CASE th = "io"
  <2>1. ~(iter.offset > 0)
    BY <1>1 DEF Walk
  <2>2. QED
    BY <2>1, WalksOrNot
<1>2. QED
  BY <1>1 DEF Thread

(* While the collector walks the main thread does not get the mutex.       *)
LEMMA Excluded ==
  ASSUME Types, Walk, NEW th \in Thread, Available(th)
  PROVE  iter.offset = 0 \/ th = "io"
<1>1. CASE iter.offset > 0
  <2>1. owner = "io" /\ depth # 0
    BY <1>1, WalksOrNot DEF Walk
  <2>2. QED
    BY <2>1 DEF Available
<1>2. QED
  BY <1>1, WalksOrNot

(* A thread that removes a track goes on.                                  *)
LEMMA WalkGoesOn ==
  ASSUME Types, Walk, Progress, UNCHANGED <<lockVars, table, entry, dont_free, iter, visited>>,
         NEW th \in Thread, pc[th] \in {"remove", "removing"}, pc'[th] \in {"removing", "free"},
         arg'[th] = arg[th], pc'[Other(th)] = pc[Other(th)], arg'[Other(th)] = arg[Other(th)]
  PROVE  Walk' /\ Progress'
<1>1. CASE th = "main"
  BY <1>1, WalkOfMain
<1>2. CASE th = "io"
  <2>1. pc'["main"] = pc["main"]
    BY <1>2, TwoThreads
  <2>2. pc'["main"] \notin {"bucket", "visit", "next", "end"}
    BY <2>1 DEF Walk
  <2>3. QED
    BY <1>2, <2>2, WalkStays DEF Walking
<1>3. QED
  BY <1>1, <1>2 DEF Thread

(* Nobody walks before and after.                                          *)
LEMMA NoWalk ==
  ASSUME Walk, iter.offset = 0, iter'.offset = 0, iter'.entry = iter.entry,
         \A th \in Thread : pc'[th] \notin {"bucket", "visit", "next", "end"}
  PROVE  Walk' /\ Progress'
<1>1. iter.entry = Nil /\ ~(iter.offset > 0) /\ \A b \in 1 .. Buckets : ~(b < iter.offset)
  BY DEF Walk
<1>0. /\ pc'["main"] \notin {"bucket", "visit", "next", "end"}
      /\ pc'["io"] \notin {"bucket", "visit", "next", "end"}
  BY DEF Thread
<1>2. Walk'
  BY <1>0, <1>1 DEF Walk
<1>3. Progress'
  <2>1. pc'["io"] # "end"
    BY <1>0
  <2>2. QED
    BY <1>1, <2>1 DEF Progress, Ahead
<1>4. QED
  BY <1>2, <1>3

(* Only after a race is memory used that has been freed.                   *)
LEMMA Astray ==
  ASSUME TracksInd, GoesAstray, races # {}
  PROVE  TracksInd'
<1>1. /\ UNCHANGED <<table, count, entry, dont_free, freelist, owner, depth, key, memory>>
      /\ UNCHANGED <<ref_count, iter, pc, arg, reg, held, visited, races>>
      /\ astray' = TRUE
  BY DEF GoesAstray, lockVars, tableVars, trackVars, threadVars, historyVars
<1>2. Types'
  BY <1>1 DEF TracksInd, Types
<1>3. Sorted' /\ Accounted'
  BY <1>1, TableStays DEF TracksInd
<1>4. Working'
  BY <1>1 DEF TracksInd, Working, Works
<1>5. Walk' /\ Progress'
  BY <1>1, WalkStays DEF TracksInd, lockVars, Walk
<1>6. Good'
  BY <1>1 DEF Good
<1>7. QED
  BY <1>2, <1>3, <1>4, <1>5, <1>6 DEF TracksInd
-----------------------------------------------------------------------------
(* osfy_track_add() finds a track.                                         *)
LEMMA FoundStep ==
  ASSUME TracksInd, NEW th \in Thread, NEW n \in Node, Found(th, n)
  PROVE  TracksInd'
<1> DEFINE o == Other(th)
<1>0. o \in Thread /\ o # th /\ Other(o) = th /\ \A t \in Thread : t = th \/ t = o
  BY TwoThreads
<1>1. Types /\ Sorted /\ Accounted /\ Working /\ Walk /\ Progress /\ Good
  BY DEF TracksInd
<1>2. /\ pc[th] = "idle" /\ n \in InTable /\ n \notin held[th]
      /\ UNCHANGED <<table, count, entry, dont_free, freelist, owner, depth, key, memory>>
      /\ UNCHANGED <<ref_count, iter, held, visited, astray>>
  BY DEF Found, lockVars, tableVars, trackVars
<1>3. /\ pc' \in [Thread -> Places] /\ arg' \in [Thread -> Node \union {Nil}]
      /\ reg' \in [Thread -> Nat] /\ pc'[th] = "add" /\ arg'[th] = n
      /\ pc'[o] = pc[o] /\ arg'[o] = arg[o] /\ reg'[o] = reg[o]
  <2>1. Goto(th, "add", n, 0) /\ "add" \in Places /\ n \in Node \union {Nil} /\ 0 \in Nat
    BY DEF Found, Places
  <2>2. QED
    BY <1>1, <2>1, Went
<1>4. Types'
  BY <1>1, <1>2, <1>3 DEF Types, Found, Races
<1>5. Sorted' /\ Accounted' /\ InTable' = InTable
  BY <1>1, <1>2, TableStays
<1>6. Walk' /\ Progress'
  BY <1>1, <1>2, <1>3, NotWalking, WalkOfMain DEF Walking, lockVars
<1>7. Working'
  <2>1. n \in entry /\ memory[n] # "none"
    BY <1>1, <1>2 DEF Accounted
  <2>2. QED
    BY <1>0, <1>1, <1>2, <1>3, <2>1 DEF Working, Works
<1>8. ASSUME races' = {} PROVE GoodTracks' /\ \A t \in Thread : GoodThread(t)'
  <2>1. /\ races = {} /\ memory[n] # "raw" /\ ~Frees(o, n)
    BY <1>8 DEF Found, Races
  <2>2. GoodTracks /\ GoodThread(th) /\ GoodThread(o)
    BY <1>0, <1>1, <2>1 DEF Good
  <2>3. memory[n] = "live"
    BY <1>2, <2>1, <2>2 DEF GoodTracks
  <2>5. GoodTracks'
    BY <1>0, <1>2, <1>3, <1>5, <2>2 DEF GoodTracks
  <2>6. GoodThread(th)'
    BY <1>2, <1>3, <1>5, <2>3 DEF GoodThread
  <2>7. pc[o] \in {"init", "remove", "removing", "free"} => arg[o] # n
    BY <2>1, <2>2, <2>3 DEF GoodThread, Frees
  <2>8. GoodThread(o)'
    BY <1>0, <1>2, <1>3, <1>5, <2>2, <2>7 DEF GoodThread, UsedBy, Chain
  <2>9. QED
    BY <1>0, <2>5, <2>6, <2>8
<1>9. QED
  BY <1>4, <1>5, <1>6, <1>7, <1>8 DEF TracksInd, Good

(* osfy_track_add() finds none and allocates one.                          *)
LEMMA NotFoundStep ==
  ASSUME TracksInd, NEW th \in Thread, NEW k \in Key, NotFound(th, k)
  PROVE  TracksInd'
<1> DEFINE o == Other(th)
           n == Min(Fresh)
<1>0. o \in Thread /\ o # th /\ Other(o) = th /\ \A t \in Thread : t = th \/ t = o
  BY TwoThreads
<1>1. Types /\ Sorted /\ Accounted /\ Working /\ Walk /\ Progress /\ Good
  BY DEF TracksInd
<1>2. n \in Node /\ memory[n] = "none" /\ n # Nil
  <2>1. Fresh # {} /\ Fresh \subseteq Nat
    BY DEF NotFound, Fresh, Node
  <2>2. QED
    BY <2>1, Least DEF Fresh, Node, Nil
<1> HIDE DEF n
<1>3. /\ pc[th] = "idle"
      /\ memory' = [memory EXCEPT ![n] = "raw"] /\ key' = [key EXCEPT ![n] = k]
      /\ \E garbage \in {0, 1} : ref_count' = [ref_count EXCEPT ![n] = garbage]
      /\ UNCHANGED <<table, count, entry, dont_free, freelist, owner, depth>>
      /\ UNCHANGED <<iter, held, visited, races, astray>>
  BY DEF NotFound, lockVars, tableVars, historyVars, n
<1>4. /\ pc' \in [Thread -> Places] /\ arg' \in [Thread -> Node \union {Nil}]
      /\ reg' \in [Thread -> Nat] /\ pc'[th] = "insert" /\ arg'[th] = n
      /\ pc'[o] = pc[o] /\ arg'[o] = arg[o] /\ reg'[o] = reg[o]
  <2>1. Goto(th, "insert", n, 0)
    BY DEF NotFound, n
  <2>2. "insert" \in Places /\ n \in Node \union {Nil} /\ 0 \in Nat
    BY <1>2 DEF Places
  <2>3. QED
    BY <1>1, <2>1, <2>2, Went
<1>5. /\ memory' \in [Node -> {"none", "raw", "live", "freed"}] /\ key' \in [Node -> Key]
      /\ ref_count' \in [Node -> Nat] /\ memory'[n] = "raw"
      /\ \A m \in Node :
           m # n => key'[m] = key[m] /\ memory'[m] = memory[m] /\ ref_count'[m] = ref_count[m]
  <2>1. key \in [Node -> Key] /\ memory \in [Node -> {"none", "raw", "live", "freed"}]
    BY <1>1 DEF Types
  <2>2. ref_count \in [Node -> Nat]
    BY <1>1 DEF Types
  <2>3. PICK garbage \in {0, 1} : ref_count' = [ref_count EXCEPT ![n] = garbage]
    BY <1>3
  <2>4. ASSUME NEW value \in Nat, ref_count' = [ref_count EXCEPT ![n] = value]
        PROVE  /\ ref_count' \in [Node -> Nat]
               /\ \A m \in Node : m # n => ref_count'[m] = ref_count[m]
    BY <1>2, <2>2, <2>4
  <2>5. garbage \in Nat
    OBVIOUS
  <2>6. QED
    BY <1>2, <1>3, <2>1, <2>3, <2>4, <2>5
<1>6. Types'
  BY <1>1, <1>3, <1>4, <1>5 DEF Types
<1>7. Sorted' /\ Accounted' /\ InTable' = InTable
  BY <1>1, <1>2, <1>3, <1>5, TableStays
<1>8. Walk' /\ Progress'
  BY <1>1, <1>3, <1>4, NotWalking, WalkOfMain DEF Walking, lockVars
<1>9. /\ n \notin entry /\ n # arg[o] /\ \A t \in Thread : n \notin held[t]
      /\ \A m \in InTable : m \in Node /\ m # n
  BY <1>0, <1>1, <1>2, EntriesAre DEF Accounted, Working, Works
<1>13. ASSUME NEW t \in Thread, NEW m \in held[t] PROVE memory'[m] = memory[m]
  <2>1. m \in Node /\ m # n
    BY <1>1, <1>9, HeldAre
  <2>2. QED
    BY <1>5, <2>1
<1>10. Working'
  <2>1. arg[o] \in Node => memory'[arg[o]] = memory[arg[o]]
    BY <1>5, <1>9
  <2>2. Works(th)'
    BY <1>0, <1>3, <1>4, <1>5, <1>9, <1>13, <1>1 DEF Working, Works
  <2>3. Works(o)'
    BY <1>0, <1>3, <1>4, <1>5, <1>9, <1>13, <2>1, <1>1 DEF Working, Works
  <2>4. QED
    BY <1>0, <2>2, <2>3 DEF Working
<1>11. ASSUME races' = {} PROVE GoodTracks' /\ \A t \in Thread : GoodThread(t)'
  <2>1. GoodTracks /\ GoodThread(o)
    BY <1>0, <1>1, <1>3, <1>11 DEF Good
  <2>3. GoodTracks'
    BY <1>0, <1>3, <1>4, <1>5, <1>7, <1>9, <1>13, <2>1 DEF GoodTracks
  <2>4. GoodThread(th)'
    BY <1>4 DEF GoodThread
  <2>5. arg[o] \in Node => key'[arg[o]] = key[arg[o]] /\ memory'[arg[o]] = memory[arg[o]]
    BY <1>5, <1>9
  <2>6. pc[o] \notin {"idle", "bucket", "next", "end"} => arg[o] \in Node
    BY <1>0, <1>1 DEF Working, Works
  <2>7. GoodThread(o)'
    BY <1>0, <1>3, <1>4, <1>7, <2>1, <2>5, <2>6 DEF GoodThread, UsedBy, Chain
  <2>8. QED
    BY <1>0, <2>3, <2>4, <2>7
<1>14. QED
  BY <1>6, <1>7, <1>8, <1>10, <1>11 DEF TracksInd, Good

(* hashtable_insert()                                                      *)
LEMMA InsertStep ==
  ASSUME TracksInd, NEW th \in Thread, Insert(th)
  PROVE  TracksInd'
<1> DEFINE o == Other(th)
           n == arg[th]
<1>0. o \in Thread /\ o # th /\ Other(o) = th /\ \A t \in Thread : t = th \/ t = o
  BY TwoThreads
<1>1. Types /\ Sorted /\ Accounted /\ Working /\ Walk /\ Progress /\ Good
  BY DEF TracksInd
<1>2. /\ pc[th] = "insert" /\ table' = With(table, Bucket(key[n]), n)
      /\ entry' = entry \union {n} /\ dont_free' \in {dont_free, dont_free \union {n}}
      /\ count' = count + 1
      /\ UNCHANGED <<freelist, owner, depth, key, memory>>
      /\ UNCHANGED <<ref_count, iter, held, visited, astray>>
  BY DEF Insert, With, lockVars, trackVars
<1>3. /\ n \in Node /\ memory[n] = "raw" /\ n \notin entry /\ n # arg[o]
      /\ \A t \in Thread : n \notin held[t]
  BY <1>1, <1>2 DEF Working, Works
<1> HIDE DEF n
<1>4. /\ pc' \in [Thread -> Places] /\ arg' \in [Thread -> Node \union {Nil}]
      /\ reg' \in [Thread -> Nat] /\ pc'[th] = "init" /\ arg'[th] = n
      /\ pc'[o] = pc[o] /\ arg'[o] = arg[o] /\ reg'[o] = reg[o]
  <2>1. Goto(th, "init", n, 0)
    BY DEF Insert, n
  <2>2. "init" \in Places /\ n \in Node \union {Nil} /\ 0 \in Nat
    BY <1>3 DEF Places
  <2>3. QED
    BY <1>1, <2>1, <2>2, Went
<1>5. /\ InTable = Entries(table) /\ IsFiniteSet(InTable) /\ n \notin InTable
      /\ InTable' = Entries(table')
  BY <1>1, <1>3, EntriesAre DEF InTable, Entries
<1>6. /\ table' \in Table /\ InOrder(table', key) /\ InTable' = InTable \union {n}
      /\ \A b \in 1 .. Buckets : Range(table[b]) \subseteq Range(table'[b])
  <2>1. table \in Table /\ key \in [Node -> Key] /\ InOrder(table, key) /\ n \notin Entries(table)
    BY <1>1, <1>5 DEF Types, Sorted
  <2>2. ASSUME NEW u, u = With(table, Bucket(key[n]), n)
        PROVE  /\ u \in Table /\ InOrder(u, key) /\ Entries(u) = Entries(table) \union {n}
               /\ \A b \in 1 .. Buckets : Range(table[b]) \subseteq Range(u[b])
    BY <1>3, <2>1, <2>2, Appended
  <2>3. QED
    BY <1>2, <1>5, <2>2
<1>7. Types'
  BY <1>1, <1>2, <1>3, <1>4, <1>6 DEF Types, Insert, Races
<1>8. Sorted'
  BY <1>2, <1>6 DEF Sorted
<1>9. Accounted'
  <2>1. count' = Cardinality(InTable')
    BY <1>1, <1>2, <1>5, <1>6, FS_AddElement DEF Accounted
  <2>2. QED
    BY <1>1, <1>2, <1>3, <1>6, <2>1 DEF Accounted
<1>10. Working'
  BY <1>0, <1>1, <1>2, <1>3, <1>4 DEF Working, Works
<1>11. Walk' /\ Progress'
  <2>1. iter.offset = 0
    <3>1. iter.offset = 0 \/ th = "main"
      BY <1>1, <1>2, NotWalking DEF Walking
    <3>2. iter.offset = 0 \/ th = "io"
      BY <1>1, Excluded DEF Insert
    <3>3. QED
      BY <3>1, <3>2
  <2>2. \A t \in Thread : pc'[t] \notin {"bucket", "visit", "next", "end"}
    BY <1>0, <1>1, <1>2, <1>4, <2>1 DEF Walk, Thread
  <2>3. QED
    BY <1>1, <1>2, <2>1, <2>2, NoWalk
<1>12. ASSUME races' = {} PROVE GoodTracks' /\ \A t \in Thread : GoodThread(t)'
  <2>1. races = {} /\ \A m \in InTable : key[m] # key[n]
    BY <1>12 DEF Insert, Races, n
  <2>2. GoodTracks /\ GoodThread(o)
    BY <1>0, <1>1, <2>1 DEF Good
  <2>3. GoodTracks'
    BY <1>0, <1>2, <1>3, <1>4, <1>6, <2>1, <2>2 DEF GoodTracks
  <2>4. GoodThread(th)'
    BY <1>0, <1>2, <1>3, <1>4, <1>6 DEF GoodThread, UsedBy
  <2>5. pc[o] = "removing" => Chain(key[arg[o]])' = table'[Bucket(key[arg[o]])] /\ Bucket(key[arg[o]]) \in 1 .. Buckets
    BY <1>0, <1>1, <1>2, <1>4, EntriesAre DEF Working, Works, Chain
  <2>6. pc[o] = "removing" => reg[o] \in Range(table'[Bucket(key[arg[o]])])
    BY <1>6, <2>2, <2>5 DEF GoodThread, Chain
  <2>7. GoodThread(o)'
    BY <1>0, <1>2, <1>3, <1>4, <1>6, <2>2, <2>6 DEF GoodThread, UsedBy, Chain
  <2>8. QED
    BY <1>0, <2>3, <2>4, <2>7
<1>13. QED
  BY <1>7, <1>8, <1>9, <1>10, <1>11, <1>12 DEF TracksInd, Good

(* A thread goes on with the track that it works on, or that it has.       *)
LEMMA OthersStay ==
  ASSUME TracksInd, NEW th \in Thread, UNCHANGED <<table, count, entry, freelist, key>>,
         \A n \in Node : n # arg[th] => memory'[n] = memory[n],
         arg[th] \in Node => memory'[arg[th]] # "none",
         arg'[th] = arg[th] \/ arg'[th] = Nil \/ arg'[th] \in held[th],
         pc'[th] # "insert", pc'[th] \notin {"idle", "bucket", "next", "end"} => arg'[th] \in Node,
         held'[th] \subseteq held[th] \union {arg[th]}, held' \in [Thread -> SUBSET Node],
         held'[Other(th)] = held[Other(th)],
         pc'[Other(th)] = pc[Other(th)], arg'[Other(th)] = arg[Other(th)]
  PROVE  Sorted' /\ Accounted' /\ InTable' = InTable /\ Working'
<1> DEFINE o == Other(th)
<1>0. o \in Thread /\ o # th /\ Other(o) = th /\ \A t \in Thread : t = th \/ t = o
  BY TwoThreads
<1>1. Types /\ Sorted /\ Accounted /\ Working
  BY DEF TracksInd
<1>2. Works(th) /\ Works(o)
  BY <1>0, <1>1 DEF Working
<1>3. \A n \in Node : memory[n] # "none" => memory'[n] # "none"
  OBVIOUS
<1>4. Sorted' /\ Accounted' /\ InTable' = InTable
  BY <1>1, <1>3, TableStays
<1>5. Works(th)'
  <2>1. \A n \in held'[th] : memory'[n] # "none"
    <3>1. ASSUME NEW n \in held'[th] PROVE memory'[n] # "none"
      <4>1. n \in Node
        BY <3>1
      <4>2. CASE n = arg[th]
        BY <4>1, <4>2
      <4>3. CASE n # arg[th]
        BY <1>2, <1>3, <4>1, <4>3 DEF Works
      <4>4. QED
        BY <4>2, <4>3
    <3>2. QED
      BY <3>1
  <2>2. arg'[th] \in Node => memory'[arg'[th]] # "none"
    <3>1. CASE arg'[th] = arg[th]
      BY <3>1
    <3>2. CASE arg'[th] = Nil
      BY <3>2 DEF Nil, Node
    <3>3. CASE arg'[th] \in held[th]
      BY <1>2, <1>3, <3>3 DEF Works
    <3>4. QED
      BY <3>1, <3>2, <3>3
  <2>3. QED
    BY <2>1, <2>2 DEF Works
<1>6. Works(o)'
  <2>1. \A n \in held[o] : n \in Node
    BY <1>0, <1>1, HeldAre
  <2>2. pc[o] # "insert" => (pc[o] = "insert")' = FALSE
    OBVIOUS
  <2>3. CASE pc[o] = "insert"
    <3>1. /\ arg[o] \in Node /\ memory[arg[o]] = "raw" /\ arg[o] \notin entry
          /\ arg[th] # arg[o] /\ \A t \in Thread : arg[o] \notin held[t]
      BY <1>0, <1>2, <2>3 DEF Works
    <3>2. memory'[arg[o]] = "raw" /\ arg'[th] # arg[o] /\ \A t \in Thread : arg[o] \notin held'[t]
      BY <1>0, <3>1 DEF Nil, Node
    <3>3. QED
      BY <1>0, <1>2, <1>3, <2>1, <3>1, <3>2 DEF Works
  <2>4. CASE pc[o] # "insert"
    BY <1>0, <1>2, <1>3, <2>1, <2>4 DEF Works
  <2>5. QED
    BY <2>3, <2>4
<1>7. QED
  BY <1>0, <1>4, <1>5, <1>6 DEF Working

(* The fields of the new track are set.                                    *)
LEMMA InitialiseStep ==
  ASSUME TracksInd, NEW th \in Thread, Initialise(th)
  PROVE  TracksInd'
<1> DEFINE o == Other(th)
           n == arg[th]
<1>0. o \in Thread /\ o # th /\ Other(o) = th /\ \A t \in Thread : t = th \/ t = o
  BY TwoThreads
<1>1. Types /\ Sorted /\ Accounted /\ Working /\ Walk /\ Progress /\ Good
  BY DEF TracksInd
<1>2. pc[th] = "init" /\ n \in Node /\ memory[n] # "none" /\ n = arg[th]
  BY <1>1 DEF Initialise, Working, Works
<1> HIDE DEF n
<1>3. races = {} => GoodTracks /\ GoodThread(th) /\ GoodThread(o)
  BY <1>0, <1>1 DEF Good
<1>4. races = {} => n \in InTable /\ memory[n] = "raw" /\ ~UsedBy(o, n) /\ \A t \in Thread : n \notin held[t]
  BY <1>2, <1>3 DEF GoodThread
<1>5. CASE memory[n] = "freed"
  BY <1>2, <1>4, <1>5, Astray DEF Initialise
<1>6. CASE memory[n] # "freed"
  <2>1. /\ memory' = [memory EXCEPT ![n] = "live"] /\ ref_count' = [ref_count EXCEPT ![n] = 0]
        /\ UNCHANGED <<table, count, entry, dont_free, freelist, owner, depth, key>>
        /\ UNCHANGED <<iter, held, visited, races, astray>> /\ Goto(th, "add", n, 0)
    BY <1>2, <1>6 DEF Initialise, lockVars, tableVars, historyVars
  <2>2. /\ pc' \in [Thread -> Places] /\ arg' \in [Thread -> Node \union {Nil}]
        /\ reg' \in [Thread -> Nat] /\ pc'[th] = "add" /\ arg'[th] = n
        /\ pc'[o] = pc[o] /\ arg'[o] = arg[o] /\ reg'[o] = reg[o]
    <3>1. "add" \in Places /\ n \in Node \union {Nil} /\ 0 \in Nat
      BY <1>2 DEF Places
    <3>2. QED
      BY <1>1, <2>1, <3>1, Went
  <2>3. /\ memory' \in [Node -> {"none", "raw", "live", "freed"}] /\ memory'[n] = "live"
        /\ ref_count' \in [Node -> Nat] /\ ref_count'[n] = 0
        /\ \A m \in Node : m # n => memory'[m] = memory[m] /\ ref_count'[m] = ref_count[m]
    BY <1>1, <1>2, <2>1 DEF Types
  <2>4. Types'
    BY <1>1, <2>1, <2>2, <2>3 DEF Types
  <2>5. Sorted' /\ Accounted' /\ InTable' = InTable /\ Working'
    BY <1>0, <1>1, <1>2, <2>1, <2>2, <2>3, OthersStay, HeldAre
  <2>6. Walk' /\ Progress'
    BY <1>1, <1>2, <2>1, <2>2, NotWalking, WalkOfMain DEF Walking, lockVars
  <2>7. ASSUME races' = {} PROVE GoodTracks' /\ \A t \in Thread : GoodThread(t)'
    <3>1. GoodTracks /\ GoodThread(o) /\ n \in InTable /\ memory[n] = "raw" /\ ~UsedBy(o, n)
          /\ \A t \in Thread : n \notin held[t]
      BY <1>3, <1>4, <2>1, <2>7
    <3>2. Holders(held, n) = 0
      BY <1>1, <3>1, HeldAre, HoldersOf
    <3>3. InTable \subseteq Node /\ \A t \in Thread : held[t] \subseteq Node
      BY <1>1, EntriesAre, HeldAre
    <3>4. \A m \in InTable :
            \/ memory'[m] = "live"
            \/ memory'[m] = "raw" /\ \E t \in Thread : pc'[t] = "init" /\ arg'[t] = m
      BY <1>0, <1>2, <2>2, <2>3, <3>1, <3>3 DEF GoodTracks
    <3>5. \A m \in Node : memory'[m] = "live" => ref_count'[m] = Holders(held, m)
      BY <2>3, <3>1, <3>2 DEF GoodTracks
    <3>6. GoodTracks'
      BY <2>1, <2>3, <2>5, <3>1, <3>3, <3>4, <3>5 DEF GoodTracks
    <3>7. GoodThread(th)'
      BY <2>1, <2>2, <2>3, <2>5, <3>1 DEF GoodThread
    <3>8. \A m : UsedBy(th, m)' <=> UsedBy(th, m)
      BY <1>2, <2>2 DEF UsedBy
    <3>9. pc[o] \in {"init", "add", "added", "sub", "subtracted", "remove", "removing", "free"} =>
            arg[o] # n /\ arg[o] \in Node
      BY <1>0, <1>1, <3>1 DEF UsedBy, Working, Works
    <3>10. GoodThread(o)'
      BY <1>0, <2>1, <2>2, <2>3, <2>5, <3>1, <3>8, <3>9 DEF GoodThread, Chain
    <3>11. QED
      BY <1>0, <3>6, <3>7, <3>10
  <2>8. QED
    BY <2>4, <2>5, <2>6, <2>7 DEF TracksInd, Good
<1>7. QED
  BY <1>5, <1>6

(* sp_track_release()                                                      *)
LEMMA ReleaseStep ==
  ASSUME TracksInd, NEW th \in Thread, NEW n \in Node, Release(th, n)
  PROVE  TracksInd'
<1> DEFINE o == Other(th)
<1>0. o \in Thread /\ o # th /\ Other(o) = th /\ \A t \in Thread : t = th \/ t = o
  BY TwoThreads
<1>1. Types /\ Sorted /\ Accounted /\ Working /\ Walk /\ Progress /\ Good
  BY DEF TracksInd
<1>2. /\ pc[th] = "idle" /\ n \in held[th] /\ Goto(th, "sub", n, 0)
      /\ UNCHANGED <<table, count, entry, dont_free, freelist, owner, depth, key, memory>>
      /\ UNCHANGED <<ref_count, iter, held, visited, races, astray>>
  BY DEF Release, lockVars, tableVars, trackVars, historyVars
<1>3. /\ pc' \in [Thread -> Places] /\ arg' \in [Thread -> Node \union {Nil}]
      /\ reg' \in [Thread -> Nat] /\ pc'[th] = "sub" /\ arg'[th] = n
      /\ pc'[o] = pc[o] /\ arg'[o] = arg[o] /\ reg'[o] = reg[o]
  <2>1. "sub" \in Places /\ n \in Node \union {Nil} /\ 0 \in Nat
    BY DEF Places
  <2>2. QED
    BY <1>1, <1>2, <2>1, Went
<1>4. Types'
  BY <1>1, <1>2, <1>3 DEF Types
<1>5. Sorted' /\ Accounted' /\ InTable' = InTable /\ Working'
  <2>1. arg[th] \in Node => memory[arg[th]] # "none"
    BY <1>1 DEF Working, Works
  <2>2. QED
    BY <1>2, <1>3, <2>1, <1>1, OthersStay, HeldAre
<1>6. Walk' /\ Progress'
  BY <1>1, <1>2, <1>3, NotWalking, WalkOfMain DEF Walking, lockVars
<1>7. ASSUME races' = {} PROVE GoodTracks' /\ \A t \in Thread : GoodThread(t)'
  <2>1. GoodTracks /\ GoodThread(o)
    BY <1>0, <1>1, <1>2, <1>7 DEF Good
  <2>2. GoodTracks'
    BY <1>0, <1>2, <1>3, <1>5, <2>1 DEF GoodTracks
  <2>3. GoodThread(th)'
    BY <1>2, <1>3 DEF GoodThread
  <2>4. pc[o] \in {"init", "remove", "removing", "free"} => arg[o] # n
    BY <1>2, <2>1 DEF GoodThread
  <2>5. GoodThread(o)'
    BY <1>0, <1>2, <1>3, <1>5, <2>1, <2>4 DEF GoodThread, UsedBy, Chain
  <2>6. QED
    BY <1>0, <2>2, <2>3, <2>5
<1>8. QED
  BY <1>4, <1>5, <1>6, <1>7 DEF TracksInd, Good

(* The first half of ref_count++ and --ref_count.                          *)
LEMMA LoadStep ==
  ASSUME TracksInd, NEW th \in Thread, Load(th)
  PROVE  TracksInd'
<1> DEFINE o == Other(th)
           n == arg[th]
<1>0. o \in Thread /\ o # th /\ Other(o) = th /\ \A t \in Thread : t = th \/ t = o
  BY TwoThreads
<1>1. Types /\ Sorted /\ Accounted /\ Working /\ Walk /\ Progress /\ Good
  BY DEF TracksInd
<1>2. pc[th] \in {"add", "sub"} /\ n \in Node /\ memory[n] # "none" /\ n = arg[th]
  BY <1>1 DEF Load, Working, Works
<1> HIDE DEF n
<1>3. races = {} => GoodTracks /\ GoodThread(th) /\ GoodThread(o)
  BY <1>0, <1>1 DEF Good
<1>4. races = {} => n \in InTable /\ memory[n] = "live"
  BY <1>2, <1>3 DEF GoodThread, GoodTracks
<1>5. CASE memory[n] = "freed" \/ (pc[th] = "sub" /\ ref_count[n] = 0)
  <2>1. races = {} /\ pc[th] = "sub" => ref_count[n] # 0
    BY <1>1, <1>2, <1>3, <1>4, Unheld DEF GoodThread
  <2>2. races # {}
    BY <1>4, <1>5, <2>1
  <2>3. GoesAstray
    BY <1>2, <1>5 DEF Load
  <2>4. QED
    BY <2>2, <2>3, Astray
<1>6. CASE ~(memory[n] = "freed" \/ (pc[th] = "sub" /\ ref_count[n] = 0))
  <2> DEFINE where == IF pc[th] = "add" THEN "added" ELSE "subtracted"
  <2>1. /\ UNCHANGED <<table, count, entry, dont_free, freelist, owner, depth, key, memory>>
        /\ UNCHANGED <<ref_count, iter, held, visited, races, astray>>
        /\ Goto(th, where, n, ref_count[n])
    BY <1>2, <1>6 DEF Load, lockVars, tableVars, trackVars, historyVars
  <2>2. /\ pc' \in [Thread -> Places] /\ arg' \in [Thread -> Node \union {Nil}]
        /\ reg' \in [Thread -> Nat] /\ pc'[th] = where /\ arg'[th] = n
        /\ pc'[o] = pc[o] /\ arg'[o] = arg[o] /\ reg'[o] = reg[o]
    <3>1. n \in Node \union {Nil} /\ Goto(th, where, n, ref_count[n]) /\ ref_count[n] \in Nat
      BY <1>1, <1>2, <2>1 DEF Types
    <3>2. where \in Places
      BY DEF Places
    <3> HIDE DEF where
    <3>3. QED
      BY <1>1, <3>1, <3>2, Went
  <2>3. Types'
    BY <1>1, <2>1, <2>2 DEF Types
  <2>4. Sorted' /\ Accounted' /\ InTable' = InTable /\ Working'
    BY <1>1, <1>2, <2>1, <2>2, OthersStay, HeldAre
  <2>5. Walk' /\ Progress'
    BY <1>1, <1>2, <2>1, <2>2, NotWalking, WalkOfMain DEF Walking, lockVars
  <2>6. ASSUME races' = {} PROVE GoodTracks' /\ \A t \in Thread : GoodThread(t)'
    <3>1. GoodTracks /\ GoodThread(o) /\ GoodThread(th)
      BY <1>3, <2>1, <2>6
    <3>2. GoodTracks'
      BY <1>0, <1>2, <2>1, <2>2, <2>4, <3>1 DEF GoodTracks
    <3>3. GoodThread(th)'
      BY <1>2, <2>1, <2>2, <2>4, <3>1 DEF GoodThread
    <3>4. \A m : UsedBy(th, m)' <=> UsedBy(th, m)
      BY <1>2, <2>2 DEF UsedBy
    <3>5. GoodThread(o)'
      BY <1>0, <2>1, <2>2, <2>4, <3>1, <3>4 DEF GoodThread, Chain
    <3>6. QED
      BY <1>0, <3>2, <3>3, <3>5
  <2>7. QED
    BY <2>3, <2>4, <2>5, <2>6 DEF TracksInd, Good
<1>7. QED
  BY <1>5, <1>6

(* The second half of ref_count++.                                         *)
LEMMA AddRefStep ==
  ASSUME TracksInd, NEW th \in Thread, AddRef(th)
  PROVE  TracksInd'
<1> DEFINE o == Other(th)
           n == arg[th]
<1>0. o \in Thread /\ o # th /\ Other(o) = th /\ \A t \in Thread : t = th \/ t = o
  BY TwoThreads
<1>1. Types /\ Sorted /\ Accounted /\ Working /\ Walk /\ Progress /\ Good
  BY DEF TracksInd
<1>2. pc[th] = "added" /\ n \in Node /\ memory[n] # "none" /\ n = arg[th]
  BY <1>1 DEF AddRef, Working, Works
<1> HIDE DEF n
<1>3. races = {} => GoodTracks /\ GoodThread(th) /\ GoodThread(o)
  BY <1>0, <1>1 DEF Good
<1>4. races = {} => n \in InTable /\ memory[n] = "live" /\ n \notin held[th]
  BY <1>2, <1>3 DEF GoodThread
<1>5. CASE memory[n] = "freed"
  BY <1>2, <1>4, <1>5, Astray DEF AddRef
<1>6. CASE memory[n] # "freed"
  <2>1. /\ UNCHANGED <<table, count, entry, dont_free, freelist, owner, depth, key, memory>>
        /\ UNCHANGED <<iter, visited, astray>>
    BY <1>2, <1>6 DEF AddRef, Store, lockVars, tableVars
  <2>9. /\ Goto(th, "idle", Nil, 0)
        /\ ref_count' = [ref_count EXCEPT ![n] = reg[th] + 1]
        /\ held' = [held EXCEPT ![th] = @ \union {n}]
        /\ races \subseteq races' /\ races' \subseteq races \union {"lost update", "freed in use"}
        /\ races' = {} => ref_count[n] = reg[th]
    BY <1>2, <1>6 DEF AddRef, Store, Races, Return
  <2>2. /\ pc' \in [Thread -> Places] /\ arg' \in [Thread -> Node \union {Nil}]
        /\ reg' \in [Thread -> Nat] /\ pc'[th] = "idle" /\ arg'[th] = Nil
        /\ pc'[o] = pc[o] /\ arg'[o] = arg[o] /\ reg'[o] = reg[o]
    <3>1. "idle" \in Places /\ Nil \in Node \union {Nil} /\ 0 \in Nat
      BY DEF Places
    <3>2. Goto(th, "idle", Nil, 0)
      BY <2>9
    <3>3. QED
      BY <1>1, <3>1, <3>2, Went
  <2>3. /\ held' \in [Thread -> SUBSET Node] /\ held'[th] = held[th] \union {n} /\ held'[o] = held[o]
        /\ ref_count' \in [Node -> Nat] /\ ref_count'[n] = reg[th] + 1 /\ reg[th] \in Nat
        /\ \A m \in Node : m # n => ref_count'[m] = ref_count[m]
    <3>1. held \in [Thread -> SUBSET Node] /\ ref_count \in [Node -> Nat] /\ reg[th] \in Nat
      BY <1>1 DEF Types
    <3>2. reg[th] + 1 \in Nat /\ (reg[th] > 0 => reg[th] - 1 \in Nat)
      BY <3>1
    <3>3. QED
      BY <1>0, <1>2, <2>9, <3>1, <3>2
  <2>4. Types'
    <3>1. races' \subseteq {"freed in use", "raw", "twice", "stale head", "lost update"}
      BY <1>1, <2>9 DEF Types
    <3>2. QED
      BY <1>1, <2>1, <2>2, <2>3, <3>1 DEF Types
  <2>5. Sorted' /\ Accounted' /\ InTable' = InTable /\ Working'
    BY <1>1, <1>2, <2>1, <2>2, <2>3, OthersStay
  <2>6. Walk' /\ Progress'
    BY <1>1, <1>2, <2>1, <2>2, NotWalking, WalkOfMain DEF Walking, lockVars
  <2>7. ASSUME races' = {} PROVE GoodTracks' /\ \A t \in Thread : GoodThread(t)'
    <3>1. GoodTracks /\ GoodThread(o) /\ GoodThread(th) /\ ref_count[n] = reg[th]
          /\ n \in InTable /\ memory[n] = "live" /\ n \notin held[th]
      BY <1>3, <1>4, <2>7, <2>9
    <3>2. /\ Holders(held', n) = Holders(held, n) + 1
          /\ \A m : m # n => Holders(held', m) = Holders(held, m)
      BY <1>1, <1>2, <2>3, <3>1, HeldAre, HoldersChange
    <3>3. \A m \in Node : memory'[m] = "live" => ref_count'[m] = Holders(held', m)
      BY <2>1, <2>3, <3>1, <3>2 DEF GoodTracks
    <3>4. \A t \in Thread : \A m \in held'[t] : memory'[m] = "live" /\ m \in InTable
      BY <1>0, <2>1, <2>3, <3>1 DEF GoodTracks
    <3>5. \A m \in InTable :
            \/ memory'[m] = "live"
            \/ memory'[m] = "raw" /\ \E t \in Thread : pc'[t] = "init" /\ arg'[t] = m
      BY <1>0, <1>2, <2>1, <2>2, <3>1 DEF GoodTracks
    <3>6. GoodTracks'
      BY <2>1, <2>5, <3>1, <3>3, <3>4, <3>5 DEF GoodTracks
    <3>7. GoodThread(th)'
      BY <2>2 DEF GoodThread
    <3>8. \A m : ~UsedBy(th, m)'
      BY <2>2 DEF UsedBy
    <3>9. pc[o] \in {"init", "remove", "removing", "free"} => arg[o] # n
      BY <1>0, <1>2, <3>1 DEF GoodThread, UsedBy
    <3>10. GoodThread(o)'
      BY <1>0, <2>1, <2>2, <2>3, <2>5, <3>1, <3>8, <3>9 DEF GoodThread, Chain
    <3>11. QED
      BY <1>0, <3>6, <3>7, <3>10
  <2>8. QED
    BY <2>4, <2>5, <2>6, <2>7 DEF TracksInd, Good
<1>7. QED
  BY <1>5, <1>6

(* The second half of --ref_count.                                         *)
LEMMA SubRefStep ==
  ASSUME TracksInd, NEW th \in Thread, SubRef(th)
  PROVE  TracksInd'
<1> DEFINE o == Other(th)
           n == arg[th]
<1>0. o \in Thread /\ o # th /\ Other(o) = th /\ \A t \in Thread : t = th \/ t = o
  BY TwoThreads
<1>1. Types /\ Sorted /\ Accounted /\ Working /\ Walk /\ Progress /\ Good
  BY DEF TracksInd
<1>2. pc[th] = "subtracted" /\ reg[th] > 0 /\ n \in Node /\ memory[n] # "none" /\ n = arg[th]
  BY <1>1 DEF SubRef, Working, Works
<1> HIDE DEF n
<1>3. races = {} => GoodTracks /\ GoodThread(th) /\ GoodThread(o)
  BY <1>0, <1>1 DEF Good
<1>4. races = {} => n \in held[th] /\ n \in InTable /\ memory[n] = "live"
  BY <1>2, <1>3 DEF GoodThread, GoodTracks
<1>5. CASE memory[n] = "freed"
  BY <1>2, <1>4, <1>5, Astray DEF SubRef
<1>6. CASE memory[n] # "freed"
  <2>1. /\ UNCHANGED <<table, count, entry, dont_free, freelist, owner, depth, key, memory>>
        /\ UNCHANGED <<iter, visited, astray>>
    BY <1>2, <1>6 DEF SubRef, Store, lockVars, tableVars
  <2>9. /\ ref_count' = [ref_count EXCEPT ![n] = reg[th] - 1]
        /\ held' = [held EXCEPT ![th] = @ \ {n}]
        /\ races \subseteq races' /\ races' \subseteq races \union {"lost update", "freed in use"}
        /\ races' = {} => ref_count[n] = reg[th] /\ (reg[th] - 1 = 0 => ~UsedBy(o, n))
    BY <1>2, <1>6 DEF SubRef, Store, Races
  <2>2. /\ pc' \in [Thread -> Places] /\ arg' \in [Thread -> Node \union {Nil}]
        /\ reg' \in [Thread -> Nat]
        /\ \/ reg[th] = 1 /\ pc'[th] = "remove" /\ arg'[th] = n
           \/ reg[th] # 1 /\ pc'[th] = "idle" /\ arg'[th] = Nil
        /\ pc'[o] = pc[o] /\ arg'[o] = arg[o] /\ reg'[o] = reg[o]
    <3>1. n \in Node \union {Nil} /\ "remove" \in Places /\ "idle" \in Places
      BY <1>2 DEF Places, Walking
    <3>2. CASE reg[th] = 1
      <4>1. Goto(th, "remove", n, 0)
        BY <1>2, <1>6, <3>2 DEF SubRef
      <4>2. QED
        BY <1>1, <3>1, <3>2, <4>1, Went
    <3>3. CASE reg[th] # 1
      <4>1. Goto(th, "idle", Nil, 0)
        BY <1>2, <1>6, <3>3 DEF SubRef, Return
      <4>2. QED
        BY <1>1, <3>1, <3>3, <4>1, Went
    <3>4. QED
      BY <3>2, <3>3
  <2>3. /\ held' \in [Thread -> SUBSET Node] /\ held'[th] = held[th] \ {n} /\ held'[o] = held[o]
        /\ reg[th] \in Nat /\ reg[th] - 1 \in Nat
        /\ ref_count' \in [Node -> Nat] /\ ref_count'[n] = reg[th] - 1
        /\ \A m \in Node : m # n => ref_count'[m] = ref_count[m]
    <3>1. held \in [Thread -> SUBSET Node] /\ ref_count \in [Node -> Nat] /\ reg[th] \in Nat
      BY <1>1 DEF Types
    <3>2. reg[th] + 1 \in Nat /\ (reg[th] > 0 => reg[th] - 1 \in Nat)
      BY <3>1
    <3>3. QED
      BY <1>0, <1>2, <2>9, <3>1, <3>2
  <2>4. Types'
    <3>1. races' \subseteq {"freed in use", "raw", "twice", "stale head", "lost update"}
      BY <1>1, <2>9 DEF Types
    <3>2. QED
      BY <1>1, <2>1, <2>2, <2>3, <3>1 DEF Types
  <2>5. Sorted' /\ Accounted' /\ InTable' = InTable /\ Working'
    <3>1. pc'[th] # "insert" /\ (pc'[th] \notin {"idle", "bucket", "next", "end"} => arg'[th] \in Node)
          /\ (arg'[th] = arg[th] \/ arg'[th] = Nil) /\ held'[th] \subseteq held[th] \union {arg[th]}
      BY <1>2, <2>2, <2>3
    <3>2. QED
      BY <1>2, <2>1, <2>2, <2>3, <3>1, <1>1, OthersStay
  <2>6. Walk' /\ Progress'
    BY <1>1, <1>2, <2>1, <2>2, NotWalking, WalkOfMain DEF Walking, lockVars
  <2>7. ASSUME races' = {} PROVE GoodTracks' /\ \A t \in Thread : GoodThread(t)'
    <3>1. GoodTracks /\ GoodThread(o) /\ GoodThread(th) /\ ref_count[n] = reg[th]
          /\ n \in held[th] /\ n \in InTable /\ memory[n] = "live"
          /\ (reg[th] - 1 = 0 => ~UsedBy(o, n))
      BY <1>3, <1>4, <2>7, <2>9
    <3>2. /\ Holders(held, n) = Holders(held', n) + 1 /\ Holders(held', n) \in Nat
          /\ \A m : m # n => Holders(held', m) = Holders(held, m)
      <4>1. n \notin held'[th] /\ held[th] = held'[th] \union {n} /\ held \in [Thread -> SUBSET Node]
        BY <1>1, <2>3, <3>1, HeldAre
      <4>2. /\ Holders(held, n) = Holders(held', n) + 1
            /\ \A m : m # n => Holders(held, m) = Holders(held', m)
        <5>1. n \in Node /\ held' \in [Thread -> SUBSET Node] /\ held[Other(th)] = held'[Other(th)]
          BY <1>2, <2>3
        <5>2. QED
          BY <4>1, <5>1, HoldersChange
      <4>3. Holders(held', n) \in Nat
        BY <2>3, HoldersOf
      <4>4. QED
        BY <4>2, <4>3
    <3>3. ref_count[n] = Holders(held, n)
      BY <1>2, <3>1 DEF GoodTracks
    <3>4. \A m \in Node : memory'[m] = "live" => ref_count'[m] = Holders(held', m)
      BY <2>1, <2>3, <3>1, <3>2, <3>3 DEF GoodTracks
    <3>5. \A t \in Thread : \A m \in held'[t] : memory'[m] = "live" /\ m \in InTable
      BY <1>0, <2>1, <2>3, <3>1 DEF GoodTracks
    <3>6. \A m \in InTable :
            \/ memory'[m] = "live"
            \/ memory'[m] = "raw" /\ \E t \in Thread : pc'[t] = "init" /\ arg'[t] = m
      BY <1>0, <1>2, <2>1, <2>2, <3>1 DEF GoodTracks
    <3>7. GoodTracks'
      BY <2>1, <2>5, <3>1, <3>4, <3>5, <3>6 DEF GoodTracks
    <3>8. reg[th] = 1 => ~UsedBy(o, n) /\ \A t \in Thread : n \notin held'[t]
      <4>1. ASSUME reg[th] = 1 PROVE Holders(held', n) = 0
        <5>1. reg[th] = Holders(held', n) + 1 /\ Holders(held', n) \in Nat
          BY <3>1, <3>2, <3>3
        <5>2. QED
          BY <4>1, <5>1
      <4>2. QED
        BY <2>3, <3>1, <4>1, HoldersOf
    <3>15. \A m : UsedBy(o, m)' <=> UsedBy(o, m)
      BY <2>2 DEF UsedBy
    <3>9. GoodThread(th)'
      BY <1>0, <2>1, <2>2, <2>5, <3>1, <3>8, <3>15 DEF GoodThread
    <3>10. \A m : UsedBy(th, m)' => UsedBy(th, m)
      BY <1>2, <2>2 DEF UsedBy
    <3>11. pc[o] \in {"init", "remove", "removing", "free"} => arg[o] # n
      BY <1>0, <3>1 DEF GoodThread
    <3>12. \A t \in Thread : \A m : m \notin held[t] => m \notin held'[t]
      BY <1>0, <2>3
    <3>13. GoodThread(o)'
      BY <1>0, <2>1, <2>2, <2>3, <2>5, <3>1, <3>10, <3>11, <3>12 DEF GoodThread, Chain
    <3>14. QED
      BY <1>0, <3>7, <3>9, <3>13
  <2>8. QED
    BY <2>4, <2>5, <2>6, <2>7 DEF TracksInd, Good
<1>7. QED
  BY <1>5, <1>6

(* hashtable_remove() reads the head of the bucket.                         *)
LEMMA ReadHeadStep ==
  ASSUME TracksInd, NEW th \in Thread, ReadHead(th)
  PROVE  TracksInd'
<1> DEFINE o == Other(th)
           n == arg[th]
<1>0. o \in Thread /\ o # th /\ Other(o) = th /\ \A t \in Thread : t = th \/ t = o
  BY TwoThreads
<1>1. Types /\ Sorted /\ Accounted /\ Working /\ Walk /\ Progress /\ Good
  BY DEF TracksInd
<1>2. pc[th] = "remove" /\ n \in Node /\ memory[n] # "none" /\ n = arg[th]
  BY <1>1 DEF ReadHead, Working, Works
<1> HIDE DEF n
<1>3. races = {} => GoodTracks /\ GoodThread(th) /\ GoodThread(o)
  BY <1>0, <1>1 DEF Good
<1>4. races = {} => n \in InTable /\ memory[n] = "live" /\ \A t \in Thread : n \notin held[t]
  BY <1>2, <1>3 DEF GoodThread
<1>5. CASE memory[n] = "freed" \/ ref_count[n] # 0
  <2>1. races # {}
    BY <1>1, <1>2, <1>3, <1>4, <1>5, Unheld
  <2>2. GoesAstray
    BY <1>2, <1>5 DEF ReadHead
  <2>3. QED
    BY <2>1, <2>2, Astray
<1>6. CASE ~(memory[n] = "freed" \/ ref_count[n] # 0)
  <2>9. PICK k \in Id(n) :
          /\ IF Chain(k) = <<>> THEN Goto(th, "free", n, 0)
             ELSE Goto(th, "removing", n, Chain(k)[1])
          /\ UNCHANGED <<lockVars, tableVars, trackVars, held, iter, historyVars, astray>>
    BY <1>2, <1>6 DEF ReadHead
  <2>10. k \in Key /\ (memory[n] = "live" => k = key[n])
    <3>1. key[n] \in Key
      BY <1>1, <1>2 DEF Types
    <3>2. memory[n] = "raw" \/ k = key[n]
      BY <2>9 DEF Id
    <3>3. k \in Key
      BY <2>9, <3>1 DEF Id
    <3>4. QED
      BY <3>2, <3>3
  <2> DEFINE chain == Chain(k)
  <2>1. /\ UNCHANGED <<table, count, entry, dont_free, freelist, owner, depth, key, memory>>
        /\ UNCHANGED <<ref_count, iter, held, visited, races, astray>>
    BY <2>9 DEF lockVars, tableVars, trackVars, historyVars
  <2>2. /\ pc' \in [Thread -> Places] /\ arg' \in [Thread -> Node \union {Nil}]
        /\ reg' \in [Thread -> Nat] /\ arg'[th] = n
        /\ \/ chain = <<>> /\ pc'[th] = "free"
           \/ chain # <<>> /\ pc'[th] = "removing" /\ reg'[th] \in Range(chain)
        /\ pc'[o] = pc[o] /\ arg'[o] = arg[o] /\ reg'[o] = reg[o]
    <3>1. n \in Node \union {Nil} /\ "free" \in Places /\ "removing" \in Places
      BY <1>2 DEF Places, Walking
    <3>2. CASE chain = <<>>
      <4>1. Goto(th, "free", n, 0)
        BY <2>9, <3>2
      <4>2. QED
        BY <1>1, <3>1, <3>2, <4>1, Went
    <3>3. CASE chain # <<>>
      <4>1. Goto(th, "removing", n, chain[1])
        BY <2>9, <3>3
      <4>2. chain \in Seq(Node)
        BY <1>1, <2>10, TracksAssumption DEF Chain, Types, Table
      <4>3. 1 \in DOMAIN chain /\ chain[1] \in Node
        BY <3>3, <4>2, EmptySeq, LenProperties, ElementOfSeq
      <4>4. chain[1] \in Range(chain) /\ chain[1] \in Nat
        BY <4>3 DEF Range, Node
      <4> HIDE DEF chain
      <4>5. /\ pc' \in [Thread -> Places] /\ arg' \in [Thread -> Node \union {Nil}]
            /\ reg' \in [Thread -> Nat] /\ arg'[th] = n /\ pc'[th] = "removing"
            /\ reg'[th] = chain[1]
            /\ pc'[o] = pc[o] /\ arg'[o] = arg[o] /\ reg'[o] = reg[o]
        BY <1>1, <3>1, <4>1, <4>4, Went
      <4>6. QED
        BY <3>3, <4>4, <4>5
    <3>4. QED
      BY <3>2, <3>3
  <2> HIDE DEF chain
  <2>3. Types'
    BY <1>1, <2>1, <2>2 DEF Types
  <2>4. pc'[th] \in {"removing", "free"} /\ arg'[th] = arg[th]
    BY <1>2, <2>2
  <2>5. Sorted' /\ Accounted' /\ InTable' = InTable /\ Working'
    BY <1>1, <1>2, <2>1, <2>2, <2>4, OthersStay, HeldAre
  <2>6. Walk' /\ Progress'
    BY <1>1, <1>2, <2>1, <2>2, <2>4, WalkGoesOn DEF lockVars
  <2>7. ASSUME races' = {} PROVE GoodTracks' /\ \A t \in Thread : GoodThread(t)'
    <3>1. GoodTracks /\ GoodThread(o) /\ GoodThread(th) /\ n \in InTable /\ k = key[n]
      BY <1>3, <1>4, <2>1, <2>7, <2>10
    <3>2. chain # <<>>
      <4>1. n \in Range(chain)
        BY <1>1, <3>1, EntriesAre DEF chain
      <4>2. QED
        BY <4>1, EmptySeq DEF Range
    <3>3. GoodTracks'
      BY <1>0, <1>2, <2>1, <2>2, <2>5, <3>1 DEF GoodTracks
    <3>4. \A m : /\ UsedBy(th, m)' <=> UsedBy(th, m)
                 /\ UsedBy(o, m)' <=> UsedBy(o, m)
      BY <1>2, <2>2, <3>2 DEF UsedBy
    <3>5. GoodThread(th)'
      BY <1>0, <1>2, <2>1, <2>2, <2>5, <3>1, <3>2, <3>4 DEF GoodThread, Chain, chain
    <3>6. GoodThread(o)'
      BY <1>0, <2>1, <2>2, <2>5, <3>1, <3>4 DEF GoodThread, Chain
    <3>7. QED
      BY <1>0, <3>3, <3>5, <3>6
  <2>8. QED
    BY <2>3, <2>5, <2>6, <2>7 DEF TracksInd, Good
<1>7. QED
  BY <1>5, <1>6

(* The track is freed.                                                     *)
LEMMA FreeStep ==
  ASSUME TracksInd, NEW th \in Thread, Free(th)
  PROVE  TracksInd'
<1> DEFINE o == Other(th)
           n == arg[th]
<1>0. o \in Thread /\ o # th /\ Other(o) = th /\ \A t \in Thread : t = th \/ t = o
  BY TwoThreads
<1>1. Types /\ Sorted /\ Accounted /\ Working /\ Walk /\ Progress /\ Good
  BY DEF TracksInd
<1>2. pc[th] = "free" /\ n \in Node /\ memory[n] # "none" /\ n = arg[th]
  BY <1>1 DEF Free, Working, Works
<1> HIDE DEF n
<1>3. races = {} => GoodTracks /\ GoodThread(th) /\ GoodThread(o)
  BY <1>0, <1>1 DEF Good
<1>4. races = {} => n \notin InTable /\ memory[n] = "live" /\ ~UsedBy(o, n) /\ \A t \in Thread : n \notin held[t]
  BY <1>2, <1>3 DEF GoodThread
<1>5. CASE memory[n] \in {"freed", "raw"} /\ GoesAstray
  BY <1>4, <1>5, Astray
<1>6. CASE /\ memory[n] # "freed"
           /\ memory' = [memory EXCEPT ![n] = "freed"]
           /\ IF th = "io" /\ iter.offset > 0 THEN Goto(th, "next", Nil, 0) ELSE Return(th)
           /\ UNCHANGED <<lockVars, tableVars, key, ref_count, held, iter, historyVars, astray>>
  <2>1. /\ UNCHANGED <<table, count, entry, dont_free, freelist, owner, depth, key>>
        /\ UNCHANGED <<ref_count, iter, held, visited, races, astray>>
    BY <1>6 DEF lockVars, tableVars, historyVars
  <2>2. memory' = [memory EXCEPT ![n] = "freed"]
    BY <1>6
  <2>3. /\ pc' \in [Thread -> Places] /\ arg' \in [Thread -> Node \union {Nil}]
        /\ reg' \in [Thread -> Nat] /\ arg'[th] = Nil
        /\ pc'[th] = IF th = "io" /\ iter.offset > 0 THEN "next" ELSE "idle"
        /\ pc'[o] = pc[o] /\ arg'[o] = arg[o] /\ reg'[o] = reg[o]
    <3>1. "next" \in Places /\ "idle" \in Places
      BY DEF Places, Walking
    <3>2. CASE th = "io" /\ iter.offset > 0
      <4>1. Goto(th, "next", Nil, 0)
        BY <1>6, <3>2
      <4>2. QED
        BY <1>1, <3>1, <3>2, <4>1, Went
    <3>3. CASE ~(th = "io" /\ iter.offset > 0)
      <4>1. Goto(th, "idle", Nil, 0)
        BY <1>6, <3>3 DEF Return
      <4>2. QED
        BY <1>1, <3>1, <3>3, <4>1, Went
    <3>4. QED
      BY <3>2, <3>3
  <2>4. /\ memory' \in [Node -> {"none", "raw", "live", "freed"}] /\ memory'[n] = "freed"
        /\ \A m \in Node : m # n => memory'[m] = memory[m]
    BY <1>1, <1>2, <2>2 DEF Types
  <2>5. Types'
    BY <1>1, <2>1, <2>3, <2>4 DEF Types
  <2>6. Sorted' /\ Accounted' /\ InTable' = InTable /\ Working'
    <3>1. pc'[th] # "insert" /\ pc'[th] \in {"idle", "bucket", "next", "end"}
      BY <2>3
    <3>2. QED
      BY <1>1, <1>2, <2>1, <2>3, <2>4, <3>1, OthersStay, HeldAre
  <2>7. Walk' /\ Progress'
    <3>1. CASE th = "io" /\ iter.offset > 0
      <4>1. pc'["main"] = pc["main"] /\ pc'["io"] = "next" /\ pc["io"] = "free"
        BY <1>2, <2>3, <3>1, TwoThreads
      <4>2. pc'["main"] \notin {"bucket", "visit", "next", "end"} /\ pc'["io"] \in Walking
            /\ pc["io"] \in Walking /\ iter.offset # 0
        BY <1>1, <3>1, <4>1, WalksOrNot DEF Walk, Walking
      <4>3. QED
        BY <1>1, <2>1, <4>1, <4>2, WalkStays DEF lockVars
    <3>2. CASE ~(th = "io" /\ iter.offset > 0)
      <4>1. iter.offset = 0 \/ th = "main"
        BY <1>1, <3>2, WalksOrNot DEF Thread
      <4>2. pc'[th] \notin {"bucket", "visit", "next", "end"}
        BY <2>3, <3>2
      <4>3. QED
        BY <1>1, <2>1, <2>3, <4>1, <4>2, WalkOfMain DEF lockVars
    <3>3. QED
      BY <3>1, <3>2
  <2>8. ASSUME races' = {} PROVE GoodTracks' /\ \A t \in Thread : GoodThread(t)'
    <3>1. GoodTracks /\ GoodThread(o) /\ n \notin InTable /\ ~UsedBy(o, n)
          /\ \A t \in Thread : n \notin held[t]
      BY <1>3, <1>4, <2>1, <2>8
    <3>2. InTable \subseteq Node /\ \A t \in Thread : held[t] \subseteq Node
      BY <1>1, EntriesAre, HeldAre
    <3>3. \A m \in InTable :
            \/ memory'[m] = "live"
            \/ memory'[m] = "raw" /\ \E t \in Thread : pc'[t] = "init" /\ arg'[t] = m
      BY <1>0, <1>2, <2>3, <2>4, <3>1, <3>2 DEF GoodTracks
    <3>4. \A m \in Node : memory'[m] = "live" => ref_count[m] = Holders(held, m)
      BY <2>4, <3>1 DEF GoodTracks
    <3>5. GoodTracks'
      BY <2>1, <2>4, <2>6, <3>1, <3>2, <3>3, <3>4 DEF GoodTracks
    <3>6. GoodThread(th)'
      BY <2>3 DEF GoodThread
    <3>7. \A m : ~UsedBy(th, m)'
      BY <2>3 DEF UsedBy
    <3>8. pc[o] \in {"init", "add", "added", "sub", "subtracted", "remove", "removing", "free"} =>
            arg[o] # n /\ arg[o] \in Node
      BY <1>0, <1>1, <3>1 DEF UsedBy, Working, Works
    <3>9. GoodThread(o)'
      BY <1>0, <2>1, <2>3, <2>4, <2>6, <3>1, <3>7, <3>8 DEF GoodThread, Chain
    <3>10. QED
      BY <1>0, <3>5, <3>6, <3>9
  <2>9. QED
    BY <2>5, <2>6, <2>7, <2>8 DEF TracksInd, Good
<1>7. QED
  BY <1>2, <1>5, <1>6 DEF Free

(* The collector has its own entry in the table until that is removed.     *)
LEMMA Current ==
  ASSUME Types, Sorted, Walk, Progress, iter.offset > 0, pc["io"] \in {"visit", "remove", "removing"}
  PROVE  /\ iter.entry # Nil /\ iter.entry \in Node /\ arg["io"] = iter.entry
         /\ iter.offset \in 1 .. Buckets /\ iter.entry \in InTable
         /\ \E j \in DOMAIN table[iter.offset] : table[iter.offset][j] = iter.entry
         /\ Bucket(key[iter.entry]) = iter.offset
<1>1. iter.entry # Nil /\ iter.offset <= Buckets /\ arg["io"] = iter.entry
  BY DEF Walk, Walking
<1>2. iter.offset \in 1 .. Buckets
  BY <1>1, WalksOrNot, TracksAssumption
<1>3. \E j \in DOMAIN table[iter.offset] : table[iter.offset][j] = iter.entry
  BY <1>1 DEF Progress, Ahead, CurrentBefore
<1>4. iter.entry \in Node
  BY <1>1 DEF Types
<1>5. iter.entry \in InTable
  <2>1. InTable = Entries(table)
    BY DEF InTable, Entries
  <2>2. QED
    BY <1>2, <1>3, <2>1, Membership
<1>6. Bucket(key[iter.entry]) = iter.offset
  BY <1>2, <1>3 DEF Sorted, InOrder
<1>7. QED
  BY <1>1, <1>2, <1>3, <1>4, <1>5, <1>6

(* The entry after that at a place of its bucket.                          *)
LEMMA SuccessorOf ==
  ASSUME Types, Sorted, NEW b \in 1 .. Buckets, NEW i \in DOMAIN table[b], NEW n, n = table[b][i]
  PROVE  /\ Successor(n) = IF i = Len(table[b]) THEN Nil ELSE table[b][i + 1]
         /\ Successor(n) \in Node \union {Nil} /\ (Successor(n) = Nil <=> i = Len(table[b]))
         /\ i # Len(table[b]) => i + 1 \in DOMAIN table[b]
<1> DEFINE c == table[b]
           last == i = Len(c)
           j == CHOOSE x \in DOMAIN Chain(key[n]) : Chain(key[n])[x] = n
<1>1. c \in Seq(Node) /\ Len(c) \in Nat /\ DOMAIN c = 1 .. Len(c) /\ \A x \in DOMAIN c : c[x] \in Node
  <2>1. c \in Seq(Node)
    BY DEF Types, Table
  <2>2. QED
    BY <2>1, LenProperties, ElementOfSeq
<1>2. Chain(key[n]) = c
  <2>1. Bucket(key[n]) = b
    BY DEF Sorted, InOrder
  <2>2. QED
    BY <2>1 DEF Chain
<1>3. \A x \in DOMAIN c : c[x] = n <=> x = i
  BY DEF Sorted, InOrder
<1>4. /\ i \in DOMAIN Chain(key[n])
      /\ \A x \in DOMAIN Chain(key[n]) : Chain(key[n])[x] = n <=> x = i
  BY <1>2, <1>3
<1>5. j = i
  BY <1>4
<1>6. Successor(n) = IF j = Len(Chain(key[n])) THEN Nil ELSE Chain(key[n])[j + 1]
  BY DEF Successor
<1> HIDE DEF c, j
<1>7. Successor(n) = IF last THEN Nil ELSE c[i + 1]
  BY <1>2, <1>5, <1>6
<1>8. i \in DOMAIN c /\ (~last => i + 1 \in DOMAIN c /\ c[i + 1] \in Node)
  <2>1. i \in DOMAIN c
    BY DEF c
  <2>2. QED
    BY <1>1, <2>1
<1>9. QED
  BY <1>7, <1>8 DEF c, Nil, Node

(* The collector goes on with its walk after an entry was removed, be it   *)
(* its own, the next or another one.                                       *)
LEMMA RemovedWalking ==
  ASSUME Types, Sorted, Progress, iter.offset \in 1 .. Buckets, iter.entry # Nil,
         NEW c \in 1 .. Buckets, NEW i \in DOMAIN table[c], NEW m, m = table[c][i], m \in Node,
         TakenOut(table, table', key, c, i), UNCHANGED visited, pc'["io"] = "free",
         iter' = IF m = iter.next THEN [iter EXCEPT !.next = Successor(iter.next)] ELSE iter
  PROVE  Progress'
<1> DEFINE off == iter.offset
<1>1. /\ iter'.offset = off /\ iter'.entry = iter.entry
      /\ iter'.next = IF m = iter.next THEN Successor(m) ELSE iter.next
  <2>1. iter \in [offset : 0 .. Buckets + 1, entry : Node \union {Nil}, next : Node \union {Nil}]
    BY DEF Types
  <2>2. QED
    BY <2>1
<1>2. Len(table[c]) \in Nat /\ DOMAIN table[c] = 1 .. Len(table[c]) /\ i \in Nat
  <2>1. table[c] \in Seq(Node)
    BY DEF Types, Table
  <2>2. QED
    BY <2>1, LenProperties
<1>3. /\ \A b \in 1 .. Buckets : b # c => table'[b] = table[b]
      /\ Len(table'[c]) = Len(table[c]) - 1 /\ DOMAIN table'[c] = 1 .. Len(table[c]) - 1
      /\ \A j \in DOMAIN table'[c] : table'[c][j] = IF j < i THEN table[c][j] ELSE table[c][j + 1]
  BY DEF TakenOut
<1>4. \A b, j : CurrentBefore(b, j)'
  BY DEF CurrentBefore
<1>5. ASSUME NEW b \in 1 .. Buckets, SeenBefore(b, Len(table[b]) + 1)
      PROVE  SeenBefore(b, Len(table[b]) + 1)'
  <2>1. CASE b # c
    BY <1>3, <1>5, <2>1 DEF SeenBefore
  <2>2. CASE b = c
    <3>1. ASSUME NEW j \in DOMAIN table'[c] PROVE table'[c][j] \in visited
      <4>1. /\ j \in DOMAIN table[c] /\ j < Len(table[c]) + 1
            /\ j + 1 \in DOMAIN table[c] /\ j + 1 < Len(table[c]) + 1
        BY <1>2, <1>3
      <4>2. table[c][j] \in visited /\ table[c][j + 1] \in visited
        BY <1>5, <2>2, <4>1 DEF SeenBefore
      <4>3. QED
        BY <1>3, <4>2
    <3>2. QED
      BY <2>2, <3>1 DEF SeenBefore
  <2>3. QED
    BY <2>1, <2>2
<1>6. CASE iter.next = Nil
  <2>1. SeenBefore(off, Len(table[off]) + 1)
    BY <1>6 DEF Progress, Ahead
  <2>2. iter'.next = Nil
    BY <1>1, <1>6 DEF Nil, Node
  <2>3. SeenBefore(off, Len(table[off]) + 1)'
    <3>1. ASSUME NEW b \in 1 .. Buckets, b = off PROVE SeenBefore(b, Len(table[b]) + 1)'
      BY <1>5, <2>1, <3>1
    <3>2. QED
      BY <1>1, <3>1 DEF SeenBefore
  <2>4. Ahead'
    BY <1>1, <1>4, <2>2, <2>3 DEF Ahead
  <2>5. QED
    BY <1>1, <1>5, <2>4 DEF Progress
<1>7. CASE iter.next # Nil
  <2>1. PICK k \in DOMAIN table[off] : table[off][k] = iter.next /\ SeenBefore(off, k)
    BY <1>7 DEF Progress, Ahead
  <2>2. iter.next \in Node
    BY <1>7 DEF Types
  <2>3. CASE c # off
    <3>1. m # iter.next
      BY <2>1, <2>3 DEF Sorted, InOrder
    <3>2. table'[off] = table[off] /\ iter'.next = iter.next
      BY <1>1, <1>3, <2>3, <3>1
    <3>3. Ahead'
      BY <1>1, <1>4, <1>7, <2>1, <3>2 DEF Ahead, SeenBefore
    <3>4. QED
      BY <1>1, <1>5, <3>3 DEF Progress
  <2>4. CASE c = off /\ m # iter.next
    <3> DEFINE y == IF i < k THEN k - 1 ELSE k
    <3>1. i # k /\ k \in Nat /\ k \in 1 .. Len(table[c])
      BY <1>2, <2>1, <2>4
    <3>2. y \in DOMAIN table'[c] /\ (y < i => y = k) /\ (~(y < i) => y + 1 = k)
      BY <1>2, <1>3, <3>1
    <3>3. table'[c][y] = iter.next
      <4>1. table'[c][y] = IF y < i THEN table[c][y] ELSE table[c][y + 1]
        BY <1>3, <3>2
      <4>2. QED
        BY <2>1, <2>4, <3>2, <4>1
    <3>4. ASSUME NEW x \in DOMAIN table'[c], x < y PROVE table'[c][x] \in visited
      <4>1. CASE x < i
        <5>1. x \in DOMAIN table[c] /\ x < k
          BY <1>2, <1>3, <3>1, <3>4, <4>1
        <5>2. QED
          BY <1>3, <2>1, <2>4, <4>1, <5>1 DEF SeenBefore
      <4>2. CASE ~(x < i)
        <5>1. x + 1 \in DOMAIN table[c] /\ x + 1 < k
          BY <1>2, <1>3, <3>1, <3>4, <4>2
        <5>2. QED
          BY <1>3, <2>1, <2>4, <4>2, <5>1 DEF SeenBefore
      <4>3. QED
        BY <4>1, <4>2
    <3>5. iter'.next = iter.next
      BY <1>1, <2>4
    <3> HIDE DEF y
    <3>6. Ahead'
      BY <1>1, <1>4, <1>7, <2>4, <3>2, <3>3, <3>4, <3>5 DEF Ahead, SeenBefore
    <3>7. QED
      BY <1>1, <1>5, <3>6 DEF Progress
  <2>5. CASE c = off /\ m = iter.next
    <3>1. i = k
      BY <2>1, <2>5 DEF Sorted, InOrder
    <3>2. /\ Successor(m) = IF i = Len(table[c]) THEN Nil ELSE table[c][i + 1]
          /\ Successor(m) = Nil <=> i = Len(table[c])
      BY SuccessorOf
    <3>3. \A x \in DOMAIN table[c] : x < i => table[c][x] \in visited
      BY <2>1, <2>5, <3>1 DEF SeenBefore
    <3>4. ASSUME NEW x \in DOMAIN table'[c], x < i PROVE table'[c][x] \in visited
      <4>1. x \in DOMAIN table[c]
        BY <1>2, <1>3
      <4>2. QED
        BY <1>3, <3>3, <3>4, <4>1
    <3>5. CASE i = Len(table[c])
      <4>1. iter'.next = Nil
        BY <1>1, <2>5, <3>2, <3>5
      <4>2. \A x \in DOMAIN table'[c] : table'[c][x] \in visited
        <5>1. \A x \in DOMAIN table'[c] : x < i
          BY <1>2, <1>3, <3>5
        <5>2. QED
          BY <3>4, <5>1
      <4>3. Ahead'
        BY <1>1, <1>4, <2>5, <4>1, <4>2 DEF Ahead, SeenBefore
      <4>4. QED
        BY <1>1, <1>5, <4>3 DEF Progress
    <3>6. CASE i # Len(table[c])
      <4>1. iter'.next = table[c][i + 1] /\ iter'.next # Nil
        BY <1>1, <2>5, <3>2, <3>6
      <4>2. i \in DOMAIN table'[c] /\ ~(i < i)
        BY <1>2, <1>3, <3>6
      <4>3. table'[c][i] = iter'.next
        BY <1>3, <4>1, <4>2
      <4>4. Ahead'
        BY <1>1, <1>4, <2>5, <3>4, <4>1, <4>2, <4>3 DEF Ahead, SeenBefore
      <4>5. QED
        BY <1>1, <1>5, <4>4 DEF Progress
    <3>7. QED
      BY <3>5, <3>6
  <2>6. QED
    BY <2>3, <2>4, <2>5
<1>8. QED
  BY <1>6, <1>7

(* hashtable_remove() takes the mutex and an entry from the bucket.        *)
LEMMA RemoveStep ==
  ASSUME TracksInd, NEW th \in Thread, Remove(th)
  PROVE  TracksInd'
<1> DEFINE o == Other(th)
           n == arg[th]
           c == Searched(th)
<1>0. o \in Thread /\ o # th /\ Other(o) = th /\ \A t \in Thread : t = th \/ t = o
  BY TwoThreads
<1>1. Types /\ Sorted /\ Accounted /\ Working /\ Walk /\ Progress /\ Good
  BY DEF TracksInd
<1>2. pc[th] = "removing" /\ Available(th) /\ n \in Node /\ memory[n] # "none" /\ n = arg[th]
  BY <1>1 DEF Remove, Working, Works
<1>3. c = Bucket(key[reg[th]])
  BY DEF Searched
<1> HIDE DEF n, c
<1>4. races = {} => GoodTracks /\ GoodThread(th) /\ GoodThread(o)
  BY <1>0, <1>1 DEF Good
<1>5. races = {} => /\ n \in InTable /\ memory[n] = "live" /\ reg[th] \in Range(Chain(key[n]))
                    /\ ~UsedBy(o, n) /\ \A t \in Thread : n \notin held[t]
  BY <1>2, <1>4 DEF GoodThread
<1>6. /\ InTable \subseteq Node /\ Bucket(key[n]) \in 1 .. Buckets
      /\ Range(Chain(key[n])) \subseteq InTable
      /\ InTable = Entries(table) /\ IsFiniteSet(InTable)
      /\ n \in InTable => n \in Range(Chain(key[n]))
  BY <1>1, <1>2, EntriesAre
<1>10. iter.offset = 0 \/ th = "io"
  BY <1>1, <1>2, Excluded
<1>11. CASE reg[th] \notin InTable \/ memory[n] = "freed"
  <2>1. races # {}
    BY <1>5, <1>6, <1>11
  <2>2. GoesAstray
    BY <1>2, <1>11 DEF Remove
  <2>3. QED
    BY <2>1, <2>2, Astray
<1>12. CASE ~(reg[th] \notin InTable \/ memory[n] = "freed")
  <2>1. /\ UNCHANGED <<key, memory, ref_count, held, visited, astray>>
        /\ Goto(th, "free", n, 0)
    BY <1>2, <1>12 DEF Remove, trackVars
  <2>2. /\ pc' \in [Thread -> Places] /\ arg' \in [Thread -> Node \union {Nil}]
        /\ reg' \in [Thread -> Nat] /\ pc'[th] = "free" /\ arg'[th] = n
        /\ pc'[o] = pc[o] /\ arg'[o] = arg[o] /\ reg'[o] = reg[o]
    <3>1. n \in Node \union {Nil} /\ "free" \in Places
      BY <1>2 DEF Places, Walking
    <3>2. QED
      BY <1>1, <2>1, <3>1, Went
  <2>3. /\ pc'["main"] \notin {"bucket", "visit", "next", "end"}
        /\ pc'["io"] \notin {"bucket", "visit", "next", "end"} \/ (th = "main" /\ pc'["io"] = pc["io"])
    BY <1>0, <1>1, <2>2, TwoThreads DEF Walk, Thread
  <2>4. iter.offset > 0 => th = "io" /\ pc["io"] = "removing" /\ pc'["io"] = "free" /\ arg["io"] = n
    BY <1>1, <1>2, <1>10, <2>2, WalksOrNot
  <2>5. iter.offset = 0 => \A t \in Thread : pc'[t] \notin {"bucket", "visit", "next", "end"}
    BY <1>0, <1>1, <2>3 DEF Walk, Thread
  <2>9. PICK k \in Id(n) :
          \/ Matches(th, k) = {} /\ Lock(th) /\ UNCHANGED <<tableVars, iter, races>>
          \/ /\ Matches(th, k) # {}
             /\ LET i == Min(Matches(th, k)) IN
                /\ Unlink(Searched(th), i)
                /\ Races(IF pc[Other(th)] = "removing" /\ reg[Other(th)] = table[Searched(th)][i]
                         THEN {"stale head"} ELSE {})
             /\ UNCHANGED lockVars
    BY <1>2, <1>12 DEF Remove
  <2>10. memory[n] = "live" => k = key[n]
    BY <2>9 DEF Id
  <2>11. reg[th] \in InTable /\ c \in 1 .. Buckets
    BY <1>1, <1>3, <1>6, <1>12, EntriesAre
  <2>12. /\ table[c] \in Seq(Node) /\ Len(table[c]) \in Nat /\ DOMAIN table[c] = 1 .. Len(table[c])
         /\ Matches(th, k) = {j \in DOMAIN table[c] : key[table[c][j]] = k}
         /\ Matches(th, k) \subseteq Nat
    <3>1. table[c] \in Seq(Node)
      BY <1>1, <2>11 DEF Types, Table
    <3>2. Matches(th, k) = {j \in DOMAIN table[c] : key[table[c][j]] = k}
      BY DEF Matches, c
    <3>3. QED
      BY <3>1, <3>2, LenProperties
  <2>13. races = {} => c = Bucket(key[n]) /\ k = key[n] /\ Matches(th, k) # {}
    <3>1. ASSUME races = {} PROVE c = Bucket(key[n])
      <4>1. PICK j \in DOMAIN table[Bucket(key[n])] : table[Bucket(key[n])][j] = reg[th]
        BY <1>5, <3>1 DEF Chain, Range
      <4>2. QED
        BY <1>1, <1>3, <1>6, <4>1 DEF Sorted, InOrder
    <3>2. ASSUME races = {} PROVE k = key[n]
      BY <1>5, <2>10, <3>2
    <3>3. ASSUME races = {} PROVE Matches(th, k) # {}
      <4>1. PICK j \in DOMAIN table[c] : table[c][j] = n
        BY <1>5, <1>6, <3>1, <3>3 DEF Chain, Range
      <4>2. QED
        BY <2>12, <3>2, <3>3, <4>1
    <3>4. QED
      BY <3>1, <3>2, <3>3
  <2>6. CASE Matches(th, k) = {} /\ Lock(th) /\ UNCHANGED <<tableVars, iter, races>>
    <3>1. races # {}
      BY <2>6, <2>13
    <3>2. /\ UNCHANGED <<table, count, entry, dont_free, freelist, races, iter>>
          /\ owner' = th /\ depth' = depth + 1
      BY <2>6 DEF tableVars, Lock
    <3>3. Types'
      <4>1. depth + 1 \in Nat
        BY <1>1, WalksOrNot
      <4>2. QED
        BY <1>1, <2>1, <2>2, <3>2, <4>1 DEF Types
    <3>4. Sorted' /\ Accounted' /\ Working'
      BY <1>1, <1>2, <2>1, <2>2, <3>2, OthersStay, HeldAre
    <3>5. Walk' /\ Progress'
      <4>1. CASE iter.offset = 0
        BY <1>1, <2>5, <3>2, <4>1, NoWalk
      <4>2. CASE iter.offset > 0
        <5>1. Walk'
          BY <1>1, <2>3, <2>4, <3>2, <4>2, WalksOrNot DEF Walk, Walking
        <5>2. \A b, j : SeenBefore(b, j)' <=> SeenBefore(b, j)
          BY <2>1, <3>2 DEF SeenBefore
        <5>3. \A b, j : CurrentBefore(b, j)'
          BY <2>4, <4>2 DEF CurrentBefore
        <5>4. Progress'
          BY <1>1, <2>4, <3>2, <4>2, <5>2, <5>3 DEF Progress, Ahead
        <5>5. QED
          BY <5>1, <5>4
      <4>3. QED
        BY <1>1, <4>1, <4>2, WalksOrNot
    <3>6. QED
      BY <3>1, <3>2, <3>3, <3>4, <3>5 DEF TracksInd, Good
  <2> DEFINE i == Min(Matches(th, k))
             m == table[c][i]
  <2>7. CASE /\ Matches(th, k) # {} /\ Unlink(Searched(th), i) /\ UNCHANGED lockVars
             /\ Races(IF pc[o] = "removing" /\ reg[o] = table[Searched(th)][i]
                      THEN {"stale head"} ELSE {})
    <3>1. i \in DOMAIN table[c] /\ key[m] = k /\ i \in Nat
      <4>1. i \in Matches(th, k)
        BY <2>7, <2>12, Least
      <4> HIDE DEF i
      <4>2. QED
        BY <2>12, <4>1
    <3> HIDE DEF i
    <3>2. m \in InTable /\ m \in Node /\ m \in entry /\ m \notin freelist
      <4>1. m \in InTable
        BY <1>6, <2>11, <3>1, Membership
      <4>2. QED
        BY <1>1, <1>6, <4>1 DEF Accounted
    <3>3. /\ table' = Less(table, c, i) /\ count' = count - 1
          /\ freelist' = freelist \union ({m} \intersect dont_free)
          /\ entry' = entry \ ({m} \ dont_free)
          /\ iter' = IF m = iter.next THEN [iter EXCEPT !.next = Successor(iter.next)] ELSE iter
          /\ UNCHANGED <<dont_free, owner, depth>>
      BY <2>7 DEF Unlink, Leaves, Less, lockVars, c
    <3>4. /\ races \subseteq races' /\ races' \subseteq races \union {"stale head"}
          /\ races' = {} => ~(pc[o] = "removing" /\ reg[o] = m)
      BY <2>7 DEF Races, c
    <3>14. TakenOut(table, table', key, c, i)
      <4>1. /\ table \in Table /\ key \in [Node -> Key] /\ InOrder(table, key)
            /\ c \in 1 .. Buckets /\ i \in DOMAIN table[c]
        BY <1>1, <2>11, <3>1 DEF Types, Sorted
      <4>2. TakenOut(table, Less(table, c, i), key, c, i)
        BY <4>1, Unlinked
      <4>3. QED
        BY <3>3, <4>2
    <3>5. /\ table' \in Table /\ InOrder(table', key) /\ Entries(table') = Entries(table) \ {m}
          /\ \A b \in 1 .. Buckets : \A x \in Range(table[b]) : x # m => x \in Range(table'[b])
      BY <3>14 DEF TakenOut
    <3>15. m = table[c][i]
      OBVIOUS
    <3>6. InTable' = InTable \ {m}
      <4>1. InTable' = Entries(table')
        BY DEF InTable, Entries
      <4>2. QED
        BY <1>6, <3>5, <4>1
    <3> HIDE DEF m
    <3>16. /\ iter' \in [offset : 0 .. Buckets + 1, entry : Node \union {Nil}, next : Node \union {Nil}]
           /\ iter'.offset = iter.offset /\ iter'.entry = iter.entry
      <4>1. iter \in [offset : 0 .. Buckets + 1, entry : Node \union {Nil}, next : Node \union {Nil}]
        BY <1>1 DEF Types
      <4>2. Successor(m) \in Node \union {Nil}
        BY <1>1, <2>11, <3>1, <3>15, SuccessorOf
      <4>3. QED
        BY <3>3, <4>1, <4>2
    <3>7. Types'
      <4>1. table' \in Table
        BY <3>5
      <4>2. entry' \subseteq Node /\ freelist' \subseteq Node /\ dont_free' \subseteq Node
        BY <1>1, <3>2, <3>3 DEF Types
      <4>3. /\ owner' \in Thread /\ depth' \in Nat
            /\ races' \subseteq {"freed in use", "raw", "twice", "stale head", "lost update"}
        BY <1>1, <3>3, <3>4 DEF Types
      <4>4. QED
        BY <1>1, <2>1, <2>2, <3>16, <4>1, <4>2, <4>3 DEF Types
    <3>8. Sorted'
      BY <2>1, <3>5 DEF Sorted
    <3>9. Accounted'
      <4>1. count' = Cardinality(InTable')
        BY <1>1, <1>6, <3>2, <3>3, <3>6, FS_RemoveElement DEF Accounted
      <4>2. entry' = InTable' \union freelist' /\ InTable' \intersect freelist' = {}
        BY <1>1, <3>2, <3>3, <3>6 DEF Accounted
      <4>3. \A x \in entry' : memory'[x] # "none"
        BY <1>1, <2>1, <3>3 DEF Accounted
      <4>4. QED
        BY <4>1, <4>2, <4>3 DEF Accounted
    <3>10. Working'
      <4>1. Works(th) /\ Works(o) /\ entry' \subseteq entry
        BY <1>0, <1>1, <3>3 DEF Working
      <4>2. Works(th)'
        BY <1>2, <2>1, <2>2, <4>1 DEF Works
      <4>3. Works(o)'
        BY <1>0, <1>2, <2>1, <2>2, <4>1 DEF Works
      <4>4. QED
        BY <1>0, <4>2, <4>3 DEF Working
    <3>11. Walk' /\ Progress'
      <4>1. CASE iter.offset = 0
        BY <1>1, <2>5, <3>16, <4>1, NoWalk
      <4>2. CASE iter.offset > 0
        <5>1. /\ iter.entry # Nil /\ iter.offset \in 1 .. Buckets
              /\ iter.entry \in entry \intersect dont_free
          BY <1>1, <2>4, <4>2, Current DEF Walk
        <5>2. iter.entry \in entry' \intersect dont_free'
          BY <3>3, <5>1
        <5>3. Walk'
          BY <1>1, <2>3, <2>4, <3>3, <3>16, <4>2, <5>1, <5>2, WalksOrNot DEF Walk, Walking
        <5>4. Progress'
          BY <1>1, <2>1, <2>4, <2>11, <3>1, <3>2, <3>3, <3>14, <3>15, <4>2, <5>1, RemovedWalking
        <5>5. QED
          BY <5>3, <5>4
      <4>3. QED
        BY <1>1, <4>1, <4>2, WalksOrNot
    <3>12. ASSUME races' = {} PROVE GoodTracks' /\ \A t \in Thread : GoodThread(t)'
      <4>1. races = {} /\ ~(pc[o] = "removing" /\ reg[o] = m)
        BY <3>4, <3>12
      <4>2. /\ GoodTracks /\ GoodThread(o) /\ n \in InTable /\ memory[n] = "live"
            /\ ~UsedBy(o, n) /\ \A t \in Thread : n \notin held[t]
        BY <1>4, <1>5, <4>1
      <4>3. m = n
        <5>1. key[m] = key[n]
          BY <2>13, <3>1, <3>15, <4>1
        <5>2. QED
          BY <3>2, <4>2, <5>1 DEF GoodTracks
      <4>4. InTable' = InTable \ {n}
        BY <3>6, <4>3
      <4>5. GoodTracks'
        BY <1>0, <1>2, <2>1, <2>2, <3>3, <3>16, <4>2, <4>4 DEF GoodTracks
      <4>6. \A x : UsedBy(o, x)' <=> UsedBy(o, x)
        BY <2>2 DEF UsedBy
      <4>7. GoodThread(th)'
        BY <1>0, <2>1, <2>2, <4>2, <4>4, <4>6 DEF GoodThread
      <4>8. \A x : UsedBy(th, x)' <=> UsedBy(th, x)
        BY <1>2, <2>2 DEF UsedBy
      <4>9. pc[o] \in {"init", "add", "added", "sub", "subtracted", "remove", "removing", "free"} =>
              arg[o] # n /\ arg[o] \in Node
        BY <1>0, <1>1, <4>2 DEF UsedBy, Working, Works
      <4>10. pc[o] = "removing" => reg[o] \in Range(table'[Bucket(key[arg[o]])])
        <5>1. ASSUME pc[o] = "removing" PROVE reg[o] \in Range(table'[Bucket(key[arg[o]])])
          <6>1. reg[o] \in Range(table[Bucket(key[arg[o]])]) /\ reg[o] # m
            BY <4>1, <4>2, <5>1 DEF GoodThread, Chain
          <6>2. Bucket(key[arg[o]]) \in 1 .. Buckets
            BY <1>1, <4>9, <5>1, EntriesAre
          <6>3. QED
            BY <3>5, <6>1, <6>2
        <5>2. QED
          BY <5>1
      <4>11. GoodThread(o)'
        BY <1>0, <2>1, <2>2, <4>2, <4>4, <4>8, <4>9, <4>10 DEF GoodThread, Chain
      <4>12. QED
        BY <1>0, <4>5, <4>7, <4>11
    <3>13. QED
      BY <3>7, <3>8, <3>9, <3>10, <3>11, <3>12 DEF TracksInd, Good
  <2>8. QED
    BY <2>6, <2>7, <2>9
<1>13. QED
  BY <1>11, <1>12

(* The collector goes to another place, and the main thread stays.         *)
LEMMA IoWent ==
  ASSUME Types, NEW where \in Places, NEW n \in Node \union {Nil}, Goto("io", where, n, 0)
  PROVE  /\ pc' \in [Thread -> Places] /\ arg' \in [Thread -> Node \union {Nil}]
         /\ reg' \in [Thread -> Nat]
         /\ pc'["io"] = where /\ arg'["io"] = n
         /\ pc'["main"] = pc["main"] /\ arg'["main"] = arg["main"] /\ reg'["main"] = reg["main"]
  BY Went, MainAndIo

(* It works on no track, or on one that it found in the table.             *)
LEMMA IoStays ==
  ASSUME TracksInd, UNCHANGED <<table, count, key, memory, held>>,
         (entry' = entry \ freelist /\ freelist' = {}) \/ UNCHANGED <<entry, freelist>>,
         pc'["io"] \notin {"insert"}, arg'["io"] \in InTable \union {Nil},
         pc'["io"] \notin {"idle", "bucket", "next", "end"} => arg'["io"] \in Node,
         pc'["main"] = pc["main"], arg'["main"] = arg["main"]
  PROVE  Sorted' /\ Accounted' /\ InTable' = InTable /\ Working'
<1>1. Types /\ Sorted /\ Accounted /\ Working /\ Other("main") = "io" /\ Other("io") = "main"
  BY MainAndIo DEF TracksInd
<1>2. InTable' = InTable
  BY DEF InTable
<1>3. Sorted'
  BY <1>1 DEF Sorted
<1>4. Accounted' /\ entry' \subseteq entry
  BY <1>1, <1>2 DEF Accounted
<1>5. Works("main") /\ Works("io")
  BY <1>1 DEF Working, Thread
<1>6. \A n \in InTable : n \in entry /\ memory[n] # "none"
  BY <1>1, EntriesAre
<1>7. Works("main")'
  <2>1. pc["main"] = "insert" => arg["main"] \in Node /\ arg["main"] \notin InTable /\ arg["main"] # Nil
    BY <1>5, <1>6 DEF Works, Node, Nil
  <2>2. QED
    BY <1>1, <1>4, <1>5, <2>1 DEF Works
<1>8. Works("io")'
  <2>1. Nil \notin Node
    BY DEF Nil, Node
  <2>2. QED
    BY <1>5, <1>6, <2>1 DEF Works
<1>9. QED
  BY <1>2, <1>3, <1>4, <1>7, <1>8 DEF Working, Thread

(* osfy_track_garbage_collect() begins.                                    *)
LEMMA GcStartStep ==
  ASSUME TracksInd, GcStart
  PROVE  TracksInd'
<1>1. Types /\ Sorted /\ Accounted /\ Working /\ Walk /\ Progress /\ Good
  BY DEF TracksInd
<1>2. /\ pc["io"] = "idle" /\ owner' = "io" /\ depth' = depth + 1
      /\ iter' = [offset |-> 1, entry |-> Nil, next |-> Nil] /\ Goto("io", "bucket", Nil, 0)
      /\ UNCHANGED <<table, count, entry, dont_free, freelist, key, memory, ref_count>>
      /\ UNCHANGED <<held, visited, races, astray>>
  BY DEF GcStart, Lock, tableVars, trackVars, historyVars
<1>3. /\ pc' \in [Thread -> Places] /\ arg' \in [Thread -> Node \union {Nil}]
      /\ reg' \in [Thread -> Nat] /\ pc'["io"] = "bucket" /\ arg'["io"] = Nil
      /\ pc'["main"] = pc["main"] /\ arg'["main"] = arg["main"] /\ reg'["main"] = reg["main"]
  <2>1. "bucket" \in Places
    BY DEF Places
  <2>2. QED
    BY <1>1, <1>2, <2>1, IoWent
<1>4. depth + 1 \in Nat /\ depth + 1 > 0 /\ 1 \in 0 .. Buckets + 1 /\ iter.offset = 0
  <2>1. "io" \in Thread /\ ~(iter.offset > 0)
    BY <1>1, <1>2 DEF Walk, Walking, Thread
  <2>2. QED
    BY <1>1, <2>1, WalksOrNot, TracksAssumption
<1>5. Types'
  <2>1. iter' \in [offset : 0 .. Buckets + 1, entry : Node \union {Nil}, next : Node \union {Nil}]
    BY <1>2, <1>4
  <2>2. QED
    BY <1>1, <1>2, <1>3, <1>4, <2>1 DEF Types, Thread
<1>6. Sorted' /\ Accounted' /\ InTable' = InTable /\ Working'
  BY <1>2, <1>3, IoStays
<1>7. iter'.offset = 1 /\ iter'.entry = Nil
  BY <1>2
<1>8. Walk'
  BY <1>1, <1>2, <1>3, <1>4, <1>7 DEF Walk, Walking
<1>9. Progress'
  <2>1. \A b \in 1 .. Buckets : ~(b < 1)
    BY TracksAssumption
  <2>2. QED
    BY <1>3, <1>7, <2>1 DEF Progress
<1>10. ASSUME races' = {} PROVE GoodTracks' /\ \A t \in Thread : GoodThread(t)'
  <2>1. GoodTracks /\ GoodThread("main")
    BY <1>1, <1>2, <1>10 DEF Good, Thread
  <2>2. depth' = IF iter'.offset > 0 THEN 1 ELSE 0
    BY <1>2, <1>4, <1>7, <2>1 DEF GoodTracks
  <2>3. \A n \in InTable : memory[n] = "raw" => pc'["main"] = "init" /\ arg'["main"] = n
    BY <1>2, <1>3, <2>1 DEF GoodTracks, Thread
  <2>4. GoodTracks'
    BY <1>2, <1>6, <2>1, <2>2, <2>3 DEF GoodTracks, Thread
  <2>5. GoodThread("io")'
    BY <1>3 DEF GoodThread
  <2>6. \A n : ~UsedBy("io", n)'
    BY <1>3 DEF UsedBy
  <2>7. GoodThread("main")'
    BY <1>2, <1>3, <1>6, <2>1, <2>6, MainAndIo DEF GoodThread, Chain
  <2>8. QED
    BY <2>4, <2>5, <2>7 DEF Thread
<1>11. QED
  BY <1>5, <1>6, <1>8, <1>9, <1>10 DEF TracksInd, Good

(* The iterator moves to an entry before which all were seen.              *)
LEMMA MovesStep ==
  ASSUME TracksInd, pc["io"] \in {"next", "bucket"}, NEW offset \in 1 .. Buckets,
         NEW i \in DOMAIN table[offset], NEW n, n = table[offset][i], MovesTo(n, offset),
         \A b \in 1 .. Buckets : b < offset => SeenBefore(b, Len(table[b]) + 1),
         SeenBefore(offset, i)
  PROVE  TracksInd'
<1>1. Types /\ Sorted /\ Accounted /\ Working /\ Walk /\ Progress /\ Good
  BY DEF TracksInd
<1> DEFINE c == table[offset]
           last == i = Len(c)
<1>2. /\ iter' = [offset |-> offset, entry |-> n, next |-> Successor(n)]
      /\ dont_free' = (dont_free \ {iter.entry}) \union {n}
      /\ visited' = visited \union {n} /\ Goto("io", "visit", n, 0)
      /\ UNCHANGED <<table, count, entry, freelist, owner, depth, key, memory, ref_count>>
      /\ UNCHANGED <<held, races, astray>>
  BY DEF MovesTo, lockVars, trackVars
<1>3. c \in Seq(Node) /\ Len(c) \in Nat /\ DOMAIN c = 1 .. Len(c) /\ \A j \in DOMAIN c : c[j] \in Node
  <2>1. c \in Seq(Node)
    BY <1>1 DEF Types, Table
  <2>2. QED
    BY <2>1, LenProperties, ElementOfSeq
<1>4. n \in InTable /\ n \in Node /\ n \in entry /\ n # Nil
  <2>1. n \in InTable
    BY Membership DEF InTable, Entries
  <2>2. QED
    BY <1>1, <2>1, EntriesAre DEF Nil, Node
<1>5. Successor(n) = IF last THEN Nil ELSE c[i + 1]
  BY <1>1, SuccessorOf
<1>6. ~last => i + 1 \in DOMAIN c /\ c[i + 1] \in Node
  BY <1>3
<1>7. Successor(n) \in Node \union {Nil} /\ (Successor(n) = Nil <=> last)
  BY <1>1, SuccessorOf
<1>8. iter'.offset = offset /\ iter'.entry = n /\ iter'.next = Successor(n)
  BY <1>2
<1>9. /\ pc' \in [Thread -> Places] /\ arg' \in [Thread -> Node \union {Nil}]
      /\ reg' \in [Thread -> Nat] /\ pc'["io"] = "visit" /\ arg'["io"] = n
      /\ pc'["main"] = pc["main"] /\ arg'["main"] = arg["main"] /\ reg'["main"] = reg["main"]
  <2>1. "visit" \in Places /\ n \in Node \union {Nil}
    BY <1>4 DEF Places, Walking
  <2>2. QED
    BY <1>1, <1>2, <2>1, IoWent
<1>10. iter.offset > 0 /\ offset > 0 /\ offset \in 0 .. Buckets + 1 /\ offset <= Buckets
  BY <1>1, WalksOrNot, TracksAssumption DEF Walk
<1>11. Types'
  <2>1. iter' \in [offset : 0 .. Buckets + 1, entry : Node \union {Nil}, next : Node \union {Nil}]
    BY <1>2, <1>4, <1>7, <1>10
  <2>2. dont_free' \subseteq Node /\ visited' \subseteq Node
    BY <1>1, <1>2, <1>4 DEF Types
  <2>3. QED
    BY <1>1, <1>2, <1>9, <2>1, <2>2 DEF Types
<1>12. Sorted' /\ Accounted' /\ InTable' = InTable /\ Working'
  BY <1>2, <1>4, <1>9, IoStays
<1>13. Walk'
  BY <1>1, <1>2, <1>4, <1>8, <1>9, <1>10 DEF Walk, Walking
<1>14. \A b, j : SeenBefore(b, j) => SeenBefore(b, j)'
  BY <1>2 DEF SeenBefore
<1>15. \A j \in DOMAIN c : j < i + 1 => c[j] \in visited'
  <2>1. ASSUME NEW j \in DOMAIN c, j < i + 1 PROVE c[j] \in visited'
    <3>1. j = i \/ j < i
      BY <1>3, <2>1
    <3>2. QED
      BY <1>2, <3>1 DEF SeenBefore
  <2>2. QED
    BY <2>1
<1>16. Ahead'
  <2>1. i < i + 1 /\ (last => Len(c) + 1 = i + 1)
    BY <1>3
  <2>2. SeenBefore(offset, i + 1)' /\ CurrentBefore(offset, i + 1)'
    BY <1>2, <1>8, <1>15, <2>1 DEF SeenBefore, CurrentBefore
  <2>3. CASE last
    BY <1>2, <1>7, <1>8, <2>1, <2>2, <2>3 DEF Ahead
  <2>4. CASE ~last
    BY <1>2, <1>5, <1>6, <1>7, <1>8, <2>2, <2>4 DEF Ahead
  <2>5. QED
    BY <2>3, <2>4
<1>17. Progress'
  BY <1>2, <1>8, <1>9, <1>14, <1>16 DEF Progress
<1>18. ASSUME races' = {} PROVE GoodTracks' /\ \A t \in Thread : GoodThread(t)'
  <2>1. GoodTracks /\ GoodThread("main")
    BY <1>1, <1>2, <1>18 DEF Good, Thread
  <2>2. depth' = IF iter'.offset > 0 THEN 1 ELSE 0
    BY <1>2, <1>8, <1>10, <2>1 DEF GoodTracks
  <2>3. \A m \in InTable : memory[m] = "raw" => pc'["main"] = "init" /\ arg'["main"] = m
    BY <1>2, <1>9, <2>1 DEF GoodTracks, Thread
  <2>4. GoodTracks'
    BY <1>2, <1>12, <2>1, <2>2, <2>3 DEF GoodTracks, Thread
  <2>5. GoodThread("io")'
    BY <1>9 DEF GoodThread
  <2>6. \A m : ~UsedBy("io", m)'
    BY <1>9 DEF UsedBy
  <2>7. GoodThread("main")'
    BY <1>2, <1>9, <1>12, <2>1, <2>6, MainAndIo DEF GoodThread, Chain
  <2>8. QED
    BY <2>4, <2>5, <2>7 DEF Thread
<1>19. QED
  BY <1>11, <1>12, <1>13, <1>17, <1>18 DEF TracksInd, Good

(* The collector's table stays, and so do the tracks; it is at no track.   *)
LEMMA IoIsGood ==
  ASSUME TracksInd, UNCHANGED <<table, key, memory, ref_count, held, astray>>,
         races' = {} => races = {}, InTable' = InTable,
         races' = {} => depth' = IF iter'.offset > 0 THEN 1 ELSE 0,
         pc["io"] \notin {"init"}, pc'["io"] \in {"idle", "bucket", "next", "visit", "end"},
         pc'["main"] = pc["main"], arg'["main"] = arg["main"], reg'["main"] = reg["main"]
  PROVE  Good'
<1>1. Types /\ Sorted /\ Accounted /\ Working /\ Walk /\ Progress /\ Good
  BY DEF TracksInd
<1>2. ASSUME races' = {} PROVE GoodTracks' /\ \A t \in Thread : GoodThread(t)'
  <2>1. GoodTracks /\ GoodThread("main") /\ depth' = IF iter'.offset > 0 THEN 1 ELSE 0
    BY <1>1, <1>2, MainAndIo DEF Good
  <2>2. \A m \in InTable : memory[m] = "raw" => pc'["main"] = "init" /\ arg'["main"] = m
    BY <2>1 DEF GoodTracks, Thread
  <2>3. GoodTracks'
    BY <2>1, <2>2, MainAndIo DEF GoodTracks
  <2>4. GoodThread("io")'
    BY DEF GoodThread
  <2>5. \A m : ~UsedBy("io", m)'
    BY DEF UsedBy
  <2>6. GoodThread("main")'
    BY <2>1, <2>5, MainAndIo DEF GoodThread, Chain
  <2>7. QED
    BY <2>3, <2>4, <2>6, MainAndIo
<1>3. QED
  BY <1>2 DEF Good

(* hashtable_iterator_next() within a bucket.                              *)
LEMMA IterNextStep ==
  ASSUME TracksInd, IterNext
  PROVE  TracksInd'
<1>1. Types /\ Sorted /\ Accounted /\ Working /\ Walk /\ Progress /\ Good
  BY DEF TracksInd
<1>2. pc["io"] = "next"
  BY DEF IterNext
<1>3. /\ iter.offset > 0 /\ iter.entry # Nil /\ iter.entry \in entry
      /\ iter.offset <= Buckets /\ iter.offset \in 1 .. Buckets
      /\ iter.offset + 1 \in 0 .. Buckets + 1 /\ iter.offset + 1 > 0
  <2>1. iter.offset > 0
    BY <1>1, <1>2, WalksOrNot DEF Walk
  <2>2. iter.entry # Nil /\ iter.offset <= Buckets /\ iter.entry \in entry
    BY <1>1, <1>2, <2>1 DEF Walk, Walking
  <2>3. QED
    BY <1>1, <2>1, <2>2, WalksOrNot, TracksAssumption
<1>4. Ahead /\ \A b \in 1 .. Buckets : b < iter.offset => SeenBefore(b, Len(table[b]) + 1)
  BY <1>1, <1>3 DEF Progress
<1>5. CASE iter.next # Nil /\ MovesTo(iter.next, iter.offset)
  <2>1. PICK i \in DOMAIN table[iter.offset] :
          table[iter.offset][i] = iter.next /\ SeenBefore(iter.offset, i)
    BY <1>4, <1>5 DEF Ahead
  <2>2. QED
    BY <1>2, <1>3, <1>4, <1>5, <2>1, MovesStep
<1>6. CASE /\ iter.next = Nil /\ dont_free' = dont_free \ {iter.entry}
           /\ iter' = [iter EXCEPT !.offset = @ + 1, !.entry = Nil]
           /\ Goto("io", "bucket", Nil, 0)
           /\ UNCHANGED <<lockVars, table, count, entry, freelist, trackVars, held,
                          historyVars, astray>>
  <2>1. /\ UNCHANGED <<table, count, entry, freelist, owner, depth, key, memory, ref_count>>
        /\ UNCHANGED <<held, visited, races, astray>>
    BY <1>6 DEF lockVars, trackVars, historyVars
  <2>2. /\ pc' \in [Thread -> Places] /\ arg' \in [Thread -> Node \union {Nil}]
        /\ reg' \in [Thread -> Nat] /\ pc'["io"] = "bucket" /\ arg'["io"] = Nil
        /\ pc'["main"] = pc["main"] /\ arg'["main"] = arg["main"] /\ reg'["main"] = reg["main"]
    <3>1. "bucket" \in Places
      BY DEF Places
    <3>2. QED
      BY <1>1, <1>6, <3>1, IoWent
  <2>3. /\ iter' \in [offset : 0 .. Buckets + 1, entry : Node \union {Nil}, next : Node \union {Nil}]
        /\ iter'.offset = iter.offset + 1 /\ iter'.entry = Nil
    BY <1>1, <1>3, <1>6 DEF Types
  <2>4. Types'
    BY <1>1, <1>6, <2>1, <2>2, <2>3 DEF Types
  <2>5. Sorted' /\ Accounted' /\ InTable' = InTable /\ Working'
    BY <2>1, <2>2, IoStays
  <2>6. Walk'
    BY <1>1, <1>3, <2>1, <2>2, <2>3 DEF Walk, Walking
  <2>7. ASSUME NEW b \in 1 .. Buckets, b < iter.offset + 1
        PROVE  SeenBefore(b, Len(table[b]) + 1)'
    <3>1. b < iter.offset \/ b = iter.offset
      BY <1>3, <2>7
    <3>2. SeenBefore(b, Len(table[b]) + 1)
      BY <1>4, <1>6, <3>1 DEF Ahead
    <3>3. QED
      BY <2>1, <3>2 DEF SeenBefore
  <2>8. Progress'
    BY <2>1, <2>2, <2>3, <2>7 DEF Progress
  <2>9. Good'
    <3>1. races' = {} => depth' = IF iter'.offset > 0 THEN 1 ELSE 0
      BY <1>1, <1>3, <2>1, <2>3 DEF Good, GoodTracks
    <3>2. QED
      BY <1>2, <2>1, <2>2, <2>5, <3>1, IoIsGood
  <2>10. QED
    BY <2>4, <2>5, <2>6, <2>8, <2>9 DEF TracksInd
<1>7. QED
  BY <1>3, <1>5, <1>6 DEF IterNext

(* hashtable_iterator_next() goes to another bucket, or there is none.     *)
LEMMA IterBucketStep ==
  ASSUME TracksInd, IterBucket
  PROVE  TracksInd'
<1> DEFINE left == {b \in iter.offset .. Buckets : table[b] # <<>>}
<1>1. Types /\ Sorted /\ Accounted /\ Working /\ Walk /\ Progress /\ Good
  BY DEF TracksInd
<1>2. pc["io"] = "bucket"
  BY DEF IterBucket
<1>3. iter.offset > 0 /\ iter.entry = Nil /\ iter.offset \in Nat /\ iter.offset >= 1
  <2>1. iter.offset > 0
    BY <1>1, <1>2, WalksOrNot DEF Walk
  <2>2. iter.entry = Nil
    BY <1>1, <1>2, <2>1 DEF Walk, Walking
  <2>3. QED
    BY <1>1, <2>1, <2>2, WalksOrNot
<1>4. ASSUME NEW b \in 1 .. Buckets, b \notin left PROVE SeenBefore(b, Len(table[b]) + 1)
  <2>1. CASE b < iter.offset
    BY <1>1, <2>1 DEF Progress
  <2>2. CASE ~(b < iter.offset)
    <3>1. b \in iter.offset .. Buckets
      BY <1>3, <2>2, TracksAssumption
    <3>2. table[b] = <<>>
      BY <1>4, <3>1
    <3>3. DOMAIN table[b] = {}
      BY <3>2, EmptySeq
    <3>4. QED
      BY <3>3 DEF SeenBefore
  <2>3. QED
    BY <2>1, <2>2
<1>5. CASE left # {} /\ MovesTo(table[Min(left)][1], Min(left))
  <2> DEFINE b == Min(left)
  <2>1. left \subseteq Nat
    BY <1>3, TracksAssumption
  <2>2. b \in left /\ \A a \in left : b <= a
    <3> HIDE DEF left
    <3>1. QED
      BY <1>5, <2>1, Least
  <2> HIDE DEF b
  <2>3. b \in 1 .. Buckets /\ b \in Nat
    BY <1>3, <2>1, <2>2, TracksAssumption
  <2>4. 1 \in DOMAIN table[b]
    <3>1. table[b] \in Seq(Node) /\ table[b] # <<>>
      BY <1>1, <2>2, <2>3 DEF Types, Table
    <3>2. QED
      BY <3>1, EmptySeq, LenProperties
  <2>5. ASSUME NEW a \in 1 .. Buckets, a < b PROVE SeenBefore(a, Len(table[a]) + 1)
    <3>1. a \notin left
      BY <2>2, <2>3, <2>5
    <3>2. QED
      BY <1>4, <3>1
  <2>6. SeenBefore(b, 1)
    <3>1. ASSUME NEW j \in DOMAIN table[b] PROVE ~(j < 1)
      <4>1. table[b] \in Seq(Node)
        BY <1>1, <2>3 DEF Types, Table
      <4>2. DOMAIN table[b] = 1 .. Len(table[b]) /\ Len(table[b]) \in Nat
        BY <4>1, LenProperties
      <4>3. QED
        BY <4>2
    <3>2. QED
      BY <3>1 DEF SeenBefore
  <2>7. MovesTo(table[b][1], b)
    BY <1>5 DEF b
  <2>8. QED
    BY <1>2, <2>3, <2>4, <2>5, <2>6, <2>7, MovesStep
<1>6. CASE /\ left = {} /\ iter' = [iter EXCEPT !.offset = Buckets + 1]
           /\ Goto("io", "end", Nil, 0)
           /\ UNCHANGED <<lockVars, tableVars, trackVars, held, historyVars, astray>>
  <2>1. /\ UNCHANGED <<table, count, entry, freelist, dont_free, owner, depth, key, memory>>
        /\ UNCHANGED <<ref_count, held, visited, races, astray>>
    BY <1>6 DEF lockVars, tableVars, trackVars, historyVars
  <2>2. /\ pc' \in [Thread -> Places] /\ arg' \in [Thread -> Node \union {Nil}]
        /\ reg' \in [Thread -> Nat] /\ pc'["io"] = "end" /\ arg'["io"] = Nil
        /\ pc'["main"] = pc["main"] /\ arg'["main"] = arg["main"] /\ reg'["main"] = reg["main"]
    <3>1. "end" \in Places
      BY DEF Places
    <3>2. QED
      BY <1>1, <1>6, <3>1, IoWent
  <2>3. /\ iter' \in [offset : 0 .. Buckets + 1, entry : Node \union {Nil}, next : Node \union {Nil}]
        /\ iter'.offset = Buckets + 1 /\ iter'.entry = Nil /\ Buckets + 1 > 0
    <3>1. Buckets + 1 \in 0 .. Buckets + 1 /\ Buckets + 1 > 0
      BY TracksAssumption
    <3>2. iter \in [offset : 0 .. Buckets + 1, entry : Node \union {Nil}, next : Node \union {Nil}]
      BY <1>1 DEF Types
    <3>3. QED
      BY <1>3, <1>6, <3>1, <3>2
  <2>4. Types'
    BY <1>1, <2>1, <2>2, <2>3 DEF Types
  <2>5. Sorted' /\ Accounted' /\ InTable' = InTable /\ Working'
    BY <2>1, <2>2, IoStays
  <2>6. Walk'
    BY <1>1, <1>3, <2>1, <2>2, <2>3, TracksAssumption DEF Walk, Walking
  <2>7. ASSUME NEW b \in 1 .. Buckets PROVE SeenBefore(b, Len(table[b]) + 1)'
    <3>1. SeenBefore(b, Len(table[b]) + 1)
      BY <1>4, <1>6
    <3>2. QED
      BY <2>1, <3>1 DEF SeenBefore
  <2>8. Progress'
    BY <2>1, <2>2, <2>3, <2>7 DEF Progress
  <2>9. Good'
    <3>1. races' = {} => depth' = IF iter'.offset > 0 THEN 1 ELSE 0
      BY <1>1, <1>3, <2>1, <2>3 DEF Good, GoodTracks
    <3>2. QED
      BY <1>2, <2>1, <2>2, <2>5, <3>1, IoIsGood
  <2>10. QED
    BY <2>4, <2>5, <2>6, <2>8, <2>9 DEF TracksInd
<1>7. QED
  BY <1>5, <1>6 DEF IterBucket

(* The collector frees a track or leaves it alone.                         *)
LEMMA GcVisitStep ==
  ASSUME TracksInd, GcVisit
  PROVE  TracksInd'
<1> DEFINE n == arg["io"]
<1>1. Types /\ Sorted /\ Accounted /\ Working /\ Walk /\ Progress /\ Good
  BY DEF TracksInd
<1>2. pc["io"] = "visit"
  BY DEF GcVisit
<1>3. iter.offset > 0
  BY <1>1, <1>2, WalksOrNot DEF Walk
<1>4. n \in InTable /\ n \in Node /\ iter.entry = n /\ iter.entry # Nil /\ n = arg["io"]
  BY <1>1, <1>2, <1>3, Current
<1> HIDE DEF n
<1>5. races = {} => GoodTracks /\ GoodThread("main")
  BY <1>1, MainAndIo DEF Good
<1>6. races = {} => memory[n] \in {"raw", "live"}
  BY <1>4, <1>5 DEF GoodTracks
<1>7. CASE memory[n] = "freed"
  BY <1>4, <1>6, <1>7, Astray DEF GcVisit
<1>8. CASE memory[n] # "freed"
  <2>1. /\ UNCHANGED <<table, count, entry, dont_free, freelist, owner, depth, key, memory>>
        /\ UNCHANGED <<ref_count, iter, held, visited, astray>>
    BY <1>4, <1>8 DEF GcVisit, lockVars, tableVars, trackVars
  <2>2. CASE Goto("io", "next", Nil, 0) /\ UNCHANGED races
    <3>1. /\ pc' \in [Thread -> Places] /\ arg' \in [Thread -> Node \union {Nil}]
          /\ reg' \in [Thread -> Nat] /\ pc'["io"] = "next" /\ arg'["io"] = Nil
          /\ pc'["main"] = pc["main"] /\ arg'["main"] = arg["main"] /\ reg'["main"] = reg["main"]
      <4>1. "next" \in Places
        BY DEF Places, Walking
      <4>2. QED
        BY <1>1, <2>2, <4>1, IoWent
    <3>2. Types'
      BY <1>1, <2>1, <2>2, <3>1 DEF Types
    <3>3. Sorted' /\ Accounted' /\ InTable' = InTable /\ Working'
      BY <2>1, <3>1, IoStays
    <3>4. Walk' /\ Progress'
      <4>1. pc'["main"] \notin {"bucket", "visit", "next", "end"} /\ iter.offset # 0
        BY <1>1, <1>3, <3>1 DEF Walk
      <4>2. QED
        BY <1>1, <1>2, <2>1, <3>1, <4>1, WalkStays DEF Walking, lockVars
    <3>5. Good'
      <4>1. races' = {} => depth' = IF iter'.offset > 0 THEN 1 ELSE 0
        BY <1>1, <2>1, <2>2 DEF Good, GoodTracks
      <4>2. QED
        BY <1>2, <2>1, <2>2, <3>1, <3>3, <4>1, IoIsGood
    <3>6. QED
      BY <3>2, <3>3, <3>4, <3>5 DEF TracksInd
  <2>3. CASE /\ ref_count[n] = 0
             /\ Goto("io", "remove", n, 0)
             /\ Races(IF UsedBy("main", n) THEN {"freed in use"} ELSE {})
    <3>1. /\ pc' \in [Thread -> Places] /\ arg' \in [Thread -> Node \union {Nil}]
          /\ reg' \in [Thread -> Nat] /\ pc'["io"] = "remove" /\ arg'["io"] = n
          /\ pc'["main"] = pc["main"] /\ arg'["main"] = arg["main"] /\ reg'["main"] = reg["main"]
      <4>1. "remove" \in Places /\ n \in Node \union {Nil} /\ Goto("io", "remove", n, 0)
        BY <1>4, <2>3 DEF Places, Walking
      <4>2. QED
        BY <1>1, <4>1, IoWent
    <3>2. /\ races \subseteq races' /\ races' \subseteq races \union {"freed in use"}
          /\ races' = {} => ~UsedBy("main", n)
      BY <2>3 DEF Races
    <3>3. Types'
      BY <1>1, <2>1, <3>1, <3>2 DEF Types
    <3>4. Sorted' /\ Accounted' /\ InTable' = InTable /\ Working'
      BY <1>4, <2>1, <3>1, IoStays
    <3>5. Walk' /\ Progress'
      <4>1. pc'["main"] \notin {"bucket", "visit", "next", "end"} /\ iter.offset # 0
            /\ arg'["io"] = arg["io"]
        BY <1>1, <1>3, <1>4, <3>1 DEF Walk
      <4>2. QED
        BY <1>1, <1>2, <2>1, <3>1, <4>1, WalkStays DEF Walking, lockVars
    <3>6. ASSUME races' = {} PROVE GoodTracks' /\ \A t \in Thread : GoodThread(t)'
      <4>1. GoodTracks /\ GoodThread("main") /\ ~UsedBy("main", n) /\ memory[n] \in {"raw", "live"}
        BY <1>5, <1>6, <3>2, <3>6
      <4>2. \A m \in InTable : memory[m] = "raw" => pc["main"] = "init" /\ arg["main"] = m
        BY <1>2, <4>1 DEF GoodTracks, Thread
      <4>3. memory[n] = "live"
        BY <1>4, <4>1, <4>2 DEF UsedBy
      <4>4. \A t \in Thread : n \notin held[t]
        BY <1>1, <1>4, <2>3, <4>1, <4>3, Unheld
      <4>5. GoodTracks'
        BY <2>1, <3>1, <3>4, <4>1, <4>2, MainAndIo DEF GoodTracks
      <4>6. \A m : UsedBy("main", m)' <=> UsedBy("main", m)
        BY <3>1 DEF UsedBy
      <4>7. GoodThread("io")'
        BY <1>4, <2>1, <3>1, <3>4, <4>1, <4>3, <4>4, <4>6, MainAndIo DEF GoodThread
      <4>8. \A m : UsedBy("io", m)' <=> m = n
        BY <3>1 DEF UsedBy
      <4>9. pc["main"] \in {"init", "remove", "removing", "free"} => arg["main"] # n
        BY <4>1 DEF UsedBy
      <4>10. GoodThread("main")'
        BY <2>1, <3>1, <3>4, <4>1, <4>8, <4>9, MainAndIo DEF GoodThread, Chain
      <4>11. QED
        BY <4>5, <4>7, <4>10, MainAndIo
    <3>7. QED
      BY <3>3, <3>4, <3>5, <3>6 DEF TracksInd, Good
  <2>4. QED
    BY <1>4, <1>8, <2>2, <2>3 DEF GcVisit
<1>9. QED
  BY <1>7, <1>8

(* hashtable_iterator_free()                                               *)
LEMMA GcEndStep ==
  ASSUME TracksInd, GcEnd
  PROVE  TracksInd'
<1>1. Types /\ Sorted /\ Accounted /\ Working /\ Walk /\ Progress /\ Good
  BY DEF TracksInd
<1>2. /\ pc["io"] = "end" /\ entry' = entry \ freelist /\ freelist' = {}
      /\ dont_free' = dont_free \ freelist /\ depth' = depth - 1 /\ owner' = owner /\ Goto("io", "idle", Nil, 0)
      /\ iter' = [offset |-> 0, entry |-> Nil, next |-> Nil] /\ visited' = {}
      /\ UNCHANGED <<table, count, key, memory, ref_count, held, races, astray>>
  BY DEF GcEnd, Unlock, Return, trackVars
<1>3. iter.offset > 0 /\ depth > 0 /\ depth - 1 \in Nat
  <2>1. iter.offset > 0
    BY <1>1, <1>2, WalksOrNot DEF Walk
  <2>2. depth > 0
    BY <1>1, <2>1 DEF Walk
  <2>3. QED
    BY <1>1, <2>1, <2>2, WalksOrNot
<1>4. /\ pc' \in [Thread -> Places] /\ arg' \in [Thread -> Node \union {Nil}]
      /\ reg' \in [Thread -> Nat] /\ pc'["io"] = "idle" /\ arg'["io"] = Nil
      /\ pc'["main"] = pc["main"] /\ arg'["main"] = arg["main"] /\ reg'["main"] = reg["main"]
  <2>1. "idle" \in Places
    BY DEF Places
  <2>2. QED
    BY <1>1, <1>2, <2>1, IoWent
<1>5. /\ iter' \in [offset : 0 .. Buckets + 1, entry : Node \union {Nil}, next : Node \union {Nil}]
      /\ iter'.offset = 0 /\ iter'.entry = Nil
  <2>1. 0 \in 0 .. Buckets + 1
    BY TracksAssumption
  <2>2. QED
    BY <1>2, <2>1
<1>6. Types'
  BY <1>1, <1>2, <1>3, <1>4, <1>5 DEF Types
<1>7. Sorted' /\ Accounted' /\ InTable' = InTable /\ Working'
  BY <1>2, <1>4, IoStays
<1>8. Walk'
  BY <1>1, <1>4, <1>5 DEF Walk
<1>9. Progress'
  <2>1. \A b \in 1 .. Buckets : ~(b < 0)
    BY TracksAssumption
  <2>2. QED
    BY <1>4, <1>5, <2>1 DEF Progress
<1>10. Good'
  <2>1. races' = {} => depth' = IF iter'.offset > 0 THEN 1 ELSE 0
    BY <1>1, <1>2, <1>3, <1>5 DEF Good, GoodTracks
  <2>2. QED
    BY <1>2, <1>4, <1>7, <2>1, IoIsGood
<1>11. QED
  BY <1>6, <1>7, <1>8, <1>9, <1>10 DEF TracksInd
-----------------------------------------------------------------------------
(* The table is empty and nobody does anything.                            *)
LEMMA TracksInitial == TracksInit => TracksInd
<1>1. SUFFICES ASSUME TracksInit PROVE TracksInd
  OBVIOUS
<1>2. /\ table = [b \in 1 .. Buckets |-> <<>>] /\ count = 0
      /\ entry = {} /\ dont_free = {} /\ freelist = {} /\ owner = "main" /\ depth = 0
      /\ key = [n \in Node |-> CHOOSE k \in Key : TRUE]
      /\ memory = [n \in Node |-> "none"] /\ ref_count = [n \in Node |-> 0]
      /\ iter = [offset |-> 0, entry |-> Nil, next |-> Nil]
      /\ pc = [th \in Thread |-> "idle"] /\ arg = [th \in Thread |-> Nil]
      /\ reg = [th \in Thread |-> 0] /\ held = [th \in Thread |-> {}]
      /\ visited = {} /\ races = {} /\ astray = FALSE
  BY <1>1 DEF TracksInit
<1>3. /\ \A b \in 1 .. Buckets : table[b] = <<>> /\ DOMAIN table[b] = {} /\ Range(table[b]) = {}
      /\ table \in Table
  <2>1. <<>> \in Seq(Node) /\ DOMAIN <<>> = {}
    OBVIOUS
  <2>2. \A b \in 1 .. Buckets : table[b] = <<>>
    BY <1>2
  <2>3. Range(<<>>) = {}
    BY <2>1 DEF Range
  <2>4. table \in Table
    BY <1>2, <2>1 DEF Table
  <2>5. QED
    BY <2>1, <2>2, <2>3, <2>4
<1>4. InTable = {}
  BY <1>3 DEF InTable
<1>5. \A th \in Thread : pc[th] = "idle" /\ arg[th] = Nil /\ held[th] = {}
  BY <1>2
<1>6. "main" \in Thread /\ "io" \in Thread /\ Nil \notin Node
  BY MainAndIo DEF Nil, Node
<1>7. Types
  <2>1. 0 \in 0 .. Buckets + 1
    BY TracksAssumption
  <2>2. key \in [Node -> Key]
    <3>1. (CHOOSE k \in Key : TRUE) \in Key
      BY TracksAssumption
    <3>2. QED
      BY <1>2, <3>1
  <2>3. "idle" \in Places
    BY DEF Places
  <2>4. iter \in [offset : 0 .. Buckets + 1, entry : Node \union {Nil}, next : Node \union {Nil}]
    BY <1>2, <2>1
  <2>5. /\ memory \in [Node -> {"none", "raw", "live", "freed"}] /\ ref_count \in [Node -> Nat]
        /\ pc \in [Thread -> Places] /\ arg \in [Thread -> Node \union {Nil}]
        /\ reg \in [Thread -> Nat] /\ held \in [Thread -> SUBSET Node]
    BY <1>2, <2>3
  <2>6. QED
    BY <1>2, <1>3, <1>6, <2>2, <2>4, <2>5 DEF Types
<1>8. Sorted
  BY <1>3 DEF Sorted, InOrder
<1>9. Accounted
  BY <1>2, <1>4, FS_EmptySet DEF Accounted
<1>10. Working
  BY <1>5, <1>6 DEF Working, Works
<1>11. Walk
  BY <1>2, <1>5, <1>6 DEF Walk
<1>12. Progress
  <2>1. \A b \in 1 .. Buckets : ~(b < iter.offset)
    BY <1>2, TracksAssumption
  <2>2. QED
    BY <1>2, <1>5, <1>6, <2>1 DEF Progress
<1>13. Good
  BY <1>2, <1>4, <1>5 DEF Good, GoodTracks, GoodThread
<1>14. QED
  BY <1>7, <1>8, <1>9, <1>10, <1>11, <1>12, <1>13 DEF TracksInd

(* Every action keeps the invariant, and so does a step that changes       *)
(* nothing.                                                                *)
LEMMA TracksStep == TracksInd /\ [TracksNext]_trackAllVars => TracksInd'
<1>1. SUFFICES ASSUME TracksInd, [TracksNext]_trackAllVars PROVE TracksInd'
  OBVIOUS
<1>2. CASE Begin
  <2>1. CASE GcStart
    BY <1>1, <2>1, GcStartStep
  <2>2. ASSUME NEW th \in Thread, NEW n \in Node, Found(th, n) PROVE TracksInd'
    BY <1>1, <2>2, FoundStep
  <2>3. ASSUME NEW th \in Thread, NEW k \in Key, NotFound(th, k) PROVE TracksInd'
    BY <1>1, <2>3, NotFoundStep
  <2>4. QED
    BY <1>2, <2>1, <2>2, <2>3 DEF Begin
<1>3. CASE Collect
  BY <1>1, <1>3, IterNextStep, IterBucketStep, GcVisitStep, GcEndStep DEF Collect
<1>4. ASSUME NEW th \in Thread, Continue(th) PROVE TracksInd'
  BY <1>1, <1>4, InsertStep, InitialiseStep, LoadStep, AddRefStep, SubRefStep, ReadHeadStep,
     RemoveStep, FreeStep DEF Continue
<1>5. ASSUME NEW th \in Thread, NEW n \in Node, Release(th, n) PROVE TracksInd'
  BY <1>1, <1>5, ReleaseStep
<1>6. CASE UNCHANGED trackAllVars
  <2>1. /\ UNCHANGED <<table, count, entry, dont_free, freelist, owner, depth, key, memory>>
        /\ UNCHANGED <<ref_count, iter, pc, arg, reg, held, visited, races, astray>>
    BY <1>6 DEF trackAllVars, lockVars, tableVars, trackVars, threadVars, historyVars
  <2>2. Types /\ Sorted /\ Accounted /\ Working /\ Walk /\ Progress /\ Good
    BY <1>1 DEF TracksInd
  <2>3. InTable' = InTable /\ Types'
    <3>1. InTable' = InTable
      BY <2>1 DEF InTable
    <3>2. Types'
      BY <2>1, <2>2 DEF Types, Table
    <3>3. QED
      BY <3>1, <3>2
  <2>4. Sorted' /\ Accounted' /\ Working'
    BY <2>1, <2>2, <2>3 DEF Sorted, InOrder, Accounted, Working, Works
  <2>5. Walk' /\ Progress'
    BY <2>1, <2>2 DEF Walk, Progress, Ahead, SeenBefore, CurrentBefore
  <2>6. Good'
    <3>1. GoodTracks' <=> GoodTracks
      BY <2>1, <2>3 DEF GoodTracks, Holders
    <3>2. \A th \in Thread : GoodThread(th)' <=> GoodThread(th)
      BY <2>1, <2>3 DEF GoodThread, UsedBy, Chain
    <3>3. QED
      BY <2>1, <2>2, <3>1, <3>2 DEF Good
  <2>7. QED
    BY <2>3, <2>4, <2>5, <2>6 DEF TracksInd
<1>7. QED
  BY <1>1, <1>2, <1>3, <1>4, <1>5, <1>6 DEF TracksNext

LEMMA TracksAlways == TracksSpec => []TracksInd
BY TracksInitial, TracksStep, PTL DEF TracksSpec

(* While the collector walks, the entry that it goes to next is in its     *)
(* bucket.                                                                 *)
LEMMA NextIsThere ==
  ASSUME TracksInd, iter.entry # Nil, iter.next # Nil
  PROVE  iter.next \in entry
<1>1. Types /\ Accounted /\ Walk /\ Progress
  BY DEF TracksInd
<1>2. iter.offset \in 1 .. Buckets
  <2>1. iter.offset \in 0 .. Buckets + 1 /\ iter.offset # 0 /\ iter.offset <= Buckets
    BY <1>1 DEF Types, Walk
  <2>2. QED
    BY <2>1, TracksAssumption
<1>3. PICK i \in DOMAIN table[iter.offset] : table[iter.offset][i] = iter.next
  BY <1>1 DEF Progress, Ahead
<1>4. iter.next \in InTable
  BY <1>2, <1>3 DEF InTable, Range
<1>5. QED
  BY <1>1, <1>4 DEF Accounted

(* Whatever has raced, the types hold, the count of the table is right,    *)
(* the iterator stands on an entry that is allocated and so is the next,   *)
(* no entry is lost, and without a race only the walk keeps the mutex.     *)
THEOREM TracksInvariant == TracksSpec => []TracksInv
<1>1. TracksInd => TracksInv
  <2>1. SUFFICES ASSUME TracksInd PROVE TracksInv
    OBVIOUS
  <2>2. Types /\ Accounted /\ Walk /\ Good
    BY <2>1 DEF TracksInd
  <2>3. iter.offset \in 0 .. Buckets + 1 /\ iter.entry \in Node \union {Nil}
    BY <2>2 DEF Types
  <2>4. TracksTypeOK
    BY <2>2, <2>3 DEF TracksTypeOK, Types, Accounted
  <2>5. IteratorIsLive
    BY <2>1, <2>2, NextIsThere DEF IteratorIsLive, Walk
  <2>6. NothingLeaks
    BY <2>2 DEF NothingLeaks, Accounted, Good, GoodTracks
  <2>7. QED
    BY <2>4, <2>5, <2>6 DEF TracksInv
<1>2. QED
  BY <1>1, TracksAlways, PTL

(* A thread uses memory that was freed or never set, or fails an assertion *)
(* about a count, only after one of the five races.                        *)
THEOREM TracksOnlyRaces == TracksSpec => []OnlyRacesGoAstray
<1>1. TracksInd => OnlyRacesGoAstray
  BY DEF TracksInd, Good, GoodTracks, OnlyRacesGoAstray
<1>2. QED
  BY <1>1, TracksAlways, PTL

(* Without a race, the track of every reference is alive and in the table, *)
(* an id has one track, and ref_count is the number of references.         *)
THEOREM TracksReferences == TracksSpec => []ReferencesAreGood
<1>1. TracksInd => ReferencesAreGood
  BY DEF TracksInd, Good, GoodTracks, Holders, ReferencesAreGood
<1>2. QED
  BY <1>1, TracksAlways, PTL

(* At the end of its walk, on which it removes entries itself, the         *)
(* collector has seen every entry that is in the table.                    *)
THEOREM TracksGcMissesNothing == TracksSpec => []GcMissesNothing
<1>1. TracksInd => GcMissesNothing
  <2>1. SUFFICES ASSUME TracksInd, pc["io"] = "end", NEW n \in InTable PROVE n \in visited
    BY DEF GcMissesNothing
  <2>2. Types /\ Sorted /\ Accounted /\ Progress
    BY <2>1 DEF TracksInd
  <2>3. n \in Entries(table)
    BY <2>2, EntriesAre
  <2>4. PICK b \in 1 .. Buckets : \E i \in DOMAIN table[b] : table[b][i] = n
    BY <2>3, Membership
  <2>5. PICK i \in DOMAIN table[b] : table[b][i] = n
    BY <2>4
  <2>6. b < iter.offset
    BY <2>1, <2>2, TracksAssumption DEF Progress
  <2>7. SeenBefore(b, Len(table[b]) + 1)
    BY <2>2, <2>6 DEF Progress
  <2>8. i < Len(table[b]) + 1
    <3>1. table[b] \in Seq(Node)
      BY <2>2 DEF Types, Table
    <3>2. DOMAIN table[b] = 1 .. Len(table[b]) /\ Len(table[b]) \in Nat
      BY <3>1, LenProperties
    <3>3. QED
      BY <2>5, <3>2
  <2>9. QED
    BY <2>5, <2>7, <2>8 DEF SeenBefore
<1>2. QED
  BY <1>1, TracksAlways, PTL
=============================================================================
