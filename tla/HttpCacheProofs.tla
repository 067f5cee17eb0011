---------------------------- MODULE HttpCacheProofs ---------------------------
(***************************************************************************)
(* Proofs about HttpCache, for any addresses, loads, cookies and rooms and *)
(* any naming of files by finitely many hashes: the tiers are what they    *)
(* should be, an answer is its own address's, and the directory agrees     *)
(* with the index once the queue of the writing thread is played.          *)
(*                                                                         *)
(* The last is the long part. Ends says what playing the queue would leave *)
(* under a name, so the lemmas say first how each operation on the disk    *)
(* tier changes Ends (EndsRemovals, EndsWritten), then that every one of   *)
(* them carries over how the index and Ends agree (Carries), then that a   *)
(* step of the writing thread changes no Ends at all (WriterKeeps).        *)
(***************************************************************************)
EXTENDS HttpCache, SequenceTheorems, FiniteSetTheorems, TLAPS

(* No two of es are for one address. *)
Unique(es) == \A i, j \in 1 .. Len(es) : es[i].url = es[j].url => i = j
(* What is in es. *)
In(es) == {es[i] : i \in 1 .. Len(es)}
(* What is in es from the place m to n. *)
Part(es, m, n) == {es[i] : i \in m .. n}
(* No address is in both. *)
Apart(a, b) == \A x \in In(a), y \in In(b) : x.url # y.url

(* An address is held where an entry is for it, and Place finds that one. *)
LEMMA HoldingIn ==
    ASSUME NEW S, NEW es \in Seq(S), NEW u
    PROVE  /\ Holding(es, u) # {} <=> \E e \in In(es) : e.url = u
           /\ Holding(es, u) # {} => Place(es, u) \in 1 .. Len(es) /\ es[Place(es, u)].url = u
<1>1. Len(es) \in Nat /\ DOMAIN es = 1 .. Len(es) OBVIOUS
<1>2. \A i : i \in Holding(es, u) <=> i \in 1 .. Len(es) /\ es[i].url = u BY <1>1 DEF Holding
<1>3. Holding(es, u) # {} => Place(es, u) \in Holding(es, u) BY DEF Place
<1> QED BY <1>2, <1>3 DEF In

(* What is in a sequence with one more at its end, *)
LEMMA AppendIn ==
    ASSUME NEW S, NEW es \in Seq(S), NEW e \in S
    PROVE  /\ Append(es, e) \in Seq(S) /\ Len(Append(es, e)) = Len(es) + 1
           /\ In(Append(es, e)) = In(es) \cup {e}
           /\ Unique(es) /\ Holding(es, e.url) = {} => Unique(Append(es, e))
<1> PICK q : q = Append(es, e) OBVIOUS
<1>1. /\ q \in Seq(S) /\ Len(q) = Len(es) + 1 /\ q[Len(es) + 1] = e /\ Len(es) \in Nat
      /\ \A i \in 1 .. Len(es) : q[i] = es[i]
  BY AppendProperties
<1>2. \A i : i \in 1 .. Len(q) <=> i \in 1 .. Len(es) \/ i = Len(es) + 1 BY <1>1
<1>3. In(q) = In(es) \cup {e}
  <2>1. \A x \in In(q) : x \in In(es) \cup {e} BY <1>1, <1>2 DEF In
  <2>2. \A x \in In(es) : x \in In(q) BY <1>1, <1>2 DEF In
  <2>3. e \in In(q) BY <1>1, <1>2 DEF In
  <2> QED BY <2>1, <2>2, <2>3
<1>4. ASSUME Unique(es), Holding(es, e.url) = {} PROVE Unique(q)
  <2>1. \A i \in 1 .. Len(es) : es[i].url # e.url BY <1>4 DEF Holding
  <2> SUFFICES ASSUME NEW i \in 1 .. Len(q), NEW j \in 1 .. Len(q), q[i].url = q[j].url PROVE i = j
    BY DEF Unique
  <2>2. CASE i \in 1 .. Len(es) /\ j \in 1 .. Len(es) BY <2>2, <1>1, <1>4 DEF Unique
  <2>3. CASE i = Len(es) + 1 /\ j \in 1 .. Len(es) BY <2>3, <2>1, <1>1
  <2>4. CASE j = Len(es) + 1 /\ i \in 1 .. Len(es) BY <2>4, <2>1, <1>1
  <2>5. CASE i = Len(es) + 1 /\ j = Len(es) + 1 BY <2>5
  <2> QED BY <2>2, <2>3, <2>4, <2>5, <1>2
<1> QED BY <1>1, <1>3, <1>4

(* in a part of a sequence, *)
LEMMA SubSeqIn ==
    ASSUME NEW S, NEW es \in Seq(S), NEW m \in 1 .. Len(es) + 1, NEW n \in 0 .. Len(es), m <= n + 1
    PROVE  /\ SubSeq(es, m, n) \in Seq(S) /\ Len(SubSeq(es, m, n)) = n + 1 - m
           /\ In(SubSeq(es, m, n)) = Part(es, m, n)
           /\ \A i \in 1 .. n - m + 1 : SubSeq(es, m, n)[i] = es[m + i - 1]
<1> PICK q : q = SubSeq(es, m, n) OBVIOUS
<1>0. Len(es) \in Nat /\ m \in Nat /\ n \in Nat /\ m >= 1 /\ n <= Len(es) OBVIOUS
<1>1. /\ q \in Seq(S) /\ Len(q) = n - m + 1
      /\ \A i \in 1 .. n - m + 1 : q[i] = es[m + i - 1]
  <2>1. \A i \in m .. n : es[i] \in S BY <1>0
  <2>2. q = [i \in 1 .. n - m + 1 |-> es[m + i - 1]] /\ Len(q) = n - m + 1
    BY <1>0, SubSeqProperties
  <2> QED BY <2>1, <2>2, <1>0, SubSeqProperties
<1>2. In(q) = {es[i] : i \in m .. n}
  <2>1. ASSUME NEW i \in 1 .. Len(q) PROVE q[i] \in {es[k] : k \in m .. n}
    <3>1. m + i - 1 \in m .. n BY <1>0, <1>1
    <3> QED BY <3>1, <1>1
  <2>2. ASSUME NEW k \in m .. n PROVE es[k] \in In(q)
    <3>1. k - m + 1 \in 1 .. n - m + 1 /\ m + (k - m + 1) - 1 = k BY <1>0
    <3>2. q[k - m + 1] = es[k] BY <3>1, <1>1
    <3> QED BY <3>1, <3>2, <1>1 DEF In
  <2> QED BY <2>1, <2>2 DEF In
<1> QED BY <1>0, <1>1, <1>2 DEF Part

LEMMA SubSeqUnique ==
    ASSUME NEW S, NEW es \in Seq(S), NEW m \in 1 .. Len(es) + 1, NEW n \in 0 .. Len(es), m <= n + 1,
           Unique(es)
    PROVE  Unique(SubSeq(es, m, n))
<1> PICK q : q = SubSeq(es, m, n) OBVIOUS
<1>0. Len(es) \in Nat /\ m \in Nat /\ n \in Nat /\ m >= 1 /\ n <= Len(es) OBVIOUS
<1>1. Len(q) = n + 1 - m /\ \A i \in 1 .. n - m + 1 : q[i] = es[m + i - 1] BY SubSeqIn
<1> SUFFICES ASSUME NEW i \in 1 .. Len(q), NEW j \in 1 .. Len(q), q[i].url = q[j].url PROVE i = j
  BY DEF Unique
<1> PICK a : a = m + i - 1 OBVIOUS
<1> PICK b : b = m + j - 1 OBVIOUS
<1>2. a \in 1 .. Len(es) /\ b \in 1 .. Len(es) /\ i \in Nat /\ j \in Nat BY <1>0, <1>1
<1>3. q[i] = es[a] /\ q[j] = es[b] BY <1>0, <1>1
<1>4. a = b BY <1>2, <1>3 DEF Unique
<1> QED BY <1>2, <1>4, <1>0

(* and in two, one after the other. *)
LEMMA ConcatPlaces ==
    ASSUME NEW S, NEW a \in Seq(S), NEW b \in Seq(S)
    PROVE  /\ a \o b \in Seq(S) /\ Len(a \o b) = Len(a) + Len(b)
           /\ \A i \in 1 .. Len(a) : i \in 1 .. Len(a) + Len(b) /\ (a \o b)[i] = a[i]
           /\ \A i \in 1 .. Len(b) : Len(a) + i \in 1 .. Len(a) + Len(b) /\ (a \o b)[Len(a) + i] = b[i]
           /\ \A i \in 1 .. Len(a) + Len(b) : i \in 1 .. Len(a) \/ \E k \in 1 .. Len(b) : i = Len(a) + k
<1> PICK q : q = a \o b OBVIOUS
<1> PICK m : m = Len(a) OBVIOUS
<1> PICK n : n = Len(b) OBVIOUS
<1>1. /\ q \in Seq(S) /\ Len(q) = m + n /\ m \in Nat /\ n \in Nat
      /\ \A i \in 1 .. m + n : q[i] = IF i <= m THEN a[i] ELSE b[i - m]
  BY ConcatProperties
<1>2. \A i \in 1 .. m : i \in 1 .. m + n /\ q[i] = a[i] BY <1>1
<1>3. \A i \in 1 .. n : m + i \in 1 .. m + n /\ q[m + i] = b[i]
  <2> SUFFICES ASSUME NEW i \in 1 .. n PROVE m + i \in 1 .. m + n /\ q[m + i] = b[i] OBVIOUS
  <2>1. m + i \in 1 .. m + n /\ ~(m + i <= m) /\ (m + i) - m = i BY <1>1
  <2> QED BY <2>1, <1>1
<1>4. ASSUME NEW i \in 1 .. m + n PROVE i \in 1 .. m \/ \E k \in 1 .. n : i = m + k
  <2>1. CASE i <= m BY <2>1, <1>1
  <2>2. CASE ~(i <= m)
    <3>1. i - m \in 1 .. n /\ i = m + (i - m) BY <2>2, <1>1
    <3> QED BY <3>1
  <2> QED BY <2>1, <2>2
<1> QED BY <1>1, <1>2, <1>3, <1>4

LEMMA ConcatIn ==
    ASSUME NEW S, NEW a \in Seq(S), NEW b \in Seq(S)
    PROVE  /\ a \o b \in Seq(S) /\ Len(a \o b) = Len(a) + Len(b)
           /\ In(a \o b) = In(a) \cup In(b)
<1>1. PICK q : q = a \o b OBVIOUS
<1>2. PICK m : m = Len(a) OBVIOUS
<1>3. PICK n : n = Len(b) OBVIOUS
<1>4. /\ a \o b \in Seq(S) /\ Len(a \o b) = Len(a) + Len(b)
      /\ \A i \in 1 .. Len(a) : i \in 1 .. Len(a) + Len(b) /\ (a \o b)[i] = a[i]
      /\ \A i \in 1 .. Len(b) : Len(a) + i \in 1 .. Len(a) + Len(b) /\ (a \o b)[Len(a) + i] = b[i]
      /\ \A i \in 1 .. Len(a) + Len(b) : i \in 1 .. Len(a) \/ \E k \in 1 .. Len(b) : i = Len(a) + k
  BY ConcatPlaces
<1>5. /\ q \in Seq(S) /\ Len(q) = m + n
      /\ \A i \in 1 .. m : i \in 1 .. m + n /\ q[i] = a[i]
      /\ \A i \in 1 .. n : m + i \in 1 .. m + n /\ q[m + i] = b[i]
      /\ \A i \in 1 .. m + n : i \in 1 .. m \/ \E k \in 1 .. n : i = m + k
  BY <1>4, <1>1, <1>2, <1>3
<1>6. \A x \in In(q) : x \in In(a) \cup In(b)
  <2> SUFFICES ASSUME NEW i \in 1 .. m + n PROVE q[i] \in In(a) \cup In(b) BY <1>5 DEF In
  <2>1. CASE i \in 1 .. m BY <2>1, <1>5, <1>2 DEF In
  <2>2. ASSUME NEW k \in 1 .. n, i = m + k PROVE q[i] \in In(b) BY <2>2, <1>5, <1>3 DEF In
  <2> QED BY <2>1, <2>2, <1>5
<1>7. \A x \in In(a) : x \in In(q)
  <2>1. \A i \in 1 .. m : i \in 1 .. Len(q) /\ q[i] = a[i] BY <1>5
  <2> QED BY <2>1, <1>2 DEF In
<1>8. \A x \in In(b) : x \in In(q)
  <2> SUFFICES ASSUME NEW i \in 1 .. n PROVE b[i] \in In(q) BY <1>3 DEF In
  <2>2. PICK k : k = m + i OBVIOUS
  <2>1. k \in 1 .. Len(q) /\ q[k] = b[i] BY <1>5, <2>2
  <2> QED BY <2>1 DEF In
<1> QED BY <1>4, <1>6, <1>7, <1>8, <1>1

LEMMA ConcatUnique ==
    ASSUME NEW S, NEW a \in Seq(S), NEW b \in Seq(S), Unique(a), Unique(b), Apart(a, b)
    PROVE  Unique(a \o b)
<1>1. PICK q : q = a \o b OBVIOUS
<1>2. PICK m : m = Len(a) OBVIOUS
<1>3. PICK n : n = Len(b) OBVIOUS
<1>4. /\ a \o b \in Seq(S) /\ Len(a \o b) = Len(a) + Len(b)
      /\ \A i \in 1 .. Len(a) : i \in 1 .. Len(a) + Len(b) /\ (a \o b)[i] = a[i]
      /\ \A i \in 1 .. Len(b) : Len(a) + i \in 1 .. Len(a) + Len(b) /\ (a \o b)[Len(a) + i] = b[i]
      /\ \A i \in 1 .. Len(a) + Len(b) : i \in 1 .. Len(a) \/ \E k \in 1 .. Len(b) : i = Len(a) + k
  BY ConcatPlaces
<1>5. /\ q \in Seq(S) /\ Len(q) = m + n
      /\ \A i \in 1 .. m : i \in 1 .. m + n /\ q[i] = a[i]
      /\ \A i \in 1 .. n : m + i \in 1 .. m + n /\ q[m + i] = b[i]
      /\ \A i \in 1 .. m + n : i \in 1 .. m \/ \E k \in 1 .. n : i = m + k
  BY <1>4, <1>1, <1>2, <1>3
<1> SUFFICES ASSUME NEW i \in 1 .. m + n, NEW j \in 1 .. m + n, q[i].url = q[j].url PROVE i = j
  BY <1>5, <1>1 DEF Unique
<1>6. CASE i \in 1 .. m /\ j \in 1 .. m BY <1>5, <1>6, <1>2 DEF Unique
<1>7. ASSUME NEW k \in 1 .. n, i = m + k, j \in 1 .. m PROVE FALSE
  <2>1. q[i] \in In(b) /\ q[j] \in In(a) BY <1>5, <1>7, <1>2, <1>3 DEF In
  <2> QED BY <2>1 DEF Apart
<1>8. ASSUME NEW k \in 1 .. n, j = m + k, i \in 1 .. m PROVE FALSE
  <2>1. q[j] \in In(b) /\ q[i] \in In(a) BY <1>5, <1>8, <1>2, <1>3 DEF In
  <2> QED BY <2>1 DEF Apart
<1>9. ASSUME NEW k \in 1 .. n, NEW l \in 1 .. n, i = m + k, j = m + l PROVE i = j
  <2>1. q[i] = b[k] /\ q[j] = b[l] BY <1>9, <1>5
  <2>2. k = l BY <2>1, <1>3 DEF Unique
  <2> QED BY <2>2, <1>9
<1> QED BY <1>5, <1>6, <1>7, <1>8, <1>9

(* Forgetting an address drops exactly its entry, *)
LEMMA ShorterWithout ==
    ASSUME NEW S, NEW es \in Seq(S), NEW u, Holding(es, u) # {}
    PROVE  Len(Without(es, u)) + 1 = Len(es) /\ Len(Without(es, u)) \in Nat
<1>1. PICK p : p = Place(es, u) OBVIOUS
<1>2. PICK n : n = Len(es) OBVIOUS
<1>3. p \in Nat /\ n \in Nat /\ 1 <= p /\ p <= n BY <1>1, <1>2, HoldingIn
<1>4. PICK h \in Nat : h + 1 = p BY <1>3
<1>5. PICK t \in Nat : t = p + 1 BY <1>3
<1>6. h = p - 1 /\ h \in 0 .. n /\ 1 \in 1 .. n + 1 /\ 1 <= h + 1
      /\ t \in 1 .. n + 1 /\ n \in 0 .. n /\ t <= n + 1
  BY <1>3, <1>4, <1>5
<1>7. PICK a : a = SubSeq(es, 1, h) OBVIOUS
<1>8. PICK b : b = SubSeq(es, t, n) OBVIOUS
<1>9. Without(es, u) = a \o b BY <1>1, <1>2, <1>5, <1>6, <1>7, <1>8 DEF Without, RemoveAt
<1>10. a \in Seq(S) /\ Len(a) = h + 1 - 1 BY <1>2, <1>6, <1>7, SubSeqIn
<1>11. b \in Seq(S) /\ Len(b) = n + 1 - t BY <1>2, <1>6, <1>8, SubSeqIn
<1>12. Len(a \o b) = Len(a) + Len(b) BY <1>10, <1>11, ConcatIn
<1>13. (h + 1 - 1) + (n + 1 - t) + 1 = n /\ (h + 1 - 1) + (n + 1 - t) \in Nat BY <1>3, <1>4, <1>5
<1> QED BY <1>2, <1>9, <1>10, <1>11, <1>12, <1>13

(* and no other. *)
LEMMA WithoutIn ==
    ASSUME NEW S, NEW es \in Seq(S), NEW u, Unique(es)
    PROVE  /\ Without(es, u) \in Seq(S) /\ Len(Without(es, u)) <= Len(es)
           /\ In(Without(es, u)) = {e \in In(es) : e.url # u}
           /\ Unique(Without(es, u)) /\ Holding(Without(es, u), u) = {}
<1>1. CASE Holding(es, u) = {}
  <2>1. Without(es, u) = es BY <1>1 DEF Without
  <2>2. \A e \in In(es) : e.url # u BY <1>1, HoldingIn
  <2> QED BY <2>1, <2>2, <1>1
<1>2. CASE Holding(es, u) # {}
  <2>1. PICK p : p = Place(es, u) OBVIOUS
  <2>2. PICK n : n = Len(es) OBVIOUS
  <2>3. p \in Nat /\ n \in Nat /\ 1 <= p /\ p <= n /\ es[p].url = u BY <1>2, <2>1, <2>2, HoldingIn
  <2>4. PICK h \in Nat : h + 1 = p BY <2>3
  <2>5. PICK t \in Nat : t = p + 1 BY <2>3
  <2>6. h = p - 1 /\ h \in 0 .. n /\ 1 \in 1 .. n + 1 /\ 1 <= h + 1
        /\ t \in 1 .. n + 1 /\ n \in 0 .. n /\ t <= n + 1
    BY <2>3, <2>4, <2>5
  <2>7. \A i : i \in 1 .. n /\ i # p <=> i \in 1 .. h \/ i \in t .. n BY <2>3, <2>4, <2>5
  <2>8. PICK a : a = SubSeq(es, 1, h) OBVIOUS
  <2>9. PICK b : b = SubSeq(es, t, n) OBVIOUS
  <2>10. Without(es, u) = a \o b BY <1>2, <2>1, <2>2, <2>5, <2>6, <2>8, <2>9 DEF Without, RemoveAt
  <2>11. a \in Seq(S) /\ In(a) = Part(es, 1, h) /\ Unique(a) BY <2>2, <2>6, <2>8, SubSeqIn, SubSeqUnique
  <2>12. b \in Seq(S) /\ In(b) = Part(es, t, n) /\ Unique(b) BY <2>2, <2>6, <2>9, SubSeqIn, SubSeqUnique
  <2>13. Apart(a, b)
    <3> SUFFICES ASSUME NEW i \in 1 .. h, NEW j \in t .. n PROVE es[i].url # es[j].url
      BY <2>11, <2>12 DEF Apart, Part
    <3>1. i \in 1 .. n /\ j \in 1 .. n /\ i # j BY <2>3, <2>4, <2>5
    <3> QED BY <3>1, <2>2 DEF Unique
  <2>14. PICK q : q = a \o b OBVIOUS
  <2>15. q \in Seq(S) /\ In(q) = In(a) \cup In(b) BY <2>11, <2>12, <2>14, ConcatIn
  <2>16. Unique(q) BY <2>11, <2>12, <2>13, <2>14, ConcatUnique
  <2>17. In(q) = {e \in In(es) : e.url # u}
    <3>1. ASSUME NEW e \in In(a) \cup In(b) PROVE e \in In(es) /\ e.url # u
      <4>1. PICK i : (i \in 1 .. h \/ i \in t .. n) /\ e = es[i] BY <2>11, <2>12, <3>1 DEF Part
      <4>2. i \in 1 .. n /\ i # p BY <4>1, <2>7
      <4> QED BY <4>1, <4>2, <2>2, <2>3 DEF In, Unique
    <3>2. ASSUME NEW e \in In(es), e.url # u PROVE e \in In(a) \cup In(b)
      <4>1. PICK i \in 1 .. n : e = es[i] BY <3>2, <2>2 DEF In
      <4>2. i # p BY <4>1, <3>2, <2>3
      <4>3. i \in 1 .. h \/ i \in t .. n BY <4>2, <2>7
      <4> QED BY <4>1, <4>3, <2>11, <2>12 DEF Part
    <3> QED BY <3>1, <3>2, <2>15
  <2>18. Len(q) <= Len(es)
    <3>1. Len(q) + 1 = Len(es) /\ Len(q) \in Nat BY <1>2, <2>10, <2>14, ShorterWithout
    <3> QED BY <3>1
  <2>19. Holding(q, u) = {}
    <3>1. \A e \in In(q) : e.url # u BY <2>17
    <3> QED BY <3>1, <2>15, HoldingIn
  <2> QED BY <2>10, <2>14, <2>15, <2>16, <2>17, <2>18, <2>19
<1> QED BY <1>1, <1>2

(* What is left once the oldest are evicted. *)
LEMMA NewestIn ==
    ASSUME NEW S, NEW es \in Seq(S), NEW room \in Nat, Unique(es)
    PROVE  /\ Newest(es, room) \in Seq(S) /\ Len(Newest(es, room)) <= room
           /\ Unique(Newest(es, room)) /\ In(Newest(es, room)) \subseteq In(es)
<1> PICK n : n = Len(es) OBVIOUS
<1>1. n \in Nat OBVIOUS
<1>2. CASE n <= room BY <1>2 DEF Newest
<1>3. CASE ~(n <= room)
  <2> PICK m : m = n - room + 1 OBVIOUS
  <2>1. m \in 1 .. n + 1 /\ n \in 0 .. n /\ m <= n + 1 BY <1>1, <1>3
  <2>2. Newest(es, room) = SubSeq(es, m, n) BY <1>3 DEF Newest
  <2>3. /\ SubSeq(es, m, n) \in Seq(S) /\ Len(SubSeq(es, m, n)) = n + 1 - m
        /\ In(SubSeq(es, m, n)) = Part(es, m, n) /\ Unique(SubSeq(es, m, n))
    BY <2>1, SubSeqIn, SubSeqUnique
  <2>4. Part(es, m, n) \subseteq In(es) BY <2>1, <1>1 DEF In, Part
  <2>5. n + 1 - m <= room BY <1>1
  <2> QED BY <2>2, <2>3, <2>4, <2>5
<1> QED BY <1>2, <1>3

(* The one entry of an address. *)
LEMMA OnlyIn ==
    ASSUME NEW S, NEW es \in Seq(S), NEW u, Unique(es)
    PROVE  /\ Only(es, u) \in Seq(S) /\ In(Only(es, u)) = {e \in In(es) : e.url = u}
           /\ Unique(Only(es, u)) /\ Len(Only(es, u)) <= 1
           /\ Holding(es, u) # {} => Len(Without(es, u)) + Len(Only(es, u)) <= Len(es)
<1>1. CASE Holding(es, u) = {}
  <2>1. Only(es, u) = <<>> BY <1>1 DEF Only
  <2>2. \A e \in In(es) : e.url # u BY <1>1, HoldingIn
  <2> QED BY <2>1, <2>2, <1>1 DEF In, Unique
<1>2. CASE Holding(es, u) # {}
  <2> PICK p : p = Place(es, u) OBVIOUS
  <2>1. p \in 1 .. Len(es) /\ es[p].url = u /\ Len(es) \in Nat BY <1>2, HoldingIn
  <2>2. Only(es, u) = <<es[p]>> BY <1>2 DEF Only
  <2> PICK e : e = es[p] OBVIOUS
  <2>3. e \in S /\ e \in In(es) BY <2>1 DEF In
  <2>4. <<e>> \in Seq(S) /\ In(<<e>>) = {e} /\ Len(<<e>>) = 1 /\ Unique(<<e>>) BY <2>3 DEF In, Unique
  <2>5. \A d \in In(es) : d.url = u => d = e BY <2>1 DEF In, Unique
  <2>6. {d \in In(es) : d.url = u} = {e} BY <2>3, <2>5, <2>1
  <2>7. In(Only(es, u)) = {d \in In(es) : d.url = u} BY <2>2, <2>4, <2>6
  <2>8. Len(Without(es, u)) + 1 <= Len(es) BY <1>2, ShorterWithout
  <2>9. Only(es, u) \in Seq(S) /\ Unique(Only(es, u)) /\ Len(Only(es, u)) = 1 BY <2>2, <2>4
  <2> QED BY <2>7, <2>8, <2>9, <1>2
<1> QED BY <1>1, <1>2

Listing == [url : Url, file : FileName]

(* A queue with more jobs at its end leaves alone what both parts do. *)
LEMMA UntouchedMore ==
    ASSUME NEW js \in Seq(Job), NEW rs \in Seq(Job), NEW n, NEW i \in 0 .. Len(js)
    PROVE  Untouched(js \o rs, n, i) <=> Untouched(js, n, i) /\ \A k \in 1 .. Len(rs) : ~Touches(rs[k], n)
<1>1. PICK q : q = js \o rs OBVIOUS
<1>2. PICK a : a = Len(js) OBVIOUS
<1>3. PICK b : b = Len(rs) OBVIOUS
<1>4. /\ q \in Seq(Job) /\ Len(q) = a + b
      /\ \A k \in 1 .. a : k \in 1 .. a + b /\ q[k] = js[k]
      /\ \A k \in 1 .. b : a + k \in 1 .. a + b /\ q[a + k] = rs[k]
      /\ \A k \in 1 .. a + b : k \in 1 .. a \/ \E l \in 1 .. b : k = a + l
  BY <1>1, <1>2, <1>3, ConcatPlaces
<1>5. DOMAIN q = 1 .. a + b /\ DOMAIN js = 1 .. a /\ a \in Nat /\ b \in Nat BY <1>2, <1>3, <1>4
<1>6. ASSUME Untouched(q, n, i) PROVE Untouched(js, n, i) /\ \A k \in 1 .. b : ~Touches(rs[k], n)
  <2>1. \A k \in 1 .. a : k > i => ~Touches(js[k], n) BY <1>4, <1>5, <1>6 DEF Untouched
  <2>2. ASSUME NEW k \in 1 .. b PROVE ~Touches(rs[k], n)
    <3>1. a + k > i BY <1>2, <1>5
    <3> QED BY <3>1, <1>4, <1>5, <1>6 DEF Untouched
  <2> QED BY <2>1, <2>2, <1>5 DEF Untouched
<1>7. ASSUME Untouched(js, n, i), \A k \in 1 .. b : ~Touches(rs[k], n) PROVE Untouched(q, n, i)
  <2> SUFFICES ASSUME NEW k \in 1 .. a + b, k > i PROVE ~Touches(q[k], n) BY <1>5 DEF Untouched
  <2>1. CASE k \in 1 .. a BY <2>1, <1>4, <1>5, <1>7 DEF Untouched
  <2>2. ASSUME NEW l \in 1 .. b, k = a + l PROVE ~Touches(q[k], n) BY <2>2, <1>4, <1>7
  <2> QED BY <2>1, <2>2, <1>4
<1> QED BY <1>1, <1>3, <1>6, <1>7

(* What a queue ends in, once removals are added to it, *)
LEMMA EndsRemoved ==
    ASSUME NEW js \in Seq(Job), NEW rs \in Seq(Job), \A k \in 1 .. Len(rs) : rs[k].op = "Remove",
           NEW n, NEW u
    PROVE  Ends(js \o rs, n, u) <=> Ends(js, n, u) /\ \A k \in 1 .. Len(rs) : ~Touches(rs[k], n)
<1>1. PICK q : q = js \o rs OBVIOUS
<1>2. PICK a : a = Len(js) OBVIOUS
<1>3. PICK b : b = Len(rs) OBVIOUS
<1>4. /\ q \in Seq(Job) /\ Len(q) = a + b
      /\ \A k \in 1 .. a : k \in 1 .. a + b /\ q[k] = js[k]
      /\ \A k \in 1 .. b : a + k \in 1 .. a + b /\ q[a + k] = rs[k]
      /\ \A k \in 1 .. a + b : k \in 1 .. a \/ \E l \in 1 .. b : k = a + l
  BY <1>1, <1>2, <1>3, ConcatPlaces
<1>5. DOMAIN q = 1 .. a + b /\ DOMAIN js = 1 .. a /\ a \in Nat BY <1>2, <1>4
<1>6. PICK free : free = \A k \in 1 .. b : ~Touches(rs[k], n) OBVIOUS
<1>7. \A i \in 0 .. a : Untouched(q, n, i) <=> Untouched(js, n, i) /\ free
  BY <1>1, <1>2, <1>3, <1>6, UntouchedMore
<1>8. 0 \in 0 .. a /\ \A i \in 1 .. a : i \in 0 .. a BY <1>5
<1>9. \A i \in 1 .. a + b : q[i].op = "Write" => i \in 1 .. a
  <2> SUFFICES ASSUME NEW i \in 1 .. a + b, i \notin 1 .. a PROVE q[i].op # "Write" OBVIOUS
  <2>1. PICK l \in 1 .. b : i = a + l BY <1>4
  <2>2. q[i] = rs[l] BY <2>1, <1>4
  <2> QED BY <2>2, <1>3
<1>10. ASSUME Ends(q, n, u) PROVE Ends(js, n, u) /\ free
  <2>1. CASE files[n] # None /\ files[n].whole /\ files[n].stored.url = u /\ Untouched(q, n, 0)
    BY <2>1, <1>7, <1>8 DEF Ends
  <2>2. ASSUME NEW i \in 1 .. a + b, q[i].op = "Write", q[i].stored.url = u, n = FileOf(u), Untouched(q, n, i)
        PROVE  Ends(js, n, u) /\ free
    <3>1. i \in 1 .. a BY <2>2, <1>9
    <3>2. Untouched(js, n, i) /\ free BY <2>2, <3>1, <1>7, <1>8
    <3>3. js[i] = q[i] BY <3>1, <1>4
    <3> QED BY <2>2, <3>1, <3>2, <3>3, <1>5 DEF Ends
  <2> QED BY <2>1, <2>2, <1>5, <1>10 DEF Ends
<1>11. ASSUME Ends(js, n, u), free PROVE Ends(q, n, u)
  <2>1. CASE files[n] # None /\ files[n].whole /\ files[n].stored.url = u /\ Untouched(js, n, 0)
    BY <2>1, <1>7, <1>8, <1>11 DEF Ends
  <2>2. ASSUME NEW i \in 1 .. a, js[i].op = "Write", js[i].stored.url = u, n = FileOf(u), Untouched(js, n, i)
        PROVE  Ends(q, n, u)
    <3>1. Untouched(q, n, i) BY <2>2, <1>7, <1>8, <1>11
    <3>2. js[i] = q[i] /\ i \in 1 .. a + b BY <1>4
    <3> QED BY <2>2, <3>1, <3>2, <1>5 DEF Ends
  <2> QED BY <2>1, <2>2, <1>5, <1>11 DEF Ends
<1> QED BY <1>1, <1>3, <1>6, <1>10, <1>11

(* or a write is. *)
LEMMA EndsWritten ==
    ASSUME NEW js \in Seq(Job), NEW w \in Job, w.op = "Write", NEW n, NEW u
    PROVE  Ends(Append(js, w), n, u) <=>
               \/ Ends(js, n, u) /\ ~Touches(w, n)
               \/ w.stored.url = u /\ n = FileOf(u)
<1>1. PICK q : q = Append(js, w) OBVIOUS
<1>2. PICK a : a = Len(js) OBVIOUS
<1>3. /\ q \in Seq(Job) /\ Len(q) = a + 1 /\ a \in Nat
      /\ \A k \in 1 .. a : q[k] = js[k]
      /\ q[a + 1] = w
  BY <1>1, <1>2, AppendProperties
<1>4. \A k : k \in 1 .. a + 1 <=> k \in 1 .. a \/ k = a + 1 BY <1>3
<1>5. DOMAIN q = 1 .. a + 1 /\ DOMAIN js = 1 .. a BY <1>2, <1>3
<1>6. \A i \in 0 .. a : Untouched(q, n, i) <=> Untouched(js, n, i) /\ ~Touches(w, n)
  <2> SUFFICES ASSUME NEW i \in 0 .. a
               PROVE Untouched(q, n, i) <=> Untouched(js, n, i) /\ ~Touches(w, n)
    OBVIOUS
  <2>1. Untouched(q, n, i) <=> \A k \in 1 .. a + 1 : k > i => ~Touches(q[k], n) BY <1>5 DEF Untouched
  <2>2. Untouched(js, n, i) <=> \A k \in 1 .. a : k > i => ~Touches(js[k], n) BY <1>5 DEF Untouched
  <2>3. a + 1 > i BY <1>3
  <2> QED BY <2>1, <2>2, <2>3, <1>3, <1>4
<1>7. Untouched(q, n, a + 1)
  <2>1. \A k \in 1 .. a + 1 : ~(k > a + 1) BY <1>3
  <2> QED BY <2>1, <1>5 DEF Untouched
<1>8. 0 \in 0 .. a /\ \A i \in 1 .. a : i \in 0 .. a BY <1>3
<1>9. ASSUME Ends(q, n, u), ~(w.stored.url = u /\ n = FileOf(u)) PROVE Ends(js, n, u) /\ ~Touches(w, n)
  <2>1. CASE files[n] # None /\ files[n].whole /\ files[n].stored.url = u /\ Untouched(q, n, 0)
    BY <2>1, <1>6, <1>8 DEF Ends
  <2>2. ASSUME NEW i \in 1 .. a + 1, q[i].op = "Write", q[i].stored.url = u, n = FileOf(u), Untouched(q, n, i)
        PROVE  Ends(js, n, u) /\ ~Touches(w, n)
    <3>1. i \in 1 .. a BY <2>2, <1>3, <1>4, <1>9
    <3>2. Untouched(js, n, i) /\ ~Touches(w, n) BY <2>2, <3>1, <1>6, <1>8
    <3>3. js[i] = q[i] BY <3>1, <1>3
    <3> QED BY <2>2, <3>1, <3>2, <3>3, <1>5 DEF Ends
  <2> QED BY <2>1, <2>2, <1>5, <1>9 DEF Ends
<1>10. ASSUME Ends(js, n, u), ~Touches(w, n) PROVE Ends(q, n, u)
  <2>1. CASE files[n] # None /\ files[n].whole /\ files[n].stored.url = u /\ Untouched(js, n, 0)
    BY <2>1, <1>6, <1>8, <1>10 DEF Ends
  <2>2. ASSUME NEW i \in 1 .. a, js[i].op = "Write", js[i].stored.url = u, n = FileOf(u), Untouched(js, n, i)
        PROVE  Ends(q, n, u)
    <3>1. Untouched(q, n, i) BY <2>2, <1>6, <1>8, <1>10
    <3>2. js[i] = q[i] /\ i \in 1 .. a + 1 BY <1>3, <1>4
    <3> QED BY <2>2, <3>1, <3>2, <1>5 DEF Ends
  <2> QED BY <2>1, <2>2, <1>5, <1>10 DEF Ends
<1>11. ASSUME w.stored.url = u, n = FileOf(u) PROVE Ends(q, n, u)
  <2>1. a + 1 \in 1 .. a + 1 BY <1>3
  <2> QED BY <2>1, <1>3, <1>5, <1>7, <1>11 DEF Ends
<1> QED BY <1>1, <1>9, <1>10, <1>11

(* The removals of some listings touch the files of those, and no other. *)
LEMMA RemovalsAre ==
    ASSUME NEW es \in Seq(Listing)
    PROVE  /\ Removals(es) \in Seq(Job)
           /\ \A k \in 1 .. Len(Removals(es)) : Removals(es)[k].op = "Remove"
           /\ \A n : (\A k \in 1 .. Len(Removals(es)) : ~Touches(Removals(es)[k], n))
                     <=> \A e \in In(es) : e.file # n
<1>1. PICK m : m = Len(es) OBVIOUS
<1>2. m \in Nat /\ \A i \in 1 .. m : es[i] \in Listing BY <1>1
<1>3. PICK rs : rs = [i \in 1 .. m |-> [op |-> "Remove", file |-> es[i].file]] OBVIOUS
<1>4. Removals(es) = rs BY <1>1, <1>3 DEF Removals
<1>5. \A i \in 1 .. m : rs[i] \in Job /\ rs[i].op = "Remove" /\ rs[i].file = es[i].file
  BY <1>2, <1>3 DEF Listing, Job
<1>6. rs \in Seq(Job) /\ Len(rs) = m
  <2>1. rs = [i \in 1 .. m |-> rs[i]] BY <1>3
  <2>2. rs \in [1 .. m -> Job] BY <1>5, <2>1
  <2> QED BY <2>2, <1>2, IsASeq, LenProperties
<1>7. \A n, i : i \in 1 .. m => (Touches(rs[i], n) <=> es[i].file = n) BY <1>5 DEF Touches
<1>8. ASSUME NEW n PROVE (\A k \in 1 .. m : ~Touches(rs[k], n)) <=> \A e \in In(es) : e.file # n
  <2>1. \A k \in 1 .. m : Touches(rs[k], n) <=> es[k].file = n BY <1>7
  <2>2. In(es) = {es[k] : k \in 1 .. m} BY <1>1 DEF In
  <2> QED BY <2>1, <2>2
<1> QED BY <1>4, <1>5, <1>6, <1>8

LEMMA EndsRemovals ==
    ASSUME NEW js \in Seq(Job), NEW es \in Seq(Listing), NEW n, NEW u
    PROVE  Ends(js \o Removals(es), n, u) <=> Ends(js, n, u) /\ \A e \in In(es) : e.file # n
<1>1. PICK rs : rs = Removals(es) OBVIOUS
<1>2. rs \in Seq(Job) /\ \A k \in 1 .. Len(rs) : rs[k].op = "Remove" BY <1>1, RemovalsAre
<1>3. (\A k \in 1 .. Len(rs) : ~Touches(rs[k], n)) <=> \A e \in In(es) : e.file # n BY <1>1, RemovalsAre
<1>4. Ends(js \o rs, n, u) <=> Ends(js, n, u) /\ \A k \in 1 .. Len(rs) : ~Touches(rs[k], n)
  BY <1>2, EndsRemoved
<1> QED BY <1>1, <1>3, <1>4

(* How many writes a queue has, once it has more jobs or fewer. *)
LEMMA QueuedLess ==
    ASSUME NEW js \in Seq(Job)
    PROVE  /\ Queued(js) \in Nat
           /\ IsFiniteSet({i \in 1 .. Len(js) : js[i].op = "Write"})
           /\ Queued(js) = Cardinality({i \in 1 .. Len(js) : js[i].op = "Write"})
<1>1. IsFiniteSet(1 .. Len(js)) BY FS_Interval
<1>2. PICK W : W = {i \in 1 .. Len(js) : js[i].op = "Write"} OBVIOUS
<1>3. W \subseteq 1 .. Len(js) BY <1>2
<1>4. IsFiniteSet(W) /\ Cardinality(W) \in Nat BY <1>1, <1>3, FS_Subset, FS_CardinalityType
<1>5. Queued(js) = Cardinality(W)
  <2>1. DOMAIN js = 1 .. Len(js) OBVIOUS
  <2>2. W = {i \in DOMAIN js : js[i].op = "Write"} BY <1>2, <2>1
  <2> QED BY <2>2 DEF Queued
<1> QED BY <1>2, <1>4, <1>5

LEMMA QueuedRemoved ==
    ASSUME NEW js \in Seq(Job), NEW rs \in Seq(Job), \A k \in 1 .. Len(rs) : rs[k].op = "Remove"
    PROVE  Queued(js \o rs) = Queued(js)
<1>1. PICK q : q = js \o rs OBVIOUS
<1>2. PICK a : a = Len(js) OBVIOUS
<1>3. PICK b : b = Len(rs) OBVIOUS
<1>4. /\ q \in Seq(Job) /\ Len(q) = a + b
      /\ \A k \in 1 .. a : k \in 1 .. a + b /\ q[k] = js[k]
      /\ \A k \in 1 .. b : a + k \in 1 .. a + b /\ q[a + k] = rs[k]
      /\ \A k \in 1 .. a + b : k \in 1 .. a \/ \E l \in 1 .. b : k = a + l
  BY <1>1, <1>2, <1>3, ConcatPlaces
<1>5. \A i : i \in 1 .. a + b /\ q[i].op = "Write" <=> i \in 1 .. a /\ js[i].op = "Write"
  <2>1. ASSUME NEW i \in 1 .. a + b, q[i].op = "Write" PROVE i \in 1 .. a /\ js[i].op = "Write"
    <3>1. ASSUME NEW l \in 1 .. b, i = a + l PROVE FALSE BY <2>1, <3>1, <1>3, <1>4
    <3>2. i \in 1 .. a BY <3>1, <1>4
    <3> QED BY <3>2, <2>1, <1>4
  <2> QED BY <2>1, <1>4
<1>6. {i \in DOMAIN q : q[i].op = "Write"} = {i \in DOMAIN js : js[i].op = "Write"}
  <2>1. DOMAIN q = 1 .. a + b /\ DOMAIN js = 1 .. a BY <1>2, <1>4
  <2> QED BY <2>1, <1>5
<1> QED BY <1>1, <1>6 DEF Queued

LEMMA QueuedWritten ==
    ASSUME NEW js \in Seq(Job), NEW w \in Job
    PROVE  Queued(Append(js, w)) <= Queued(js) + 1
<1>1. PICK q : q = Append(js, w) OBVIOUS
<1>2. PICK a : a = Len(js) OBVIOUS
<1>3. /\ q \in Seq(Job) /\ Len(q) = a + 1 /\ a \in Nat
      /\ \A k \in 1 .. a : q[k] = js[k]
  BY <1>1, <1>2, AppendProperties
<1>4. PICK W : W = {i \in 1 .. a : js[i].op = "Write"} OBVIOUS
<1>5. PICK V : V = {i \in 1 .. a + 1 : q[i].op = "Write"} OBVIOUS
<1>6. IsFiniteSet(W) /\ Queued(js) = Cardinality(W) /\ Cardinality(W) \in Nat BY <1>2, <1>4, QueuedLess
<1>7. IsFiniteSet(V) /\ Queued(q) = Cardinality(V) /\ Cardinality(V) \in Nat BY <1>3, <1>5, QueuedLess
<1>8. PICK n : n = a + 1 OBVIOUS
<1>9. n \notin W BY <1>3, <1>4, <1>8
<1>10. PICK U : U = W \cup {n} OBVIOUS
<1>11. IsFiniteSet(U) /\ Cardinality(U) = Cardinality(W) + 1 BY <1>6, <1>9, <1>10, FS_AddElement
<1>12. V \subseteq U
  <2> SUFFICES ASSUME NEW i \in V PROVE i \in U OBVIOUS
  <2>1. i \in 1 .. a + 1 /\ q[i].op = "Write" BY <1>5
  <2>2. i \in 1 .. a \/ i = n BY <2>1, <1>3, <1>8
  <2> QED BY <2>1, <2>2, <1>3, <1>4, <1>10
<1>13. Cardinality(V) <= Cardinality(U) BY <1>11, <1>12, FS_Subset
<1> QED BY <1>1, <1>6, <1>7, <1>11, <1>13

LEMMA QueuedTail ==
    ASSUME NEW js \in Seq(Job), js # <<>>
    PROVE  Queued(Tail(js)) <= Queued(js)
<1>1. PICK q : q = Tail(js) OBVIOUS
<1>2. PICK a : a = Len(js) OBVIOUS
<1>3. /\ q \in Seq(Job) /\ Len(q) = a - 1 /\ a \in Nat /\ a > 0
      /\ \A k \in 1 .. a - 1 : q[k] = js[k + 1]
  BY <1>1, <1>2, HeadTailProperties, LenProperties, EmptySeq
<1>4. PICK W : W = {i \in 1 .. a : js[i].op = "Write"} OBVIOUS
<1>5. PICK V : V = {i \in 1 .. a - 1 : q[i].op = "Write"} OBVIOUS
<1>6. IsFiniteSet(W) /\ Queued(js) = Cardinality(W) /\ Cardinality(W) \in Nat BY <1>2, <1>4, QueuedLess
<1>7. IsFiniteSet(V) /\ Queued(q) = Cardinality(V) /\ Cardinality(V) \in Nat BY <1>3, <1>5, QueuedLess
<1>8. PICK f : f = [i \in V |-> i + 1] OBVIOUS
<1>9. f \in Injection(V, W)
  <2>1. \A i \in V : i + 1 \in W BY <1>3, <1>4, <1>5
  <2>2. \A i, j \in V : i + 1 = j + 1 => i = j BY <1>5
  <2> QED BY <2>1, <2>2, <1>8 DEF Injection, IsInjective
<1>10. Cardinality(V) <= Cardinality(W) BY <1>6, <1>9, FS_Injection
<1> QED BY <1>1, <1>6, <1>7, <1>10

(* The names under which a response of an address can lie, *)
Names(u) == {FileOf(u), TempOf(u)}

(* the type of the disk tier, *)
DiskFits(d) ==
    /\ d \in [index : Seq(Listing), jobs : Seq(Job)]
    /\ Unique(d.index) /\ Queued(d.jobs) <= QueueRoom
(* and how the index agrees with what the queue ends in. *)
Named(d) == \A e \in In(d.index) : e.file \in Names(e.url)
Backed(d) == \A e \in In(d.index) : Alone(e.url) => Ends(d.jobs, e.file, e.url)
Exact(d) == \A e \in In(d.index) : e.file = FileOf(e.url)
NoGhost(d) == \A n \in FileName, u \in Url :
                  Ends(d.jobs, n, u) => n = FileOf(u) /\ Holding(d.index, u) # {}

(* What a change of the disk tier from d to c carries over. The first job stays
   where it is, since the writing thread is at it. *)
Carries(d, c) ==
    /\ d.jobs # <<>> => c.jobs # <<>> /\ c.jobs[1] = d.jobs[1]
    /\ Named(d) => Named(c)
    /\ Named(d) /\ Backed(d) => Backed(c)
    /\ Exact(d) => Exact(c)
    /\ Exact(d) /\ NoGhost(d) => NoGhost(c)

LEMMA CarriesOn ==
    ASSUME NEW a, NEW b, NEW c, Carries(a, b), Carries(b, c)
    PROVE  Carries(a, c)
BY DEF Carries

LEMMA NamesApart ==
    ASSUME NEW u, NEW v, u \in Url, v \in Url, u # v, Alone(v)
    PROVE  \A f \in Names(v), g \in Names(u) : f # g
<1>1. nameOf[u] # nameOf[v] BY DEF Alone
<1> QED BY <1>1 DEF Names, FileOf, TempOf

LEMMA InListing ==
    ASSUME NEW es \in Seq(Listing)
    PROVE  \A e \in In(es) : e \in Listing /\ e.url \in Url /\ e.file \in FileName
<1>1. \A e \in In(es) : e \in Listing BY DEF In
<1> QED BY <1>1 DEF Listing

(* Dropping listings and removing their files carries over all of it, *)
LEMMA Dropped ==
    ASSUME NEW d, DiskFits(d), NEW kept \in Seq(Listing), NEW dropped \in Seq(Listing),
           In(kept) \cup In(dropped) = In(d.index), Apart(kept, dropped), Unique(kept)
    PROVE  /\ DiskFits([index |-> kept, jobs |-> d.jobs \o Removals(dropped)])
           /\ Carries(d, [index |-> kept, jobs |-> d.jobs \o Removals(dropped)])
<1>1. PICK rs : rs = Removals(dropped) OBVIOUS
<1>2. PICK js : js = d.jobs \o rs OBVIOUS
<1>3. PICK c : c = [index |-> kept, jobs |-> js] OBVIOUS
<1>4. c.index = kept /\ c.jobs = js BY <1>3
<1>5. rs \in Seq(Job) /\ \A k \in 1 .. Len(rs) : rs[k].op = "Remove" BY <1>1, RemovalsAre
<1>6. d.index \in Seq(Listing) /\ d.jobs \in Seq(Job) BY DEF DiskFits
<1>7. js \in Seq(Job) BY <1>2, <1>5, <1>6, ConcatIn
<1>8. Queued(js) = Queued(d.jobs) BY <1>2, <1>5, <1>6, QueuedRemoved
<1>9. DiskFits(c) BY <1>3, <1>4, <1>7, <1>8 DEF DiskFits
<1>10. \A n, u : Ends(js, n, u) <=> Ends(d.jobs, n, u) /\ \A e \in In(dropped) : e.file # n
  BY <1>1, <1>2, <1>6, EndsRemovals
<1>11. \A e \in In(kept) : e \in In(d.index) OBVIOUS
<1>12. \A e \in In(d.index) : e.url \in Url BY <1>6, InListing
<1>13. Named(d) => Named(c) BY <1>4, <1>11 DEF Named
<1>14. Exact(d) => Exact(c) BY <1>4, <1>11 DEF Exact
<1>15. ASSUME Named(d), Backed(d) PROVE Backed(c)
  <2> SUFFICES ASSUME NEW e \in In(kept), Alone(e.url) PROVE Ends(js, e.file, e.url)
    BY <1>4 DEF Backed
  <2>1. Ends(d.jobs, e.file, e.url) BY <1>15, <1>11 DEF Backed
  <2>2. ASSUME NEW f \in In(dropped) PROVE f.file # e.file
    <3>1. f \in In(d.index) /\ e \in In(d.index) /\ f.url # e.url BY <2>2 DEF Apart
    <3>2. f.file \in Names(f.url) /\ e.file \in Names(e.url) BY <3>1, <1>15 DEF Named
    <3>3. f.url \in Url /\ e.url \in Url BY <3>1, <1>12
    <3> QED BY <3>1, <3>2, <3>3, NamesApart
  <2> QED BY <2>1, <2>2, <1>10
<1>16. ASSUME Exact(d), NoGhost(d) PROVE NoGhost(c)
  <2> SUFFICES ASSUME NEW n \in FileName, NEW u \in Url, Ends(js, n, u)
               PROVE  n = FileOf(u) /\ Holding(kept, u) # {}
    BY <1>4 DEF NoGhost
  <2>1. Ends(d.jobs, n, u) /\ \A e \in In(dropped) : e.file # n BY <1>10
  <2>2. n = FileOf(u) /\ Holding(d.index, u) # {} BY <2>1, <1>16 DEF NoGhost
  <2>3. PICK e \in In(d.index) : e.url = u BY <2>2, <1>6, HoldingIn
  <2>4. e.file = n BY <2>2, <2>3, <1>16 DEF Exact
  <2>5. e \in In(kept) BY <2>1, <2>3, <2>4
  <2> QED BY <2>2, <2>3, <2>5, HoldingIn
<1>17. ASSUME d.jobs # <<>> PROVE c.jobs # <<>> /\ c.jobs[1] = d.jobs[1]
  <2>1. 1 \in 1 .. Len(d.jobs) BY <1>6, <1>17, LenProperties, EmptySeq
  <2>2. 1 \in 1 .. Len(d.jobs) + Len(rs) /\ js[1] = d.jobs[1] /\ Len(js) = Len(d.jobs) + Len(rs)
    BY <2>1, <1>2, <1>5, <1>6, ConcatPlaces
  <2>3. js # <<>> BY <2>2
  <2> QED BY <2>2, <2>3, <1>4
<1>18. Carries(d, c) BY <1>13, <1>14, <1>15, <1>16, <1>17 DEF Carries
<1> QED BY <1>1, <1>2, <1>3, <1>9, <1>18

(* so forgetting an address does, *)
LEMMA ForgetKeeps ==
    ASSUME NEW d, DiskFits(d), NEW u \in Url
    PROVE  /\ DiskFits(Forget(d, u)) /\ Carries(d, Forget(d, u))
           /\ Len(Forget(d, u).index) <= Len(d.index)
<1>1. PICK kept : kept = Without(d.index, u) OBVIOUS
<1>2. PICK dropped : dropped = Only(d.index, u) OBVIOUS
<1>3. d.index \in Seq(Listing) /\ Unique(d.index) BY DEF DiskFits
<1>4. /\ kept \in Seq(Listing) /\ In(kept) = {e \in In(d.index) : e.url # u} /\ Unique(kept)
      /\ Len(kept) <= Len(d.index)
  BY <1>1, <1>3, WithoutIn
<1>5. dropped \in Seq(Listing) /\ In(dropped) = {e \in In(d.index) : e.url = u}
  BY <1>2, <1>3, OnlyIn
<1>6. In(kept) \cup In(dropped) = In(d.index) /\ Apart(kept, dropped) BY <1>4, <1>5 DEF Apart
<1>7. PICK c : c = [index |-> kept, jobs |-> d.jobs \o Removals(dropped)] OBVIOUS
<1>8. DiskFits(c) /\ Carries(d, c) BY <1>4, <1>5, <1>6, <1>7, Dropped
<1>9. Forget(d, u) = c /\ c.index = kept BY <1>1, <1>2, <1>7 DEF Forget
<1> QED BY <1>4, <1>8, <1>9

(* and making room does. *)
LEMMA MakeRoomKeeps ==
    ASSUME NEW d, DiskFits(d)
    PROVE  /\ DiskFits(MakeRoom(d)) /\ Carries(d, MakeRoom(d))
           /\ Len(MakeRoom(d).index) <= DiskRoom
<1>1. PICK es : es = d.index OBVIOUS
<1>2. PICK n : n = Len(es) OBVIOUS
<1>3. es \in Seq(Listing) /\ Unique(es) /\ n \in Nat BY <1>1, <1>2 DEF DiskFits
<1>4. DiskRoom \in Nat BY CacheAssumption
<1>5. PICK over : over = IF n > DiskRoom THEN n - DiskRoom ELSE 0 OBVIOUS
<1>6. PICK kept : kept = Newest(es, DiskRoom) OBVIOUS
<1>7. PICK dropped : dropped = SubSeq(es, 1, over) OBVIOUS
<1>8. kept \in Seq(Listing) /\ Unique(kept) /\ Len(kept) <= DiskRoom BY <1>3, <1>4, <1>6, NewestIn
<1>9. over \in 0 .. n /\ over \in Nat /\ 1 \in 1 .. n + 1 /\ 1 <= over + 1 BY <1>3, <1>4, <1>5
<1>10. dropped \in Seq(Listing) /\ In(dropped) = Part(es, 1, over) BY <1>2, <1>3, <1>7, <1>9, SubSeqIn
<1>11. In(kept) = Part(es, over + 1, n)
  <2>1. CASE n <= DiskRoom
    <3>1. kept = es /\ over = 0 BY <2>1, <1>2, <1>3, <1>4, <1>5, <1>6 DEF Newest
    <3> QED BY <3>1, <1>2 DEF In, Part
  <2>2. CASE ~(n <= DiskRoom)
    <3>1. PICK m : m = n - DiskRoom + 1 OBVIOUS
    <3>2. m \in 1 .. n + 1 /\ n \in 0 .. n /\ m <= n + 1 /\ over + 1 = m BY <2>2, <3>1, <1>3, <1>4, <1>5
    <3>3. kept = SubSeq(es, m, n) BY <2>2, <3>1, <1>2, <1>6 DEF Newest
    <3> QED BY <3>2, <3>3, <1>2, <1>3, SubSeqIn
  <2> QED BY <2>1, <2>2
<1>12. \A i : i \in 1 .. n <=> i \in 1 .. over \/ i \in over + 1 .. n BY <1>3, <1>9
<1>13. In(kept) \cup In(dropped) = In(es) BY <1>2, <1>10, <1>11, <1>12 DEF In, Part
<1>14. Apart(kept, dropped)
  <2> SUFFICES ASSUME NEW i \in over + 1 .. n, NEW j \in 1 .. over PROVE es[i].url # es[j].url
    BY <1>10, <1>11 DEF Apart, Part
  <2>1. i \in 1 .. n /\ j \in 1 .. n /\ i # j BY <1>3, <1>9
  <2> QED BY <2>1, <1>2, <1>3 DEF Unique
<1>15. PICK c : c = [index |-> kept, jobs |-> d.jobs \o Removals(dropped)] OBVIOUS
<1>16. DiskFits(c) /\ Carries(d, c) BY <1>1, <1>8, <1>10, <1>13, <1>14, <1>15, Dropped
<1>17. MakeRoom(d) = c /\ c.index = kept BY <1>1, <1>2, <1>5, <1>6, <1>7, <1>15 DEF MakeRoom
<1> QED BY <1>8, <1>16, <1>17

LEMMA FilesHaveNames ==
    ASSUME nameOf \in [Url -> Hash], NEW u \in Url
    PROVE  FileOf(u) \in FileName /\ TempOf(u) \in FileName /\ FileOf(u) # TempOf(u)
BY DEF FileOf, TempOf, FileName

(* Listing an address again and writing its file does too. *)
LEMMA WriteKeeps ==
    ASSUME nameOf \in [Url -> Hash], NEW d, DiskFits(d), NEW e \in Stored, Len(d.index) <= DiskRoom
    PROVE  /\ DiskFits(Write(d, e)) /\ Carries(d, Write(d, e))
           /\ Len(Write(d, e).index) <= DiskRoom
<1>1. CASE ~attached \/ Queued(d.jobs) + 1 > QueueRoom
  <2>1. Write(d, e) = d BY <1>1 DEF Write
  <2>2. Carries(d, d) BY DEF Carries
  <2> QED BY <2>1, <2>2
<1>2. CASE attached /\ ~(Queued(d.jobs) + 1 > QueueRoom)
  <2>1. PICK u : u = e.url OBVIOUS
  <2>2. PICK listing : listing = [url |-> u, file |-> FileOf(u)] OBVIOUS
  <2>3. PICK rest : rest = Without(d.index, u) OBVIOUS
  <2>4. PICK listed : listed = Append(rest, listing) OBVIOUS
  <2>5. PICK w : w = [op |-> "Write", stored |-> e] OBVIOUS
  <2>6. PICK js : js = Append(d.jobs, w) OBVIOUS
  <2>7. PICK c : c = [index |-> listed, jobs |-> js] OBVIOUS
  <2>8. Write(d, e) = MakeRoom(c) BY <1>2, <2>1, <2>2, <2>3, <2>4, <2>5, <2>6, <2>7 DEF Write
  <2>9. u \in Url BY <2>1 DEF Stored
  <2>10. listing \in Listing /\ listing.url = u /\ listing.file = FileOf(u)
    BY <2>2, <2>9, FilesHaveNames DEF Listing
  <2>11. w \in Job /\ w.op = "Write" /\ w.stored = e BY <2>5 DEF Job
  <2>12. d.index \in Seq(Listing) /\ Unique(d.index) /\ d.jobs \in Seq(Job) BY DEF DiskFits
  <2>13. rest \in Seq(Listing) /\ Unique(rest) /\ Holding(rest, u) = {}
         /\ In(rest) = {x \in In(d.index) : x.url # u}
    BY <2>3, <2>12, WithoutIn
  <2>14. listed \in Seq(Listing) /\ In(listed) = In(rest) \cup {listing} /\ Unique(listed)
    BY <2>4, <2>10, <2>13, AppendIn
  <2>15. js \in Seq(Job) BY <2>6, <2>11, <2>12, AppendProperties
  <2>16. Queued(js) <= QueueRoom
    <3>1. Queued(js) <= Queued(d.jobs) + 1 BY <2>6, <2>11, <2>12, QueuedWritten
    <3>2. Queued(js) \in Nat /\ Queued(d.jobs) \in Nat BY <2>12, <2>15, QueuedLess
    <3>3. QueueRoom \in Nat BY CacheAssumption
    <3> QED BY <1>2, <3>1, <3>2, <3>3
  <2>17. DiskFits(c) BY <2>7, <2>14, <2>15, <2>16 DEF DiskFits
  <2>18. c.index = listed /\ c.jobs = js BY <2>7
  <2>19. \A n, v : Ends(js, n, v) <=> \/ Ends(d.jobs, n, v) /\ n \notin Names(u)
                                      \/ u = v /\ n = FileOf(v)
    <3>1. \A n : Touches(w, n) <=> n \in Names(u) BY <2>1, <2>11 DEF Touches, Names
    <3> QED BY <3>1, <2>1, <2>6, <2>11, <2>12, EndsWritten
  <2>20. \A x \in In(d.index) : x.url \in Url BY <2>12, InListing
  <2>21. Named(d) => Named(c) BY <2>10, <2>13, <2>14, <2>18 DEF Named, Names
  <2>22. Exact(d) => Exact(c) BY <2>10, <2>13, <2>14, <2>18 DEF Exact
  <2>23. ASSUME Named(d), Backed(d) PROVE Backed(c)
    <3> SUFFICES ASSUME NEW x \in In(listed), Alone(x.url) PROVE Ends(js, x.file, x.url)
      BY <2>18 DEF Backed
    <3>1. CASE x = listing BY <3>1, <2>10, <2>19
    <3>2. CASE x \in In(rest)
      <4>1. x \in In(d.index) /\ x.url # u /\ x.url \in Url BY <3>2, <2>13, <2>20
      <4>2. Ends(d.jobs, x.file, x.url) BY <4>1, <2>23 DEF Backed
      <4>3. x.file \in Names(x.url) BY <4>1, <2>23 DEF Named
      <4>4. x.file \notin Names(u) BY <4>1, <4>3, <2>9, NamesApart
      <4> QED BY <4>2, <4>4, <2>19
    <3> QED BY <3>1, <3>2, <2>14
  <2>24. ASSUME Exact(d), NoGhost(d) PROVE NoGhost(c)
    <3> SUFFICES ASSUME NEW n \in FileName, NEW v \in Url, Ends(js, n, v)
                 PROVE  n = FileOf(v) /\ Holding(listed, v) # {}
      BY <2>18 DEF NoGhost
    <3>1. CASE v = u
      <4>1. Holding(listed, u) # {} BY <2>10, <2>14, HoldingIn
      <4>2. n = FileOf(u)
        <5>1. Ends(d.jobs, n, u) => n = FileOf(u) BY <2>9, <2>24 DEF NoGhost
        <5> QED BY <5>1, <3>1, <2>19
      <4> QED BY <3>1, <4>1, <4>2
    <3>2. CASE v # u
      <4>1. Ends(d.jobs, n, v) BY <3>2, <2>19
      <4>2. n = FileOf(v) /\ Holding(d.index, v) # {} BY <4>1, <2>24 DEF NoGhost
      <4>3. PICK x \in In(d.index) : x.url = v BY <4>2, <2>12, HoldingIn
      <4>4. x \in In(listed) BY <4>3, <3>2, <2>13, <2>14
      <4> QED BY <4>2, <4>3, <4>4, <2>14, HoldingIn
    <3> QED BY <3>1, <3>2
  <2>25. ASSUME d.jobs # <<>> PROVE c.jobs # <<>> /\ c.jobs[1] = d.jobs[1]
    <3>1. 1 \in 1 .. Len(d.jobs) BY <2>12, <2>25, LenProperties, EmptySeq
    <3>2. Len(js) = Len(d.jobs) + 1 /\ js[1] = d.jobs[1] BY <3>1, <2>6, <2>11, <2>12, AppendProperties
    <3>3. js # <<>> BY <3>1, <3>2
    <3> QED BY <3>2, <3>3, <2>18
  <2>27. Carries(d, c) BY <2>21, <2>22, <2>23, <2>24, <2>25 DEF Carries
  <2>26. /\ DiskFits(MakeRoom(c)) /\ Carries(c, MakeRoom(c)) /\ Len(MakeRoom(c).index) <= DiskRoom
    BY <2>17, MakeRoomKeeps
  <2> QED BY <2>8, <2>27, <2>26, CarriesOn
<1> QED BY <1>1, <1>2

(* A cache without a disk writes nothing and forgets nothing. *)
Empty(d) == d.index = <<>> /\ d.jobs = <<>>

LEMMA NothingForgotten ==
    ASSUME NEW d, Empty(d), NEW u
    PROVE  Empty(Forget(d, u))
<1>1. Holding(d.index, u) = {} BY DEF Empty, Holding
<1>2. Without(d.index, u) = <<>> /\ Only(d.index, u) = <<>> BY <1>1 DEF Empty, Without, Only
<1>3. Removals(<<>>) = <<>> BY DEF Removals
<1> QED BY <1>2, <1>3 DEF Forget, Empty

LEMMA NothingWritten == \A d, e : ~attached => Write(d, e) = d
BY DEF Write

(* How the disk tier may change when the lock is held. *)
Works(d, c) ==
    /\ DiskFits(c) /\ Len(c.index) <= DiskRoom /\ Carries(d, c)
    /\ ~attached /\ Empty(d) => Empty(c)

(* Storing or removing a response works, *)
LEMMA KeepWorks ==
    ASSUME nameOf \in [Url -> Hash], NEW d, DiskFits(d), Len(d.index) <= DiskRoom,
           NEW e \in Stored, NEW kept
    PROVE  Works(d, IF kept THEN Write(Forget(d, e.url), e) ELSE Forget(d, e.url))
<1>1. PICK u : u = e.url OBVIOUS
<1>2. PICK f : f = Forget(d, u) OBVIOUS
<1>3. PICK w : w = Write(f, e) OBVIOUS
<1>4. u \in Url BY <1>1 DEF Stored
<1>5. DiskFits(f) /\ Carries(d, f) /\ Len(f.index) <= Len(d.index) BY <1>2, <1>4, ForgetKeeps
<1>6. Len(f.index) <= DiskRoom
  <2>1. d.index \in Seq(Listing) /\ f.index \in Seq(Listing) BY <1>5 DEF DiskFits
  <2>2. Len(d.index) \in Nat /\ Len(f.index) \in Nat BY <2>1
  <2>3. DiskRoom \in Nat BY CacheAssumption
  <2> QED BY <1>5, <2>2, <2>3
<1>7. ~attached /\ Empty(d) => Empty(f) BY <1>2, NothingForgotten
<1>8. DiskFits(w) /\ Carries(f, w) /\ Len(w.index) <= DiskRoom BY <1>3, <1>5, <1>6, WriteKeeps
<1>9. ~attached /\ Empty(d) => Empty(w) BY <1>3, <1>7, NothingWritten
<1>10. Carries(d, w) BY <1>5, <1>8, CarriesOn
<1>11. Works(d, f) BY <1>5, <1>6, <1>7 DEF Works
<1>12. Works(d, w) BY <1>8, <1>9, <1>10 DEF Works
<1> QED BY <1>1, <1>2, <1>3, <1>11, <1>12

(* and so does listing an address as used last. *)
LEMMA MarkedUsed ==
    ASSUME NEW d, DiskFits(d), Len(d.index) <= DiskRoom, NEW u \in Url
    PROVE  Works(d, [index |-> Without(d.index, u) \o Only(d.index, u), jobs |-> d.jobs])
<1>1. PICK a : a = Without(d.index, u) OBVIOUS
<1>2. PICK b : b = Only(d.index, u) OBVIOUS
<1>3. PICK es : es = a \o b OBVIOUS
<1>4. PICK c : c = [index |-> es, jobs |-> d.jobs] OBVIOUS
<1>5. d.index \in Seq(Listing) /\ d.jobs \in Seq(Job) /\ Unique(d.index) BY DEF DiskFits
<1>6. a \in Seq(Listing) /\ In(a) = {e \in In(d.index) : e.url # u} /\ Unique(a)
  BY <1>1, <1>5, WithoutIn
<1>7. b \in Seq(Listing) /\ In(b) = {e \in In(d.index) : e.url = u} /\ Unique(b)
  BY <1>2, <1>5, OnlyIn
<1>8. Apart(a, b) BY <1>6, <1>7 DEF Apart
<1>9. es \in Seq(Listing) /\ Len(es) = Len(a) + Len(b) /\ In(es) = In(a) \cup In(b)
  BY <1>3, <1>6, <1>7, ConcatIn
<1>10. Unique(es) BY <1>3, <1>6, <1>7, <1>8, ConcatUnique
<1>11. In(es) = In(d.index) BY <1>6, <1>7, <1>9
<1>12. Len(es) = Len(d.index)
  <2>1. CASE Holding(d.index, u) = {}
    <3>1. a = d.index /\ b = <<>> BY <2>1, <1>1, <1>2 DEF Without, Only
    <3> QED BY <3>1, <1>5, <1>9
  <2>2. CASE Holding(d.index, u) # {}
    <3>1. Len(a) + 1 = Len(d.index) BY <2>2, <1>1, <1>5, ShorterWithout
    <3>2. Len(b) = 1 BY <2>2, <1>2 DEF Only
    <3> QED BY <3>1, <3>2, <1>9
  <2> QED BY <2>1, <2>2
<1>13. c.index = es /\ c.jobs = d.jobs BY <1>4
<1>14. DiskFits(c) BY <1>4, <1>9, <1>10, <1>13, <1>5 DEF DiskFits
<1>15. \A v : Holding(es, v) # {} <=> Holding(d.index, v) # {} BY <1>5, <1>9, <1>11, HoldingIn
<1>16. (Named(d) => Named(c)) /\ (Exact(d) => Exact(c)) BY <1>11, <1>13 DEF Named, Exact
<1>17. (Backed(d) => Backed(c)) BY <1>11, <1>13 DEF Backed
<1>18. NoGhost(d) => NoGhost(c) BY <1>13, <1>15 DEF NoGhost
<1>19. Carries(d, c) BY <1>13, <1>16, <1>17, <1>18 DEF Carries
<1>20. ASSUME Empty(d) PROVE Empty(c)
  <2>1. a = <<>> /\ b = <<>> BY <1>20, <1>1, <1>2 DEF Empty, Without, Only, Holding
  <2> QED BY <2>1, <1>20, <1>3, <1>13 DEF Empty
<1> QED BY <1>1, <1>2, <1>3, <1>4, <1>12, <1>13, <1>14, <1>19, <1>20 DEF Works

LoadStates == {Idle} \cup Waiting \cup Replied \cup Reply
Counts == [loads : 0 .. MaxLoads, clears : Nat, failures : Nat, crashes : Nat, quits : Nat]

(* The type invariant by the names used here. *)
LEMMA TypeParts ==
    TypeOK <=>
        /\ entries \in Seq(Stored) /\ Len(entries) <= MemRoom /\ Unique(entries)
        /\ DiskFits(Disk) /\ Len(index) <= DiskRoom
        /\ step \in {"take", "beside", "filled"} /\ attached \in BOOLEAN
        /\ files \in [FileName -> File \cup {None}]
        /\ loads \in [Load -> LoadStates]
        /\ cookie \in Cookie /\ nameOf \in [Url -> Hash] /\ count \in Counts
<1>1. entries \in Seq(Stored) => DOMAIN entries = 1 .. Len(entries) OBVIOUS
<1>2. index \in Seq(Listing) => DOMAIN index = 1 .. Len(index) OBVIOUS
<1>3. /\ entries \in Seq(Stored) => (Unique(entries) <=>
            \A i, j \in DOMAIN entries : entries[i].url = entries[j].url => i = j)
      /\ index \in Seq(Listing) => (Unique(index) <=>
            \A i, j \in DOMAIN index : index[i].url = index[j].url => i = j)
  BY <1>1, <1>2 DEF Unique
<1>4. DiskFits(Disk) <=> /\ index \in Seq(Listing) /\ jobs \in Seq(Job)
                         /\ Unique(index) /\ Queued(jobs) <= QueueRoom
  BY DEF DiskFits, Disk
<1>5. TypeOK <=>
        /\ entries \in Seq(Stored) /\ Len(entries) <= MemRoom
        /\ index \in Seq(Listing) /\ Len(index) <= DiskRoom
        /\ \A i, j \in DOMAIN entries : entries[i].url = entries[j].url => i = j
        /\ \A i, j \in DOMAIN index : index[i].url = index[j].url => i = j
        /\ jobs \in Seq(Job) /\ Queued(jobs) <= QueueRoom
        /\ step \in {"take", "beside", "filled"} /\ attached \in BOOLEAN
        /\ files \in [FileName -> File \cup {None}]
        /\ loads \in [Load -> LoadStates]
        /\ cookie \in Cookie /\ nameOf \in [Url -> Hash] /\ count \in Counts
  BY Zenon DEF TypeOK, Listing, LoadStates, Counts
<1> QED BY <1>3, <1>4, <1>5

(* The job under way is the first, and its text is beside the file. *)
UnderWay ==
    step # "take" =>
        /\ jobs # <<>> /\ Head1.op = "Write"
        /\ files[TempOf(Head1.stored.url)] # None
        /\ files[TempOf(Head1.stored.url)].stored = Head1.stored
        /\ step = "filled" => files[TempOf(Head1.stored.url)].whole
(* A file lies under a name of the address inside it, *)
FilesNamed == \A n \in FileName : files[n] # None => n \in Names(files[n].stored.url)
(* and, if nothing failed, beside its own name only while it is being written. *)
FilesExact == \A n \in FileName : files[n] # None =>
                  \/ n = FileOf(files[n].stored.url)
                  \/ step # "take" /\ n = TempOf(Head1.stored.url)
(* The invariant of the disk tier. *)
Tier ==
    /\ TypeOK /\ UnderWay /\ FilesNamed /\ Named(Disk)
    /\ ~attached => Empty(Disk)
    /\ count.failures = 0 => Backed(Disk)
    /\ count.failures = 0 /\ count.crashes = 0 =>
          Exact(Disk) /\ FilesExact /\ (attached => NoGhost(Disk))

(* It is what the two properties ask. *)
LEMMA TierIsEnough == Tier => ForgottenLeavesNoFile /\ IndexedIsOnFile
<1> SUFFICES ASSUME Tier PROVE ForgottenLeavesNoFile /\ IndexedIsOnFile OBVIOUS
<1>1. Disk.index = index /\ Disk.jobs = jobs BY DEF Disk
<1>2. index \in Seq(Listing) BY <1>1, TypeParts DEF Tier, DiskFits
<1>3. DOMAIN index = 1 .. Len(index) BY <1>2
<1>4. IndexedIsOnFile
  <2> SUFFICES ASSUME count.failures = 0, NEW i \in 1 .. Len(index), Alone(index[i].url)
               PROVE  Ends(jobs, index[i].file, index[i].url)
    BY <1>3 DEF IndexedIsOnFile
  <2>1. index[i] \in In(index) BY DEF In
  <2> QED BY <2>1, <1>1 DEF Tier, Backed
<1>5. ForgottenLeavesNoFile BY <1>1 DEF Tier, NoGhost, ForgottenLeavesNoFile
<1> QED BY <1>4, <1>5

(* A step of whoever has the lock, as far as the disk tier can tell. *)
LEMMA LockedKeeps ==
    ASSUME Tier, NEW c, Works(Disk, c), index' = c.index, jobs' = c.jobs,
           UNCHANGED <<step, files, attached, nameOf>>,
           count'.failures = count.failures, count'.crashes = count.crashes,
           TypeOK'
    PROVE  Tier'
<1>1. Carries(Disk, c) /\ (~attached => Empty(c)) BY DEF Works, Tier
<1>2. Disk.index = index /\ Disk.jobs = jobs BY DEF Disk
<1>3. Disk'.index = c.index /\ Disk'.jobs = c.jobs BY DEF Disk
<1>4. UnderWay'
  <2> SUFFICES ASSUME step # "take" PROVE UnderWay' BY DEF UnderWay
  <2>1. jobs # <<>> BY DEF Tier, UnderWay
  <2>2. jobs' # <<>> /\ jobs'[1] = jobs[1] BY <2>1, <1>1, <1>2 DEF Carries
  <2> QED BY <2>2 DEF Tier, UnderWay, Head1, TempOf
<1>5. FilesNamed' BY DEF Tier, FilesNamed, Names, FileOf, TempOf
<1>6. ASSUME Named(c) PROVE Named(Disk)' BY <1>6, <1>3 DEF Named, In, Names, FileOf, TempOf
<1>7. ASSUME Backed(c) PROVE Backed(Disk)'
  BY <1>7, <1>3 DEF Backed, In, Alone, Ends, Untouched, Touches, FileOf, TempOf
<1>8. ASSUME Exact(c) PROVE Exact(Disk)' BY <1>8, <1>3 DEF Exact, In, FileOf
<1>9. ASSUME NoGhost(c) PROVE NoGhost(Disk)'
  BY <1>9, <1>3 DEF NoGhost, Holding, Ends, Untouched, Touches, FileOf, TempOf
<1>10. ASSUME FilesExact PROVE FilesExact'
  <2>1. CASE step = "take" BY <2>1, <1>10 DEF FilesExact, FileOf
  <2>2. CASE step # "take"
    <3>1. jobs # <<>> BY <2>2 DEF Tier, UnderWay
    <3>2. jobs'[1] = jobs[1] BY <3>1, <1>1, <1>2 DEF Carries
    <3> QED BY <2>2, <3>2, <1>10 DEF FilesExact, FileOf, TempOf, Head1
  <2> QED BY <2>1, <2>2
<1>11. (~attached => Empty(Disk))' BY <1>1, <1>3 DEF Empty
<1>12. Named(Disk)' BY <1>1, <1>6 DEF Tier, Carries
<1>13. count'.failures = 0 => Backed(Disk)' BY <1>1, <1>7 DEF Tier, Carries
<1>14. count'.failures = 0 /\ count'.crashes = 0 =>
           Exact(Disk)' /\ FilesExact' /\ (attached' => NoGhost(Disk)')
  BY <1>1, <1>8, <1>9, <1>10 DEF Tier, Carries
<1> QED BY <1>4, <1>5, <1>11, <1>12, <1>13, <1>14 DEF Tier

(* A step that leaves the disk tier alone. *)
LEMMA AsideKeeps ==
    ASSUME Tier, UNCHANGED <<index, jobs, step, files, attached, nameOf>>,
           count'.failures = count.failures, count'.crashes = count.crashes, TypeOK'
    PROVE  Tier'
<1>1. PICK c : c = Disk OBVIOUS
<1>2. DiskFits(Disk) /\ Len(index) <= DiskRoom BY TypeParts DEF Tier
<1>3. c.index = index /\ c.jobs = jobs BY <1>1 DEF Disk
<1>4. Works(c, c) BY <1>1, <1>2, <1>3 DEF Works, Carries
<1> QED BY <1>1, <1>3, <1>4, LockedKeeps

(* The first job and the rest of the queue. *)
LEMMA FirstJob ==
    ASSUME NEW js \in Seq(Job), js # <<>>
    PROVE  /\ 1 \in 1 .. Len(js) /\ js[1] \in Job /\ Tail(js) \in Seq(Job)
           /\ \A n : Untouched(js, n, 0) <=> ~Touches(js[1], n) /\ Untouched(Tail(js), n, 0)
           /\ \A n : Untouched(js, n, 1) <=> Untouched(Tail(js), n, 0)
           /\ \A n, i : i \in 1 .. Len(Tail(js)) =>
                 i + 1 \in 1 .. Len(js) /\ js[i + 1] = Tail(js)[i]
                 /\ (Untouched(js, n, i + 1) <=> Untouched(Tail(js), n, i))
           /\ \A i \in 1 .. Len(js) : i = 1 \/ i - 1 \in 1 .. Len(Tail(js))
<1>1. PICK q : q = Tail(js) OBVIOUS
<1>2. PICK a : a = Len(q) OBVIOUS
<1>3. /\ q \in Seq(Job) /\ Len(js) = a + 1 /\ a \in Nat
      /\ \A k \in 1 .. a : q[k] = js[k + 1]
  <2>1. q \in Seq(Job) /\ Len(q) = Len(js) - 1 /\ \A k \in 1 .. Len(q) : q[k] = js[k + 1]
    BY <1>1, HeadTailProperties
  <2>2. Len(js) \in Nat /\ a \in Nat BY <1>2, <2>1
  <2> QED BY <2>1, <2>2, <1>2
<1>4. DOMAIN q = 1 .. a /\ DOMAIN js = 1 .. a + 1 BY <1>2, <1>3
<1>5. 1 \in 1 .. a + 1 /\ js[1] \in Job BY <1>3
<1>6. \A k : k \in 1 .. a + 1 => k = 1 \/ k - 1 \in 1 .. a BY <1>3
<1>7. \A k \in 1 .. a : k + 1 \in 1 .. a + 1 /\ js[k + 1] = q[k] BY <1>3
<1>8. ASSUME NEW n, NEW i \in 0 .. a PROVE Untouched(js, n, i + 1) <=> Untouched(q, n, i)
  <2>1. ASSUME Untouched(js, n, i + 1) PROVE Untouched(q, n, i)
    <3> SUFFICES ASSUME NEW k \in 1 .. a, k > i PROVE ~Touches(q[k], n) BY <1>4 DEF Untouched
    <3>1. k + 1 > i + 1 OBVIOUS
    <3> QED BY <3>1, <2>1, <1>4, <1>7 DEF Untouched
  <2>2. ASSUME Untouched(q, n, i) PROVE Untouched(js, n, i + 1)
    <3> SUFFICES ASSUME NEW k \in 1 .. a + 1, k > i + 1 PROVE ~Touches(js[k], n) BY <1>4 DEF Untouched
    <3>1. PICK l \in 1 .. a : k = l + 1 BY <1>3
    <3>2. l > i BY <3>1
    <3> QED BY <3>1, <3>2, <2>2, <1>4, <1>7 DEF Untouched
  <2> QED BY <2>1, <2>2
<1>9. ASSUME NEW n PROVE Untouched(js, n, 1) <=> Untouched(q, n, 0)
  <2>1. 0 \in 0 .. a /\ 0 + 1 = 1 BY <1>3
  <2> QED BY <2>1, <1>8
<1>10. ASSUME NEW n PROVE Untouched(js, n, 0) <=> ~Touches(js[1], n) /\ Untouched(js, n, 1)
  <2>1. \A k \in 1 .. a + 1 : k > 0 /\ (k > 1 \/ k = 1) BY <1>3
  <2> QED BY <2>1, <1>4, <1>5 DEF Untouched
<1> QED BY <1>1, <1>2, <1>3, <1>5, <1>6, <1>7, <1>8, <1>9, <1>10

(* What a step of the writing thread has to leave as it was. *)
LEMMA WriterKeeps ==
    ASSUME Tier, TypeOK', UNCHANGED <<index, attached, nameOf, count>>, attached, UnderWay', FilesNamed',
           \A n \in FileName, u \in Url : Ends(jobs, n, u)' <=> Ends(jobs, n, u),
           FilesExact => FilesExact'
    PROVE  Tier'
<1>1. Disk.index = index /\ Disk.jobs = jobs /\ Disk'.index = index /\ Disk'.jobs = jobs' BY DEF Disk
<1>2. index \in Seq(Listing) BY <1>1, TypeParts DEF Tier, DiskFits
<1>3. \A e \in In(index) : e.url \in Url /\ e.file \in FileName BY <1>2, InListing
<1>4. Named(Disk)' BY <1>1 DEF Tier, Named, In, Names, FileOf, TempOf
<1>5. Backed(Disk) => Backed(Disk)' BY <1>1, <1>3 DEF Backed, In, Alone
<1>6. Exact(Disk) => Exact(Disk)' BY <1>1 DEF Exact, In, FileOf
<1>7. NoGhost(Disk) => NoGhost(Disk)' BY <1>1 DEF NoGhost, Holding, FileOf
<1> QED BY <1>4, <1>5, <1>6, <1>7 DEF Tier

(* There are jobs only where the disk is attached. *)
LEMMA HasJobs ==
    ASSUME Tier, jobs # <<>>
    PROVE  attached /\ jobs \in Seq(Job) /\ Head1 = jobs[1] /\ Head1 \in Job
           /\ files \in [FileName -> File \cup {None}] /\ nameOf \in [Url -> Hash]
<1>1. Disk.jobs = jobs BY DEF Disk
<1>2. attached BY <1>1 DEF Tier, Empty
<1>3. DiskFits(Disk) /\ files \in [FileName -> File \cup {None}] /\ nameOf \in [Url -> Hash]
  BY TypeParts DEF Tier
<1>4. jobs \in Seq(Job) BY <1>1, <1>3 DEF DiskFits
<1> QED BY <1>2, <1>3, <1>4, FirstJob DEF Head1

(* Steps of the writing thread: beside the file, *)
LEMMA FilledKeeps ==
    ASSUME Tier, TypeOK', WriteBeside \/ FillBeside
    PROVE  Tier'
<1>1. /\ jobs # <<>> /\ Head1.op = "Write" /\ step' # "take"
      /\ UNCHANGED <<index, jobs, attached, nameOf, count>>
  BY DEF WriteBeside, FillBeside, Writing
<1>2. PICK h : h = Head1 OBVIOUS
<1>3. attached /\ jobs \in Seq(Job) /\ h = jobs[1] /\ h \in Job /\ files \in [FileName -> File \cup {None}]
      /\ nameOf \in [Url -> Hash]
  BY <1>1, <1>2, HasJobs
<1>4. h.stored \in Stored /\ h.stored.url \in Url BY <1>1, <1>2, <1>3 DEF Job, Stored
<1>5. PICK t : t = TempOf(h.stored.url) OBVIOUS
<1>6. t \in FileName BY <1>3, <1>4, <1>5, FilesHaveNames
<1>7. PICK f \in File : files' = [files EXCEPT ![t] = f] /\ f.stored = h.stored
                           /\ (step' = "filled" => f.whole)
  <2>1. CASE WriteBeside
    <3>1. PICK f : f = [stored |-> h.stored, whole |-> FALSE] OBVIOUS
    <3>2. f \in File /\ f.stored = h.stored BY <3>1, <1>4 DEF File
    <3>3. files' = [files EXCEPT ![t] = f] /\ step' = "beside"
      BY <2>1, <3>1, <1>2, <1>5 DEF WriteBeside, Writing
    <3> QED BY <3>2, <3>3
  <2>2. CASE FillBeside
    <3>1. files' = [files EXCEPT ![t].whole = TRUE] /\ step = "beside" BY <2>2, <1>2, <1>5 DEF FillBeside, Writing
    <3>2. files[t] # None /\ files[t].stored = h.stored BY <3>1, <1>2, <1>5 DEF Tier, UnderWay
    <3>3. files[t] \in File BY <3>2, <1>3, <1>6
    <3>4. PICK f : f = [files[t] EXCEPT !.whole = TRUE] OBVIOUS
    <3>5. f \in File /\ f.stored = h.stored /\ f.whole = TRUE BY <3>2, <3>3, <3>4 DEF File
    <3>6. files' = [files EXCEPT ![t] = f] BY <3>1, <3>4
    <3> QED BY <3>5, <3>6
  <2> QED BY <2>1, <2>2
<1>10. files'[t] = f /\ \A n \in FileName : n # t => files'[n] = files[n] BY <1>3, <1>6, <1>7
<1>11. f # None BY CacheAssumption
<1>12. UnderWay' BY <1>1, <1>2, <1>5, <1>7, <1>10, <1>11 DEF UnderWay, Head1, TempOf
<1>13. FilesNamed'
  <2> SUFFICES ASSUME NEW n \in FileName, files'[n] # None PROVE n \in Names(files'[n].stored.url)
    BY <1>1 DEF FilesNamed, Names, FileOf, TempOf
  <2>1. CASE n = t BY <2>1, <1>5, <1>7, <1>10 DEF Names
  <2>2. CASE n # t BY <2>2, <1>10 DEF Tier, FilesNamed
  <2> QED BY <2>1, <2>2
<1>14. FilesExact => FilesExact'
  <2> SUFFICES ASSUME FilesExact, NEW n \in FileName, files'[n] # None
               PROVE  n = FileOf(files'[n].stored.url) \/ n = t
    BY <1>1, <1>2, <1>5 DEF FilesExact, FileOf, TempOf, Head1
  <2> QED BY <1>2, <1>5, <1>10 DEF FilesExact
<1>15. ASSUME NEW n \in FileName, NEW u \in Url PROVE Ends(jobs, n, u)' <=> Ends(jobs, n, u)
  <2>1. Untouched(jobs, n, 0) => n # t
    <3>1. Touches(h, t) BY <1>1, <1>2, <1>5 DEF Touches
    <3> QED BY <3>1, <1>1, <1>3, FirstJob
  <2>2. \A i : Untouched(jobs, n, i)' <=> Untouched(jobs, n, i) BY <1>1 DEF Untouched, Touches, FileOf, TempOf
  <2>3. n # t => files'[n] = files[n] BY <1>10
  <2>4. (files[n] # None /\ files[n].whole /\ files[n].stored.url = u /\ Untouched(jobs, n, 0))'
        <=> files[n] # None /\ files[n].whole /\ files[n].stored.url = u /\ Untouched(jobs, n, 0)
    BY <2>1, <2>2, <2>3
  <2> QED BY <1>1, <2>2, <2>4 DEF Ends, FileOf
<1> QED BY <1>1, <1>3, <1>12, <1>13, <1>14, <1>15, WriterKeeps

(* over it, where the write that ends and the file it leaves are one, *)
LEMMA RenameKeeps ==
    ASSUME Tier, TypeOK', RenameOver
    PROVE  Tier'
<1>1. /\ jobs # <<>> /\ Head1.op = "Write" /\ step = "filled" /\ step' = "take" /\ jobs' = Tail(jobs)
      /\ UNCHANGED <<index, attached, nameOf, count>>
  BY DEF RenameOver, Writing
<1>2. PICK h : h = Head1 OBVIOUS
<1>3. PICK u : u = h.stored.url OBVIOUS
<1>4. attached /\ jobs \in Seq(Job) /\ h = jobs[1] /\ h \in Job /\ files \in [FileName -> File \cup {None}]
      /\ nameOf \in [Url -> Hash]
  BY <1>1, <1>2, HasJobs
<1>5. u \in Url BY <1>1, <1>2, <1>3, <1>4 DEF Job, Stored
<1>6. PICK t : t = TempOf(u) OBVIOUS
<1>7. PICK p : p = FileOf(u) OBVIOUS
<1>8. t \in FileName /\ p \in FileName /\ t # p BY <1>4, <1>5, <1>6, <1>7, FilesHaveNames
<1>9. files[t] # None /\ files[t].stored = h.stored /\ files[t].whole
  BY <1>1, <1>2, <1>3, <1>6 DEF Tier, UnderWay
<1>10. files' = [files EXCEPT ![p] = files[t], ![t] = None] BY <1>2, <1>3, <1>6, <1>7 DEF RenameOver
<1>11. /\ files'[p] = files[t] /\ files'[t] = None
       /\ \A n \in FileName : n # t /\ n # p => files'[n] = files[n]
  BY <1>4, <1>8, <1>10
<1>12. UnderWay' BY <1>1 DEF UnderWay
<1>13. FilesNamed'
  <2> SUFFICES ASSUME NEW n \in FileName, files'[n] # None PROVE n \in Names(files'[n].stored.url)
    BY <1>1 DEF FilesNamed, Names, FileOf, TempOf
  <2>1. CASE n = p BY <2>1, <1>3, <1>7, <1>9, <1>11 DEF Names
  <2>2. CASE n # p
    <3>1. n # t BY <1>11
    <3> QED BY <3>1, <2>2, <1>11 DEF Tier, FilesNamed
  <2> QED BY <2>1, <2>2
<1>14. ASSUME FilesExact PROVE FilesExact'
  <2> SUFFICES ASSUME NEW n \in FileName, files'[n] # None PROVE n = FileOf(files'[n].stored.url)
    BY <1>1 DEF FilesExact, FileOf
  <2>1. CASE n = p BY <2>1, <1>3, <1>7, <1>9, <1>11
  <2>2. CASE n # p
    <3>1. n # t BY <1>11
    <3>2. files'[n] = files[n] BY <3>1, <2>2, <1>11
    <3> QED BY <3>1, <3>2, <1>2, <1>3, <1>6, <1>14 DEF FilesExact
  <2> QED BY <2>1, <2>2
<1>15. PICK q : q = Tail(jobs) OBVIOUS
<1>16. /\ 1 \in 1 .. Len(jobs) /\ q \in Seq(Job)
       /\ \A n : Untouched(jobs, n, 0) <=> ~Touches(h, n) /\ Untouched(q, n, 0)
       /\ \A n : Untouched(jobs, n, 1) <=> Untouched(q, n, 0)
       /\ \A n, i : i \in 1 .. Len(q) =>
             i + 1 \in 1 .. Len(jobs) /\ jobs[i + 1] = q[i]
             /\ (Untouched(jobs, n, i + 1) <=> Untouched(q, n, i))
       /\ \A i \in 1 .. Len(jobs) : i = 1 \/ i - 1 \in 1 .. Len(q)
  BY <1>1, <1>4, <1>15, FirstJob
<1>17. DOMAIN jobs = 1 .. Len(jobs) /\ DOMAIN q = 1 .. Len(q) BY <1>4, <1>16
<1>18. \A n : Touches(h, n) <=> n = p \/ n = t BY <1>1, <1>2, <1>3, <1>6, <1>7 DEF Touches
<1>19. ASSUME NEW n \in FileName, NEW v \in Url PROVE Ends(jobs, n, v)' <=> Ends(jobs, n, v)
  <2>1. PICK file : file = FileOf(v) OBVIOUS
  <2>2. FileOf(v)' = file BY <2>1, <1>1 DEF FileOf
  <2>3. \A i : Untouched(jobs, n, i)' <=> Untouched(q, n, i)
    BY <1>1, <1>15 DEF Untouched, Touches, FileOf, TempOf
  <2>4. Ends(jobs, n, v)' <=>
           \/ files'[n] # None /\ files'[n].whole /\ files'[n].stored.url = v /\ Untouched(q, n, 0)
           \/ \E i \in 1 .. Len(q) : q[i].op = "Write" /\ q[i].stored.url = v /\ n = file /\ Untouched(q, n, i)
    BY <2>2, <2>3, <1>1, <1>15, <1>17 DEF Ends
  <2>5. Ends(jobs, n, v) <=>
           \/ files[n] # None /\ files[n].whole /\ files[n].stored.url = v /\ Untouched(jobs, n, 0)
           \/ \E i \in 1 .. Len(jobs) :
                 jobs[i].op = "Write" /\ jobs[i].stored.url = v /\ n = file /\ Untouched(jobs, n, i)
    BY <2>1, <1>17 DEF Ends
  <2>6. ASSUME files'[n] # None, files'[n].whole, files'[n].stored.url = v, Untouched(q, n, 0)
        PROVE  Ends(jobs, n, v)
    <3>1. CASE n = p
      <4>1. v = u BY <3>1, <2>6, <1>3, <1>9, <1>11
      <4>2. Untouched(jobs, n, 1) BY <2>6, <1>16
      <4> QED BY <3>1, <4>1, <4>2, <2>1, <2>5, <1>1, <1>2, <1>3, <1>4, <1>7, <1>16
    <3>2. CASE n # p
      <4>1. n # t BY <2>6, <1>11
      <4>2. Untouched(jobs, n, 0) BY <3>2, <4>1, <2>6, <1>16, <1>18
      <4> QED BY <3>2, <4>1, <4>2, <2>5, <2>6, <1>11
    <3> QED BY <3>1, <3>2
  <2>7. ASSUME NEW i \in 1 .. Len(q), q[i].op = "Write", q[i].stored.url = v, n = file, Untouched(q, n, i)
        PROVE  Ends(jobs, n, v)
    <3>1. i + 1 \in 1 .. Len(jobs) /\ jobs[i + 1] = q[i] /\ Untouched(jobs, n, i + 1) BY <2>7, <1>16
    <3> QED BY <3>1, <2>5, <2>7
  <2>8. ASSUME files[n] # None, files[n].whole, files[n].stored.url = v, Untouched(jobs, n, 0)
        PROVE  Ends(jobs, n, v)'
    <3>1. n # p /\ n # t /\ Untouched(q, n, 0) BY <2>8, <1>16, <1>18
    <3> QED BY <3>1, <2>4, <2>8, <1>11
  <2>9. ASSUME NEW i \in 1 .. Len(jobs), jobs[i].op = "Write", jobs[i].stored.url = v, n = file,
               Untouched(jobs, n, i)
        PROVE  Ends(jobs, n, v)'
    <3>1. CASE i = 1
      <4>1. v = u /\ n = p BY <3>1, <2>9, <2>1, <1>2, <1>3, <1>4, <1>7
      <4>2. Untouched(q, n, 0) BY <3>1, <2>9, <1>16
      <4> QED BY <4>1, <4>2, <2>4, <1>3, <1>9, <1>11
    <3>2. CASE i # 1
      <4>1. PICK k \in 1 .. Len(q) : k = i - 1 BY <3>2, <1>16
      <4>2. i = k + 1 BY <4>1
      <4>3. q[k] = jobs[i] /\ Untouched(q, n, k) BY <4>1, <4>2, <2>9, <1>16
      <4> QED BY <4>1, <4>3, <2>4, <2>9
    <3> QED BY <3>1, <3>2
  <2> QED BY <2>4, <2>5, <2>6, <2>7, <2>8, <2>9
<1> QED BY <1>1, <1>4, <1>12, <1>13, <1>14, <1>19, WriterKeeps

(* gone, *)
LEMMA RemoveKeeps ==
    ASSUME Tier, TypeOK', RemoveFile
    PROVE  Tier'
<1>1. /\ jobs # <<>> /\ Head1.op = "Remove" /\ jobs' = Tail(jobs)
      /\ UNCHANGED <<index, step, attached, nameOf, count>>
  BY DEF RemoveFile
<1>2. PICK h : h = Head1 OBVIOUS
<1>3. PICK p : p = h.file OBVIOUS
<1>4. attached /\ jobs \in Seq(Job) /\ h = jobs[1] /\ h \in Job /\ files \in [FileName -> File \cup {None}]
      /\ nameOf \in [Url -> Hash]
  BY <1>1, <1>2, HasJobs
<1>5. p \in FileName BY <1>1, <1>2, <1>3, <1>4 DEF Job
<1>6. step = "take" BY <1>1 DEF Tier, UnderWay
<1>7. files' = [files EXCEPT ![p] = None] BY <1>2, <1>3 DEF RemoveFile
<1>8. files'[p] = None /\ \A n \in FileName : n # p => files'[n] = files[n] BY <1>4, <1>5, <1>7
<1>9. UnderWay' BY <1>1, <1>6 DEF UnderWay
<1>10. \A n \in FileName : files'[n] # None => files'[n] = files[n] BY <1>8
<1>11. FilesNamed' BY <1>1, <1>10 DEF Tier, FilesNamed, Names, FileOf, TempOf
<1>12. FilesExact => FilesExact' BY <1>1, <1>6, <1>10 DEF FilesExact, FileOf
<1>13. PICK q : q = Tail(jobs) OBVIOUS
<1>14. /\ 1 \in 1 .. Len(jobs) /\ q \in Seq(Job)
       /\ \A n : Untouched(jobs, n, 0) <=> ~Touches(h, n) /\ Untouched(q, n, 0)
       /\ \A n, i : i \in 1 .. Len(q) =>
             i + 1 \in 1 .. Len(jobs) /\ jobs[i + 1] = q[i]
             /\ (Untouched(jobs, n, i + 1) <=> Untouched(q, n, i))
       /\ \A i \in 1 .. Len(jobs) : i = 1 \/ i - 1 \in 1 .. Len(q)
  BY <1>1, <1>4, <1>13, FirstJob
<1>15. DOMAIN jobs = 1 .. Len(jobs) /\ DOMAIN q = 1 .. Len(q) BY <1>4, <1>14
<1>16. \A n : Touches(h, n) <=> n = p BY <1>1, <1>2, <1>3 DEF Touches
<1>17. ASSUME NEW n \in FileName, NEW v \in Url PROVE Ends(jobs, n, v)' <=> Ends(jobs, n, v)
  <2>1. PICK file : file = FileOf(v) OBVIOUS
  <2>2. FileOf(v)' = file BY <2>1, <1>1 DEF FileOf
  <2>3. \A i : Untouched(jobs, n, i)' <=> Untouched(q, n, i)
    BY <1>1, <1>13 DEF Untouched, Touches, FileOf, TempOf
  <2>4. Ends(jobs, n, v)' <=>
           \/ files'[n] # None /\ files'[n].whole /\ files'[n].stored.url = v /\ Untouched(q, n, 0)
           \/ \E i \in 1 .. Len(q) : q[i].op = "Write" /\ q[i].stored.url = v /\ n = file /\ Untouched(q, n, i)
    BY <2>2, <2>3, <1>1, <1>13, <1>15 DEF Ends
  <2>5. Ends(jobs, n, v) <=>
           \/ files[n] # None /\ files[n].whole /\ files[n].stored.url = v /\ Untouched(jobs, n, 0)
           \/ \E i \in 1 .. Len(jobs) :
                 jobs[i].op = "Write" /\ jobs[i].stored.url = v /\ n = file /\ Untouched(jobs, n, i)
    BY <2>1, <1>15 DEF Ends
  <2>6. (files'[n] # None /\ files'[n].whole /\ files'[n].stored.url = v /\ Untouched(q, n, 0))
        <=> files[n] # None /\ files[n].whole /\ files[n].stored.url = v /\ Untouched(jobs, n, 0)
    BY <1>8, <1>14, <1>16
  <2>7. ASSUME NEW i \in 1 .. Len(q), q[i].op = "Write", q[i].stored.url = v, n = file, Untouched(q, n, i)
        PROVE  Ends(jobs, n, v)
    <3>1. i + 1 \in 1 .. Len(jobs) /\ jobs[i + 1] = q[i] /\ Untouched(jobs, n, i + 1) BY <2>7, <1>14
    <3> QED BY <3>1, <2>5, <2>7
  <2>8. ASSUME NEW i \in 1 .. Len(jobs), jobs[i].op = "Write", jobs[i].stored.url = v, n = file,
               Untouched(jobs, n, i)
        PROVE  Ends(jobs, n, v)'
    <3>1. i # 1 BY <2>8, <1>1, <1>2, <1>4
    <3>2. PICK k \in 1 .. Len(q) : k = i - 1 BY <3>1, <1>14
    <3>3. i = k + 1 BY <3>2
    <3>4. q[k] = jobs[i] /\ Untouched(q, n, k) BY <3>2, <3>3, <2>8, <1>14
    <3> QED BY <3>2, <3>4, <2>4, <2>8
  <2> QED BY <2>4, <2>5, <2>6, <2>7, <2>8
<1> QED BY <1>1, <1>4, <1>9, <1>11, <1>12, <1>17, WriterKeeps

(* and failed, after which nothing is said of what lies there. *)
LEMMA FailKeeps ==
    ASSUME Tier, TypeOK', WriteFails
    PROVE  Tier'
<1>1. /\ jobs # <<>> /\ jobs' = Tail(jobs) /\ step' = "take" /\ UNCHANGED <<index, files, attached, nameOf>>
      /\ count' = [count EXCEPT !.failures = @ + 1]
  BY DEF WriteFails, Event
<1>2. attached BY <1>1, HasJobs
<1>3. count \in Counts BY TypeParts DEF Tier
<1>4. count'.failures # 0 BY <1>1, <1>3 DEF Counts
<1>5. UnderWay' BY <1>1 DEF UnderWay
<1>6. FilesNamed' BY <1>1 DEF Tier, FilesNamed, Names, FileOf, TempOf
<1>7. Named(Disk)' BY <1>1 DEF Tier, Named, Disk, In, Names, FileOf, TempOf
<1> QED BY <1>1, <1>2, <1>4, <1>5, <1>6, <1>7 DEF Tier

(* Whose responses these are. *)
Own(e) == e.body \in {e.url, None}
OwnLoad(r) ==
    /\ r.at = "read" /\ r.read # None => Own(r.read)
    /\ r.at = "replied" => Own(r.response.stored) /\ r.response.stored.url = r.url
    /\ r.at = "answered" =>
          /\ r.stored.body \in {r.url, None}
          /\ r.from # "Network" => r.stored.varied \in {None, r.varying}

(* The types of the parts, with the body of each response its own. *)
MemoryFits(es) ==
    /\ es \in Seq(Stored) /\ Len(es) <= MemRoom /\ Unique(es)
    /\ \A e \in In(es) : Own(e)
QueueFits(js) ==
    /\ js \in Seq(Job) /\ Queued(js) <= QueueRoom
    /\ \A i \in 1 .. Len(js) : js[i].op = "Write" => Own(js[i].stored)
FilesFit(fs) ==
    /\ fs \in [FileName -> File \cup {None}]
    /\ \A n \in FileName : fs[n] # None => Own(fs[n].stored)
LoadsFit(ls) ==
    /\ ls \in [Load -> LoadStates]
    /\ \A l \in Load : OwnLoad(ls[l])

(* The invariant of everything but the disk tier. *)
Sound ==
    /\ MemoryFits(entries)
    /\ QueueFits(jobs) /\ index \in Seq(Listing) /\ Unique(index) /\ Len(index) <= DiskRoom
    /\ FilesFit(files) /\ LoadsFit(loads)
    /\ step \in {"take", "beside", "filled"} /\ attached \in BOOLEAN
    /\ cookie \in Cookie /\ nameOf \in [Url -> Hash] /\ count \in Counts

LEMMA SoundTypes == Sound => TypeOK
<1> SUFFICES ASSUME Sound PROVE TypeOK OBVIOUS
<1>1. entries \in Seq(Stored) /\ Len(entries) <= MemRoom /\ Unique(entries) BY DEF Sound, MemoryFits
<1>2. DiskFits(Disk) /\ Len(index) <= DiskRoom BY DEF Sound, QueueFits, DiskFits, Disk
<1>3. files \in [FileName -> File \cup {None}] BY DEF Sound, FilesFit
<1>4. loads \in [Load -> LoadStates] BY DEF Sound, LoadsFit
<1> QED BY <1>1, <1>2, <1>3, <1>4, TypeParts DEF Sound

LEMMA SoundAnswers == Sound => OwnAnswer
<1> SUFFICES ASSUME Sound, NEW l \in Load, loads[l].at = "answered"
             PROVE  /\ loads[l].stored.body \in {loads[l].url, None}
                    /\ loads[l].from # "Network" => loads[l].stored.varied \in {None, loads[l].varying}
  BY DEF OwnAnswer, Answered
<1>1. OwnLoad(loads[l]) BY DEF Sound, LoadsFit
<1> QED BY <1>1 DEF OwnLoad

(* The memory tier with one more, or one less. *)
LEMMA RememberFits ==
    ASSUME NEW es, MemoryFits(es), NEW e \in Stored, Own(e)
    PROVE  MemoryFits(Newest(Append(Without(es, e.url), e), MemRoom))
<1>1. PICK rest : rest = Without(es, e.url) OBVIOUS
<1>2. PICK more : more = Append(rest, e) OBVIOUS
<1>3. PICK left : left = Newest(more, MemRoom) OBVIOUS
<1>4. es \in Seq(Stored) /\ Unique(es) /\ MemRoom \in Nat BY CacheAssumption DEF MemoryFits
<1>5. rest \in Seq(Stored) /\ In(rest) \subseteq In(es) /\ Unique(rest) /\ Holding(rest, e.url) = {}
  BY <1>1, <1>4, WithoutIn
<1>6. more \in Seq(Stored) /\ In(more) = In(rest) \cup {e} /\ Unique(more) BY <1>2, <1>5, AppendIn
<1>7. left \in Seq(Stored) /\ Len(left) <= MemRoom /\ Unique(left) /\ In(left) \subseteq In(more)
  BY <1>3, <1>4, <1>6, NewestIn
<1>8. \A x \in In(left) : Own(x) BY <1>5, <1>6, <1>7 DEF MemoryFits
<1> QED BY <1>1, <1>2, <1>3, <1>7, <1>8 DEF MemoryFits

LEMMA WithoutFits ==
    ASSUME NEW es, MemoryFits(es), NEW u
    PROVE  MemoryFits(Without(es, u))
<1>1. PICK rest : rest = Without(es, u) OBVIOUS
<1>2. es \in Seq(Stored) /\ Unique(es) /\ Len(es) <= MemRoom /\ MemRoom \in Nat BY CacheAssumption DEF MemoryFits
<1>3. rest \in Seq(Stored) /\ In(rest) \subseteq In(es) /\ Unique(rest) /\ Len(rest) <= Len(es)
  BY <1>1, <1>2, WithoutIn
<1>4. Len(rest) <= MemRoom
  <2>1. Len(rest) \in Nat /\ Len(es) \in Nat BY <1>2, <1>3
  <2> QED BY <2>1, <1>2, <1>3
<1>5. \A x \in In(rest) : Own(x) BY <1>3 DEF MemoryFits
<1> QED BY <1>1, <1>3, <1>4, <1>5 DEF MemoryFits

LEMMA EntryFits ==
    ASSUME MemoryFits(entries), NEW u, Holding(entries, u) # {}
    PROVE  EntryFor(u) \in Stored /\ EntryFor(u).url = u /\ Own(EntryFor(u))
<1>1. entries \in Seq(Stored) BY DEF MemoryFits
<1>2. PICK p : p = Place(entries, u) OBVIOUS
<1>3. p \in 1 .. Len(entries) /\ entries[p].url = u BY <1>1, <1>2, HoldingIn
<1>4. EntryFor(u) = entries[p] BY <1>2 DEF EntryFor
<1>5. entries[p] \in In(entries) /\ entries[p] \in Stored BY <1>1, <1>3 DEF In
<1> QED BY <1>3, <1>4, <1>5 DEF MemoryFits

(* A load that goes on. *)
LEMMA LoadGoes ==
    ASSUME LoadsFit(loads), NEW l \in Load, NEW r \in LoadStates, OwnLoad(r)
    PROVE  LoadsFit([loads EXCEPT ![l] = r])
BY DEF LoadsFit

(* What the writes of a queue hold. *)
Written(js) == {js[i].stored : i \in {k \in 1 .. Len(js) : js[k].op = "Write"}}

LEMMA WrittenFits ==
    ASSUME NEW js, js \in Seq(Job), Queued(js) <= QueueRoom, \A e \in Written(js) : Own(e)
    PROVE  QueueFits(js)
<1>1. \A i \in 1 .. Len(js) : js[i].op = "Write" => js[i].stored \in Written(js) BY DEF Written
<1> QED BY <1>1 DEF QueueFits

LEMMA FitsWritten == \A js : QueueFits(js) => \A e \in Written(js) : Own(e)
BY DEF QueueFits, Written

(* Which writes the operations on the disk tier add. *)
LEMMA RemovalsWriteNothing ==
    ASSUME NEW js \in Seq(Job), NEW es \in Seq(Listing)
    PROVE  Written(js \o Removals(es)) = Written(js)
<1>1. PICK rs : rs = Removals(es) OBVIOUS
<1>2. rs \in Seq(Job) /\ \A k \in 1 .. Len(rs) : rs[k].op = "Remove" BY <1>1, RemovalsAre
<1>3. PICK q : q = js \o rs OBVIOUS
<1>4. PICK a : a = Len(js) OBVIOUS
<1>5. PICK b : b = Len(rs) OBVIOUS
<1>6. /\ Len(q) = a + b
      /\ \A k \in 1 .. a : k \in 1 .. a + b /\ q[k] = js[k]
      /\ \A k \in 1 .. b : a + k \in 1 .. a + b /\ q[a + k] = rs[k]
      /\ \A k \in 1 .. a + b : k \in 1 .. a \/ \E m \in 1 .. b : k = a + m
  BY <1>2, <1>3, <1>4, <1>5, ConcatPlaces
<1>7. \A k \in 1 .. a + b : q[k].op = "Write" => k \in 1 .. a BY <1>2, <1>5, <1>6
<1>8. \A e \in Written(q) : e \in Written(js) BY <1>4, <1>6, <1>7 DEF Written
<1>9. \A e \in Written(js) : e \in Written(q) BY <1>4, <1>6 DEF Written
<1> QED BY <1>1, <1>3, <1>8, <1>9

LEMMA ForgetWritesNothing ==
    ASSUME NEW d, DiskFits(d), NEW u
    PROVE  Written(Forget(d, u).jobs) = Written(d.jobs)
<1>1. PICK dropped : dropped = Only(d.index, u) OBVIOUS
<1>2. d.index \in Seq(Listing) /\ Unique(d.index) /\ d.jobs \in Seq(Job) BY DEF DiskFits
<1>3. dropped \in Seq(Listing) BY <1>1, <1>2, OnlyIn
<1>4. Forget(d, u).jobs = d.jobs \o Removals(dropped) BY <1>1 DEF Forget
<1> QED BY <1>2, <1>3, <1>4, RemovalsWriteNothing

LEMMA MakeRoomWritesNothing ==
    ASSUME NEW d, d.index \in Seq(Listing), d.jobs \in Seq(Job)
    PROVE  Written(MakeRoom(d).jobs) = Written(d.jobs)
<1>1. PICK n : n = Len(d.index) OBVIOUS
<1>2. PICK over : over = IF n > DiskRoom THEN n - DiskRoom ELSE 0 OBVIOUS
<1>3. PICK dropped : dropped = SubSeq(d.index, 1, over) OBVIOUS
<1>4. n \in Nat /\ DiskRoom \in Nat BY <1>1, CacheAssumption
<1>5. over \in 0 .. n /\ 1 \in 1 .. n + 1 /\ 1 <= over + 1 BY <1>2, <1>4
<1>6. dropped \in Seq(Listing) BY <1>1, <1>3, <1>5, SubSeqIn
<1>7. MakeRoom(d).jobs = d.jobs \o Removals(dropped) BY <1>1, <1>2, <1>3 DEF MakeRoom
<1> QED BY <1>6, <1>7, RemovalsWriteNothing

LEMMA WriteWritesOne ==
    ASSUME nameOf \in [Url -> Hash], NEW d, DiskFits(d), NEW e \in Stored
    PROVE  Written(Write(d, e).jobs) \subseteq Written(d.jobs) \cup {e}
<1>1. CASE ~attached \/ Queued(d.jobs) + 1 > QueueRoom BY <1>1 DEF Write
<1>2. CASE attached /\ ~(Queued(d.jobs) + 1 > QueueRoom)
  <2>1. PICK u : u = e.url OBVIOUS
  <2>2. PICK listing : listing = [url |-> u, file |-> FileOf(u)] OBVIOUS
  <2>3. PICK rest : rest = Without(d.index, u) OBVIOUS
  <2>4. PICK listed : listed = Append(rest, listing) OBVIOUS
  <2>5. PICK w : w = [op |-> "Write", stored |-> e] OBVIOUS
  <2>6. PICK js : js = Append(d.jobs, w) OBVIOUS
  <2>7. PICK c : c = [index |-> listed, jobs |-> js] OBVIOUS
  <2>8. Write(d, e) = MakeRoom(c) BY <1>2, <2>1, <2>2, <2>3, <2>4, <2>5, <2>6, <2>7 DEF Write
  <2>9. u \in Url BY <2>1 DEF Stored
  <2>10. listing \in Listing BY <2>2, <2>9, FilesHaveNames DEF Listing
  <2>11. w \in Job /\ w.op = "Write" /\ w.stored = e BY <2>5 DEF Job
  <2>12. d.index \in Seq(Listing) /\ Unique(d.index) /\ d.jobs \in Seq(Job) BY DEF DiskFits
  <2>13. rest \in Seq(Listing) BY <2>3, <2>12, WithoutIn
  <2>14. listed \in Seq(Listing) BY <2>4, <2>10, <2>13, AppendProperties
  <2>15. js \in Seq(Job) /\ Len(js) = Len(d.jobs) + 1 /\ js[Len(d.jobs) + 1] = w
         /\ \A k \in 1 .. Len(d.jobs) : js[k] = d.jobs[k]
    BY <2>6, <2>11, <2>12, AppendProperties
  <2>16. c.index = listed /\ c.jobs = js BY <2>7
  <2>17. Written(MakeRoom(c).jobs) = Written(js) BY <2>14, <2>15, <2>16, MakeRoomWritesNothing
  <2>18. \A k \in 1 .. Len(js) : k \in 1 .. Len(d.jobs) \/ k = Len(d.jobs) + 1 BY <2>12, <2>15
  <2>19. \A x \in Written(js) : x \in Written(d.jobs) \cup {e} BY <2>11, <2>15, <2>18 DEF Written
  <2> QED BY <2>8, <2>17, <2>19
<1> QED BY <1>1, <1>2

(* The queue without its first job. *)
LEMMA TailFits ==
    ASSUME NEW js, QueueFits(js), js # <<>>
    PROVE  QueueFits(Tail(js))
<1>1. PICK q : q = Tail(js) OBVIOUS
<1>2. js \in Seq(Job) /\ Queued(js) <= QueueRoom /\ QueueRoom \in Nat BY CacheAssumption DEF QueueFits
<1>3. q \in Seq(Job) /\ \A i : i \in 1 .. Len(q) => i + 1 \in 1 .. Len(js) /\ js[i + 1] = q[i]
  BY <1>1, <1>2, FirstJob
<1>4. Queued(q) <= Queued(js) BY <1>1, <1>2, QueuedTail
<1>5. Queued(q) \in Nat /\ Queued(js) \in Nat BY <1>2, <1>3, QueuedLess
<1>6. Queued(q) <= QueueRoom BY <1>2, <1>4, <1>5
<1>7. \A i \in 1 .. Len(q) : q[i].op = "Write" => Own(q[i].stored) BY <1>3 DEF QueueFits
<1> QED BY <1>1, <1>3, <1>6, <1>7 DEF QueueFits

(* The inductive invariant. *)
All == Sound /\ Tier

LEMMA QueueOf ==
    ASSUME NEW d, DiskFits(d), \A e \in Written(d.jobs) : Own(e)
    PROVE  QueueFits(d.jobs)
BY WrittenFits DEF DiskFits

(* A step of whoever has the lock. *)
LEMMA LockedSound ==
    ASSUME All, NEW c, Works(Disk, c), \A e \in Written(c.jobs) : Own(e),
           index' = c.index, jobs' = c.jobs, UNCHANGED <<step, files, attached, nameOf>>,
           MemoryFits(entries'), LoadsFit(loads'), cookie' \in Cookie, count' \in Counts,
           count'.failures = count.failures, count'.crashes = count.crashes
    PROVE  All'
<1>1. DiskFits(c) /\ Len(c.index) <= DiskRoom BY DEF Works
<1>2. QueueFits(c.jobs) BY <1>1, QueueOf
<1>3. c.index \in Seq(Listing) /\ Unique(c.index) BY <1>1 DEF DiskFits
<1>4. Sound' BY <1>1, <1>2, <1>3, Zenon DEF All, Sound, MemoryFits, QueueFits, FilesFit, LoadsFit, OwnLoad, Own,
                                   Listing, LoadStates, Counts, Unique, In, Queued
<1>5. TypeOK' BY <1>4, SoundTypes, PTL
<1>6. Tier' BY <1>5, LockedKeeps DEF All
<1> QED BY <1>4, <1>6 DEF All

(* The steps of a load. *)
LEMMA AsideSound ==
    ASSUME All, UNCHANGED <<index, jobs, step, files, attached, nameOf>>,
           MemoryFits(entries'), LoadsFit(loads'), cookie' \in Cookie, count' \in Counts,
           count'.failures = count.failures, count'.crashes = count.crashes
    PROVE  All'
<1>1. PICK c : c = Disk OBVIOUS
<1>2. DiskFits(Disk) /\ Len(index) <= DiskRoom BY DEF All, Sound, QueueFits, DiskFits, Disk
<1>3. c.index = index /\ c.jobs = jobs BY <1>1 DEF Disk
<1>4. Works(c, c) BY <1>1, <1>2, <1>3 DEF Works, Carries
<1>5. \A e \in Written(c.jobs) : Own(e) BY <1>3, FitsWritten DEF All, Sound
<1> QED BY <1>1, <1>3, <1>4, <1>5, LockedSound

(* What is known of a load by where it is. *)
LEMMA LoadTypes ==
    ASSUME All, NEW l \in Load
    PROVE  /\ loads[l] \in LoadStates /\ OwnLoad(loads[l])
           /\ loads[l].at # "idle" => loads[l].url \in Url /\ loads[l].varying \in Cookie
           /\ loads[l].at \in {"reading", "read", "looking"} => loads[l].mode \in Mode
           /\ loads[l].at = "reading" => loads[l].file \in FileName
           /\ loads[l].at = "read" => loads[l].read \in Stored \cup {None}
           /\ loads[l].at = "replied" => loads[l].response \in Response
<1>1. loads[l] \in LoadStates /\ OwnLoad(loads[l]) BY DEF All, Sound, LoadsFit
<1>2. PICK r : r = loads[l] OBVIOUS
<1>3. r.at # "idle" => r \in Waiting \cup Replied \cup Reply BY <1>1, <1>2 DEF LoadStates, Idle
<1>4. r \in Waiting \cup Replied \cup Reply => r.url \in Url /\ r.varying \in Cookie
  BY DEF Waiting, Replied, Reply
<1>5. r \in Waiting \cup Replied \cup Reply =>
           /\ r.at \in {"reading", "read", "looking"} => r.mode \in Mode
           /\ r.at = "reading" => r.file \in FileName
           /\ r.at = "read" => r.read \in Stored \cup {None}
           /\ r.at = "replied" => r.response \in Response
  BY DEF Waiting, Replied, Reply
<1> QED BY <1>1, <1>2, <1>3, <1>4, <1>5

(* Each step of a load keeps the invariant. *)
LEMMA BeginKeeps ==
    ASSUME All, NEW l \in Load, NEW u \in Url, NEW mode \in Mode, Begin(l, u, mode)
    PROVE  All'
<1>1. PICK r : r = IF mode = "Bypass" THEN Sending(u, cookie, FALSE)
               ELSE IF Holding(entries, u) = {} /\ Holding(index, u) # {}
               THEN [at |-> "reading", url |-> u, mode |-> mode, varying |-> cookie,
                     file |-> index[Place(index, u)].file]
               ELSE Looking(u, mode, cookie)
  OBVIOUS
<1>2. /\ loads' = [loads EXCEPT ![l] = r] /\ count' = [count EXCEPT !.loads = @ + 1] /\ count.loads < MaxLoads
      /\ UNCHANGED <<entries, index, jobs, step, files, attached, cookie, nameOf>>
  BY <1>1 DEF Begin, Goes
<1>3. cookie \in Cookie /\ count \in Counts /\ MemoryFits(entries) /\ LoadsFit(loads) /\ index \in Seq(Listing)
  BY DEF All, Sound
<1>4. r \in LoadStates /\ OwnLoad(r)
  <2>1. CASE r = Sending(u, cookie, FALSE)
    BY <2>1, <1>3 DEF Sending, LoadStates, Waiting, OwnLoad
  <2>2. CASE r = Looking(u, mode, cookie)
    BY <2>2, <1>3 DEF Looking, LoadStates, Waiting, OwnLoad
  <2>3. CASE Holding(index, u) # {} /\ r = [at |-> "reading", url |-> u, mode |-> mode, varying |-> cookie,
                                            file |-> index[Place(index, u)].file]
    <3>1. PICK f : f = index[Place(index, u)].file OBVIOUS
    <3>2. Place(index, u) \in 1 .. Len(index) BY <2>3, <1>3, HoldingIn
    <3>3. index[Place(index, u)] \in Listing BY <3>2, <1>3
    <3>4. f \in FileName BY <3>1, <3>3 DEF Listing
    <3> QED BY <2>3, <3>1, <3>4, <1>3 DEF LoadStates, Waiting, OwnLoad
  <2> QED BY <1>1, <2>1, <2>2, <2>3
<1>5. LoadsFit(loads') BY <1>2, <1>3, <1>4, LoadGoes
<1>6. count' \in Counts /\ count'.failures = count.failures /\ count'.crashes = count.crashes
  <2>1. MaxLoads \in Nat BY CacheAssumption
  <2>2. count.loads + 1 \in 0 .. MaxLoads BY <2>1, <1>2, <1>3 DEF Counts
  <2> QED BY <2>2, <1>2, <1>3 DEF Counts
<1> QED BY <1>2, <1>3, <1>5, <1>6, AsideSound

LEMMA ReadKeeps ==
    ASSUME All, NEW l \in Load, ReadAt(l)
    PROVE  All'
<1>1. PICK name : name = loads[l].file OBVIOUS
<1>2. PICK got : got = IF files[name] # None /\ files[name].whole THEN files[name].stored ELSE None OBVIOUS
<1>3. PICK r : r = [at |-> "read", url |-> loads[l].url, mode |-> loads[l].mode,
                    varying |-> loads[l].varying, read |-> got]
  OBVIOUS
<1>4. /\ loads' = [loads EXCEPT ![l] = r] /\ loads[l].at = "reading"
      /\ UNCHANGED <<entries, index, jobs, step, files, attached, cookie, nameOf, count>>
  BY <1>1, <1>2, <1>3 DEF ReadAt, Goes
<1>5. cookie \in Cookie /\ count \in Counts /\ MemoryFits(entries) /\ LoadsFit(loads) /\ FilesFit(files)
  BY DEF All, Sound
<1>6. name \in FileName /\ loads[l].url \in Url /\ loads[l].mode \in Mode /\ loads[l].varying \in Cookie
  BY <1>1, <1>4, LoadTypes
<1>7. got = None \/ (got \in Stored /\ Own(got))
  <2>1. got = None \/ (files[name] # None /\ got = files[name].stored)
    <3>1. CASE files[name] # None /\ files[name].whole BY <3>1, <1>2
    <3>2. CASE ~(files[name] # None /\ files[name].whole) BY <3>2, <1>2
    <3> QED BY <3>1, <3>2
  <2>2. CASE files[name] # None /\ got = files[name].stored
    <3>1. files[name] \in File /\ Own(files[name].stored) BY <2>2, <1>5, <1>6 DEF FilesFit
    <3>2. files[name].stored \in Stored BY <3>1 DEF File
    <3> QED BY <3>1, <3>2, <2>2
  <2> QED BY <2>1, <2>2
<1>8. r \in LoadStates BY <1>3, <1>6, <1>7 DEF LoadStates, Waiting
<1>9. OwnLoad(r) BY <1>3, <1>7 DEF OwnLoad
<1>10. LoadsFit(loads') BY <1>4, <1>5, <1>8, <1>9, LoadGoes
<1> QED BY <1>4, <1>5, <1>10, AsideSound

LEMMA LookingFits ==
    ASSUME NEW u \in Url, NEW mode \in Mode, NEW varying \in Cookie
    PROVE  Looking(u, mode, varying) \in LoadStates /\ OwnLoad(Looking(u, mode, varying))
BY DEF Looking, LoadStates, Waiting, OwnLoad

LEMMA SendingFits ==
    ASSUME NEW u \in Url, NEW varying \in Cookie, NEW asks \in BOOLEAN
    PROVE  Sending(u, varying, asks) \in LoadStates /\ OwnLoad(Sending(u, varying, asks))
BY DEF Sending, LoadStates, Waiting, OwnLoad

LEMMA TakeKeeps ==
    ASSUME All, NEW l \in Load, TakeRead(l)
    PROVE  All'
<1>1. PICK u : u = loads[l].url OBVIOUS
<1>2. PICK read : read = loads[l].read OBVIOUS
<1>3. PICK r : r = Looking(loads[l].url, loads[l].mode, loads[l].varying) OBVIOUS
<1>4. /\ loads' = [loads EXCEPT ![l] = r] /\ loads[l].at = "read"
      /\ UNCHANGED <<step, files, attached, cookie, nameOf, count>>
  BY <1>3 DEF TakeRead, Goes
<1>5. /\ cookie \in Cookie /\ count \in Counts /\ MemoryFits(entries) /\ LoadsFit(loads)
      /\ DiskFits(Disk) /\ Len(index) <= DiskRoom /\ QueueFits(jobs)
  BY DEF All, Sound, DiskFits, Disk, QueueFits
<1>6. u \in Url /\ loads[l].mode \in Mode /\ loads[l].varying \in Cookie /\ read \in Stored \cup {None}
      /\ OwnLoad(loads[l])
  BY <1>1, <1>2, <1>4, LoadTypes
<1>7. r \in LoadStates /\ OwnLoad(r) BY <1>1, <1>3, <1>6, LookingFits
<1>8. LoadsFit(loads') BY <1>4, <1>5, <1>7, LoadGoes
<1>9. Disk.index = index /\ Disk.jobs = jobs BY DEF Disk
<1>10. PICK d : d = Disk OBVIOUS
<1>11. CASE ~(read # None /\ read.url = u)
  <2>1. PICK c : c = Forget(d, u) OBVIOUS
  <2>2. index' = c.index /\ jobs' = c.jobs /\ UNCHANGED entries
    BY <1>1, <1>2, <1>10, <1>11, <2>1 DEF TakeRead, DiskBecomes
  <2>3. DiskFits(c) /\ Carries(d, c) /\ Len(c.index) <= Len(d.index)
    BY <2>1, <1>5, <1>6, <1>10, ForgetKeeps
  <2>4. Len(c.index) <= DiskRoom
    <3>1. Len(c.index) \in Nat /\ Len(index) \in Nat /\ DiskRoom \in Nat
      BY <2>3, <1>5, <1>9, CacheAssumption DEF DiskFits
    <3> QED BY <3>1, <2>3, <1>5, <1>9, <1>10
  <2>5. Empty(d) => Empty(c) BY <2>1, NothingForgotten
  <2>6. Works(d, c) BY <2>3, <2>4, <2>5 DEF Works
  <2>7. \A e \in Written(c.jobs) : Own(e)
    <3>1. Written(c.jobs) = Written(jobs) BY <2>1, <1>5, <1>9, <1>10, ForgetWritesNothing
    <3> QED BY <3>1, <1>5, FitsWritten
  <2> QED BY <1>4, <1>5, <1>8, <1>10, <2>2, <2>6, <2>7, LockedSound
<1>12. CASE read # None /\ read.url = u /\ Holding(entries, u) # {}
  <2>1. UNCHANGED <<entries, index, jobs>> BY <1>1, <1>2, <1>12 DEF TakeRead
  <2> QED BY <1>4, <1>5, <1>8, <2>1, AsideSound
<1>13. CASE read # None /\ read.url = u /\ Holding(entries, u) = {}
  <2>1. PICK c : c = [index |-> Without(d.index, u) \o Only(d.index, u), jobs |-> d.jobs] OBVIOUS
  <2>2. /\ index' = c.index /\ jobs' = c.jobs
        /\ entries' = Newest(Append(Without(entries, read.url), read), MemRoom)
    BY <1>1, <1>2, <1>9, <1>10, <1>13, <2>1 DEF TakeRead, Remember
  <2>3. Works(d, c) BY <2>1, <1>5, <1>6, <1>9, <1>10, MarkedUsed
  <2>4. \A e \in Written(c.jobs) : Own(e) BY <2>1, <1>5, <1>9, <1>10, FitsWritten
  <2>5. read \in Stored /\ Own(read) BY <1>2, <1>4, <1>6, <1>13 DEF OwnLoad
  <2>6. MemoryFits(entries') BY <2>2, <2>5, <1>5, RememberFits
  <2> QED BY <1>4, <1>5, <1>8, <1>10, <2>2, <2>3, <2>4, <2>6, LockedSound
<1> QED BY <1>11, <1>12, <1>13

LEMMA LookKeeps ==
    ASSUME All, NEW l \in Load, NEW use \in Use, LookUp(l, use)
    PROVE  All'
<1>1. PICK u : u = loads[l].url OBVIOUS
<1>2. PICK varying : varying = loads[l].varying OBVIOUS
<1>3. PICK found \in BOOLEAN : found = Found(u, varying, use) BY DEF Found
<1>4. PICK e : e = EntryFor(u) OBVIOUS
<1>5. /\ loads[l].at = "looking"
      /\ UNCHANGED <<index, jobs, step, files, attached, cookie, nameOf, count>>
      /\ entries' = IF found THEN Remember(entries, e) ELSE entries
  BY <1>1, <1>2, <1>3, <1>4 DEF LookUp
<1>6. u \in Url /\ varying \in Cookie BY <1>1, <1>2, <1>5, LoadTypes
<1>7. cookie \in Cookie /\ count \in Counts /\ MemoryFits(entries) /\ LoadsFit(loads) BY DEF All, Sound
<1>8. found => e \in Stored /\ e.url = u /\ Own(e) /\ e.varied \in {None, varying}
  <2>1. found => Holding(entries, u) # {} /\ Answers(e, varying) BY <1>3, <1>4 DEF Found
  <2> QED BY <2>1, <1>4, <1>7, EntryFits DEF Answers
<1>9. MemoryFits(entries') BY <1>5, <1>7, <1>8, RememberFits DEF Remember
<1>10. PICK r : /\ loads' = [loads EXCEPT ![l] = r]
                /\ \/ found /\ r = [at |-> "answered", url |-> u, from |-> "Cache", stored |-> e,
                                    varying |-> varying]
                   \/ r = Sending(u, varying, found /\ u \in Tagged)
  BY <1>1, <1>2, <1>3, <1>4 DEF LookUp, Answer, Goes
<1>11. r \in LoadStates /\ OwnLoad(r)
  <2>1. CASE r = Sending(u, varying, found /\ u \in Tagged)
    <3>1. (found /\ u \in Tagged) \in BOOLEAN OBVIOUS
    <3> QED BY <2>1, <3>1, <1>6, SendingFits
  <2>2. CASE found /\ r = [at |-> "answered", url |-> u, from |-> "Cache", stored |-> e, varying |-> varying]
    <3>1. r \in Reply BY <2>2, <1>6, <1>8 DEF Reply
    <3>2. OwnLoad(r) BY <2>2, <1>8 DEF OwnLoad, Own
    <3> QED BY <3>1, <3>2 DEF LoadStates
  <2> QED BY <1>10, <2>1, <2>2
<1>12. LoadsFit(loads') BY <1>7, <1>10, <1>11, LoadGoes
<1> QED BY <1>5, <1>7, <1>9, <1>12, AsideSound

LEMMA ServeKeeps ==
    ASSUME All, NEW l \in Load, NEW status \in Status, NEW keep \in BOOLEAN, Serve(l, status, keep)
    PROVE  All'
<1>1. PICK u : u = loads[l].url OBVIOUS
<1>2. PICK v : v = loads[l].varying OBVIOUS
<1>3. PICK b : b = IF status = 200 THEN u ELSE None OBVIOUS
<1>4. PICK x : x = IF u \in Varies THEN cookie ELSE None OBVIOUS
<1>5. PICK e : e = [url |-> u, body |-> b, varied |-> x] OBVIOUS
<1>6. PICK a : a = [status |-> status, keep |-> keep, stored |-> e] OBVIOUS
<1>7. PICK r : r = [at |-> "replied", url |-> u, varying |-> v, response |-> a] OBVIOUS
<1>8. /\ loads[l].at = "sending" /\ loads' = [loads EXCEPT ![l] = r]
      /\ UNCHANGED <<entries, index, jobs, step, files, attached, cookie, nameOf, count>>
  BY <1>1, <1>2, <1>3, <1>4, <1>5, <1>6, <1>7 DEF Serve, Goes
<1>9. u \in Url /\ v \in Cookie BY <1>1, <1>2, <1>8, LoadTypes
<1>10. cookie \in Cookie /\ count \in Counts /\ MemoryFits(entries) /\ LoadsFit(loads) BY DEF All, Sound
<1>11. b \in Url \cup {None} /\ x \in Cookie \cup {None} /\ b \in {u, None} BY <1>3, <1>4, <1>9, <1>10
<1>12. e \in Stored /\ Own(e) /\ e.url = u BY <1>5, <1>9, <1>11 DEF Stored, Own
<1>13. a \in Response BY <1>6, <1>12 DEF Response
<1>14. r \in Replied BY <1>7, <1>9, <1>13 DEF Replied
<1>15. OwnLoad(r) BY <1>6, <1>7, <1>12 DEF OwnLoad
<1>16. LoadsFit(loads') BY <1>8, <1>10, <1>14, <1>15, LoadGoes DEF LoadStates
<1> QED BY <1>8, <1>10, <1>16, AsideSound

LEMMA AbandonKeeps ==
    ASSUME All, NEW l \in Load, Abandon(l)
    PROVE  All'
<1>1. /\ loads' = [loads EXCEPT ![l] = Idle]
      /\ UNCHANGED <<entries, index, jobs, step, files, attached, cookie, nameOf, count>>
  BY DEF Abandon, Goes
<1>2. cookie \in Cookie /\ count \in Counts /\ MemoryFits(entries) /\ LoadsFit(loads) BY DEF All, Sound
<1>3. Idle \in LoadStates /\ OwnLoad(Idle) BY DEF LoadStates, Idle, OwnLoad
<1>4. LoadsFit(loads') BY <1>1, <1>2, <1>3, LoadGoes
<1> QED BY <1>1, <1>2, <1>4, AsideSound

LEMMA CookieKeeps ==
    ASSUME All, NEW c \in Cookie, SetCookie(c)
    PROVE  All'
<1>1. cookie' = c /\ UNCHANGED <<entries, index, jobs, step, files, attached, loads, nameOf, count>>
  BY DEF SetCookie
<1>2. count \in Counts /\ MemoryFits(entries) /\ LoadsFit(loads) BY DEF All, Sound
<1> QED BY <1>1, <1>2, AsideSound

(* What a response that arrives carries. *)
LEMMA ReplyFits ==
    ASSUME All, NEW l \in Load, loads[l].at = "replied"
    PROVE  /\ loads[l].url \in Url /\ loads[l].varying \in Cookie
           /\ loads[l].response.stored \in Stored /\ loads[l].response.stored.body \in {loads[l].url, None}
           /\ Recorded(l) \in Stored /\ Own(Recorded(l)) /\ loads[l].response.keep \in BOOLEAN
<1>1. loads[l].url \in Url /\ loads[l].varying \in Cookie /\ loads[l].response \in Response
      /\ OwnLoad(loads[l])
  BY LoadTypes
<1>2. PICK e : e = loads[l].response.stored OBVIOUS
<1>3. e \in Stored /\ loads[l].response.keep \in BOOLEAN BY <1>1, <1>2 DEF Response
<1>4. Own(e) /\ e.url = loads[l].url BY <1>1, <1>2 DEF OwnLoad
<1>5. PICK varied : varied = IF e.varied = None THEN None ELSE loads[l].varying OBVIOUS
<1>6. PICK f : f = [e EXCEPT !.varied = varied] OBVIOUS
<1>7. Recorded(l) = f BY <1>2, <1>5, <1>6 DEF Recorded
<1>8. varied \in Cookie \cup {None} BY <1>1, <1>5
<1>9. f \in Stored /\ f.url = e.url /\ f.body = e.body BY <1>3, <1>6, <1>8 DEF Stored
<1> QED BY <1>1, <1>2, <1>3, <1>4, <1>7, <1>9 DEF Own

LEMMA AnswerFits ==
    ASSUME LoadsFit(loads), NEW l \in Load, loads[l].url \in Url, loads[l].varying \in Cookie,
           NEW from \in {"Cache", "Revalidated", "Network"}, NEW e \in Stored, Answer(l, from, e),
           e.body \in {loads[l].url, None}, from # "Network" => e.varied \in {None, loads[l].varying}
    PROVE  LoadsFit(loads')
<1>1. PICK r : r = [at |-> "answered", url |-> loads[l].url, from |-> from, stored |-> e,
                    varying |-> loads[l].varying]
  OBVIOUS
<1>2. loads' = [loads EXCEPT ![l] = r] BY <1>1 DEF Answer, Goes
<1>3. r \in Reply BY <1>1 DEF Reply
<1>4. OwnLoad(r) BY <1>1 DEF OwnLoad
<1> QED BY <1>2, <1>3, <1>4, LoadGoes DEF LoadStates

(* What a write, or a replacement, adds to the queue. *)
LEMMA WriteOwns ==
    ASSUME nameOf \in [Url -> Hash], NEW d, DiskFits(d), NEW e \in Stored, Own(e),
           \A x \in Written(d.jobs) : Own(x)
    PROVE  \A x \in Written(Write(d, e).jobs) : Own(x)
<1>1. Written(Write(d, e).jobs) \subseteq Written(d.jobs) \cup {e} BY WriteWritesOne
<1> QED BY <1>1

LEMMA KeepOwns ==
    ASSUME nameOf \in [Url -> Hash], NEW d, DiskFits(d), NEW e \in Stored, Own(e), NEW kept \in BOOLEAN,
           \A x \in Written(d.jobs) : Own(x)
    PROVE  \A x \in Written((IF kept THEN Write(Forget(d, e.url), e) ELSE Forget(d, e.url)).jobs) : Own(x)
<1>1. PICK u : u = e.url OBVIOUS
<1>2. PICK f : f = Forget(d, u) OBVIOUS
<1>3. u \in Url BY <1>1 DEF Stored
<1>4. DiskFits(f) BY <1>2, <1>3, ForgetKeeps
<1>5. Written(f.jobs) = Written(d.jobs) BY <1>2, ForgetWritesNothing
<1>6. \A x \in Written(f.jobs) : Own(x) BY <1>5
<1>7. \A x \in Written(Write(f, e).jobs) : Own(x) BY <1>4, <1>6, WriteOwns
<1> QED BY <1>1, <1>2, <1>6, <1>7

LEMMA WriteWorks ==
    ASSUME nameOf \in [Url -> Hash], NEW d, DiskFits(d), Len(d.index) <= DiskRoom, NEW e \in Stored
    PROVE  Works(d, Write(d, e))
<1>1. PICK w : w = Write(d, e) OBVIOUS
<1>2. DiskFits(w) /\ Carries(d, w) /\ Len(w.index) <= DiskRoom BY <1>1, WriteKeeps
<1>3. ~attached /\ Empty(d) => Empty(w) BY <1>1, NothingWritten
<1> QED BY <1>1, <1>2, <1>3 DEF Works

(* Two changes under one lock. *)
LEMMA WorksOn ==
    ASSUME NEW a, NEW b, NEW c, Works(a, b), Works(b, c)
    PROVE  Works(a, c)
BY CarriesOn DEF Works

(* The parts of the invariant the steps under the lock start from. *)
LEMMA Tiers ==
    All => /\ cookie \in Cookie /\ count \in Counts /\ MemoryFits(entries) /\ LoadsFit(loads)
           /\ DiskFits(Disk) /\ Len(Disk.index) <= DiskRoom /\ nameOf \in [Url -> Hash]
           /\ \A x \in Written(Disk.jobs) : Own(x)
<1> SUFFICES ASSUME All
             PROVE  /\ cookie \in Cookie /\ count \in Counts /\ MemoryFits(entries) /\ LoadsFit(loads)
                    /\ DiskFits(Disk) /\ Len(Disk.index) <= DiskRoom /\ nameOf \in [Url -> Hash]
                    /\ \A x \in Written(Disk.jobs) : Own(x)
  OBVIOUS
<1>1. Disk.index = index /\ Disk.jobs = jobs BY DEF Disk
<1>2. Sound BY DEF All
<1>3. QueueFits(jobs) BY <1>2 DEF Sound
<1>4. \A x \in Written(jobs) : Own(x) BY <1>3, FitsWritten
<1>5. DiskFits(Disk) BY <1>1, <1>2, <1>3 DEF Sound, DiskFits, Disk, QueueFits
<1> QED BY <1>1, <1>2, <1>4, <1>5 DEF Sound

LEMMA NotModifiedKeeps ==
    ASSUME All, NEW l \in Load, NotModified(l)
    PROVE  All'
<1>1. PICK u : u = loads[l].url OBVIOUS
<1>2. PICK e : e = EntryFor(u) OBVIOUS
<1>3. PICK d : d = Disk OBVIOUS
<1>4. PICK c : c = Write(d, e) OBVIOUS
<1>5. /\ loads[l].at = "replied" /\ Found(u, loads[l].varying, "Fresh")
      /\ index' = c.index /\ jobs' = c.jobs /\ entries' = Remember(entries, e)
      /\ Answer(l, "Revalidated", e)
      /\ UNCHANGED <<step, files, attached, cookie, nameOf, count>>
  BY <1>1, <1>2, <1>3, <1>4 DEF NotModified, DiskBecomes
<1>6. /\ cookie \in Cookie /\ count \in Counts /\ MemoryFits(entries) /\ LoadsFit(loads)
      /\ DiskFits(d) /\ Len(d.index) <= DiskRoom /\ nameOf \in [Url -> Hash]
      /\ \A x \in Written(d.jobs) : Own(x)
  BY <1>3, Tiers
<1>7. loads[l].url \in Url /\ loads[l].varying \in Cookie BY <1>5, ReplyFits
<1>8. Holding(entries, u) # {} /\ e.varied \in {None, loads[l].varying} BY <1>2, <1>5 DEF Found, Answers
<1>9. e \in Stored /\ e.url = u /\ Own(e) BY <1>2, <1>6, <1>8, EntryFits
<1>10. Works(d, c) BY <1>4, <1>6, <1>9, WriteWorks
<1>11. \A x \in Written(c.jobs) : Own(x) BY <1>4, <1>6, <1>9, WriteOwns
<1>12. MemoryFits(entries') BY <1>5, <1>6, <1>9, RememberFits DEF Remember
<1>13. LoadsFit(loads') BY <1>1, <1>5, <1>6, <1>7, <1>8, <1>9, AnswerFits DEF Own
<1> QED BY <1>3, <1>5, <1>6, <1>10, <1>11, <1>12, <1>13, LockedSound

(* Cache::store and Cache::remove, after what was done to the disk tier before. *)
LEMMA KeepSound ==
    ASSUME All, NEW d, Works(Disk, d), \A x \in Written(d.jobs) : Own(x),
           NEW e \in Stored, Own(e), NEW kept \in BOOLEAN, Keep(d, e, kept),
           LoadsFit(loads'), UNCHANGED <<step, files, attached, cookie, nameOf, count>>
    PROVE  All'
<1>1. PICK c : c = IF kept THEN Write(Forget(d, e.url), e) ELSE Forget(d, e.url) OBVIOUS
<1>2. /\ index' = c.index /\ jobs' = c.jobs
      /\ entries' = IF kept THEN Remember(entries, e) ELSE Without(entries, e.url)
  BY <1>1 DEF Keep, DiskBecomes
<1>3. /\ cookie \in Cookie /\ count \in Counts /\ MemoryFits(entries) /\ nameOf \in [Url -> Hash]
  BY Tiers
<1>4. DiskFits(d) /\ Len(d.index) <= DiskRoom BY DEF Works
<1>5. Works(d, c) BY <1>1, <1>3, <1>4, KeepWorks
<1>6. Works(Disk, c) BY <1>5, WorksOn
<1>7. \A x \in Written(c.jobs) : Own(x) BY <1>1, <1>3, <1>4, KeepOwns
<1>8. MemoryFits(entries')
  <2>1. CASE kept BY <2>1, <1>2, <1>3, RememberFits DEF Remember
  <2>2. CASE ~kept BY <2>2, <1>2, <1>3, WithoutFits
  <2> QED BY <2>1, <2>2
<1> QED BY <1>2, <1>3, <1>6, <1>7, <1>8, LockedSound

LEMMA BareKeeps ==
    ASSUME All, NEW l \in Load, BareNotModified(l)
    PROVE  All'
<1>1. PICK u : u = loads[l].url OBVIOUS
<1>2. PICK d : d = IF Holding(entries, u) # {} THEN Write(Disk, EntryFor(u)) ELSE Disk OBVIOUS
<1>3. /\ loads[l].at = "replied" /\ Keep(d, Recorded(l), loads[l].response.keep)
      /\ Answer(l, "Network", loads[l].response.stored)
      /\ UNCHANGED <<step, files, attached, cookie, nameOf, count>>
  BY <1>1, <1>2 DEF BareNotModified
<1>4. /\ MemoryFits(entries) /\ LoadsFit(loads) /\ DiskFits(Disk) /\ Len(Disk.index) <= DiskRoom
      /\ nameOf \in [Url -> Hash] /\ \A x \in Written(Disk.jobs) : Own(x)
  BY Tiers
<1>5. /\ loads[l].url \in Url /\ loads[l].varying \in Cookie
      /\ loads[l].response.stored \in Stored /\ loads[l].response.stored.body \in {loads[l].url, None}
      /\ Recorded(l) \in Stored /\ Own(Recorded(l)) /\ loads[l].response.keep \in BOOLEAN
  BY <1>3, ReplyFits
<1>6. LoadsFit(loads') BY <1>3, <1>4, <1>5, AnswerFits
<1>7. Works(Disk, d) /\ \A x \in Written(d.jobs) : Own(x)
  <2>1. CASE Holding(entries, u) # {}
    <3>1. PICK e : e = EntryFor(u) OBVIOUS
    <3>2. e \in Stored /\ Own(e) BY <2>1, <3>1, <1>4, EntryFits
    <3>3. d = Write(Disk, e) BY <2>1, <3>1, <1>2
    <3> QED BY <3>2, <3>3, <1>4, WriteWorks, WriteOwns
  <2>2. CASE Holding(entries, u) = {}
    <3>1. d = Disk BY <2>2, <1>2
    <3>2. Works(d, d) BY <3>1, <1>4 DEF Works, Carries
    <3> QED BY <3>1, <3>2, <1>4
  <2> QED BY <2>1, <2>2
<1> QED BY <1>3, <1>5, <1>6, <1>7, KeepSound

LEMMA ReceiveKeeps ==
    ASSUME All, NEW l \in Load, Receive(l)
    PROVE  All'
<1>1. PICK d : d = Disk OBVIOUS
<1>2. /\ loads[l].at = "replied" /\ Keep(d, Recorded(l), loads[l].response.keep)
      /\ Answer(l, "Network", loads[l].response.stored)
      /\ UNCHANGED <<step, files, attached, cookie, nameOf, count>>
  BY <1>1 DEF Receive
<1>3. /\ LoadsFit(loads) /\ DiskFits(d) /\ Len(d.index) <= DiskRoom /\ \A x \in Written(d.jobs) : Own(x)
  BY <1>1, Tiers
<1>4. /\ loads[l].url \in Url /\ loads[l].varying \in Cookie
      /\ loads[l].response.stored \in Stored /\ loads[l].response.stored.body \in {loads[l].url, None}
      /\ Recorded(l) \in Stored /\ Own(Recorded(l)) /\ loads[l].response.keep \in BOOLEAN
  BY <1>2, ReplyFits
<1>5. LoadsFit(loads') BY <1>2, <1>3, <1>4, AnswerFits
<1>6. Works(d, d) BY <1>3 DEF Works, Carries
<1> QED BY <1>1, <1>2, <1>3, <1>4, <1>5, <1>6, KeepSound

(* What ends a run, empties the cache or fails is counted as itself. *)
LEMMA EventCounts ==
    ASSUME count \in Counts, NEW kind \in {"clears", "failures", "crashes", "quits"}, Event(kind)
    PROVE  /\ count' \in Counts
           /\ kind # "failures" => count'.failures = count.failures
           /\ kind # "crashes" => count'.crashes = count.crashes
<1>1. count' = [count EXCEPT ![kind] = @ + 1] BY DEF Event
<1>2. CASE kind = "clears" BY <1>1, <1>2 DEF Counts
<1>3. CASE kind = "failures" BY <1>1, <1>3 DEF Counts
<1>4. CASE kind = "crashes" BY <1>1, <1>4 DEF Counts
<1>5. CASE kind = "quits" BY <1>1, <1>5 DEF Counts
<1> QED BY <1>2, <1>3, <1>4, <1>5

LEMMA ClearSiteKeeps ==
    ASSUME All, NEW u \in Url, ClearSite(u)
    PROVE  All'
<1>1. PICK d : d = Disk OBVIOUS
<1>2. PICK c : c = Forget(d, u) OBVIOUS
<1>3. /\ Event("clears") /\ index' = c.index /\ jobs' = c.jobs /\ entries' = Without(entries, u)
      /\ UNCHANGED <<step, files, attached, loads, cookie, nameOf>>
  BY <1>1, <1>2 DEF ClearSite, DiskBecomes
<1>4. /\ cookie \in Cookie /\ count \in Counts /\ MemoryFits(entries) /\ LoadsFit(loads)
      /\ DiskFits(d) /\ Len(d.index) <= DiskRoom /\ \A x \in Written(d.jobs) : Own(x)
  BY <1>1, Tiers
<1>5. count' \in Counts /\ count'.failures = count.failures /\ count'.crashes = count.crashes
  BY <1>3, <1>4, EventCounts
<1>6. DiskFits(c) /\ Carries(d, c) /\ Len(c.index) <= Len(d.index) BY <1>2, <1>4, ForgetKeeps
<1>7. Len(c.index) <= DiskRoom
  <2>1. Len(c.index) \in Nat /\ Len(d.index) \in Nat /\ DiskRoom \in Nat
    BY <1>4, <1>6, CacheAssumption DEF DiskFits
  <2> QED BY <2>1, <1>4, <1>6
<1>8. Empty(d) => Empty(c) BY <1>2, NothingForgotten
<1>9. Works(d, c) BY <1>6, <1>7, <1>8 DEF Works
<1>10. \A x \in Written(c.jobs) : Own(x)
  <2>1. Written(c.jobs) = Written(d.jobs) BY <1>2, <1>4, ForgetWritesNothing
  <2> QED BY <2>1, <1>4
<1>11. MemoryFits(entries') BY <1>3, <1>4, WithoutFits
<1> QED BY <1>1, <1>3, <1>4, <1>5, <1>9, <1>10, <1>11, LockedSound

(* Nothing is of every type. *)
LEMMA NothingFits ==
    /\ <<>> \in Seq(Listing) /\ Unique(<<>>) /\ In(<<>>) = {} /\ Len(<<>>) <= DiskRoom
    /\ MemoryFits(<<>>) /\ QueueFits(<<>>) /\ Removals(<<>>) = <<>>
    /\ \A n, i : Untouched(<<>>, n, i)
<1>1. MemRoom \in Nat /\ DiskRoom \in Nat /\ QueueRoom \in Nat BY CacheAssumption
<1>2. <<>> \in Seq(Listing) /\ <<>> \in Seq(Stored) /\ <<>> \in Seq(Job) OBVIOUS
<1>3. Len(<<>>) = 0 /\ DOMAIN <<>> = {} OBVIOUS
<1>4. Unique(<<>>) BY <1>3 DEF Unique
<1>5. In(<<>>) = {} BY <1>3 DEF In
<1>6. Removals(<<>>) = <<>> BY DEF Removals
<1>7. Queued(<<>>) = 0
  <2>1. {i \in DOMAIN <<>> : <<>>[i].op = "Write"} = {} BY <1>3
  <2> QED BY <2>1, FS_EmptySet DEF Queued
<1>8. QueueFits(<<>>) BY <1>1, <1>2, <1>3, <1>7 DEF QueueFits
<1>9. MemoryFits(<<>>) BY <1>1, <1>2, <1>3, <1>4, <1>5 DEF MemoryFits
<1>10. \A n, i : Untouched(<<>>, n, i) BY <1>3 DEF Untouched
<1> QED BY <1>1, <1>2, <1>3, <1>4, <1>5, <1>6, <1>8, <1>9, <1>10

LEMMA ClearKeeps ==
    ASSUME All, Clear
    PROVE  All'
<1>1. PICK d : d = Disk OBVIOUS
<1>2. PICK es : es = d.index OBVIOUS
<1>3. PICK none : none = <<>> OBVIOUS
<1>4. PICK c : c = [index |-> none, jobs |-> d.jobs \o Removals(es)] OBVIOUS
<1>5. d.index = index /\ d.jobs = jobs BY <1>1 DEF Disk
<1>6. /\ Event("clears") /\ index' = c.index /\ jobs' = c.jobs /\ entries' = none
      /\ UNCHANGED <<step, files, attached, loads, cookie, nameOf>>
  BY <1>2, <1>3, <1>4, <1>5 DEF Clear
<1>7. /\ cookie \in Cookie /\ count \in Counts /\ MemoryFits(entries) /\ LoadsFit(loads)
      /\ DiskFits(d) /\ \A x \in Written(d.jobs) : Own(x)
  BY <1>1, Tiers
<1>8. count' \in Counts /\ count'.failures = count.failures /\ count'.crashes = count.crashes
  BY <1>6, <1>7, EventCounts
<1>9. none \in Seq(Listing) /\ Unique(none) /\ In(none) = {} /\ Len(none) <= DiskRoom /\ MemoryFits(none)
  BY <1>3, NothingFits
<1>10. es \in Seq(Listing) /\ d.jobs \in Seq(Job) BY <1>2, <1>7 DEF DiskFits
<1>11. In(none) \cup In(es) = In(d.index) /\ Apart(none, es) BY <1>2, <1>9 DEF Apart
<1>12. DiskFits(c) /\ Carries(d, c) BY <1>4, <1>7, <1>9, <1>10, <1>11, Dropped
<1>13. Empty(d) => Empty(c)
  <2> SUFFICES ASSUME d.index = <<>>, d.jobs = <<>> PROVE c.index = <<>> /\ c.jobs = <<>> BY DEF Empty
  <2>1. Removals(es) = <<>> BY <1>2, NothingFits
  <2> QED BY <2>1, <1>3, <1>4
<1>14. c.index = none /\ c.jobs = d.jobs \o Removals(es) BY <1>4
<1>15. Works(d, c) BY <1>9, <1>12, <1>13, <1>14 DEF Works
<1>16. \A x \in Written(c.jobs) : Own(x)
  <2>1. Written(c.jobs) = Written(d.jobs) BY <1>10, <1>14, RemovalsWriteNothing
  <2> QED BY <2>1, <1>7
<1> QED BY <1>1, <1>6, <1>7, <1>8, <1>9, <1>15, <1>16, LockedSound

(* The writing thread. *)
LEMMA WriterSound ==
    ASSUME All, Writer
    PROVE  Sound'
<1>1. Sound BY DEF All
<1>2. UNCHANGED <<entries, index, attached, loads, cookie, nameOf>> /\ jobs # <<>>
  BY DEF Writer, WriteBeside, FillBeside, RenameOver, WriteFails, RemoveFile, Writing
<1>3. jobs' = jobs \/ jobs' = Tail(jobs)
  BY DEF Writer, WriteBeside, FillBeside, RenameOver, WriteFails, RemoveFile
<1>4. QueueFits(jobs) /\ FilesFit(files) /\ count \in Counts /\ nameOf \in [Url -> Hash] BY <1>1 DEF Sound
<1>5. QueueFits(jobs')
  <2>1. CASE jobs' = jobs BY <2>1, <1>4
  <2>2. CASE jobs' = Tail(jobs) BY <2>2, <1>2, <1>4, TailFits
  <2> QED BY <1>3, <2>1, <2>2
<1>6. step' \in {"take", "beside", "filled"}
  BY <1>1 DEF Writer, WriteBeside, FillBeside, RenameOver, WriteFails, RemoveFile, Sound
<1>7. count' \in Counts
  <2>1. count' = count \/ Event("failures")
    BY DEF Writer, WriteBeside, FillBeside, RenameOver, WriteFails, RemoveFile
  <2>2. CASE count' = count BY <2>2, <1>4
  <2>3. CASE Event("failures") BY <2>3, <1>4, EventCounts
  <2> QED BY <2>1, <2>2, <2>3
<1>8. PICK h : h = Head1 OBVIOUS
<1>9. h = jobs[1] /\ h \in Job BY <1>2, <1>8, HasJobs DEF All
<1>10. ASSUME h.op = "Write" PROVE h.stored \in Stored /\ h.stored.url \in Url /\ Own(h.stored)
  <2>1. h.stored \in Stored BY <1>9, <1>10 DEF Job
  <2>2. 1 \in 1 .. Len(jobs) BY <1>2, <1>4, FirstJob DEF QueueFits
  <2>3. Own(h.stored) BY <2>2, <1>4, <1>9, <1>10 DEF QueueFits
  <2> QED BY <2>1, <2>3 DEF Stored
<1>11. FilesFit(files')
  <2>1. ASSUME NEW n \in FileName, NEW f \in File \cup {None}, f # None => Own(f.stored),
               files' = [files EXCEPT ![n] = f]
        PROVE  FilesFit(files')
    BY <2>1, <1>4 DEF FilesFit
  <2>2. CASE WriteBeside
    <3>1. PICK f : f = [stored |-> h.stored, whole |-> FALSE] OBVIOUS
    <3>2. PICK n : n = TempOf(h.stored.url) OBVIOUS
    <3>3. h.op = "Write" /\ files' = [files EXCEPT ![n] = f]
      BY <2>2, <3>1, <3>2, <1>8 DEF WriteBeside, Writing
    <3>4. n \in FileName BY <3>2, <3>3, <1>4, <1>10, FilesHaveNames
    <3>5. f \in File /\ Own(f.stored) BY <3>1, <3>3, <1>10 DEF File
    <3> QED BY <3>3, <3>4, <3>5, <2>1
  <2>3. CASE FillBeside
    <3>1. PICK n : n = TempOf(h.stored.url) OBVIOUS
    <3>2. h.op = "Write" /\ step = "beside" /\ files' = [files EXCEPT ![n].whole = TRUE]
      BY <2>3, <3>1, <1>8 DEF FillBeside, Writing
    <3>3. n \in FileName BY <3>1, <3>2, <1>4, <1>10, FilesHaveNames
    <3>4. files[n] # None BY <3>1, <3>2, <1>8 DEF All, Tier, UnderWay
    <3>5. files[n] \in File /\ Own(files[n].stored) BY <3>3, <3>4, <1>4 DEF FilesFit
    <3>6. PICK f : f = [files[n] EXCEPT !.whole = TRUE] OBVIOUS
    <3>7. f \in File /\ f.stored = files[n].stored BY <3>5, <3>6 DEF File
    <3>8. files' = [files EXCEPT ![n] = f] BY <3>2, <3>6
    <3> QED BY <3>3, <3>5, <3>7, <3>8, <2>1
  <2>4. CASE RenameOver
    <3>1. PICK n : n = FileOf(h.stored.url) OBVIOUS
    <3>2. PICK t : t = TempOf(h.stored.url) OBVIOUS
    <3>3. h.op = "Write" /\ files' = [files EXCEPT ![n] = files[t], ![t] = None]
      BY <2>4, <3>1, <3>2, <1>8 DEF RenameOver, Writing
    <3>4. n \in FileName /\ t \in FileName BY <3>1, <3>2, <3>3, <1>4, <1>10, FilesHaveNames
    <3>5. files' \in [FileName -> File \cup {None}] BY <3>3, <3>4, <1>4 DEF FilesFit
    <3>6. \A m \in FileName : files'[m] = None \/ files'[m] = files[m] \/ files'[m] = files[t]
      BY <3>3, <3>4, <1>4 DEF FilesFit
    <3> QED BY <3>4, <3>5, <3>6, <1>4 DEF FilesFit
  <2>5. CASE WriteFails BY <2>5, <1>4 DEF WriteFails
  <2>6. CASE RemoveFile
    <3>1. PICK n : n = h.file OBVIOUS
    <3>2. h.op = "Remove" /\ files' = [files EXCEPT ![n] = None] BY <2>6, <3>1, <1>8 DEF RemoveFile
    <3>3. n \in FileName BY <3>1, <3>2, <1>9 DEF Job
    <3> QED BY <3>2, <3>3, <2>1
  <2> QED BY <2>2, <2>3, <2>4, <2>5, <2>6 DEF Writer
<1> QED BY <1>1, <1>2, <1>5, <1>6, <1>7, <1>11 DEF Sound, MemoryFits, QueueFits, FilesFit, LoadsFit, OwnLoad, Own,
                                                Listing, LoadStates, Counts, Unique, In, Queued

LEMMA WriterStepKeeps ==
    ASSUME All, Writer
    PROVE  All'
<1>1. Sound' BY WriterSound
<1>2. TypeOK' BY <1>1, SoundTypes, PTL
<1>3. Tier BY DEF All
<1>4. Tier'
  BY <1>2, <1>3, FilledKeeps, RenameKeeps, RemoveKeeps, FailKeeps DEF Writer
<1> QED BY <1>1, <1>4 DEF All

(* What the scan of the directory finds: an address for each whole file, once. *)
LEMMA ScanFinds ==
    ASSUME files \in [FileName -> File \cup {None}], NEW found \in Scanned(files)
    PROVE  /\ found \in Seq(Listing) /\ Unique(found)
           /\ \A e \in In(found) : e.file \in Whole(files) /\ files[e.file].stored.url = e.url
           /\ \A n \in Whole(files) : Holding(found, files[n].stored.url) # {}
<1>1. PICK W : W = Whole(files) OBVIOUS
<1>2. PICK urls : urls = {files[n].stored.url : n \in W} OBVIOUS
<1>3. \A n \in W : n \in FileName /\ files[n] # None /\ files[n].whole BY <1>1 DEF Whole
<1>4. \A n \in W : files[n] \in File /\ files[n].stored.url \in Url BY <1>3 DEF File, Stored
<1>5. PICK p \in [urls -> W] : /\ \A u \in urls : files[p[u]].stored.url = u
                               /\ \E s \in SetToSeqs(urls) :
                                     found = [i \in DOMAIN s |-> [url |-> s[i], file |-> p[s[i]]]]
  <2>1. Scanned(files) =
          UNION {{[i \in DOMAIN s |-> [url |-> s[i], file |-> p[s[i]]]] :
                     s \in SetToSeqs({files[n].stored.url : n \in Whole(files)})} :
                 p \in {p \in [{files[n].stored.url : n \in Whole(files)} -> Whole(files)] :
                           \A u \in {files[n].stored.url : n \in Whole(files)} : files[p[u]].stored.url = u}}
    BY Zenon DEF Scanned
  <2>2. PICK p \in {p \in [{files[n].stored.url : n \in Whole(files)} -> Whole(files)] :
                       \A u \in {files[n].stored.url : n \in Whole(files)} : files[p[u]].stored.url = u} :
             found \in {[i \in DOMAIN s |-> [url |-> s[i], file |-> p[s[i]]]] :
                            s \in SetToSeqs({files[n].stored.url : n \in Whole(files)})}
    BY <2>1
  <2>3. /\ p \in [{files[n].stored.url : n \in Whole(files)} -> Whole(files)]
        /\ \A u \in {files[n].stored.url : n \in Whole(files)} : files[p[u]].stored.url = u
        /\ \E s \in SetToSeqs({files[n].stored.url : n \in Whole(files)}) :
              found = [i \in DOMAIN s |-> [url |-> s[i], file |-> p[s[i]]]]
    BY <2>2
  <2>4. W = Whole(files) /\ urls = {files[n].stored.url : n \in Whole(files)} BY <1>1, <1>2
  <2> QED BY <2>3, <2>4
<1>6. PICK s \in SetToSeqs(urls) : found = [i \in DOMAIN s |-> [url |-> s[i], file |-> p[s[i]]]] BY <1>5
<1>7. IsFiniteSet(W)
  <2>1. IsFiniteSet(Hash) BY CacheAssumption
  <2>2. IsFiniteSet({"entry", "writing"})
    <3>1. IsFiniteSet({"entry"}) BY FS_Singleton
    <3>2. IsFiniteSet({"entry"} \cup {"writing"}) BY <3>1, FS_AddElement
    <3>3. {"entry"} \cup {"writing"} = {"entry", "writing"} OBVIOUS
    <3> QED BY <3>2, <3>3
  <2>3. IsFiniteSet(FileName) BY <2>1, <2>2, FS_Product DEF FileName
  <2>4. W \in SUBSET FileName BY <1>3
  <2> QED BY <2>3, <2>4, FS_Subset
<1>8. IsFiniteSet(urls)
  <2>1. PICK g : g = [n \in W |-> files[n].stored.url] OBVIOUS
  <2>2. g \in [W -> urls] /\ \A u \in urls : \E n \in W : g[n] = u BY <2>1, <1>2
  <2>3. g \in Surjection(W, urls) BY <2>2 DEF Surjection
  <2> QED BY <2>3, <1>7, FS_Surjection
<1>9. PICK m : m = Cardinality(urls) OBVIOUS
<1>10. m \in Nat BY <1>8, <1>9, FS_CardinalityType
<1>11. s \in [1 .. m -> urls] /\ \A i, j \in 1 .. m : i # j => s[i] # s[j] BY <1>9 DEF SetToSeqs
<1>12. \A u \in urls : \E i \in 1 .. m : s[i] = u
  <2>1. s \in Injection(1 .. m, urls) BY <1>11 DEF Injection, IsInjective
  <2>2. Cardinality(1 .. m) = m
    <3>1. 1 \in Int /\ m \in Int BY <1>10
    <3>2. Cardinality(1 .. m) = IF 1 > m THEN 0 ELSE m - 1 + 1 BY <3>1, FS_Interval
    <3> QED BY <3>2, <1>10
  <2>3. s \in Surjection(1 .. m, urls) BY <2>1, <2>2, <1>8, <1>9, FS_Injection
  <2> QED BY <2>3 DEF Surjection
<1>13. found = [i \in 1 .. m |-> [url |-> s[i], file |-> p[s[i]]]] BY <1>6, <1>11
<1>14. \A i \in 1 .. m : /\ s[i] \in urls /\ s[i] \in Url /\ p[s[i]] \in W
                         /\ files[p[s[i]]].stored.url = s[i]
  BY <1>2, <1>4, <1>5, <1>11
<1>15. \A i \in 1 .. m : found[i].url = s[i] /\ found[i].file = p[s[i]] /\ found[i] \in Listing
  BY <1>3, <1>13, <1>14 DEF Listing
<1>16. found \in Seq(Listing) /\ Len(found) = m BY <1>10, <1>13, <1>15
<1>17. Unique(found) BY <1>11, <1>15, <1>16 DEF Unique
<1>18. \A e \in In(found) : e.file \in W /\ files[e.file].stored.url = e.url BY <1>14, <1>15, <1>16 DEF In
<1>19. ASSUME NEW n \in W PROVE Holding(found, files[n].stored.url) # {}
  <2>1. PICK u \in urls : u = files[n].stored.url BY <1>2
  <2>2. PICK i \in 1 .. m : s[i] = u BY <1>12
  <2>3. found[i] \in In(found) /\ found[i].url = u BY <2>2, <1>15, <1>16 DEF In
  <2> QED BY <2>1, <2>3, <1>16, HoldingIn
<1> QED BY <1>1, <1>16, <1>17, <1>18, <1>19

(* So the index it makes agrees with the directory. *)
LEMMA AttachKeeps ==
    ASSUME All, AttachDisk
    PROVE  All'
<1>1. PICK found \in Scanned(files) : DiskBecomes(MakeRoom([index |-> found, jobs |-> <<>>])) BY DEF AttachDisk
<1>2. ~attached /\ attached' = TRUE /\ UNCHANGED <<entries, step, files, loads, cookie, nameOf, count>>
  BY DEF AttachDisk
<1>3. Tier /\ Sound BY DEF All
<1>4. files \in [FileName -> File \cup {None}] BY <1>3 DEF Sound, FilesFit
<1>5. /\ found \in Seq(Listing) /\ Unique(found)
      /\ \A e \in In(found) : e.file \in Whole(files) /\ files[e.file].stored.url = e.url
      /\ \A n \in Whole(files) : Holding(found, files[n].stored.url) # {}
  BY <1>1, <1>4, ScanFinds
<1>6. jobs = <<>> /\ step = "take" BY <1>2, <1>3 DEF Tier, Empty, Disk, UnderWay
<1>7. PICK none : none = <<>> OBVIOUS
<1>8. none \in Seq(Job) /\ QueueFits(none) /\ \A n, i : Untouched(none, n, i) BY <1>7, NothingFits DEF QueueFits
<1>9. PICK d : d = [index |-> found, jobs |-> none] OBVIOUS
<1>10. PICK c : c = MakeRoom(d) OBVIOUS
<1>11. index' = c.index /\ jobs' = c.jobs BY <1>1, <1>7, <1>9, <1>10 DEF DiskBecomes
<1>12. d.index = found /\ d.jobs = none BY <1>9
<1>13. DiskFits(d) BY <1>5, <1>8, <1>9, <1>12 DEF DiskFits, QueueFits
<1>14. DiskFits(c) /\ Carries(d, c) /\ Len(c.index) <= DiskRoom BY <1>10, <1>13, MakeRoomKeeps
<1>15. \A n \in FileName : n \in Whole(files) <=> files[n] # None /\ files[n].whole BY DEF Whole
<1>16. DOMAIN none = {} BY <1>7
<1>17. \A n, u : Ends(none, n, u) <=> files[n] # None /\ files[n].whole /\ files[n].stored.url = u
  BY <1>8, <1>16 DEF Ends
<1>18. \A e \in In(found) : e.file \in FileName BY <1>5 DEF Whole
<1>19. Named(d) BY <1>3, <1>5, <1>12, <1>15, <1>18 DEF Tier, FilesNamed, Named
<1>20. Backed(d) BY <1>5, <1>12, <1>15, <1>17, <1>18 DEF Backed
<1>21. ASSUME FilesExact PROVE Exact(d) /\ NoGhost(d)
  <2>1. Exact(d) BY <1>5, <1>6, <1>12, <1>15, <1>18, <1>21 DEF FilesExact, Exact
  <2>2. NoGhost(d) BY <1>5, <1>6, <1>12, <1>15, <1>17, <1>21 DEF FilesExact, NoGhost
  <2> QED BY <2>1, <2>2
<1>22. Named(c) /\ Backed(c) /\ (FilesExact => Exact(c) /\ NoGhost(c)) BY <1>14, <1>19, <1>20, <1>21 DEF Carries
<1>23. Written(c.jobs) = Written(none) BY <1>5, <1>8, <1>10, <1>12, MakeRoomWritesNothing
<1>24. QueueFits(c.jobs) BY <1>14, <1>8, <1>23, FitsWritten, QueueOf
<1>25. c.index \in Seq(Listing) /\ Unique(c.index) BY <1>14 DEF DiskFits
<1>26. Sound' BY <1>2, <1>3, <1>11, <1>14, <1>24, <1>25
     DEF Sound, MemoryFits, QueueFits, FilesFit, LoadsFit, OwnLoad, Own,
         Listing, LoadStates, Counts, Unique, In, Queued
<1>27. TypeOK' BY <1>26, SoundTypes, PTL
<1>28. Disk'.index = c.index /\ Disk'.jobs = c.jobs BY <1>11 DEF Disk
<1>29. UnderWay' BY <1>2, <1>6 DEF UnderWay
<1>30. FilesNamed' BY <1>2, <1>3 DEF Tier, FilesNamed, Names, FileOf, TempOf
<1>31. Named(Disk)' BY <1>2, <1>22, <1>28 DEF Named, In, Names, FileOf, TempOf
<1>32. Backed(Disk)' BY <1>2, <1>22, <1>28 DEF Backed, In, Alone, Ends, Untouched, Touches, FileOf, TempOf
<1>33. ASSUME FilesExact PROVE FilesExact' BY <1>2, <1>6, <1>33 DEF FilesExact, FileOf
<1>34. ASSUME Exact(c) PROVE Exact(Disk)' BY <1>2, <1>28, <1>34 DEF Exact, In, FileOf
<1>35. ASSUME NoGhost(c) PROVE NoGhost(Disk)'
  BY <1>2, <1>28, <1>35 DEF NoGhost, Holding, Ends, Untouched, Touches, FileOf, TempOf
<1>36. Tier' BY <1>2, <1>3, <1>22, <1>27, <1>29, <1>30, <1>31, <1>32, <1>33, <1>34, <1>35 DEF Tier
<1> QED BY <1>26, <1>36 DEF All

(* The end of a run, and the start of the next. *)
LEMMA NewRun ==
    ASSUME All, NextRun, FilesFit(files'), FilesNamed',
           count' \in Counts, count'.failures = count.failures,
           count'.failures = 0 /\ count'.crashes = 0 => FilesExact'
    PROVE  All'
<1>1. /\ entries' = <<>> /\ index' = <<>> /\ jobs' = <<>> /\ step' = "take"
      /\ attached' = FALSE /\ loads' = [l \in Load |-> Idle]
      /\ UNCHANGED <<cookie, nameOf>>
  BY DEF NextRun
<1>2. Sound BY DEF All
<1>3. LoadsFit(loads')
  <2>1. Idle \in LoadStates /\ OwnLoad(Idle) BY DEF LoadStates, Idle, OwnLoad
  <2> QED BY <2>1, <1>1 DEF LoadsFit
<1>4. MemoryFits(entries') /\ QueueFits(jobs') /\ index' \in Seq(Listing) /\ Unique(index')
      /\ Len(index') <= DiskRoom
  BY <1>1, NothingFits
<1>5. Sound' BY <1>1, <1>2, <1>3, <1>4
     DEF Sound, MemoryFits, QueueFits, FilesFit, LoadsFit, OwnLoad, Own,
         Listing, LoadStates, Counts, Unique, In, Queued
<1>6. TypeOK' BY <1>5, SoundTypes, PTL
<1>7. Disk'.index = <<>> /\ Disk'.jobs = <<>> BY <1>1 DEF Disk
<1>8. In(Disk.index)' = {} BY <1>7, NothingFits DEF In
<1>9. Empty(Disk)' BY <1>7 DEF Empty
<1>10. Named(Disk)' BY <1>8 DEF Named
<1>11. Backed(Disk)' BY <1>8 DEF Backed
<1>12. Exact(Disk)' BY <1>8 DEF Exact
<1>13. UnderWay' BY <1>1 DEF UnderWay
<1>14. Tier' BY <1>1, <1>6, <1>9, <1>10, <1>11, <1>12, <1>13 DEF Tier
<1> QED BY <1>5, <1>14 DEF All

LEMMA QuitKeeps ==
    ASSUME All, Quit
    PROVE  All'
<1>1. jobs = <<>> /\ Event("quits") /\ NextRun /\ UNCHANGED <<files, nameOf>> BY DEF Quit, NextRun
<1>2. Sound /\ Tier BY DEF All
<1>3. count \in Counts /\ FilesFit(files) BY <1>2 DEF Sound
<1>4. count' \in Counts /\ count'.failures = count.failures /\ count'.crashes = count.crashes
  BY <1>1, <1>3, EventCounts
<1>5. FilesFit(files') BY <1>1, <1>3
<1>6. FilesNamed' BY <1>1, <1>2 DEF Tier, FilesNamed, Names, FileOf, TempOf
<1>7. step = "take" BY <1>1, <1>2 DEF Tier, UnderWay
<1>8. FilesExact => FilesExact' BY <1>1, <1>7 DEF FilesExact, FileOf
<1> QED BY <1>1, <1>2, <1>4, <1>5, <1>6, <1>8, NewRun DEF Tier

LEMMA CrashKeeps ==
    ASSUME All, Crash
    PROVE  All'
<1>1. Event("crashes") /\ NextRun /\ UNCHANGED nameOf BY DEF Crash, NextRun
<1>2. Sound /\ Tier BY DEF All
<1>3. count \in Counts /\ FilesFit(files) BY <1>2 DEF Sound
<1>4. count' \in Counts /\ count'.failures = count.failures BY <1>1, <1>3, EventCounts
<1>5. count'.crashes # 0
  <2>1. count' = [count EXCEPT !["crashes"] = @ + 1] BY <1>1 DEF Event
  <2> QED BY <2>1, <1>3 DEF Counts
<1>6. PICK cut \in SUBSET Whole(files) :
          files' = [n \in FileName |-> IF n \in cut THEN [files[n] EXCEPT !.whole = FALSE] ELSE files[n]]
  BY DEF Crash
<1>7. \A n \in FileName : \/ files'[n] = files[n]
                          \/ files[n] # None /\ files'[n] \in File /\ files'[n].stored = files[n].stored
  <2> SUFFICES ASSUME NEW n \in FileName
               PROVE  \/ files'[n] = files[n]
                      \/ files[n] # None /\ files'[n] \in File /\ files'[n].stored = files[n].stored
    OBVIOUS
  <2>1. CASE n \notin cut BY <2>1, <1>6
  <2>2. CASE n \in cut
    <3>1. files[n] # None BY <2>2 DEF Whole
    <3>2. files[n] \in File BY <3>1, <1>3 DEF FilesFit
    <3>3. PICK f : f = [files[n] EXCEPT !.whole = FALSE] OBVIOUS
    <3>4. f \in File /\ f.stored = files[n].stored BY <3>2, <3>3 DEF File
    <3>5. files'[n] = f BY <2>2, <3>3, <1>6
    <3> QED BY <3>1, <3>4, <3>5
  <2> QED BY <2>1, <2>2
<1>8. FilesFit(files')
  <2>1. files' = [n \in FileName |-> files'[n]] BY <1>6
  <2>2. \A n \in FileName : files'[n] \in File \cup {None} BY <1>3, <1>7 DEF FilesFit
  <2>3. \A n \in FileName : files'[n] # None => Own(files'[n].stored) BY <1>3, <1>7 DEF FilesFit
  <2>4. files' \in [FileName -> File \cup {None}] BY <2>1, <2>2
  <2> QED BY <2>3, <2>4 DEF FilesFit
<1>9. FilesNamed' BY <1>1, <1>2, <1>7 DEF Tier, FilesNamed, Names, FileOf, TempOf
<1> QED BY <1>1, <1>4, <1>5, <1>8, <1>9, NewRun

(* The invariant holds at the start, *)
LEMMA AllInit == Init => All
<1> SUFFICES ASSUME Init PROVE All OBVIOUS
<1>1. /\ entries = <<>> /\ index = <<>> /\ jobs = <<>> /\ step = "take"
      /\ files = [n \in FileName |-> None] /\ attached = FALSE
      /\ loads = [l \in Load |-> Idle] /\ cookie \in Cookie /\ nameOf \in [Url -> Hash]
      /\ count = [loads |-> 0, clears |-> 0, failures |-> 0, crashes |-> 0, quits |-> 0]
  BY DEF Init
<1>2. Idle \in LoadStates /\ OwnLoad(Idle) BY DEF LoadStates, Idle, OwnLoad
<1>3. LoadsFit(loads) BY <1>1, <1>2 DEF LoadsFit
<1>4. FilesFit(files) BY <1>1 DEF FilesFit
<1>5. count \in Counts
  <2>1. 0 \in 0 .. MaxLoads BY CacheAssumption
  <2> QED BY <2>1, <1>1 DEF Counts
<1>6. MemoryFits(entries) /\ QueueFits(jobs) /\ index \in Seq(Listing) /\ Unique(index)
      /\ Len(index) <= DiskRoom /\ In(index) = {}
  BY <1>1, NothingFits
<1>7. Sound BY <1>1, <1>3, <1>4, <1>5, <1>6 DEF Sound
<1>8. Disk.index = index /\ Disk.jobs = jobs BY DEF Disk
<1>9. Named(Disk) /\ Backed(Disk) /\ Exact(Disk) /\ Empty(Disk)
  BY <1>1, <1>6, <1>8 DEF Named, Backed, Exact, Empty
<1>10. \A n \in FileName : files[n] = None BY <1>1
<1>11. FilesNamed /\ FilesExact /\ UnderWay BY <1>1, <1>10 DEF FilesNamed, FilesExact, UnderWay
<1>12. Tier BY <1>1, <1>7, <1>9, <1>11, SoundTypes DEF Tier
<1> QED BY <1>7, <1>12 DEF All

(* and survives every step. *)
LEMMA AllStep == All /\ [Next]_vars => All'
<1> SUFFICES ASSUME All, [Next]_vars PROVE All' OBVIOUS
<1>1. ASSUME NEW l \in Load, NEW u \in Url, NEW mode \in Mode, Begin(l, u, mode) PROVE All'
  BY <1>1, BeginKeeps
<1>2. ASSUME NEW l \in Load, ReadAt(l) PROVE All' BY <1>2, ReadKeeps
<1>3. ASSUME NEW l \in Load, TakeRead(l) PROVE All' BY <1>3, TakeKeeps
<1>4. ASSUME NEW l \in Load, Receive(l) PROVE All' BY <1>4, ReceiveKeeps
<1>5. ASSUME NEW l \in Load, Abandon(l) PROVE All' BY <1>5, AbandonKeeps
<1>6. ASSUME NEW l \in Load, NotModified(l) PROVE All' BY <1>6, NotModifiedKeeps
<1>7. ASSUME NEW l \in Load, BareNotModified(l) PROVE All' BY <1>7, BareKeeps
<1>8. ASSUME NEW l \in Load, NEW use \in Use, LookUp(l, use) PROVE All' BY <1>8, LookKeeps
<1>9. ASSUME NEW l \in Load, NEW status \in Status, NEW keep \in BOOLEAN, Serve(l, status, keep) PROVE All'
  BY <1>9, ServeKeeps
<1>10. CASE Writer BY <1>10, WriterStepKeeps
<1>11. ASSUME NEW u \in Url, ClearSite(u) PROVE All' BY <1>11, ClearSiteKeeps
<1>12. ASSUME NEW c \in Cookie, SetCookie(c) PROVE All' BY <1>12, CookieKeeps
<1>13. CASE Clear BY <1>13, ClearKeeps
<1>14. CASE AttachDisk BY <1>14, AttachKeeps
<1>15. CASE Quit BY <1>15, QuitKeeps
<1>16. CASE Crash BY <1>16, CrashKeeps
<1>17. CASE UNCHANGED vars
  <2>1. UNCHANGED <<entries, index, jobs, step, files, attached, loads, cookie, nameOf, count>>
    BY <1>17 DEF vars
  <2>2. cookie \in Cookie /\ count \in Counts /\ MemoryFits(entries) /\ LoadsFit(loads) BY Tiers
  <2> QED BY <2>1, <2>2, AsideSound
<1> QED BY <1>1, <1>2, <1>3, <1>4, <1>5, <1>6, <1>7, <1>8, <1>9, <1>10, <1>11, <1>12, <1>13, <1>14,
           <1>15, <1>16, <1>17 DEF Next

LEMMA AlwaysAll == Spec => []All
BY AllInit, AllStep, PTL DEF Spec

(* Type correctness, with the room of the two tiers and of the queue never *)
(* exceeded, and each address listed once: Cache, Disk and the writing     *)
(* thread of loader.rs.                                                    *)
THEOREM TypeCorrect == Spec => []TypeOK
<1>1. All => TypeOK BY SoundTypes DEF All
<1> QED BY <1>1, AlwaysAll, PTL

(* Whatever a load is answered with is a response of its own address, and  *)
(* one kept in the cache depends on no cookie but the one the load carries. *)
THEOREM AnswersAreTheirOwn == Spec => []OwnAnswer
<1>1. All => OwnAnswer BY SoundAnswers DEF All
<1> QED BY <1>1, AlwaysAll, PTL

(* What the cache has forgotten will be gone from the directory once the   *)
(* queue of the writing thread is played, if nothing failed or crashed.    *)
THEOREM ForgottenIsGone == Spec => []ForgottenLeavesNoFile
<1>1. All => ForgottenLeavesNoFile BY TierIsEnough DEF All
<1> QED BY <1>1, AlwaysAll, PTL

(* What the index lists will be in its file once the queue is played, if   *)
(* no write failed and no other address has the same file.                 *)
THEOREM ListedIsOnFile == Spec => []IndexedIsOnFile
<1>1. All => IndexedIsOnFile BY TierIsEnough DEF All
<1> QED BY <1>1, AlwaysAll, PTL

===============================================================================
