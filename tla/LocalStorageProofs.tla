-------------------------- MODULE LocalStorageProofs --------------------------
(***************************************************************************)
(* Proofs about LocalStorage. Two invariants carry them.                   *)
(*                                                                         *)
(* Base holds of every run. The log is the newest of what script made, and *)
(* what it made is numbered in order (Log); each document has heard, in    *)
(* order and once, of what is meant for it up to where it has seen, and    *)
(* what it never hears of is as old as the log is long (AllTold). What the *)
(* log holds for a document, Since, is followed one change at a time.      *)
(*                                                                         *)
(* Whole is about the write that has had the partial file to itself so     *)
(* far: every other thread is idle (Solo), and what it is to rename it     *)
(* wrote to the end. When such a write has renamed the file nobody writes  *)
(* to what the file names, and it stays as it is until two that met rename *)
(* it.                                                                     *)
(***************************************************************************)
EXTENDS LocalStorage, SequenceTheorems, FiniteSetTheorems, WellFoundedInduction, NaturalsInduction, TLAPS

(* What holds at the start and is carried from each place to the next      *)
(* holds at every place.                                                   *)
LEMMA CarriedThrough ==
  ASSUME NEW n \in Nat, NEW X, NEW h, h[0] \in X,
         \A i \in 1..n : h[i - 1] \in X => h[i] \in X
  PROVE  \A i \in 0..n : h[i] \in X
<1> DEFINE Bad == {i \in 0..n : h[i] \notin X}
<1>1. CASE Bad = {}  BY <1>1
<1>2. CASE Bad # {}
  <2>1. Bad \subseteq Nat  OBVIOUS
  <2>2. PICK m \in Bad : \A j \in Bad : ~(<<j, m>> \in OpToRel(<, Nat))
    <3> HIDE DEF Bad
    <3> QED  BY <1>2, <2>1, NatLessThanWellFounded, WFMin, Zenon
  <2>3. m \in Nat /\ m \in 1..n /\ m - 1 \in 0..n /\ m - 1 \in Nat /\ m - 1 < m  OBVIOUS
  <2>4. m - 1 \notin Bad
    <3>1. <<m - 1, m>> \in OpToRel(<, Nat)  BY <2>3 DEF OpToRel
    <3> QED  BY <2>2, <3>1
  <2> QED  BY <2>3, <2>4
<1> QED  BY <1>1, <1>2

(* The function that takes a start through n steps exists.                 *)
Runs(g, n, X, base, step) ==
    g \in [0..n -> X] /\ g[0] = base /\ \A i \in 1..n : g[i] = step[i][g[i - 1]]

LEMMA Stepwise ==
  ASSUME NEW n \in Nat, NEW X, NEW base \in X, NEW step \in [1..n -> [X -> X]]
  PROVE  \E g : Runs(g, n, X, base, step)
<1> DEFINE Solves(g, k) == /\ g \in [0..k -> X]
                           /\ g = [i \in 0..k |-> IF i = 0 THEN base ELSE step[i][g[i - 1]]]
           h == [k \in 0..n |-> IF \E g : Solves(g, k) THEN 1 ELSE 0]
<1>1. h[0] \in {1}
  <2> DEFINE g == [i \in 0..0 |-> base]
  <2>1. g \in [0..0 -> X]  OBVIOUS
  <2>2. g = [i \in 0..0 |-> IF i = 0 THEN base ELSE step[i][g[i - 1]]]
    <3>1. \A i \in 0..0 : i = 0  OBVIOUS
    <3> QED  BY <3>1
  <2>3. Solves(g, 0) /\ 0 \in 0..n  BY <2>1, <2>2
  <2> HIDE DEF Solves, g
  <2> QED  BY <2>3
<1>2. ASSUME NEW k \in 1..n, h[k - 1] \in {1} PROVE h[k] \in {1}
  <2>0. k \in Nat /\ k - 1 \in 0..n /\ k \in 0..n  OBVIOUS
  <2>1. PICK g : Solves(g, k - 1)  BY <1>2, <2>0
  <2> DEFINE f == [i \in 0..k |-> IF i = k THEN step[k][g[k - 1]] ELSE g[i]]
  <2>2. g[k - 1] \in X /\ step[k][g[k - 1]] \in X  BY <2>0, <2>1
  <2>3. f \in [0..k -> X]
    <3>1. \A i \in 0..k : i # k => i \in 0..(k - 1)  BY <2>0
    <3> QED  BY <2>1, <2>2, <3>1
  <2>4. ASSUME NEW i \in 0..k
        PROVE  f[i] = IF i = 0 THEN base ELSE step[i][f[i - 1]]
    <3>1. CASE i = k
      <4>1. k - 1 \in 0..k /\ k - 1 # k /\ i # 0  BY <2>0, <3>1
      <4>2. f[i - 1] = g[k - 1]  BY <3>1, <4>1
      <4> QED  BY <3>1, <4>1, <4>2
    <3>2. CASE i # k
      <4>1. i \in 0..(k - 1) /\ f[i] = g[i]  BY <2>0, <3>2
      <4>2. CASE i = 0  BY <2>1, <4>1, <4>2
      <4>3. CASE i # 0
        <5>1. i - 1 \in 0..k /\ i - 1 # k  BY <2>0, <4>1, <4>3
        <5>2. f[i - 1] = g[i - 1]  BY <5>1
        <5> QED  BY <2>1, <4>1, <4>3, <5>2
      <4> QED  BY <4>2, <4>3
    <3> QED  BY <3>1, <3>2
  <2>5. f = [i \in 0..k |-> IF i = 0 THEN base ELSE step[i][f[i - 1]]]
    <3> HIDE DEF f
    <3> SUFFICES f = [i \in 0..k |-> f[i]]  BY <2>4
    <3> QED  BY <2>3
  <2>6. Solves(f, k)  BY <2>3, <2>5
  <2> HIDE DEF Solves
  <2> QED  BY <2>0, <2>6
<1>3. \A k \in 0..n : h[k] \in {1}
  <2>1. \A i \in 1..n : h[i - 1] \in {1} => h[i] \in {1}  BY <1>2
  <2> HIDE DEF h
  <2>2. n \in Nat  OBVIOUS
  <2>3. \A i \in 0..n : h[i] \in {1}  
    <3>1. PICK Y : Y = {1}  OBVIOUS
    <3>2. h[0] \in Y /\ \A i \in 1..n : h[i - 1] \in Y => h[i] \in Y  BY <1>1, <2>1, <3>1
    <3>3. \A i \in 0..n : h[i] \in Y  BY <3>2, <2>2, CarriedThrough
    <3> QED  BY <3>3, <3>1
  <2> QED  BY <2>3
<1>4. \E g : Solves(g, n)
  <2>1. n \in 0..n  OBVIOUS
  <2> HIDE DEF Solves
  <2> QED  BY <1>3, <2>1
<1>5. PICK g : Solves(g, n)  BY <1>4
<1>6. g[0] = base  BY <1>5
<1>7. \A i \in 1..n : g[i] = step[i][g[i - 1]]
  <2>1. \A i \in 1..n : i \in 0..n /\ i # 0  OBVIOUS
  <2> QED  BY <1>5, <2>1
<1> QED  BY <1>5, <1>6, <1>7 DEF Runs

(* s keeps, in order, what d is to be told of the first i changes of the log. *)
Keeps(s, d, i) ==
    /\ s \in Seq(Change)
    /\ \A j \in 1 .. Len(s) : \E l \in 1 .. i : s[j] = log[l] /\ Unheard(d, log[l])
    /\ \A l \in 1 .. i : Unheard(d, log[l]) => \E j \in 1 .. Len(s) : s[j] = log[l]
    /\ \A j, k \in 1 .. Len(s) : j < k => s[j].seq < s[k].seq

(* One more change of the log keeps what is kept. *)
LEMMA KeepsOneMore ==
    ASSUME log \in Seq(Change), NEW d, NEW i \in 1 .. Len(log),
           \A j, k \in 1 .. Len(log) : j < k => log[j].seq < log[k].seq,
           NEW s, Keeps(s, d, i - 1)
    PROVE  Keeps(IF Unheard(d, log[i]) THEN Append(s, log[i]) ELSE s, d, i)
<1>0. i \in Nat /\ i - 1 \in Nat /\ Len(log) \in Nat /\ s \in Seq(Change) /\ Len(s) \in Nat
  BY DEF Keeps
<1>00. \A l : l \in 1 .. i <=> l \in 1 .. i - 1 \/ l = i BY <1>0
<1>1. CASE ~Unheard(d, log[i])
  <2>1. \A j \in 1 .. Len(s) : \E l \in 1 .. i : s[j] = log[l] /\ Unheard(d, log[l])
    BY <1>00 DEF Keeps
  <2>2. \A l \in 1 .. i : Unheard(d, log[l]) => \E j \in 1 .. Len(s) : s[j] = log[l]
    BY <1>00, <1>1 DEF Keeps
  <2> QED BY <2>1, <2>2, <1>1 DEF Keeps
<1>2. CASE Unheard(d, log[i])
  <2> PICK q : q = Append(s, log[i]) OBVIOUS
  <2>1. log[i] \in Change OBVIOUS
  <2>2. /\ q \in Seq(Change) /\ Len(q) = Len(s) + 1 /\ q[Len(s) + 1] = log[i]
        /\ \A j \in 1 .. Len(s) : q[j] = s[j]
    BY <1>0, <2>1, AppendProperties
  <2>3. \A j : j \in 1 .. Len(q) <=> j \in 1 .. Len(s) \/ j = Len(s) + 1 BY <2>2, <1>0
  <2>4. \A j \in 1 .. Len(q) : \E l \in 1 .. i : q[j] = log[l] /\ Unheard(d, log[l])
    <3> SUFFICES ASSUME NEW j \in 1 .. Len(q) PROVE \E l \in 1 .. i : q[j] = log[l] /\ Unheard(d, log[l])
      OBVIOUS
    <3>1. CASE j \in 1 .. Len(s) BY <3>1, <2>2, <1>00 DEF Keeps
    <3>2. CASE j = Len(s) + 1 BY <3>2, <2>2, <1>2, <1>00
    <3> QED BY <3>1, <3>2, <2>3
  <2>5. \A l \in 1 .. i : Unheard(d, log[l]) => \E j \in 1 .. Len(q) : q[j] = log[l]
    <3> SUFFICES ASSUME NEW l \in 1 .. i, Unheard(d, log[l]) PROVE \E j \in 1 .. Len(q) : q[j] = log[l]
      OBVIOUS
    <3>1. CASE l = i BY <3>1, <2>2, <2>3
    <3>2. CASE l \in 1 .. i - 1
      <4>1. PICK j \in 1 .. Len(s) : s[j] = log[l] BY <3>2 DEF Keeps
      <4> QED BY <4>1, <2>2, <2>3
    <3> QED BY <3>1, <3>2, <1>00
  <2>6. ASSUME NEW j \in 1 .. Len(q), NEW k \in 1 .. Len(q), j < k
        PROVE  q[j].seq < q[k].seq
    <3>1. j \in 1 .. Len(s) BY <2>6, <2>2, <1>0
    <3>2. CASE k \in 1 .. Len(s) BY <3>1, <3>2, <2>6, <2>2 DEF Keeps
    <3>3. CASE k = Len(s) + 1
      <4>1. PICK l \in 1 .. i - 1 : s[j] = log[l] BY <3>1 DEF Keeps
      <4>2. l \in 1 .. Len(log) /\ l < i BY <1>0
      <4> QED BY <4>1, <4>2, <3>1, <3>3, <2>2
    <3> QED BY <3>2, <3>3, <2>3
  <2>7. Keeps(q, d, i) BY <2>2, <2>4, <2>5, <2>6 DEF Keeps
  <2> QED BY <2>7, <1>2
<1> QED BY <1>1, <1>2

(* So Since keeps, of the whole log, what is for the document and new to it. *)
LEMMA SinceKeeps ==
    ASSUME log \in Seq(Change), NEW d,
           \A j, k \in 1 .. Len(log) : j < k => log[j].seq < log[k].seq
    PROVE  Keeps(Since(d), d, Len(log))
<1> DEFINE m == Len(log)
           step == [i \in 1..m |-> [k \in Seq(Change) |->
                      IF Unheard(d, log[i]) THEN Append(k, log[i]) ELSE k]]
           kept == CHOOSE f : f = [i \in 0..m |->
                      IF i = 0 THEN << >>
                      ELSE IF Unheard(d, log[i]) THEN Append(f[i - 1], log[i]) ELSE f[i - 1]]
<1>1. m \in Nat /\ \A i \in 1..m : log[i] \in Change  OBVIOUS
<1>2. step \in [1..m -> [Seq(Change) -> Seq(Change)]]  BY <1>1
<1>3. << >> \in Seq(Change)  OBVIOUS
<1>4. PICK g : Runs(g, m, Seq(Change), << >>, step)
  <2> HIDE DEF step, m
  <2> QED  BY <1>1, <1>2, <1>3, Stepwise
<1>5. g = [i \in 0..m |-> IF i = 0 THEN << >>
                          ELSE IF Unheard(d, log[i]) THEN Append(g[i - 1], log[i]) ELSE g[i - 1]]
  <2>1. ASSUME NEW i \in 0..m, i # 0
        PROVE  g[i] = IF Unheard(d, log[i]) THEN Append(g[i - 1], log[i]) ELSE g[i - 1]
    <3>1. i \in 1..m /\ i - 1 \in 0..m  BY <1>1, <2>1
    <3>2. g[i - 1] \in Seq(Change) /\ g[i] = step[i][g[i - 1]]  BY <1>4, <3>1 DEF Runs
    <3> QED  BY <3>1, <3>2
  <2>2. ASSUME NEW i \in 0..m, i = 0 PROVE g[i] = << >>  BY <1>4, <2>2 DEF Runs
  <2>3. g = [i \in 0..m |-> g[i]]  BY <1>4 DEF Runs
  <2> HIDE DEF step, m
  <2> QED  BY <2>1, <2>2, <2>3
<1>6. kept = [i \in 0..m |-> IF i = 0 THEN << >>
                             ELSE IF Unheard(d, log[i]) THEN Append(kept[i - 1], log[i]) ELSE kept[i - 1]]
  <2> HIDE DEF m
  <2> QED  BY <1>5, Zenon
<1>7. Since(d) = kept[m]  BY DEF Since
<1> HIDE DEF kept, step
<1> DEFINE h == [i \in 0..m |-> IF Keeps(kept[i], d, i) THEN 1 ELSE 0]
<1>8. h[0] \in {1}
  <2>1. kept[0] = << >> BY <1>1, <1>6
  <2>2. Keeps(<< >>, d, 0) BY <1>3, EmptySeq DEF Keeps
  <2> QED BY <2>1, <2>2, <1>1
<1>9. ASSUME NEW i \in 1..m, h[i - 1] \in {1} PROVE h[i] \in {1}
  <2>1. i \in 0..m /\ i # 0 /\ i - 1 \in 0..m  BY <1>1
  <2>2. kept[i] = IF Unheard(d, log[i]) THEN Append(kept[i - 1], log[i]) ELSE kept[i - 1]
    BY <1>6, <2>1
  <2>3. Keeps(kept[i - 1], d, i - 1) BY <1>9, <2>1
  <2> PICK s : s = kept[i - 1] OBVIOUS
  <2>4. Keeps(s, d, i - 1) BY <2>3
  <2>5. Keeps(IF Unheard(d, log[i]) THEN Append(s, log[i]) ELSE s, d, i) BY <2>4, KeepsOneMore
  <2>6. Keeps(kept[i], d, i) BY <2>5, <2>2
  <2> QED  BY <2>6, <2>1
<1>10. \A i \in 0..m : h[i] \in {1}
  <2> HIDE DEF m, h
  <2>1. PICK Y : Y = {1}  OBVIOUS
  <2>2. m \in Nat /\ h[0] \in Y /\ \A i \in 1..m : h[i - 1] \in Y => h[i] \in Y
    BY <1>1, <1>8, <1>9, <2>1
  <2>3. \A i \in 0..m : h[i] \in Y  BY <2>2, CarriedThrough
  <2> QED  BY <2>1, <2>3
<1>11. m \in 0..m BY <1>1
<1> QED  BY <1>1, <1>7, <1>10, <1>11

States == {Idle} \cup [at : {"opening"}, text : Moment, solo : BOOLEAN]
                 \cup [at : {"renaming"}, solo : BOOLEAN]
                 \cup [at : {"writing"}, text : Moment, solo : BOOLEAN, inode : Inode]
Document == [open : {TRUE}, ready : BOOLEAN, origin : Origin, since : Nat, seen : Nat, heard : Seq(Nat)]

(* The type invariant by the names used here. *)
LEMMA TypeParts ==
    TypeOK <=>
        /\ phase \in {"running", "dropping", "over"} /\ dirty \in BOOLEAN /\ rested \in BOOLEAN
        /\ area \in Moment
        /\ writers \in [Thread -> States] /\ crossed \in BOOLEAN
        /\ names \in [path : Inode \cup {None}, partial : Inode \cup {None}]
        /\ content \in [Inode -> Moment \cup {Short, Mixed}]
        /\ made \in Seq(Change) /\ log \in Seq(Change) /\ Len(log) <= LogRoom
        /\ docs \in [Doc -> {Closed} \cup Document]
        /\ changes \in 0 .. MaxChanges /\ opens \in 0 .. MaxOpens
        /\ failures \in 0 .. MaxFailures /\ runs \in 0 .. MaxRuns
  BY DEF TypeOK, States, Document

(* The log is the newest of what was made, and what was made is numbered. *)
Log ==
    /\ Len(log) = IF Len(made) <= LogRoom THEN Len(made) ELSE LogRoom
    /\ \A i \in 1 .. Len(log) : log[i] = made[Len(made) - Len(log) + i]
    /\ \A n \in 1 .. Len(made) : made[n].seq = n

(* What d is to hear of, and how far it has: all of it, but for what is still to
   come and what the log had no room for. *)
Meant(d) == {n \in 1 .. Len(made) : n > docs[d].since /\ For(d, made[n])}
Rising(s) == \A i, j \in 1 .. Len(s) : i < j => s[i] < s[j]
Has(s, n) == \E i \in 1 .. Len(s) : s[i] = n
Told(d) ==
    /\ docs[d].since <= docs[d].seen /\ docs[d].seen <= Len(made)
    /\ Rising(docs[d].heard)
    /\ \A i \in 1 .. Len(docs[d].heard) : docs[d].heard[i] \in Meant(d) /\ docs[d].heard[i] <= docs[d].seen
    /\ \A n \in Meant(d) : Has(docs[d].heard, n) \/ n > docs[d].seen \/ Len(made) - n >= LogRoom
AllTold == \A d \in Doc : docs[d].open => Told(d)

(* A document that listens is more than closed. *)
LEMMA OpenDocument ==
    ASSUME TypeOK, NEW d \in Doc
    PROVE  /\ docs[d] \in Document \cup {Closed}
           /\ docs[d].open => docs[d] \in Document /\ docs[d].since \in Nat /\ docs[d].seen \in Nat
                              /\ docs[d].heard \in Seq(Nat)
<1>1. docs[d] \in {Closed} \cup Document BY TypeParts
<1>2. CASE docs[d] = Closed
  <2>1. docs[d].open = FALSE BY <1>2 DEF Closed
  <2> QED BY <2>1, <1>2
<1>3. CASE docs[d] \in Document BY <1>3 DEF Document
<1> QED BY <1>1, <1>2, <1>3

(* The log is in the order in which the changes were made. *)
LEMMA LogRises ==
    ASSUME TypeOK, Log
    PROVE  /\ \A j, k \in 1 .. Len(log) : j < k => log[j].seq < log[k].seq
           /\ \A l \in 1 .. Len(log) : log[l].seq \in 1 .. Len(made) /\ log[l] = made[log[l].seq]
           /\ \A n \in 1 .. Len(made) : Len(made) - n >= LogRoom \/ \E l \in 1 .. Len(log) : log[l].seq = n
<1>1. Len(made) \in Nat /\ Len(log) \in Nat /\ LogRoom \in Nat /\ Len(log) <= Len(made)
  BY TypeParts, StorageAssumption DEF Log
<1>2. \A l \in 1 .. Len(log) : Len(made) - Len(log) + l \in 1 .. Len(made)
  BY <1>1
<1>3. \A l \in 1 .. Len(log) : log[l].seq = Len(made) - Len(log) + l
  BY <1>2 DEF Log
<1>4. ASSUME NEW n \in 1 .. Len(made)
      PROVE  Len(made) - n >= LogRoom \/ \E l \in 1 .. Len(log) : log[l].seq = n
  <2> PICK l : l = n - (Len(made) - Len(log)) OBVIOUS
  <2>1. CASE l \in 1 .. Len(log)
    <3>1. log[l].seq = n BY <2>1, <1>1, <1>3
    <3> QED BY <2>1, <3>1
  <2>2. CASE l \notin 1 .. Len(log)
    <3>1. l < 1 BY <2>2, <1>1
    <3>2. Len(log) = LogRoom BY <3>1, <1>1 DEF Log
    <3> QED BY <3>1, <3>2, <1>1
  <2> QED BY <2>1, <2>2
<1>5. \A l \in 1 .. Len(log) : log[l] = made[log[l].seq] BY <1>3 DEF Log
<1>6. \A j, k \in 1 .. Len(log) : j < k => log[j].seq < log[k].seq BY <1>1, <1>3
<1> QED BY <1>2, <1>3, <1>4, <1>5, <1>6

(* What Base says of the documents is what the property asks. *)
LEMMA ToldIsEnough ==
    ASSUME TypeOK, Log, AllTold
    PROVE  OthersAreTold
<1> SUFFICES ASSUME NEW d \in Doc, docs[d].open
             PROVE  LET heard == docs[d].heard
                        meant == {n \in DOMAIN made : n > docs[d].since /\ For(d, made[n])}
                    IN  /\ \A i, j \in DOMAIN heard : i < j => heard[i] < heard[j]
                        /\ ToSet(heard) \subseteq meant
                        /\ \A n \in meant \ ToSet(heard) :
                               \/ \E i \in DOMAIN log : log[i].seq = n /\ n > docs[d].seen
                               \/ Len(made) - n >= LogRoom
  BY DEF OthersAreTold
<1> PICK heard : heard = docs[d].heard OBVIOUS
<1>1. heard \in Seq(Nat) /\ made \in Seq(Change) /\ log \in Seq(Change) BY OpenDocument, TypeParts
<1>2. DOMAIN heard = 1 .. Len(heard) /\ DOMAIN made = 1 .. Len(made) /\ DOMAIN log = 1 .. Len(log)
  BY <1>1
<1>3. {n \in DOMAIN made : n > docs[d].since /\ For(d, made[n])} = Meant(d) BY <1>2 DEF Meant
<1>4. \A n : n \in ToSet(heard) <=> Has(heard, n) BY <1>2 DEF ToSet, Has
<1>5. Told(d) BY DEF AllTold
<1>6. \A i, j \in DOMAIN heard : i < j => heard[i] < heard[j] BY <1>2, <1>5 DEF Told, Rising
<1>7. ToSet(heard) \subseteq Meant(d) BY <1>4, <1>5 DEF Told, Has
<1>8. \A n \in Meant(d) \ ToSet(heard) :
          \/ \E i \in DOMAIN log : log[i].seq = n /\ n > docs[d].seen
          \/ Len(made) - n >= LogRoom
  <2> SUFFICES ASSUME NEW n \in Meant(d), ~Has(heard, n), ~(Len(made) - n >= LogRoom)
               PROVE  \E i \in DOMAIN log : log[i].seq = n /\ n > docs[d].seen
    BY <1>4
  <2>1. n > docs[d].seen BY <1>5 DEF Told
  <2>2. n \in 1 .. Len(made) BY DEF Meant
  <2> QED BY <2>1, <2>2, <1>2, LogRises
<1> QED BY <1>3, <1>6, <1>7, <1>8

(* A document that hears what it is to be told has been told up to there. *)
LEMMA Hearing ==
    ASSUME TypeOK, Log, AllTold, NEW d \in Doc, docs[d].open, Since(d) # <<>>,
           NEW doc, doc = [docs[d] EXCEPT !.seen = Last(Since(d)).seq,
                             !.heard = @ \o [i \in DOMAIN Since(d) |-> Since(d)[i].seq]]
    PROVE  /\ doc \in Document /\ doc.origin = docs[d].origin /\ doc.since = docs[d].since
           /\ doc.since <= doc.seen /\ doc.seen <= Len(made)
           /\ Rising(doc.heard)
           /\ \A i \in 1 .. Len(doc.heard) : doc.heard[i] \in Meant(d) /\ doc.heard[i] <= doc.seen
           /\ \A n \in Meant(d) : Has(doc.heard, n) \/ n > doc.seen \/ Len(made) - n >= LogRoom
<1> PICK s : s = Since(d) OBVIOUS
<1>1. docs[d] \in Document /\ docs[d].since \in Nat /\ docs[d].seen \in Nat /\ docs[d].heard \in Seq(Nat)
      /\ made \in Seq(Change) /\ log \in Seq(Change) /\ Len(made) \in Nat
  BY OpenDocument, TypeParts
<1>2. Keeps(s, d, Len(log)) BY LogRises, <1>1, SinceKeeps
<1>3. s \in Seq(Change) /\ Len(s) \in Nat \ {0} /\ DOMAIN s = 1 .. Len(s) BY <1>2, EmptySeq DEF Keeps
<1> PICK news : news = [i \in DOMAIN s |-> s[i].seq] OBVIOUS
<1> PICK old : old = docs[d].heard OBVIOUS
<1> PICK seen : seen = Last(s).seq OBVIOUS
<1>4. \A i \in 1 .. Len(s) : s[i] \in Change /\ s[i].seq \in Nat
  <2>1. \A i \in 1 .. Len(s) : s[i] \in Change BY <1>3
  <2>2. \A c \in Change : c.seq \in Nat BY DEF Change
  <2> QED BY <2>1, <2>2
<1>5. news \in Seq(Nat) /\ Len(news) = Len(s) /\ \A i \in 1 .. Len(s) : news[i] = s[i].seq
  BY <1>3, <1>4
<1>6. seen = news[Len(s)] /\ seen \in Nat BY <1>3, <1>4, <1>5 DEF Last
<1> PICK heard : heard = old \o news OBVIOUS
<1>7. /\ heard \in Seq(Nat) /\ Len(heard) = Len(old) + Len(news) /\ Len(old) \in Nat
      /\ \A i \in 1 .. Len(old) + Len(news) :
             heard[i] = IF i <= Len(old) THEN old[i] ELSE news[i - Len(old)]
  BY <1>1, <1>5, ConcatProperties
<1>8. \A i \in 1 .. Len(old) : i \in 1 .. Len(heard) /\ heard[i] = old[i] BY <1>7, <1>3, <1>5
<1>9. \A i \in 1 .. Len(s) : Len(old) + i \in 1 .. Len(heard) /\ heard[Len(old) + i] = news[i]
  <2> SUFFICES ASSUME NEW i \in 1 .. Len(s)
               PROVE  Len(old) + i \in 1 .. Len(heard) /\ heard[Len(old) + i] = news[i]
    OBVIOUS
  <2> PICK k : k = Len(old) + i OBVIOUS
  <2> PICK m : m = Len(old) OBVIOUS
  <2> PICK n : n = Len(news) OBVIOUS
  <2>1. m \in Nat /\ n \in Nat /\ i \in 1 .. n BY <1>7, <1>3, <1>5
  <2>2. k = m + i BY <2>1
  <2>3. k \in 1 .. m + n /\ ~(k <= m) /\ k - m = i BY <2>1, <2>2
  <2> QED BY <2>1, <2>3, <1>7
<1>10. \A i \in 1 .. Len(heard) : i \in 1 .. Len(old) \/ \E k \in 1 .. Len(s) : i = Len(old) + k
  <2> SUFFICES ASSUME NEW i \in 1 .. Len(heard), i \notin 1 .. Len(old)
               PROVE  \E k \in 1 .. Len(s) : i = Len(old) + k
    OBVIOUS
  <2> PICK m : m = Len(old) OBVIOUS
  <2> PICK n : n = Len(s) OBVIOUS
  <2>1. m \in Nat /\ n \in Nat /\ i \in 1 .. m + n /\ i \notin 1 .. m BY <1>7, <1>3, <1>5
  <2>2. i - m \in 1 .. n /\ i = m + (i - m) BY <2>1
  <2> QED BY <2>2
<1>11. doc = [docs[d] EXCEPT !.seen = seen, !.heard = heard] OBVIOUS
<1>12. doc \in Document /\ doc.origin = docs[d].origin /\ doc.since = docs[d].since
       /\ doc.seen = seen /\ doc.heard = heard
  BY <1>11, <1>1, <1>6, <1>7 DEF Document
<1>13. Told(d) BY DEF AllTold
\* what is new: in the log, meant for this document, and not heard before
<1>14. \A k \in 1 .. Len(s) : news[k] \in 1 .. Len(made) /\ news[k] > docs[d].seen /\ For(d, made[news[k]])
  <2> SUFFICES ASSUME NEW k \in 1 .. Len(s)
               PROVE  news[k] \in 1 .. Len(made) /\ news[k] > docs[d].seen /\ For(d, made[news[k]])
    OBVIOUS
  <2>1. PICK l \in 1 .. Len(log) : s[k] = log[l] /\ Unheard(d, log[l]) BY <1>2 DEF Keeps
  <2>2. news[k] = log[l].seq BY <2>1, <1>5
  <2>3. log[l].seq \in 1 .. Len(made) /\ log[l] = made[log[l].seq] BY LogRises
  <2> QED BY <2>1, <2>2, <2>3 DEF Unheard
<1>15. Rising(news)
  <2> SUFFICES ASSUME NEW i \in 1 .. Len(s), NEW j \in 1 .. Len(s), i < j PROVE news[i] < news[j]
    BY <1>5 DEF Rising
  <2> QED BY <1>2, <1>5 DEF Keeps
<1>16. \A k \in 1 .. Len(s) : news[k] <= seen
  <2> SUFFICES ASSUME NEW k \in 1 .. Len(s), k # Len(s) PROVE news[k] <= news[Len(s)]
    <3>1. news[Len(s)] <= seen BY <1>6
    <3> QED BY <3>1, <1>6
  <2>1. k < Len(s) /\ Len(s) \in 1 .. Len(s) BY <1>3
  <2>2. news[k] < news[Len(s)] BY <2>1, <1>15, <1>5 DEF Rising
  <2>3. news[k] \in Nat /\ news[Len(s)] \in Nat BY <2>1, <1>4, <1>5
  <2> QED BY <2>2, <2>3
<1>17. docs[d].seen < seen /\ seen <= Len(made)
  <2>1. Len(s) \in 1 .. Len(s) BY <1>3
  <2>2. news[Len(s)] \in 1 .. Len(made) /\ news[Len(s)] > docs[d].seen BY <2>1, <1>14
  <2> QED BY <2>2, <1>6, <1>1
<1>18. docs[d].since <= seen BY <1>17, <1>13, <1>1, <1>6 DEF Told
<1>19. \A i \in 1 .. Len(old) : old[i] \in Meant(d) /\ old[i] <= docs[d].seen /\ old[i] \in Nat
  BY <1>13 DEF Told, Meant
<1>20. \A k \in 1 .. Len(s) : news[k] \in Meant(d)
  <2> SUFFICES ASSUME NEW k \in 1 .. Len(s) PROVE news[k] > docs[d].since
    BY <1>14 DEF Meant
  <2>1. news[k] > docs[d].seen /\ news[k] \in Nat BY <1>14, <1>4, <1>5
  <2>2. docs[d].since <= docs[d].seen BY <1>13 DEF Told
  <2> QED BY <2>1, <2>2, <1>1
<1>21. \A i \in 1 .. Len(heard) : heard[i] \in Meant(d) /\ heard[i] <= seen
  <2> SUFFICES ASSUME NEW i \in 1 .. Len(heard) PROVE heard[i] \in Meant(d) /\ heard[i] <= seen
    OBVIOUS
  <2>1. CASE i \in 1 .. Len(old)
    <3>1. heard[i] = old[i] /\ old[i] \in Meant(d) /\ old[i] <= docs[d].seen /\ old[i] \in Nat
      BY <2>1, <1>8, <1>19
    <3>2. heard[i] <= seen
      <4> PICK a : a = old[i] OBVIOUS
      <4> PICK b : b = docs[d].seen OBVIOUS
      <4>1. a \in Nat /\ b \in Nat /\ seen \in Nat /\ a <= b /\ b < seen BY <3>1, <1>17, <1>1, <1>6
      <4>2. a <= seen BY <4>1
      <4> QED BY <4>2, <3>1
    <3> QED BY <3>1, <3>2
  <2>2. CASE \E k \in 1 .. Len(s) : i = Len(old) + k BY <2>2, <1>9, <1>16, <1>20
  <2> QED BY <2>1, <2>2, <1>10
<1>22. Rising(heard)
  <2> SUFFICES ASSUME NEW i \in 1 .. Len(heard), NEW j \in 1 .. Len(heard), i < j PROVE heard[i] < heard[j]
    BY DEF Rising
  <2>1. CASE j \in 1 .. Len(old)
    <3>1. i \in 1 .. Len(old) BY <2>1, <1>7
    <3> QED BY <2>1, <3>1, <1>8, <1>13 DEF Told, Rising
  <2>2. CASE \E k \in 1 .. Len(s) : j = Len(old) + k
    <3>1. PICK k \in 1 .. Len(s) : j = Len(old) + k BY <2>2
    <3>2. heard[j] = news[k] /\ news[k] > docs[d].seen /\ news[k] \in Nat BY <3>1, <1>4, <1>5, <1>9, <1>14
    <3>3. CASE i \in 1 .. Len(old)
      <4>1. heard[i] = old[i] /\ old[i] <= docs[d].seen /\ old[i] \in Nat BY <3>3, <1>8, <1>19
      <4> PICK a : a = old[i] OBVIOUS
      <4> PICK b : b = docs[d].seen OBVIOUS
      <4> PICK c : c = news[k] OBVIOUS
      <4>2. a \in Nat /\ b \in Nat /\ c \in Nat /\ a <= b /\ c > b BY <4>1, <3>2, <1>1
      <4>3. a < c BY <4>2
      <4> QED BY <4>3, <4>1, <3>2
    <3>4. CASE \E l \in 1 .. Len(s) : i = Len(old) + l
      <4>1. PICK l \in 1 .. Len(s) : i = Len(old) + l BY <3>4
      <4>2. l < k BY <4>1, <3>1, <1>7
      <4>3. news[l] < news[k] BY <4>2, <1>15, <1>5 DEF Rising
      <4> QED BY <4>1, <4>3, <3>2, <1>9
    <3> QED BY <3>3, <3>4, <1>10
  <2> QED BY <2>1, <2>2, <1>10
<1>23. ASSUME NEW n \in Meant(d), ~(n > seen), ~(Len(made) - n >= LogRoom)
       PROVE  Has(heard, n)
  <2>0. n \in 1 .. Len(made) /\ For(d, made[n]) BY DEF Meant
  <2>1. CASE Has(old, n) BY <2>1, <1>8 DEF Has
  <2>2. CASE ~Has(old, n)
    <3>1. n > docs[d].seen BY <2>2, <1>23, <1>13 DEF Told
    <3>2. PICK l \in 1 .. Len(log) : log[l].seq = n BY <2>0, <1>23, LogRises
    <3>3. log[l] = made[n] BY <3>2, LogRises
    <3>4. Unheard(d, log[l]) BY <2>0, <3>1, <3>2, <3>3 DEF Unheard
    <3>5. PICK k \in 1 .. Len(s) : s[k] = log[l] BY <3>4, <1>2 DEF Keeps
    <3>6. news[k] = n BY <3>5, <3>2, <1>5
    <3> QED BY <3>6, <1>9 DEF Has
  <2> QED BY <2>1, <2>2
<1> QED BY <1>12, <1>17, <1>18, <1>21, <1>22, <1>23

Base == TypeOK /\ Log /\ AllTold

(* Steps of the writers leave what the documents know. *)
LEMMA PageUnchanged ==
    ASSUME Log, AllTold, UNCHANGED <<made, log, docs>>
    PROVE  Log' /\ AllTold'
<1>1. Log' BY DEF Log
<1>2. \A d : Told(d) => Told(d)' BY DEF Told, Meant, For
<1>3. AllTold' BY <1>2 DEF AllTold
<1> QED BY <1>1, <1>3

(* There are two more inodes than threads, *)
LEMMA NumberOfThreads ==
    /\ IsFiniteSet(Thread) /\ Cardinality(Thread) \in Nat /\ Cardinality(Thread) >= 1
    /\ IsFiniteSet(Inode) /\ Cardinality(Inode) = Cardinality(Thread) + 2
<1>1. IsFiniteSet(Writer) /\ Owner \notin Writer BY StorageAssumption
<1>2. IsFiniteSet(Thread) /\ Cardinality(Thread) = Cardinality(Writer) + 1 /\ Cardinality(Writer) \in Nat
  BY <1>1, FS_AddElement, FS_CardinalityType DEF Thread
<1>3. IsFiniteSet(1 .. Cardinality(Thread) + 2)
      /\ Cardinality(1 .. Cardinality(Thread) + 2) = Cardinality(Thread) + 2
  <2> PICK b : b = Cardinality(Thread) + 2 OBVIOUS
  <2>1. b \in Int /\ 1 \in Int /\ ~(1 > b) /\ b - 1 + 1 = b BY <1>2
  <2>2. IsFiniteSet(1 .. b) /\ Cardinality(1 .. b) = IF 1 > b THEN 0 ELSE b - 1 + 1
    BY <2>1, FS_Interval
  <2> QED BY <2>1, <2>2
<1> QED BY <1>2, <1>3 DEF Inode

(* There is always an inode that nothing names and nobody writes to. *)
(* so that one is neither the file nor being written. *)
LEMMA FreshInode ==
    \E i \in Inode : i # names.path /\ \A v \in Thread : writers[v].at = "writing" => i # writers[v].inode
<1> DEFINE W == {v \in Thread : writers[v].at = "writing"}
           f == [v \in W |-> writers[v].inode]
           T == {f[v] : v \in W}
<1>1. IsFiniteSet(W) /\ Cardinality(W) <= Cardinality(Thread) /\ Cardinality(W) \in Nat
  <2>1. W \in SUBSET Thread OBVIOUS
  <2> HIDE DEF W
  <2> QED BY <2>1, NumberOfThreads, FS_Subset, FS_CardinalityType
<1>2. f \in Surjection(W, T) BY DEF Surjection
<1>3. IsFiniteSet(T) /\ Cardinality(T) <= Cardinality(W) /\ Cardinality(T) \in Nat
  <2> HIDE DEF W, f, T
  <2>1. IsFiniteSet(T) /\ Cardinality(T) <= Cardinality(W) BY <1>1, <1>2, FS_Surjection
  <2> QED BY <2>1, FS_CardinalityType
<1> PICK p : p = names.path OBVIOUS
<1>4. IsFiniteSet(T \cup {p}) /\ Cardinality(T \cup {p}) <= Cardinality(T) + 1 /\ Cardinality(T \cup {p}) \in Nat
  <2> HIDE DEF T
  <2> PICK U : U = T \cup {p} OBVIOUS
  <2>1. IsFiniteSet(U) /\ Cardinality(U) = IF p \in T THEN Cardinality(T) ELSE Cardinality(T) + 1
    BY <1>3, FS_AddElement
  <2>2. Cardinality(U) \in Nat BY <2>1, FS_CardinalityType
  <2> QED BY <1>3, <2>1, <2>2
<1>5. ~(Inode \subseteq T \cup {p})
  <2> SUFFICES ASSUME Inode \subseteq T \cup {p} PROVE FALSE OBVIOUS
  <2> HIDE DEF T, W, f
  <2> PICK U : U = T \cup {p} OBVIOUS
  <2>1. IsFiniteSet(U) /\ Inode \in SUBSET U BY <1>4
  <2>2. Cardinality(Inode) <= Cardinality(U) BY <2>1, FS_Subset
  <2>3. Cardinality(U) <= Cardinality(T) + 1 /\ Cardinality(U) \in Nat BY <1>4
  <2> QED BY <2>2, <2>3, <1>1, <1>3, NumberOfThreads
<1>6. PICK i \in Inode : i \notin T \cup {p} BY <1>5
<1>7. \A v \in Thread : writers[v].at = "writing" => writers[v].inode \in T
  <2> SUFFICES ASSUME NEW v \in Thread, writers[v].at = "writing" PROVE writers[v].inode \in T
    OBVIOUS
  <2>1. v \in W /\ f[v] = writers[v].inode OBVIOUS
  <2> QED BY <2>1
<1> HIDE DEF T
<1> QED BY <1>6, <1>7

(* A step of one thread. *)
LEMMA WriterStep ==
    ASSUME TypeOK, NEW w \in Thread, NEW x \in States, writers' = [writers EXCEPT ![w] = x]
    PROVE  writers' \in [Thread -> States] /\ writers'[w] = x
           /\ \A v \in Thread : v # w => writers'[v] = writers[v]
  BY TypeParts

(* What is known of a thread by where it is. *)
LEMMA WriterStates ==
    ASSUME TypeOK, NEW w \in Thread
    PROVE  /\ writers[w] \in States /\ writers[w].at \in {"idle", "opening", "writing", "renaming"}
           /\ writers[w].at # "idle" => writers[w].solo \in BOOLEAN
           /\ writers[w].at \in {"opening", "writing"} => writers[w].text \in Moment
           /\ writers[w].at = "writing" => writers[w].inode \in Inode
           /\ writers[w].at = "idle" => writers[w] = Idle
<1>1. writers[w] \in States BY TypeParts
<1> QED BY <1>1 DEF States, Idle

LEMMA IdleState == Idle \in States /\ [w \in Thread |-> Idle] \in [Thread -> States]
  BY DEF States

(* A write that begins: those under way have met it, and go on as they were. *)
LEMMA BeganStep ==
    ASSUME TypeOK, NEW w \in Thread, Began(w)
    PROVE  /\ writers' \in [Thread -> States]
           /\ writers'[w].at = "opening" /\ writers'[w].solo = (Busy = {})
           /\ \A v \in Thread : v # w =>
                 /\ writers'[v].at = writers[v].at
                 /\ writers[v].at # "idle" => ~writers'[v].solo
                 /\ writers[v].at = "writing" => writers'[v].inode = writers[v].inode
<1> PICK x : x = [at |-> "opening", text |-> area, solo |-> Busy = {}] OBVIOUS
<1>1. writers' = [v \in Thread |-> IF v = w THEN x ELSE Met(writers[v])] BY DEF Began
<1>2. x \in States /\ x.at = "opening" /\ x.solo = (Busy = {}) BY TypeParts DEF States
<1>3. ASSUME NEW v \in Thread
      PROVE  /\ Met(writers[v]) \in States /\ Met(writers[v]).at = writers[v].at
             /\ writers[v].at # "idle" => ~Met(writers[v]).solo
             /\ writers[v].at = "writing" => Met(writers[v]).inode = writers[v].inode
  <2>1. writers[v] \in States BY TypeParts
  <2>2. CASE writers[v] = Idle BY <2>2, IdleState DEF Met, Idle
  <2>3. CASE writers[v] \in [at : {"opening"}, text : Moment, solo : BOOLEAN] BY <2>3 DEF Met, States
  <2>4. CASE writers[v] \in [at : {"renaming"}, solo : BOOLEAN] BY <2>4 DEF Met, States
  <2>5. CASE writers[v] \in [at : {"writing"}, text : Moment, solo : BOOLEAN, inode : Inode]
    BY <2>5 DEF Met, States
  <2> QED BY <2>1, <2>2, <2>3, <2>4, <2>5 DEF States
<1> QED BY <1>1, <1>2, <1>3

(* Base holds at the start. *)
LEMMA BaseInit == Init => Base
<1> SUFFICES ASSUME Init PROVE Base OBVIOUS
<1>0. {MaxChanges, MaxOpens, MaxFailures, MaxRuns} \subseteq Nat /\ LogRoom \in Nat BY StorageAssumption
<1>1. TypeOK
  <2>1. 0 \in 0 .. MaxChanges /\ 0 \in 0 .. MaxOpens /\ 0 \in 0 .. MaxFailures /\ 0 \in 0 .. MaxRuns
        /\ 0 \in Moment
    BY <1>0 DEF Moment
  <2>2. writers \in [Thread -> States] BY IdleState DEF Init
  <2>3. made \in Seq(Change) /\ log \in Seq(Change) /\ Len(log) <= LogRoom BY <1>0, EmptySeq DEF Init
  <2>4. docs \in [Doc -> {Closed} \cup Document] BY DEF Init
  <2>5. content \in [Inode -> Moment \cup {Short, Mixed}] BY DEF Init
  <2> QED BY <2>1, <2>2, <2>3, <2>4, <2>5, TypeParts DEF Init
<1>2. Log BY <1>0 DEF Init, Log
<1>3. AllTold BY DEF Init, AllTold, Closed
<1> QED BY <1>1, <1>2, <1>3 DEF Base

(* Each action keeps it: a document that begins to listen, at the newest, *)
LEMMA OpenKeeps ==
    ASSUME Base, NEW d \in Doc, NEW o \in Origin, Open(d, o)
    PROVE  Base'
<1> PICK n : n = Len(made) OBVIOUS
<1> PICK x : x = [open |-> TRUE, ready |-> FALSE, origin |-> o, since |-> n, seen |-> n, heard |-> <<>>] OBVIOUS
<1>1. /\ opens < MaxOpens /\ opens' = opens + 1 /\ docs' = [docs EXCEPT ![d] = x]
      /\ UNCHANGED <<phase, area, dirty, rested, writers, names, content, crossed, made, log, changes, failures, runs>>
  BY DEF Open, Listen, file
<1>2. TypeOK /\ n \in Nat BY TypeParts DEF Base
<1>3. x \in Document /\ x.seen = n /\ x.since = n /\ x.heard = <<>> BY <1>2 DEF Document
<1>4. docs' \in [Doc -> {Closed} \cup Document] /\ docs'[d] = x /\ \A e \in Doc : e # d => docs'[e] = docs[e]
  BY <1>1, <1>2, <1>3, TypeParts
<1>5. opens' \in 0 .. MaxOpens BY <1>1, <1>2, StorageAssumption DEF TypeOK
<1>6. TypeOK' BY <1>1, <1>2, <1>4, <1>5 DEF TypeOK, Document
<1>7. Log' BY <1>1 DEF Base, Log
<1>8. AllTold'
  <2> SUFFICES ASSUME NEW e \in Doc, docs'[e].open PROVE Told(e)' BY DEF AllTold
  <2>1. CASE e = d
    <3>1. Meant(e)' = {} BY <2>1, <1>1, <1>2, <1>3, <1>4 DEF Meant
    <3> QED BY <2>1, <3>1, <1>1, <1>2, <1>3, <1>4 DEF Told, Rising
  <2>2. CASE e # d
    <3>1. docs'[e] = docs[e] /\ made' = made BY <2>2, <1>1, <1>4
    <3>2. Told(e) BY <3>1 DEF Base, AllTold
    <3> QED BY <3>1, <3>2 DEF Told, Meant, For
  <2> QED BY <2>1, <2>2
<1> QED BY <1>6, <1>7, <1>8 DEF Base

(* one that is ready, *)
LEMMA ReadyKeeps ==
    ASSUME Base, NEW d \in Doc, Ready(d)
    PROVE  Base'
<1> PICK x : x = [docs[d] EXCEPT !.ready = TRUE] OBVIOUS
<1>1. /\ docs[d].open /\ docs' = [docs EXCEPT ![d] = x]
      /\ UNCHANGED <<phase, area, dirty, rested, writers, names, content, crossed, made, log, opens, changes, failures, runs>>
  BY DEF Ready, file
<1>2. TypeOK /\ docs[d] \in Document BY <1>1, OpenDocument DEF Base
<1>3. x \in Document /\ x.seen = docs[d].seen /\ x.since = docs[d].since /\ x.heard = docs[d].heard
      /\ x.origin = docs[d].origin
  BY <1>2 DEF Document
<1>4. docs' \in [Doc -> {Closed} \cup Document] /\ docs'[d] = x /\ \A e \in Doc : e # d => docs'[e] = docs[e]
  BY <1>1, <1>2, <1>3, TypeParts
<1>5. TypeOK' BY <1>1, <1>2, <1>4 DEF TypeOK, Document
<1>6. Log' BY <1>1 DEF Base, Log
<1>7. AllTold'
  <2> SUFFICES ASSUME NEW e \in Doc, docs'[e].open PROVE Told(e)' BY DEF AllTold
  <2>1. docs'[e].seen = docs[e].seen /\ docs'[e].since = docs[e].since /\ docs'[e].heard = docs[e].heard
        /\ docs'[e].origin = docs[e].origin /\ docs[e].open
    BY <1>1, <1>3, <1>4
  <2>2. Told(e) BY <2>1 DEF Base, AllTold
  <2> QED BY <2>1, <2>2, <1>1 DEF Told, Meant, For
<1> QED BY <1>5, <1>6, <1>7 DEF Base

(* a change, which may push the oldest from a full log, *)
LEMMA ScriptKeeps ==
    ASSUME Base, NEW d \in Doc, Script(d)
    PROVE  Base'
<1> PICK n : n = Len(made) OBVIOUS
<1> PICK c : c = [seq |-> n + 1, origin |-> docs[d].origin, source |-> d] OBVIOUS
<1>1. /\ docs[d].open /\ changes < MaxChanges /\ changes' = changes + 1 /\ area' = changes + 1 /\ dirty' = TRUE
      /\ made' = Append(made, c) /\ Record(c)
      /\ UNCHANGED <<phase, rested, writers, names, content, crossed, docs, opens, failures, runs>>
  BY DEF Script, Changed, file
<1>2. TypeOK /\ docs[d] \in Document /\ made \in Seq(Change) /\ log \in Seq(Change) /\ n \in Nat
      /\ LogRoom \in Nat \ {0} /\ MaxChanges \in Nat /\ Len(log) \in Nat
  BY <1>1, OpenDocument, TypeParts, StorageAssumption DEF Base
<1>3. c \in Change /\ c.seq = n + 1
  <2>1. docs[d].origin \in Origin BY <1>2 DEF Document
  <2>2. n + 1 \in Nat BY <1>2
  <2> QED BY <2>1, <2>2 DEF Change
<1>4. /\ made' \in Seq(Change) /\ Len(made') = n + 1 /\ made'[n + 1] = c
      /\ \A i \in 1 .. n : made'[i] = made[i]
  BY <1>1, <1>2, <1>3, AppendProperties
<1>5. /\ log' \in Seq(Change)
      /\ Len(log') = IF Len(log) >= LogRoom THEN Len(log) ELSE Len(log) + 1
      /\ log'[Len(log')] = c
      /\ \A i \in 1 .. Len(log') - 1 : log'[i] = IF Len(log) >= LogRoom THEN log[i + 1] ELSE log[i]
  <2>1. CASE Len(log) >= LogRoom
    <3> PICK t : t = Tail(log) OBVIOUS
    <3>1. log # <<>> BY <2>1, <1>2
    <3>2. t \in Seq(Change) /\ Len(t) = Len(log) - 1 /\ \A i \in 1 .. Len(t) : t[i] = log[i + 1]
      BY <3>1, <1>2, HeadTailProperties
    <3>3. log' = Append(t, c) BY <2>1, <1>1 DEF Record
    <3>4. log' \in Seq(Change) /\ Len(log') = Len(t) + 1 /\ log'[Len(t) + 1] = c
          /\ \A i \in 1 .. Len(t) : log'[i] = t[i]
      BY <3>2, <3>3, <1>3, AppendProperties
    <3>5. Len(log') = Len(log) /\ Len(log') - 1 = Len(t) BY <3>2, <3>4, <1>2
    <3> QED BY <2>1, <3>2, <3>4, <3>5
  <2>2. CASE ~(Len(log) >= LogRoom)
    <3>1. log' = Append(log, c) BY <2>2, <1>1 DEF Record
    <3>2. log' \in Seq(Change) /\ Len(log') = Len(log) + 1 /\ log'[Len(log) + 1] = c
          /\ \A i \in 1 .. Len(log) : log'[i] = log[i]
      BY <3>1, <1>2, <1>3, AppendProperties
    <3>3. Len(log') - 1 = Len(log) BY <3>2, <1>2
    <3> QED BY <2>2, <3>2, <3>3
  <2> QED BY <2>1, <2>2
<1>6. Len(log) = (IF n <= LogRoom THEN n ELSE LogRoom)
      /\ (\A i \in 1 .. Len(log) : log[i] = made[n - Len(log) + i])
      /\ (\A m \in 1 .. n : made[m].seq = m)
  BY DEF Base, Log
<1>7. Len(log') = IF n + 1 <= LogRoom THEN n + 1 ELSE LogRoom BY <1>5, <1>6, <1>2
<1>8. Log'
  <2>1. \A m \in 1 .. n + 1 : m \in 1 .. n \/ m = n + 1 BY <1>2
  <2>2. \A m \in 1 .. n + 1 : made'[m].seq = m BY <2>1, <1>3, <1>4, <1>6
  <2>3. ASSUME NEW i \in 1 .. Len(log') PROVE log'[i] = made'[n + 1 - Len(log') + i]
    <3>1. CASE i = Len(log')
      <4>1. n + 1 - Len(log') + i = n + 1 BY <3>1, <1>2, <1>7
      <4> QED BY <3>1, <4>1, <1>4, <1>5
    <3>2. CASE i # Len(log')
      <4>1. i \in 1 .. Len(log') - 1 BY <3>2, <1>2, <1>7
      <4>2. CASE Len(log) >= LogRoom
        <5>1. log'[i] = log[i + 1] BY <4>1, <4>2, <1>5
        <5>2. i + 1 \in 1 .. Len(log) /\ n + 1 - Len(log') + i = n - Len(log) + (i + 1)
              /\ n - Len(log) + (i + 1) \in 1 .. n
          <6> PICK k : k = Len(log) OBVIOUS
          <6> PICK l : l = Len(log') OBVIOUS
          <6>1. k \in Nat /\ n \in Nat /\ k <= n /\ l = k /\ i \in 1 .. l - 1
            BY <4>1, <4>2, <1>2, <1>5, <1>6
          <6> QED BY <6>1
        <5> QED BY <5>1, <5>2, <1>4, <1>6
      <4>3. CASE ~(Len(log) >= LogRoom)
        <5>1. log'[i] = log[i] BY <4>1, <4>3, <1>5
        <5>2. i \in 1 .. Len(log) /\ n + 1 - Len(log') + i = n - Len(log) + i
              /\ n - Len(log) + i \in 1 .. n
          <6> PICK k : k = Len(log) OBVIOUS
          <6> PICK l : l = Len(log') OBVIOUS
          <6>1. k \in Nat /\ n \in Nat /\ k <= n /\ l = k + 1 /\ i \in 1 .. l - 1
            BY <4>1, <4>3, <1>2, <1>5, <1>6
          <6> QED BY <6>1
        <5> QED BY <5>1, <5>2, <1>4, <1>6
      <4> QED BY <4>2, <4>3
    <3> QED BY <3>1, <3>2
  <2> QED BY <2>2, <2>3, <1>4, <1>7 DEF Log
<1>9. AllTold'
  <2> SUFFICES ASSUME NEW e \in Doc, docs[e].open PROVE Told(e)' BY <1>1 DEF AllTold
  <2>1. Told(e) /\ docs'[e] = docs[e] BY <1>1 DEF Base, AllTold
  <2>2. docs[e].seen \in Nat /\ docs[e].since \in Nat BY <1>2, OpenDocument
  <2>3. \A m : m \in Meant(e) => m \in Meant(e)' BY <2>1, <1>4, <1>2 DEF Meant, For
  <2>4. \A m : m \in Meant(e)' => m \in Meant(e) \/ m = n + 1 BY <2>1, <1>4, <1>2 DEF Meant, For
  <2>5. docs[e].seen <= n /\ docs[e].seen < n + 1 BY <2>1, <2>2, <1>2 DEF Told
  <2>6. ASSUME NEW m \in Meant(e)'
        PROVE  Has(docs[e].heard, m) \/ m > docs[e].seen \/ (n + 1) - m >= LogRoom
    <3>1. CASE m = n + 1 BY <3>1, <2>5, <2>2, <1>2
    <3>2. CASE m \in Meant(e)
      <4>1. m \in Nat BY <3>2, <1>2 DEF Meant
      <4>2. Has(docs[e].heard, m) \/ m > docs[e].seen \/ n - m >= LogRoom BY <3>2, <2>1 DEF Told
      <4>3. n - m >= LogRoom => (n + 1) - m >= LogRoom BY <4>1, <1>2
      <4> QED BY <4>2, <4>3
    <3> QED BY <3>1, <3>2, <2>4
  <2> PICK x : x = docs[e] OBVIOUS
  <2>7. docs'[e] = x /\ Len(made') = n + 1 BY <2>1, <1>4
  <2>8. x.since <= x.seen /\ x.seen <= n + 1 /\ Rising(x.heard)
        /\ \A i \in 1 .. Len(x.heard) : x.heard[i] \in Meant(e)' /\ x.heard[i] <= x.seen
    BY <2>1, <2>2, <2>3, <2>5, <1>2 DEF Told
  <2>9. \A m \in Meant(e)' : Has(docs'[e].heard, m) \/ m > docs'[e].seen \/ Len(made') - m >= LogRoom
    <3> SUFFICES ASSUME NEW m \in Meant(e)'
                 PROVE  Has(docs'[e].heard, m) \/ m > docs'[e].seen \/ Len(made') - m >= LogRoom
      OBVIOUS
    <3>1. Has(docs[e].heard, m) \/ m > docs[e].seen \/ (n + 1) - m >= LogRoom BY <2>6
    <3>2. docs'[e] = docs[e] /\ Len(made') = n + 1 BY <2>7
    <3>3. CASE Has(docs[e].heard, m) BY <3>2, <3>3
    <3>4. CASE m > docs[e].seen BY <3>2, <3>4
    <3>5. CASE (n + 1) - m >= LogRoom BY <3>2, <3>5
    <3> QED BY <3>1, <3>3, <3>4, <3>5
  <2>10. docs'[e].since <= docs'[e].seen /\ docs'[e].seen <= Len(made') /\ Rising(docs'[e].heard)
         /\ \A i \in 1 .. Len(docs'[e].heard) : docs'[e].heard[i] \in Meant(e)' /\ docs'[e].heard[i] <= docs'[e].seen
    BY <2>7, <2>8
  <2> QED BY <2>9, <2>10 DEF Told
<1>10. TypeOK'
  <2>1. changes \in 0 .. MaxChanges BY <1>2 DEF TypeOK
  <2>2. changes' \in 0 .. MaxChanges /\ area' \in Moment BY <2>1, <1>1, <1>2 DEF Moment
  <2>3. Len(log') <= LogRoom BY <1>2, <1>7
  <2> QED BY <2>2, <2>3, <1>1, <1>2, <1>4, <1>5 DEF TypeOK
<1> QED BY <1>8, <1>9, <1>10 DEF Base

(* a turn of the loop, *)
LEMMA PumpKeeps == Base /\ Pump => Base'
<1> SUFFICES ASSUME Base, Pump PROVE Base' OBVIOUS
<1>1. /\ Drained /\ Flush
      /\ UNCHANGED <<phase, area, names, content, crossed, made, log, opens, changes, failures, runs>>
  BY DEF Pump, file
<1>2. TypeOK /\ Log /\ AllTold BY DEF Base
<1>3. \A d \in Doc : docs'[d] = IF ~docs[d].open \/ ~docs[d].ready \/ Since(d) = <<>> THEN docs[d]
            ELSE [docs[d] EXCEPT !.seen = Last(Since(d)).seq,
                                 !.heard = @ \o [i \in DOMAIN Since(d) |-> Since(d)[i].seq]]
  BY <1>1 DEF Drained
<1>4. ASSUME NEW d \in Doc
      PROVE  docs'[d] \in {Closed} \cup Document /\ (docs'[d].open => Told(d)')
  <2>1. CASE ~docs[d].open \/ ~docs[d].ready \/ Since(d) = <<>>
    <3>1. docs'[d] = docs[d] BY <1>3, <2>1
    <3>2. docs[d] \in {Closed} \cup Document BY <1>2, TypeParts
    <3>3. docs[d].open => Told(d) BY <1>2 DEF AllTold
    <3> QED BY <3>1, <3>2, <3>3, <1>1 DEF Told, Meant, For
  <2>2. CASE ~(~docs[d].open \/ ~docs[d].ready \/ Since(d) = <<>>)
    <3> PICK doc : doc = [docs[d] EXCEPT !.seen = Last(Since(d)).seq,
                                 !.heard = @ \o [i \in DOMAIN Since(d) |-> Since(d)[i].seq]]
      OBVIOUS
    <3>1. docs'[d] = doc BY <1>3, <2>2
    <3>2. docs[d].open /\ Since(d) # <<>> BY <2>2
    <3>3. /\ doc \in Document /\ doc.origin = docs[d].origin /\ doc.since = docs[d].since
          /\ doc.since <= doc.seen /\ doc.seen <= Len(made)
          /\ Rising(doc.heard)
          /\ \A i \in 1 .. Len(doc.heard) : doc.heard[i] \in Meant(d) /\ doc.heard[i] <= doc.seen
          /\ \A n \in Meant(d) : Has(doc.heard, n) \/ n > doc.seen \/ Len(made) - n >= LogRoom
      BY <1>2, <3>2, Hearing
    <3>4. Meant(d)' = Meant(d) BY <3>1, <3>3, <1>1 DEF Meant, For
    <3> QED BY <3>1, <3>3, <3>4, <1>1 DEF Told
  <2> QED BY <2>1, <2>2
<1>5. docs' \in [Doc -> {Closed} \cup Document]
  <2>1. docs' = [d \in Doc |-> docs'[d]] BY <1>1 DEF Drained
  <2> QED BY <2>1, <1>4
<1>6. writers' \in [Thread -> States] /\ dirty' \in BOOLEAN /\ rested' \in BOOLEAN
  <2>1. CASE dirty /\ rested
    <3>1. PICK w \in Writer : Began(w) /\ dirty' = FALSE /\ rested' = FALSE BY <2>1, <1>1 DEF Flush
    <3>2. w \in Thread BY DEF Thread
    <3> QED BY <3>1, <3>2, <1>2, BeganStep
  <2>2. CASE ~(dirty /\ rested)
    <3>1. UNCHANGED <<writers, dirty, rested>> BY <2>2, <1>1 DEF Flush
    <3> QED BY <3>1, <1>2, TypeParts
  <2> QED BY <2>1, <2>2
<1>7. TypeOK' BY <1>1, <1>2, <1>5, <1>6 DEF TypeOK, Document, States
<1>8. Log' BY <1>1, <1>2 DEF Log
<1>9. AllTold' BY <1>4 DEF AllTold
<1> QED BY <1>7, <1>8, <1>9 DEF Base

(* a change no document is told of, *)
LEMMA ForgetKeeps == Base /\ (Forget \/ Second) => Base'
<1> SUFFICES ASSUME Base, Forget \/ Second PROVE Base' OBVIOUS
<1>1. UNCHANGED <<made, log, docs, opens>> BY DEF Forget, Second, page
<1>2. Log' /\ AllTold' BY <1>1, PageUnchanged DEF Base
<1>3. CASE Forget
  <2>1. /\ changes < MaxChanges /\ changes' = changes + 1 /\ area' = changes + 1 /\ dirty' = TRUE
        /\ UNCHANGED <<phase, rested, writers, names, content, crossed, failures, runs>>
    BY <1>3 DEF Forget, Changed, file
  <2>2. changes \in 0 .. MaxChanges /\ MaxChanges \in Nat BY StorageAssumption DEF Base, TypeOK
  <2>3. changes' \in 0 .. MaxChanges /\ area' \in Moment BY <2>1, <2>2 DEF Moment
  <2>4. TypeOK' BY <1>1, <2>1, <2>3 DEF Base, TypeOK
  <2> QED BY <1>2, <2>4 DEF Base
<1>4. CASE Second
  <2>1. rested' = TRUE
        /\ UNCHANGED <<phase, area, dirty, writers, names, content, crossed, changes, failures, runs>>
    BY <1>4 DEF Second, file
  <2>2. TypeOK' BY <1>1, <2>1 DEF Base, TypeOK
  <2> QED BY <1>2, <2>2 DEF Base
<1> QED BY <1>3, <1>4

(* The partial file a thread opens: what there is, or an inode of its own. *)
LEMMA CreatesStep ==
    ASSUME TypeOK, NEW w \in Thread, Creates(w)
    PROVE  \E i \in Inode :
              /\ \/ i = names.partial
                 \/ /\ names.partial = None /\ i # names.path
                    /\ \A v \in Thread : writers[v].at = "writing" => i # writers[v].inode
              /\ names' \in [path : Inode \cup {None}, partial : Inode \cup {None}]
              /\ names'.partial = i /\ names'.path = names.path
              /\ content' = [content EXCEPT ![i] = Short]
              /\ content' \in [Inode -> Moment \cup {Short, Mixed}]
              /\ writers' \in [Thread -> States]
              /\ writers'[w].at = "writing" /\ writers'[w].inode = i /\ writers'[w].solo = writers[w].solo
              /\ \A v \in Thread : v # w => writers'[v] = writers[v]
<1> DEFINE fresh == CHOOSE i \in Inode : i # names.path /\ \A v \in Thread : writers[v].at = "writing" => i # writers[v].inode
<1>1. fresh \in Inode /\ fresh # names.path /\ \A v \in Thread : writers[v].at = "writing" => fresh # writers[v].inode
  BY FreshInode
<1> PICK i : i = IF names.partial = None THEN fresh ELSE names.partial OBVIOUS
<1> PICK x : x = [at |-> "writing", text |-> writers[w].text,
                    solo |-> writers[w].solo, inode |-> i] OBVIOUS
<1>2. /\ writers[w].at = "opening" /\ names' = [names EXCEPT !.partial = i]
      /\ content' = [content EXCEPT ![i] = Short] /\ writers' = [writers EXCEPT ![w] = x]
  BY DEF Creates
<1> HIDE DEF fresh
<1>3. names \in [path : Inode \cup {None}, partial : Inode \cup {None}]
      /\ content \in [Inode -> Moment \cup {Short, Mixed}]
  BY TypeParts
<1>4. i \in Inode BY <1>1, <1>3
<1>5. names' \in [path : Inode \cup {None}, partial : Inode \cup {None}] /\ names'.partial = i
      /\ names'.path = names.path
  BY <1>2, <1>3, <1>4
<1>6. content' \in [Inode -> Moment \cup {Short, Mixed}] BY <1>2, <1>3, <1>4
<1>7. x \in States /\ x.at = "writing" /\ x.inode = i /\ x.solo = writers[w].solo
  BY <1>2, <1>4, WriterStates DEF States
<1>8. writers' \in [Thread -> States] /\ writers'[w] = x /\ \A v \in Thread : v # w => writers'[v] = writers[v]
  BY <1>2, <1>7, WriterStep
<1>9. \/ i = names.partial
      \/ /\ names.partial = None /\ i # names.path
         /\ \A v \in Thread : writers[v].at = "writing" => i # writers[v].inode
  <2>1. names.partial = None => i = fresh OBVIOUS
  <2>2. names.partial # None => i = names.partial OBVIOUS
  <2> QED BY <2>1, <2>2, <1>1, Zenon
<1> QED BY <1>2, <1>4, <1>5, <1>6, <1>7, <1>8, <1>9

(* and the steps of a writing thread. *)
LEMMA CreatesKeeps ==
    ASSUME Base, NEW w \in Thread, Creates(w)
    PROVE  Base'
<1>1. UNCHANGED <<phase, area, dirty, rested, crossed, made, log, docs, opens, changes, failures, runs>>
  BY DEF Creates, page
<1>2. /\ names' \in [path : Inode \cup {None}, partial : Inode \cup {None}]
      /\ content' \in [Inode -> Moment \cup {Short, Mixed}] /\ writers' \in [Thread -> States]
  BY CreatesStep DEF Base
<1>3. TypeOK' BY <1>1, <1>2 DEF Base, TypeOK, States
<1> QED BY <1>1, <1>3, PageUnchanged DEF Base

(* A thread alone in its inode leaves its own text there. *)
LEMMA WritesStep ==
    ASSUME TypeOK, NEW w \in Thread, Writes(w)
    PROVE  /\ writers[w].inode \in Inode /\ writers[w].text \in Moment
           /\ content' \in [Inode -> Moment \cup {Short, Mixed}]
           /\ \A i \in Inode : i # writers[w].inode => content'[i] = content[i]
           /\ Alone(w) => content'[writers[w].inode] = writers[w].text
           /\ writers' \in [Thread -> States] /\ writers'[w].at = "renaming"
           /\ writers'[w].solo = writers[w].solo
           /\ \A v \in Thread : v # w => writers'[v] = writers[v]
<1> PICK j : j = writers[w].inode OBVIOUS
<1> PICK x : x = [at |-> "renaming", solo |-> writers[w].solo] OBVIOUS
<1>1. PICK result \in {writers[w].text} \cup (IF Alone(w) THEN {} ELSE {Mixed}) :
          content' = [content EXCEPT ![j] = result]
  BY DEF Writes
<1>2. writers[w].at = "writing" /\ writers' = [writers EXCEPT ![w] = x] BY DEF Writes
<1>3. j \in Inode /\ writers[w].text \in Moment /\ content \in [Inode -> Moment \cup {Short, Mixed}]
  BY <1>2, WriterStates, TypeParts
<1>4. result \in Moment \cup {Short, Mixed} /\ (Alone(w) => result = writers[w].text) BY <1>1, <1>3
<1>5. x \in States /\ x.at = "renaming" /\ x.solo = writers[w].solo BY <1>2, WriterStates DEF States
<1>6. writers' \in [Thread -> States] /\ writers'[w] = x /\ \A v \in Thread : v # w => writers'[v] = writers[v]
  BY <1>2, <1>5, WriterStep
<1> QED BY <1>1, <1>3, <1>4, <1>5, <1>6

LEMMA WritesKeeps ==
    ASSUME Base, NEW w \in Thread, Writes(w)
    PROVE  Base'
<1>1. UNCHANGED <<phase, area, dirty, rested, names, crossed, made, log, docs, opens, changes, failures, runs>>
  BY DEF Writes, page
<1>2. content' \in [Inode -> Moment \cup {Short, Mixed}] /\ writers' \in [Thread -> States]
  BY WritesStep DEF Base
<1>3. TypeOK' BY <1>1, <1>2 DEF Base, TypeOK, States
<1> QED BY <1>1, <1>3, PageUnchanged DEF Base

(* A thread that is done is idle, and no other has begun. *)
LEMMA DoneStep ==
    ASSUME TypeOK, NEW w \in Thread, Done(w)
    PROVE  /\ phase' \in {"running", "dropping", "over"} /\ writers' \in [Thread -> States]
           /\ writers'[w] = Idle /\ \A v \in Thread : writers'[v] \in {Idle, writers[v]}
<1>1. CASE w = Owner BY <1>1, IdleState DEF Done
<1>2. CASE w # Owner
  <2>1. phase' = phase /\ writers' = [writers EXCEPT ![w] = Idle] BY <1>2 DEF Done
  <2>2. writers' \in [Thread -> States] /\ writers'[w] = Idle /\ \A v \in Thread : v # w => writers'[v] = writers[v]
    BY <2>1, IdleState, WriterStep
  <2> QED BY <2>1, <2>2, TypeParts
<1> QED BY <1>1, <1>2

(* What the partial file named is the file now. *)
LEMMA RenamesStep ==
    ASSUME TypeOK, NEW w \in Thread, Renames(w)
    PROVE  /\ names' \in [path : Inode \cup {None}, partial : Inode \cup {None}]
           /\ \/ names.partial = None /\ names' = names /\ crossed' = crossed
              \/ /\ names.partial # None /\ names'.partial = None /\ names'.path = names.partial
                 /\ crossed' = ~writers[w].solo
           /\ crossed' \in BOOLEAN
<1>1. names \in [path : Inode \cup {None}, partial : Inode \cup {None}] /\ crossed \in BOOLEAN BY TypeParts
<1>2. writers[w].solo \in BOOLEAN BY WriterStates DEF Renames
<1> QED BY <1>1, <1>2 DEF Renames

LEMMA EndKeeps ==
    ASSUME Base, NEW w \in Thread, Renames(w) \/ Fails(w)
    PROVE  Base'
<1>1. UNCHANGED <<area, dirty, rested, content, made, log, docs, opens, changes, runs>> /\ Done(w)
  BY DEF Renames, Fails, page, file
<1>2. names' \in [path : Inode \cup {None}, partial : Inode \cup {None}] /\ failures' \in 0 .. MaxFailures
      /\ crossed' \in BOOLEAN
  <2>1. CASE Renames(w)
    <3>1. failures' = failures BY <2>1 DEF Renames
    <3> QED BY <2>1, <3>1, RenamesStep, TypeParts DEF Base
  <2>2. CASE Fails(w)
    <3>1. names' = names /\ crossed' = crossed /\ failures' = failures + 1 /\ failures < MaxFailures BY <2>2 DEF Fails, file
    <3>2. failures \in 0 .. MaxFailures /\ MaxFailures \in Nat BY TypeParts, StorageAssumption DEF Base
    <3> QED BY <3>1, <3>2, TypeParts DEF Base
  <2> QED BY <2>1, <2>2
<1>3. phase' \in {"running", "dropping", "over"} /\ writers' \in [Thread -> States]
  BY <1>1, DoneStep DEF Base
<1>4. TypeOK' BY <1>1, <1>2, <1>3 DEF Base, TypeOK, States
<1> QED BY <1>1, <1>4, PageUnchanged DEF Base

(* When the page is gone nothing was made and nobody listens. *)
LEMMA GoneKeeps ==
    ASSUME PageGone
    PROVE  /\ Log' /\ AllTold' /\ made' \in Seq(Change) /\ log' \in Seq(Change) /\ Len(log') <= LogRoom
           /\ docs' \in [Doc -> {Closed} \cup Document]
<1>1. LogRoom \in Nat BY StorageAssumption
<1>2. Log' BY <1>1 DEF PageGone, Log
<1>3. AllTold' BY DEF PageGone, AllTold, Closed
<1>4. docs' \in [Doc -> {Closed} \cup Document] BY DEF PageGone
<1>5. made' \in Seq(Change) /\ log' \in Seq(Change) /\ Len(log') <= LogRoom
  BY <1>1, EmptySeq DEF PageGone
<1> QED BY <1>2, <1>3, <1>4, <1>5

LEMMA QuitKeeps == Base /\ Quit => Base'
<1> SUFFICES ASSUME Base, Quit PROVE Base' OBVIOUS
<1>1. PageGone /\ dirty' = FALSE
      /\ UNCHANGED <<area, rested, names, content, crossed, opens, changes, failures, runs>>
  BY DEF Quit, file
<1>2. /\ Log' /\ AllTold' /\ made' \in Seq(Change) /\ log' \in Seq(Change) /\ Len(log') <= LogRoom
      /\ docs' \in [Doc -> {Closed} \cup Document]
  BY <1>1, GoneKeeps
<1>3. phase' \in {"running", "dropping", "over"} /\ writers' \in [Thread -> States]
  <2>1. CASE dirty
    <3>1. phase' = "dropping" /\ Began(Owner) BY <2>1 DEF Quit
    <3>2. Owner \in Thread BY DEF Thread
    <3> QED BY <3>1, <3>2, BeganStep DEF Base
  <2>2. CASE ~dirty BY <2>2, IdleState DEF Quit
  <2> QED BY <2>1, <2>2
<1>4. TypeOK' BY <1>1, <1>2, <1>3 DEF Base, TypeOK, States, Document
<1> QED BY <1>2, <1>4 DEF Base

LEMMA CrashKeeps == Base /\ Crash => Base'
<1> SUFFICES ASSUME Base, Crash PROVE Base' OBVIOUS
<1>1. PageGone /\ phase' = "over" /\ writers' = [w \in Thread |-> Idle]
      /\ UNCHANGED <<area, dirty, rested, names, content, crossed, opens, changes, failures, runs>>
  BY DEF Crash, file
<1>2. /\ Log' /\ AllTold' /\ made' \in Seq(Change) /\ log' \in Seq(Change) /\ Len(log') <= LogRoom
      /\ docs' \in [Doc -> {Closed} \cup Document]
  BY <1>1, GoneKeeps
<1>3. writers' \in [Thread -> States] BY <1>1, IdleState
<1>4. TypeOK' BY <1>1, <1>2, <1>3 DEF Base, TypeOK, States, Document
<1> QED BY <1>2, <1>4 DEF Base

LEMMA StartKeeps == Base /\ Start => Base'
<1> SUFFICES ASSUME Base, Start PROVE Base' OBVIOUS
<1>1. /\ phase' = "running" /\ dirty' = FALSE /\ rested' = TRUE /\ runs < MaxRuns /\ runs' = runs + 1
      /\ area' = IF Path \in Moment THEN Path ELSE 0
      /\ UNCHANGED <<writers, names, content, crossed, made, log, docs, opens, changes, failures>>
  BY DEF Start, file, page
<1>2. runs \in 0 .. MaxRuns /\ MaxRuns \in Nat /\ MaxChanges \in Nat
  BY StorageAssumption DEF Base, TypeOK
<1>3. area' \in Moment /\ runs' \in 0 .. MaxRuns BY <1>1, <1>2 DEF Moment
<1>4. TypeOK' BY <1>1, <1>3 DEF Base, TypeOK
<1> QED BY <1>1, <1>4, PageUnchanged DEF Base

(* All actions together. *)
LEMMA BaseStep == Base /\ [Next]_vars => Base'
<1> SUFFICES ASSUME Base, [Next]_vars PROVE Base' OBVIOUS
<1>1. CASE \E d \in Doc, o \in Origin : Open(d, o) BY <1>1, OpenKeeps
<1>2. CASE \E d \in Doc : Ready(d) BY <1>2, ReadyKeeps
<1>3. CASE \E d \in Doc : Script(d) BY <1>3, ScriptKeeps
<1>4. CASE Forget \/ Second BY <1>4, ForgetKeeps
<1>5. CASE Pump BY <1>5, PumpKeeps
<1>6. CASE \E w \in Thread : Creates(w) BY <1>6, CreatesKeeps
<1>7. CASE \E w \in Thread : Writes(w) BY <1>7, WritesKeeps
<1>8. CASE \E w \in Thread : Renames(w) \/ Fails(w) BY <1>8, EndKeeps
<1>9. CASE Quit BY <1>9, QuitKeeps
<1>10. CASE Crash BY <1>10, CrashKeeps
<1>11. CASE Start BY <1>11, StartKeeps
<1>12. CASE Over \/ UNCHANGED vars
  <2>1. UNCHANGED <<phase, area, dirty, rested, writers, names, content, crossed, made, log, docs, opens, changes, failures, runs>>
    BY <1>12 DEF Over, vars, file, page
  <2>2. TypeOK' BY <2>1 DEF Base, TypeOK
  <2> QED BY <2>1, <2>2, PageUnchanged DEF Base
<1> QED BY <1>1, <1>2, <1>3, <1>4, <1>5, <1>6, <1>7, <1>8, <1>9, <1>10, <1>11, <1>12 DEF Next

(* A thread that has met no other is the only one, *)
Solo == \A w \in Thread : writers[w].at # "idle" /\ writers[w].solo =>
            \A v \in Thread \ {w} : writers[v].at = "idle"
(* what it is to make the file is all of its text, *)
Wrote(w) ==
    /\ writers[w].at = "writing" => writers[w].inode = names.partial /\ content[names.partial] = Short
    /\ writers[w].at = "renaming" => names.partial # None /\ content[names.partial] \in Moment
(* and what it made the file nobody writes to. *)
Kept == /\ names.path # None => content[names.path] \in Moment
        /\ \A v \in Thread : writers[v].at = "writing" => writers[v].inode # names.path
Whole ==
    /\ Solo
    /\ names.partial # None => names.partial # names.path
    /\ \A w \in Thread : writers[w].at # "idle" /\ writers[w].solo => Wrote(w)
    /\ ~crossed => Kept

(* All this holds at the start, *)
LEMMA WholeInit == Init => Whole
  BY DEF Init, Whole, Solo, Wrote, Kept, Idle

(* is enough, *)
LEMMA WholeIsOneMoment == Base /\ Whole => TornOnlyByTwo
<1> SUFFICES ASSUME Base, Whole, ~crossed PROVE Path \in Moment BY DEF TornOnlyByTwo
<1>1. 0 \in Moment BY StorageAssumption DEF Moment
<1> QED BY <1>1 DEF Whole, Kept, Path

(* survives where nobody begins and nobody writes, *)
LEMMA NobodyWrites ==
    ASSUME Whole, UNCHANGED <<names, content, crossed>>,
           \A v \in Thread : writers'[v] \in {Idle, writers[v]}
    PROVE  Whole'
<1>1. \A v \in Thread : writers'[v].at # "idle" => writers'[v] = writers[v] BY DEF Idle
<1>2. Solo' BY <1>1 DEF Whole, Solo, Idle
<1>3. \A w \in Thread : writers'[w].at # "idle" /\ writers'[w].solo => Wrote(w)'
  BY <1>1 DEF Whole, Wrote
<1>4. ~crossed' => Kept' BY <1>1 DEF Whole, Kept
<1> QED BY <1>2, <1>3, <1>4 DEF Whole

(* where one begins, *)
LEMMA BeganWhole ==
    ASSUME TypeOK, Whole, NEW w \in Thread, Began(w),
           UNCHANGED <<names, content, crossed>>
    PROVE  Whole'
<1>1. /\ writers'[w].at = "opening" /\ writers'[w].solo = (Busy = {})
      /\ \A v \in Thread : v # w =>
            /\ writers'[v].at = writers[v].at
            /\ writers[v].at # "idle" => ~writers'[v].solo
            /\ writers[v].at = "writing" => writers'[v].inode = writers[v].inode
  BY BeganStep
<1>2. ASSUME NEW u \in Thread, writers'[u].at # "idle", writers'[u].solo
      PROVE  u = w /\ \A v \in Thread : writers[v].at = "idle"
  BY <1>1, <1>2 DEF Busy
<1>3. Solo' BY <1>1, <1>2 DEF Solo
<1>4. \A u \in Thread : writers'[u].at # "idle" /\ writers'[u].solo => Wrote(u)'
  BY <1>1, <1>2 DEF Wrote
<1>5. ~crossed' => Kept' BY <1>1 DEF Whole, Kept
<1> QED BY <1>3, <1>4, <1>5 DEF Whole

(* where a thread creates the partial file, writes to it or renames it: if *)
(* it is solo the others are idle, and if not they are not solo,           *)
LEMMA OthersAre ==
    ASSUME Solo, NEW w \in Thread, writers[w].at # "idle"
    PROVE  /\ writers[w].solo => \A v \in Thread \ {w} : writers[v].at = "idle"
           /\ \A v \in Thread \ {w} : ~(writers[v].at # "idle" /\ writers[v].solo)
  BY DEF Solo

LEMMA CreatesWhole ==
    ASSUME TypeOK, Whole, NEW w \in Thread, Creates(w)
    PROVE  Whole'
<1>1. PICK i \in Inode :
            /\ \/ i = names.partial
               \/ /\ names.partial = None /\ i # names.path
                  /\ \A v \in Thread : writers[v].at = "writing" => i # writers[v].inode
            /\ names'.partial = i /\ names'.path = names.path
            /\ content' = [content EXCEPT ![i] = Short]
            /\ writers'[w].at = "writing" /\ writers'[w].inode = i /\ writers'[w].solo = writers[w].solo
            /\ \A v \in Thread : v # w => writers'[v] = writers[v]
  BY CreatesStep
<1>2. writers[w].at = "opening" /\ crossed' = crossed BY DEF Creates
<1>3. None \notin Inode /\ content \in [Inode -> Moment \cup {Short, Mixed}]
      /\ names \in [path : Inode \cup {None}, partial : Inode \cup {None}]
  BY TypeParts, StorageAssumption
<1>4. /\ writers[w].solo => \A v \in Thread \ {w} : writers[v].at = "idle"
      /\ \A v \in Thread \ {w} : ~(writers[v].at # "idle" /\ writers[v].solo)
  BY <1>2, OthersAre DEF Whole
<1>5. i # names.path BY <1>1, <1>3 DEF Whole
<1>6. content'[i] = Short /\ (names.path # None => content'[names.path] = content[names.path])
  BY <1>1, <1>3, <1>5
<1>7. Solo' BY <1>1, <1>4 DEF Solo
<1>8. \A u \in Thread : writers'[u].at # "idle" /\ writers'[u].solo => Wrote(u)'
  BY <1>1, <1>4, <1>6 DEF Wrote
<1>9. ~crossed' => Kept' BY <1>1, <1>2, <1>5, <1>6 DEF Whole, Kept
<1> QED BY <1>1, <1>5, <1>7, <1>8, <1>9 DEF Whole

LEMMA WritesWhole ==
    ASSUME TypeOK, Whole, NEW w \in Thread, Writes(w)
    PROVE  Whole'
<1>1. /\ writers[w].inode \in Inode /\ writers[w].text \in Moment
      /\ \A i \in Inode : i # writers[w].inode => content'[i] = content[i]
      /\ Alone(w) => content'[writers[w].inode] = writers[w].text
      /\ writers'[w].at = "renaming" /\ writers'[w].solo = writers[w].solo
      /\ \A v \in Thread : v # w => writers'[v] = writers[v]
  BY WritesStep
<1>2. writers[w].at = "writing" /\ names' = names /\ crossed' = crossed BY DEF Writes
<1>3. None \notin Inode /\ names \in [path : Inode \cup {None}, partial : Inode \cup {None}]
  BY TypeParts, StorageAssumption
<1>4. /\ writers[w].solo => \A v \in Thread \ {w} : writers[v].at = "idle"
      /\ \A v \in Thread \ {w} : ~(writers[v].at # "idle" /\ writers[v].solo)
  BY <1>2, OthersAre DEF Whole
<1>5. Solo' BY <1>1, <1>4 DEF Solo
<1>6. \A u \in Thread : writers'[u].at # "idle" /\ writers'[u].solo => Wrote(u)'
  <2> SUFFICES ASSUME writers[w].solo PROVE Wrote(w)' BY <1>1, <1>4
  <2>1. writers[w].inode = names.partial /\ content[names.partial] = Short
    BY <1>2 DEF Whole, Wrote
  <2>2. Alone(w) BY <1>4, <2>1 DEF Alone
  <2>3. content'[names.partial] \in Moment /\ names.partial # None BY <1>1, <1>3, <2>1, <2>2
  <2> QED BY <1>1, <1>2, <2>3 DEF Wrote
<1>7. ~crossed' => Kept'
  <2> SUFFICES ASSUME ~crossed PROVE Kept' BY <1>2
  <2>1. Kept /\ writers[w].inode # names.path BY <1>2 DEF Whole, Kept
  <2>2. names.path # None => content'[names.path] = content[names.path] BY <1>1, <1>3, <2>1
  <2> QED BY <1>1, <1>2, <2>1, <2>2 DEF Kept
<1> QED BY <1>2, <1>5, <1>6, <1>7 DEF Whole

LEMMA RenamesWhole ==
    ASSUME TypeOK, Whole, NEW w \in Thread, Renames(w)
    PROVE  Whole'
<1>1. writers[w].at = "renaming" /\ content' = content /\ Done(w) BY DEF Renames
<1>2. writers'[w] = Idle /\ \A v \in Thread : writers'[v] \in {Idle, writers[v]} BY <1>1, DoneStep
<1>3. \/ names.partial = None /\ names' = names /\ crossed' = crossed
      \/ /\ names.partial # None /\ names'.partial = None /\ names'.path = names.partial
         /\ crossed' = ~writers[w].solo
  BY RenamesStep
<1>4. CASE names.partial = None /\ names' = names /\ crossed' = crossed
  BY <1>1, <1>2, <1>4, NobodyWrites
<1>5. CASE /\ names.partial # None /\ names'.partial = None /\ names'.path = names.partial
           /\ crossed' = ~writers[w].solo
  <2>1. /\ writers[w].solo => \A v \in Thread \ {w} : writers[v].at = "idle"
        /\ \A v \in Thread \ {w} : ~(writers[v].at # "idle" /\ writers[v].solo)
    BY <1>1, OthersAre DEF Whole
  <2>2. \A v \in Thread : writers'[v].at # "idle" => v # w /\ writers'[v] = writers[v]
    BY <1>2 DEF Idle
  <2>3. Solo' /\ \A v \in Thread : ~(writers'[v].at # "idle" /\ writers'[v].solo)
    BY <2>1, <2>2 DEF Solo
  <2>4. ~crossed' => Kept'
    <3> SUFFICES ASSUME writers[w].solo PROVE Kept' BY <1>5
    <3>1. content[names.partial] \in Moment BY <1>1 DEF Whole, Wrote
    <3>2. \A v \in Thread : writers'[v].at = "idle" BY <2>1, <2>2
    <3> QED BY <1>1, <1>5, <3>1, <3>2 DEF Kept
  <2> QED BY <1>5, <2>3, <2>4 DEF Whole
<1> QED BY <1>3, <1>4, <1>5

(* and so every step. *)
LEMMA WholeStep ==
    ASSUME Base, Whole, [Next]_vars
    PROVE  Whole'
<1>0. TypeOK BY DEF Base
<1>1. ASSUME UNCHANGED <<writers, names, content, crossed>> PROVE Whole'
  BY <1>1, NobodyWrites
<1>2. ASSUME writers' = [w \in Thread |-> Idle], UNCHANGED <<names, content, crossed>> PROVE Whole'
  BY <1>2, NobodyWrites
<1>3. CASE \E d \in Doc, o \in Origin : Open(d, o) BY <1>3, <1>1 DEF Open, file
<1>4. CASE \E d \in Doc : Ready(d) BY <1>4, <1>1 DEF Ready, file
<1>5. CASE \E d \in Doc : Script(d) BY <1>5, <1>1 DEF Script, file
<1>6. CASE Forget \/ Second BY <1>6, <1>1 DEF Forget, Second, file
<1>7. CASE Pump
  <2>1. UNCHANGED <<names, content, crossed>> /\ Flush BY <1>7 DEF Pump, file
  <2>2. CASE dirty /\ rested
    <3>1. PICK w \in Writer \ Busy : Began(w) BY <2>1, <2>2 DEF Flush
    <3>2. w \in Thread BY DEF Thread
    <3> QED BY <1>0, <2>1, <3>1, <3>2, BeganWhole
  <2>3. CASE ~(dirty /\ rested) BY <2>1, <2>3, <1>1 DEF Flush
  <2> QED BY <2>2, <2>3
<1>8. CASE \E w \in Thread : Creates(w) BY <1>0, <1>8, CreatesWhole
<1>9. CASE \E w \in Thread : Writes(w) BY <1>0, <1>9, WritesWhole
<1>10. CASE \E w \in Thread : Renames(w) BY <1>0, <1>10, RenamesWhole
<1>11. CASE \E w \in Thread : Fails(w)
  <2>1. PICK w \in Thread : Fails(w) BY <1>11
  <2>2. UNCHANGED <<names, content, crossed>> /\ Done(w) BY <2>1 DEF Fails, file
  <2>3. \A v \in Thread : writers'[v] \in {Idle, writers[v]} BY <1>0, <2>2, DoneStep
  <2> QED BY <2>2, <2>3, NobodyWrites
<1>12. CASE Quit
  <2>1. UNCHANGED <<names, content, crossed>> BY <1>12 DEF Quit, file
  <2>2. CASE dirty
    <3>1. Began(Owner) /\ Owner \in Thread BY <1>12, <2>2 DEF Quit, Thread
    <3> QED BY <1>0, <2>1, <3>1, BeganWhole
  <2>3. CASE ~dirty BY <1>12, <2>1, <2>3, <1>2 DEF Quit
  <2> QED BY <2>2, <2>3
<1>13. CASE Crash BY <1>13, <1>2 DEF Crash, file
<1>14. CASE Start BY <1>14, <1>1 DEF Start, file
<1>15. CASE Over \/ UNCHANGED vars BY <1>15, <1>1 DEF Over, vars, file
<1> QED BY <1>3, <1>4, <1>5, <1>6, <1>7, <1>8, <1>9, <1>10, <1>11, <1>12, <1>13, <1>14, <1>15 DEF Next

(***************************************************************************)
(* Every variable keeps its type, for any number of writing threads at     *)
(* once: there is always an inode for a new partial file.                  *)
(***************************************************************************)
THEOREM TypeCorrect == Spec => []TypeOK
<1>1. Init => Base BY BaseInit
<1>2. Base /\ [Next]_vars => Base' BY BaseStep
<1>3. Base => TypeOK BY DEF Base
<1> QED BY <1>1, <1>2, <1>3, PTL DEF Spec

(***************************************************************************)
(* changes_since and drain_storage: each document hears once and in order  *)
(* of what the others of its origin changed since it began to listen, and  *)
(* misses only what the log had no room for.                               *)
(***************************************************************************)
THEOREM OthersHear == Spec => []OthersAreTold
<1>1. Init => Base BY BaseInit
<1>2. Base /\ [Next]_vars => Base' BY BaseStep
<1>3. Base => OthersAreTold BY ToldIsEnough DEF Base
<1> QED BY <1>1, <1>2, <1>3, PTL DEF Spec

(***************************************************************************)
(* write_file: whatever writes fail or are cut short by the end of the     *)
(* process, and however many are under way at once, the file is what the   *)
(* area was at one moment, unless the write that renamed it met another.   *)
(***************************************************************************)
THEOREM OneMomentOnFile == Spec => []TornOnlyByTwo
<1>1. Init => Base /\ Whole BY BaseInit, WholeInit
<1>2. Base /\ Whole /\ [Next]_vars => (Base /\ Whole)' BY BaseStep, WholeStep
<1>3. Base /\ Whole => TornOnlyByTwo BY WholeIsOneMoment
<1> QED BY <1>1, <1>2, <1>3, PTL DEF Spec

===========================================================================
