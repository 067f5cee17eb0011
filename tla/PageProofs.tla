------------------------------ MODULE PageProofs ------------------------------
(***************************************************************************)
(* Proofs about PageLoad, how a page is put together, and SessionHistory,  *)
(* where its tab has been. The two specifications have no variable in      *)
(* common; the proofs share the lemmas on lists at the head.               *)
(*                                                                         *)
(* PageLoad. Most of what the invariant says is of one load,               *)
(* and is kept by each thing that can be done to it: its document being    *)
(* there (Built), one step of the parse (Step), as many as can be taken    *)
(* (Resume), a request that is over (Over).                                *)
(*                                                                         *)
(* A load is Good when what it has asked for, got and run fit together. A  *)
(* script is asked for once, and only where the parse stands or where it   *)
(* is deferred (Asked, Alone); so a script that came and is not deferred   *)
(* is behind the parse, where it has run, or is the one it stands at       *)
(* (Settlements, RanAll). No sheet is awaited from before a stop the parse *)
(* has passed (Styled), and the script it stands at is awaited, or came,   *)
(* or failed, or is barred (Stands). It is Idle when the parse stands at a *)
(* script that came only because of a sheet: with no request left there is *)
(* none, and the end of the load finds every script run that was to be.    *)
(*                                                                         *)
(* Of a picture asked for under the slot's generation the invariant says   *)
(* that the page on screen asked, or that the load of the page on screen   *)
(* is not over (Pictures).                                                 *)
(*                                                                         *)
(* SessionHistory. A page fits when a step that waits for its turn leads   *)
(* to an entry it has (PageFits), and it is paired with the tab when every *)
(* entry it kept is the tab's, once the tab has heard of the moves made,   *)
(* at the same distance from the one the page is at or is sent to          *)
(* (Paired). The moves a page makes, and the moves the tab hears of, are   *)
(* each shown to keep the pair, so the actions need only say which of them *)
(* they are. Where a move that may come at any time could meet a step      *)
(* under way, the pair is claimed only under Patient.                      *)
(***************************************************************************)
EXTENDS PageLoad, SessionHistory, SequenceTheorems, FiniteSetTheorems, WellFoundedInduction, NaturalsInduction, TLAPS

LEMMA CarriedThrough ==
  ASSUME NEW n \in Nat, NEW X, NEW h, h[0] \in X,
         \A i \in 1..n : h[i - 1] \in X => h[i] \in X
  PROVE  \A i \in 0..n : h[i] \in X
<1> DEFINE Bad == {i \in 0..n : h[i] \notin X}
<1>1. CASE Bad = {}  BY <1>1
<1>2. CASE Bad # {}
  <2>1. Bad \subseteq Nat  OBVIOUS
  <2>2. PICK m \in Bad : \A j \in Bad : ~(<<j, m>> \in OpToRel(<, Nat))
    <3> HIDE DEF Bad
    <3> QED  BY <1>2, <2>1, NatLessThanWellFounded, WFMin, Zenon
  <2>3. m \in Nat /\ m \in 1..n /\ m - 1 \in 0..n /\ m - 1 \in Nat /\ m - 1 < m  OBVIOUS
  <2>4. m - 1 \notin Bad
    <3>1. <<m - 1, m>> \in OpToRel(<, Nat)  BY <2>3 DEF OpToRel
    <3> QED  BY <2>2, <3>1
  <2> QED  BY <2>3, <2>4
<1> QED  BY <1>1, <1>2

(* The function that takes a start through n steps exists.                 *)
Runs(g, n, X, base, step) ==
    g \in [0..n -> X] /\ g[0] = base /\ \A i \in 1..n : g[i] = step[i][g[i - 1]]

LEMMA Stepwise ==
  ASSUME NEW n \in Nat, NEW X, NEW base \in X, NEW step \in [1..n -> [X -> X]]
  PROVE  \E g : Runs(g, n, X, base, step)
<1> DEFINE Solves(g, k) == /\ g \in [0..k -> X]
                           /\ g = [i \in 0..k |-> IF i = 0 THEN base ELSE step[i][g[i - 1]]]
           h == [k \in 0..n |-> IF \E g : Solves(g, k) THEN 1 ELSE 0]
<1>1. h[0] \in {1}
  <2> DEFINE g == [i \in 0..0 |-> base]
  <2>1. g \in [0..0 -> X]  OBVIOUS
  <2>2. g = [i \in 0..0 |-> IF i = 0 THEN base ELSE step[i][g[i - 1]]]
    <3>1. \A i \in 0..0 : i = 0  OBVIOUS
    <3> QED  BY <3>1
  <2>3. Solves(g, 0) /\ 0 \in 0..n  BY <2>1, <2>2
  <2> HIDE DEF Solves, g
  <2> QED  BY <2>3
<1>2. ASSUME NEW k \in 1..n, h[k - 1] \in {1} PROVE h[k] \in {1}
  <2>0. k \in Nat /\ k - 1 \in 0..n /\ k \in 0..n  OBVIOUS
  <2>1. PICK g : Solves(g, k - 1)  BY <1>2, <2>0
  <2> DEFINE f == [i \in 0..k |-> IF i = k THEN step[k][g[k - 1]] ELSE g[i]]
  <2>2. g[k - 1] \in X /\ step[k][g[k - 1]] \in X  BY <2>0, <2>1
  <2>3. f \in [0..k -> X]
    <3>1. \A i \in 0..k : i # k => i \in 0..(k - 1)  BY <2>0
    <3> QED  BY <2>1, <2>2, <3>1
  <2>4. ASSUME NEW i \in 0..k
        PROVE  f[i] = IF i = 0 THEN base ELSE step[i][f[i - 1]]
    <3>1. CASE i = k
      <4>1. k - 1 \in 0..k /\ k - 1 # k /\ i # 0  BY <2>0, <3>1
      <4>2. f[i - 1] = g[k - 1]  BY <3>1, <4>1
      <4> QED  BY <3>1, <4>1, <4>2
    <3>2. CASE i # k
      <4>1. i \in 0..(k - 1) /\ f[i] = g[i]  BY <2>0, <3>2
      <4>2. CASE i = 0  BY <2>1, <4>1, <4>2
      <4>3. CASE i # 0
        <5>1. i - 1 \in 0..k /\ i - 1 # k  BY <2>0, <4>1, <4>3
        <5>2. f[i - 1] = g[i - 1]  BY <5>1
        <5> QED  BY <2>1, <4>1, <4>3, <5>2
      <4> QED  BY <4>2, <4>3
    <3> QED  BY <3>1, <3>2
  <2>5. f = [i \in 0..k |-> IF i = 0 THEN base ELSE step[i][f[i - 1]]]
    <3> HIDE DEF f
    <3> SUFFICES f = [i \in 0..k |-> f[i]]  BY <2>4
    <3> QED  BY <2>3
  <2>6. Solves(f, k)  BY <2>3, <2>5
  <2> HIDE DEF Solves
  <2> QED  BY <2>0, <2>6
<1>3. \A k \in 0..n : h[k] \in {1}
  <2>1. \A i \in 1..n : h[i - 1] \in {1} => h[i] \in {1}  BY <1>2
  <2> HIDE DEF h
  <2>2. n \in Nat  OBVIOUS
  <2>3. \A i \in 0..n : h[i] \in {1}  
    <3>1. PICK Y : Y = {1}  OBVIOUS
    <3>2. h[0] \in Y /\ \A i \in 1..n : h[i - 1] \in Y => h[i] \in Y  BY <1>1, <2>1, <3>1
    <3>3. \A i \in 0..n : h[i] \in Y  BY <3>2, <2>2, CarriedThrough
    <3> QED  BY <3>3, <3>1
  <2> QED  BY <2>3
<1>4. \E g : Solves(g, n)
  <2>1. n \in 0..n  OBVIOUS
  <2> HIDE DEF Solves
  <2> QED  BY <1>3, <2>1
<1>5. PICK g : Solves(g, n)  BY <1>4
<1>6. g[0] = base  BY <1>5
<1>7. \A i \in 1..n : g[i] = step[i][g[i - 1]]
  <2>1. \A i \in 1..n : i \in 0..n /\ i # 0  OBVIOUS
  <2> QED  BY <1>5, <2>1
<1> QED  BY <1>5, <1>6, <1>7 DEF Runs

(* A list of numbers in ascending order, and the set of them. *)
InOrder(ran, set) ==
    /\ \A p \in Nat : (\E i \in 1 .. Len(ran) : ran[i] = p) <=> p \in set
    /\ \A i, j \in 1 .. Len(ran) : i < j => ran[i] < ran[j]

(* What requests feed: kinds of resource at positions of the document. *)
Resource == {"script", "source", "sheet", "image", "import"} \X Nat

(* A load whose document is there. *)
Loads ==
    [doc : Nat, arrived : {TRUE}, shape : Seq(Kind), upto : Nat, stopped : BOOLEAN, runner : BOOLEAN,
     order : SUBSET Nat, came : SUBSET Nat, got : SUBSET Nat, ran : Seq(Nat), failed : SUBSET Nat,
     waiting : SUBSET (SUBSET Resource)]

(* The parse stands at a script, or is over and has left its script world. *)
Parse(load) ==
    /\ load.upto \in 1 .. Len(load.shape) + 1
    /\ load.stopped <=> load.upto <= Len(load.shape)
    /\ load.runner <=> ~load.stopped
    /\ load.stopped => load.shape[load.upto] \in {"script", "barred"}

(* A request of the load. *)
Asks(load, request) ==
    /\ \A p \in Nat : Res("script", p) \in request =>
          /\ p \in 1 .. Len(load.shape) /\ p \notin load.got \cup load.failed
          /\ p \in load.order \/ p = load.upto
    /\ \A p \in Nat : Res("source", p) \in request => p \in 1 .. Len(load.shape)
    /\ \A p \in load.order : Res("source", p) \in request <=> Res("script", p) \in request
    /\ \A r \in request : IsSheet(r) => \A s \in request : IsSheet(s)

(* What each of the requests under way is for; *)
Asked(load) == \A request \in load.waiting : Asks(load, request)

(* no two are for the same script. *)
Alone(load) ==
    \A a, b \in load.waiting : \A p \in Nat :
       Res("script", p) \in a /\ Res("script", p) \in b => a = b

(* Where a script may be of which something is known. *)
Came(load, p) ==
    /\ p \in 1 .. Len(load.shape)
    /\ p \in load.order \/ (p <= load.upto /\ load.shape[p] # "defer")

(* The scripts that came, those that failed, and the deferred ones. *)
Settlements(load) ==
    /\ load.got \cap load.failed = {}
    /\ \A p \in load.got \cup load.failed : Came(load, p)
    /\ \A p : p \in load.order <=> p \in 1 .. Len(load.shape) /\ load.shape[p] = "defer" /\ p < Stop(load.shape, 0)
    /\ load.came \subseteq 1 .. Len(load.shape)
    /\ \A p \in load.order : p \in load.came <=> p \in load.got

(* The scripts that are to have run by now, and have, in order. *)
RanSet(load) ==
    {p \in load.got : load.shape[p] # "defer" /\ p < load.upto} \cup
    {p \in 1 .. Len(load.shape) : load.shape[p] = "inline" /\ p < load.upto}
RanAll(load) == InOrder(load.ran, RanSet(load))

(* No sheet, or import of one, is awaited from before a stop that was passed. *)
Styled(load) ==
    \A request \in load.waiting : \A r \in request :
       IsSheet(r) => \A q \in Stops(load.shape, 0) : q < load.upto => q < r[2]

(* The parse stands at a script that is on its way or settled. *)
Stands(load) ==
    load.stopped /\ load.shape[load.upto] = "script" =>
       load.upto \in load.got \cup load.failed \/ Waits(load, Res("script", load.upto))

Good(load) ==
    /\ load \in Loads
    /\ Parse(load) /\ Asked(load) /\ Alone(load) /\ Settlements(load)
    /\ RanAll(load) /\ Styled(load) /\ Stands(load)

(* A set of natural numbers that is not empty has a least one. *)
LEMMA LeastNumber ==
    ASSUME NEW T, T \subseteq Nat, T # {} PROVE \E m \in T : \A k \in T : m <= k
<1> DEFINE R == OpToRel(<, Nat)
<1>1. IsWellFoundedOn(R, Nat) BY NatLessThanWellFounded
<1> HIDE DEF R
<1>2. PICK m \in T : \A k \in T : <<k, m>> \notin R BY <1>1, WFMin
<1>3. \A k \in Nat : k < m => <<k, m>> \in R BY <1>2 DEF R, OpToRel
<1>4. \A k \in T : ~(k < m)
  <2> TAKE k \in T
  <2>1. k \in Nat /\ <<k, m>> \notin R BY <1>2
  <2> QED BY <2>1, <1>3
<1>5. \A k \in T : m <= k BY <1>4
<1> QED BY <1>5

(* A set of positions can be put in order. *)
LEMMA SortedExists ==
    ASSUME NEW n \in Nat, NEW T, T \subseteq 1 .. n
    PROVE  \E ran \in [1 .. Cardinality(T) -> T] : Ascends(ran) /\ Range(ran) = T
<1> DEFINE Line(U, ran) == ran \in [1 .. Cardinality(U) -> U] /\ Ascends(ran) /\ Range(ran) = U
           All(k) == \A U \in SUBSET (1 .. k) : \E ran : Line(U, ran)
           h == [k \in 0 .. n |-> IF All(k) THEN 1 ELSE 0]
<1>1. h[0] \in {1}
  <2>1. \A U \in SUBSET (1 .. 0) : U = {} OBVIOUS
  <2>2. Cardinality({}) = 0 BY FS_EmptySet
  <2>3. Line({}, <<>>)
    <3>1. <<>> \in [1 .. 0 -> {}] /\ DOMAIN <<>> = {} OBVIOUS
    <3> QED BY <3>1, <2>2 DEF Ascends, Range
  <2>4. All(0) BY <2>1, <2>3, Zenon
  <2> HIDE DEF All
  <2> QED BY <2>4
<1>2. ASSUME NEW k \in 1 .. n, h[k - 1] \in {1} PROVE h[k] \in {1}
  <2>0. k \in Nat /\ k \in 0 .. n /\ k - 1 \in 0 .. n OBVIOUS
  <2>1. All(k - 1)
    <3> HIDE DEF All
    <3> QED BY <1>2, <2>0
  <2>2. ASSUME NEW U \in SUBSET (1 .. k) PROVE \E ran : Line(U, ran)
    <3>1. CASE k \notin U
      <4>1. U \in SUBSET (1 .. k - 1)
        <5>1. \A x \in U : x \in 1 .. k - 1 BY <3>1, <2>0
        <5> QED BY <5>1
      <4> QED BY <4>1, <2>1
    <3>2. CASE k \in U
      <4> PICK V : V = U \ {k} OBVIOUS
      <4>1. V \in SUBSET (1 .. k - 1)
        <5>1. \A x \in V : x \in 1 .. k - 1 BY <2>0
        <5> QED BY <5>1
      <4>2. PICK s : Line(V, s) BY <4>1, <2>1
      <4>3. IsFiniteSet(V) /\ IsFiniteSet(U)
        <5>1. IsFiniteSet(1 .. k) BY <2>0, FS_Interval
        <5> QED BY <5>1, FS_Subset
      <4>4. Cardinality(V) \in Nat /\ Cardinality(U) = Cardinality(V) + 1
        <5>1. V \cup {k} = U /\ k \notin V BY <3>2
        <5> QED BY <5>1, <4>3, FS_CardinalityType, FS_AddElement
      <4> PICK c : c = Cardinality(V) OBVIOUS
      <4> PICK r : r = [i \in 1 .. c + 1 |-> IF i = c + 1 THEN k ELSE s[i]] OBVIOUS
      <4>5. c \in Nat /\ s \in [1 .. c -> V] /\ Ascends(s) /\ Range(s) = V BY <4>2, <4>4
      <4>6. \A i : i \in 1 .. c + 1 <=> i \in 1 .. c \/ i = c + 1 BY <4>5
      <4>7. \A i \in 1 .. c : i # c + 1 BY <4>5
      <4>8. DOMAIN r = 1 .. c + 1 /\ r[c + 1] = k /\ \A i \in 1 .. c : r[i] = s[i] BY <4>6, <4>7
      <4>9. r \in [1 .. c + 1 -> U]
        <5>1. \A i \in 1 .. c : s[i] \in U BY <4>5
        <5> QED BY <5>1, <3>2, <4>6
      <4>10. Ascends(r)
        <5> SUFFICES ASSUME NEW i \in 1 .. c + 1, NEW j \in 1 .. c + 1, i < j PROVE r[i] < r[j]
          BY <4>8 DEF Ascends
        <5>1. i \in 1 .. c BY <4>5
        <5>2. s[i] \in 1 .. k - 1 BY <5>1, <4>5, <4>1
        <5>3. CASE j \in 1 .. c BY <5>1, <5>3, <4>5, <4>8 DEF Ascends
        <5>4. CASE j = c + 1 BY <5>1, <5>2, <5>4, <4>8, <2>0
        <5> QED BY <5>3, <5>4, <4>6
      <4>11. Range(r) = U
        <5>1. Range(s) = {s[i] : i \in 1 .. c} BY <4>5 DEF Range
        <5>2. Range(r) = {r[i] : i \in 1 .. c + 1} BY <4>8 DEF Range
        <5>3. \A x : x \in Range(r) <=> x \in Range(s) \/ x = k BY <5>1, <5>2, <4>6, <4>8
        <5> QED BY <5>3, <4>5, <3>2
      <4> QED BY <4>4, <4>9, <4>10, <4>11
    <3> QED BY <3>1, <3>2
  <2>3. All(k) BY <2>2
  <2> HIDE DEF All
  <2> QED BY <2>3, <2>0
<1>3. All(n)
  <2> HIDE DEF All
  <2>1. PICK Y : Y = {1} OBVIOUS
  <2>2. PICK g : g = h OBVIOUS
  <2>3. g[0] \in Y /\ \A i \in 1 .. n : g[i - 1] \in Y => g[i] \in Y BY <1>1, <1>2, <2>1, <2>2
  <2>4. \A i \in 0 .. n : g[i] \in Y BY <2>3, CarriedThrough
  <2>5. n \in 0 .. n OBVIOUS
  <2>6. h[n] \in {1} BY <2>4, <2>5, <2>1, <2>2
  <2> QED BY <2>6, <2>5
<1> QED BY <1>3

(* Sorted puts it in order. *)
LEMMA SortedIs ==
    ASSUME NEW n \in Nat, NEW T, T \subseteq 1 .. n
    PROVE  /\ Sorted(T) \in Seq(T) /\ Len(Sorted(T)) \in Nat
           /\ Ascends(Sorted(T)) /\ Range(Sorted(T)) = T
<1>1. Sorted(T) \in [1 .. Cardinality(T) -> T] /\ Ascends(Sorted(T)) /\ Range(Sorted(T)) = T
  BY SortedExists, Zenon DEF Sorted
<1>2. Cardinality(T) \in Nat
  <2>1. IsFiniteSet(1 .. n) BY FS_Interval
  <2> QED BY <2>1, FS_Subset, FS_CardinalityType
<1>3. Sorted(T) \in Seq(T) BY <1>1, <1>2, IsASeq
<1> QED BY <1>1, <1>3

LEMMA SortedInOrder ==
    ASSUME NEW n \in Nat, NEW T, T \subseteq 1 .. n
    PROVE  Sorted(T) \in Seq(Nat) /\ InOrder(Sorted(T), T)
<1>1. PICK s : s = Sorted(T) OBVIOUS
<1>2. s \in Seq(T) /\ Len(s) \in Nat /\ Ascends(s) /\ Range(s) = T BY <1>1, SortedIs
<1>3. DOMAIN s = 1 .. Len(s) BY <1>2
<1>4. T \subseteq Nat OBVIOUS
<1>5. s \in Seq(Nat) BY <1>2, <1>4, SeqMonotonic, Zenon
<1>6. \A p \in Nat : (\E i \in 1 .. Len(s) : s[i] = p) <=> p \in T BY <1>2, <1>3 DEF Range
<1>7. \A i, j \in 1 .. Len(s) : i < j => s[i] < s[j] BY <1>2, <1>3 DEF Ascends
<1> QED BY <1>1, <1>5, <1>6, <1>7 DEF InOrder

(* Two of them one after the other, and one with one more number. *)
LEMMA Joins ==
    ASSUME NEW a \in Seq(Nat), NEW b \in Seq(Nat), NEW S, S \subseteq Nat, NEW T, T \subseteq Nat,
           InOrder(a, S), InOrder(b, T), \A x \in S, y \in T : x < y
    PROVE  a \o b \in Seq(Nat) /\ InOrder(a \o b, S \cup T)
<1>1. PICK e : e = a \o b OBVIOUS
<1>2. PICK c, d : c = Len(a) /\ d = Len(b) OBVIOUS
<1>3. c \in Nat /\ d \in Nat BY <1>2
<1>4. /\ e \in Seq(Nat) /\ Len(e) = c + d
      /\ \A i \in 1 .. c + d : e[i] = IF i <= c THEN a[i] ELSE b[i - c]
  BY <1>1, <1>2, ConcatProperties
<1>5. \A i \in 1 .. c + d :
         \/ i \in 1 .. c /\ e[i] = a[i]
         \/ i > c /\ i - c \in 1 .. d /\ e[i] = b[i - c]
  BY <1>3, <1>4
<1>6. (\A i \in 1 .. c : a[i] \in S) /\ (\A i \in 1 .. d : b[i] \in T)
  <2>1. (\A i \in 1 .. c : a[i] \in Nat) /\ (\A i \in 1 .. d : b[i] \in Nat) BY <1>2
  <2> QED BY <2>1, <1>2 DEF InOrder
<1>7. ASSUME NEW p \in Nat PROVE (\E i \in 1 .. c + d : e[i] = p) <=> p \in S \cup T
  <2>1. ASSUME NEW i \in 1 .. c + d, e[i] = p PROVE p \in S \cup T BY <2>1, <1>5, <1>6
  <2>2. ASSUME p \in S PROVE \E i \in 1 .. c + d : e[i] = p
    <3>1. PICK i \in 1 .. c : a[i] = p BY <2>2, <1>2 DEF InOrder
    <3>2. i \in 1 .. c + d /\ i <= c BY <1>3
    <3>3. e[i] = p BY <3>1, <3>2, <1>4
    <3> QED BY <3>2, <3>3
  <2>3. ASSUME p \in T PROVE \E i \in 1 .. c + d : e[i] = p
    <3>1. PICK i \in 1 .. d : b[i] = p BY <2>3, <1>2 DEF InOrder
    <3>2. i + c \in 1 .. c + d /\ ~(i + c <= c) /\ (i + c) - c = i BY <1>3
    <3>3. e[i + c] = p BY <3>1, <3>2, <1>4
    <3> QED BY <3>2, <3>3
  <2> QED BY <2>1, <2>2, <2>3
<1>8. ASSUME NEW i \in 1 .. c + d, NEW j \in 1 .. c + d, i < j PROVE e[i] < e[j]
  <2>1. CASE i \in 1 .. c /\ e[i] = a[i]
    <3>1. CASE j \in 1 .. c /\ e[j] = a[j] BY <2>1, <3>1, <1>8, <1>2 DEF InOrder
    <3>2. CASE j - c \in 1 .. d /\ e[j] = b[j - c] BY <2>1, <3>2, <1>6
    <3> QED BY <3>1, <3>2, <1>5
  <2>2. CASE i > c /\ i - c \in 1 .. d /\ e[i] = b[i - c]
    <3>1. j - c \in 1 .. d /\ e[j] = b[j - c] /\ i - c < j - c
      <4>1. j > c BY <2>2, <1>8, <1>3
      <4> QED BY <4>1, <1>5, <1>8, <1>3, <2>2
    <3>2. b[i - c] < b[j - c] BY <3>1, <2>2, <1>2 DEF InOrder
    <3> QED BY <3>1, <3>2, <2>2
  <2> QED BY <2>1, <2>2, <1>5
<1>9. Len(e) = c + d /\ e \in Seq(Nat) BY <1>4
<1>10. InOrder(e, S \cup T) BY <1>7, <1>8, <1>9 DEF InOrder
<1> QED BY <1>1, <1>9, <1>10

LEMMA Appends ==
    ASSUME NEW a \in Seq(Nat), NEW S, S \subseteq Nat, InOrder(a, S), NEW x \in Nat, \A y \in S : y < x
    PROVE  Append(a, x) \in Seq(Nat) /\ InOrder(Append(a, x), S \cup {x})
<1>1. PICK b, T : b = <<x>> /\ T = {x} OBVIOUS
<1>2. b \in Seq(Nat) /\ InOrder(b, T) /\ T \subseteq Nat BY <1>1 DEF InOrder
<1>3. \A y \in S, z \in T : y < z BY <1>1
<1>4. a \o b \in Seq(Nat) /\ InOrder(a \o b, S \cup T) BY <1>2, <1>3, Joins
<1>5. Append(a, x) = a \o b BY <1>1
<1> QED BY <1>1, <1>4, <1>5

(* The parse stops further on, at a script or at the end. *)
LEMMA StopIs ==
    ASSUME NEW shape \in Seq(Kind), NEW p \in Nat, p <= Len(shape)
    PROVE  /\ Stop(shape, p) \in p + 1 .. Len(shape) + 1
           /\ Stop(shape, p) <= Len(shape) => shape[Stop(shape, p)] \in {"script", "barred"}
           /\ \A q \in Stops(shape, p) : Stop(shape, p) <= q
<1>1. CASE Stops(shape, p) = {} BY <1>1 DEF Stop
<1>2. CASE Stops(shape, p) # {}
  <2> PICK T : T = Stops(shape, p) OBVIOUS
  <2>1. T \subseteq Nat /\ T # {} BY <1>2 DEF Stops
  <2>2. \E q \in T : \A r \in T : q <= r BY <2>1, LeastNumber
  <2> PICK m : m = CHOOSE q \in T : \A r \in T : q <= r OBVIOUS
  <2>3. m \in T /\ \A r \in T : m <= r BY <2>2, Zenon
  <2>4. Stop(shape, p) = m BY <1>2 DEF Stop
  <2>5. m \in Stops(shape, p) /\ \A r \in Stops(shape, p) : m <= r BY <2>3
  <2>6. Stop(shape, p) \in Stops(shape, p) /\ \A r \in Stops(shape, p) : Stop(shape, p) <= r
    BY <2>4, <2>5, Zenon
  <2> QED BY <2>6 DEF Stops
<1> QED BY <1>1, <1>2

(* The scripts the parser runs on its way. *)
LEMMA InlineIs ==
    ASSUME NEW shape \in Seq(Kind), NEW p \in Nat, NEW q \in Nat
    PROVE  /\ Inline(shape, p, q) \in Seq(Nat)
           /\ InOrder(Inline(shape, p, q), Between(shape, {"inline"}, p, q))
           /\ Between(shape, {"inline"}, p, q) \subseteq 1 .. Len(shape)
<1>1. Len(shape) \in Nat OBVIOUS
<1>2. Between(shape, {"inline"}, p, q) \subseteq 1 .. Len(shape) BY <1>1 DEF Between
<1> QED BY <1>1, <1>2, SortedInOrder DEF Inline

(* Of what was parsed, the sheets and pictures are asked for. *)
LEMMA FoundIs ==
    ASSUME NEW shape \in Seq(Kind), NEW p \in Nat, NEW q \in Nat, NEW request \in Found(shape, p, q)
    PROVE  \E i \in Nat : /\ i > p /\ i <= q /\ i <= Len(shape) /\ shape[i] \in {"sheet", "image"}
                          /\ request = {<<shape[i], i>>}
BY DEF Found, Between, Res

(* The script at the new stop, unless the page may not have it. *)
AskedFor(load, to) ==
    IF to <= Len(load.shape) /\ load.shape[to] = "script" THEN {{Res("script", to)}} ELSE {}

(* A step of the parse, field by field. *)
LEMMA StepFields ==
    ASSUME NEW load \in Loads, NEW to, to = Stop(load.shape, load.upto)
    PROVE  /\ Step(load).doc = load.doc /\ Step(load).arrived = load.arrived
           /\ Step(load).shape = load.shape /\ Step(load).order = load.order
           /\ Step(load).came = load.came
           /\ Step(load).got = load.got /\ Step(load).failed = load.failed
           /\ Step(load).upto = to /\ Step(load).stopped = (to <= Len(load.shape))
           /\ Step(load).runner = (to > Len(load.shape))
           /\ Step(load).ran = (IF load.upto \in load.got THEN Append(load.ran, load.upto) ELSE load.ran)
                                   \o Inline(load.shape, load.upto, to)
           /\ Step(load).waiting = load.waiting \cup Found(load.shape, load.upto, to) \cup AskedFor(load, to)
           /\ Step(load) \in [doc : {Step(load).doc}, arrived : {Step(load).arrived}, shape : {Step(load).shape},
               upto : {Step(load).upto}, stopped : {Step(load).stopped}, runner : {Step(load).runner},
               order : {Step(load).order}, came : {Step(load).came}, got : {Step(load).got}, ran : {Step(load).ran}, 
               failed : {Step(load).failed}, waiting : {Step(load).waiting}]
<1> PICK next : next = AskedFor(load, to) OBVIOUS
<1> PICK found : found = Found(load.shape, load.upto, to) OBVIOUS
<1> PICK stopped : stopped = (to <= Len(load.shape)) OBVIOUS
<1> PICK runner : runner = (to > Len(load.shape)) OBVIOUS
<1> PICK inline : inline = Inline(load.shape, load.upto, to) OBVIOUS
<1> PICK s : s = [load EXCEPT !.ran = (IF load.upto \in load.got THEN Append(@, load.upto) ELSE @) \o inline,
                     !.upto = to, !.stopped = stopped, !.runner = runner,
                     !.waiting = @ \cup found \cup next] OBVIOUS
<1>1. Step(load) = s BY Zenon DEF Step, AskedFor
<1>2. /\ s.doc = load.doc /\ s.arrived = load.arrived
      /\ s.shape = load.shape /\ s.order = load.order
      /\ s.came = load.came
      /\ s.got = load.got /\ s.failed = load.failed
      /\ s.upto = to /\ s.stopped = stopped
      /\ s.runner = runner
      /\ s.ran = (IF load.upto \in load.got THEN Append(load.ran, load.upto) ELSE load.ran) \o inline
      /\ s.waiting = load.waiting \cup found \cup next
  BY DEF Loads
<1>3. s \in [doc : {s.doc}, arrived : {s.arrived}, shape : {s.shape},
               upto : {s.upto}, stopped : {s.stopped}, runner : {s.runner},
               order : {s.order}, came : {s.came}, got : {s.got}, ran : {s.ran},
               failed : {s.failed}, waiting : {s.waiting}]
  BY DEF Loads
<1>4. (s.stopped <=> stopped) /\ (s.runner <=> runner) BY <1>2
<1> QED BY <1>1, <1>2, <1>3, Zenon

(* A step of a good load is a good load, further on. *)
LEMMA StepGood ==
    ASSUME NEW load, Good(load), CanStep(load)
    PROVE  /\ Good(Step(load)) /\ Step(load).upto > load.upto
           /\ Step(load).doc = load.doc /\ Step(load).shape = load.shape
<1> PICK to : to = Stop(load.shape, load.upto) OBVIOUS
<1> PICK s : s = Step(load) OBVIOUS
<1> PICK next : next = AskedFor(load, to) OBVIOUS
<1> PICK found : found = Found(load.shape, load.upto, to) OBVIOUS
<1>1. /\ load \in Loads /\ Len(load.shape) \in Nat /\ load.shape \in Seq(Kind)
      /\ load.upto \in 1 .. Len(load.shape) /\ load.upto \in Nat /\ load.stopped /\ load.ran \in Seq(Nat)
      /\ Len(load.ran) \in Nat /\ load.shape[load.upto] \in {"script", "barred"}
  <2>1. load \in Loads /\ Parse(load) /\ load.stopped BY DEF Good, CanStep
  <2>2. load.shape \in Seq(Kind) /\ load.ran \in Seq(Nat) BY <2>1 DEF Loads
  <2>3. Len(load.shape) \in Nat /\ Len(load.ran) \in Nat BY <2>2
  <2>4. load.upto <= Len(load.shape) /\ load.upto \in 1 .. Len(load.shape) + 1 BY <2>1 DEF Parse
  <2>5. load.shape[load.upto] \in {"script", "barred"} BY <2>1 DEF Parse
  <2> QED BY <2>1, <2>2, <2>3, <2>4, <2>5
<1>2. /\ to \in load.upto + 1 .. Len(load.shape) + 1 /\ to \in Nat
      /\ to <= Len(load.shape) => load.shape[to] \in {"script", "barred"}
      /\ \A q \in Stops(load.shape, load.upto) : to <= q
  BY <1>1, StopIs
<1>3. /\ s.doc = load.doc /\ s.arrived = load.arrived
      /\ s.shape = load.shape /\ s.order = load.order
      /\ s.came = load.came
      /\ s.got = load.got /\ s.failed = load.failed
      /\ s.upto = to /\ s.stopped = (to <= Len(load.shape))
      /\ s.runner = (to > Len(load.shape))
      /\ s.ran = (IF load.upto \in load.got THEN Append(load.ran, load.upto) ELSE load.ran)
                    \o Inline(load.shape, load.upto, to)
      /\ s.waiting = load.waiting \cup found \cup next
      /\ s \in [doc : {s.doc}, arrived : {s.arrived}, shape : {s.shape},
                upto : {s.upto}, stopped : {s.stopped}, runner : {s.runner},
                order : {s.order}, came : {s.came}, got : {s.got}, ran : {s.ran},
                failed : {s.failed}, waiting : {s.waiting}]
  BY <1>1, StepFields
<1>4. \A request \in found : \E i \in Nat :
        /\ i > load.upto /\ i <= Len(load.shape) /\ load.shape[i] \in {"sheet", "image"}
        /\ request = {<<load.shape[i], i>>}
  <2> SUFFICES ASSUME NEW request \in found
               PROVE  \E i \in Nat :
                        /\ i > load.upto /\ i <= Len(load.shape)
                        /\ load.shape[i] \in {"sheet", "image"}
                        /\ request = {<<load.shape[i], i>>}
    OBVIOUS
  <2>1. request \in Found(load.shape, load.upto, to)  OBVIOUS
  <2>2. load.shape \in Seq(Kind) /\ load.upto \in Nat /\ to \in Nat  BY <1>1, <1>2
  <2> QED  BY <2>1, <2>2, FoundIs
<1>5. \A request \in next : request = {<<"script", to>>} /\ to <= Len(load.shape)
  BY DEF AskedFor, Res
<1>6. \A request \in load.waiting : ~\E r \in request : IsSheet(r)
  BY DEF CanStep, SheetsLoading
<1>7. found \subseteq SUBSET Resource /\ next \subseteq SUBSET Resource
  <2>1. ASSUME NEW request \in found PROVE request \subseteq Resource
    <3>1. PICK i \in Nat : load.shape[i] \in {"sheet", "image"} /\ request = {<<load.shape[i], i>>}
      BY <1>4
    <3> QED BY <3>1 DEF Resource
  <2>2. ASSUME NEW request \in next PROVE request \subseteq Resource
    BY <1>5, <1>2 DEF Resource
  <2> QED BY <2>1, <2>2
<1>8. s.ran \in Seq(Nat) /\ RanAll(s)
  <2>1. PICK inline, between : /\ inline = Inline(load.shape, load.upto, to)
                               /\ between = Between(load.shape, {"inline"}, load.upto, to)
    OBVIOUS
  <2>2. inline \in Seq(Nat) /\ InOrder(inline, between) /\ between \subseteq 1 .. Len(load.shape)
    BY <2>1, <1>1, <1>2, InlineIs
  <2>3. \A p : p \in between <=> /\ p \in load.upto + 1 .. to /\ p <= Len(load.shape)
                                 /\ load.shape[p] = "inline"
    BY <2>1 DEF Between
  <2>4. PICK first : first = IF load.upto \in load.got THEN Append(load.ran, load.upto) ELSE load.ran OBVIOUS
  <2>5. PICK set : set = IF load.upto \in load.got THEN RanSet(load) \cup {load.upto} ELSE RanSet(load) OBVIOUS
  <2>6. InOrder(load.ran, RanSet(load)) /\ Settlements(load) /\ load.got \subseteq Nat
    BY <1>1 DEF Good, RanAll, Loads
  <2>7. RanSet(load) \subseteq Nat /\ \A p \in RanSet(load) : p < load.upto BY <2>6 DEF RanSet
  <2>8. first \in Seq(Nat) /\ InOrder(first, set)
    <3>1. CASE load.upto \in load.got BY <3>1, <2>4, <2>5, <2>6, <2>7, <1>1, Appends
    <3>2. CASE load.upto \notin load.got BY <3>2, <2>4, <2>5, <2>6, <1>1
    <3> QED BY <3>1, <3>2
  <2>9. set \subseteq Nat /\ \A p \in set : p <= load.upto BY <2>5, <2>7, <1>1
  <2>10. between \subseteq Nat /\ \A x \in set, y \in between : x < y BY <2>2, <2>3, <2>9, <1>1
  <2>11. s.ran = first \o inline BY <1>3, <2>1, <2>4
  <2>15. first \o inline \in Seq(Nat) /\ InOrder(first \o inline, set \cup between)
    <3>1. first \in Seq(Nat) /\ inline \in Seq(Nat) BY <2>2, <2>8
    <3>2. InOrder(first, set) /\ InOrder(inline, between) BY <2>2, <2>8
    <3>3. set \subseteq Nat /\ between \subseteq Nat BY <2>9, <2>10
    <3>4. \A x \in set, y \in between : x < y BY <2>10
    <3> QED BY <3>1, <3>2, <3>3, <3>4, Joins
  <2>12. s.ran \in Seq(Nat) /\ InOrder(s.ran, set \cup between) BY <2>11, <2>15
  <2>13. \A p : p \in RanSet(s) <=> p \in set \cup between
    <3> SUFFICES ASSUME NEW p PROVE p \in RanSet(s) <=> p \in set \cup between OBVIOUS
    <3>1. ASSUME p \in load.got, load.shape[p] # "defer", p < to PROVE p \in set
      <4>1. Came(load, p) BY <2>6, <3>1 DEF Settlements
      <4>2. p \in Nat /\ p <= load.upto BY <4>1, <2>6, <3>1 DEF Came, Settlements
      <4> QED BY <4>2, <3>1, <2>5, <1>1 DEF RanSet
    <3>2. ASSUME p \in 1 .. Len(load.shape), load.shape[p] = "inline", p < to PROVE p \in set \cup between
      <4>1. p # load.upto BY <3>2, <1>1
      <4>2. CASE p < load.upto BY <4>2, <3>2, <2>5 DEF RanSet
      <4>3. CASE p > load.upto BY <4>3, <3>2, <2>3, <1>1, <1>2
      <4> QED BY <4>1, <4>2, <4>3, <3>2, <1>1
    <3>3. ASSUME p \in set PROVE p \in RanSet(s)
      <4>1. CASE p \in RanSet(load) BY <4>1, <1>1, <1>2, <1>3, <2>6 DEF RanSet
      <4>2. CASE p = load.upto /\ load.upto \in load.got BY <4>2, <1>1, <1>2, <1>3 DEF RanSet
      <4> QED BY <4>1, <4>2, <3>3, <2>5
    <3>4. ASSUME p \in between PROVE p \in RanSet(s)
      <4>1. p \in Nat /\ p <= to /\ p \in 1 .. Len(load.shape) /\ load.shape[p] = "inline"
        BY <3>4, <2>2, <2>3, <1>1, <1>2
      <4>2. p # to BY <4>1, <1>2
      <4> QED BY <4>1, <4>2, <1>2, <1>3 DEF RanSet
    <3> QED BY <3>1, <3>2, <3>3, <3>4, <1>3 DEF RanSet
  <2>14. RanSet(s) = set \cup between BY <2>13
  <2> QED BY <2>12, <2>14 DEF RanAll
<1>9. s \in Loads
  <2>1. s.waiting \subseteq SUBSET Resource BY <1>1, <1>3, <1>7 DEF Loads
  <2>2. s.stopped \in BOOLEAN /\ s.runner \in BOOLEAN BY <1>3
  <2> QED BY <1>1, <1>2, <1>3, <1>8, <2>1, <2>2 DEF Loads
<1>10. Parse(s)
  <2>1. (s.stopped <=> to <= Len(load.shape)) /\ (s.runner <=> to > Len(load.shape)) BY <1>3, Zenon
  <2>2. s.upto \in 1 .. Len(s.shape) + 1 BY <1>1, <1>2, <1>3
  <2>3. s.stopped <=> s.upto <= Len(s.shape) BY <2>1, <1>3
  <2>4. s.runner <=> ~s.stopped BY <2>1, <1>1, <1>2
  <2>5. s.stopped => s.shape[s.upto] \in {"script", "barred"} BY <2>1, <1>2, <1>3
  <2> QED BY <2>2, <2>3, <2>4, <2>5 DEF Parse
<1>11. Asked(s)
  <2> SUFFICES ASSUME NEW request \in s.waiting PROVE Asks(s, request) BY DEF Asked
  <2>1. CASE request \in load.waiting
    <3>1. Asks(load, request) BY <2>1 DEF Good, Asked
    <3>2. ASSUME NEW p \in Nat, Res("script", p) \in request PROVE p \in load.order
      <4>1. p \in load.order \/ p = load.upto BY <3>1, <3>2 DEF Asks
      <4>2. ASSUME p = load.upto PROVE FALSE
        <5>1. load.upto \notin load.got BY <3>1, <3>2, <4>2 DEF Asks
        <5>2. Waits(load, Res("script", load.upto)) BY <2>1, <3>2, <4>2 DEF Waits
        <5> QED BY <5>1, <5>2 DEF CanStep
      <4> QED BY <4>1, <4>2
    <3> QED BY <3>1, <3>2, <1>3 DEF Asks
  <2>2. CASE request \in found
    <3>1. PICK i \in Nat : load.shape[i] \in {"sheet", "image"} /\ request = {<<load.shape[i], i>>}
      BY <2>2, <1>4
    <3>2. \A p \in Nat : Res("script", p) \notin request /\ Res("source", p) \notin request BY <3>1 DEF Res
    <3>3. s.order \subseteq Nat BY <1>9 DEF Loads
    <3> QED BY <3>1, <3>2, <3>3 DEF Asks, IsSheet
  <2>3. CASE request \in next
    <3>1. request = {<<"script", to>>} /\ to <= Len(load.shape) BY <2>3, <1>5
    <3>2. \A p \in Nat : Res("script", p) \in request => p = to BY <3>1 DEF Res
    <3>3. to \notin load.got \cup load.failed
      <4>1. ASSUME to \in load.got \cup load.failed PROVE FALSE
        <5>1. Came(load, to) BY <4>1 DEF Good, Settlements
        <5>2. to \in load.order BY <5>1, <1>2, <1>1 DEF Came
        <5>3. load.shape[to] = "defer" BY <5>2 DEF Good, Settlements
        <5> QED BY <5>3, <3>1, <1>2
      <4> QED BY <4>1
    <3>4. to \in 1 .. Len(load.shape) BY <1>1, <1>2, <3>1
    <3>5. \A p : Res("source", p) \notin request BY <3>1 DEF Res
    <3>6. \A p \in load.order : p \in Nat /\ p # to
      <4>1. load.shape[to] # "defer" BY <3>1, <1>2
      <4>2. load.order \subseteq Nat BY <1>1 DEF Loads
      <4> QED BY <4>1, <4>2 DEF Good, Settlements
    <3>7. \A r \in request : ~IsSheet(r) BY <3>1 DEF IsSheet
    <3> QED BY <3>1, <3>2, <3>3, <3>4, <3>5, <3>6, <3>7, <1>3 DEF Asks
  <2> QED BY <2>1, <2>2, <2>3, <1>3
<1>12. Alone(s)
  <2> SUFFICES ASSUME NEW a \in s.waiting, NEW b \in s.waiting, NEW p \in Nat,
                      Res("script", p) \in a, Res("script", p) \in b
               PROVE  a = b
    BY DEF Alone
  <2>1. a \notin found /\ b \notin found
    <3>1. \A request \in found : Res("script", p) \notin request BY <1>4 DEF Res
    <3> QED BY <3>1
  <2>2. CASE a \in load.waiting /\ b \in load.waiting BY <2>2 DEF Good, Alone
  <2>3. CASE a \in next /\ b \in next BY <2>3, <1>5
  <2>4. ASSUME NEW c \in load.waiting, NEW d \in next, Res("script", p) \in c, Res("script", p) \in d
        PROVE  FALSE
    <3>1. p = to /\ to <= Len(load.shape) BY <2>4, <1>5 DEF Res
    <3>2. p \in load.order \/ p = load.upto BY <2>4 DEF Good, Asked, Asks
    <3>3. to \in load.order BY <3>1, <3>2, <1>2, <1>1
    <3>4. load.shape[to] = "defer" BY <3>3 DEF Good, Settlements
    <3> QED BY <3>1, <3>4, <1>2
  <2> QED BY <2>1, <2>2, <2>3, <2>4, <1>3
<1>13. Settlements(s)
  <2>1. \A p : Came(load, p) => Came(s, p) 
    <3> SUFFICES ASSUME NEW p, Came(load, p) PROVE Came(s, p) OBVIOUS
    <3>1. p \in Nat BY DEF Came
    <3> QED BY <3>1, <1>3, <1>2, <1>1 DEF Came
  <2>2. Settlements(load) BY DEF Good
  <2> QED BY <2>1, <2>2, <1>3 DEF Settlements
<1>14. Styled(s)
  <2> SUFFICES ASSUME NEW request \in s.waiting, NEW r \in request, IsSheet(r),
                      NEW q \in Stops(s.shape, 0), q < s.upto
               PROVE  q < r[2]
    BY DEF Styled
  <2>1. request \in found
    <3>1. \A y \in next : \A t \in y : ~IsSheet(t) BY <1>5 DEF IsSheet
    <3> QED BY <3>1, <1>3, <1>6
  <2>2. PICK p \in Nat : p > load.upto /\ request = {<<load.shape[p], p>>} BY <2>1, <1>4
  <2>3. r[2] = p BY <2>2
  <2>4. q \in Nat /\ q <= load.upto
    <3>1. q \in 1 .. Len(load.shape) /\ load.shape[q] \in {"script", "barred"} BY <1>1, <1>3 DEF Stops
    <3>2. ASSUME q > load.upto PROVE FALSE
      <4>1. q \in Stops(load.shape, load.upto) BY <3>1, <3>2, <1>1 DEF Stops
      <4> QED BY <4>1, <3>1, <1>2, <1>3
    <3> QED BY <3>1, <3>2, <1>1
  <2> QED BY <2>2, <2>3, <2>4, <1>1
<1>15. Stands(s)
  <2> SUFFICES ASSUME s.stopped, s.shape[s.upto] = "script" PROVE Waits(s, Res("script", s.upto)) BY DEF Stands
  <2>1. to <= Len(load.shape) /\ load.shape[to] = "script" BY <1>3
  <2>2. next = {{Res("script", to)}} BY <2>1 DEF AskedFor
  <2> QED BY <2>2, <1>3 DEF Waits
<1>16. s.upto > load.upto BY <1>1, <1>2, <1>3
<1> QED BY <1>3, <1>8, <1>9, <1>10, <1>11, <1>12, <1>13, <1>14, <1>15, <1>16 DEF Good

(* What the recursion of Resume chooses is the only choice. *)
LEMMA Chosen ==
    ASSUME NEW x PROVE (CHOOSE next \in {Onward(l) : l \in {x}} : TRUE) = Onward(x)
<1>1. {Onward(l) : l \in {x}} = {Onward(x)} BY Zenon
<1>2. \A y : (CHOOSE next \in {y} : TRUE) = y BY Zenon
<1> QED BY <1>1, <1>2, Zenon

(* So one round of Resume keeps a load good, *)
LEMMA OnwardGood ==
    ASSUME NEW load, Good(load)
    PROVE  /\ Good(Onward(load))
           /\ Onward(load).doc = load.doc /\ Onward(load).shape = load.shape
           /\ CanStep(load) => Onward(load).upto > load.upto
           /\ ~CanStep(load) => Onward(load) = load
<1>1. CASE CanStep(load)
  <2>1. Onward(load) = Step(load) BY <1>1, Zenon DEF Onward
  <2> QED BY <2>1, <1>1, StepGood
<1>2. CASE ~CanStep(load)
  <2>1. Onward(load) = load BY <1>2, Zenon DEF Onward
  <2> QED BY <2>1, <1>2
<1> QED BY <1>1, <1>2

(* and all its rounds take the parse as far as it goes: each that takes a step
   takes it forward, and there are as many as the document is long. *)
Resumed(load, after) ==
    /\ Good(after) /\ ~CanStep(after)
    /\ after.doc = load.doc /\ after.shape = load.shape

LEMMA ResumeGood ==
    ASSUME NEW load, Good(load)
    PROVE  Resumed(load, Resume(load))
<1> DEFINE m == Len(load.shape)
           X == {l \in Loads : Good(l)}
           step == [i \in 1 .. m |-> [l \in X |-> Onward(l)]]
           after == CHOOSE f : f = [n \in 0 .. Len(load.shape) |->
                       IF n = 0 THEN load
                       ELSE CHOOSE next \in {Onward(l) : l \in {f[n - 1]}} : TRUE]
<1>1. m \in Nat /\ load \in X /\ load \in Loads
  <2>1. load \in Loads BY DEF Good
  <2>2. load.shape \in Seq(Kind) BY <2>1 DEF Loads
  <2> QED BY <2>1, <2>2
<1>2. step \in [1 .. m -> [X -> X]]
  <2>1. \A l \in X : Onward(l) \in X
    <3> SUFFICES ASSUME NEW l \in X PROVE Onward(l) \in X OBVIOUS
    <3>1. Good(Onward(l)) BY OnwardGood
    <3> QED BY <3>1 DEF Good
  <2> HIDE DEF X, m
  <2> QED BY <2>1
<1>4. PICK g : Runs(g, m, X, load, step)
  <2> HIDE DEF step, m, X
  <2> QED BY <1>1, <1>2, Stepwise
<1>5. g = [n \in 0 .. m |-> IF n = 0 THEN load
                            ELSE CHOOSE next \in {Onward(l) : l \in {g[n - 1]}} : TRUE]
  <2>1. ASSUME NEW i \in 0 .. m, i # 0
        PROVE  g[i] = CHOOSE next \in {Onward(l) : l \in {g[i - 1]}} : TRUE
    <3>1. i \in 1 .. m /\ i - 1 \in 0 .. m BY <1>1, <2>1
    <3>2. g[i - 1] \in X /\ g[i] = step[i][g[i - 1]]
      <4> HIDE DEF step, X, m
      <4> QED BY <1>4, <3>1 DEF Runs
    <3>3. g[i] = Onward(g[i - 1])
      <4> HIDE DEF X, m
      <4> QED BY <3>1, <3>2
    <3> QED BY <3>3, Chosen
  <2>2. ASSUME NEW i \in 0 .. m, i = 0 PROVE g[i] = load
    <3> HIDE DEF step, X, m
    <3> QED BY <1>4, <2>2 DEF Runs
  <2>3. g = [i \in 0 .. m |-> g[i]]
    <3> HIDE DEF step, X, m
    <3> QED BY <1>4 DEF Runs
  <2> HIDE DEF step, X, m
  <2> QED BY <2>1, <2>2, <2>3
<1>6. after = [n \in 0 .. m |-> IF n = 0 THEN load
                            ELSE CHOOSE next \in {Onward(l) : l \in {after[n - 1]}} : TRUE]
  BY <1>5, Zenon
<1>7. Resume(load) = after[m] BY DEF Resume
<1> HIDE DEF after, step, X
<1> DEFINE Fits(n) == /\ Good(after[n]) /\ (CanStep(after[n]) => after[n].upto > n)
                      /\ after[n].doc = load.doc /\ after[n].shape = load.shape
           h == [n \in 0 .. m |-> IF Fits(n) THEN 1 ELSE 0]
<1>8. h[0] \in {1}
  <2>1. after[0] = load BY <1>1, <1>6
  <2>2. load.upto > 0 BY <1>1 DEF Good, Parse, Loads
  <2>5. Fits(0) BY <2>1, <2>2
  <2> HIDE DEF Fits
  <2> QED BY <2>5, <1>1
<1>9. ASSUME NEW i \in 1 .. m, h[i - 1] \in {1} PROVE h[i] \in {1}
  <2>1. i \in 0 .. m /\ i # 0 /\ i - 1 \in 0 .. m /\ i \in Nat BY <1>1
  <2>2. after[i] = Onward(after[i - 1])
    <3>1. after[i] = CHOOSE next \in {Onward(l) : l \in {after[i - 1]}} : TRUE BY <1>6, <2>1
    <3> QED BY <3>1, Chosen
  <2>3. Fits(i - 1)
    <3> HIDE DEF Fits
    <3> QED BY <1>9, <2>1
  <2>4. /\ Good(after[i])
        /\ after[i].doc = load.doc /\ after[i].shape = load.shape
    BY <2>2, <2>3, OnwardGood
  <2>5. ASSUME CanStep(after[i]) PROVE after[i].upto > i
    <3>1. CanStep(after[i - 1])
      <4>1. ASSUME ~CanStep(after[i - 1]) PROVE FALSE
        <5>1. after[i] = after[i - 1] BY <2>2, <2>3, <4>1, OnwardGood
        <5> QED BY <5>1, <2>5, <4>1
      <4> QED BY <4>1
    <3>2. after[i].upto > after[i - 1].upto BY <2>2, <2>3, <3>1, OnwardGood
    <3>3. after[i - 1].upto > i - 1 BY <2>3, <3>1
    <3>4. after[i].upto \in Nat /\ after[i - 1].upto \in Nat BY <2>3, <2>4 DEF Good, Loads
    <3> QED BY <3>2, <3>3, <3>4, <2>1
  <2>6. Fits(i) BY <2>4, <2>5
  <2> HIDE DEF Fits
  <2> QED BY <2>6, <2>1
<1>10. Fits(m)
  <2> HIDE DEF Fits, m
  <2>1. \A i \in 1 .. m : h[i - 1] \in {1} => h[i] \in {1} BY <1>9
  <2>2. PICK Y : Y = {1} OBVIOUS
  <2>3. PICK k : k = h OBVIOUS
  <2>4. k[0] \in Y /\ \A i \in 1 .. m : k[i - 1] \in Y => k[i] \in Y BY <1>8, <2>1, <2>2, <2>3
  <2>5. \A i \in 0 .. m : k[i] \in Y BY <2>4, <1>1, CarriedThrough
  <2>6. m \in 0 .. m BY <1>1
  <2>7. h[m] \in {1} BY <2>2, <2>3, <2>5, <2>6
  <2> QED BY <2>6, <2>7
<1>11. ~CanStep(after[m])
  <2>1. Good(after[m]) /\ after[m].shape = load.shape BY <1>10
  <2>2. ASSUME CanStep(after[m]) PROVE FALSE
    <3>1. after[m].upto > m BY <2>2, <1>10
    <3>2. after[m].stopped BY <2>2 DEF CanStep
    <3>3. after[m].upto <= m /\ after[m].upto \in Nat BY <3>2, <2>1 DEF Good, Parse, Loads
    <3> QED BY <3>1, <3>3, <1>1
  <2> QED BY <2>2
<1> QED BY <1>7, <1>10, <1>11 DEF Resumed

(* A script that came and has not run waits for a sheet. *)
Idle(load) == load.stopped /\ load.upto \in load.got => SheetsLoading(load)

(* The scripts a request feeds. *)
LEMMA ScriptsOfIs ==
    ASSUME NEW request, request \subseteq Resource, NEW p
    PROVE  p \in ScriptsOf(request) <=> p \in Nat /\ Res("script", p) \in request
<1>1. ASSUME p \in ScriptsOf(request) PROVE p \in Nat /\ Res("script", p) \in request
  <2>1. PICK r \in request : r[1] = "script" /\ p = r[2] BY <1>1 DEF ScriptsOf
  <2>2. r = <<r[1], r[2]>> /\ r[2] \in Nat BY DEF Resource
  <2> QED BY <2>1, <2>2 DEF Res
<1>2. ASSUME p \in Nat, Res("script", p) \in request PROVE p \in ScriptsOf(request)
  <2>1. Res("script", p)[1] = "script" /\ Res("script", p)[2] = p BY DEF Res
  <2> QED BY <1>2, <2>1 DEF ScriptsOf
<1> QED BY <1>1, <1>2

LEMMA SourcesOfIs ==
    ASSUME NEW request, request \subseteq Resource, NEW p
    PROVE  p \in SourcesOf(request) <=> p \in Nat /\ (Res("script", p) \in request \/ Res("source", p) \in request)
<1>1. ASSUME p \in SourcesOf(request)
      PROVE  p \in Nat /\ (Res("script", p) \in request \/ Res("source", p) \in request)
  <2>1. PICK r \in request : r[1] \in {"script", "source"} /\ p = r[2] BY <1>1 DEF SourcesOf
  <2>2. r = <<r[1], r[2]>> /\ r[2] \in Nat BY DEF Resource
  <2> QED BY <2>1, <2>2 DEF Res
<1>2. ASSUME NEW kind \in {"script", "source"}, Res(kind, p) \in request PROVE p \in SourcesOf(request)
  <2>1. Res(kind, p)[1] = kind /\ Res(kind, p)[2] = p BY DEF Res
  <2> QED BY <1>2, <2>1 DEF SourcesOf
<1> QED BY <1>1, <1>2

(* What becomes of a load when one of its requests is over: the scripts    *)
(* the request fed came, or failed; a sheet may ask for another.           *)
Over(load, request, extra, after) ==
    /\ after \in Loads
    /\ after.doc = load.doc /\ after.shape = load.shape /\ after.upto = load.upto
    /\ after.stopped = load.stopped /\ after.runner = load.runner
    /\ after.order = load.order /\ after.ran = load.ran
    /\ after.waiting = (load.waiting \ {request}) \cup extra
    /\ \/ /\ after.got = load.got \cup ScriptsOf(request) /\ after.failed = load.failed
          /\ after.came = load.came \cup SourcesOf(request)
       \/ /\ after.got = load.got /\ after.failed = load.failed \cup ScriptsOf(request)
          /\ after.came = load.came

(* A new request is for an import of a sheet of the old one. *)
Imports(request, extra) ==
    \A e \in extra : \A r \in e : r[1] = "import" /\ \E s \in request : IsSheet(s) /\ s[2] = r[2]

(* A good load with a request less is a good load. *)
LEMMA OverGood ==
    ASSUME NEW load, Good(load), NEW request \in load.waiting, NEW extra, Imports(request, extra),
           NEW after, Over(load, request, extra, after)
    PROVE  Good(after)
<1>0. /\ after \in Loads
      /\ after.doc = load.doc /\ after.shape = load.shape /\ after.upto = load.upto
      /\ after.stopped = load.stopped /\ after.runner = load.runner
      /\ after.order = load.order /\ after.ran = load.ran
      /\ after.waiting = (load.waiting \ {request}) \cup extra
      /\ \/ /\ after.got = load.got \cup ScriptsOf(request) /\ after.failed = load.failed
            /\ after.came = load.came \cup SourcesOf(request)
         \/ /\ after.got = load.got /\ after.failed = load.failed \cup ScriptsOf(request)
            /\ after.came = load.came
  BY DEF Over
<1>1. request \subseteq Resource /\ load \in Loads /\ load.upto \in Nat BY DEF Good, Loads
<1>2. /\ Parse(load) /\ Asked(load) /\ Alone(load) /\ Settlements(load) /\ RanAll(load)
      /\ Styled(load) /\ Stands(load)
  BY DEF Good
<1>3. \A p : p \in ScriptsOf(request) <=> p \in Nat /\ Res("script", p) \in request BY <1>1, ScriptsOfIs
<1>4. Parse(after) BY <1>0, <1>2, Zenon DEF Parse
<1>5. \A p \in ScriptsOf(request) :
         p \notin load.got \cup load.failed /\ p \in 1 .. Len(load.shape) /\ (p \in load.order \/ p = load.upto)
  BY <1>2, <1>3 DEF Asked, Asks
<1>6. \A e \in extra : \A p : Res("script", p) \notin e /\ Res("source", p) \notin e
  <2>1. \A p : Res("script", p)[1] = "script" /\ Res("source", p)[1] = "source" BY DEF Res
  <2> QED BY <2>1 DEF Imports
<1>7. Asked(after)
  <2> SUFFICES ASSUME NEW other \in after.waiting PROVE Asks(after, other) BY DEF Asked
  <2>1. CASE other \in load.waiting \ {request}
    <3>1. Asks(load, other) BY <2>1, <1>2 DEF Asked
    <3>2. ASSUME NEW p \in Nat, Res("script", p) \in other PROVE p \notin ScriptsOf(request)
      BY <2>1, <3>2, <1>2, <1>3 DEF Alone
    <3>3. \A p \in Nat : Res("script", p) \in other => p \notin after.got \cup after.failed
      BY <3>1, <3>2, <1>0 DEF Asks
    <3> QED BY <3>1, <3>3, <1>0 DEF Asks
  <2>2. CASE other \in extra
    <3>1. \A r \in other : IsSheet(r) BY <2>2 DEF Imports, IsSheet
    <3> QED BY <3>1, <2>2, <1>6 DEF Asks
  <2> QED BY <2>1, <2>2, <1>0
<1>8. Alone(after)
  <2> SUFFICES ASSUME NEW a \in after.waiting, NEW b \in after.waiting, NEW p \in Nat,
                      Res("script", p) \in a, Res("script", p) \in b
               PROVE  a = b
    BY DEF Alone
  <2>1. a \in load.waiting /\ b \in load.waiting BY <1>0, <1>6
  <2> QED BY <2>1, <1>2 DEF Alone
<1>9. \A p \in ScriptsOf(request) : Came(load, p)
  <2> SUFFICES ASSUME NEW p \in ScriptsOf(request), p \notin load.order
               PROVE  p <= load.upto /\ load.shape[p] # "defer"
    BY <1>5 DEF Came
  <2>1. p = load.upto /\ p \in 1 .. Len(load.shape) BY <1>5
  <2>2. load.stopped BY <2>1, <1>2 DEF Parse
  <2>3. load.shape[load.upto] \in {"script", "barred"} BY <2>2, <1>2 DEF Parse
  <2> QED BY <2>1, <2>3, <1>1
<1>10. Settlements(after)
  <2>1. after.got \cap after.failed = {} BY <1>0, <1>2, <1>5 DEF Settlements
  <2>2. \A p \in after.got \cup after.failed : Came(after, p) BY <1>0, <1>2, <1>9 DEF Settlements, Came
  <2>3. \A p : p \in SourcesOf(request) <=> p \in Nat /\ (Res("script", p) \in request \/ Res("source", p) \in request)
    BY <1>1, SourcesOfIs
  <2>4. Asks(load, request) BY <1>2 DEF Asked
  <2>5. SourcesOf(request) \subseteq 1 .. Len(load.shape) BY <2>3, <2>4 DEF Asks
  <2>6. \A p \in load.order : p \in SourcesOf(request) <=> p \in ScriptsOf(request)
    BY <2>3, <2>4, <1>3, <1>1 DEF Asks, Loads
  <2>7. after.came \subseteq 1 .. Len(load.shape) /\ \A p \in load.order : p \in after.came <=> p \in after.got
    BY <2>5, <2>6, <1>0, <1>2 DEF Settlements
  <2> QED BY <2>1, <2>2, <2>7, <1>0, <1>2 DEF Settlements
<1>11. RanAll(after)
  <2>1. RanSet(after) = RanSet(load)
    <3>1. \A p \in ScriptsOf(request) : load.shape[p] # "defer" => ~(p < load.upto)
      <4> SUFFICES ASSUME NEW p \in ScriptsOf(request), load.shape[p] # "defer" PROVE ~(p < load.upto)
        OBVIOUS
      <4>1. p = load.upto BY <1>5, <1>2 DEF Settlements
      <4> QED BY <4>1, <1>1
    <3> QED BY <3>1, <1>0 DEF RanSet
  <2> QED BY <2>1, <1>0, <1>2 DEF RanAll
<1>12. Styled(after)
  <2> SUFFICES ASSUME NEW other \in after.waiting, NEW r \in other, IsSheet(r),
                      NEW q \in Stops(load.shape, 0), q < load.upto
               PROVE  q < r[2]
    BY <1>0 DEF Styled
  <2>1. CASE other \in load.waiting BY <2>1, <1>2 DEF Styled
  <2>2. CASE other \in extra
    <3>1. PICK s \in request : IsSheet(s) /\ s[2] = r[2] BY <2>2 DEF Imports
    <3>2. q < s[2] BY <3>1, <1>2 DEF Styled
    <3> QED BY <3>1, <3>2
  <2> QED BY <2>1, <2>2, <1>0
<1>13. Stands(after)
  <2> SUFFICES ASSUME load.stopped, load.shape[load.upto] = "script", load.upto \notin after.got \cup after.failed
               PROVE  Waits(after, Res("script", load.upto))
    BY <1>0 DEF Stands
  <2>1. Waits(load, Res("script", load.upto)) BY <1>0, <1>2 DEF Stands
  <2>2. PICK other \in load.waiting : Res("script", load.upto) \in other BY <2>1 DEF Waits
  <2>3. other # request BY <2>2, <1>0, <1>1, <1>3
  <2> QED BY <2>2, <2>3, <1>0 DEF Waits
<1> QED BY <1>0, <1>4, <1>7, <1>8, <1>10, <1>11, <1>12, <1>13 DEF Good

(* ... and the parse goes on where that is what it waited for. *)
LEMMA SettledGood ==
    ASSUME NEW load, Good(load), Idle(load), NEW request \in load.waiting, NEW extra, Imports(request, extra),
           NEW after, Over(load, request, extra, after), NEW script \in BOOLEAN,
           script \/ after.got = load.got,
           extra # {} => \E r \in request : IsSheet(r)
    PROVE  /\ Good(Settled(after, request, script)) /\ Idle(Settled(after, request, script))
           /\ Settled(after, request, script).doc = load.doc /\ Settled(after, request, script).shape = load.shape
<1>0. Good(after) /\ after.doc = load.doc /\ after.shape = load.shape BY OverGood DEF Over
<1>1. CASE script \/ \E r \in request : IsSheet(r)
  <2>1. Settled(after, request, script) = Resume(after) BY <1>1, Zenon DEF Settled
  <2> PICK next : next = Resume(after) OBVIOUS
  <2>2. Resumed(after, next) BY <1>0, ResumeGood
  <2>3. Idle(next)
    <3> SUFFICES ASSUME next.stopped, next.upto \in next.got, ~SheetsLoading(next) PROVE FALSE BY DEF Idle
    <3>1. CanStep(next) BY DEF CanStep
    <3> QED BY <3>1, <2>2 DEF Resumed
  <2> QED BY <2>1, <2>2, <2>3, <1>0 DEF Resumed
<1>2. CASE ~(script \/ \E r \in request : IsSheet(r))
  <2>1. Settled(after, request, script) = after BY <1>2, Zenon DEF Settled
  <2>2. after.got = load.got /\ extra = {} BY <1>2
  <2>3. SheetsLoading(load) => SheetsLoading(after)
    <3> SUFFICES ASSUME NEW other \in load.waiting, NEW r \in other, IsSheet(r) PROVE SheetsLoading(after)
      BY DEF SheetsLoading
    <3>1. other # request BY <1>2
    <3>2. other \in after.waiting BY <3>1 DEF Over
    <3> QED BY <3>2 DEF SheetsLoading
  <2>4. Idle(after) BY <2>2, <2>3 DEF Idle, Over
  <2> QED BY <2>1, <2>4, <1>0
<1> QED BY <1>1, <1>2

(* What the preload scan asks for. *)
Sent(scanned, adopted) ==
    {{Res("source", p)} \cup (IF p \in adopted THEN {Res("script", p)} ELSE {}) : p \in scanned}

(* A load whose document has just come, field by field. *)
BuiltAs(s, shape, n, to, order, scanned) ==
    /\ s.doc = n /\ s.arrived = TRUE /\ s.shape = shape /\ s.upto = to /\ s.order = order
    /\ s.came = {} /\ s.got = {} /\ s.ran = Inline(shape, 0, to) /\ s.failed = {}
    /\ s.waiting = Sent(scanned, Adopted(shape, to)) \cup Found(shape, 0, to)
    /\ s.stopped \in BOOLEAN /\ (s.stopped <=> to <= Len(shape))
    /\ s.runner \in BOOLEAN /\ (s.runner <=> to > Len(shape))
    /\ s \in [doc : {s.doc}, arrived : {s.arrived}, shape : {s.shape},
              upto : {s.upto}, stopped : {s.stopped}, runner : {s.runner},
              order : {s.order}, came : {s.came}, got : {s.got}, ran : {s.ran},
              failed : {s.failed}, waiting : {s.waiting}]

LEMMA BuiltFields ==
    ASSUME NEW shape, NEW n, NEW to, to = Stop(shape, 0), NEW order, order = Between(shape, {"defer"}, 0, to),
           NEW scanned, scanned = Between(shape, {"script", "defer"}, 0, Len(shape))
    PROVE  BuiltAs(Built(shape, NewLoad(n)), shape, n, to, order, scanned)
<1>g. PICK s : s = Built(shape, NewLoad(n)) OBVIOUS
<1>a. PICK found : found = Found(shape, 0, to) OBVIOUS
<1>b. PICK stopped \in BOOLEAN : stopped <=> to <= Len(shape) OBVIOUS
<1>c. PICK runner \in BOOLEAN : runner <=> to > Len(shape) OBVIOUS
<1>d. PICK sent : sent = Sent(scanned, Adopted(shape, to)) OBVIOUS
<1>h. PICK inline : inline = Inline(shape, 0, to) OBVIOUS
<1>e. PICK new : new = NewLoad(n) OBVIOUS
<1>f. PICK t : t = [new EXCEPT
            !.arrived = TRUE, !.shape = shape, !.upto = to,
            !.stopped = stopped, !.runner = runner,
            !.order = order, !.ran = inline,
            !.waiting = sent \cup found] OBVIOUS
<1>1. s = t
  <2>1. stopped = (to <= Len(shape)) /\ runner = (to > Len(shape)) BY <1>b, <1>c
  <2> QED BY <1>a, <1>d, <1>e, <1>f, <1>g, <1>h, <2>1, Zenon DEF Built, Sent
<1>2. /\ t.doc = n /\ t.arrived = TRUE /\ t.shape = shape /\ t.upto = to
      /\ t.stopped = stopped /\ t.runner = runner /\ t.order = order
      /\ t.came = {} /\ t.got = {} /\ t.ran = inline /\ t.failed = {} /\ t.waiting = sent \cup found
  BY <1>e, <1>f DEF NewLoad
<1>3. t \in [doc : {t.doc}, arrived : {t.arrived}, shape : {t.shape},
                upto : {t.upto}, stopped : {t.stopped}, runner : {t.runner},
                order : {t.order}, came : {t.came}, got : {t.got}, ran : {t.ran},
                failed : {t.failed}, waiting : {t.waiting}]
  BY <1>e, <1>f DEF NewLoad
<1>4. /\ t.doc = n /\ t.arrived = TRUE /\ t.shape = shape /\ t.upto = to /\ t.order = order
      /\ t.came = {} /\ t.got = {} /\ t.ran = Inline(shape, 0, to) /\ t.failed = {}
      /\ t.waiting = Sent(scanned, Adopted(shape, to)) \cup Found(shape, 0, to)
  BY <1>2, <1>a, <1>d, <1>h
<1>5. /\ t.stopped \in BOOLEAN /\ (t.stopped <=> to <= Len(shape))
      /\ t.runner \in BOOLEAN /\ (t.runner <=> to > Len(shape))
  BY <1>2, <1>b, <1>c
<1>6. BuiltAs(t, shape, n, to, order, scanned) BY <1>3, <1>4, <1>5, Zenon DEF BuiltAs
<1> QED BY <1>1, <1>6, <1>g

(* It is good. *)
LEMMA BuiltGood ==
    ASSUME NEW shape \in Seq(Kind), NEW n \in Nat
    PROVE  /\ Good(Built(shape, NewLoad(n))) /\ Idle(Built(shape, NewLoad(n)))
           /\ Built(shape, NewLoad(n)).doc = n /\ Built(shape, NewLoad(n)).shape = shape
           /\ Built(shape, NewLoad(n)).arrived = TRUE
<1>a. PICK to : to = Stop(shape, 0) OBVIOUS
<1>b. PICK order : order = Between(shape, {"defer"}, 0, to) OBVIOUS
<1>c. PICK scanned : scanned = Between(shape, {"script", "defer"}, 0, Len(shape)) OBVIOUS
<1>d. PICK found : found = Found(shape, 0, to) OBVIOUS
<1>e. PICK adopted : adopted = Adopted(shape, to) OBVIOUS
<1>f. PICK sent : sent = Sent(scanned, adopted) OBVIOUS
<1>g. PICK s : s = Built(shape, NewLoad(n)) OBVIOUS
<1>1. BuiltAs(s, shape, n, to, order, scanned) BY <1>a, <1>b, <1>c, <1>g, BuiltFields
<1>2. /\ s.doc = n /\ s.arrived = TRUE /\ s.shape = shape /\ s.upto = to
      /\ s.order = order
      /\ s.came = {} /\ s.got = {} /\ s.ran = Inline(shape, 0, to) /\ s.failed = {}
      /\ s.waiting = sent \cup found
  BY <1>1, <1>d, <1>e, <1>f DEF BuiltAs
<1>22. s \in [doc : {s.doc}, arrived : {s.arrived}, shape : {s.shape},
                upto : {s.upto}, stopped : {s.stopped}, runner : {s.runner},
                order : {s.order}, came : {s.came}, got : {s.got}, ran : {s.ran},
                failed : {s.failed}, waiting : {s.waiting}]
  BY <1>1, Zenon DEF BuiltAs
<1>3. /\ Len(shape) \in Nat /\ to \in 1 .. Len(shape) + 1 /\ to \in Nat
      /\ to <= Len(shape) => shape[to] \in {"script", "barred"}
      /\ \A q \in Stops(shape, 0) : to <= q
  <2>1. 0 \in Nat /\ 0 <= Len(shape) /\ Len(shape) \in Nat OBVIOUS
  <2>2. /\ Stop(shape, 0) \in 0 + 1 .. Len(shape) + 1
        /\ Stop(shape, 0) <= Len(shape) => shape[Stop(shape, 0)] \in {"script", "barred"}
        /\ \A q \in Stops(shape, 0) : Stop(shape, 0) <= q
    BY <2>1, StopIs
  <2> QED BY <2>1, <2>2, <1>a
<1>4. (s.stopped <=> to <= Len(shape)) /\ (s.runner <=> to > Len(shape)) BY <1>1, Zenon DEF BuiltAs
<1>5. \A p : p \in order <=> p \in 1 .. to /\ p <= Len(shape) /\ shape[p] = "defer" BY <1>b, <1>3 DEF Between
<1>25. \A p : p \in adopted <=> p \in order \/ (p = to /\ to <= Len(shape) /\ shape[to] = "script")
  <2>1. \A p : p \in Between(shape, {"script"}, to - 1, to) <=> p = to /\ to <= Len(shape) /\ shape[to] = "script"
    BY <1>3 DEF Between
  <2> QED BY <2>1, <1>b, <1>e DEF Adopted
<1>6. \A p : p \in scanned <=> p \in 1 .. Len(shape) /\ p <= Len(shape) /\ shape[p] \in {"script", "defer"}
  BY <1>c DEF Between
<1>7. \A request \in found : \E i \in Nat : shape[i] \in {"sheet", "image"} /\ request = {<<shape[i], i>>}
  <2>1. 0 \in Nat /\ to \in Nat BY <1>3
  <2> SUFFICES ASSUME NEW request \in found
               PROVE  \E i \in Nat : shape[i] \in {"sheet", "image"} /\ request = {<<shape[i], i>>}
    OBVIOUS
  <2>2. \E i \in Nat : /\ i > 0 /\ i <= to /\ i <= Len(shape) /\ shape[i] \in {"sheet", "image"}
                       /\ request = {<<shape[i], i>>}
    BY <2>1, <1>d, FoundIs
  <2> QED BY <2>2
<1>8. \A request \in sent : \E p \in scanned :
         /\ request \subseteq {<<"source", p>>, <<"script", p>>}
         /\ request = {Res("source", p)} \cup (IF p \in adopted THEN {Res("script", p)} ELSE {})
         /\ \A q : Res("script", q) \in request => q = p /\ p \in adopted
  BY <1>f DEF Res, Sent
<1>9. s \in Loads
  <2>1. ASSUME NEW request \in found PROVE request \subseteq Resource
    <3>1. PICK i \in Nat : shape[i] \in {"sheet", "image"} /\ request = {<<shape[i], i>>} BY <1>7
    <3> QED BY <3>1 DEF Resource
  <2>2. ASSUME NEW request \in sent PROVE request \subseteq Resource
    <3>1. PICK p \in scanned : request \subseteq {<<"source", p>>, <<"script", p>>} BY <1>8
    <3>2. p \in Nat BY <1>6
    <3> QED BY <3>1, <3>2 DEF Resource
  <2>3. s.waiting \subseteq SUBSET Resource BY <2>1, <2>2, <1>2
  <2>4. s.order \subseteq Nat BY <1>2, <1>5
  <2>5. s.stopped \in BOOLEAN /\ s.runner \in BOOLEAN BY <1>1, Zenon DEF BuiltAs
  <2>6. s.ran \in Seq(Nat) /\ s.came \subseteq Nat /\ s.got \subseteq Nat /\ s.failed \subseteq Nat
    BY <1>2, <1>3, InlineIs
  <2>7. /\ s.doc \in Nat /\ s.arrived \in {TRUE} /\ s.shape \in Seq(Kind) /\ s.upto \in Nat BY <1>2, <1>3
  <2> QED BY <1>22, <2>3, <2>4, <2>5, <2>6, <2>7 DEF Loads
<1>10. Parse(s)
  <2>1. s.upto \in 1 .. Len(s.shape) + 1 BY <1>2, <1>3
  <2>2. (s.stopped <=> s.upto <= Len(s.shape)) /\ (s.runner <=> s.upto > Len(s.shape)) BY <1>2, <1>4
  <2>3. s.stopped => s.shape[s.upto] \in {"script", "barred"} BY <2>2, <1>2, <1>3
  <2>4. s.runner <=> ~s.stopped BY <2>2, <1>2, <1>3
  <2> QED BY <2>1, <2>2, <2>3, <2>4 DEF Parse
<1>11. Asked(s)
  <2> SUFFICES ASSUME NEW request \in s.waiting PROVE Asks(s, request) BY DEF Asked
  <2>1. CASE request \in found
    <3>1. PICK i \in Nat : shape[i] \in {"sheet", "image"} /\ request = {<<shape[i], i>>} BY <2>1, <1>7
    <3>2. \A p \in Nat : Res("script", p) \notin request /\ Res("source", p) \notin request BY <3>1 DEF Res
    <3>3. s.order \subseteq Nat BY <1>9 DEF Loads
    <3> QED BY <3>1, <3>2, <3>3 DEF Asks, IsSheet
  <2>2. CASE request \in sent
    <3>1. PICK p \in scanned :
            /\ request \subseteq {<<"source", p>>, <<"script", p>>}
            /\ request = {Res("source", p)} \cup (IF p \in adopted THEN {Res("script", p)} ELSE {})
            /\ \A q : Res("script", q) \in request => q = p /\ p \in adopted
      BY <2>2, <1>8
    <3>2. p \in 1 .. Len(s.shape) /\ p \notin s.got \cup s.failed /\ (p \in adopted => p \in s.order \/ p = s.upto)
      BY <1>2, <1>6, <1>25
    <3>3. \A r \in request : ~IsSheet(r) BY <3>1 DEF IsSheet
    <3>4. \A q : Res("source", q) \in request <=> q = p BY <3>1 DEF Res
    <3>5. \A q \in s.order : q \in adopted BY <1>2, <1>25
    <3>6. p \in adopted => Res("script", p) \in request BY <3>1
    <3> QED BY <3>1, <3>2, <3>3, <3>4, <3>5, <3>6 DEF Asks
  <2> QED BY <2>1, <2>2, <1>2
<1>12. Alone(s)
  <2> SUFFICES ASSUME NEW a \in s.waiting, NEW b \in s.waiting, NEW p \in Nat,
                      Res("script", p) \in a, Res("script", p) \in b
               PROVE  a = b
    BY DEF Alone
  <2>1. \A request \in found : Res("script", p) \notin request BY <1>7 DEF Res
  <2>2. a \in sent /\ b \in sent BY <2>1, <1>2
  <2>3. PICK x \in scanned : /\ a = {Res("source", x)} \cup (IF x \in adopted THEN {Res("script", x)} ELSE {})
                              /\ x = p
    BY <2>2, <1>8
  <2>4. PICK y \in scanned : /\ b = {Res("source", y)} \cup (IF y \in adopted THEN {Res("script", y)} ELSE {})
                              /\ y = p
    BY <2>2, <1>8
  <2> QED BY <2>3, <2>4
<1>13. Settlements(s)
  <2>1. \A p : p \in order <=> p \in 1 .. Len(shape) /\ shape[p] = "defer" /\ p < to BY <1>3, <1>5
  <2> QED BY <2>1, <1>2, <1>a DEF Settlements
<1>14. RanAll(s)
  <2>1. PICK between : between = Between(shape, {"inline"}, 0, to) OBVIOUS
  <2>2. InOrder(s.ran, between) BY <2>1, <1>2, <1>3, InlineIs
  <2>3. \A p : p \in between <=> p \in 1 .. Len(shape) /\ shape[p] = "inline" /\ p < to
    BY <2>1, <1>3 DEF Between
  <2>4. RanSet(s) = between BY <2>3, <1>2 DEF RanSet
  <2> QED BY <2>2, <2>4 DEF RanAll
<1>16. Styled(s)
  <2>1. \A q \in Stops(shape, 0) : q \in Nat /\ to <= q BY <1>3 DEF Stops
  <2> QED BY <2>1, <1>2, <1>3 DEF Styled
<1>17. Stands(s)
  <2> SUFFICES ASSUME s.stopped, shape[to] = "script" PROVE Waits(s, Res("script", to)) BY <1>2 DEF Stands
  <2>1. to <= Len(shape) BY <1>4
  <2>2. to \in adopted /\ to \in scanned BY <2>1, <1>3, <1>6, <1>25
  <2>3. {Res("source", to), Res("script", to)} \in sent BY <2>2, <1>f DEF Sent
  <2> QED BY <2>3, <1>2 DEF Waits
<1>15. Idle(s) BY <1>2 DEF Idle
<1> QED BY <1>g, <1>2, <1>9, <1>10, <1>11, <1>12, <1>13, <1>14, <1>15, <1>16, <1>17 DEF Good

(* Documents and generations are numbered in the order in which they come. *)
Numbers ==
    /\ started \in 0 .. MaxLoads /\ scripts \in 0 .. started /\ page.doc \in 0 .. started
    /\ generations \in Nat /\ generation \in 0 .. generations
    /\ pending.doc \in 0 .. started /\ done.doc \in 0 .. started
    /\ Loading => pending.doc > done.doc

(* What pages have asked for. *)
Fetches ==
    fetches \subseteq [kind : {"request", "module", "picture"}, asker : 1 .. started,
                       generation : 0 .. generations]

(* The load under way. *)
LoadFits ==
    Loading => IF pending.arrived THEN Good(pending) /\ Idle(pending) /\ pending.shape \in Shapes
               ELSE pending = NewLoad(pending.doc)

(* The load that is over. *)
DoneFits == (done.doc # 0 => IsLoad(done)) /\ CutAtALostScript

(* A picture is for the page on screen, while that page is the one last loaded. *)
Pictures ==
    \A f \in fetches : f.kind = "picture" /\ f.generation = generation =>
        f.asker = page.doc \/ page.doc # done.doc

Inv == Numbers /\ Fetches /\ LoadFits /\ DoneFits /\ ArrivedScriptsRan /\ Pictures

(* ArrivedScriptsRan says this of the load that is over. *)
AllRan(load) ==
    LET deferred(p) == load.shape[p] = "defer"
        inline   == {p \in DOMAIN load.shape : load.shape[p] = "inline" /\ p < load.upto}
        awaited  == {p \in load.got : ~deferred(p)}
        early    == {p \in load.came : deferred(p) /\ p < Stop(load.shape, 0)}
    IN  /\ Range(load.ran) = inline \cup awaited \cup (IF load.runner THEN early ELSE {})
        /\ \A i, j \in DOMAIN load.ran : i < j =>
              \/ ~deferred(load.ran[i]) /\ deferred(load.ran[j])
              \/ /\ deferred(load.ran[i]) = deferred(load.ran[j])
                 /\ load.ran[i] < load.ran[j]

(* The two forms of it. *)
LEMMA ArrivedIsAllRan == ArrivedScriptsRan <=> (done.doc # 0 => AllRan(done))
BY Zenon DEF ArrivedScriptsRan, AllRan

(* The load as the end of it leaves it. *)
Ended(load) ==
    [load EXCEPT !.ran = IF load.runner THEN @ \o Sorted(load.order \cap load.got) ELSE @]

LEMMA EndedFields ==
    ASSUME NEW load \in Loads
    PROVE  /\ Ended(load).doc = load.doc /\ Ended(load).shape = load.shape /\ Ended(load).upto = load.upto
           /\ Ended(load).came = load.came
           /\ Ended(load).got = load.got /\ Ended(load).failed = load.failed
           /\ Ended(load).stopped = load.stopped /\ Ended(load).runner = load.runner
           /\ Ended(load).ran = (IF load.runner THEN load.ran \o Sorted(load.order \cap load.got) ELSE load.ran)
<1>1. PICK sorted : sorted = Sorted(load.order \cap load.got) OBVIOUS
<1>2. PICK e : e = [load EXCEPT !.ran = IF load.runner THEN @ \o sorted ELSE @] OBVIOUS
<1>3. Ended(load) = e BY <1>1, <1>2, Zenon DEF Ended
<1>4. /\ e.doc = load.doc /\ e.shape = load.shape /\ e.upto = load.upto
      /\ e.came = load.came
      /\ e.got = load.got /\ e.failed = load.failed
      /\ e.stopped = load.stopped /\ e.runner = load.runner
      /\ e.ran = (IF load.runner THEN load.ran \o sorted ELSE load.ran)
  BY <1>2 DEF Loads
<1> QED BY <1>1, <1>3, <1>4

(* With nothing left to wait for, every script that came has run or runs now, *)
LEMMA EndIsRight ==
    ASSUME NEW load, Good(load), Idle(load), load.waiting = {}
    PROVE  AllRan(Ended(load))
<1>1. PICK e : e = Ended(load) OBVIOUS
<1>2. /\ load \in Loads /\ Parse(load) /\ Settlements(load) /\ RanAll(load) BY DEF Good
<1>3. load.ran \in Seq(Nat) /\ load.shape \in Seq(Kind) /\ load.upto \in Nat /\ load.got \subseteq Nat
  BY <1>2 DEF Loads
<1>4. Len(load.ran) \in Nat /\ Len(load.shape) \in Nat /\ DOMAIN load.ran = 1 .. Len(load.ran) BY <1>3
<1>5. /\ e.shape = load.shape /\ e.got = load.got /\ e.runner = load.runner
      /\ e.came = load.came /\ e.upto = load.upto
      /\ e.ran = (IF load.runner THEN load.ran \o Sorted(load.order \cap load.got) ELSE load.ran)
  BY <1>1, <1>2, EndedFields
<1>6. ~(load.stopped /\ load.upto \in load.got) BY DEF Idle, SheetsLoading
<1>7. \A p \in load.got : load.shape[p] # "defer" => p < load.upto
  <2> SUFFICES ASSUME NEW p \in load.got, load.shape[p] # "defer" PROVE p < load.upto OBVIOUS
  <2>1. Came(load, p) BY <1>2 DEF Settlements
  <2>2. p \in 1 .. Len(load.shape) /\ p <= load.upto BY <2>1, <1>2 DEF Came, Settlements
  <2>3. ASSUME p = load.upto PROVE FALSE
    <3>1. load.stopped BY <2>2, <2>3, <1>2 DEF Parse
    <3> QED BY <3>1, <2>3, <1>6
  <2> QED BY <2>2, <2>3, <1>3
<1>20. PICK inline : inline = {p \in DOMAIN load.shape : load.shape[p] = "inline" /\ p < load.upto} OBVIOUS
<1>21. DOMAIN load.shape = 1 .. Len(load.shape) BY <1>3
<1>22. InOrder(load.ran, RanSet(load)) BY <1>2 DEF RanAll
<1>23. \A p : p \in RanSet(load) <=> p \in inline \/ (p \in load.got /\ load.shape[p] # "defer")
  BY <1>7, <1>20, <1>21 DEF RanSet
<1>8. \A i \in 1 .. Len(load.ran) : /\ load.ran[i] \in Nat /\ load.ran[i] \in RanSet(load)
                                    /\ load.shape[load.ran[i]] # "defer"
  <2> SUFFICES ASSUME NEW i \in 1 .. Len(load.ran)
               PROVE  /\ load.ran[i] \in Nat /\ load.ran[i] \in RanSet(load)
                      /\ load.shape[load.ran[i]] # "defer"
    OBVIOUS
  <2>1. load.ran[i] \in Nat /\ load.ran[i] \in RanSet(load) BY <1>3, <1>22 DEF InOrder
  <2> QED BY <2>1 DEF RanSet
<1>9. \A p : p \in Range(load.ran) <=> p \in inline \/ (p \in load.got /\ load.shape[p] # "defer")
  <2>1. ASSUME NEW p \in Range(load.ran) PROVE p \in RanSet(load)
    BY <1>4, <1>8 DEF Range
  <2>2. ASSUME NEW p, p \in RanSet(load) PROVE p \in Range(load.ran)
    <3>1. p \in Nat BY <2>2, <1>3 DEF RanSet
    <3>2. PICK i \in 1 .. Len(load.ran) : load.ran[i] = p BY <3>1, <2>2, <1>22 DEF InOrder
    <3> QED BY <3>2, <1>4 DEF Range
  <2> QED BY <2>1, <2>2, <1>23
<1>10. \A i, j \in 1 .. Len(load.ran) : i < j => load.ran[i] < load.ran[j] BY <1>22 DEF InOrder
<1>24. PICK awaited : awaited = {p \in load.got : load.shape[p] # "defer"} OBVIOUS
<1>25. PICK early : early = {p \in load.came : load.shape[p] = "defer" /\ p < Stop(load.shape, 0)} OBVIOUS
<1>26. Range(load.ran) = inline \cup awaited BY <1>9, <1>24
<1>27. AllRan(e) <=>
         /\ Range(e.ran) = inline \cup awaited \cup (IF load.runner THEN early ELSE {})
         /\ \A i, j \in DOMAIN e.ran : i < j =>
               \/ load.shape[e.ran[i]] # "defer" /\ load.shape[e.ran[j]] = "defer"
               \/ /\ (load.shape[e.ran[i]] = "defer") = (load.shape[e.ran[j]] = "defer")
                  /\ e.ran[i] < e.ran[j]
  BY <1>5, <1>20, <1>24, <1>25, Zenon DEF AllRan
<1>11. CASE ~load.runner
  <2>1. e.ran = load.ran /\ ~e.runner BY <1>5, <1>11
  <2>2. Range(e.ran) = inline \cup awaited \cup (IF load.runner THEN early ELSE {}) BY <2>1, <1>11, <1>26
  <2>3. \A i, j \in DOMAIN e.ran : i < j =>
           /\ e.shape[e.ran[i]] # "defer" /\ e.shape[e.ran[j]] # "defer" /\ e.ran[i] < e.ran[j]
    BY <2>1, <1>4, <1>5, <1>8, <1>10
  <2>5. \A i, j \in DOMAIN e.ran : i < j =>
           /\ (load.shape[e.ran[i]] = "defer") = (load.shape[e.ran[j]] = "defer")
           /\ e.ran[i] < e.ran[j]
    BY <2>3, <1>5
  <2>4. AllRan(e) BY <2>2, <2>5, <1>27, Zenon
  <2> QED BY <2>4, <1>1
<1>12. CASE load.runner
  <2>1. PICK T : T = load.order \cap load.got OBVIOUS
  <2>2. PICK s : s = Sorted(T) OBVIOUS
  <2>3. T \subseteq 1 .. Len(load.shape) /\ \A p \in T : load.shape[p] = "defer"
    BY <2>1, <1>2 DEF Settlements
  <2>4. s \in Seq(T) /\ Len(s) \in Nat /\ Ascends(s) /\ Range(s) = T BY <2>2, <2>3, <1>4, SortedIs
  <2>5. s \in Seq(Nat) /\ DOMAIN s = 1 .. Len(s) /\ \A i \in 1 .. Len(s) : s[i] \in T
    <3>1. DOMAIN s = 1 .. Len(s) /\ \A i \in 1 .. Len(s) : s[i] \in T BY <2>4
    <3>2. T \subseteq Nat BY <2>3
    <3>3. s \in Seq(Nat) BY <3>2, <2>4, SeqMonotonic, Zenon
    <3> QED BY <3>1, <3>3
  <2>6. e.ran = load.ran \o s /\ e.runner BY <1>5, <1>12, <2>1, <2>2
  <2>7. PICK c : c = Len(load.ran) OBVIOUS
  <2>8. /\ e.ran \in Seq(Nat) /\ Len(e.ran) = c + Len(s)
        /\ \A i \in 1 .. c + Len(s) : e.ran[i] = IF i <= c THEN load.ran[i] ELSE s[i - c]
    BY <2>5, <2>6, <2>7, <1>3, ConcatProperties
  <2>9. c \in Nat /\ DOMAIN e.ran = 1 .. c + Len(s) BY <2>7, <2>8, <1>4
  <2>10. \A i \in 1 .. c + Len(s) :
            \/ i \in 1 .. c /\ e.ran[i] = load.ran[i]
            \/ i > c /\ i - c \in 1 .. Len(s) /\ e.ran[i] = s[i - c]
    BY <2>8, <2>9, <2>4
  <2>11. \A p : p \in Range(e.ran) <=> p \in Range(load.ran) \/ p \in Range(s)
    <3>1. ASSUME NEW p \in Range(e.ran) PROVE p \in Range(load.ran) \/ p \in Range(s)
      <4>1. PICK i \in 1 .. c + Len(s) : e.ran[i] = p BY <2>9 DEF Range
      <4>2. CASE i \in 1 .. c /\ e.ran[i] = load.ran[i] BY <4>1, <4>2, <1>4, <2>7 DEF Range
      <4>3. CASE i - c \in 1 .. Len(s) /\ e.ran[i] = s[i - c] BY <4>1, <4>3, <2>5 DEF Range
      <4> QED BY <4>2, <4>3, <2>10
    <3>2. ASSUME NEW p \in Range(load.ran) PROVE p \in Range(e.ran)
      <4>1. PICK i \in 1 .. c : load.ran[i] = p BY <1>4, <2>7 DEF Range
      <4>2. i \in 1 .. c + Len(s) /\ i <= c BY <2>9, <2>4
      <4>3. e.ran[i] = p BY <4>1, <4>2, <2>8
      <4> QED BY <4>2, <4>3, <2>9 DEF Range
    <3>3. ASSUME NEW p \in Range(s) PROVE p \in Range(e.ran)
      <4>1. PICK i \in 1 .. Len(s) : s[i] = p BY <2>5 DEF Range
      <4>2. i + c \in 1 .. c + Len(s) /\ ~(i + c <= c) /\ (i + c) - c = i BY <2>9, <2>4
      <4>3. e.ran[i + c] = p BY <4>1, <4>2, <2>8
      <4> QED BY <4>2, <4>3, <2>9 DEF Range
    <3> QED BY <3>1, <3>2, <3>3
  <2>12. T = early
    <3>1. \A p : p \in T <=> p \in early BY <2>1, <1>2, <1>25 DEF Settlements
    <3> QED BY <3>1
  <2>13. Range(e.ran) = inline \cup awaited \cup (IF load.runner THEN early ELSE {})
    BY <2>11, <2>12, <2>4, <1>12, <1>26
  <2>14. ASSUME NEW i \in DOMAIN e.ran, NEW j \in DOMAIN e.ran, i < j
         PROVE  \/ e.shape[e.ran[i]] # "defer" /\ e.shape[e.ran[j]] = "defer"
                \/ /\ (e.shape[e.ran[i]] = "defer") <=> (e.shape[e.ran[j]] = "defer")
                   /\ e.ran[i] < e.ran[j]
    <3>1. i \in 1 .. c + Len(s) /\ j \in 1 .. c + Len(s) BY <2>9
    <3>2. CASE i \in 1 .. c /\ e.ran[i] = load.ran[i]
      <4>1. e.shape[e.ran[i]] # "defer" BY <3>2, <1>5, <1>8, <2>7
      <4>2. CASE j \in 1 .. c /\ e.ran[j] = load.ran[j]
        BY <4>1, <4>2, <3>2, <2>14, <1>5, <1>8, <1>10, <2>7
      <4>3. CASE j - c \in 1 .. Len(s) /\ e.ran[j] = s[j - c] BY <4>1, <4>3, <2>3, <2>5, <1>5
      <4> QED BY <4>2, <4>3, <3>1, <2>10
    <3>3. CASE i > c /\ i - c \in 1 .. Len(s) /\ e.ran[i] = s[i - c]
      <4>1. j - c \in 1 .. Len(s) /\ e.ran[j] = s[j - c] /\ i - c < j - c
        <5>1. j > c BY <3>3, <2>14, <2>9, <3>1
        <5> QED BY <5>1, <3>1, <2>10, <2>14, <2>9, <3>3
      <4>2. s[i - c] < s[j - c] BY <4>1, <3>3, <2>4, <2>5 DEF Ascends
      <4> QED BY <4>1, <4>2, <3>3, <2>3, <2>5, <1>5
    <3> QED BY <3>2, <3>3, <3>1, <2>10
  <2>16. \A i, j \in DOMAIN e.ran : i < j =>
            \/ load.shape[e.ran[i]] # "defer" /\ load.shape[e.ran[j]] = "defer"
            \/ /\ (load.shape[e.ran[i]] = "defer") = (load.shape[e.ran[j]] = "defer")
               /\ e.ran[i] < e.ran[j]
    BY <2>14, <1>5
  <2>15. AllRan(e) BY <2>13, <2>16, <1>27, Zenon
  <2> QED BY <2>15, <1>1
<1> QED BY <1>11, <1>12

(* and a parse that is still stopped is stopped at a script that is lost. *)
LEMMA EndIsCutAtALoss ==
    ASSUME NEW load, Good(load), Idle(load), load.waiting = {}, load.stopped
    PROVE  load.shape[load.upto] = "barred" \/ load.upto \in load.failed
<1>1. Parse(load) /\ Stands(load) BY DEF Good
<1>2. ~SheetsLoading(load) /\ ~Waits(load, Res("script", load.upto)) BY DEF SheetsLoading, Waits
<1>3. load.upto \notin load.got BY <1>2 DEF Idle
<1> QED BY <1>1, <1>2, <1>3 DEF Parse, Stands

(* Each action keeps the invariant: the end of a load, *)
LEMMA FinishKeeps ==
    ASSUME Inv, Loading, NEW load, Good(load), Idle(load), load.shape \in Shapes, load.doc = pending.doc,
           load.waiting = {}, Finish(load), UNCHANGED <<started, asked, delivered>>
    PROVE  Inv'
<1>1. /\ Numbers /\ Fetches /\ LoadFits /\ load.doc \in 1 .. started /\ load.doc \in 1 .. MaxLoads
  <2>1. Numbers /\ Fetches /\ LoadFits BY DEF Inv
  <2>2. pending.doc \in 0 .. started /\ pending.doc # 0 /\ started \in 0 .. MaxLoads BY <2>1 DEF Numbers, Loading
  <2>3. MaxLoads \in Nat BY LoadAssumption
  <2> QED BY <2>1, <2>2, <2>3
<1>2. /\ generations' = generations + 1 /\ generation' = generations + 1
      /\ fetches' = {Rebased(f) : f \in fetches}
      /\ pending' = NoLoad /\ scripts' = (IF load.runner THEN load.doc ELSE 0)
      /\ page' = [doc |-> load.doc, upto |-> load.upto]
      /\ started' = started
  BY DEF Finish
<1>3. done' = Ended(load) BY Zenon DEF Finish, Ended
<1>4. pending'.doc = 0 /\ page'.doc = load.doc /\ ~Loading' BY <1>2 DEF NoLoad, Loading
<1>5. load \in Loads BY DEF Good
<1>6. done'.doc = load.doc BY <1>3, <1>5, EndedFields
<1>7. Numbers'
  <2>1. generations \in Nat BY <1>1 DEF Numbers
  <2>2. generations' \in Nat /\ generation' \in 0 .. generations' BY <1>2, <2>1
  <2>3. scripts' \in 0 .. started BY <1>1, <1>2 DEF Numbers
  <2> QED BY <1>1, <1>2, <1>4, <1>6, <2>2, <2>3 DEF Numbers
<1>8. \A f \in fetches' :
        /\ f \in [kind : {"request", "module", "picture"}, asker : 1 .. started, generation : 0 .. generations']
        /\ ~(f.kind = "picture" /\ f.generation = generation')
  <2> SUFFICES ASSUME NEW g \in fetches
               PROVE  /\ Rebased(g) \in [kind : {"request", "module", "picture"}, asker : 1 .. started,
                                         generation : 0 .. generations']
                      /\ ~(Rebased(g).kind = "picture" /\ Rebased(g).generation = generation')
    BY <1>2
  <2>1. g \in [kind : {"request", "module", "picture"}, asker : 1 .. started, generation : 0 .. generations]
    BY <1>1 DEF Fetches
  <2>2. generations \in Nat BY <1>1 DEF Numbers
  <2>3. CASE g.kind # "picture" /\ g.generation = generation
    <3>1. PICK r : r = [g EXCEPT !.generation = generations + 1] OBVIOUS
    <3>2. Rebased(g) = r BY <2>3, <3>1, Zenon DEF Rebased
    <3>3. r.kind = g.kind /\ r \in [kind : {"request", "module", "picture"}, asker : 1 .. started,
                                    generation : 0 .. generations + 1]
      BY <3>1, <2>1, <2>2
    <3> QED BY <3>2, <3>3, <2>3, <1>2
  <2>4. CASE ~(g.kind # "picture" /\ g.generation = generation)
    <3>1. Rebased(g) = g BY <2>4, Zenon DEF Rebased
    <3>2. g.generation # generation' /\ g.generation \in 0 .. generations' BY <2>1, <2>2, <1>2
    <3> QED BY <3>1, <3>2, <2>1
  <2> QED BY <2>3, <2>4
<1>9. Fetches' /\ Pictures' BY <1>8, <1>2 DEF Fetches, Pictures
<1>10. LoadFits' BY <1>4 DEF LoadFits
<1>11. DoneFits'
  <2>1. /\ done'.shape = load.shape /\ done'.upto = load.upto /\ done'.got = load.got /\ done'.failed = load.failed
        /\ done'.stopped = load.stopped /\ done'.runner = load.runner
    BY <1>3, <1>5, EndedFields
  <2>2. Parse(load) /\ Settlements(load) BY DEF Good
  <2>3. load.shape \in Seq(Kind) /\ load.upto \in Nat BY <1>5 DEF Loads
  <2>4. load.upto \in 0 .. Len(load.shape) + 1 BY <2>2, <2>3 DEF Parse
  <2>5. load.got \cup load.failed \subseteq DOMAIN load.shape BY <2>2, <2>3 DEF Settlements, Came
  <2>6. ~(load.stopped /\ load.runner) /\ load.got \cap load.failed = {} BY <2>2 DEF Parse, Settlements
  <2>7. CutAtALostScript' BY <2>1, EndIsCutAtALoss DEF CutAtALostScript
  <2> QED BY <2>1, <2>4, <2>5, <2>6, <2>7, <1>1, <1>6 DEF DoneFits, IsLoad
<1>12. ArrivedScriptsRan'
  <2>1. AllRan(done') BY <1>3, EndIsRight
  <2>2. (done.doc # 0 => AllRan(done))' BY <2>1
  <2>3. (ArrivedScriptsRan <=> (done.doc # 0 => AllRan(done)))' BY ArrivedIsAllRan, PTL
  <2> QED BY <2>2, <2>3
<1> QED BY <1>7, <1>9, <1>10, <1>11, <1>12 DEF Inv

(* a step that ends it or does not, *)
LEMMA CarryKeeps ==
    ASSUME Inv, Loading, NEW load, Good(load), Idle(load), load.shape \in Shapes, load.doc = pending.doc,
           Carry(load), UNCHANGED <<started, asked, delivered>>
    PROVE  Inv'
<1>1. CASE load.waiting = {} BY <1>1, FinishKeeps DEF Carry
<1>2. CASE load.waiting # {}
  <2>1. /\ pending' = load /\ page' = [doc |-> load.doc, upto |-> load.upto]
        /\ UNCHANGED <<scripts, generation, generations, fetches, done, started>>
    BY <1>2 DEF Carry
  <2>2. Numbers /\ Fetches /\ DoneFits /\ ArrivedScriptsRan BY DEF Inv
  <2>3. page'.doc = load.doc /\ load.doc \in 0 .. started /\ load.doc > done.doc /\ load.doc # done.doc
    BY <2>1, <2>2 DEF Numbers, Loading
  <2>4. Numbers' BY <2>1, <2>2, <2>3 DEF Numbers, Loading
  <2>5. load.arrived BY DEF Good, Loads
  <2>6. LoadFits' BY <2>1, <2>5 DEF LoadFits
  <2>7. Fetches' /\ Pictures' BY <2>1, <2>2, <2>3 DEF Fetches, Pictures
  <2>8. DoneFits' /\ ArrivedScriptsRan' BY <2>1, <2>2 DEF DoneFits, CutAtALostScript, ArrivedScriptsRan
  <2> QED BY <2>4, <2>6, <2>7, <2>8 DEF Inv
<1> QED BY <1>1, <1>2

(* a slot left without a page, *)
LEMMA BlankKeeps ==
    ASSUME Inv, Blank, UNCHANGED <<started, asked, done, delivered>> PROVE Inv'
<1>1. Numbers /\ DoneFits /\ ArrivedScriptsRan BY DEF Inv
<1>2. /\ page'.doc = 0 /\ scripts' = 0 /\ pending'.doc = 0 /\ fetches' = {} /\ ~Loading'
      /\ generations' = generations + 1 /\ generation' = generations + 1
      /\ started' = started /\ done' = done
  BY DEF Blank, NoPage, NoLoad, Loading
<1>3. generations' \in Nat /\ generation' \in 0 .. generations' BY <1>1, <1>2 DEF Numbers
<1>4. Numbers' BY <1>1, <1>2, <1>3 DEF Numbers
<1>5. Fetches' /\ LoadFits' /\ Pictures' BY <1>2 DEF Fetches, LoadFits, Pictures
<1>6. DoneFits' /\ ArrivedScriptsRan' BY <1>1, <1>2 DEF DoneFits, CutAtALostScript, ArrivedScriptsRan
<1> QED BY <1>4, <1>5, <1>6 DEF Inv

(* a new load, *)
LEMMA StartKeeps == ASSUME Inv, Start PROVE Inv'
<1>1. Numbers /\ DoneFits /\ ArrivedScriptsRan /\ Fetches /\ Pictures BY DEF Inv
<1>2. /\ started < MaxLoads /\ started' = started + 1 /\ pending' = NewLoad(started + 1)
      /\ UNCHANGED <<page, scripts, generation, generations, fetches, done>>
  BY DEF Start
<1>3. pending'.doc = started + 1 /\ pending'.arrived = FALSE /\ pending' = NewLoad(pending'.doc)
  BY <1>2 DEF NewLoad
<1>4. started \in Nat /\ MaxLoads \in Nat /\ started' \in 0 .. MaxLoads BY <1>1, <1>2, LoadAssumption DEF Numbers
<1>5. \A k : k \in 0 .. started => k \in 0 .. started' BY <1>2, <1>4
<1>6. Numbers' 
  <2>1. pending'.doc > done'.doc /\ pending'.doc \in 0 .. started' BY <1>1, <1>2, <1>3, <1>4 DEF Numbers
  <2> QED BY <1>1, <1>2, <1>4, <1>5, <2>1 DEF Numbers
<1>7. Fetches'
  <2>1. \A k : k \in 1 .. started => k \in 1 .. started' BY <1>2, <1>4
  <2>2. \A f \in fetches : f \in [kind : {"request", "module", "picture"}, asker : 1 .. started',
                                  generation : 0 .. generations]
    BY <1>1, <2>1 DEF Fetches
  <2> QED BY <2>2, <1>2 DEF Fetches
<1>8. LoadFits' BY <1>3 DEF LoadFits
<1>9. DoneFits' /\ ArrivedScriptsRan' /\ Pictures' BY <1>1, <1>2 DEF DoneFits, CutAtALostScript, ArrivedScriptsRan, Pictures
<1> QED BY <1>6, <1>7, <1>8, <1>9 DEF Inv

(* its document, *)
LEMMA DocumentKeeps == ASSUME Inv, NEW shape \in Shapes, DocumentArrives(shape) PROVE Inv'
<1>1. /\ Loading /\ ~pending.arrived /\ Carry(Built(shape, pending)) /\ UNCHANGED <<started, asked, delivered>>
  BY DEF DocumentArrives
<1>2. pending = NewLoad(pending.doc) /\ pending.doc \in Nat BY <1>1 DEF Inv, LoadFits, Numbers
<1>3. shape \in Seq(Kind) BY LoadAssumption
<1>4. PICK n \in Nat : n = pending.doc BY <1>2
<1>5. PICK load : load = Built(shape, NewLoad(n)) OBVIOUS
<1>6. Good(load) /\ Idle(load) /\ load.doc = n /\ load.shape = shape BY <1>3, <1>5, BuiltGood
<1>7. Carry(load) BY <1>1, <1>2, <1>4, <1>5
<1> QED BY <1>1, <1>4, <1>6, <1>7, CarryKeeps

(* The load once its document is there. *)
LEMMA ArrivedFits ==
    ASSUME Inv, Arrived
    PROVE  /\ Loading /\ Good(pending) /\ Idle(pending) /\ pending.shape \in Shapes /\ pending \in Loads
BY DEF Inv, Arrived, LoadFits, Good

(* A request that came is over, *)
LEMMA ArrivalOver ==
    ASSUME NEW load \in Loads, NEW request \in load.waiting, NEW extra, extra \subseteq SUBSET Resource,
           NEW after, after = [Without(load, request) EXCEPT
                                 !.came = @ \cup SourcesOf(request),
                                 !.got = @ \cup ScriptsOf(request), !.waiting = @ \cup extra]
    PROVE  Over(load, request, extra, after) /\ after.got = load.got \cup ScriptsOf(request)
<1>1. PICK s : s = ScriptsOf(request) OBVIOUS
<1>2. PICK w : w = [load EXCEPT !.waiting = @ \ {request}] OBVIOUS
<1>9. PICK t : t = SourcesOf(request) OBVIOUS
<1>3. PICK a : a = [w EXCEPT !.came = @ \cup t, !.got = @ \cup s, !.waiting = @ \cup extra] OBVIOUS
<1>4. after = a BY <1>1, <1>2, <1>3, <1>9, Zenon DEF Without
<1>5. s \subseteq Nat /\ t \subseteq Nat
  <2>1. request \subseteq Resource BY DEF Loads
  <2> QED BY <2>1, <1>1, <1>9, ScriptsOfIs, SourcesOfIs
<1>6. w \in Loads /\ w.waiting = load.waiting \ {request} /\ w.got = load.got /\ w.doc = load.doc
      /\ w.shape = load.shape /\ w.upto = load.upto /\ w.stopped = load.stopped /\ w.runner = load.runner
      /\ w.order = load.order /\ w.ran = load.ran /\ w.failed = load.failed /\ w.came = load.came
  BY <1>2 DEF Loads
<1>7. /\ a.waiting = w.waiting \cup extra /\ a.got = w.got \cup s /\ a.doc = w.doc
      /\ a.shape = w.shape /\ a.upto = w.upto /\ a.stopped = w.stopped /\ a.runner = w.runner
      /\ a.order = w.order /\ a.ran = w.ran /\ a.failed = w.failed /\ a.came = w.came \cup t
  BY <1>3, <1>6 DEF Loads
<1>8. a \in Loads
  <2>1. /\ w.got \cup s \in SUBSET Nat /\ w.came \cup t \in SUBSET Nat
        /\ w.waiting \cup extra \in SUBSET (SUBSET Resource) BY <1>5, <1>6 DEF Loads
  <2> QED BY <1>3, <1>6, <2>1 DEF Loads
<1> QED BY <1>1, <1>4, <1>6, <1>7, <1>8, <1>9 DEF Over

(* and the parse goes on. *)
LEMMA ArrivalLoad ==
    ASSUME Inv, NEW request \in pending.waiting, NEW imports \in BOOLEAN, SubresourceArrives(request, imports)
    PROVE  \E load : /\ Carry(load) /\ Good(load) /\ Idle(load)
                     /\ load.doc = pending.doc /\ load.shape = pending.shape
<1>1. /\ Arrived /\ (imports => \E r \in request : r[1] = "sheet") /\ UNCHANGED <<started, asked, delivered>>
  BY DEF SubresourceArrives
<1>2. Loading /\ Good(pending) /\ Idle(pending) /\ pending.shape \in Shapes /\ pending \in Loads
  BY <1>1, ArrivedFits
<1>3. PICK extra : extra = IF imports THEN {{Res("import", r[2])} : r \in request} ELSE {} OBVIOUS
<1>4. PICK after : after = [Without(pending, request) EXCEPT !.came = @ \cup SourcesOf(request),
                                                            !.got = @ \cup ScriptsOf(request),
                                                            !.waiting = @ \cup extra]
  OBVIOUS
<1>5. PICK script \in BOOLEAN : script <=> ScriptsOf(request) # {} OBVIOUS
<1>6. PICK load : load = Settled(after, request, script) OBVIOUS
<1>7. Carry(load)
  <2>1. script = (ScriptsOf(request) # {}) BY <1>5
  <2>2. Carry(Settled([Without(pending, request) EXCEPT
                         !.came = @ \cup SourcesOf(request),
                         !.got = @ \cup ScriptsOf(request),
                         !.waiting = @ \cup IF imports THEN {{Res("import", r[2])} : r \in request} ELSE {}],
                      request, ScriptsOf(request) # {}))
    BY Zenon DEF SubresourceArrives
  <2>3. Carry(Settled([Without(pending, request) EXCEPT
                         !.came = @ \cup SourcesOf(request),
                         !.got = @ \cup ScriptsOf(request), !.waiting = @ \cup extra],
                      request, ScriptsOf(request) # {}))
    BY <2>2, <1>3, Zenon
  <2> QED BY <2>1, <2>3, <1>4, <1>6, Zenon
<1>8. request \subseteq Resource BY <1>2 DEF Loads
<1>9. imports => \A r \in request : IsSheet(r)
  <2>1. Asks(pending, request) BY <1>2 DEF Good, Asked
  <2> QED BY <2>1, <1>1 DEF Asks, IsSheet
<1>10. \A r \in request : r[2] \in Nat BY <1>8 DEF Resource
<1>11. extra \subseteq SUBSET Resource
  <2>1. \A e \in extra : \E r \in request : e = {Res("import", r[2])} BY <1>3
  <2>2. \A r \in request : Res("import", r[2]) \in Resource BY <1>10 DEF Res, Resource
  <2> QED BY <2>1, <2>2
<1>12. Imports(request, extra)
  <2> SUFFICES ASSUME NEW e \in extra, NEW x \in e PROVE x[1] = "import" /\ \E s \in request : IsSheet(s) /\ s[2] = x[2]
    BY DEF Imports
  <2>1. imports /\ \E r \in request : e = {Res("import", r[2])} BY <1>3
  <2>2. PICK r \in request : x = Res("import", r[2]) BY <2>1
  <2>3. x[1] = "import" /\ x[2] = r[2] BY <2>2 DEF Res
  <2> QED BY <2>1, <2>3, <1>9
<1>13. Over(pending, request, extra, after) /\ after.got = pending.got \cup ScriptsOf(request)
  BY <1>2, <1>4, <1>11, ArrivalOver
<1>14. script \/ after.got = pending.got BY <1>13, <1>5
<1>15. extra # {} => \E r \in request : IsSheet(r) BY <1>3, <1>1 DEF IsSheet
<1>16. /\ Good(load) /\ Idle(load) /\ load.doc = pending.doc /\ load.shape = pending.shape
  <2>1. Over(pending, request, extra, after) BY <1>13
  <2>2. /\ Good(Settled(after, request, script)) /\ Idle(Settled(after, request, script))
        /\ Settled(after, request, script).doc = pending.doc
        /\ Settled(after, request, script).shape = pending.shape
    BY <2>1, <1>2, <1>12, <1>14, <1>15, SettledGood
  <2> QED BY <2>2, <1>6
<1> QED BY <1>2, <1>7, <1>16

LEMMA ResourceKeeps ==
    ASSUME Inv, NEW request \in pending.waiting, NEW imports \in BOOLEAN, SubresourceArrives(request, imports)
    PROVE  Inv'
<1>1. PICK load : Carry(load) /\ Good(load) /\ Idle(load) /\ load.doc = pending.doc /\ load.shape = pending.shape
  BY ArrivalLoad
<1>2. Arrived /\ UNCHANGED <<started, asked, delivered>> BY DEF SubresourceArrives
<1>3. Loading /\ pending.shape \in Shapes BY <1>2, ArrivedFits
<1> QED BY <1>1, <1>2, <1>3, CarryKeeps

(* A request that failed is over, *)
LEMMA FailureOver ==
    ASSUME NEW load \in Loads, NEW request \in load.waiting,
           NEW after, after = [Without(load, request) EXCEPT !.failed = @ \cup ScriptsOf(request)]
    PROVE  Over(load, request, {}, after) /\ after.got = load.got
<1>1. PICK s : s = ScriptsOf(request) OBVIOUS
<1>2. PICK w : w = [load EXCEPT !.waiting = @ \ {request}] OBVIOUS
<1>3. PICK a : a = [w EXCEPT !.failed = @ \cup s] OBVIOUS
<1>4. after = a BY <1>1, <1>2, <1>3, Zenon DEF Without
<1>5. s \subseteq Nat
  <2>1. request \subseteq Resource BY DEF Loads
  <2> QED BY <2>1, <1>1, ScriptsOfIs
<1>6. w \in Loads /\ w.waiting = load.waiting \ {request} /\ w.got = load.got /\ w.doc = load.doc
      /\ w.shape = load.shape /\ w.upto = load.upto /\ w.stopped = load.stopped /\ w.runner = load.runner
      /\ w.order = load.order /\ w.ran = load.ran /\ w.failed = load.failed /\ w.came = load.came
  BY <1>2 DEF Loads
<1>7. /\ a.waiting = w.waiting /\ a.got = w.got /\ a.doc = w.doc
      /\ a.shape = w.shape /\ a.upto = w.upto /\ a.stopped = w.stopped /\ a.runner = w.runner
      /\ a.order = w.order /\ a.ran = w.ran /\ a.failed = w.failed \cup s /\ a.came = w.came
  BY <1>3, <1>6 DEF Loads
<1>8. a \in Loads
  <2>1. w.failed \cup s \in SUBSET Nat BY <1>5, <1>6 DEF Loads
  <2> QED BY <1>3, <1>6, <2>1 DEF Loads
<1>9. a.waiting = (load.waiting \ {request}) \cup {} BY <1>6, <1>7
<1>10. a.got = load.got /\ a.failed = load.failed \cup s /\ a.came = load.came BY <1>6, <1>7
<1> QED BY <1>1, <1>4, <1>6, <1>7, <1>8, <1>9, <1>10 DEF Over

(* and the parse goes on where it was for a sheet. *)
LEMMA FailureLoad ==
    ASSUME Inv, NEW request \in pending.waiting, SubresourceFails(request)
    PROVE  \E load : /\ Carry(load) /\ Good(load) /\ Idle(load)
                     /\ load.doc = pending.doc /\ load.shape = pending.shape
<1>1. Arrived /\ UNCHANGED <<started, asked, delivered>>
  BY DEF SubresourceFails
<1>2. Loading /\ Good(pending) /\ Idle(pending) /\ pending.shape \in Shapes /\ pending \in Loads
  BY <1>1, ArrivedFits
<1>3. PICK after : after = [Without(pending, request) EXCEPT !.failed = @ \cup ScriptsOf(request)] OBVIOUS
<1>4. PICK load : load = Settled(after, request, FALSE) OBVIOUS
<1>5. Carry(load) BY <1>3, <1>4, Zenon DEF SubresourceFails
<1>6. Over(pending, request, {}, after) /\ after.got = pending.got BY <1>2, <1>3, FailureOver
<1>7. Imports(request, {}) BY DEF Imports
<1>8. FALSE \in BOOLEAN OBVIOUS
<1>9. Good(load) /\ Idle(load) /\ load.doc = pending.doc /\ load.shape = pending.shape
  <2>1. {} # {} => \E r \in request : IsSheet(r) OBVIOUS
  <2> QED BY <1>2, <1>4, <1>6, <1>7, <1>8, <2>1, SettledGood
<1> QED BY <1>2, <1>5, <1>9

LEMMA FailureKeeps ==
    ASSUME Inv, NEW request \in pending.waiting, SubresourceFails(request)
    PROVE  Inv'
<1>1. PICK load : Carry(load) /\ Good(load) /\ Idle(load) /\ load.doc = pending.doc /\ load.shape = pending.shape
  BY FailureLoad
<1>2. Arrived /\ UNCHANGED <<started, asked, delivered>> BY DEF SubresourceFails
<1>3. Loading /\ pending.shape \in Shapes BY <1>2, ArrivedFits
<1> QED BY <1>1, <1>2, <1>3, CarryKeeps

(* A script world is that of a document there has been. *)
LEMMA RunnerIs == ASSUME Numbers, Runner # 0 PROVE Runner \in 1 .. started
<1>1. Runner = scripts \/ Runner = pending.doc \/ Runner = 0 BY Zenon DEF Runner
<1>2. scripts \in 0 .. started /\ pending.doc \in 0 .. started BY DEF Numbers
<1> QED BY <1>1, <1>2

(* The invariant holds at the start, *)
LEMMA InitInv == Init => Inv
<1> SUFFICES ASSUME Init PROVE Inv OBVIOUS
<1>1. /\ page.doc = 0 /\ scripts = 0 /\ pending.doc = 0 /\ done.doc = 0 /\ fetches = {} /\ started = 0
      /\ generation = 0 /\ generations = 0 /\ ~Loading
  BY DEF Init, NoPage, NoLoad, Loading
<1>2. Numbers BY <1>1, LoadAssumption DEF Numbers
<1> QED BY <1>1, <1>2 DEF Inv, Fetches, LoadFits, DoneFits, CutAtALostScript, ArrivedScriptsRan, Pictures

(* and every step keeps it. *)
LEMMA NextInv == Inv /\ [Next]_vars => Inv'
<1> SUFFICES ASSUME Inv, [Next]_vars PROVE Inv' OBVIOUS
<1>0. /\ Numbers /\ Fetches /\ LoadFits /\ DoneFits /\ ArrivedScriptsRan /\ Pictures BY DEF Inv
<1>1. CASE Start BY <1>1, StartKeeps
<1>2. CASE NoDocument BY <1>2, BlankKeeps DEF NoDocument
<1>3. CASE ShowSystem BY <1>3, BlankKeeps DEF ShowSystem
<1>4. ASSUME NEW shape \in Shapes, DocumentArrives(shape) PROVE Inv' BY <1>4, DocumentKeeps
<1>5. ASSUME NEW request \in Requests, SubresourceFails(request) PROVE Inv'
  <2>1. request \in pending.waiting BY Zenon DEF Requests
  <2> QED BY <2>1, <1>5, FailureKeeps
<1>6. ASSUME NEW request \in Requests, NEW imports \in BOOLEAN, SubresourceArrives(request, imports) PROVE Inv'
  <2>1. request \in pending.waiting BY Zenon DEF Requests
  <2> QED BY <2>1, <1>6, ResourceKeeps
<1>7. CASE StopLoad
  <2>1. /\ pending'.doc = 0 /\ ~Loading'
        /\ UNCHANGED <<page, scripts, generation, generations, fetches, started, done>>
    BY <1>7 DEF StopLoad, NoLoad, Loading
  <2>2. Numbers' BY <1>0, <2>1 DEF Numbers
  <2> QED BY <1>0, <2>1, <2>2 DEF Inv, Fetches, LoadFits, DoneFits, CutAtALostScript, ArrivedScriptsRan, Pictures
<1>8. ASSUME NEW kind \in {"request", "module", "picture"}, PageAsks(kind) PROVE Inv'
  <2>1. PICK asker : asker = IF kind = "picture" THEN page.doc ELSE Runner OBVIOUS
  <2>2. PICK f : f = [kind |-> kind, asker |-> asker, generation |-> generation] OBVIOUS
  <2>3. fetches' = fetches \cup {f} BY <1>8, <2>1, <2>2, Zenon DEF PageAsks
  <2>4. UNCHANGED <<page, scripts, generation, generations, pending, started, done>> BY <1>8 DEF PageAsks
  <2>5. asker \in 1 .. started
    <3>1. CASE kind = "picture"
      <4>1. asker = page.doc /\ page.doc # 0 BY <1>8, <2>1, <3>1 DEF PageAsks
      <4> QED BY <4>1, <1>0 DEF Numbers
    <3>2. CASE kind # "picture"
      <4>1. asker = Runner /\ Runner # 0 BY <1>8, <2>1, <3>2 DEF PageAsks
      <4> QED BY <4>1, <1>0, RunnerIs
    <3> QED BY <3>1, <3>2
  <2>6. f \in [kind : {"request", "module", "picture"}, asker : 1 .. started, generation : 0 .. generations]
    BY <2>2, <2>5, <1>0 DEF Numbers
  <2>7. Fetches' BY <1>0, <2>3, <2>4, <2>6 DEF Fetches
  <2>8. f.kind = "picture" => f.asker = page.doc BY <2>1, <2>2
  <2>9. Pictures' BY <1>0, <2>3, <2>4, <2>8 DEF Pictures
  <2>10. Numbers' /\ LoadFits' BY <1>0, <2>4 DEF Numbers, LoadFits, Loading
  <2>11. DoneFits' /\ ArrivedScriptsRan' BY <1>0, <2>4 DEF DoneFits, CutAtALostScript, ArrivedScriptsRan
  <2> QED BY <2>7, <2>9, <2>10, <2>11 DEF Inv
<1>9. ASSUME NEW f \in fetches, PageAnswered(f) PROVE Inv'
  <2>1. /\ fetches' = fetches \ {f}
        /\ UNCHANGED <<page, scripts, generation, generations, pending, started, done>>
    BY <1>9 DEF PageAnswered
  <2>2. Numbers' /\ LoadFits' BY <1>0, <2>1 DEF Numbers, LoadFits, Loading
  <2>3. DoneFits' /\ ArrivedScriptsRan' BY <1>0, <2>1 DEF DoneFits, CutAtALostScript, ArrivedScriptsRan
  <2>4. Fetches' /\ Pictures' BY <1>0, <2>1 DEF Fetches, Pictures
  <2> QED BY <2>2, <2>3, <2>4 DEF Inv
<1>10. CASE Quiet \/ UNCHANGED vars
  <2>1. UNCHANGED <<page, scripts, generation, generations, pending, fetches, started, done>>
    BY <1>10 DEF Quiet, vars
  <2>2. Numbers' /\ LoadFits' BY <1>0, <2>1 DEF Numbers, LoadFits, Loading
  <2>3. DoneFits' /\ ArrivedScriptsRan' BY <1>0, <2>1 DEF DoneFits, CutAtALostScript, ArrivedScriptsRan
  <2>4. Fetches' /\ Pictures' BY <1>0, <2>1 DEF Fetches, Pictures
  <2> QED BY <2>2, <2>3, <2>4 DEF Inv
<1> QED BY <1>1, <1>2, <1>3, <1>4, <1>5, <1>6, <1>7, <1>8, <1>9, <1>10 DEF Next, Answers

LEMMA InvIsInductive == Spec => []Inv
BY InitInv, NextInv, PTL DEF Spec

(* It has the types in it. *)
LEMMA InvTypes == Inv => TypeOK
<1> SUFFICES ASSUME Inv PROVE TypeOK OBVIOUS
<1>0. Numbers /\ Fetches /\ LoadFits /\ DoneFits BY DEF Inv
<1>1. MaxLoads \in Nat /\ started \in 0 .. MaxLoads BY <1>0, LoadAssumption DEF Numbers
<1>2. /\ page.doc \in 0 .. MaxLoads /\ scripts \in 0 .. MaxLoads /\ generation \in 0 .. generations
  BY <1>0, <1>1 DEF Numbers
<1>3. \A f \in fetches : f.asker \in 1 .. MaxLoads /\ f.generation \in 0 .. generations
  BY <1>0, <1>1 DEF Fetches
<1>4. ASSUME Loading PROVE IsLoad(pending)
  <2>0. pending.doc \in 1 .. MaxLoads
    <3>1. pending.doc \in 0 .. started /\ pending.doc # 0 BY <1>0, <1>4 DEF Numbers, Loading
    <3> QED BY <3>1, <1>1
  <2>1. CASE pending.arrived
    <3>1. Good(pending) /\ pending.shape \in Shapes BY <1>0, <1>4, <2>1 DEF LoadFits
    <3>2. Parse(pending) /\ Settlements(pending) /\ pending \in Loads BY <3>1 DEF Good
    <3>3. pending.shape \in Seq(Kind) /\ pending.upto \in Nat BY <3>2 DEF Loads
    <3>4. pending.upto \in 0 .. Len(pending.shape) + 1 BY <3>2, <3>3 DEF Parse
    <3>5. pending.got \cup pending.failed \subseteq DOMAIN pending.shape BY <3>2, <3>3 DEF Settlements, Came
    <3>6. ~(pending.stopped /\ pending.runner) /\ pending.got \cap pending.failed = {}
      BY <3>2 DEF Parse, Settlements
    <3> QED BY <2>0, <3>1, <3>4, <3>5, <3>6 DEF IsLoad
  <2>2. CASE ~pending.arrived
    <3>1. pending = NewLoad(pending.doc) BY <1>0, <1>4, <2>2 DEF LoadFits
    <3>2. /\ pending.shape = <<>> /\ pending.upto = 0 /\ pending.got = {} /\ pending.failed = {}
          /\ pending.stopped = FALSE
      BY <3>1 DEF NewLoad
    <3>3. Len(<<>>) = 0 OBVIOUS
    <3> QED BY <2>0, <3>2, <3>3 DEF IsLoad
  <2> QED BY <2>1, <2>2
<1> QED BY <1>0, <1>2, <1>3, <1>4 DEF TypeOK, DoneFits

(* The slot of a tab is well formed at every moment: no document is numbered that
   was not asked for, no script both came and failed, no parse is stopped and over. *)
THEOREM TypeCorrect == Spec => []TypeOK
BY InvIsInductive, InvTypes, PTL

(* A load that is over has run the scripts of the document's own text the parse
   passed, the scripts with a source that came for the stop they were awaited at, and
   the deferred ones from before the first stop that came: each once, in the order of
   the document, the deferred ones last, and none else (finish_load, resume_parse).
   The deferred ones after the first stop came too, and are in no list. *)
THEOREM ScriptsThatCameRan == Spec => []ArrivedScriptsRan
<1>1. Inv => ArrivedScriptsRan BY DEF Inv
<1> QED BY <1>1, InvIsInductive, PTL

(* A load ends with its parse cut short only at a script whose fetch failed, or that
   the page may not reach (receive_subresource, resume_parse). *)
THEOREM OnlyALossCuts == Spec => []CutAtALostScript
<1>1. Inv => CutAtALostScript BY DEF Inv, DoneFits
<1> QED BY <1>1, InvIsInductive, PTL

(* What has run has the style of the sheets, and of what they import, from before the
   last stop at or before it: a script with a source has all there are before it, one
   of the document's own text need not have those since that stop (resume_parse at
   load.rs:1051, execute at driver.rs:896). *)
THEOREM ScriptsFollowTheirStyle == Spec => []ScriptsSeeStyle
<1>1. ASSUME Inv, Arrived, NEW p \in Range(pending.ran), NEW q \in Stops(pending.shape, 0), q <= p,
             NEW request \in pending.waiting, NEW r \in request, IsSheet(r)
      PROVE  q < r[2]
  <2>1. Good(pending) /\ pending \in Loads BY <1>1, ArrivedFits
  <2>2. InOrder(pending.ran, RanSet(pending)) /\ Styled(pending) /\ pending.ran \in Seq(Nat) /\ pending.upto \in Nat
    BY <2>1 DEF Good, RanAll, Loads
  <2>3. PICK i \in 1 .. Len(pending.ran) : pending.ran[i] = p
    <3>1. DOMAIN pending.ran = 1 .. Len(pending.ran) BY <2>2
    <3> QED BY <3>1, <1>1 DEF Range
  <2>4. p \in Nat /\ p \in RanSet(pending) BY <2>2, <2>3 DEF InOrder
  <2>5. p < pending.upto BY <2>4 DEF RanSet
  <2>6. q \in Nat /\ q < pending.upto BY <2>2, <2>4, <2>5, <1>1 DEF Stops
  <2> QED BY <2>2, <2>6, <1>1 DEF Styled
<1>2. Inv => ScriptsSeeStyle BY <1>1 DEF ScriptsSeeStyle
<1> QED BY <1>2, InvIsInductive, PTL

(* A picture asked for by one document reaches no element of another, once the load
   of that other is over (PageSlot.generation, picture_arrived). *)
THEOREM PicturesStay == Spec => PictureStaysWithItsDocument
<1>1. ASSUME Inv, [Next]_vars, delivered' # delivered, delivered'.kind = "picture"
      PROVE  delivered'.to = delivered'.asker \/ delivered'.to # done.doc
  <2>1. \E f \in fetches : PageAnswered(f)
    BY <1>1 DEF Next, Answers, Start, NoDocument, ShowSystem, StopLoad, DocumentArrives, SubresourceArrives,
       SubresourceFails, PageAsks, Quiet, vars
  <2>2. PICK f \in fetches : PageAnswered(f) BY <2>1
  <2>3. Takes(f) BY <2>2, <1>1 DEF PageAnswered
  <2>4. delivered' = [kind |-> f.kind, asker |-> f.asker,
                      to |-> IF f.kind = "picture" THEN page.doc ELSE Runner]
    BY <2>2, <2>3, Zenon DEF PageAnswered
  <2>5. f.kind = "picture" /\ delivered'.asker = f.asker /\ delivered'.to = page.doc BY <2>4, <1>1
  <2>6. f.generation = generation BY <2>3 DEF Takes
  <2> QED BY <2>5, <2>6, <1>1 DEF Inv, Pictures
<1>2. Inv /\ [Next]_vars =>
        [delivered' # delivered /\ delivered'.kind = "picture" =>
          delivered'.to = delivered'.asker \/ delivered'.to # done.doc]_vars
  BY <1>1
<1> QED BY <1>2, InvIsInductive, PTL DEF Spec, PictureStaysWithItsDocument


-----------------------------------------------------------------------------
(* Hearing of moves, one after the other.                                  *)

Tabs == {t \in [url : Address \cup {None}, history : Seq(Entry), position : Nat] :
            t.position \in DOMAIN t.history \/ (t.history = << >> /\ t.position = 0)}

LEMMA FollowedIs ==
  ASSUME NEW t \in Tabs, t.history # << >>, NEW e \in Entry
  PROVE  /\ Followed(t, e) \in Tabs
         /\ Followed(t, e).url = t.url
         /\ Followed(t, e).position = t.position + 1
         /\ t.position + 1 \in DOMAIN Followed(t, e).history
         /\ Followed(t, e).history[t.position + 1] = e
         /\ \A i \in 1..t.position : /\ i \in DOMAIN t.history
                                     /\ i \in DOMAIN Followed(t, e).history
                                     /\ Followed(t, e).history[i] = t.history[i]
<1>1. PICK h, p : h = t.history /\ p = t.position  OBVIOUS
<1>2. h \in Seq(Entry) /\ p \in 1..Len(h) /\ Len(h) \in Nat /\ p \in Nat  BY <1>1 DEF Tabs
<1>3. PICK k : k = SubSeq(h, 1, p)  OBVIOUS
<1>4. k \in Seq(Entry) /\ Len(k) = p /\ \A i \in 1..p : k[i] = h[i]  BY <1>2, <1>3
<1>5. PICK n : n = Append(k, e)  OBVIOUS
<1>6. /\ n \in Seq(Entry) /\ DOMAIN n = 1..(p + 1) /\ n[p + 1] = e
      /\ \A i \in 1..p : n[i] = k[i]
  BY <1>2, <1>4, <1>5
<1>7. PICK f : f = Followed(t, e)  OBVIOUS
<1>8. /\ f = [t EXCEPT !.history = n, !.position = p + 1]
  BY <1>1, <1>3, <1>4, <1>5, <1>7 DEF Followed, Kept
<1>9. /\ f.history = n /\ f.position = p + 1 /\ f.url = t.url
      /\ f \in [url : Address \cup {None}, history : Seq(Entry), position : Nat]
  <2>1. t \in [url : Address \cup {None}, history : Seq(Entry), position : Nat]  BY DEF Tabs
  <2>2. p + 1 \in Nat  BY <1>2
  <2> QED  BY <1>6, <1>8, <2>1, <2>2
<1>10. p + 1 \in 1..(p + 1) /\ \A i \in 1..p : i \in 1..(p + 1) /\ i \in 1..Len(h)  BY <1>2
<1>11. f \in Tabs  BY <1>6, <1>9, <1>10 DEF Tabs
<1>12. DOMAIN h = 1..Len(h)  BY <1>2
<1> QED  BY <1>1, <1>4, <1>6, <1>7, <1>9, <1>10, <1>11, <1>12

(* A tab that had no entry yet.                                            *)
LEMMA FollowedFirst ==
  ASSUME NEW t \in Tabs, t.history = << >>, NEW e \in Entry
  PROVE  /\ Followed(t, e) \in Tabs /\ Followed(t, e).url = t.url
         /\ Followed(t, e).position = 1 /\ Followed(t, e).history = << e >>
<1>1. t.position = 0  BY DEF Tabs
<1>2. Kept(t) = << >>  BY <1>1 DEF Kept
<1>3. Followed(t, e) = [t EXCEPT !.history = << e >>, !.position = 1]  BY <1>2 DEF Followed
<1>4. << e >> \in Seq(Entry) /\ 1 \in DOMAIN << e >>  OBVIOUS
<1>5. PICK h : h = << e >>  OBVIOUS
<1>6. t \in [url : Address \cup {None}, history : Seq(Entry), position : Nat]  BY DEF Tabs
<1>7. PICK f : f = Followed(t, e)  OBVIOUS
<1>8. /\ f \in [url : Address \cup {None}, history : Seq(Entry), position : Nat]
      /\ f.history = h /\ f.position = 1 /\ f.url = t.url
  <2>1. f = [t EXCEPT !.history = h, !.position = 1] /\ h \in Seq(Entry)
    BY <1>3, <1>4, <1>5, <1>7
  <2> QED  BY <1>6, <2>1
<1>9. f \in Tabs  BY <1>4, <1>5, <1>8 DEF Tabs
<1> QED  BY <1>5, <1>7, <1>8, <1>9

(* The kinds of move.                                                      *)
LEMMA PushMoves ==
  ASSUME NEW t \in Tabs, NEW c \in Change, c.kind = "push", t.history # << >>
  PROVE  /\ Moved(t, c).history = Followed(t, [url |-> c.url, in_page |-> TRUE]).history
         /\ Moved(t, c).position = Followed(t, [url |-> c.url, in_page |-> TRUE]).position
         /\ Moved(t, c) \in Tabs
<1>1. [url |-> c.url, in_page |-> TRUE] \in Entry /\ c.url \in Address  BY DEF Entry, Change
<1>2. PICK f : f = Followed(t, [url |-> c.url, in_page |-> TRUE])  OBVIOUS
<1>3. f \in Tabs  BY <1>1, <1>2, FollowedIs
<1>4. Moved(t, c) = [f EXCEPT !.url = c.url]  BY <1>2 DEF Moved
<1> QED  BY <1>1, <1>2, <1>3, <1>4 DEF Tabs

LEMMA ReplaceMoves ==
  ASSUME NEW t \in Tabs, NEW c \in Change, c.kind = "replace", t.history # << >>
  PROVE  /\ Moved(t, c).position = t.position
         /\ Moved(t, c).history = [t.history EXCEPT ![t.position].url = c.url]
         /\ Moved(t, c).history \in Seq(Entry) /\ Len(Moved(t, c).history) = Len(t.history)
         /\ Moved(t, c) \in Tabs
<1>1. PICK h, p : h = t.history /\ p = t.position  OBVIOUS
<1>2. h \in Seq(Entry) /\ p \in DOMAIN h /\ c.url \in Address  BY <1>1 DEF Tabs, Change
<1>3. PICK g : g = [h EXCEPT ![p].url = c.url]  OBVIOUS
<1>4. /\ g \in Seq(Entry) /\ Len(g) = Len(h) /\ DOMAIN g = DOMAIN h
  <2>1. h[p] \in Entry  BY <1>2
  <2>2. [h[p] EXCEPT !.url = c.url] \in Entry  BY <1>2, <2>1 DEF Entry
  <2> QED  BY <1>2, <1>3, <2>2
<1>5. Moved(t, c) = [[t EXCEPT !.history = g] EXCEPT !.url = c.url]
  BY <1>1, <1>3 DEF Moved
<1> QED  BY <1>1, <1>2, <1>3, <1>4, <1>5 DEF Tabs

LEMMA TraverseMoves ==
  ASSUME NEW t \in Tabs, NEW c \in Change, c.kind = "traverse",
         t.position + c.step \in DOMAIN t.history
  PROVE  /\ Moved(t, c).history = t.history /\ Moved(t, c).position = t.position + c.step
         /\ Moved(t, c) \in Tabs
<1>1. Moved(t, c) = [[t EXCEPT !.position = t.position + c.step] EXCEPT !.url = c.url]
  BY DEF Moved
<1>2. t.position + c.step \in Nat /\ c.url \in Address  BY DEF Tabs, Change
<1> QED  BY <1>1, <1>2 DEF Tabs

LEMMA NothingMoves ==
  ASSUME NEW t \in Tabs, NEW c \in Change,
         \/ c.kind = "followed"
         \/ c.kind \in {"push", "replace"} /\ t.history = << >>
         \/ c.kind = "traverse" /\ t.position + c.step \notin DOMAIN t.history
  PROVE  /\ Moved(t, c).history = t.history /\ Moved(t, c).position = t.position
         /\ Moved(t, c) \in Tabs
<1>1. Moved(t, c) = [t EXCEPT !.url = c.url]  BY DEF Moved
<1>2. c.url \in Address  BY DEF Change
<1> QED  BY <1>1, <1>2 DEF Tabs

LEMMA MovesAre ==
  ASSUME NEW t \in Tabs, NEW c \in Change
  PROVE  \/ c.kind = "push" /\ t.history # << >>
         \/ c.kind = "replace" /\ t.history # << >>
         \/ c.kind = "traverse" /\ t.position + c.step \in DOMAIN t.history
         \/ c.kind = "followed"
         \/ c.kind \in {"push", "replace"} /\ t.history = << >>
         \/ c.kind = "traverse" /\ t.position + c.step \notin DOMAIN t.history
  BY DEF Change, Kinds

LEMMA MovedTab ==
  ASSUME NEW t \in Tabs, NEW c \in Change
  PROVE  Moved(t, c) \in Tabs
  BY MovesAre, PushMoves, ReplaceMoves, TraverseMoves, NothingMoves

(* Where a tab is moved to does not depend on the address it says.         *)
LEMMA MovedPlace ==
  ASSUME NEW t \in Tabs, NEW u \in Tabs, t.history = u.history, t.position = u.position,
         NEW c \in Change
  PROVE  /\ Moved(t, c).history = Moved(u, c).history
         /\ Moved(t, c).position = Moved(u, c).position
<1>1. CASE c.kind = "push" /\ t.history # << >>
  <2>1. \A x \in Tabs : \A e :
           /\ Followed(x, e).history = Append(SubSeq(x.history, 1, x.position), e)
           /\ Followed(x, e).position = Len(SubSeq(x.history, 1, x.position)) + 1
    BY DEF Followed, Kept, Tabs
  <2>2. PICK e : e = [url |-> c.url, in_page |-> TRUE]  OBVIOUS
  <2>3. PICK s : s = SubSeq(t.history, 1, t.position)  OBVIOUS
  <2>4. s = SubSeq(u.history, 1, u.position)  BY <2>3
  <2>5. Followed(t, e).history = Followed(u, e).history
        /\ Followed(t, e).position = Followed(u, e).position
    BY <2>1, <2>3, <2>4
  <2> QED  BY <1>1, <2>2, <2>5, PushMoves
<1>2. CASE c.kind = "replace" /\ t.history # << >>
  <2>1. /\ Moved(t, c).position = t.position
        /\ Moved(t, c).history = [t.history EXCEPT ![t.position].url = c.url]
    BY <1>2, ReplaceMoves
  <2>2. /\ Moved(u, c).position = u.position
        /\ Moved(u, c).history = [u.history EXCEPT ![u.position].url = c.url]
    BY <1>2, ReplaceMoves
  <2>3. PICK h : h = [t.history EXCEPT ![t.position].url = c.url]  OBVIOUS
  <2>4. h = [u.history EXCEPT ![u.position].url = c.url]  BY <2>3, Zenon
  <2> QED  BY <2>1, <2>2, <2>3, <2>4
<1>3. CASE c.kind = "traverse" /\ t.position + c.step \in DOMAIN t.history
  BY <1>3, TraverseMoves
<1>4. CASE \/ c.kind = "followed"
           \/ c.kind \in {"push", "replace"} /\ t.history = << >>
           \/ c.kind = "traverse" /\ t.position + c.step \notin DOMAIN t.history
  BY <1>4, NothingMoves
<1> QED  BY <1>1, <1>2, <1>3, <1>4, MovesAre

Hears(told, t, changes) ==
    /\ told[0] = t
    /\ \A i \in 1..Len(changes) : told[i] = Moved(told[i - 1], changes[i])
    /\ Told(t, changes) = told[Len(changes)]
    /\ \A i \in 0..Len(changes) : told[i] \in Tabs

LEMMA ToldUnfolds ==
  ASSUME NEW t \in Tabs, NEW changes \in Seq(Change)
  PROVE  \E told : Hears(told, t, changes)
<1> DEFINE m == Len(changes)
           step == [i \in 1..m |-> [x \in Tabs |-> Moved(x, changes[i])]]
           told == CHOOSE f : f = [i \in 0..m |-> IF i = 0 THEN t ELSE Moved(f[i - 1], changes[i])]
<1>1. m \in Nat /\ \A i \in 1..m : changes[i] \in Change  OBVIOUS
<1>2. step \in [1..m -> [Tabs -> Tabs]]  BY <1>1, MovedTab
<1>4. PICK g : Runs(g, m, Tabs, t, step)
  <2> HIDE DEF step, m
  <2> QED  BY <1>1, <1>2, Stepwise
<1>5. g = [i \in 0..m |-> IF i = 0 THEN t ELSE Moved(g[i - 1], changes[i])]
  <2>1. ASSUME NEW i \in 0..m, i # 0 PROVE g[i] = Moved(g[i - 1], changes[i])
    <3>1. i \in 1..m /\ i - 1 \in 0..m  BY <1>1, <2>1
    <3>2. g[i - 1] \in Tabs /\ g[i] = step[i][g[i - 1]]  BY <1>4, <3>1 DEF Runs
    <3> QED  BY <3>1, <3>2
  <2>2. ASSUME NEW i \in 0..m, i = 0 PROVE g[i] = t  BY <1>4, <2>2 DEF Runs
  <2>3. g = [i \in 0..m |-> g[i]]  BY <1>4 DEF Runs
  <2> HIDE DEF step, m
  <2> QED  BY <2>1, <2>2, <2>3
<1>6. told = [i \in 0..m |-> IF i = 0 THEN t ELSE Moved(told[i - 1], changes[i])]
  <2> HIDE DEF m
  <2> QED  BY <1>5, Zenon
<1>7. Told(t, changes) = told[m]
  BY DEF Told
<1> HIDE DEF told
<1>8. told[0] = t  BY <1>1, <1>6
<1>9. ASSUME NEW i \in 1..m PROVE told[i] = Moved(told[i - 1], changes[i])
  <2>1. i \in 0..m /\ i # 0  BY <1>1
  <2> QED  BY <1>6, <2>1
<1>10. ASSUME NEW i \in 1..m, told[i - 1] \in Tabs PROVE told[i] \in Tabs
  BY <1>1, <1>9, <1>10, MovedTab
<1>11. \A i \in 0..m : told[i] \in Tabs
  <2> HIDE DEF m
  <2>1. PICK Y : Y = Tabs  OBVIOUS
  <2>2. m \in Nat /\ told[0] \in Y /\ \A i \in 1..m : told[i - 1] \in Y => told[i] \in Y
    BY <1>1, <1>8, <1>10, <2>1
  <2>3. \A i \in 0..m : told[i] \in Y  BY <2>2, CarriedThrough
  <2> QED  BY <2>1, <2>3
<1>12. Hears(told, t, changes)  BY <1>7, <1>8, <1>9, <1>11 DEF Hears
<1> QED  BY <1>12

LEMMA ToldTab ==
  ASSUME NEW t \in Tabs, NEW changes \in Seq(Change)
  PROVE  Told(t, changes) \in Tabs
<1>1. PICK told : Hears(told, t, changes)  BY ToldUnfolds
<1>2. Len(changes) \in 0..Len(changes)  OBVIOUS
<1> QED  BY <1>1, <1>2 DEF Hears

LEMMA ToldNothing ==
  ASSUME NEW t \in Tabs
  PROVE  Told(t, << >>) = t
<1>1. << >> \in Seq(Change) /\ Len(<< >>) = 0  OBVIOUS
<1>2. PICK told : Hears(told, t, << >>)  BY <1>1, ToldUnfolds
<1> QED  BY <1>1, <1>2 DEF Hears

(* Two tellings that go the same way are at the same place all along.      *)
LEMMA ToldMore ==
  ASSUME NEW t \in Tabs, NEW changes \in Seq(Change), NEW c \in Change
  PROVE  Told(t, Append(changes, c)) = Moved(Told(t, changes), c)
<1> DEFINE n == Len(changes)
<1>1. PICK more : more = Append(changes, c)  OBVIOUS
<1>2. /\ n \in Nat /\ more \in Seq(Change) /\ Len(more) = n + 1 /\ more[n + 1] = c
      /\ \A i \in 1..n : more[i] = changes[i]
  BY <1>1
<1>3. PICK f : Hears(f, t, changes)  BY ToldUnfolds
<1>4. PICK g : Hears(g, t, more)  BY <1>2, ToldUnfolds
<1> DEFINE h == [i \in 0..n |-> IF f[i] = g[i] THEN 1 ELSE 0]
<1>5. f[0] = g[0]  BY <1>3, <1>4 DEF Hears
<1>6. ASSUME NEW i \in 1..n, f[i - 1] = g[i - 1] PROVE f[i] = g[i]
  <2>1. f[i] = Moved(f[i - 1], changes[i])  BY <1>3 DEF Hears
  <2>2. i \in 1..Len(more)  BY <1>2
  <2>3. g[i] = Moved(g[i - 1], more[i])  BY <1>4, <2>2 DEF Hears
  <2> QED  BY <1>2, <1>6, <2>1, <2>3
<1>7. \A i \in 0..n : h[i] \in {1}
  <2>1. PICK Y : Y = {1}  OBVIOUS
  <2>2. h[0] \in Y  BY <1>2, <1>5, <2>1
  <2>3. ASSUME NEW i \in 1..n, h[i - 1] \in Y PROVE h[i] \in Y
    <3>1. i \in 0..n /\ i - 1 \in 0..n  BY <1>2
    <3>2. f[i - 1] = g[i - 1]  BY <2>1, <2>3, <3>1
    <3> QED  BY <1>6, <2>1, <3>1, <3>2
  <2> HIDE DEF h, n
  <2>4. n \in Nat /\ h[0] \in Y /\ \A i \in 1..n : h[i - 1] \in Y => h[i] \in Y
    BY <1>2, <2>2, <2>3
  <2>5. \A i \in 0..n : h[i] \in Y  BY <2>4, CarriedThrough
  <2> QED  BY <2>1, <2>5
<1>8. n \in 0..n /\ n + 1 \in 1..(n + 1) /\ (n + 1) - 1 = n  BY <1>2
<1>9. f[n] = g[n]  BY <1>7, <1>8
<1>10. g[n + 1] = Moved(g[n], c)  BY <1>2, <1>4, <1>8 DEF Hears
<1>11. Told(t, changes) = f[n] /\ Told(t, more) = g[n + 1]  BY <1>2, <1>3, <1>4 DEF Hears
<1> QED  BY <1>1, <1>9, <1>10, <1>11

LEMMA ToldPlace ==
  ASSUME NEW t \in Tabs, NEW u \in Tabs, t.history = u.history, t.position = u.position,
         NEW changes \in Seq(Change)
  PROVE  /\ Told(t, changes).history = Told(u, changes).history
         /\ Told(t, changes).position = Told(u, changes).position
<1> DEFINE n == Len(changes)
<1>1. n \in Nat /\ \A i \in 1..n : changes[i] \in Change  OBVIOUS
<1>3. PICK f : Hears(f, t, changes)  BY ToldUnfolds
<1>4. PICK g : Hears(g, u, changes)  BY ToldUnfolds
<1> DEFINE Same(i) == f[i].history = g[i].history /\ f[i].position = g[i].position
           h == [i \in 0..n |-> IF Same(i) THEN 1 ELSE 0]
<1>5. Same(0)  BY <1>3, <1>4 DEF Hears
<1>6. ASSUME NEW i \in 1..n, Same(i - 1) PROVE Same(i)
  <2>1. f[i] = Moved(f[i - 1], changes[i]) /\ g[i] = Moved(g[i - 1], changes[i])
    BY <1>3, <1>4 DEF Hears
  <2>2. i - 1 \in 0..n  BY <1>1
  <2>3. f[i - 1] \in Tabs /\ g[i - 1] \in Tabs  BY <1>3, <1>4, <2>2 DEF Hears
  <2> QED  BY <1>1, <1>6, <2>1, <2>3, MovedPlace
<1> HIDE DEF Same
<1>7. \A i \in 0..n : h[i] \in {1}
  <2>1. PICK Y : Y = {1}  OBVIOUS
  <2>2. h[0] \in Y  BY <1>1, <1>5, <2>1
  <2>3. ASSUME NEW i \in 1..n, h[i - 1] \in Y PROVE h[i] \in Y
    <3>1. i \in 0..n /\ i - 1 \in 0..n  BY <1>1
    <3>2. Same(i - 1)  BY <2>1, <2>3, <3>1
    <3> QED  BY <1>6, <2>1, <3>1, <3>2
  <2> HIDE DEF h, n
  <2>4. n \in Nat /\ h[0] \in Y /\ \A i \in 1..n : h[i - 1] \in Y => h[i] \in Y
    BY <1>1, <2>2, <2>3
  <2>5. \A i \in 0..n : h[i] \in Y  BY <2>4, CarriedThrough
  <2> QED  BY <2>1, <2>5
<1>8. n \in 0..n  BY <1>1
<1>9. Same(n)  BY <1>7, <1>8
<1> QED  BY <1>3, <1>4, <1>9 DEF Hears, Same

-----------------------------------------------------------------------------
(* The page. A step waits for its turn, and under Patient no other move is *)
(* made while one waits; a step of the browser's starts when it has heard  *)
(* of every move.                                                          *)

Awaited == [next : Nat, step : Int, how : {"traverse", "followed"}]
Pages == [url : Address, entries : Seq(Address), index : Nat,
          timers : Seq(Awaited), changes : Seq(Change), scripts : BOOLEAN]
OneAtATime(p) ==
    /\ p.index \in DOMAIN p.entries
    /\ Len(p.timers) <= 1
    /\ p.timers # << >> =>
          /\ Head(p.timers).next \in DOMAIN p.entries
          /\ Head(p.timers).next = p.index + Head(p.timers).step
          /\ Head(p.timers).how = "followed" => p.changes = << >>
PageFits(p) == p \in Pages /\ Len(p.entries) <= Limit /\ (Patient => OneAtATime(p))

(* Where the page is, or will be when a step asked of it is taken.         *)
Aim(p) == IF p.timers # << >> /\ Head(p.timers).how = "followed"
          THEN Head(p.timers).next ELSE p.index
Agree(t, p) ==
    \A j \in DOMAIN p.entries :
        /\ t.position + j - Aim(p) \in DOMAIN t.history
        /\ t.history[t.position + j - Aim(p)].url = p.entries[j]
        /\ j > 1 => t.history[t.position + j - Aim(p)].in_page
Paired(t, p) == Agree(Told(t, p.changes), p)

LEMMA DocumentFits ==
  ASSUME NEW url \in Address
  PROVE  /\ PageFits(Document(url))
         /\ \A t \in Tabs : t.history # << >> /\ t.history[t.position].url = url =>
               Paired(t, Document(url))
<1>1. PICK p : p = Document(url)  OBVIOUS
<1>2. /\ p.url = url /\ p.entries = << url >> /\ p.index = 1 /\ p.timers = << >>
      /\ p.changes = << >> /\ p.scripts = TRUE
      /\ p \in Pages
  BY <1>1 DEF Document, Pages
<1>3. DOMAIN p.entries = {1} /\ p.entries[1] = url /\ Len(p.entries) = 1  BY <1>2
<1>4. PageFits(p)
  <2>1. 1 <= Limit  BY HistoryAssumption
  <2>2. Len(p.timers) <= 1  BY <1>2
  <2> QED  BY <1>2, <1>3, <2>1, <2>2 DEF PageFits, OneAtATime
<1>5. ASSUME NEW t \in Tabs, t.history # << >>, t.history[t.position].url = url
      PROVE  Paired(t, p)
  <2>1. Told(t, p.changes) = t  BY <1>2, ToldNothing
  <2>2. t.position \in DOMAIN t.history /\ t.position \in Nat  BY <1>5 DEF Tabs
  <2>3. Aim(p) = 1  BY <1>2 DEF Aim
  <2>4. t.position + 1 - 1 = t.position  BY <2>2
  <2> QED  BY <1>3, <1>5, <2>1, <2>2, <2>3, <2>4 DEF Paired, Agree
<1> QED  BY <1>1, <1>4, <1>5

(* A page told of is as far as it was.                                     *)
LEMMA HeardFits ==
  ASSUME NEW p, PageFits(p)
  PROVE  /\ PageFits([p EXCEPT !.changes = << >>])
         /\ [p EXCEPT !.changes = << >>].scripts = p.scripts
         /\ \A t \in Tabs : Paired(t, p) => Paired(Told(t, p.changes), [p EXCEPT !.changes = << >>])
<1>1. PICK q : q = [p EXCEPT !.changes = << >>]  OBVIOUS
<1>2. p \in Pages  BY DEF PageFits
<1>3. << >> \in Seq(Change)  OBVIOUS
<1>4. /\ q \in Pages /\ q.changes = << >> /\ q.entries = p.entries /\ q.index = p.index
      /\ q.timers = p.timers /\ q.scripts = p.scripts
  BY <1>1, <1>2, <1>3 DEF Pages
<1>5. PageFits(q)  BY <1>4 DEF PageFits, OneAtATime
<1>6. ASSUME NEW t \in Tabs, Paired(t, p) PROVE Paired(Told(t, p.changes), q)
  <2>1. Told(t, p.changes) \in Tabs  BY <1>2, ToldTab DEF Pages
  <2>2. Told(Told(t, p.changes), q.changes) = Told(t, p.changes)  BY <1>4, <2>1, ToldNothing
  <2>3. Aim(q) = Aim(p)  BY <1>4 DEF Aim
  <2> QED  BY <1>4, <1>6, <2>2, <2>3 DEF Paired, Agree
<1> QED  BY <1>1, <1>4, <1>5, <1>6

LEMMA DroppedFits ==
  ASSUME NEW p, PageFits(p)
  PROVE  /\ PageFits([p EXCEPT !.scripts = FALSE, !.timers = << >>, !.changes = << >>])
         /\ ~[p EXCEPT !.scripts = FALSE, !.timers = << >>, !.changes = << >>].scripts
<1>1. PICK q : q = [p EXCEPT !.scripts = FALSE, !.timers = << >>, !.changes = << >>]  OBVIOUS
<1>2. p \in Pages  BY DEF PageFits
<1>3. << >> \in Seq(Change) /\ << >> \in Seq(Awaited) /\ Len(<< >>) = 0  OBVIOUS
<1>4. /\ q \in Pages /\ q.entries = p.entries /\ q.index = p.index
      /\ q.timers = << >> /\ q.scripts = FALSE
  BY <1>1, <1>2, <1>3 DEF Pages
<1>5. PageFits(q)  BY <1>3, <1>4 DEF PageFits, OneAtATime
<1> QED  BY <1>1, <1>4, <1>5

(* A tab that only says another address is at the same place.              *)
LEMMA AddressOnly ==
  ASSUME NEW t \in Tabs, NEW u \in Address, NEW p, PageFits(p)
  PROVE  /\ [t EXCEPT !.url = u] \in Tabs
         /\ Paired(t, p) => Paired([t EXCEPT !.url = u], p)
<1>1. PICK s : s = [t EXCEPT !.url = u]  OBVIOUS
<1>2. s \in Tabs /\ s.history = t.history /\ s.position = t.position  BY <1>1 DEF Tabs
<1>3. p.changes \in Seq(Change)  BY DEF PageFits, Pages
<1>4. /\ Told(s, p.changes).history = Told(t, p.changes).history
      /\ Told(s, p.changes).position = Told(t, p.changes).position
  BY <1>2, <1>3, ToldPlace
<1> QED  BY <1>1, <1>2, <1>4 DEF Paired, Agree

(* The task of a step: the page is where it was to be.                     *)
LEMMA LandedFits ==
  ASSUME NEW p, PageFits(p), p.timers # << >>
  PROVE  /\ PageFits(Landed(p)) /\ Landed(p).scripts = p.scripts
         /\ Len(Landed(p).timers) = Len(p.timers) - 1
         /\ \A t \in Tabs : Patient /\ Paired(t, p) => Paired(t, Landed(p))
<1> DEFINE timer == Head(p.timers)
           rest == Tail(p.timers)
<1>1. p \in Pages  BY DEF PageFits
<1>2. /\ timer \in Awaited /\ rest \in Seq(Awaited) /\ Len(rest) = Len(p.timers) - 1
      /\ Len(p.timers) \in Nat /\ p.entries \in Seq(Address) /\ p.changes \in Seq(Change)
      /\ timer.next \in Nat /\ timer.step \in Int /\ timer.how \in {"traverse", "followed"}
      /\ p.index \in Nat /\ Len(p.timers) >= 1 /\ (Len(rest) = 0 => rest = << >>)
  <2>0. PICK s : s = p.timers  OBVIOUS
  <2>1. s \in Seq(Awaited) /\ s # << >>  BY <1>1, <2>0 DEF Pages
  <2>4. /\ Head(s) \in Awaited /\ Tail(s) \in Seq(Awaited) /\ Len(Tail(s)) = Len(s) - 1
        /\ Len(s) \in Nat /\ Len(s) >= 1
    BY <2>1
  <2>3. Len(Tail(s)) = 0 => Tail(s) = << >>
    <3>1. PICK z : z = Tail(s)  OBVIOUS
    <3>2. z \in Seq(Awaited)  BY <2>4, <3>1
    <3>3. Len(z) = 0 => z = << >>  BY <3>2
    <3> QED  BY <3>1, <3>3
  <2>2. timer \in Awaited /\ rest \in Seq(Awaited) /\ Len(rest) = Len(p.timers) - 1
        /\ Len(p.timers) \in Nat /\ Len(p.timers) >= 1 /\ (Len(rest) = 0 => rest = << >>)
    BY <2>0, <2>3, <2>4
  <2> HIDE DEF timer, rest
  <2> QED  BY <1>1, <2>2 DEF Pages, Awaited
<1> HIDE DEF timer, rest
<1>3. PICK q : q = Landed(p)  OBVIOUS
<1>4. CASE timer.next \in DOMAIN p.entries
  <2>1. PICK url : url = p.entries[timer.next]  OBVIOUS
  <2>2. PICK c : c = [kind |-> timer.how, url |-> url, step |-> timer.step]  OBVIOUS
  <2>3. url \in Address /\ c \in Change
        /\ c.kind = timer.how /\ c.url = url /\ c.step = timer.step
    BY <1>2, <1>4, <2>1, <2>2 DEF Change, Kinds
  <2>4. PICK more : more = Append(p.changes, c)  OBVIOUS
  <2>5. more \in Seq(Change)  BY <1>2, <2>3, <2>4
  <2>6. q = [p EXCEPT !.timers = rest, !.index = timer.next, !.url = url, !.changes = more]
    <3>1. Landed(p) = [[p EXCEPT !.timers = rest, !.index = timer.next]
                          EXCEPT !.url = url, !.changes = Append(@, c)]
      BY <1>4, <2>1, <2>2 DEF Landed, timer, rest
    <3> QED  BY <1>1, <1>3, <2>4, <3>1 DEF Pages
  <2>7. /\ q \in Pages /\ q.timers = rest /\ q.index = timer.next /\ q.changes = more
        /\ q.entries = p.entries /\ q.scripts = p.scripts
    BY <1>1, <1>2, <2>3, <2>5, <2>6 DEF Pages
  <2>8. Patient => rest = << >>
    <3>0. Patient => Len(p.timers) <= 1  BY DEF PageFits, OneAtATime
    <3>1. ASSUME Patient PROVE Len(rest) = 0
      <4>1. PICK n : n = Len(p.timers)  OBVIOUS
      <4>2. n \in Nat /\ n >= 1 /\ n <= 1 /\ Len(rest) = n - 1  BY <1>2, <3>0, <3>1, <4>1
      <4>3. n = 1  BY <4>2
      <4> QED  BY <4>2, <4>3
    <3> QED  BY <1>2, <3>1
  <2>9. PageFits(q)
    <3>1. Patient => OneAtATime(q)
      <4>1. Len(<< >>) <= 1  OBVIOUS
      <4> QED  BY <1>4, <2>7, <2>8, <4>1 DEF OneAtATime
    <3> QED  BY <2>7, <3>1 DEF PageFits
  <2>10. ASSUME NEW t \in Tabs, Patient, Paired(t, p) PROVE Paired(t, q)
    <3>1. PICK h : h = Told(t, p.changes)  OBVIOUS
    <3>2. h \in Tabs /\ Agree(h, p)  BY <1>2, <2>10, <3>1, ToldTab DEF Paired
    <3>3. Told(t, q.changes) = Moved(h, c)  BY <1>2, <2>3, <2>4, <2>7, <3>1, ToldMore
    <3>4. Aim(q) = timer.next  BY <2>7, <2>8, <2>10 DEF Aim
    <3>5. timer.next = p.index + timer.step /\ p.index \in DOMAIN p.entries
      BY <2>10 DEF PageFits, OneAtATime, timer
    <3>6. h.position \in Nat  BY <3>2 DEF Tabs
    <3>7. CASE timer.how = "followed"
      <4>1. Aim(p) = timer.next  BY <3>7 DEF Aim, timer
      <4>2. Moved(h, c).history = h.history /\ Moved(h, c).position = h.position
        BY <2>3, <3>2, <3>7, NothingMoves
      <4> QED  BY <2>7, <3>2, <3>3, <3>4, <4>1, <4>2 DEF Paired, Agree
    <3>8. CASE timer.how = "traverse"
      <4>1. Aim(p) = p.index  BY <3>8 DEF Aim, timer
      <4>2. h.position + timer.next - p.index \in DOMAIN h.history
        BY <1>4, <3>2, <4>1 DEF Agree
      <4>3. h.position + timer.next - p.index = h.position + timer.step
        BY <1>2, <3>5, <3>6
      <4>4. Moved(h, c).history = h.history /\ Moved(h, c).position = h.position + timer.step
        BY <2>3, <3>2, <3>8, <4>2, <4>3, TraverseMoves
      <4>5. \A j \in DOMAIN p.entries :
               (h.position + timer.step) + j - timer.next = h.position + j - p.index
        <5>1. \A j \in DOMAIN p.entries : j \in Nat  BY <1>2
        <5>2. PICK a, b, d, n : a = h.position /\ b = timer.step /\ d = p.index /\ n = timer.next
          OBVIOUS
        <5>3. a \in Nat /\ b \in Int /\ d \in Nat /\ n = d + b  BY <1>2, <3>5, <3>6, <5>2
        <5>4. \A j \in Nat : (a + b) + j - n = a + j - d  BY <5>3
        <5> QED  BY <5>1, <5>2, <5>4
      <4> QED  BY <2>7, <3>2, <3>3, <3>4, <4>1, <4>4, <4>5 DEF Paired, Agree
    <3> QED  BY <1>2, <3>7, <3>8
  <2> QED  BY <1>2, <1>3, <2>7, <2>9, <2>10
<1>5. CASE timer.next \notin DOMAIN p.entries
  <2>1. ~Patient  BY <1>5 DEF PageFits, OneAtATime, timer
  <2>2. q = [p EXCEPT !.timers = rest, !.index = timer.next]
    <3>1. Landed(p) = [p EXCEPT !.timers = rest, !.index = timer.next]
      BY <1>5 DEF Landed, timer, rest
    <3> QED  BY <1>3, <3>1
  <2>3. q \in Pages /\ q.timers = rest /\ q.entries = p.entries /\ q.scripts = p.scripts
    BY <1>1, <1>2, <2>2 DEF Pages
  <2> QED  BY <1>2, <1>3, <2>1, <2>3 DEF PageFits
<1> QED  BY <1>4, <1>5

(* A step asked of the page, by itself or by the browser.                  *)
LEMMA SteppedFits ==
  ASSUME NEW p, PageFits(p), NEW step \in Int, HasEntry(p, step), Patient => p.timers = << >>,
         NEW how \in {"traverse", "followed"}, Patient /\ how = "followed" => p.changes = << >>
  PROVE  /\ PageFits(Stepped(p, step, how)) /\ Stepped(p, step, how).scripts = p.scripts
         /\ Stepped(p, step, how).changes = p.changes
         /\ Stepped(p, step, how).entries = p.entries
         /\ Patient => Aim(Stepped(p, step, how)) =
               IF how = "followed" THEN p.index + step ELSE p.index
<1>1. /\ p \in Pages /\ p.timers \in Seq(Awaited) /\ p.index \in Nat
      /\ p.entries \in Seq(Address)
  BY DEF PageFits, Pages
<1>2. p.index + step \in DOMAIN p.entries /\ p.index + step \in Nat  BY <1>1 DEF HasEntry
<1>3. PICK timer : timer = [next |-> p.index + step, step |-> step, how |-> how]  OBVIOUS
<1>4. timer \in Awaited /\ timer.next = p.index + step /\ timer.step = step /\ timer.how = how
  BY <1>2, <1>3 DEF Awaited
<1>5. PICK more : more = Append(p.timers, timer)  OBVIOUS
<1>6. more \in Seq(Awaited) /\ more # << >>  BY <1>1, <1>4, <1>5
<1>7. PICK q : q = Stepped(p, step, how)  OBVIOUS
<1>8. q = [p EXCEPT !.timers = more]  BY <1>1, <1>3, <1>5, <1>7 DEF Stepped, Pages
<1>9. /\ q \in Pages /\ q.timers = more /\ q.entries = p.entries /\ q.index = p.index
      /\ q.changes = p.changes /\ q.scripts = p.scripts
  BY <1>1, <1>6, <1>8 DEF Pages
<1>10. ASSUME Patient PROVE Len(more) = 1 /\ Head(more) = timer
  <2>1. p.timers = << >>  BY <1>10
  <2>2. more = << timer >>  BY <1>5, <2>1
  <2> QED  BY <2>2
<1>11. ASSUME Patient PROVE OneAtATime(q)
  <2>1. q.index \in DOMAIN q.entries  BY <1>9, <1>11 DEF PageFits, OneAtATime
  <2>4. q.timers = more /\ Len(more) = 1 /\ Head(more) = timer  BY <1>9, <1>10, <1>11
  <2>2. Len(q.timers) <= 1 /\ Head(q.timers) = timer
    <3>1. Len(more) <= 1  BY <2>4
    <3> QED  BY <2>4, <3>1
  <2>3. timer.how = "followed" => q.changes = << >>  BY <1>4, <1>9, <1>11
  <2> QED  BY <1>2, <1>4, <1>9, <2>1, <2>2, <2>3 DEF OneAtATime
<1>12. Patient => Aim(q) = IF how = "followed" THEN p.index + step ELSE p.index
  BY <1>4, <1>6, <1>9, <1>10 DEF Aim
<1> QED  BY <1>7, <1>9, <1>11, <1>12 DEF PageFits

(* pushState: the entries up to the one shown, less the first if there are *)
(* too many, and the new one.                                              *)
PushedOver(p, q, over, url) ==
    /\ over \in {0, 1} /\ q.index = p.index + 1 - over /\ q.index \in Nat
    /\ q.entries \in Seq(Address) /\ Len(q.entries) = q.index
    /\ Len(q.entries) <= Limit /\ q.index \in DOMAIN q.entries
    /\ \A j \in DOMAIN q.entries :
          \/ j + over \in 1..p.index /\ q.entries[j] = p.entries[j + over]
          \/ j = q.index /\ q.entries[j] = url
    /\ q.timers = p.timers /\ q.scripts = p.scripts
    /\ q.changes = Append(p.changes, [kind |-> "push", url |-> url, step |-> 0])
    /\ q \in Pages

LEMMA PushIs ==
  ASSUME NEW p, PageFits(p), HasEntry(p, 0), NEW url \in Address
  PROVE  \E over : PushedOver(p, PushState(p, url), over, url)
<1>1. /\ p \in Pages /\ p.index \in Nat /\ p.entries \in Seq(Address)
      /\ p.changes \in Seq(Change)
  BY DEF PageFits, Pages
<1>2. p.index \in 1..Len(p.entries) /\ Len(p.entries) \in Nat /\ Len(p.entries) <= Limit
      /\ Limit \in Nat \ {0}
  BY <1>1, HistoryAssumption DEF HasEntry, PageFits
<1>3. PICK n, old : n = p.index /\ old = p.entries  OBVIOUS
<1>4. PICK kept : kept = SubSeq(old, 1, n)  OBVIOUS
<1>5. kept \in Seq(Address) /\ Len(kept) = n /\ \A i \in 1..n : kept[i] = old[i]
  BY <1>1, <1>2, <1>3, <1>4
<1>6. PICK all : all = Append(kept, url)  OBVIOUS
<1>7. /\ all \in Seq(Address) /\ Len(all) = n + 1 /\ all[n + 1] = url
      /\ \A i \in 1..n : all[i] = kept[i]
  BY <1>2, <1>3, <1>5, <1>6
<1>8. PICK over : over = IF Len(all) > Limit THEN 1 ELSE 0  OBVIOUS
<1>9. over \in {0, 1} /\ n + 1 - over <= Limit /\ n + 1 - over \in Nat /\ n \in Nat
      /\ n + 1 - over >= 1
  BY <1>2, <1>3, <1>7, <1>8
<1>10. PICK cut : cut = SubSeq(all, 1 + over, Len(all))  OBVIOUS
<1>11. /\ cut \in Seq(Address) /\ Len(cut) = n + 1 - over
       /\ \A j \in 1..(n + 1 - over) : cut[j] = all[j + over]
  BY <1>7, <1>9, <1>10
<1>12. PICK c : c = [kind |-> "push", url |-> url, step |-> 0]  OBVIOUS
<1>13. c \in Change  BY <1>12 DEF Change, Kinds
<1>14. PICK more : more = Append(p.changes, c)  OBVIOUS
<1>15. more \in Seq(Change)  BY <1>1, <1>13, <1>14
<1>16. PICK q : q = PushState(p, url)  OBVIOUS
<1>17. q = [p EXCEPT !.url = url, !.entries = cut, !.index = n + 1 - over, !.changes = more]
  <2>1. Pushed(p, url) = all  BY <1>3, <1>4, <1>6 DEF Pushed
  <2>2. PushState(p, url) =
           [p EXCEPT !.url = url, !.entries = cut, !.index = @ + 1 - over, !.changes = Append(@, c)]
    BY <2>1, <1>8, <1>10, <1>12 DEF PushState
  <2> QED  BY <1>1, <1>3, <1>14, <1>16, <2>2 DEF Pages
<1>18. /\ q \in Pages /\ q.entries = cut /\ q.index = n + 1 - over /\ q.changes = more
       /\ q.timers = p.timers /\ q.scripts = p.scripts
  BY <1>1, <1>9, <1>11, <1>15, <1>17 DEF Pages
<1>19. ASSUME NEW j \in DOMAIN cut
       PROVE  \/ j + over \in 1..n /\ cut[j] = old[j + over]
              \/ j = n + 1 - over /\ cut[j] = url
  <2>1. j \in 1..(n + 1 - over) /\ cut[j] = all[j + over]  BY <1>11
  <2>2. CASE j = n + 1 - over  BY <1>7, <1>9, <2>1, <2>2
  <2>3. CASE j # n + 1 - over
    <3>1. j + over \in 1..n  BY <1>9, <2>1, <2>3
    <3> QED  BY <1>5, <1>7, <2>1, <3>1
  <2> QED  BY <2>2, <2>3
<1>20. n + 1 - over \in DOMAIN cut  BY <1>9, <1>11
<1>21. PushedOver(p, q, over, url)
  BY <1>3, <1>9, <1>11, <1>12, <1>14, <1>18, <1>19, <1>20 DEF PushedOver
<1> QED  BY <1>16, <1>21

LEMMA PushFits ==
  ASSUME NEW p, PageFits(p), HasEntry(p, 0), Patient => p.timers = << >>,
         NEW url \in Address
  PROVE  /\ PageFits(PushState(p, url)) /\ PushState(p, url).scripts = p.scripts
         /\ \A t \in Tabs : Patient /\ Paired(t, p) => Paired(t, PushState(p, url))
<1>1. PICK q : q = PushState(p, url)  OBVIOUS
<1>2. PICK over : PushedOver(p, q, over, url)  BY <1>1, PushIs
<1>3. /\ p.index \in Nat /\ p.entries \in Seq(Address) /\ p.changes \in Seq(Change)
      /\ p.index \in DOMAIN p.entries
  BY DEF PageFits, Pages, HasEntry
<1>4. PageFits(q)
  <2>1. Len(<< >>) <= 1  OBVIOUS
  <2> QED  BY <1>2, <2>1 DEF PageFits, OneAtATime, PushedOver
<1>5. ASSUME NEW t \in Tabs, Patient, Paired(t, p) PROVE Paired(t, q)
  <2>1. PICK h : h = Told(t, p.changes)  OBVIOUS
  <2>2. h \in Tabs /\ Agree(h, p) /\ h.position \in Nat
    BY <1>3, <1>5, <2>1, ToldTab DEF Paired, Tabs
  <2>3. Aim(p) = p.index /\ Aim(q) = q.index  BY <1>2, <1>5 DEF Aim, PushedOver
  <2>4. PICK c : c = [kind |-> "push", url |-> url, step |-> 0]  OBVIOUS
  <2>5. c \in Change /\ c.kind = "push" /\ c.url = url  BY <2>4 DEF Change, Kinds
  <2>6. q.changes = Append(p.changes, c)  BY <1>2, <2>4 DEF PushedOver
  <2>7. PICK g : g = Told(t, q.changes)  OBVIOUS
  <2>8. g = Moved(h, c)  BY <1>3, <2>1, <2>5, <2>6, <2>7, ToldMore
  <2>9. h.history # << >>
    <3>1. h.position + p.index - p.index \in DOMAIN h.history  BY <1>3, <2>2, <2>3 DEF Agree
    <3> QED  BY <3>1
  <2>10. PICK e : e = [url |-> url, in_page |-> TRUE]  OBVIOUS
  <2>11. e \in Entry /\ e.url = url /\ e.in_page = TRUE  BY <2>10 DEF Entry
  <2>12. /\ g.history = Followed(h, e).history /\ g.position = Followed(h, e).position
    BY <2>2, <2>5, <2>8, <2>9, <2>10, PushMoves
  <2>13. /\ g.position = h.position + 1
         /\ h.position + 1 \in DOMAIN g.history /\ g.history[h.position + 1] = e
         /\ \A i \in 1..h.position : i \in DOMAIN g.history /\ g.history[i] = h.history[i]
    BY <2>2, <2>9, <2>11, <2>12, FollowedIs
  <2>14. ASSUME NEW j \in DOMAIN q.entries
         PROVE  /\ g.position + j - Aim(q) \in DOMAIN g.history
                /\ g.history[g.position + j - Aim(q)].url = q.entries[j]
                /\ j > 1 => g.history[g.position + j - Aim(q)].in_page
    <3>0. j \in Nat /\ j >= 1  BY <1>2 DEF PushedOver
    <3>1. CASE j = q.index /\ q.entries[j] = url
      <4>1. g.position + j - Aim(q) = h.position + 1  BY <2>2, <2>3, <2>13, <3>0, <3>1
      <4> QED  BY <2>11, <2>13, <3>1, <4>1
    <3>2. CASE j + over \in 1..p.index /\ q.entries[j] = p.entries[j + over]
      <4>0. over \in {0, 1} /\ q.index = p.index + 1 - over  BY <1>2 DEF PushedOver
      <4>1. g.position + j - Aim(q) = h.position + (j + over) - p.index
        <5>1. PICK a, n : a = h.position /\ n = p.index  OBVIOUS
        <5>2. a \in Nat /\ n \in Nat /\ g.position = a + 1 /\ Aim(q) = n + 1 - over
          BY <1>3, <2>2, <2>3, <2>13, <4>0, <5>1
        <5>3. (a + 1) + j - (n + 1 - over) = a + (j + over) - n  BY <3>0, <4>0, <5>2
        <5> QED  BY <5>1, <5>2, <5>3
      <4>2. j + over \in DOMAIN p.entries  BY <1>3, <3>2
      <4>3. PICK k : k = h.position + (j + over) - p.index  OBVIOUS
      <4>4. /\ k \in DOMAIN h.history /\ h.history[k].url = p.entries[j + over]
            /\ j + over > 1 => h.history[k].in_page
        BY <2>2, <2>3, <4>2, <4>3 DEF Agree
      <4>5. k \in 1..h.position
        <5>1. h.history \in Seq(Entry)  BY <2>2 DEF Tabs
        <5> QED  BY <1>3, <2>2, <3>2, <4>0, <4>3, <4>4, <5>1
      <4>6. j > 1 => j + over > 1  BY <3>0, <4>0
      <4> QED  BY <2>13, <3>2, <4>1, <4>3, <4>4, <4>5, <4>6
    <3> QED  BY <1>2, <3>1, <3>2 DEF PushedOver
  <2> QED  BY <2>7, <2>14 DEF Paired, Agree
<1> QED  BY <1>1, <1>2, <1>4, <1>5 DEF PushedOver

LEMMA ReplaceFits ==
  ASSUME NEW p, PageFits(p), HasEntry(p, 0), Patient => p.timers = << >>,
         NEW url \in Address
  PROVE  /\ PageFits(ReplaceState(p, url)) /\ ReplaceState(p, url).scripts = p.scripts
         /\ \A t \in Tabs : Patient /\ Paired(t, p) => Paired(t, ReplaceState(p, url))
<1>1. /\ p \in Pages /\ p.index \in Nat /\ p.entries \in Seq(Address)
      /\ p.changes \in Seq(Change) /\ p.index \in DOMAIN p.entries
  BY DEF PageFits, Pages, HasEntry
<1>2. PICK c : c = [kind |-> "replace", url |-> url, step |-> 0]  OBVIOUS
<1>3. c \in Change /\ c.kind = "replace" /\ c.url = url  BY <1>2 DEF Change, Kinds
<1>4. PICK more : more = Append(p.changes, c)  OBVIOUS
<1>5. more \in Seq(Change)  BY <1>1, <1>3, <1>4
<1>6. PICK old : old = p.entries  OBVIOUS
<1>7. PICK es : es = [old EXCEPT ![p.index] = url]  OBVIOUS
<1>8. /\ es \in Seq(Address) /\ Len(es) = Len(old) /\ DOMAIN es = DOMAIN old
      /\ es[p.index] = url /\ \A j \in DOMAIN old : j # p.index => es[j] = old[j]
  BY <1>1, <1>6, <1>7
<1>9. PICK q : q = ReplaceState(p, url)  OBVIOUS
<1>10. q = [p EXCEPT !.url = url, !.entries = es, !.changes = more]
  BY <1>1, <1>2, <1>4, <1>6, <1>7, <1>9 DEF ReplaceState, Pages
<1>11. /\ q \in Pages /\ q.entries = es /\ q.index = p.index /\ q.changes = more
       /\ q.timers = p.timers /\ q.scripts = p.scripts
  BY <1>1, <1>5, <1>8, <1>10 DEF Pages
<1>12. PageFits(q)
  <2>1. Len(<< >>) <= 1  OBVIOUS
  <2> QED  BY <1>1, <1>6, <1>8, <1>11, <2>1 DEF PageFits, OneAtATime
<1>13. ASSUME NEW t \in Tabs, Patient, Paired(t, p) PROVE Paired(t, q)
  <2>1. PICK h : h = Told(t, p.changes)  OBVIOUS
  <2>2. h \in Tabs /\ Agree(h, p)  BY <1>1, <1>13, <2>1, ToldTab DEF Paired
  <2>3. h.position \in Nat /\ h.history \in Seq(Entry)  BY <2>2 DEF Tabs
  <2>4. Aim(p) = p.index /\ Aim(q) = p.index  BY <1>11, <1>13 DEF Aim
  <2>5. PICK g : g = Told(t, q.changes)  OBVIOUS
  <2>6. g = Moved(h, c)  BY <1>1, <1>3, <1>4, <1>11, <2>1, <2>5, ToldMore
  <2>7. h.position \in DOMAIN h.history
    <3>1. h.position + p.index - p.index \in DOMAIN h.history  BY <1>1, <2>2, <2>4 DEF Agree
    <3> QED  BY <1>1, <2>3, <3>1
  <2>8. PICK k, n : k = h.history /\ n = h.position  OBVIOUS
  <2>9. k \in Seq(Entry) /\ n \in DOMAIN k  BY <2>3, <2>7, <2>8
  <2>10. g.position = n /\ g.history = [k EXCEPT ![n].url = url]
    <3>1. h.history # << >>  BY <2>7
    <3> QED  BY <1>3, <2>2, <2>6, <2>8, <3>1, ReplaceMoves
  <2>11. /\ DOMAIN g.history = DOMAIN k
         /\ g.history[n].url = url /\ g.history[n].in_page = k[n].in_page
         /\ \A i \in DOMAIN k : i # n => g.history[i] = k[i]
    <3>1. k[n] \in Entry  BY <2>9
    <3> QED  BY <2>9, <2>10, <3>1 DEF Entry
  <2>12. ASSUME NEW j \in DOMAIN q.entries
         PROVE  /\ g.position + j - Aim(q) \in DOMAIN g.history
                /\ g.history[g.position + j - Aim(q)].url = q.entries[j]
                /\ j > 1 => g.history[g.position + j - Aim(q)].in_page
    <3>1. j \in DOMAIN old /\ q.entries[j] = es[j] /\ j \in Nat  BY <1>1, <1>6, <1>8, <1>11
    <3>2. PICK i : i = n + j - p.index  OBVIOUS
    <3>3. i \in DOMAIN k /\ k[i].url = old[j] /\ (j > 1 => k[i].in_page)
      BY <1>6, <2>2, <2>4, <2>8, <3>1, <3>2 DEF Agree
    <3>4. n \in Nat /\ (i = n <=> j = p.index)
      <4>1. n \in Nat  BY <2>3, <2>8
      <4> QED  BY <1>1, <3>1, <3>2, <4>1
    <3>5. g.position + j - Aim(q) = i  BY <2>4, <2>10, <3>2
    <3>6. CASE j = p.index  BY <1>8, <2>11, <3>1, <3>3, <3>4, <3>5, <3>6
    <3>7. CASE j # p.index  BY <1>8, <2>11, <3>1, <3>3, <3>4, <3>5, <3>7
    <3> QED  BY <3>6, <3>7
  <2> QED  BY <2>5, <2>12 DEF Paired, Agree
<1> QED  BY <1>9, <1>11, <1>12, <1>13

LEMMA GoFits ==
  ASSUME NEW p, PageFits(p), Patient => p.timers = << >>, NEW step \in Int
  PROVE  /\ PageFits(Go(p, step)) /\ Go(p, step).scripts = p.scripts
         /\ \A t \in Tabs : Patient /\ Paired(t, p) => Paired(t, Go(p, step))
<1>1. CASE HasEntry(p, step)
  <2>1. PICK q : q = Stepped(p, step, "traverse")  OBVIOUS
  <2>2. PICK how : how = "traverse"  OBVIOUS
  <2>3. how \in {"traverse", "followed"} /\ how # "followed"  BY <2>2
  <2>4. /\ PageFits(q) /\ q.scripts = p.scripts /\ q.changes = p.changes /\ q.entries = p.entries
        /\ Patient => Aim(q) = p.index
    BY <1>1, <2>1, <2>2, <2>3, SteppedFits
  <2>5. Patient => Aim(p) = p.index  BY DEF Aim
  <2>6. \A t \in Tabs : Patient /\ Paired(t, p) => Paired(t, q)
    BY <2>4, <2>5 DEF Paired, Agree
  <2> QED  BY <1>1, <2>1, <2>4, <2>6 DEF Go
<1>2. CASE ~HasEntry(p, step)  BY <1>2 DEF Go
<1> QED  BY <1>1, <1>2

LEMMA ScriptedFits ==
  ASSUME NEW p, PageFits(p), HasEntry(p, 0), Patient => p.timers = << >>, NEW q \in Scripted(p)
  PROVE  /\ PageFits(q) /\ q.scripts = p.scripts
         /\ \A t \in Tabs : Patient /\ Paired(t, p) => Paired(t, q)
<1>1. ASSUME NEW url \in Address, OriginOf[url] = OriginOf[p.url], q = PushState(p, url)
      PROVE  /\ PageFits(q) /\ q.scripts = p.scripts
             /\ \A t \in Tabs : Patient /\ Paired(t, p) => Paired(t, q)
  BY <1>1, PushFits
<1>2. ASSUME NEW url \in Address, OriginOf[url] = OriginOf[p.url], q = ReplaceState(p, url)
      PROVE  /\ PageFits(q) /\ q.scripts = p.scripts
             /\ \A t \in Tabs : Patient /\ Paired(t, p) => Paired(t, q)
  BY <1>2, ReplaceFits
<1>3. ASSUME NEW step \in {-1, 1}, q = Go(p, step)
      PROVE  /\ PageFits(q) /\ q.scripts = p.scripts
             /\ \A t \in Tabs : Patient /\ Paired(t, p) => Paired(t, q)
  BY <1>3, GoFits
<1> QED  BY <1>1, <1>2, <1>3 DEF Scripted

(* A load that moved adds an entry.                                        *)
LEMMA RecordedTab ==
  ASSUME NEW t \in Tabs, t.url \in Address, NEW previous
  PROVE  Recorded(t, previous) \in Tabs /\ Recorded(t, previous).url = t.url
<1>1. PICK e : e = [url |-> t.url, in_page |-> FALSE]  OBVIOUS
<1>2. e \in Entry  BY <1>1 DEF Entry
<1>3. Followed(t, e) \in Tabs /\ Followed(t, e).url = t.url
  <2>1. CASE t.history = << >>  BY <1>2, <2>1, FollowedFirst
  <2>2. CASE t.history # << >>  BY <1>2, <2>2, FollowedIs
  <2> QED  BY <2>1, <2>2
<1>4. Recorded(t, previous) = t \/ Recorded(t, previous) = Followed(t, e)
  BY <1>1 DEF Recorded
<1> QED  BY <1>3, <1>4

-----------------------------------------------------------------------------
(* The invariant.                                                          *)
Fits(t, p, h) == PageFits(p) /\ (Patient /\ h /\ p.scripts => Paired(t, p))
Shown(t, p, h) == p # None => Fits(t, p, h)
HistInv ==
    /\ tab \in Tabs
    /\ Shown(tab, shown, home)
    /\ loading \in Load \cup {None}
    /\ Building => Fits(tab, shown, home)
    /\ home \in BOOLEAN /\ acts \in 0 .. MaxActs

LEMMA ActKept ==
  ASSUME acts \in 0 .. MaxActs, Act
  PROVE  acts' \in 0 .. MaxActs
<1>1. MaxActs \in Nat  BY HistoryAssumption
<1> QED  BY <1>1 DEF Act

(* The page a dropped load leaves.                                         *)
LEMMA DroppedShown ==
  ASSUME HistInv, NEW t \in Tabs, NEW h \in BOOLEAN,
         h /\ ~Building /\ shown # None => home /\ (Paired(tab, shown) => Paired(t, shown))
  PROVE  Shown(t, Dropped, h)
<1>1. CASE Building
  <2>1. PageFits(shown)  BY <1>1 DEF HistInv, Fits
  <2>2. Dropped = [shown EXCEPT !.scripts = FALSE, !.timers = << >>, !.changes = << >>]
    BY <1>1 DEF Dropped
  <2>3. PageFits(Dropped) /\ ~Dropped.scripts  BY <2>1, <2>2, DroppedFits
  <2> QED  BY <2>3 DEF Shown, Fits
<1>2. CASE ~Building
  <2>1. Dropped = shown  BY <1>2 DEF Dropped
  <2> QED  BY <1>2, <2>1 DEF HistInv, Shown, Fits
<1> QED  BY <1>1, <1>2

LEMMA StartSendFits ==
  ASSUME HistInv, NEW t \in Tabs, NEW target \in Address, NEW record \in BOOLEAN,
         StartSend(t, target, record), home' \in BOOLEAN,
         home' => home /\ t = tab, acts' \in 0 .. MaxActs
  PROVE  HistInv'
<1>1. PICK here : here = [t EXCEPT !.url = target]  OBVIOUS
<1>2. here \in Tabs /\ here.url = target /\ here.history = t.history /\ here.position = t.position
  BY <1>1 DEF Tabs
<1>3. CASE target \in System
  <2>1. /\ tab' = IF record THEN Recorded(here, t.url) ELSE here
        /\ shown' = None /\ loading' = None
    BY <1>1, <1>3 DEF StartSend
  <2>2. tab' \in Tabs
    <3>1. Recorded(here, t.url) \in Tabs  BY <1>2, RecordedTab
    <3> QED  BY <1>2, <2>1, <3>1
  <2> QED  BY <2>1, <2>2 DEF HistInv, Shown, Fits, Building
<1>4. CASE target \notin System
  <2>1. /\ tab' = here /\ shown' = Dropped
        /\ loading' = [target |-> target, previous |-> t.url, record |-> record, arrived |-> FALSE]
    BY <1>1, <1>4 DEF StartSend
  <2>2. loading' \in Load /\ ~loading'.arrived
    <3>1. t.url \in Address \cup {None}  BY DEF Tabs
    <3> QED  BY <2>1, <3>1 DEF Load
  <2>3. ~Building'  BY <2>2 DEF Building
  <2>4. ASSUME home', ~Building, shown # None
        PROVE  home /\ (Paired(tab, shown) => Paired(here, shown))
    <3>1. PageFits(shown)  BY <2>4 DEF HistInv, Shown, Fits
    <3>2. t = tab /\ home  BY <2>4
    <3>3. Paired(tab, shown) => Paired([tab EXCEPT !.url = target], shown)
      BY <3>1, AddressOnly DEF HistInv
    <3> QED  BY <1>1, <3>2, <3>3
  <2>5. Shown(here, Dropped, home')  BY <1>2, <2>4, DroppedShown
  <2>6. Shown(tab, shown, home)'
    <3>1. Shown(tab', shown', home')  BY <2>1, <2>5
    <3> QED  BY <3>1 DEF Shown, Fits, PageFits, OneAtATime, Paired, Agree, Aim
  <2> QED  BY <1>2, <2>1, <2>2, <2>3, <2>6 DEF HistInv
<1> QED  BY <1>3, <1>4

(* The page and what the browser heard, in the next state.                 *)
LEMMA NextShown ==
  ASSUME Shown(tab', shown', home')
  PROVE  Shown(tab, shown, home)'
BY DEF Shown, Fits, PageFits, OneAtATime, Paired, Agree, Aim

LEMMA NextFits ==
  ASSUME Fits(tab', shown', home')
  PROVE  Fits(tab, shown, home)'
BY DEF Fits, PageFits, OneAtATime, Paired, Agree, Aim

LEMMA NavigateKeeps ==
  ASSUME HistInv, NEW target \in Address, NEW record \in BOOLEAN, Navigate(target, record)
  PROVE  HistInv'
<1>1. Act /\ StartSend(tab, target, record) /\ home' = (home /\ shown' # None)
  BY DEF Navigate
<1>2. acts' \in 0 .. MaxActs  BY <1>1, ActKept DEF HistInv
<1>3. home' \in BOOLEAN /\ (home' => home)  BY <1>1 DEF HistInv
<1>4. tab \in Tabs  BY DEF HistInv
<1> QED  BY <1>1, <1>2, <1>3, <1>4, StartSendFits

LEMMA ReloadKeeps ==
  ASSUME HistInv, Reload
  PROVE  HistInv'
<1>1. Act /\ StartSend(tab, tab.url, FALSE) /\ home' = (home /\ shown' # None)
  BY DEF Reload
<1>2. acts' \in 0 .. MaxActs  BY <1>1, ActKept DEF HistInv
<1>3. home' \in BOOLEAN /\ (home' => home)  BY <1>1 DEF HistInv
<1>4. tab \in Tabs  BY DEF HistInv
<1>5. tab.url \in Address  BY <1>4 DEF Reload, Tabs
<1> QED  BY <1>1, <1>2, <1>3, <1>4, <1>5, StartSendFits

LEMMA RefuseKeeps ==
  ASSUME HistInv, Refuse
  PROVE  HistInv'
<1>1. /\ shown' = None /\ loading' = None /\ home' = FALSE /\ tab' = tab /\ Act  BY DEF Refuse
<1>2. acts' \in 0 .. MaxActs  BY <1>1, ActKept DEF HistInv
<1> QED  BY <1>1, <1>2 DEF HistInv, Shown, Fits, Building

LEMMA FailKeeps ==
  ASSUME HistInv, Fail
  PROVE  HistInv'
BY DEF Fail, HistInv, Shown, Building

(* The list after a load that arrived somewhere.                           *)
LEMMA ArrivedTab ==
  ASSUME HistInv, NEW url \in Address,
         tab' = LET here == [tab EXCEPT !.url = url]
                IN  IF loading.record THEN Recorded(here, loading.previous) ELSE here
  PROVE  tab' \in Tabs /\ tab'.url = url
<1>1. PICK here : here = [tab EXCEPT !.url = url]  OBVIOUS
<1>2. here \in Tabs /\ here.url = url  BY <1>1 DEF HistInv, Tabs
<1>3. PICK rec : rec = Recorded(here, loading.previous)  OBVIOUS
<1>4. rec \in Tabs /\ rec.url = url  BY <1>2, <1>3, RecordedTab
<1>5. tab' = IF loading.record THEN rec ELSE here  BY <1>1, <1>3
<1> QED  BY <1>2, <1>4, <1>5

LEMMA ArriveKeeps ==
  ASSUME HistInv, NEW final \in Address \ System, Arrive(final)
  PROVE  HistInv'
<1>1. tab' \in Tabs  BY ArrivedTab DEF Arrive
<1>2. /\ shown' = Document(final) /\ acts' = acts
      /\ loading # None /\ loading' = [loading EXCEPT !.arrived = TRUE]
      /\ home' = (tab'.history # << >> /\ tab'.history[tab'.position].url = final)
  BY DEF Arrive
<1>3. loading \in Load /\ loading' \in Load  BY <1>2 DEF HistInv, Load
<1>4. PageFits(shown')  BY <1>2, DocumentFits
<1>5. home' => Paired(tab', shown')  BY <1>1, <1>2, DocumentFits
<1>6. Fits(tab', shown', home')  BY <1>4, <1>5 DEF Fits
<1>7. Shown(tab, shown, home)' /\ Fits(tab, shown, home)'
  <2>1. Shown(tab', shown', home')  BY <1>6 DEF Shown
  <2> QED  BY <1>6, <2>1, NextShown, NextFits
<1> QED  BY <1>1, <1>2, <1>3, <1>7 DEF HistInv

LEMMA AttachmentKeeps ==
  ASSUME HistInv, NEW listed \in System, Attachment(listed)
  PROVE  HistInv'
<1>1. listed \in Address  BY HistoryAssumption
<1>2. tab' \in Tabs  BY <1>1, ArrivedTab DEF Attachment
<1> QED  BY <1>2 DEF Attachment, HistInv, Shown, Building

LEMMA StopLoadingKeeps ==
  ASSUME HistInv, StopLoading
  PROVE  HistInv'
<1>1. Act /\ loading' = None /\ shown' = Dropped /\ tab' = tab /\ home' = home
  BY DEF StopLoading
<1>2. acts' \in 0 .. MaxActs  BY <1>1, ActKept DEF HistInv
<1>3. tab \in Tabs /\ home \in BOOLEAN  BY DEF HistInv
<1>4. Shown(tab, Dropped, home)  BY <1>3, DroppedShown
<1>5. Shown(tab, shown, home)'
  <2>1. Shown(tab', shown', home')  BY <1>1, <1>4
  <2> QED  BY <2>1, NextShown
<1> QED  BY <1>1, <1>2, <1>3, <1>5 DEF HistInv, Building

LEMMA RestoreKeeps ==
  ASSUME HistInv, Restore
  PROVE  HistInv'
<1>1. tab \in Tabs /\ tab.url \in Address  BY DEF HistInv, Tabs, Restore
<1>2. Act /\ shown' = None /\ home' = FALSE  BY DEF Restore
<1>3. acts' \in 0 .. MaxActs  BY <1>2, ActKept DEF HistInv
<1>4. tab' \in Tabs /\ loading' \in Load \cup {None} /\ (loading' = None \/ ~loading'.arrived)
  <2>1. PICK arrived : arrived = (tab.history # << >> /\ tab.history[tab.position].url = tab.url)
    OBVIOUS
  <2>2. PICK from : from = IF arrived THEN tab.url
                           ELSE IF tab.history = << >> THEN None ELSE tab.history[tab.position].url
    OBVIOUS
  <2>3. from \in Address \cup {None}
    <3>1. CASE arrived  BY <1>1, <2>2, <3>1
    <3>2. CASE ~arrived /\ tab.history = << >>  BY <2>2, <3>2
    <3>3. CASE ~arrived /\ tab.history # << >>
      <4>1. tab.history[tab.position] \in Entry  BY <1>1, <3>3 DEF Tabs
      <4> QED  BY <2>2, <3>3, <4>1 DEF Entry
    <3> QED  BY <3>1, <3>2, <3>3
  <2>4. CASE tab.url \in System
    <3>1. loading' = None /\ tab' = IF arrived THEN tab ELSE Recorded(tab, from)
      BY <2>1, <2>2, <2>4 DEF Restore
    <3>2. Recorded(tab, from) \in Tabs  BY <1>1, RecordedTab
    <3> QED  BY <1>1, <3>1, <3>2
  <2>5. CASE tab.url \notin System
    <3>1. /\ loading' = [target |-> tab.url, previous |-> from, record |-> ~arrived, arrived |-> FALSE]
          /\ tab' = tab
      BY <2>1, <2>2, <2>5 DEF Restore
    <3> QED  BY <1>1, <2>1, <2>3, <3>1 DEF Load
  <2> QED  BY <2>4, <2>5
<1> QED  BY <1>2, <1>3, <1>4 DEF HistInv, Shown, Fits, Building


(* A step of the browser's that the page takes.                            *)
LEMMA FollowsIt ==
  ASSUME HistInv, NEW step \in {-1, 1}, shown # None, shown.scripts, HasEntry(shown, step),
         Patient => PageQuiet, tab.position + step \in DOMAIN tab.history,
         NEW there, there = [tab EXCEPT !.position = tab.position + step,
                                        !.url = tab.history[tab.position + step].url],
         NEW next, next = Stepped(shown, step, "followed")
  PROVE  there \in Tabs /\ Fits(there, next, home)
<1>1. tab \in Tabs /\ PageFits(shown)  BY DEF HistInv, Shown, Fits
<1>2. PICK h, n, m : h = tab.history /\ n = tab.position /\ m = tab.position + step  OBVIOUS
<1>3. h \in Seq(Entry) /\ n \in Nat /\ m \in DOMAIN h /\ m \in Nat /\ m = n + step
  BY <1>1, <1>2 DEF Tabs
<1>4. h[m] \in Entry  BY <1>3
<1>5. /\ there \in Tabs /\ there.history = h /\ there.position = m
  <2>1. there = [tab EXCEPT !.position = m, !.url = h[m].url]  BY <1>2
  <2>2. h[m].url \in Address  BY <1>4 DEF Entry
  <2> QED  BY <1>1, <1>2, <1>3, <2>1, <2>2 DEF Tabs
<1>6. Patient => shown.timers = << >> /\ shown.changes = << >>  BY DEF PageQuiet
<1>7. PICK how : how = "followed"  OBVIOUS
<1>8. /\ PageFits(next) /\ next.scripts = shown.scripts /\ next.changes = shown.changes
      /\ next.entries = shown.entries /\ (Patient => Aim(next) = shown.index + step)
  <2>1. how \in {"traverse", "followed"} /\ (Patient /\ how = "followed" => shown.changes = << >>)
        /\ step \in Int
    BY <1>6, <1>7
  <2>2. next = Stepped(shown, step, how)  BY <1>7
  <2>3. Patient => shown.timers = << >>  BY <1>6
  <2>5. HasEntry(shown, step)  OBVIOUS
  <2>4. /\ PageFits(Stepped(shown, step, how)) /\ Stepped(shown, step, how).scripts = shown.scripts
        /\ Stepped(shown, step, how).changes = shown.changes
        /\ Stepped(shown, step, how).entries = shown.entries
        /\ Patient => Aim(Stepped(shown, step, how)) =
              IF how = "followed" THEN shown.index + step ELSE shown.index
    BY <1>1, <2>1, <2>3, <2>5, SteppedFits, Zenon
  <2> QED  BY <1>7, <2>2, <2>4
<1>9. ASSUME Patient, home PROVE Paired(there, next)
  <2>1. Paired(tab, shown)  BY <1>9 DEF HistInv, Shown, Fits
  <2>2. Told(tab, shown.changes) = tab /\ Told(there, next.changes) = there
    BY <1>1, <1>5, <1>6, <1>8, <1>9, ToldNothing
  <2>3. Aim(shown) = shown.index  BY <1>6, <1>9 DEF Aim
  <2>4. shown.index \in Nat /\ shown.entries \in Seq(Address)
    BY <1>1 DEF PageFits, Pages
  <2>5. PICK i : i = shown.index  OBVIOUS
  <2>6. Agree(tab, shown)  BY <2>1, <2>2 DEF Paired
  <2>7. ASSUME NEW j \in DOMAIN next.entries
        PROVE  /\ there.position + j - Aim(next) \in DOMAIN there.history
               /\ there.history[there.position + j - Aim(next)].url = next.entries[j]
               /\ j > 1 => there.history[there.position + j - Aim(next)].in_page
    <3>1. j \in DOMAIN shown.entries /\ j \in Nat  BY <1>8, <2>4
    <3>2. PICK k : k = n + j - i  OBVIOUS
    <3>3. k \in DOMAIN h /\ h[k].url = shown.entries[j] /\ (j > 1 => h[k].in_page)
      BY <1>2, <2>3, <2>5, <2>6, <3>1, <3>2 DEF Agree
    <3>4. there.position + j - Aim(next) = k
      <4>1. m + j - (i + step) = n + j - i  BY <1>3, <2>4, <2>5, <3>1
      <4> QED  BY <1>5, <1>8, <1>9, <2>5, <3>2, <4>1
    <3> QED  BY <1>5, <1>8, <3>3, <3>4
  <2> QED  BY <2>2, <2>7 DEF Paired, Agree
<1> QED  BY <1>5, <1>8, <1>9 DEF Fits

LEMMA TravelKeeps ==
  ASSUME HistInv, NEW step \in {-1, 1}, Travel(step)
  PROVE  HistInv'
<1>1. Act /\ (Patient => PageQuiet) /\ tab.position + step \in DOMAIN tab.history
  BY DEF Travel
<1>2. acts' \in 0 .. MaxActs  BY <1>1, ActKept DEF HistInv
<1>3. PICK there, url :
         /\ there = [tab EXCEPT !.position = tab.position + step]
         /\ url = tab.history[tab.position + step].url
  OBVIOUS
<1>4. tab \in Tabs /\ there \in Tabs /\ url \in Address
  <2>1. tab \in Tabs  BY DEF HistInv
  <2>2. tab.position + step \in Nat /\ tab.history[tab.position + step] \in Entry
    BY <1>1, <2>1 DEF Tabs
  <2> QED  BY <1>1, <1>3, <2>1, <2>2 DEF Tabs, Entry
<1>5. CASE SameDocument(tab.position + step) /\ TakesStep(step)
  <2>1. /\ tab' = [there EXCEPT !.url = url] /\ shown' = Stepped(shown, step, "followed")
        /\ loading' = loading /\ home' = home
    BY <1>3, <1>5 DEF Travel
  <2>2. tab' = [tab EXCEPT !.position = tab.position + step,
                           !.url = tab.history[tab.position + step].url]
    BY <1>3, <2>1
  <2>3. shown # None /\ shown.scripts /\ HasEntry(shown, step)  BY <1>5 DEF TakesStep
  <2>4. PICK next : next = Stepped(shown, step, "followed")  OBVIOUS
  <2>5. PICK after : after = [tab EXCEPT !.position = tab.position + step,
                                         !.url = tab.history[tab.position + step].url]
    OBVIOUS
  <2>6. after \in Tabs /\ Fits(after, next, home)
    BY <1>1, <2>3, <2>4, <2>5, FollowsIt
  <2>7. tab' \in Tabs /\ Fits(tab', shown', home') /\ Shown(tab', shown', home')
    BY <2>1, <2>2, <2>4, <2>5, <2>6 DEF Shown
  <2>8. Fits(tab, shown, home)' /\ Shown(tab, shown, home)'  BY <2>7, NextFits, NextShown
  <2> QED  BY <1>2, <2>1, <2>7, <2>8 DEF HistInv
<1>6. CASE ~(SameDocument(tab.position + step) /\ TakesStep(step))
  <2>1. StartSend(there, url, FALSE) /\ home' = FALSE  BY <1>3, <1>6 DEF Travel
  <2> QED  BY <1>2, <1>4, <2>1, StartSendFits
<1> QED  BY <1>5, <1>6

-----------------------------------------------------------------------------
(* The tasks that are due at the end of a load, one after the other.       *)
LEMMA TasksSettle ==
  ASSUME NEW p, PageFits(p), NEW due \in 0 .. Len(p.timers)
  PROVE  LET settled[n \in 0 .. due] == IF n = 0 THEN p ELSE Landed(settled[n - 1])
         IN  /\ PageFits(settled[due]) /\ settled[due].scripts = p.scripts
             /\ \A t \in Tabs : Patient /\ Paired(t, p) => Paired(t, settled[due])
<1> DEFINE settled == CHOOSE f : f = [n \in 0 .. due |-> IF n = 0 THEN p ELSE Landed(f[n - 1])]
           X == {q \in Pages : PageFits(q)}
           step == [n \in 1 .. due |-> [q \in X |-> IF q.timers # << >> THEN Landed(q) ELSE q]]
<1>0. p \in X /\ due \in Nat /\ Len(p.timers) \in Nat  BY DEF PageFits, Pages
<1>1. step \in [1 .. due -> [X -> X]]
  <2>1. ASSUME NEW q \in X PROVE (IF q.timers # << >> THEN Landed(q) ELSE q) \in X
    BY LandedFits DEF PageFits
  <2> HIDE DEF X
  <2> QED  BY <2>1
<1>2. PICK g : Runs(g, due, X, p, step)
  <2> HIDE DEF X, step
  <2> QED  BY <1>0, <1>1, Stepwise
<1> DEFINE Well(i) == /\ g[i] \in X /\ g[i].scripts = p.scripts
                      /\ Len(g[i].timers) = Len(p.timers) - i
                      /\ \A t \in Tabs : Patient /\ Paired(t, p) => Paired(t, g[i])
           h == [i \in 0 .. due |-> IF Well(i) THEN 1 ELSE 0]
<1>3. Well(0)
  <2>1. g[0] = p  BY <1>2 DEF Runs
  <2>2. Len(p.timers) - 0 = Len(p.timers)  BY <1>0
  <2> HIDE DEF X
  <2> QED  BY <1>0, <2>1, <2>2
<1>4. ASSUME NEW i \in 1 .. due, Well(i - 1) PROVE Well(i) /\ g[i] = Landed(g[i - 1])
  <2>1. PICK q : q = g[i - 1]  OBVIOUS
  <2>2. /\ q \in X /\ q.scripts = p.scripts
        /\ Len(q.timers) = Len(p.timers) - (i - 1)
        /\ \A t \in Tabs : Patient /\ Paired(t, p) => Paired(t, q)
    BY <1>4, <2>1
  <2>3. Len(p.timers) - (i - 1) > 0 /\ (Len(p.timers) - (i - 1)) - 1 = Len(p.timers) - i
    BY <1>0
  <2>4. q.timers # << >>
    <3>1. Len(<< >>) = 0  OBVIOUS
    <3> QED  BY <2>2, <2>3, <3>1
  <2>5. g[i] = step[i][q]  BY <1>2, <2>1 DEF Runs
  <2>6. g[i] = Landed(q)  BY <2>2, <2>4, <2>5
  <2>7. /\ PageFits(Landed(q)) /\ Landed(q).scripts = q.scripts
        /\ Len(Landed(q).timers) = Len(q.timers) - 1
        /\ \A t \in Tabs : Patient /\ Paired(t, q) => Paired(t, Landed(q))
    BY <2>2, <2>4, LandedFits
  <2>8. Landed(q) \in X  BY <2>7 DEF PageFits
  <2> HIDE DEF X, step
  <2> QED  BY <2>1, <2>2, <2>3, <2>6, <2>7, <2>8
<1>5. \A i \in 0 .. due : Well(i)
  <2> HIDE DEF Well
  <2>1. PICK Y : Y = {1}  OBVIOUS
  <2>2. h[0] \in Y  BY <1>0, <1>3, <2>1
  <2>3. ASSUME NEW i \in 1 .. due, h[i - 1] \in Y PROVE h[i] \in Y
    <3>1. i \in 0 .. due /\ i - 1 \in 0 .. due  BY <1>0
    <3>2. Well(i - 1)  BY <2>1, <2>3, <3>1
    <3> QED  BY <1>4, <2>1, <3>1, <3>2
  <2>4. \A i \in 0 .. due : h[i] \in Y
    <3> HIDE DEF h
    <3> QED  BY <1>0, <2>2, <2>3, CarriedThrough
  <2> QED  BY <2>1, <2>4
<1>6. g = [n \in 0 .. due |-> IF n = 0 THEN p ELSE Landed(g[n - 1])]
  <2>1. ASSUME NEW n \in 0 .. due
        PROVE  g[n] = IF n = 0 THEN p ELSE Landed(g[n - 1])
    <3>1. CASE n = 0  BY <1>2, <3>1 DEF Runs
    <3>2. CASE n # 0
      <4>1. n \in 1 .. due /\ n - 1 \in 0 .. due  BY <1>0, <3>2
      <4>2. Well(n - 1)  BY <1>5, <4>1
      <4>3. g[n] = Landed(g[n - 1])
        <5> HIDE DEF Well
        <5> QED  BY <1>4, <4>1, <4>2
      <4> QED  BY <3>2, <4>3
    <3> QED  BY <3>1, <3>2
  <2>2. g = [n \in 0 .. due |-> g[n]]  BY <1>2 DEF Runs
  <2> HIDE DEF Well
  <2> QED  BY <2>1, <2>2
<1>7. settled = [n \in 0 .. due |-> IF n = 0 THEN p ELSE Landed(settled[n - 1])]
  <2> HIDE DEF X, step, Well
  <2> QED  BY <1>6, Zenon
<1>8. \A n \in 0 .. due : settled[n] = g[n]
  <2> HIDE DEF settled, X, step, Well
  <2>1. settled[0] = g[0]
    <3>1. 0 \in 0 .. due  BY <1>0
    <3> QED  BY <1>6, <1>7, <3>1
  <2>2. ASSUME NEW n \in 1 .. due, settled[n - 1] = g[n - 1] PROVE settled[n] = g[n]
    <3>1. n \in 0 .. due /\ n # 0  BY <1>0
    <3>2. settled[n] = Landed(settled[n - 1])  BY <1>7, <3>1
    <3>3. g[n] = Landed(g[n - 1])  BY <1>6, <3>1
    <3> QED  BY <2>2, <3>2, <3>3
  <2> DEFINE same == [n \in 0 .. due |-> IF settled[n] = g[n] THEN 1 ELSE 0]
  <2>3. PICK Y : Y = {1}  OBVIOUS
  <2>4. same[0] \in Y  BY <1>0, <2>1, <2>3
  <2>5. ASSUME NEW n \in 1 .. due, same[n - 1] \in Y PROVE same[n] \in Y
    <3>1. n \in 0 .. due /\ n - 1 \in 0 .. due  BY <1>0
    <3>2. settled[n - 1] = g[n - 1]  BY <2>3, <2>5, <3>1
    <3> QED  BY <2>2, <2>3, <3>1, <3>2
  <2>6. \A n \in 0 .. due : same[n] \in Y
    <3> HIDE DEF same
    <3> QED  BY <1>0, <2>4, <2>5, CarriedThrough
  <2> QED  BY <2>3, <2>6
<1>9. due \in 0 .. due  BY <1>0
<1>10. Well(due) /\ settled[due] = g[due]  BY <1>5, <1>8, <1>9
<1> HIDE DEF settled
<1>11. /\ PageFits(settled[due]) /\ settled[due].scripts = p.scripts
       /\ \A t \in Tabs : Patient /\ Paired(t, p) => Paired(t, settled[due])
  BY <1>10
<1> QED  BY <1>11, Zenon DEF settled


LEMMA FinishLoadKeeps ==
  ASSUME HistInv, FinishLoad
  PROVE  HistInv'
<1>1. Fits(tab, shown, home) /\ PageFits(shown) /\ tab \in Tabs
  BY DEF HistInv, FinishLoad, Fits
<1>2. Building /\ loading' = None /\ home' = home /\ acts' = acts  BY DEF FinishLoad
<1>3. PICK due \in 0 .. Len(shown.timers) :
        LET settled[n \in 0 .. due] == IF n = 0 THEN shown ELSE Landed(settled[n - 1])
        IN  /\ tab' = Told(tab, settled[due].changes)
            /\ shown' = [settled[due] EXCEPT !.changes = << >>]
  BY DEF FinishLoad
<1> DEFINE settled == CHOOSE f : f = [n \in 0 .. due |-> IF n = 0 THEN shown ELSE Landed(f[n - 1])]
<1>4. PICK p : p = settled[due]  OBVIOUS
<1>5. tab' = Told(tab, p.changes) /\ shown' = [p EXCEPT !.changes = << >>]  BY <1>3, <1>4
<1>6. /\ PageFits(p) /\ p.scripts = shown.scripts
      /\ \A t \in Tabs : Patient /\ Paired(t, shown) => Paired(t, p)
  BY <1>1, <1>4, TasksSettle
<1> HIDE DEF settled
<1>7. tab' \in Tabs  BY <1>1, <1>5, <1>6, ToldTab DEF PageFits, Pages
<1>8. /\ PageFits(shown') /\ shown'.scripts = p.scripts
      /\ Paired(tab, p) => Paired(tab', shown')
  BY <1>1, <1>5, <1>6, HeardFits
<1>9. Shown(tab, shown, home)'
  <2>1. ASSUME shown' # None, Patient, home, shown'.scripts PROVE Paired(tab', shown')
    <3>1. Paired(tab, shown)  BY <1>1, <1>6, <1>8, <2>1 DEF Fits
    <3> QED  BY <1>1, <1>6, <1>8, <2>1, <3>1
  <2>2. Shown(tab', shown', home')  BY <1>2, <1>8, <2>1 DEF Shown, Fits
  <2> QED  BY <2>2, NextShown
<1> QED  BY <1>2, <1>7, <1>9 DEF HistInv, Building

LEMMA InputKeeps ==
  ASSUME HistInv, Input
  PROVE  HistInv'
<1>1. /\ tab \in Tabs /\ shown # None /\ PageFits(shown) /\ home' = home /\ loading' = loading
      /\ loading = None
  BY DEF HistInv, Shown, Fits, Input
<1>2. PICK p : /\ PageFits(p) /\ p.scripts = shown.scripts
               /\ Patient /\ Paired(tab, shown) => Paired(tab, p)
               /\ tab' = Told(tab, p.changes) /\ shown' = [p EXCEPT !.changes = << >>]
               /\ acts' \in 0 .. MaxActs
  <2>1. CASE shown.changes # << >> /\ tab' = Told(tab, shown.changes)
             /\ shown' = [shown EXCEPT !.changes = << >>] /\ acts' = acts
    BY <1>1, <2>1 DEF HistInv
  <2>2. CASE MayMove /\ Act /\ \E p \in Scripted(shown) :
                 tab' = Told(tab, p.changes) /\ shown' = [p EXCEPT !.changes = << >>]
    <3>1. PICK p \in Scripted(shown) :
            tab' = Told(tab, p.changes) /\ shown' = [p EXCEPT !.changes = << >>]
      BY <2>2
    <3>2. HasEntry(shown, 0) /\ (Patient => shown.timers = << >>)  BY <2>2 DEF MayMove
    <3>3. acts' \in 0 .. MaxActs  BY <2>2, ActKept DEF HistInv
    <3>4. PageFits(p) /\ p.scripts = shown.scripts
          /\ \A t \in Tabs : Patient /\ Paired(t, shown) => Paired(t, p)
      BY <1>1, <3>1, <3>2, ScriptedFits
    <3> QED  BY <1>1, <3>1, <3>3, <3>4
  <2> QED  BY <2>1, <2>2 DEF Input
<1>3. tab' \in Tabs  BY <1>1, <1>2, ToldTab DEF PageFits, Pages
<1>4. /\ PageFits(shown') /\ shown'.scripts = p.scripts
      /\ Paired(tab, p) => Paired(tab', shown')
  BY <1>1, <1>2, HeardFits
<1>5. Shown(tab, shown, home)'
  <2>1. ASSUME Patient, home, shown'.scripts PROVE Paired(tab', shown')
    <3>1. Paired(tab, shown)  BY <1>1, <1>2, <1>4, <2>1 DEF HistInv, Shown, Fits
    <3> QED  BY <1>2, <1>4, <2>1, <3>1
  <2>2. Shown(tab', shown', home')  BY <1>1, <1>4, <2>1 DEF Shown, Fits
  <2> QED  BY <2>2, NextShown
<1> QED  BY <1>1, <1>2, <1>3, <1>5 DEF HistInv, Building

LEMMA TurnKeeps ==
  ASSUME HistInv, Turn
  PROVE  HistInv'
<1>1. /\ tab \in Tabs /\ shown # None /\ PageFits(shown) /\ MayMove /\ Act
      /\ shown' \in Scripted(shown) /\ tab' = tab /\ loading' = loading /\ home' = home
  BY DEF HistInv, Shown, Fits, Turn, MayMove
<1>2. acts' \in 0 .. MaxActs  BY <1>1, ActKept DEF HistInv
<1>3. HasEntry(shown, 0) /\ (Patient => shown.timers = << >>)  BY <1>1 DEF MayMove
<1>4. PICK p : p = shown'  OBVIOUS
<1>5. PageFits(p) /\ p.scripts = shown.scripts
      /\ \A t \in Tabs : Patient /\ Paired(t, shown) => Paired(t, p)
  BY <1>1, <1>3, <1>4, ScriptedFits
<1>6. Fits(tab', shown', home')
  <2>1. ASSUME Patient, home, p.scripts PROVE Paired(tab, p)
    <3>1. Paired(tab, shown)  BY <1>1, <1>5, <2>1 DEF HistInv, Shown, Fits
    <3> QED  BY <1>1, <1>5, <2>1, <3>1
  <2>2. Fits(tab, p, home)  BY <1>5, <2>1 DEF Fits
  <2> QED  BY <1>1, <1>4, <2>2
<1>7. Shown(tab, shown, home)' /\ Fits(tab, shown, home)'
  <2>1. Shown(tab', shown', home')  BY <1>6 DEF Shown
  <2> QED  BY <1>6, <2>1, NextShown, NextFits
<1> QED  BY <1>1, <1>2, <1>7 DEF HistInv

LEMMA TakeStepKeeps ==
  ASSUME HistInv, TakeStep
  PROVE  HistInv'
<1>1. /\ tab \in Tabs /\ shown # None /\ PageFits(shown) /\ shown.timers # << >>
      /\ shown' = Landed(shown) /\ tab' = tab /\ loading' = loading /\ home' = home /\ acts' = acts
  BY DEF HistInv, Shown, Fits, TakeStep
<1>2. PICK p : p = Landed(shown)  OBVIOUS
<1>3. PageFits(p) /\ p.scripts = shown.scripts
      /\ \A t \in Tabs : Patient /\ Paired(t, shown) => Paired(t, p)
  BY <1>1, <1>2, LandedFits
<1>4. Fits(tab', shown', home')
  <2>1. ASSUME Patient, home, p.scripts PROVE Paired(tab, p)
    <3>1. Paired(tab, shown)  BY <1>1, <1>3, <2>1 DEF HistInv, Shown, Fits
    <3> QED  BY <1>1, <1>3, <2>1, <3>1
  <2>2. Fits(tab, p, home)  BY <1>3, <2>1 DEF Fits
  <2> QED  BY <1>1, <1>2, <2>2
<1>5. Shown(tab, shown, home)'
  <2>1. Shown(tab', shown', home')  BY <1>4 DEF Shown
  <2> QED  BY <2>1, NextShown
<1> QED  BY <1>1, <1>5 DEF HistInv, TakeStep, Building

-----------------------------------------------------------------------------

LEMMA HistoryStarts ==
  ASSUME HistoryInit
  PROVE  HistInv
<1>1. MaxActs \in Nat  BY HistoryAssumption
<1>2. << >> \in Seq(Entry) /\ 0 \in Nat  OBVIOUS
<1>3. tab \in Tabs  BY <1>2 DEF HistoryInit, Tabs
<1>4. shown = None /\ loading = None /\ home = FALSE /\ acts = 0  BY DEF HistoryInit
<1>5. Shown(tab, shown, home) /\ ~Building  BY <1>4 DEF Shown, Building
<1>6. acts \in 0 .. MaxActs  BY <1>1, <1>4
<1> QED  BY <1>3, <1>4, <1>5, <1>6 DEF HistInv

LEMMA HistoryKeeps ==
  ASSUME HistInv, [HistoryNext]_historyVars
  PROVE  HistInv'
<1>1. CASE UNCHANGED historyVars
  <2>1. tab' = tab /\ shown' = shown /\ loading' = loading /\ home' = home /\ acts' = acts
    BY <1>1 DEF historyVars
  <2>2. Shown(tab, shown, home)'
    <3>1. Shown(tab', shown', home')  BY <2>1 DEF HistInv
    <3> QED  BY <3>1, NextShown
  <2>3. Building' => Fits(tab, shown, home)'
    <3>1. Building' => Fits(tab', shown', home')  BY <2>1 DEF HistInv, Building
    <3> QED  BY <3>1, NextFits
  <2> QED  BY <2>1, <2>2, <2>3 DEF HistInv
<1>2. ASSUME NEW target \in Address, NEW record \in BOOLEAN, Navigate(target, record)
      PROVE  HistInv'
  BY <1>2, NavigateKeeps
<1>3. ASSUME NEW final \in Address \ System, Arrive(final) PROVE HistInv'
  BY <1>3, ArriveKeeps
<1>4. ASSUME NEW listed \in System, Attachment(listed) PROVE HistInv'
  BY <1>4, AttachmentKeeps
<1>5. ASSUME NEW step \in {-1, 1}, Travel(step) PROVE HistInv'
  BY <1>5, TravelKeeps
<1>6. CASE Reload  BY <1>6, ReloadKeeps
<1>7. CASE Refuse  BY <1>7, RefuseKeeps
<1>8. CASE Fail  BY <1>8, FailKeeps
<1>9. CASE FinishLoad  BY <1>9, FinishLoadKeeps
<1>10. CASE StopLoading  BY <1>10, StopLoadingKeeps
<1>11. CASE Restore  BY <1>11, RestoreKeeps
<1>12. CASE Input  BY <1>12, InputKeeps
<1>13. CASE Turn  BY <1>13, TurnKeeps
<1>14. CASE TakeStep  BY <1>14, TakeStepKeeps
<1>15. CASE Done  BY <1>1, <1>15 DEF Done
<1> QED
  BY <1>1, <1>2, <1>3, <1>4, <1>5, <1>6, <1>7, <1>8, <1>9, <1>10, <1>11, <1>12, <1>13, <1>14,
     <1>15 DEF HistoryNext

LEMMA HistoryInvariant == HistorySpec => []HistInv
<1>1. HistoryInit => HistInv  BY HistoryStarts
<1>2. HistInv /\ [HistoryNext]_historyVars => HistInv'  BY HistoryKeeps
<1> QED  BY <1>1, <1>2, PTL DEF HistorySpec

(* The fields hold what they should: the position is that of an entry the  *)
(* browser keeps, and a page keeps no more entries than its limit and,     *)
(* when steps end before the next move, stands at one of them.             *)
THEOREM HistoryTypeCorrect == HistorySpec => []HistoryTypeOK
<1>1. ASSUME HistInv PROVE HistoryTypeOK
  <2>1. Awaited \subseteq Timer
    BY DEF Awaited, Timer, Kinds
  <2>2. ASSUME shown # None
        PROVE  /\ shown \in [url : Address, entries : Seq(Address), index : Nat,
                             timers : Seq(Timer), changes : Seq(Change), scripts : BOOLEAN]
               /\ Len(shown.entries) <= Limit
               /\ Patient => shown.index \in DOMAIN shown.entries
    <3>1. PageFits(shown)  BY <1>1, <2>2 DEF HistInv, Shown, Fits
    <3>2. shown.timers \in Seq(Timer)
      <4>1. PICK s : s = shown.timers  OBVIOUS
      <4>2. s \in Seq(Awaited)  BY <3>1, <4>1 DEF PageFits, Pages
      <4>3. s \in Seq(Timer)  BY <2>1, <4>2
      <4> QED  BY <4>1, <4>3
    <3>3. /\ shown = [url |-> shown.url, entries |-> shown.entries, index |-> shown.index,
                      timers |-> shown.timers, changes |-> shown.changes, scripts |-> shown.scripts]
          /\ shown.url \in Address /\ shown.entries \in Seq(Address)
          /\ shown.index \in Nat /\ shown.changes \in Seq(Change) /\ shown.scripts \in BOOLEAN
      BY <3>1 DEF PageFits, Pages
    <3> QED  BY <3>1, <3>2, <3>3 DEF PageFits, OneAtATime
  <2> QED  BY <1>1, <2>2 DEF HistoryTypeOK, HistInv, Tabs
<1> QED  BY <1>1, HistoryInvariant, PTL

(* The browser's list and the page's stay two records of the same moves,   *)
(* for any addresses, redirects and number of moves, and however few       *)
(* entries a page keeps: wherever the page goes of itself, the browser     *)
(* finds the entry the reader is shown. Patient: a step ends before the    *)
(* next move of either.                                                    *)
THEOREM ListsStayTogether ==
  ASSUME Patient = TRUE
  PROVE  HistorySpec => []ListsAgree
<1>1. ASSUME HistInv PROVE ListsAgree
  <2>1. SUFFICES ASSUME shown # None, home, shown.scripts,
                        NEW j \in DOMAIN shown.entries
                 PROVE  /\ Heard.position + j - Standing \in DOMAIN Heard.history
                        /\ Heard.history[Heard.position + j - Standing].url = shown.entries[j]
                        /\ j > 1 => Heard.history[Heard.position + j - Standing].in_page
    BY DEF ListsAgree
  <2>2. Agree(Heard, shown)  BY <1>1, <2>1 DEF HistInv, Shown, Fits, Paired, Heard
  <2>3. Standing = Aim(shown)  BY DEF Standing, Aim
  <2> QED  BY <2>1, <2>2, <2>3 DEF Agree
<1> QED  BY <1>1, HistoryInvariant, PTL

===============================================================================
