-------------------------- MODULE WindowOwnerProofs --------------------------
(***************************************************************************)
(* The safety of WindowOwner for any number of inputs, tabs and loads: a   *)
(* scene from before the reader's last navigation of a tab is never on     *)
(* show, inputs are applied in the order they were made, none reaches a    *)
(* document loaded after it was sent, a window that has caught up shows    *)
(* the owner's strip, the strip on show is the one TabStrip promises, and  *)
(* no strip holds a tab twice. Liveness stays with TLC.                    *)
(***************************************************************************)
EXTENDS WindowOwner, SequenceTheorems, WellFoundedInduction, NaturalsInduction, TLAPS

-----------------------------------------------------------------------------
(* Scenes. The mailbox may hold a snapshot of any age: what keeps an old   *)
(* scene away is that the window compares its serial when it reads it.     *)

PerTab == /\ scenes = [t \in TabIds |-> scenes[t]]
          /\ invalidated = [t \in TabIds |-> invalidated[t]]
SceneInv == PerTab /\ OldSceneStaysAway

LEMMA SceneInit == Init => SceneInv
  BY DEF Init, SceneInv, PerTab, OldSceneStaysAway, NoScene

(* Everything but the reader's navigation and a snapshot's arrival leaves  *)
(* the scenes and what was put away alone.                                 *)
LEMMA OthersLeaveScenes ==
  ASSUME Next, ~Navigate, ~Receive
  PROVE  UNCHANGED <<scenes, invalidated>>
<1>1. CASE Reader
  <2>1. CASE NewTab  BY <2>1 DEF NewTab, Chrome
  <2>2. ASSUME NEW id, CloseOne(id) PROVE UNCHANGED <<scenes, invalidated>>
    BY <2>2 DEF CloseOne, Chrome
  <2>3. ASSUME NEW id, SelectOne(id) PROVE UNCHANGED <<scenes, invalidated>>
    BY <2>3 DEF SelectOne, Chrome
  <2>4. ASSUME NEW id, NEW to, MoveOne(id, to) PROVE UNCHANGED <<scenes, invalidated>>
    BY <2>4 DEF MoveOne, Chrome
  <2>5. ASSUME NEW k, Event(k) PROVE UNCHANGED <<scenes, invalidated>>
    BY <2>5 DEF Event
  <2> QED  BY <1>1, <2>1, <2>2, <2>3, <2>4, <2>5 DEF Reader
<1>2. CASE Handle  BY <1>2 DEF Handle, windowVars
<1>3. ASSUME NEW i, Arrive(i) PROVE UNCHANGED <<scenes, invalidated>>
  BY <1>3 DEF Arrive, windowVars
<1>4. CASE PageNavigates  BY <1>4 DEF PageNavigates, windowVars
<1>5. CASE Publish  BY <1>5 DEF Publish, windowVars
<1>6. CASE Settled  BY <1>6 DEF Settled, vars, windowVars
<1> QED  BY <1>1, <1>2, <1>3, <1>4, <1>5, <1>6 DEF Next

LEMMA NavigatePutsAway ==
  ASSUME SceneInv, Navigate
  PROVE  SceneInv'
<1> DEFINE front == tabs[active].id
<1>1. /\ invalidated' = [invalidated EXCEPT ![front] = serial + 1]
      /\ scenes' = [scenes EXCEPT ![front] = NoScene]
  BY DEF Navigate
<1> HIDE DEF front
<1>2. PerTab'  BY <1>1 DEF SceneInv, PerTab
<1>3. ASSUME NEW t \in TabIds, scenes'[t] # NoScene
      PROVE  scenes'[t].serial >= invalidated'[t]
  <2>1. t # front /\ scenes'[t] = scenes[t] /\ invalidated'[t] = invalidated[t]
    BY <1>1, <1>3 DEF SceneInv, PerTab
  <2> QED  BY <2>1, <1>3 DEF SceneInv, OldSceneStaysAway
<1> QED  BY <1>2, <1>3 DEF SceneInv, OldSceneStaysAway

LEMMA ReceiveKeepsAway ==
  ASSUME SceneInv, Receive
  PROVE  SceneInv'
<1>1. PICK v : LET front == latest.tabs[latest.active].id
               IN  /\ scenes' = [t \in TabIds |->
                         IF ~Has(v.tabs, t) THEN NoScene
                         ELSE IF t = front /\ Current(t, latest)
                              THEN [document |-> latest.document, serial |-> latest.serial]
                              ELSE scenes[t]]
                   /\ invalidated' = [t \in TabIds |->
                         IF Has(v.tabs, t) THEN invalidated[t] ELSE 0]
  BY Zenon DEF Receive
<1>2. PerTab'  BY <1>1 DEF PerTab
<1>3. ASSUME NEW t \in TabIds, scenes'[t] # NoScene
      PROVE  scenes'[t].serial >= invalidated'[t]
  <2>1. Has(v.tabs, t) = TRUE /\ invalidated'[t] = invalidated[t]
    BY <1>1, <1>3
  <2>2. CASE Current(t, latest) /\ t = latest.tabs[latest.active].id
    <3>1. scenes'[t] = [document |-> latest.document, serial |-> latest.serial]
      BY <1>1, <2>1, <2>2
    <3> QED  BY <3>1, <2>1, <2>2 DEF Current
  <2>3. CASE ~(Current(t, latest) /\ t = latest.tabs[latest.active].id)
    <3>1. scenes'[t] = scenes[t]  BY <1>1, <2>1, <2>3
    <3> QED  BY <3>1, <2>1, <1>3 DEF SceneInv, OldSceneStaysAway
  <2> QED  BY <2>2, <2>3
<1> QED  BY <1>2, <1>3 DEF SceneInv, OldSceneStaysAway

LEMMA SceneStep == SceneInv /\ [Next]_vars => SceneInv'
<1> SUFFICES ASSUME SceneInv, [Next]_vars PROVE SceneInv'
  OBVIOUS
<1>1. CASE Navigate  BY <1>1, NavigatePutsAway
<1>2. CASE Receive  BY <1>2, ReceiveKeepsAway
<1>3. CASE UNCHANGED <<scenes, invalidated>>
  BY <1>3 DEF SceneInv, PerTab, OldSceneStaysAway
<1> QED  BY <1>1, <1>2, <1>3, OthersLeaveScenes DEF vars, windowVars

(* A tab the reader sent elsewhere never again shows a scene captured      *)
(* before the owner knew of it (WindowBrowser::receive's check against     *)
(* invalidated), for any number of inputs, tabs and snapshots in flight.   *)
THEOREM OldScenesStayAway == Spec => []OldSceneStaysAway
<1>1. SceneInv => OldSceneStaysAway  BY DEF SceneInv
<1> QED  BY <1>1, SceneInit, SceneStep, PTL DEF Spec
-----------------------------------------------------------------------------
(* The channel. A coalesced pointer move takes the place of an older one:  *)
(* that this place is the last is what keeps the numbers in order.         *)

(* Commands are numbered as they were sent, not before what the owner has  *)
(* received and not after what the window has sent; and while the pointer's *)
(* place may be taken, nothing follows it.                                  *)
Numbered(s) == \A i \in 1..Len(s) : s[i].serial \in Nat
InOrder(s) == \A i, j \in 1..Len(s) : i < j => s[i].serial <= s[j].serial
PointerLast == pointer_slot /\ commands # << >> => commands[Len(commands)].kind = "pointer"

OrderInv ==
    /\ serial \in Nat
    /\ received \in Nat
    /\ received <= serial
    /\ \E S : commands \in Seq(S)
    /\ Numbered(commands)
    /\ InOrder(commands)
    /\ \A i \in 1..Len(commands) : received <= commands[i].serial /\ commands[i].serial <= serial
    /\ PointerLast

(* Nothing has been sent. *)
LEMMA OrderInit == Init => OrderInv
  BY DEF Init, OrderInv, Numbered, InOrder, PointerLast

(* One more input at the end ... *)
LEMMA Appended ==
  ASSUME NEW S, NEW s \in Seq(S), NEW e
  PROVE  /\ Append(s, e) \in Seq(S \cup {e})
         /\ Len(Append(s, e)) = Len(s) + 1
         /\ \A i \in 1..Len(s) : Append(s, e)[i] = s[i]
         /\ Append(s, e)[Len(s) + 1] = e
<1>1. s \in Seq(S \cup {e})  OBVIOUS
<1> QED  BY <1>1

(* ... or in the last place. *)
LEMMA Replaced ==
  ASSUME NEW S, NEW s \in Seq(S), NEW e, s # << >>
  PROVE  LET r == [s EXCEPT ![Len(s)] = e]
         IN  /\ r \in Seq(S \cup {e})
             /\ Len(r) = Len(s)
             /\ \A i \in 1..(Len(s) - 1) : r[i] = s[i]
             /\ r[Len(s)] = e
<1>1. s \in Seq(S \cup {e}) /\ Len(s) \in DOMAIN s  OBVIOUS
<1> QED  BY <1>1

(* The place Post would take is the last one. *)
LEMMA LastPointer ==
  ASSUME OrderInv, pointer_slot = TRUE, Pointers # {}
  PROVE  /\ commands # << >>
         /\ (CHOOSE i \in Pointers : \A j \in Pointers : j <= i) = Len(commands)
<1> PICK S : commands \in Seq(S)  BY DEF OrderInv
<1>1. commands # << >>  BY DEF Pointers
<1>2. Len(commands) \in Pointers  BY <1>1 DEF Pointers, OrderInv, PointerLast
<1>3. \A j \in Pointers : j \in Nat /\ j <= Len(commands)  BY DEF Pointers
<1>4. \A i \in Pointers : (\A j \in Pointers : j <= i) => i = Len(commands)
  BY <1>2, <1>3
<1> DEFINE P(i) == \A j \in Pointers : j <= i
<1>5. \E i \in Pointers : P(i)  BY <1>2, <1>3
<1>6. (CHOOSE i \in Pointers : P(i)) \in Pointers /\ P(CHOOSE i \in Pointers : P(i))
  <2> HIDE DEF P
  <2> QED  BY <1>5
<1> QED  BY <1>1, <1>4, <1>6

(* What Send makes of the channel, either way.                             *)
LEMMA PostKeepsOrder ==
  ASSUME OrderInv, NEW kind, NEW e,
         e.serial = serial + 1, e.kind = kind,
         commands' = Post(e), serial' = serial + 1, received' = received,
         pointer_slot' = (SlotStaysOpen(kind) /\ (pointer_slot \/ kind = "pointer"))
  PROVE  OrderInv'
<1> PICK S : commands \in Seq(S)  BY DEF OrderInv
<1>0. serial \in Nat /\ serial + 1 \in Nat /\ Len(commands) \in Nat /\ e.serial \in Nat
  BY DEF OrderInv
<1>1. CASE e.kind = "pointer" /\ pointer_slot = TRUE /\ Pointers # {}
  <2>1. commands # << >> /\ commands' = [commands EXCEPT ![Len(commands)] = e]
    BY <1>1, LastPointer DEF Post
  <2>2. /\ commands' \in Seq(S \cup {e})
        /\ Len(commands') = Len(commands)
        /\ \A i \in 1..(Len(commands) - 1) : commands'[i] = commands[i]
        /\ commands'[Len(commands)] = e
    BY <2>1, Replaced
  <2>3. \A i \in 1..Len(commands) : i = Len(commands) \/ i \in 1..(Len(commands) - 1)
    BY <1>0
  <2>4. \A i \in 1..Len(commands) : /\ commands'[i].serial \in Nat
                                   /\ received <= commands'[i].serial
                                   /\ commands'[i].serial <= serial + 1
    BY <1>0, <2>2, <2>3 DEF OrderInv, Numbered
  <2>5. InOrder(commands')
    BY <1>0, <2>2, <2>3 DEF OrderInv, Numbered, InOrder
  <2>6. PointerLast'
    BY <2>2, <1>1 DEF PointerLast
  <2> QED  BY <1>0, <2>2, <2>4, <2>5, <2>6 DEF OrderInv, Numbered
<1>2. CASE ~(e.kind = "pointer" /\ pointer_slot = TRUE /\ Pointers # {})
  <2>1. commands' = Append(commands, e)
    BY <1>2 DEF Post
  <2>2. /\ commands' \in Seq(S \cup {e})
        /\ Len(commands') = Len(commands) + 1
        /\ \A i \in 1..Len(commands) : commands'[i] = commands[i]
        /\ commands'[Len(commands) + 1] = e
    BY <2>1, Appended
  <2>3. \A i \in 1..(Len(commands) + 1) : i = Len(commands) + 1 \/ i \in 1..Len(commands)
    BY <1>0
  <2>4. \A i \in 1..(Len(commands) + 1) : /\ commands'[i].serial \in Nat
                                         /\ received <= commands'[i].serial
                                         /\ commands'[i].serial <= serial + 1
    BY <1>0, <2>2, <2>3 DEF OrderInv, Numbered
  <2>5. InOrder(commands')
    BY <1>0, <2>2, <2>3 DEF OrderInv, Numbered, InOrder
  <2>6. pointer_slot' => e.kind = "pointer"
    BY DEF SlotStaysOpen
  <2>7. PointerLast'
    BY <2>2, <2>6 DEF PointerLast
  <2> QED  BY <1>0, <2>2, <2>4, <2>5, <2>7 DEF OrderInv, Numbered
<1> QED  BY <1>1, <1>2

(* Every input of the reader is one Send, whatever it does to the strip.   *)
LEMMA SendKeepsOrder ==
  ASSUME OrderInv, NEW kind, NEW intent, NEW v, Send(kind, intent, v)
  PROVE  OrderInv' /\ received' = received
<1> DEFINE input == [serial |-> serial + 1, tab |-> v.tabs[v.active].id, kind |-> kind,
                     context |-> IF kind \in PageEvents
                                 THEN v.tabs[v.active].navigation ELSE 0,
                     intent |-> intent, seen |-> scenes[v.tabs[v.active].id].document,
                     upto |-> next_navigation]
<1> PICK e : e = input  OBVIOUS
<1>1. commands' = Post(e)  BY DEF Send
<1>2. e.serial = serial + 1 /\ e.kind = kind  OBVIOUS
<1> HIDE DEF input
<1>3. serial' = serial + 1 /\ received' = received
  BY DEF Send, ownerVars
<1>4. pointer_slot' = (SlotStaysOpen(kind) /\ (pointer_slot \/ kind = "pointer"))
  BY DEF Send
<1> QED  BY <1>1, <1>2, <1>3, <1>4, PostKeepsOrder

(* The owner takes the oldest.                                             *)
LEMMA HandleKeepsOrder ==
  ASSUME OrderInv, Handle
  PROVE  OrderInv' /\ received' >= received
<1> PICK S : commands \in Seq(S)  BY DEF OrderInv
<1>1. /\ commands # << >> /\ commands' = Tail(commands)
      /\ received' = Head(commands).serial
      /\ serial' = serial /\ pointer_slot' = pointer_slot
  BY DEF Handle, windowVars
<1>2. /\ Len(commands) \in Nat /\ Len(commands) > 0 /\ Head(commands) = commands[1]
      /\ commands' \in Seq(S) /\ Len(commands') = Len(commands) - 1
      /\ \A i \in 1..(Len(commands) - 1) : commands'[i] = commands[i + 1]
  BY <1>1
<1>3. \A i \in 1..(Len(commands) - 1) : i + 1 \in 1..Len(commands) /\ 1 < i + 1
  BY <1>2
<1>4. 1 \in 1..Len(commands)  BY <1>2
<1>5. received' \in Nat /\ received <= received' /\ received' <= serial
  BY <1>1, <1>2, <1>4 DEF OrderInv, Numbered
<1>6. \A i \in 1..Len(commands') : /\ commands'[i].serial \in Nat
                                  /\ received' <= commands'[i].serial
                                  /\ commands'[i].serial <= serial
  BY <1>1, <1>2, <1>3, <1>4 DEF OrderInv, Numbered, InOrder
<1>7. InOrder(commands')
  <2> SUFFICES ASSUME NEW i \in 1..Len(commands'), NEW j \in 1..Len(commands'), i < j
               PROVE  commands'[i].serial <= commands'[j].serial
    BY DEF InOrder
  <2>1. i + 1 \in 1..Len(commands) /\ j + 1 \in 1..Len(commands) /\ i + 1 < j + 1
    BY <1>2
  <2> QED  BY <1>2, <2>1 DEF OrderInv, InOrder
<1>8. PointerLast'
  <2>1. CASE commands' = << >>  BY <2>1 DEF PointerLast
  <2>2. CASE commands' # << >>
    <3>1. /\ Len(commands') \in 1..(Len(commands) - 1)
          /\ commands'[Len(commands')] = commands[Len(commands)]
      BY <1>2, <2>2
    <3> QED  BY <1>1, <3>1 DEF OrderInv, PointerLast
  <2> QED  BY <2>1, <2>2
<1> QED  BY <1>1, <1>2, <1>5, <1>6, <1>7, <1>8 DEF OrderInv, Numbered

LEMMA ReaderSends ==
  ASSUME Reader
  PROVE  \E kind, intent, v : Send(kind, intent, v)
<1>1. CASE NewTab  BY <1>1 DEF NewTab, Chrome
<1>2. CASE Navigate  BY <1>2 DEF Navigate
<1>3. ASSUME NEW id, CloseOne(id) PROVE \E kind, intent, v : Send(kind, intent, v)
  BY <1>3 DEF CloseOne, Chrome
<1>4. ASSUME NEW id, SelectOne(id) PROVE \E kind, intent, v : Send(kind, intent, v)
  BY <1>4 DEF SelectOne, Chrome
<1>5. ASSUME NEW id, NEW to, MoveOne(id, to) PROVE \E kind, intent, v : Send(kind, intent, v)
  BY <1>5 DEF MoveOne, Chrome
<1>6. ASSUME NEW k, Event(k) PROVE \E kind, intent, v : Send(kind, intent, v)
  BY <1>6 DEF Event
<1> QED  BY <1>1, <1>2, <1>3, <1>4, <1>5, <1>6 DEF Reader

LEMMA OthersLeaveTheChannel ==
  ASSUME Next, ~Reader, ~Handle
  PROVE  UNCHANGED <<serial, received, commands, pointer_slot>>
<1>1. CASE Receive  BY <1>1 DEF Receive, ownerVars
<1>2. ASSUME NEW i, Arrive(i) PROVE UNCHANGED <<serial, received, commands, pointer_slot>>
  BY <1>2 DEF Arrive, windowVars
<1>3. CASE PageNavigates  BY <1>3 DEF PageNavigates, windowVars
<1>4. CASE Publish  BY <1>4 DEF Publish, windowVars
<1>5. CASE Settled  BY <1>5 DEF Settled, vars, windowVars, ownerVars
<1> QED  BY <1>1, <1>2, <1>3, <1>4, <1>5 DEF Next

LEMMA OrderStep ==
  ASSUME OrderInv, [Next]_vars
  PROVE  OrderInv' /\ [received' >= received]_vars
<1>1. CASE Reader  BY <1>1, ReaderSends, SendKeepsOrder DEF OrderInv
<1>2. CASE Handle  BY <1>2, HandleKeepsOrder
<1>3. CASE UNCHANGED <<serial, received, commands, pointer_slot>>
  BY <1>3 DEF OrderInv, Numbered, InOrder, PointerLast
<1> QED  BY <1>1, <1>2, <1>3, OthersLeaveTheChannel DEF vars, windowVars, ownerVars

(* The owner hears of inputs in the order the reader made them, although   *)
(* pointer moves take an older one's place in the channel                  *)
(* (WindowBrowser::send), for any number of inputs.                        *)
THEOREM InputsKeepOrder == Spec => InputsInOrder
<1>1. Init => OrderInv  BY OrderInit
<1>2. OrderInv /\ [Next]_vars => OrderInv' /\ [received' >= received]_vars
  BY OrderStep
<1> QED  BY <1>1, <1>2, PTL DEF Spec, InputsInOrder
-----------------------------------------------------------------------------
(* Lists: the helpers the strip is rearranged with.                        *)

LEMMA RemovedAt ==
  ASSUME NEW S, NEW s \in Seq(S), NEW i \in 1..Len(s)
  PROVE  LET r == RemoveAt(s, i)
         IN  /\ r \in Seq(S) /\ Len(r) = Len(s) - 1
             /\ \A j \in 1..(i - 1) : r[j] = s[j]
             /\ \A j \in i..(Len(s) - 1) : r[j] = s[j + 1]
<1> DEFINE a == SubSeq(s, 1, i - 1)
           b == SubSeq(s, i + 1, Len(s))
<1>0. Len(s) \in Nat /\ i \in Nat /\ i >= 1 /\ i <= Len(s)  OBVIOUS
<1>1. /\ a \in Seq(S) /\ Len(a) = i - 1
      /\ \A j \in 1..(i - 1) : a[j] = s[j]
  <2>1. \A k \in 1..(i - 1) : s[k] \in S  BY <1>0
  <2> QED  BY <1>0, <2>1, SubSeqProperties
<1>2. /\ b \in Seq(S) /\ Len(b) = Len(s) - i
      /\ \A j \in 1..(Len(s) - i) : b[j] = s[i + j]
  <2>1. \A k \in (i + 1)..Len(s) : s[k] \in S  BY <1>0
  <2>2. i + 1 \in Int /\ Len(s) \in Int  BY <1>0
  <2>3. /\ b \in Seq(S)
        /\ Len(b) = IF i + 1 <= Len(s) THEN Len(s) - (i + 1) + 1 ELSE 0
        /\ \A j \in 1..(Len(s) - (i + 1) + 1) : b[j] = s[i + 1 + j - 1]
    BY <2>1, <2>2, SubSeqProperties
  <2> QED  BY <1>0, <2>3
<1> HIDE DEF a, b
<1>3. RemoveAt(s, i) = a \o b  BY DEF RemoveAt, a, b
<1>4. /\ a \o b \in Seq(S) /\ Len(a \o b) = Len(a) + Len(b)
      /\ \A j \in 1..(Len(a) + Len(b)) :
            (a \o b)[j] = IF j <= Len(a) THEN a[j] ELSE b[j - Len(a)]
  BY <1>1, <1>2, ConcatProperties
<1>5. ASSUME NEW j \in 1..(i - 1) PROVE (a \o b)[j] = s[j]
  BY <1>0, <1>1, <1>2, <1>4
<1>6. ASSUME NEW j \in i..(Len(s) - 1) PROVE (a \o b)[j] = s[j + 1]
  <2>1. j \in 1..(Len(a) + Len(b)) /\ ~(j <= Len(a)) /\ j - Len(a) = j - i + 1
    BY <1>0, <1>1, <1>2
  <2>2. j - i + 1 \in 1..(Len(s) - i) /\ i + (j - i + 1) = j + 1  BY <1>0
  <2> QED  BY <1>2, <1>4, <2>1, <2>2
<1>7. Len(a) + Len(b) = Len(s) - 1  BY <1>0, <1>1, <1>2
<1> QED  BY <1>3, <1>4, <1>5, <1>6, <1>7

LEMMA InsertedAt ==
  ASSUME NEW S, NEW s \in Seq(S), NEW i \in 1..(Len(s) + 1), NEW e \in S
  PROVE  LET r == InsertAt(s, i, e)
         IN  /\ r \in Seq(S) /\ Len(r) = Len(s) + 1 /\ r[i] = e
             /\ \A j \in 1..(i - 1) : r[j] = s[j]
             /\ \A j \in i..Len(s) : r[j + 1] = s[j]
<1> DEFINE a == SubSeq(s, 1, i - 1)
           b == SubSeq(s, i, Len(s))
<1>0. Len(s) \in Nat /\ i \in Nat /\ i >= 1 /\ i <= Len(s) + 1  OBVIOUS
<1>1. /\ a \in Seq(S) /\ Len(a) = i - 1
      /\ \A j \in 1..(i - 1) : a[j] = s[j]
  <2>1. \A k \in 1..(i - 1) : s[k] \in S  BY <1>0
  <2> QED  BY <1>0, <2>1, SubSeqProperties
<1>2. /\ b \in Seq(S) /\ Len(b) = Len(s) - i + 1
      /\ \A j \in 1..(Len(s) - i + 1) : b[j] = s[i + j - 1]
  <2>1. \A k \in i..Len(s) : s[k] \in S  BY <1>0
  <2>2. i \in Int /\ Len(s) \in Int  BY <1>0
  <2>3. /\ b \in Seq(S)
        /\ Len(b) = IF i <= Len(s) THEN Len(s) - i + 1 ELSE 0
        /\ \A j \in 1..(Len(s) - i + 1) : b[j] = s[i + j - 1]
    BY <2>1, <2>2, SubSeqProperties
  <2> QED  BY <1>0, <2>3
<1> HIDE DEF a, b
<1>3. InsertAt(s, i, e) = (a \o <<e>>) \o b  BY DEF InsertAt, a, b
<1>4. /\ a \o <<e>> \in Seq(S) /\ Len(a \o <<e>>) = i
      /\ (a \o <<e>>)[i] = e
      /\ \A j \in 1..(i - 1) : (a \o <<e>>)[j] = s[j]
  BY <1>0, <1>1
<1> DEFINE c == a \o <<e>>
<1> HIDE DEF c
<1>5. c \in Seq(S) /\ Len(c) = i /\ c[i] = e /\ \A j \in 1..(i - 1) : c[j] = s[j]
  BY <1>4 DEF c
<1>6. InsertAt(s, i, e) = c \o b  BY <1>3 DEF c
<1>7. /\ c \o b \in Seq(S) /\ Len(c \o b) = Len(c) + Len(b)
      /\ \A j \in 1..(Len(c) + Len(b)) :
            (c \o b)[j] = IF j <= Len(c) THEN c[j] ELSE b[j - Len(c)]
  BY <1>2, <1>5, ConcatProperties
<1>8. Len(c) + Len(b) = Len(s) + 1  BY <1>0, <1>2, <1>5
<1>9. ASSUME NEW j \in 1..i PROVE (c \o b)[j] = c[j]
  BY <1>0, <1>5, <1>7, <1>8
<1>10. ASSUME NEW j \in i..Len(s) PROVE (c \o b)[j + 1] = s[j]
  <2>1. j + 1 \in 1..(Len(c) + Len(b)) /\ ~(j + 1 <= Len(c)) /\ j + 1 - Len(c) = j - i + 1
    BY <1>0, <1>5, <1>8
  <2>2. j - i + 1 \in 1..(Len(s) - i + 1) /\ i + (j - i + 1) - 1 = j  BY <1>0
  <2> QED  BY <1>2, <1>7, <2>1, <2>2
<1>11. i \in 1..i /\ \A j \in 1..(i - 1) : j \in 1..i  BY <1>0
<1> QED  BY <1>5, <1>6, <1>7, <1>8, <1>9, <1>10, <1>11

(* A tab moved to another place: nothing is lost.                          *)
LEMMA Moved ==
  ASSUME NEW S, NEW s \in Seq(S), NEW i \in 1..Len(s), NEW at \in 1..Len(s)
  PROVE  LET r == InsertAt(RemoveAt(s, i), at, s[i])
         IN  r \in Seq(S) /\ \A k \in 1..Len(s) : \E j \in DOMAIN r : r[j] = s[k]
<1> DEFINE q == RemoveAt(s, i)
           r == InsertAt(q, at, s[i])
<1>0. Len(s) \in Nat /\ i \in Nat /\ at \in Nat /\ s[i] \in S  OBVIOUS
<1>1. /\ q \in Seq(S) /\ Len(q) = Len(s) - 1
      /\ \A j \in 1..(i - 1) : q[j] = s[j]
      /\ \A j \in i..(Len(s) - 1) : q[j] = s[j + 1]
  BY RemovedAt
<1> HIDE DEF q
<1>2. at \in 1..(Len(q) + 1)  BY <1>0, <1>1
<1>3. /\ r \in Seq(S) /\ Len(r) = Len(q) + 1 /\ r[at] = s[i]
      /\ \A j \in 1..(at - 1) : r[j] = q[j]
      /\ \A j \in at..Len(q) : r[j + 1] = q[j]
  <2>1. q \in Seq(S) /\ s[i] \in S  BY <1>0, <1>1
  <2> QED  BY <2>1, <1>2, InsertedAt, SMTT(60)
<1> HIDE DEF r
<1>4. DOMAIN r = 1..Len(s)  BY <1>0, <1>1, <1>3
<1>5. \A j \in 1..(Len(s) - 1) : \E m \in 1..Len(s) : r[m] = q[j]
  <2> TAKE j \in 1..(Len(s) - 1)
  <2>1. CASE j < at
    <3>1. j \in 1..(at - 1) /\ j \in 1..Len(s)  BY <1>0, <2>1
    <3> QED  BY <1>3, <3>1
  <2>2. CASE j >= at
    <3>1. j \in at..Len(q) /\ j + 1 \in 1..Len(s)  BY <1>0, <1>1, <2>2
    <3> QED  BY <1>3, <3>1
  <2> QED  BY <1>0, <2>1, <2>2
<1>6. ASSUME NEW k \in 1..Len(s) PROVE \E j \in DOMAIN r : r[j] = s[k]
  <2>1. CASE k = i  BY <1>0, <1>3, <1>4, <2>1
  <2>2. CASE k < i
    <3>1. k \in 1..(i - 1) /\ k \in 1..(Len(s) - 1)  BY <1>0, <2>2
    <3> QED  BY <1>1, <1>4, <1>5, <3>1
  <2>3. CASE k > i
    <3>1. k - 1 \in i..(Len(s) - 1) /\ k - 1 \in 1..(Len(s) - 1) /\ (k - 1) + 1 = k
      BY <1>0, <2>3
    <3> QED  BY <1>1, <1>4, <1>5, <3>1
  <2> QED  BY <1>0, <2>1, <2>2, <2>3
<1> QED  BY <1>3, <1>6 DEF q, r

(* A list searched for an identity it holds. *)
LEMMA Found ==
  ASSUME NEW s, NEW id, Has(s, id)
  PROVE  IndexOf(s, id) \in DOMAIN s /\ s[IndexOf(s, id)].id = id
  BY Zenon DEF Has, IndexOf
-----------------------------------------------------------------------------
(* Lists gone through from the first place to the last.                    *)

(* What holds at the start and is carried from each place to the next      *)
(* holds at every place.                                                   *)
LEMMA CarriedThrough ==
  ASSUME NEW n \in Nat, NEW X, NEW h, h[0] \in X,
         \A i \in 1..n : h[i - 1] \in X => h[i] \in X
  PROVE  \A i \in 0..n : h[i] \in X
<1> DEFINE Bad == {i \in 0..n : h[i] \notin X}
<1>1. CASE Bad = {}  BY <1>1
<1>2. CASE Bad # {}
  <2>1. Bad \subseteq Nat  OBVIOUS
  <2>2. PICK m \in Bad : \A j \in Bad : ~(<<j, m>> \in OpToRel(<, Nat))
    <3> HIDE DEF Bad
    <3> QED  BY <1>2, <2>1, NatLessThanWellFounded, WFMin, Zenon
  <2>3. m \in Nat /\ m \in 1..n /\ m - 1 \in 0..n /\ m - 1 \in Nat /\ m - 1 < m  OBVIOUS
  <2>4. m - 1 \notin Bad
    <3>1. <<m - 1, m>> \in OpToRel(<, Nat)  BY <2>3 DEF OpToRel
    <3> QED  BY <2>2, <3>1
  <2> QED  BY <2>3, <2>4
<1> QED  BY <1>1, <1>2

(* The function that takes a start through n steps exists.                 *)
Runs(g, n, X, base, step) ==
    g \in [0..n -> X] /\ g[0] = base /\ \A i \in 1..n : g[i] = step[i][g[i - 1]]

LEMMA Stepwise ==
  ASSUME NEW n \in Nat, NEW X, NEW base \in X, NEW step \in [1..n -> [X -> X]]
  PROVE  \E g : Runs(g, n, X, base, step)
<1> DEFINE Solves(g, k) == /\ g \in [0..k -> X]
                           /\ g = [i \in 0..k |-> IF i = 0 THEN base ELSE step[i][g[i - 1]]]
           h == [k \in 0..n |-> IF \E g : Solves(g, k) THEN 1 ELSE 0]
<1>1. h[0] \in {1}
  <2> DEFINE g == [i \in 0..0 |-> base]
  <2>1. g \in [0..0 -> X]  OBVIOUS
  <2>2. g = [i \in 0..0 |-> IF i = 0 THEN base ELSE step[i][g[i - 1]]]
    <3>1. \A i \in 0..0 : i = 0  OBVIOUS
    <3> QED  BY <3>1
  <2>3. Solves(g, 0) /\ 0 \in 0..n  BY <2>1, <2>2
  <2> HIDE DEF Solves, g
  <2> QED  BY <2>3
<1>2. ASSUME NEW k \in 1..n, h[k - 1] \in {1} PROVE h[k] \in {1}
  <2>0. k \in Nat /\ k - 1 \in 0..n /\ k \in 0..n  OBVIOUS
  <2>1. PICK g : Solves(g, k - 1)  BY <1>2, <2>0
  <2> DEFINE f == [i \in 0..k |-> IF i = k THEN step[k][g[k - 1]] ELSE g[i]]
  <2>2. g[k - 1] \in X /\ step[k][g[k - 1]] \in X  BY <2>0, <2>1
  <2>3. f \in [0..k -> X]
    <3>1. \A i \in 0..k : i # k => i \in 0..(k - 1)  BY <2>0
    <3> QED  BY <2>1, <2>2, <3>1
  <2>4. ASSUME NEW i \in 0..k
        PROVE  f[i] = IF i = 0 THEN base ELSE step[i][f[i - 1]]
    <3>1. CASE i = k
      <4>1. k - 1 \in 0..k /\ k - 1 # k /\ i # 0  BY <2>0, <3>1
      <4>2. f[i - 1] = g[k - 1]  BY <3>1, <4>1
      <4> QED  BY <3>1, <4>1, <4>2
    <3>2. CASE i # k
      <4>1. i \in 0..(k - 1) /\ f[i] = g[i]  BY <2>0, <3>2
      <4>2. CASE i = 0  BY <2>1, <4>1, <4>2
      <4>3. CASE i # 0
        <5>1. i - 1 \in 0..k /\ i - 1 # k  BY <2>0, <4>1, <4>3
        <5>2. f[i - 1] = g[i - 1]  BY <5>1
        <5> QED  BY <2>1, <4>1, <4>3, <5>2
      <4> QED  BY <4>2, <4>3
    <3> QED  BY <3>1, <3>2
  <2>5. f = [i \in 0..k |-> IF i = 0 THEN base ELSE step[i][f[i - 1]]]
    <3> HIDE DEF f
    <3> SUFFICES f = [i \in 0..k |-> f[i]]  BY <2>4
    <3> QED  BY <2>3
  <2>6. Solves(f, k)  BY <2>3, <2>5
  <2> HIDE DEF Solves
  <2> QED  BY <2>0, <2>6
<1>3. \A k \in 0..n : h[k] \in {1}
  <2>1. \A i \in 1..n : h[i - 1] \in {1} => h[i] \in {1}  BY <1>2
  <2> HIDE DEF h
  <2>2. n \in Nat  OBVIOUS
  <2>3. \A i \in 0..n : h[i] \in {1}  
    <3>1. PICK Y : Y = {1}  OBVIOUS
    <3>2. h[0] \in Y /\ \A i \in 1..n : h[i - 1] \in Y => h[i] \in Y  BY <1>1, <2>1, <3>1
    <3>3. \A i \in 0..n : h[i] \in Y  BY <3>2, <2>2, CarriedThrough
    <3> QED  BY <3>3, <3>1
  <2> QED  BY <2>3
<1>4. \E g : Solves(g, n)
  <2>1. n \in 0..n  OBVIOUS
  <2> HIDE DEF Solves
  <2> QED  BY <1>3, <2>1
<1>5. PICK g : Solves(g, n)  BY <1>4
<1>6. g[0] = base  BY <1>5
<1>7. \A i \in 1..n : g[i] = step[i][g[i - 1]]
  <2>1. \A i \in 1..n : i \in 0..n /\ i # 0  OBVIOUS
  <2> QED  BY <1>5, <2>1
<1> QED  BY <1>5, <1>6, <1>7 DEF Runs

-----------------------------------------------------------------------------
(* The strip and what is in flight, with every navigation among the first  *)
(* n that were named.                                                      *)
Below(n) == {k \in Nat : k < n}
WindowTabs(n) == [id : Nat, navigation : Below(n)]
Views(n) == {v \in [tabs : Seq(WindowTabs(n)), active : Nat] :
                v.tabs # << >> => v.active \in DOMAIN v.tabs}
Ops == {"open", "close", "select", "move", "none"}
Intents == {x \in [op : Ops, id : Nat, with : Nat, to : Nat] : x.op = "move" => x.to # 0}
Waiting == [serial : Nat, intent : Intents]

LEMMA CappedIn ==
  ASSUME NEW i \in Nat, NEW n \in Nat, i # 0, n # 0
  PROVE  Capped(i, n) \in 1..n
  BY DEF Capped

LEMMA BlankInView ==
  ASSUME NEW n \in Nat \ {0}, NEW id \in Nat
  PROVE  FromTab(Blank(id)) \in WindowTabs(n)
  BY DEF FromTab, Blank, WindowTabs, Below

LEMMA OpenKeepsView ==
  ASSUME NEW n \in Nat \ {0}, NEW v \in Views(n), NEW x \in Intents, x.op = "open"
  PROVE  Project(v, x) \in Views(n)
<1> DEFINE b == FromTab(Blank(x.id))
<1>1. b \in WindowTabs(n)  BY BlankInView DEF Intents
<1>2. Project(v, x) = [tabs |-> Append(v.tabs, b), active |-> Len(v.tabs) + 1]
  BY DEF Project
<1>3. v.tabs \in Seq(WindowTabs(n))  BY DEF Views
<1> HIDE DEF b
<1>4. /\ Append(v.tabs, b) \in Seq(WindowTabs(n))
      /\ Len(v.tabs) + 1 \in DOMAIN Append(v.tabs, b)
      /\ Len(v.tabs) + 1 \in Nat
  BY <1>1, <1>3
<1> QED  BY <1>2, <1>4 DEF Views

LEMMA FrontStays ==
  ASSUME NEW S, NEW rest \in Seq(S), NEW v, v.active \in Nat, v.active # 0, NEW i \in Nat, i # 0
  PROVE  /\ FrontAfterClose(v, i, rest) \in Nat
         /\ rest # << >> => FrontAfterClose(v, i, rest) \in DOMAIN rest
<1>1. UpperEnd(rest) \in Nat /\ UpperEnd(rest) # 0
      /\ (rest # << >> => UpperEnd(rest) = Len(rest))
  BY DEF UpperEnd
<1>2. (IF i < v.active THEN v.active - 1 ELSE v.active) \in Nat \ {0}
  OBVIOUS
<1>3. FrontAfterClose(v, i, rest) \in 1..UpperEnd(rest)
  BY <1>1, <1>2, CappedIn DEF FrontAfterClose
<1> QED  BY <1>1, <1>3

LEMMA CloseKeepsView ==
  ASSUME NEW n \in Nat \ {0}, NEW v \in Views(n), NEW x \in Intents,
         x.op = "close", Has(v.tabs, x.id)
  PROVE  Project(v, x) \in Views(n)
<1> DEFINE i == IndexOf(v.tabs, x.id)
           rest == RemoveAt(v.tabs, i)
           all == IF x.with = None THEN rest ELSE Append(rest, FromTab(Blank(x.with)))
<1>1. Project(v, x) = [tabs |-> all, active |-> FrontAfterClose(v, i, all)]
  BY DEF Project
<1>2. v.tabs \in Seq(WindowTabs(n)) /\ v.active \in Nat  BY DEF Views
<1>3. i \in 1..Len(v.tabs)  BY Found, <1>2
<1>4. v.active \in DOMAIN v.tabs  BY <1>2, <1>3 DEF Views
<1>5. rest \in Seq(WindowTabs(n))  BY <1>2, <1>3, RemovedAt
<1>6. FromTab(Blank(x.with)) \in WindowTabs(n)  BY BlankInView DEF Intents
<1>7. all \in Seq(WindowTabs(n))
  <2> HIDE DEF rest
  <2> QED  BY <1>5, <1>6
<1>8. v.active # 0 /\ i \in Nat /\ i # 0  BY <1>2, <1>3, <1>4
<1> HIDE DEF i, rest, all
<1>9. /\ FrontAfterClose(v, i, all) \in Nat
      /\ all # << >> => FrontAfterClose(v, i, all) \in DOMAIN all
  BY <1>2, <1>7, <1>8, FrontStays
<1> QED  BY <1>1, <1>7, <1>9 DEF Views

LEMMA SelectKeepsView ==
  ASSUME NEW n \in Nat \ {0}, NEW v \in Views(n), NEW x \in Intents,
         x.op = "select", Has(v.tabs, x.id)
  PROVE  Project(v, x) \in Views(n)
<1>1. Project(v, x) = [v EXCEPT !.active = IndexOf(v.tabs, x.id)]
  BY DEF Project
<1>2. IndexOf(v.tabs, x.id) \in DOMAIN v.tabs  BY Found
<1>3. IndexOf(v.tabs, x.id) \in Nat  BY <1>2 DEF Views
<1> QED  BY <1>1, <1>2, <1>3 DEF Views

LEMMA MoveKeepsView ==
  ASSUME NEW n \in Nat \ {0}, NEW v \in Views(n), NEW x \in Intents,
         x.op = "move", Has(v.tabs, x.id)
  PROVE  Project(v, x) \in Views(n)
<1> DEFINE i == IndexOf(v.tabs, x.id)
           at == Capped(x.to, Len(v.tabs))
           moved == InsertAt(RemoveAt(v.tabs, i), at, v.tabs[i])
           front == v.tabs[v.active].id
<1>1. Project(v, x) = [tabs |-> moved, active |-> IndexOf(moved, front)]
  BY DEF Project
<1>2. v.tabs \in Seq(WindowTabs(n)) /\ v.active \in Nat  BY DEF Views
<1>3. i \in 1..Len(v.tabs)  BY Found, <1>2
<1>4. v.active \in 1..Len(v.tabs)  BY <1>2, <1>3 DEF Views
<1>5. at \in 1..Len(v.tabs)
  <2>1. x.to \in Nat /\ x.to # 0 /\ Len(v.tabs) \in Nat /\ Len(v.tabs) # 0
    BY <1>2, <1>3 DEF Intents
  <2> QED  BY <2>1, CappedIn
<1> HIDE DEF i, at
<1>6. /\ moved \in Seq(WindowTabs(n))
      /\ \A k \in 1..Len(v.tabs) : \E j \in DOMAIN moved : moved[j] = v.tabs[k]
  BY <1>2, <1>3, <1>5, Moved
<1> HIDE DEF moved
<1>7. Has(moved, front)  BY <1>4, <1>6 DEF Has
<1>8. IndexOf(moved, front) \in DOMAIN moved  BY <1>7, Found
<1>9. IndexOf(moved, front) \in Nat  BY <1>6, <1>8
<1> QED  BY <1>1, <1>6, <1>8, <1>9 DEF Views

LEMMA ProjectKeepsView ==
  ASSUME NEW n \in Nat \ {0}, NEW v \in Views(n), NEW x \in Intents
  PROVE  Project(v, x) \in Views(n)
<1>1. CASE x.op = "open"  BY <1>1, OpenKeepsView
<1>2. CASE x.op = "close" /\ Has(v.tabs, x.id)  BY <1>2, CloseKeepsView
<1>3. CASE x.op = "select" /\ Has(v.tabs, x.id)  BY <1>3, SelectKeepsView
<1>4. CASE x.op = "move" /\ Has(v.tabs, x.id)  BY <1>4, MoveKeepsView
<1>5. CASE /\ x.op # "open"
           /\ ~(x.op = "close" /\ Has(v.tabs, x.id))
           /\ ~(x.op = "select" /\ Has(v.tabs, x.id))
           /\ ~(x.op = "move" /\ Has(v.tabs, x.id))
  <2>1. Project(v, x) = v  BY <1>5 DEF Project
  <2> QED  BY <2>1
<1> QED  BY <1>1, <1>2, <1>3, <1>4, <1>5

(* What is kept of the pending list, after each of its entries. *)
KeepsLater(kept, n) ==
    /\ kept[0] = << >>
    /\ \A i \in 1..Len(pending) :
          kept[i] = IF pending[i].serial > n THEN Append(kept[i - 1], pending[i]) ELSE kept[i - 1]
    /\ Unacknowledged(n) = kept[Len(pending)]

LEMMA KeptUnfolds ==
  ASSUME NEW S, pending \in Seq(S), NEW n
  PROVE  \E kept : KeepsLater(kept, n)
<1> DEFINE T == {w \in S : w.serial > n}
           m == Len(pending)
           step == [i \in 1..m |-> [k \in Seq(T) |->
                      IF pending[i].serial > n THEN Append(k, pending[i]) ELSE k]]
           kept == CHOOSE f : f = [i \in 0..m |->
                      IF i = 0 THEN << >>
                      ELSE IF pending[i].serial > n THEN Append(f[i - 1], pending[i])
                           ELSE f[i - 1]]
<1>1. m \in Nat /\ \A i \in 1..m : pending[i] \in S  OBVIOUS
<1>2. step \in [1..m -> [Seq(T) -> Seq(T)]]  BY <1>1
<1>3. << >> \in Seq(T)  OBVIOUS
<1>4. PICK g : Runs(g, m, Seq(T), << >>, step)
  <2> HIDE DEF step, m, T
  <2> QED  BY <1>1, <1>2, <1>3, Stepwise
<1>5. g = [i \in 0..m |-> IF i = 0 THEN << >>
                          ELSE IF pending[i].serial > n THEN Append(g[i - 1], pending[i])
                               ELSE g[i - 1]]
  <2>1. ASSUME NEW i \in 0..m, i # 0
        PROVE  g[i] = IF pending[i].serial > n THEN Append(g[i - 1], pending[i])
                      ELSE g[i - 1]
    <3>1. i \in 1..m /\ i - 1 \in 0..m  BY <1>1, <2>1
    <3>2. g[i - 1] \in Seq(T) /\ g[i] = step[i][g[i - 1]]  BY <1>4, <3>1 DEF Runs
    <3> QED  BY <3>1, <3>2
  <2>2. ASSUME NEW i \in 0..m, i = 0 PROVE g[i] = << >>  BY <1>4, <2>2 DEF Runs
  <2>3. g = [i \in 0..m |-> g[i]]  BY <1>4 DEF Runs
  <2> HIDE DEF step, m, T
  <2> QED  BY <2>1, <2>2, <2>3
<1>6. kept = [i \in 0..m |-> IF i = 0 THEN << >>
                             ELSE IF pending[i].serial > n THEN Append(kept[i - 1], pending[i])
                                  ELSE kept[i - 1]]
  <2> HIDE DEF m, T
  <2> QED  BY <1>5, Zenon
<1>7. Unacknowledged(n) = kept[m]
  BY DEF Unacknowledged
<1> HIDE DEF kept
<1>8. kept[0] = << >>  BY <1>1, <1>6
<1>9. ASSUME NEW i \in 1..m
      PROVE  kept[i] = IF pending[i].serial > n THEN Append(kept[i - 1], pending[i])
                       ELSE kept[i - 1]
  <2>1. i \in 0..m /\ i # 0  BY <1>1
  <2> QED  BY <1>6, <2>1
<1>10. KeepsLater(kept, n)  BY <1>7, <1>8, <1>9 DEF KeepsLater
<1> QED  BY <1>10

LEMMA KeptAreLater ==
  ASSUME NEW S, pending \in Seq(S), NEW n
  PROVE  Unacknowledged(n) \in Seq({w \in S : w.serial > n})
<1> DEFINE T == {w \in S : w.serial > n}
           m == Len(pending)
<1>1. m \in Nat /\ \A i \in 1..m : pending[i] \in S  OBVIOUS
<1>2. PICK kept : KeepsLater(kept, n)  BY KeptUnfolds
<1>3. /\ kept[0] = << >> /\ Unacknowledged(n) = kept[m]
      /\ \A i \in 1..m : kept[i] = IF pending[i].serial > n THEN Append(kept[i - 1], pending[i])
                                   ELSE kept[i - 1]
  BY <1>2 DEF KeepsLater
<1>8. kept[0] \in Seq(T)  BY <1>3
<1>9. ASSUME NEW i \in 1..m, kept[i - 1] \in Seq(T) PROVE kept[i] \in Seq(T)
  <2>2. kept[i] = IF pending[i].serial > n THEN Append(kept[i - 1], pending[i])
                  ELSE kept[i - 1]
    BY <1>3
  <2>3. pending[i].serial > n => pending[i] \in T  BY <1>1
  <2> HIDE DEF T
  <2> QED  BY <1>9, <2>2, <2>3
<1>10. \A i \in 0..m : kept[i] \in Seq(T)
  <2> HIDE DEF T, m
  <2>1. PICK Y : Y = Seq(T)  OBVIOUS
  <2>2. m \in Nat /\ kept[0] \in Y /\ \A i \in 1..m : kept[i - 1] \in Y => kept[i] \in Y
    BY <1>1, <1>8, <1>9, <2>1
  <2> QED  BY <2>1, <2>2, CarriedThrough
<1> QED  BY <1>1, <1>3, <1>10

(* The snapshot's strip with what waits applied again is a strip, and is   *)
(* the snapshot's own when nothing waits.                                  *)
AppliesAgain(after, s, waiting) ==
    /\ after[0] = [tabs |-> s.tabs, active |-> s.active]
    /\ \A i \in 1..Len(waiting) : after[i] = Project(after[i - 1], waiting[i].intent)
    /\ Reproject(s, waiting) = after[Len(waiting)]

LEMMA ReprojectUnfolds ==
  ASSUME NEW n \in Nat \ {0}, NEW s, [tabs |-> s.tabs, active |-> s.active] \in Views(n),
         NEW waiting \in Seq(Waiting)
  PROVE  \E after : /\ AppliesAgain(after, s, waiting)
                    /\ \A i \in 0..Len(waiting) : after[i] \in Views(n)
<1> DEFINE base == [tabs |-> s.tabs, active |-> s.active]
           X == Views(n)
           m == Len(waiting)
           step == [i \in 1..m |-> [v \in X |-> Project(v, waiting[i].intent)]]
           after == CHOOSE f : f = [i \in 0..m |->
                      IF i = 0 THEN [tabs |-> s.tabs, active |-> s.active]
                      ELSE Project(f[i - 1], waiting[i].intent)]
<1>1. m \in Nat /\ \A i \in 1..m : waiting[i].intent \in Intents
  <2>1. \A w \in Waiting : w.intent \in Intents  BY DEF Waiting
  <2> QED  BY <2>1
<1>2. \A v \in X, i \in 1..m : Project(v, waiting[i].intent) \in X
  BY <1>1, ProjectKeepsView
<1>3. step \in [1..m -> [X -> X]]
  <2> HIDE DEF X, m
  <2> QED  BY <1>2
<1>4. PICK g : Runs(g, m, X, base, step)
  <2> HIDE DEF step, m, X
  <2>1. base \in X  BY DEF X
  <2> HIDE DEF base
  <2> QED  BY <1>1, <1>3, <2>1, Stepwise
<1>5. g = [i \in 0..m |-> IF i = 0 THEN [tabs |-> s.tabs, active |-> s.active]
                          ELSE Project(g[i - 1], waiting[i].intent)]
  <2>1. ASSUME NEW i \in 0..m, i # 0
        PROVE  g[i] = Project(g[i - 1], waiting[i].intent)
    <3>1. i \in 1..m /\ i - 1 \in 0..m  BY <1>1, <2>1
    <3>2. g[i - 1] \in X /\ g[i] = step[i][g[i - 1]]
      <4> HIDE DEF step, m, X, base
      <4> QED  BY <1>4, <3>1 DEF Runs
    <3> HIDE DEF X, m
    <3> QED  BY <3>1, <3>2
  <2> HIDE DEF step, m, X
  <2>2. ASSUME NEW i \in 0..m, i = 0 PROVE g[i] = base  BY <1>4, <2>2 DEF Runs
  <2>3. g = [i \in 0..m |-> g[i]]  BY <1>4 DEF Runs
  <2> QED  BY <2>1, <2>2, <2>3
<1>6. after = [i \in 0..m |-> IF i = 0 THEN [tabs |-> s.tabs, active |-> s.active]
                              ELSE Project(after[i - 1], waiting[i].intent)]
  <2> HIDE DEF m
  <2> QED  BY <1>5, Zenon
<1>7. Reproject(s, waiting) = after[m]  BY DEF Reproject
<1> HIDE DEF after, step
<1>8. after[0] = base  BY <1>1, <1>6
<1>9. ASSUME NEW i \in 1..m, after[i - 1] \in X PROVE after[i] \in X
  <2>1. i \in 0..m /\ i # 0  BY <1>1
  <2>2. after[i] = Project(after[i - 1], waiting[i].intent)  BY <1>6, <2>1
  <2> HIDE DEF X, m
  <2> QED  BY <1>2, <1>9, <2>2
<1>10. \A i \in 0..m : after[i] \in X
  <2>1. base \in X  OBVIOUS
  <2> HIDE DEF X, m, base
  <2>2. m \in Nat /\ after[0] \in X /\ \A i \in 1..m : after[i - 1] \in X => after[i] \in X
    BY <1>1, <1>8, <1>9, <2>1
  <2> QED  BY <2>2, CarriedThrough
<1>11. ASSUME NEW i \in 1..m PROVE after[i] = Project(after[i - 1], waiting[i].intent)
  <2>1. i \in 0..m /\ i # 0  BY <1>1
  <2> QED  BY <1>6, <2>1
<1>12. AppliesAgain(after, s, waiting)  BY <1>7, <1>8, <1>11 DEF AppliesAgain
<1> HIDE DEF m, X
<1>13. \A i \in 0..Len(waiting) : after[i] \in Views(n)  BY <1>10 DEF m, X
<1> QED  BY <1>12, <1>13

LEMMA ReprojectKeepsView ==
  ASSUME NEW n \in Nat \ {0}, NEW s, [tabs |-> s.tabs, active |-> s.active] \in Views(n),
         NEW waiting \in Seq(Waiting)
  PROVE  /\ Reproject(s, waiting) \in Views(n)
         /\ waiting = << >> => Reproject(s, waiting) = [tabs |-> s.tabs, active |-> s.active]
<1>1. PICK after : /\ AppliesAgain(after, s, waiting)
                   /\ \A i \in 0..Len(waiting) : after[i] \in Views(n)
  BY ReprojectUnfolds
<1>2. Len(waiting) \in 0..Len(waiting) /\ (waiting = << >> => Len(waiting) = 0)  OBVIOUS
<1> QED  BY <1>1, <1>2 DEF AppliesAgain
-----------------------------------------------------------------------------
(* The owner's tabs. What a tab shows or loads was named no later than the *)
(* navigation it carries.                                                  *)
OwnerTabs(n) == {t \in [id : Nat, navigation : Below(n), document : Nat, loading : Nat] :
                    t.document <= t.navigation /\ t.loading <= t.navigation}
Browsers(n) == {b \in [tabs : Seq(OwnerTabs(n)), active : Nat] : b.active \in DOMAIN b.tabs}

LEMMA MoreNames ==
  ASSUME NEW n \in Nat
  PROVE  /\ OwnerTabs(n) \subseteq OwnerTabs(n + 1)
         /\ Browsers(n) \subseteq Browsers(n + 1)
         /\ WindowTabs(n) \subseteq WindowTabs(n + 1)
         /\ Views(n) \subseteq Views(n + 1)
<1>1. Below(n) \subseteq Below(n + 1)  BY DEF Below
<1>2. OwnerTabs(n) \subseteq OwnerTabs(n + 1)  BY <1>1 DEF OwnerTabs
<1>3. WindowTabs(n) \subseteq WindowTabs(n + 1)  BY <1>1 DEF WindowTabs
<1>4. Seq(OwnerTabs(n)) \subseteq Seq(OwnerTabs(n + 1))  BY <1>2, SeqMonotonic
<1>5. Seq(WindowTabs(n)) \subseteq Seq(WindowTabs(n + 1))  BY <1>3, SeqMonotonic
<1>6. Browsers(n) \subseteq Browsers(n + 1)  BY <1>4 DEF Browsers
<1>7. Views(n) \subseteq Views(n + 1)  BY <1>5 DEF Views
<1> QED  BY <1>2, <1>3, <1>6, <1>7

LEMMA BlankIsOwned ==
  ASSUME NEW n \in Nat \ {0}, NEW id \in Nat
  PROVE  Blank(id) \in OwnerTabs(n)
  BY DEF Blank, OwnerTabs, Below

LEMMA CloseTabKeeps ==
  ASSUME NEW n \in Nat \ {0}, NEW b \in Browsers(n), NEW i \in DOMAIN b.tabs, NEW fresh \in Nat
  PROVE  CloseTab(b, i, fresh) \in Browsers(n)
<1> DEFINE rest == RemoveAt(b.tabs, i)
<1>1. b.tabs \in Seq(OwnerTabs(n)) /\ b.active \in 1..Len(b.tabs) /\ i \in 1..Len(b.tabs)
  BY DEF Browsers
<1>2. rest \in Seq(OwnerTabs(n)) /\ Len(rest) = Len(b.tabs) - 1
  BY <1>1, RemovedAt
<1> HIDE DEF rest
<1>3. CloseTab(b, i, fresh) =
        IF rest = << >> THEN [tabs |-> <<Blank(fresh)>>, active |-> 1]
        ELSE [tabs |-> rest, active |-> OwnerFront(b, i, rest)]
  BY DEF CloseTab, rest
<1>4. CASE rest = << >>
  <2>1. PICK t : t = Blank(fresh)  OBVIOUS
  <2>2. t \in OwnerTabs(n)  BY <2>1, BlankIsOwned
  <2>3. <<t>> \in Seq(OwnerTabs(n)) /\ 1 \in DOMAIN <<t>>  BY <2>2
  <2> QED  BY <1>3, <1>4, <2>1, <2>3 DEF Browsers
<1>5. CASE rest # << >>
  <2>1. Len(rest) \in Nat \ {0} /\ DOMAIN rest = 1..Len(rest)
    <3>1. \A q \in Seq(OwnerTabs(n)) : q # << >> => Len(q) \in Nat \ {0} /\ DOMAIN q = 1..Len(q)
      OBVIOUS
    <3> QED  BY <1>2, <1>5, <3>1
  <2>2. OwnerFront(b, i, rest) \in 1..Len(rest)
    <3>1. Capped(i, Len(rest)) \in 1..Len(rest)  BY <1>1, <2>1, CappedIn
    <3> QED  BY <1>1, <1>2, <2>1, <3>1 DEF OwnerFront
  <2> QED  BY <1>2, <1>3, <1>5, <2>1, <2>2 DEF Browsers
<1> QED  BY <1>4, <1>5

LEMMA ApplyKeeps ==
  ASSUME NEW n \in Nat \ {0}, NEW b \in Browsers(n), NEW x \in Intents, NEW fresh \in Nat
  PROVE  Apply(b, x, fresh) \in Browsers(n)
<1>0. b.tabs \in Seq(OwnerTabs(n)) /\ b.active \in 1..Len(b.tabs) /\ b.active \in Nat
      /\ DOMAIN b.tabs = 1..Len(b.tabs)
  BY DEF Browsers
<1>1. CASE x.op = "open"
  <2>1. PICK t : t = Blank(x.id)  OBVIOUS
  <2>2. t \in OwnerTabs(n)  BY <2>1, BlankIsOwned DEF Intents
  <2>3. Apply(b, x, fresh) = [tabs |-> Append(b.tabs, t), active |-> Len(b.tabs) + 1]
    BY <1>1, <2>1 DEF Apply
  <2>4. /\ Append(b.tabs, t) \in Seq(OwnerTabs(n))
        /\ Len(b.tabs) + 1 \in DOMAIN Append(b.tabs, t)
        /\ Len(b.tabs) + 1 \in Nat
    BY <1>0, <2>2
  <2> QED  BY <2>3, <2>4 DEF Browsers
<1>2. CASE x.op = "close" /\ Has(b.tabs, x.id)
  <2>1. PICK c : c = CloseTab(b, IndexOf(b.tabs, x.id), fresh)  OBVIOUS
  <2>2. c \in Browsers(n)  BY <1>2, <2>1, Found, CloseTabKeeps
  <2>3. Apply(b, x, fresh) = IF x.with = None THEN c
                             ELSE [c EXCEPT !.tabs[1] = Blank(x.with)]
    BY <1>2, <2>1 DEF Apply
  <2>4. [c EXCEPT !.tabs[1] = Blank(x.with)] \in Browsers(n)
    <3>1. PICK t : t = Blank(x.with)  OBVIOUS
    <3>2. t \in OwnerTabs(n)  BY <3>1, BlankIsOwned DEF Intents
    <3>3. c.tabs \in Seq(OwnerTabs(n)) /\ c.active \in DOMAIN c.tabs /\ c.active \in Nat
      BY <2>2 DEF Browsers
    <3>4. PICK q : q = [c.tabs EXCEPT ![1] = t]  OBVIOUS
    <3>5. q \in Seq(OwnerTabs(n)) /\ DOMAIN q = DOMAIN c.tabs  BY <3>2, <3>3, <3>4
    <3>6. [c EXCEPT !.tabs[1] = Blank(x.with)] = [tabs |-> q, active |-> c.active]
      <4>1. c = [tabs |-> c.tabs, active |-> c.active]  BY <2>2 DEF Browsers
      <4> QED  BY <4>1, <3>1, <3>4
    <3> QED  BY <3>3, <3>5, <3>6 DEF Browsers
  <2> QED  BY <2>2, <2>3, <2>4
<1>3. CASE x.op = "select" /\ Has(b.tabs, x.id)
  <2>1. Apply(b, x, fresh) = [b EXCEPT !.active = IndexOf(b.tabs, x.id)]
    BY <1>3 DEF Apply
  <2>2. IndexOf(b.tabs, x.id) \in DOMAIN b.tabs  BY <1>3, Found
  <2> QED  BY <1>0, <2>1, <2>2 DEF Browsers
<1>4. CASE x.op = "move" /\ Has(b.tabs, x.id)
  <2> DEFINE i == IndexOf(b.tabs, x.id)
             at == Capped(x.to, Len(b.tabs))
             moved == InsertAt(RemoveAt(b.tabs, i), at, b.tabs[i])
             front == b.tabs[b.active].id
  <2>1. Apply(b, x, fresh) = [tabs |-> moved, active |-> IndexOf(moved, front)]
    BY <1>4 DEF Apply
  <2>2. i \in 1..Len(b.tabs)  BY <1>0, <1>4, Found
  <2>3. at \in 1..Len(b.tabs)
    <3>1. x.to \in Nat /\ x.to # 0 /\ Len(b.tabs) \in Nat /\ Len(b.tabs) # 0
      BY <1>0, <1>4 DEF Intents
    <3> QED  BY <3>1, CappedIn
  <2> HIDE DEF i, at
  <2>4. /\ moved \in Seq(OwnerTabs(n))
        /\ \A k \in 1..Len(b.tabs) : \E j \in DOMAIN moved : moved[j] = b.tabs[k]
    BY <1>0, <2>2, <2>3, Moved
  <2> HIDE DEF moved
  <2>5. Has(moved, front)  BY <1>0, <2>4 DEF Has
  <2>6. IndexOf(moved, front) \in DOMAIN moved  BY <2>5, Found
  <2>7. IndexOf(moved, front) \in Nat  BY <2>4, <2>6
  <2> QED  BY <2>1, <2>4, <2>6, <2>7 DEF Browsers
<1>5. CASE /\ x.op # "open"
           /\ ~(x.op = "close" /\ Has(b.tabs, x.id))
           /\ ~(x.op = "select" /\ Has(b.tabs, x.id))
           /\ ~(x.op = "move" /\ Has(b.tabs, x.id))
  <2>1. Apply(b, x, fresh) = b  BY <1>5 DEF Apply
  <2> QED  BY <2>1
<1> QED  BY <1>1, <1>2, <1>3, <1>4, <1>5

LEMMA OwnedFields ==
  ASSUME NEW n, NEW t \in OwnerTabs(n)
  PROVE  /\ t = [id |-> t.id, navigation |-> t.navigation,
                 document |-> t.document, loading |-> t.loading]
         /\ t.id \in Nat /\ t.navigation \in Nat /\ t.document \in Nat /\ t.loading \in Nat
         /\ t.navigation < n /\ t.document <= t.navigation /\ t.loading <= t.navigation
  BY DEF OwnerTabs, Below

(* A browser after a step that may have named one more navigation: then a  *)
(* tab of it is loading that one.                                          *)
MayLoad(b, n) ==
    \/ b \in Browsers(n)
    \/ b \in Browsers(n + 1) /\ \E i \in DOMAIN b.tabs : b.tabs[i].loading = n

LEMMA LoadingLoads ==
  ASSUME next_navigation \in Nat, NEW b \in Browsers(next_navigation), NEW i \in DOMAIN b.tabs
  PROVE  /\ Loading(b, i) \in Browsers(next_navigation + 1)
         /\ MayLoad(Loading(b, i), next_navigation)
<1> DEFINE n == next_navigation
           t == Started(b.tabs[i])
           q == [b.tabs EXCEPT ![i] = t]
<1>0. n \in Nat  OBVIOUS
<1>1. /\ b.tabs \in Seq(OwnerTabs(n)) /\ i \in 1..Len(b.tabs)
      /\ b.active \in DOMAIN b.tabs /\ b.active \in Nat
      /\ b = [tabs |-> b.tabs, active |-> b.active]
  BY DEF Browsers
<1>2. Loading(b, i) = [tabs |-> q, active |-> b.active]
  <2>1. Loading(b, i) = [b EXCEPT !.tabs = q]  BY <1>1 DEF Loading
  <2> HIDE DEF q
  <2> QED  BY <1>1, <2>1
<1>3. t \in OwnerTabs(n + 1) /\ t.loading = n
  <2>1. b.tabs[i] \in OwnerTabs(n)  BY <1>1
  <2>2. n \in Below(n + 1)  BY <1>0 DEF Below
  <2> QED  BY <1>0, <2>1, <2>2, OwnedFields DEF OwnerTabs, Started
<1>4. b.tabs \in Seq(OwnerTabs(n + 1))  BY <1>0, <1>1, MoreNames, SeqMonotonic
<1> HIDE DEF t, n
<1>5. q \in Seq(OwnerTabs(n + 1)) /\ DOMAIN q = DOMAIN b.tabs /\ q[i] = t
  BY <1>1, <1>3, <1>4
<1> HIDE DEF q
<1>6. Loading(b, i) \in Browsers(n + 1)  BY <1>1, <1>2, <1>5 DEF Browsers
<1>7. MayLoad(Loading(b, i), n)  BY <1>2, <1>3, <1>5, <1>6 DEF MayLoad
<1> QED  BY <1>6, <1>7 DEF n

LEMMA RestoredLoads ==
  ASSUME next_navigation \in Nat \ {0}, next_tab \in Nat,
         NEW b, b.tabs \in Seq(OwnerTabs(next_navigation)),
         NEW tab \in OwnerTabs(next_navigation), NEW i \in Nat \ {0}
  PROVE  MayLoad(Restored(b, tab, i), next_navigation)
<1> DEFINE n == next_navigation
           copy == Blank(next_tab)
           at == Capped(i, Len(b.tabs) + 1)
           placed == [tabs |-> InsertAt(b.tabs, at, copy), active |-> at]
<1>1. copy \in OwnerTabs(n)  BY BlankIsOwned
<1>2. at \in 1..(Len(b.tabs) + 1)
  <2>1. Len(b.tabs) + 1 \in Nat /\ Len(b.tabs) + 1 # 0  OBVIOUS
  <2> QED  BY <2>1, CappedIn
<1> HIDE DEF copy, at
<1>3. placed \in Browsers(n) /\ at \in DOMAIN placed.tabs
  <2>1. PICK r : r = InsertAt(b.tabs, at, copy)  OBVIOUS
  <2>2. r \in Seq(OwnerTabs(n)) /\ Len(r) = Len(b.tabs) + 1
    BY <1>1, <1>2, <2>1, InsertedAt
  <2>3. at \in DOMAIN r /\ at \in Nat  BY <1>2, <2>2
  <2> QED  BY <2>1, <2>2, <2>3 DEF Browsers
<1>4. Restored(b, tab, i) = IF tab.navigation = 0 THEN placed ELSE Loading(placed, at)
  BY DEF Restored, at, copy
<1> HIDE DEF placed
<1>5. MayLoad(Loading(placed, at), n)  BY <1>3, LoadingLoads
<1> QED  BY <1>3, <1>4, <1>5 DEF MayLoad

(* The tabs that may be reopened. *)
Closed(n) == [index : Nat \ {0}, tab : OwnerTabs(n)]

LEMMA ReopenedLoads ==
  ASSUME next_navigation \in Nat \ {0}, next_tab \in Nat,
         closed_tabs \in Seq(Closed(next_navigation)), closed_tabs # << >>,
         NEW b \in Browsers(next_navigation)
  PROVE  MayLoad(Reopened(b), next_navigation)
<1> DEFINE n == next_navigation
           closed == Last(closed_tabs)
           left == IF b.tabs[b.active].navigation = 0
                   THEN [b EXCEPT !.tabs = RemoveAt(b.tabs, b.active)] ELSE b
<1>1. closed \in Closed(n)  BY EmptySeq DEF Last
<1>2. b.tabs \in Seq(OwnerTabs(n)) /\ b.active \in 1..Len(b.tabs)
      /\ b = [tabs |-> b.tabs, active |-> b.active]
  BY DEF Browsers
<1>3. RemoveAt(b.tabs, b.active) \in Seq(OwnerTabs(n))  BY <1>2, RemovedAt
<1>4. left.tabs \in Seq(OwnerTabs(n))  BY <1>2, <1>3
<1>5. Reopened(b) = Restored(left, closed.tab, closed.index)  BY DEF Reopened
<1> HIDE DEF left, closed
<1>6. closed.tab \in OwnerTabs(n) /\ closed.index \in Nat \ {0}  BY <1>1 DEF Closed
<1> QED  BY <1>4, <1>5, <1>6, RestoredLoads

LEMMA EffectLoads ==
  ASSUME next_navigation \in Nat \ {0}, next_tab \in Nat,
         closed_tabs \in Seq(Closed(next_navigation)),
         NEW kind, NEW b \in Browsers(next_navigation)
  PROVE  MayLoad(Effect(kind, b), next_navigation)
<1>0. b.active \in DOMAIN b.tabs /\ b.active \in Nat /\ b.tabs \in Seq(OwnerTabs(next_navigation))
  BY DEF Browsers
<1>1. CASE kind = "navigate"
  <2>1. Effect(kind, b) = Loading(b, b.active)  BY <1>1 DEF Effect
  <2> QED  BY <1>0, <2>1, LoadingLoads
<1>2. CASE kind = "reopen" /\ closed_tabs # << >>
  <2>1. Effect(kind, b) = Reopened(b)  BY <1>2 DEF Effect
  <2> QED  BY <1>2, <2>1, ReopenedLoads
<1>3. CASE kind = "duplicate"
  <2>1. Effect(kind, b) = Restored(b, b.tabs[b.active], b.active + 1)  BY <1>3 DEF Effect
  <2>2. b.tabs[b.active] \in OwnerTabs(next_navigation) /\ b.active + 1 \in Nat \ {0}
    BY <1>0
  <2> QED  BY <1>0, <2>1, <2>2, RestoredLoads
<1>4. CASE /\ kind # "navigate" /\ ~(kind = "reopen" /\ closed_tabs # << >>)
           /\ kind # "duplicate"
  <2>1. Effect(kind, b) = b  BY <1>4 DEF Effect
  <2> QED  BY <2>1 DEF MayLoad
<1> QED  BY <1>1, <1>2, <1>3, <1>4

-----------------------------------------------------------------------------
(* Which document an input reaches.                                        *)

(* A page event is addressed to a navigation that was named when it was    *)
(* sent, and carries no intent.                                            *)
Meant(e) ==
    /\ e.intent \in Intents
    /\ e.kind \in PageEvents => /\ e.intent = NoIntent
                                /\ e.context \in Nat /\ e.upto \in Nat
                                /\ e.context < e.upto
ViewOf(s) == [tabs |-> s.tabs, active |-> s.active]

NavInv ==
    /\ next_navigation \in Nat \ {0} /\ next_tab \in Nat /\ serial \in Nat
    /\ View \in Views(next_navigation)
    /\ pending \in Seq(Waiting)
    /\ latest # NoSnapshot => ViewOf(latest) \in Views(next_navigation)
    /\ browser \in Browsers(next_navigation)
    /\ closed_tabs \in Seq(Closed(next_navigation))
    /\ \E S : commands \in Seq(S)
    /\ \A i \in 1..Len(commands) : Meant(commands[i])
    /\ hit.document \in Nat /\ hit.upto \in Nat
    /\ NoInputToLaterNavigation

LEMMA NavInit == Init => NavInv
<1> SUFFICES ASSUME Init PROVE NavInv  OBVIOUS
<1>1. /\ FromTab(Blank(1)) \in WindowTabs(1) /\ Blank(1) \in OwnerTabs(1)
      /\ next_navigation = 1
  BY BlankInView, BlankIsOwned DEF Init
<1>2. View \in Views(next_navigation)
  <2>1. PICK t : t = FromTab(Blank(1))  OBVIOUS
  <2>2. <<t>> \in Seq(WindowTabs(1)) /\ 1 \in DOMAIN <<t>>  BY <1>1, <2>1
  <2>3. View = [tabs |-> <<t>>, active |-> 1]  BY <2>1 DEF Init, View
  <2> QED  BY <1>1, <2>2, <2>3 DEF Views
<1>3. browser \in Browsers(next_navigation)
  <2>1. PICK t : t = Blank(1)  OBVIOUS
  <2>2. <<t>> \in Seq(OwnerTabs(1)) /\ 1 \in DOMAIN <<t>>  BY <1>1, <2>1
  <2>3. browser = [tabs |-> <<t>>, active |-> 1]  BY <2>1 DEF Init
  <2> QED  BY <1>1, <2>2, <2>3 DEF Browsers
<1>4. /\ next_navigation \in Nat \ {0} /\ next_tab \in Nat /\ serial \in Nat
      /\ pending \in Seq(Waiting) /\ latest = NoSnapshot
      /\ closed_tabs \in Seq(Closed(next_navigation))
      /\ commands \in Seq({}) /\ Len(commands) = 0
      /\ hit.document \in Nat /\ hit.upto \in Nat /\ NoInputToLaterNavigation
  BY DEF Init, NoInputToLaterNavigation
<1>5. (\E S : commands \in Seq(S)) /\ \A i \in 1..Len(commands) : Meant(commands[i])
  BY <1>4
<1> QED  BY <1>2, <1>3, <1>4, <1>5 DEF NavInv

LEMMA PostedAreMeant ==
  ASSUME NEW S, commands \in Seq(S), \A i \in 1..Len(commands) : Meant(commands[i]),
         NEW e, Meant(e)
  PROVE  /\ Post(e) \in Seq(S \cup {e})
         /\ \A i \in 1..Len(Post(e)) : Meant(Post(e)[i])
<1>1. CASE e.kind = "pointer" /\ pointer_slot /\ Pointers # {}
  <2> DEFINE at == CHOOSE i \in Pointers : \A j \in Pointers : j <= i
  <2>1. Post(e) = [commands EXCEPT ![at] = e]  BY <1>1 DEF Post
  <2> HIDE DEF at
  <2>2. PICK q : q = [commands EXCEPT ![at] = e]  OBVIOUS
  <2>3. /\ commands \in Seq(S \cup {e}) /\ DOMAIN q = 1..Len(commands)
        /\ \A i \in 1..Len(commands) : q[i] = commands[i] \/ q[i] = e
    BY <2>2
  <2>4. q \in Seq(S \cup {e}) /\ Len(q) = Len(commands)
    <3>1. \A i \in 1..Len(commands) : q[i] \in S \cup {e}  BY <2>3
    <3>2. q = [i \in 1..Len(commands) |-> q[i]]  BY <2>2, <2>3
    <3>3. Len(commands) \in Nat  OBVIOUS
    <3> QED  BY <3>1, <3>2, <3>3
  <2> QED  BY <2>1, <2>2, <2>3, <2>4
<1>2. CASE ~(e.kind = "pointer" /\ pointer_slot /\ Pointers # {})
  <2>1. Post(e) = Append(commands, e)  BY <1>2, Zenon DEF Post
  <2>2. /\ Append(commands, e) \in Seq(S \cup {e})
        /\ Len(Append(commands, e)) = Len(commands) + 1
        /\ \A i \in 1..Len(commands) : Append(commands, e)[i] = commands[i]
        /\ Append(commands, e)[Len(commands) + 1] = e
    BY Appended
  <2>3. \A i \in 1..(Len(commands) + 1) : i \in 1..Len(commands) \/ i = Len(commands) + 1
    OBVIOUS
  <2> QED  BY <2>1, <2>2, <2>3
<1> QED  BY <1>1, <1>2

LEMMA SendKeepsNav ==
  ASSUME NavInv, NEW kind, NEW intent \in Intents, NEW v \in Views(next_navigation),
         Send(kind, intent, v), next_tab' \in Nat,
         kind \in PageEvents => intent = NoIntent /\ v = View
  PROVE  NavInv'
<1> DEFINE input == [serial |-> serial + 1, tab |-> v.tabs[v.active].id, kind |-> kind,
                     context |-> IF kind \in PageEvents
                                 THEN v.tabs[v.active].navigation ELSE 0,
                     intent |-> intent, seen |-> scenes[v.tabs[v.active].id].document,
                     upto |-> next_navigation]
<1>1. PICK S : commands \in Seq(S)  BY DEF NavInv
<1>2. PICK e : e = input  OBVIOUS
<1>3. commands' = Post(e)  BY <1>2 DEF Send
<1>4. Meant(e)
  <2>1. e.intent = intent /\ e.kind = kind /\ e.upto = next_navigation
    BY <1>2
  <2>2. ASSUME kind \in PageEvents
        PROVE  e.context \in Nat /\ e.context < e.upto
    <3>1. e.context = tabs[active].navigation  BY <1>2, <2>2 DEF View
    <3>2. tabs \in Seq(WindowTabs(next_navigation)) /\ active \in DOMAIN tabs
      BY DEF NavInv, Views, View, Send, WindowLives
    <3>3. tabs[active] \in WindowTabs(next_navigation)  BY <3>2
    <3> QED  BY <2>1, <3>1, <3>3 DEF WindowTabs, Below
  <2> QED  BY <2>1, <2>2 DEF Meant, NavInv
<1> HIDE DEF input
<1>5. /\ commands' \in Seq(S \cup {e})
      /\ \A i \in 1..Len(commands') : Meant(commands'[i])
  BY <1>1, <1>3, <1>4, PostedAreMeant DEF NavInv
<1>6. pending' \in Seq(Waiting)
  <2>1. [serial |-> serial + 1, intent |-> intent] \in Waiting  BY DEF Waiting, NavInv
  <2>2. PICK w : w = [serial |-> serial + 1, intent |-> intent]  OBVIOUS
  <2>3. pending' = IF intent = NoIntent THEN pending ELSE Append(pending, w)
    BY <2>2 DEF Send
  <2> QED  BY <2>1, <2>2, <2>3 DEF NavInv
<1>7. View' \in Views(next_navigation)
  <2>1. View' = [tabs |-> v.tabs, active |-> v.active]  BY DEF Send, View
  <2>2. v = [tabs |-> v.tabs, active |-> v.active]  BY DEF Views
  <2> QED  BY <2>1, <2>2
<1>8. /\ serial' \in Nat
      /\ UNCHANGED <<latest, browser, closed_tabs, next_navigation, hit>>
  BY DEF Send, ownerVars, NavInv
<1>9. NoInputToLaterNavigation'  BY <1>8 DEF NavInv, NoInputToLaterNavigation
<1>10. (\E T : commands \in Seq(T))'  BY <1>5
<1>11. (latest # NoSnapshot => ViewOf(latest) \in Views(next_navigation))'
  BY <1>8 DEF NavInv, ViewOf
<1> QED  BY <1>5, <1>6, <1>7, <1>8, <1>9, <1>10, <1>11 DEF NavInv

LEMMA ReaderKeepsNav ==
  ASSUME NavInv, Reader
  PROVE  NavInv'
<1>0. next_tab \in Nat /\ next_tab + 1 \in Nat /\ View \in Views(next_navigation)
      /\ next_navigation \in Nat \ {0}
  BY DEF NavInv
<1>1. \A i \in DOMAIN tabs : tabs[i].id \in Nat /\ i \in Nat /\ i # 0
  <2>1. tabs \in Seq(WindowTabs(next_navigation))  BY <1>0 DEF Views, View
  <2>2. \A t \in WindowTabs(next_navigation) : t.id \in Nat  BY DEF WindowTabs
  <2> QED  BY <2>1, <2>2
<1>2. NoIntent \in Intents  BY DEF NoIntent, None, Intents, Ops
<1>3. CASE NewTab
  <2> DEFINE x == [op |-> "open", id |-> next_tab, with |-> None, to |-> 0]
  <2>1. x \in Intents  BY <1>0 DEF None, Intents, Ops
  <2>2. Project(View, x) \in Views(next_navigation)  BY <1>0, <2>1, ProjectKeepsView
  <2>3. Send("chrome", x, Project(View, x)) /\ next_tab' \in Nat
    BY <1>0, <1>3 DEF NewTab, Chrome
  <2> QED  BY <2>1, <2>2, <2>3, SendKeepsNav DEF PageEvents
<1>4. ASSUME NEW i \in DOMAIN tabs, CloseOne(tabs[i].id) PROVE NavInv'
  <2> DEFINE x == [op |-> "close", id |-> tabs[i].id, to |-> 0,
                   with |-> IF Len(tabs) = 1 THEN next_tab ELSE None]
  <2>1. x \in Intents  BY <1>0, <1>1 DEF None, Intents, Ops
  <2>2. Project(View, x) \in Views(next_navigation)  BY <1>0, <2>1, ProjectKeepsView
  <2>3. Send("chrome", x, Project(View, x)) /\ next_tab' \in Nat
    BY <1>0, <1>4 DEF CloseOne, Chrome
  <2> QED  BY <2>1, <2>2, <2>3, SendKeepsNav DEF PageEvents
<1>5. ASSUME NEW i \in DOMAIN tabs, SelectOne(tabs[i].id) PROVE NavInv'
  <2> DEFINE x == [op |-> "select", id |-> tabs[i].id, with |-> None, to |-> 0]
  <2>1. x \in Intents  BY <1>0, <1>1 DEF None, Intents, Ops
  <2>2. Project(View, x) \in Views(next_navigation)  BY <1>0, <2>1, ProjectKeepsView
  <2>3. Send("chrome", x, Project(View, x)) /\ next_tab' \in Nat
    BY <1>0, <1>5 DEF SelectOne, Chrome
  <2> QED  BY <2>1, <2>2, <2>3, SendKeepsNav DEF PageEvents
<1>6. ASSUME NEW i \in DOMAIN tabs, NEW j \in DOMAIN tabs, MoveOne(tabs[i].id, j) PROVE NavInv'
  <2> DEFINE x == [op |-> "move", id |-> tabs[i].id, with |-> None, to |-> j]
  <2>1. x \in Intents  BY <1>0, <1>1 DEF None, Intents, Ops
  <2>2. Project(View, x) \in Views(next_navigation)  BY <1>0, <2>1, ProjectKeepsView
  <2>3. Send("chrome", x, Project(View, x)) /\ next_tab' \in Nat
    BY <1>0, <1>6 DEF MoveOne, Chrome
  <2> QED  BY <2>1, <2>2, <2>3, SendKeepsNav DEF PageEvents
<1>7. CASE Navigate
  <2>1. Send("navigate", NoIntent, View) /\ next_tab' \in Nat  BY <1>0, <1>7 DEF Navigate
  <2> QED  BY <1>0, <1>2, <2>1, SendKeepsNav
<1>8. ASSUME NEW k, Event(k) PROVE NavInv'
  <2>1. Send(k, NoIntent, View) /\ next_tab' \in Nat  BY <1>0, <1>8 DEF Event
  <2> QED  BY <1>0, <1>2, <2>1, SendKeepsNav
<1> QED  BY <1>3, <1>4, <1>5, <1>6, <1>7, <1>8 DEF Reader

LEMMA ReceiveKeepsNav ==
  ASSUME NavInv, Receive
  PROVE  NavInv'
<1> DEFINE waiting == Unacknowledged(latest.serial)
           v == Reproject(latest, waiting)
<1>1. /\ latest # NoSnapshot /\ latest' = NoSnapshot
      /\ pending' = waiting /\ tabs' = v.tabs /\ active' = v.active
      /\ UNCHANGED <<serial, commands, browser, closed_tabs, next_tab, next_navigation, hit>>
  BY DEF Receive, ownerVars, idVars
<1>2. waiting \in Seq(Waiting)
  <2>1. waiting \in Seq({w \in Waiting : w.serial > latest.serial})
    BY KeptAreLater DEF NavInv
  <2>2. {w \in Waiting : w.serial > latest.serial} \subseteq Waiting  OBVIOUS
  <2> HIDE DEF waiting
  <2> QED  BY <2>1, <2>2, SeqMonotonic
<1> HIDE DEF waiting
<1>3. v \in Views(next_navigation)
  <2>1. [tabs |-> latest.tabs, active |-> latest.active] \in Views(next_navigation)
    BY <1>1 DEF NavInv, ViewOf
  <2> QED  BY <1>2, <2>1, ReprojectKeepsView DEF NavInv
<1> HIDE DEF v
<1>4. View' \in Views(next_navigation)
  <2>1. View' = [tabs |-> v.tabs, active |-> v.active]  BY <1>1 DEF View
  <2>2. v = [tabs |-> v.tabs, active |-> v.active]  BY <1>3 DEF Views
  <2> QED  BY <1>3, <2>1, <2>2
<1>5. (\E T : commands \in Seq(T))' /\ \A i \in 1..Len(commands') : Meant(commands'[i])
  BY <1>1 DEF NavInv
<1> QED  BY <1>1, <1>2, <1>4, <1>5 DEF NavInv, NoInputToLaterNavigation

(* An input past its checks finds the owner in a tab to act on; a page     *)
(* event finds it in the tab and at the navigation it was meant for.       *)
LEMMA ActsOnTab ==
  ASSUME NavInv, NEW input, Meant(input),
         input.kind \in PageEvents => ForThisDocument(input),
         input.intent # NoIntent \/ Has(browser.tabs, input.tab),
         NEW b, b = IF input.intent # NoIntent THEN Apply(browser, input.intent, next_tab)
                    ELSE [browser EXCEPT !.active = IndexOf(browser.tabs, input.tab)]
  PROVE  /\ b \in Browsers(next_navigation)
         /\ input.kind \in PageEvents =>
                /\ b.tabs[b.active].document \in Nat
                /\ b.tabs[b.active].document < input.upto
<1>0. /\ browser \in Browsers(next_navigation)
      /\ browser.tabs \in Seq(OwnerTabs(next_navigation))
      /\ browser = [tabs |-> browser.tabs, active |-> browser.active]
  BY DEF NavInv, Browsers
<1>1. CASE input.intent # NoIntent
  <2>1. b \in Browsers(next_navigation)  BY <1>0, <1>1, ApplyKeeps DEF NavInv, Meant
  <2>2. input.kind \notin PageEvents  BY <1>1 DEF Meant
  <2> QED  BY <2>1, <2>2
<1>2. CASE input.intent = NoIntent
  <2> DEFINE i == IndexOf(browser.tabs, input.tab)
  <2>1. i \in DOMAIN browser.tabs  BY <1>2, Found
  <2>2. b = [browser EXCEPT !.active = i]  BY <1>2
  <2>3. b.tabs = browser.tabs /\ b.active = i /\ b = [tabs |-> browser.tabs, active |-> i]
    BY <1>0, <2>2
  <2>4. i \in Nat  BY <1>0, <2>1
  <2>5. b \in Browsers(next_navigation)  BY <1>0, <2>1, <2>3, <2>4 DEF Browsers
  <2>6. ASSUME input.kind \in PageEvents
        PROVE  browser.tabs[i].document \in Nat /\ browser.tabs[i].document < input.upto
    <3>1. browser.tabs[i].navigation = input.context  BY <2>6 DEF ForThisDocument
    <3>2. browser.tabs[i] \in OwnerTabs(next_navigation)  BY <1>0, <2>1
    <3>3. /\ browser.tabs[i].document \in Nat /\ browser.tabs[i].navigation \in Nat
          /\ browser.tabs[i].document <= browser.tabs[i].navigation
      BY <3>2, OwnedFields
    <3> QED  BY <2>6, <3>1, <3>3 DEF Meant
  <2> QED  BY <2>3, <2>5, <2>6
<1> QED  BY <1>1, <1>2

(* No tab is loading the navigation that would be named next.              *)
LEMMA NamedOnce ==
  ASSUME NEW n \in Nat \ {0}, NEW b, MayLoad(b, n), NEW m,
         m = IF \E i \in DOMAIN b.tabs : b.tabs[i].loading = n THEN n + 1 ELSE n
  PROVE  m \in Nat \ {0} /\ (m = n \/ m = n + 1) /\ b \in Browsers(m)
<1>1. CASE \E i \in DOMAIN b.tabs : b.tabs[i].loading = n
  <2>1. m = n + 1 /\ b \in Browsers(n + 1)  BY <1>1, MoreNames DEF MayLoad
  <2> QED  BY <2>1
<1>2. CASE ~\E i \in DOMAIN b.tabs : b.tabs[i].loading = n
  <2>1. m = n /\ b \in Browsers(n)  BY <1>2 DEF MayLoad
  <2> QED  BY <2>1
<1> QED  BY <1>1, <1>2

LEMMA MoreNamesKeepNav ==
  ASSUME NavInv, UNCHANGED <<windowVars, latest>>,
         next_navigation' = next_navigation \/ next_navigation' = next_navigation + 1
  PROVE  /\ View' \in Views(next_navigation')
         /\ latest' # NoSnapshot => ViewOf(latest') \in Views(next_navigation')
         /\ Closed(next_navigation) \subseteq Closed(next_navigation')
         /\ pending' \in Seq(Waiting) /\ serial' \in Nat
<1>1. /\ Views(next_navigation) \subseteq Views(next_navigation')
      /\ OwnerTabs(next_navigation) \subseteq OwnerTabs(next_navigation')
  BY MoreNames DEF NavInv
<1>2. Closed(next_navigation) \subseteq Closed(next_navigation')  BY <1>1 DEF Closed
<1>3. View' = View /\ latest' = latest /\ pending' = pending /\ serial' = serial
  BY DEF View, windowVars
<1> QED  BY <1>1, <1>2, <1>3 DEF NavInv

LEMMA RestAreMeant ==
  ASSUME NEW S, NEW s \in Seq(S), s # << >>, \A i \in 1..Len(s) : Meant(s[i])
  PROVE  /\ Meant(Head(s)) /\ Tail(s) \in Seq(S)
         /\ \A i \in 1..Len(Tail(s)) : Meant(Tail(s)[i])
<1>1. 1 \in 1..Len(s) /\ Head(s) = s[1]  OBVIOUS
<1>2. /\ Tail(s) \in Seq(S)
      /\ \A i \in 1..Len(Tail(s)) : Tail(s)[i] = s[i + 1] /\ i + 1 \in 1..Len(s)
  OBVIOUS
<1> QED  BY <1>1, <1>2

LEMMA HandleKeepsNav ==
  ASSUME NavInv, Handle
  PROVE  NavInv'
<1> DEFINE n == next_navigation
           input == Head(commands)
           here == Has(browser.tabs, input.tab)
           meant == input.kind \in PageEvents => ForThisDocument(input)
           acted == meant /\ (input.intent # NoIntent \/ here)
           b == IF input.intent # NoIntent THEN Apply(browser, input.intent, next_tab)
                ELSE [browser EXCEPT !.active = IndexOf(browser.tabs, input.tab)]
           closing == input.intent.op = "close" /\ Has(browser.tabs, input.intent.id)
           reopening == input.kind = "reopen" /\ closed_tabs # << >>
<1>1. PICK S : commands \in Seq(S)  BY DEF NavInv
<1>2. commands # << >> /\ commands' = Tail(commands) /\ UNCHANGED <<windowVars, latest>>
  BY DEF Handle
<1>3. Meant(input)  BY <1>1, <1>2, RestAreMeant DEF NavInv
<1>4. commands' \in Seq(S) /\ \A i \in 1..Len(commands') : Meant(commands'[i])
  BY <1>1, <1>2, RestAreMeant DEF NavInv
<1>5. CASE ~acted
  <2>1. UNCHANGED <<browser, closed_tabs, next_tab, next_navigation, hit>>
    BY <1>5 DEF Handle
  <2>2. UNCHANGED <<tabs, active, pending, serial, latest>>  BY <1>2 DEF windowVars
  <2> QED  BY <1>4, <2>1, <2>2 DEF NavInv, View, ViewOf, NoInputToLaterNavigation
<1>6. CASE acted
  <2>1. /\ browser' = Effect(input.kind, b)
        /\ closed_tabs' = IF closing
                          THEN Append(closed_tabs,
                                 [index |-> IndexOf(browser.tabs, input.intent.id),
                                  tab |-> browser.tabs[IndexOf(browser.tabs, input.intent.id)]])
                          ELSE IF reopening THEN Front(closed_tabs) ELSE closed_tabs
        /\ next_tab' = IF \/ closing /\ Len(browser.tabs) = 1
                          \/ reopening \/ input.kind = "duplicate"
                       THEN next_tab + 1 ELSE next_tab
        /\ next_navigation' = IF \E i \in DOMAIN browser'.tabs : browser'.tabs[i].loading = n
                              THEN n + 1 ELSE n
        /\ hit' = IF input.kind \in PageEvents
                  THEN [seen |-> input.seen, upto |-> input.upto,
                        document |-> b.tabs[b.active].document]
                  ELSE hit
    BY <1>6 DEF Handle
  <2>2. /\ b \in Browsers(n)
        /\ input.kind \in PageEvents => /\ b.tabs[b.active].document \in Nat
                                        /\ b.tabs[b.active].document < input.upto
    BY <1>3, <1>6, ActsOnTab
  <2>3. /\ n \in Nat \ {0} /\ next_tab \in Nat /\ closed_tabs \in Seq(Closed(n))
        /\ browser \in Browsers(n)
    BY DEF NavInv
  <2>4. next_tab' \in Nat  BY <2>1, <2>3
  <2>5. /\ hit'.document \in Nat /\ hit'.upto \in Nat
        /\ hit'.document < hit'.upto
    <3>1. CASE input.kind \in PageEvents
      <4>1. input.upto \in Nat  BY <1>3, <3>1 DEF Meant
      <4>2. hit'.document = b.tabs[b.active].document /\ hit'.upto = input.upto
        BY <2>1, <3>1
      <4> QED  BY <2>2, <3>1, <4>1, <4>2
    <3>2. CASE input.kind \notin PageEvents
      <4>1. hit' = hit  BY <2>1, <3>2
      <4> QED  BY <4>1 DEF NavInv, NoInputToLaterNavigation
    <3> QED  BY <3>1, <3>2
  <2> DEFINE at == IndexOf(browser.tabs, input.intent.id)
             place == [index |-> at, tab |-> browser.tabs[at]]
  <2>6. closing => place \in Closed(n)
    <3>1. SUFFICES ASSUME closing PROVE place \in Closed(n)  OBVIOUS
    <3>2. at \in DOMAIN browser.tabs  BY <3>1, Found
    <3>3. browser.tabs \in Seq(OwnerTabs(n))  BY <2>3 DEF Browsers
    <3>4. at \in Nat \ {0} /\ browser.tabs[at] \in OwnerTabs(n)  BY <3>2, <3>3
    <3> HIDE DEF at
    <3> QED  BY <3>4 DEF Closed
  <2> HIDE DEF n, input, here, meant, acted, b, closing, reopening, at, place
  <2>7. MayLoad(browser', n)
    BY <2>1, <2>2, <2>3, EffectLoads DEF n
  <2>8. /\ next_navigation' \in Nat \ {0} /\ browser' \in Browsers(next_navigation')
        /\ next_navigation' = n \/ next_navigation' = n + 1
    BY <2>1, <2>3, <2>7, NamedOnce
  <2>9. /\ View' \in Views(next_navigation')
        /\ latest' # NoSnapshot => ViewOf(latest') \in Views(next_navigation')
        /\ Closed(n) \subseteq Closed(next_navigation')
        /\ pending' \in Seq(Waiting) /\ serial' \in Nat
    BY <1>2, <2>8, MoreNamesKeepNav DEF n
  <2>10. closed_tabs' \in Seq(Closed(n))
    <3>1. closed_tabs' = IF closing THEN Append(closed_tabs, place)
                         ELSE IF reopening THEN Front(closed_tabs) ELSE closed_tabs
      BY <2>1 DEF place, at
    <3>2. CASE closing  BY <2>3, <2>6, <3>1, <3>2
    <3>3. CASE ~closing /\ reopening
      <4>1. closed_tabs' = SubSeq(closed_tabs, 1, Len(closed_tabs) - 1)
        BY <3>1, <3>3 DEF Front
      <4>2. /\ Len(closed_tabs) - 1 \in Int /\ 1 \in Int
            /\ \A i \in 1..(Len(closed_tabs) - 1) : closed_tabs[i] \in Closed(n)
        BY <2>3
      <4> QED  BY <4>1, <4>2, SubSeqProperties
    <3>4. CASE ~closing /\ ~reopening  BY <2>3, <3>1, <3>4
    <3> QED  BY <3>2, <3>3, <3>4
  <2>11. closed_tabs' \in Seq(Closed(next_navigation'))
    BY <2>9, <2>10, SeqMonotonic
  <2>12. NoInputToLaterNavigation'  BY <2>5 DEF NoInputToLaterNavigation
  <2>13. (\E T : commands \in Seq(T))'  BY <1>4
  <2> QED  BY <1>4, <2>4, <2>5, <2>8, <2>9, <2>11, <2>12, <2>13 DEF NavInv
<1> QED  BY <1>5, <1>6

LEMMA ArriveKeepsNav ==
  ASSUME NavInv, NEW i \in DOMAIN browser.tabs, Arrive(i)
  PROVE  NavInv'
<1> DEFINE n == next_navigation
           t == Arrived(browser.tabs[i])
           q == [browser.tabs EXCEPT ![i] = t]
<1>1. /\ browser \in Browsers(n) /\ browser.tabs \in Seq(OwnerTabs(n)) /\ i \in 1..Len(browser.tabs)
      /\ browser.active \in DOMAIN browser.tabs /\ browser.active \in Nat
      /\ browser = [tabs |-> browser.tabs, active |-> browser.active]
  BY DEF NavInv, Browsers
<1>2. t \in OwnerTabs(n)
  <2>1. browser.tabs[i] \in OwnerTabs(n)  BY <1>1
  <2> QED  BY <2>1, OwnedFields DEF OwnerTabs, Arrived, Below
<1>3. browser' = [browser EXCEPT !.tabs = q]  BY <1>1 DEF Arrive
<1> HIDE DEF t
<1>4. q \in Seq(OwnerTabs(n)) /\ DOMAIN q = DOMAIN browser.tabs  BY <1>1, <1>2
<1> HIDE DEF q
<1>5. browser' = [tabs |-> q, active |-> browser.active]  BY <1>1, <1>3
<1>6. browser' \in Browsers(n)  BY <1>1, <1>4, <1>5 DEF Browsers
<1>7. UNCHANGED <<tabs, active, pending, serial, latest, commands, closed_tabs,
                  next_tab, next_navigation, hit>>
  BY DEF Arrive, windowVars, idVars
<1> QED  BY <1>6, <1>7 DEF NavInv, View, ViewOf, NoInputToLaterNavigation

LEMMA PageNavigatesKeepsNav ==
  ASSUME NavInv, PageNavigates
  PROVE  NavInv'
<1>1. browser \in Browsers(next_navigation) /\ browser.active \in DOMAIN browser.tabs
      /\ next_navigation \in Nat \ {0} /\ closed_tabs \in Seq(Closed(next_navigation))
  BY DEF NavInv, Browsers
<1>2. browser' = Loading(browser, browser.active) /\ next_navigation' = next_navigation + 1
      /\ UNCHANGED <<windowVars, latest, commands, closed_tabs, next_tab, hit>>
  BY DEF PageNavigates
<1>3. browser' \in Browsers(next_navigation')  BY <1>1, <1>2, LoadingLoads
<1>4. /\ View' \in Views(next_navigation')
      /\ latest' # NoSnapshot => ViewOf(latest') \in Views(next_navigation')
      /\ Closed(next_navigation) \subseteq Closed(next_navigation')
      /\ pending' \in Seq(Waiting) /\ serial' \in Nat
  BY <1>2, MoreNamesKeepNav
<1>5. closed_tabs' \in Seq(Closed(next_navigation'))  BY <1>1, <1>2, <1>4, SeqMonotonic
<1>6. next_navigation' \in Nat \ {0} /\ next_tab' \in Nat /\ hit' = hit /\ commands' = commands
  BY <1>1, <1>2 DEF NavInv
<1> QED  BY <1>3, <1>4, <1>5, <1>6 DEF NavInv, NoInputToLaterNavigation

(* What the owner publishes is a view of its tabs. *)
LEMMA PublishKeepsNav ==
  ASSUME NavInv, Publish
  PROVE  NavInv' /\ latest' # NoSnapshot
<1> DEFINE n == next_navigation
           q == [i \in DOMAIN browser.tabs |-> FromTab(browser.tabs[i])]
<1>1. /\ browser.tabs \in Seq(OwnerTabs(n)) /\ browser.active \in DOMAIN browser.tabs
      /\ browser.active \in Nat
  BY DEF NavInv, Browsers
<1>2. \A t \in OwnerTabs(n) : FromTab(t) \in WindowTabs(n)
  BY DEF OwnerTabs, WindowTabs, FromTab
<1>3. q \in Seq(WindowTabs(n)) /\ DOMAIN q = DOMAIN browser.tabs
  <2>1. DOMAIN browser.tabs = 1..Len(browser.tabs) /\ Len(browser.tabs) \in Nat  BY <1>1
  <2>2. \A i \in 1..Len(browser.tabs) : FromTab(browser.tabs[i]) \in WindowTabs(n)
    BY <1>1, <1>2
  <2> QED  BY <2>1, <2>2
<1> HIDE DEF q
<1>4. /\ latest' = [serial |-> received, tabs |-> q, active |-> browser.active,
                    document |-> browser.tabs[browser.active].document]
      /\ UNCHANGED <<tabs, active, pending, serial, commands, browser, closed_tabs,
                     next_tab, next_navigation, hit>>
  BY DEF Publish, windowVars, idVars, q
<1>5. ViewOf(latest') \in Views(n)
  <2>1. ViewOf(latest') = [tabs |-> q, active |-> browser.active]  BY <1>4 DEF ViewOf
  <2> QED  BY <1>1, <1>3, <2>1 DEF Views
<1>6. latest' # NoSnapshot  BY <1>1, <1>4 DEF NoSnapshot
<1>7. (\E T : commands \in Seq(T))' /\ \A i \in 1..Len(commands') : Meant(commands'[i])
  BY <1>4 DEF NavInv
<1> QED  BY <1>4, <1>5, <1>6, <1>7 DEF NavInv, View, NoInputToLaterNavigation

LEMMA NavStep == NavInv /\ [Next]_vars => NavInv'
<1> SUFFICES ASSUME NavInv, [Next]_vars PROVE NavInv'
  OBVIOUS
<1>1. CASE Reader  BY <1>1, ReaderKeepsNav
<1>2. CASE Receive  BY <1>2, ReceiveKeepsNav
<1>3. CASE Handle  BY <1>3, HandleKeepsNav
<1>4. ASSUME NEW i \in DOMAIN browser.tabs, Arrive(i) PROVE NavInv'
  BY <1>4, ArriveKeepsNav
<1>5. CASE PageNavigates  BY <1>5, PageNavigatesKeepsNav
<1>6. CASE Publish  BY <1>6, PublishKeepsNav
<1>7. CASE UNCHANGED vars
  BY <1>7 DEF NavInv, vars, windowVars, ownerVars, idVars, View, ViewOf, NoInputToLaterNavigation
<1> QED  BY <1>1, <1>2, <1>3, <1>4, <1>5, <1>6, <1>7 DEF Next, Settled

(* No input reaches a document whose load began after it was sent, however *)
(* far the owner's tabs have moved on meanwhile (ContentContext::matches), *)
(* for any number of inputs, tabs and navigations.                         *)
THEOREM InputsReachWhatTheyMeant == Spec => []NoInputToLaterNavigation
<1>1. NavInv => NoInputToLaterNavigation  BY DEF NavInv
<1> QED  BY <1>1, NavInit, NavStep, PTL DEF Spec
-----------------------------------------------------------------------------
(* Agreement. What the window shows is the snapshot it last read with the  *)
(* later intents applied; and nothing is lost on the way to it.            *)

Captured == [i \in DOMAIN browser.tabs |-> FromTab(browser.tabs[i])]

SettleInv ==
    \* the last input sent is the last in the channel, or has been received
    /\ commands = << >> => received = serial
    /\ commands # << >> => commands[Len(commands)].serial = serial
    \* what was published last is what the owner has
    /\ ~unpublished /\ latest # NoSnapshot =>
          latest.serial = received /\ latest.tabs = Captured /\ latest.active = browser.active
    \* what was read last is what the owner has, but for what is pending
    /\ \A i \in 1..Len(pending) : pending[i].serial \in Nat /\ pending[i].serial <= serial
    /\ ~unpublished /\ latest = NoSnapshot =>
          /\ snapshot = received
          /\ \A i \in 1..Len(pending) : pending[i].serial > received
          /\ (pending = << >> /\ received = serial) => tabs = Captured /\ active = browser.active
AllInv == OrderInv /\ NavInv /\ SettleInv

LEMMA SettleInit == Init => SettleInv
<1> SUFFICES ASSUME Init PROVE SettleInv  OBVIOUS
<1>1. /\ commands = << >> /\ received = serial /\ snapshot = received /\ pending = << >>
      /\ latest = NoSnapshot /\ active = browser.active
  BY DEF Init
<1>2. tabs = Captured
  <2>1. browser.tabs = <<Blank(1)>> /\ tabs = <<FromTab(Blank(1))>>  BY DEF Init
  <2>2. PICK b : b = Blank(1)  OBVIOUS
  <2>3. DOMAIN <<b>> = {1} /\ <<b>>[1] = b  OBVIOUS
  <2>4. Captured = [i \in {1} |-> FromTab(b)]  BY <2>1, <2>2, <2>3 DEF Captured
  <2>5. PICK t : t = FromTab(b)  OBVIOUS
  <2>6. <<t>> = [i \in {1} |-> t]  OBVIOUS
  <2> QED  BY <2>1, <2>2, <2>4, <2>5, <2>6
<1> QED  BY <1>1, <1>2 DEF SettleInv

LEMMA NewestIsLast ==
  ASSUME OrderInv, NEW e, e.serial = serial + 1
  PROVE  Post(e) # << >> /\ Post(e)[Len(Post(e))].serial = serial + 1
<1> PICK S : commands \in Seq(S)  BY DEF OrderInv
<1>1. CASE e.kind = "pointer" /\ pointer_slot = TRUE /\ Pointers # {}
  <2>1. commands # << >> /\ Post(e) = [commands EXCEPT ![Len(commands)] = e]
    BY <1>1, LastPointer DEF Post
  <2>2. PICK q : q = Post(e)  OBVIOUS
  <2>3. q \in Seq(S \cup {e}) /\ Len(q) = Len(commands) /\ q[Len(commands)] = e
    BY <2>1, <2>2, Replaced
  <2>4. Len(q) # 0  BY <2>1, <2>3
  <2> QED  BY <2>2, <2>3, <2>4
<1>2. CASE ~(e.kind = "pointer" /\ pointer_slot = TRUE /\ Pointers # {})
  <2>1. Post(e) = Append(commands, e)  BY <1>2 DEF Post
  <2>2. PICK q : q = Post(e)  OBVIOUS
  <2>3. q \in Seq(S \cup {e}) /\ Len(q) = Len(commands) + 1 /\ q[Len(commands) + 1] = e
    BY <2>1, <2>2, Appended
  <2>4. Len(q) # 0  BY <2>3
  <2> QED  BY <2>2, <2>3, <2>4
<1> QED  BY <1>1, <1>2

LEMMA SendSettles ==
  ASSUME OrderInv, NavInv, SettleInv, NEW kind, NEW intent, NEW v, Send(kind, intent, v)
  PROVE  SettleInv'
<1> DEFINE input == [serial |-> serial + 1, tab |-> v.tabs[v.active].id, kind |-> kind,
                     context |-> IF kind \in PageEvents
                                 THEN v.tabs[v.active].navigation ELSE 0,
                     intent |-> intent, seen |-> scenes[v.tabs[v.active].id].document,
                     upto |-> next_navigation]
<1>1. PICK e : e = input  OBVIOUS
<1>2. e.serial = serial + 1  BY <1>1
<1>3. commands' = Post(e)  BY <1>1 DEF Send
<1> HIDE DEF input
<1>4. /\ serial' = serial + 1 /\ received' = received /\ received <= serial
      /\ serial \in Nat /\ received \in Nat
      /\ UNCHANGED <<snapshot, latest, browser, unpublished>>
  BY DEF Send, ownerVars, OrderInv
<1>5. commands' # << >> /\ commands'[Len(commands')].serial = serial'
  BY <1>2, <1>3, <1>4, NewestIsLast
<1> DEFINE w == [serial |-> serial + 1, intent |-> intent]
<1>6. pending' = IF intent = NoIntent THEN pending ELSE Append(pending, w)
  BY DEF Send
<1>7. w.serial = serial + 1 /\ pending \in Seq(Waiting)  BY DEF NavInv
<1> HIDE DEF w
<1>8. ASSUME NEW i \in 1..Len(pending')
      PROVE  \/ i \in 1..Len(pending) /\ pending'[i] = pending[i]
             \/ pending'[i].serial = serial + 1
  <2>1. CASE intent = NoIntent  BY <1>6, <2>1
  <2>2. CASE intent # NoIntent
    <3>1. /\ Len(pending') = Len(pending) + 1
          /\ \A j \in 1..Len(pending) : pending'[j] = pending[j]
          /\ pending'[Len(pending) + 1] = w
      BY <1>6, <1>7, <2>2, Appended
    <3>2. i \in 1..Len(pending) \/ i = Len(pending) + 1  BY <1>7, <3>1
    <3> QED  BY <1>7, <3>1, <3>2
  <2> QED  BY <2>1, <2>2
<1>9. \A i \in 1..Len(pending') : pending'[i].serial \in Nat /\ pending'[i].serial <= serial'
  BY <1>4, <1>8 DEF SettleInv
<1>10. ~unpublished' /\ latest' = NoSnapshot =>
          snapshot' = received' /\ \A i \in 1..Len(pending') : pending'[i].serial > received'
  <2>1. received < serial + 1  BY <1>4
  <2> QED  BY <1>4, <1>8, <2>1 DEF SettleInv
<1>11. received' # serial'  BY <1>4
<1>12. Captured' = Captured  BY <1>4 DEF Captured
<1> QED  BY <1>4, <1>5, <1>9, <1>10, <1>11, <1>12 DEF SettleInv

LEMMA ReceiveSettles ==
  ASSUME OrderInv, NavInv, SettleInv, Receive
  PROVE  SettleInv'
<1> DEFINE T == {w \in Waiting : w.serial <= serial}
           U == {w \in T : w.serial > latest.serial}
           waiting == Unacknowledged(latest.serial)
           v == Reproject(latest, waiting)
<1>1. /\ latest # NoSnapshot /\ latest' = NoSnapshot /\ snapshot' = latest.serial
      /\ pending' = waiting /\ tabs' = v.tabs /\ active' = v.active
      /\ UNCHANGED <<serial, commands, browser, received, unpublished>>
  BY DEF Receive, ownerVars
<1>2. pending \in Seq(T)
  <2>1. pending \in Seq(Waiting)  BY DEF NavInv
  <2>2. \A i \in 1..Len(pending) : pending[i] \in T  BY <2>1 DEF SettleInv
  <2> HIDE DEF T
  <2> QED  BY <2>1, <2>2
<1>3. waiting \in Seq(U)
  <2> HIDE DEF T
  <2> QED  BY <1>2, KeptAreLater
<1> HIDE DEF waiting
<1>4. \A w \in U : w \in Waiting /\ w.serial \in Nat /\ w.serial <= serial /\ w.serial > latest.serial
  BY DEF Waiting
<1> HIDE DEF U
<1>5. \A i \in 1..Len(pending') : /\ pending'[i].serial \in Nat
                                 /\ pending'[i].serial <= serial
                                 /\ pending'[i].serial > latest.serial
  BY <1>1, <1>3, <1>4
<1>6. ASSUME pending' = << >>
      PROVE  tabs' = latest.tabs /\ active' = latest.active
  <2>1. waiting \in Seq(Waiting)
    <3>1. U \subseteq Waiting  BY <1>4
    <3> QED  BY <1>3, <3>1, SeqMonotonic
  <2>2. [tabs |-> latest.tabs, active |-> latest.active] \in Views(next_navigation)
    BY <1>1 DEF NavInv, ViewOf
  <2>3. v = [tabs |-> latest.tabs, active |-> latest.active]
    BY <1>1, <1>6, <2>1, <2>2, ReprojectKeepsView DEF NavInv
  <2> HIDE DEF v
  <2> QED  BY <1>1, <2>3
<1> HIDE DEF v
<1>7. Captured' = Captured  BY <1>1 DEF Captured
<1> QED  BY <1>1, <1>5, <1>6, <1>7 DEF SettleInv

LEMMA HandleSettles ==
  ASSUME OrderInv, NavInv, SettleInv, Handle
  PROVE  SettleInv'
<1> PICK S : commands \in Seq(S)  BY DEF OrderInv
<1>1. /\ commands # << >> /\ commands' = Tail(commands)
      /\ received' = Head(commands).serial
      /\ serial' = serial /\ pending' = pending
  BY DEF Handle, windowVars
<1>2. unpublished' = TRUE  BY DEF Handle, PublishesAfter
<1>3. /\ Len(commands) \in Nat /\ Len(commands) > 0 /\ Head(commands) = commands[1]
      /\ commands' \in Seq(S) /\ Len(commands') = Len(commands) - 1
      /\ \A i \in 1..(Len(commands) - 1) : commands'[i] = commands[i + 1]
  BY <1>1
<1>4. CASE commands' = << >>
  <2>1. Len(commands) = 1  BY <1>3, <1>4
  <2>2. received' = serial'  BY <1>1, <1>3, <2>1 DEF SettleInv
  <2> QED  BY <1>1, <1>2, <1>4, <2>2 DEF SettleInv
<1>5. CASE commands' # << >>
  <2>1. /\ Len(commands') \in 1..(Len(commands) - 1)
        /\ commands'[Len(commands')] = commands[Len(commands)]
    BY <1>3, <1>5
  <2> QED  BY <1>1, <1>2, <1>5, <2>1 DEF SettleInv
<1> QED  BY <1>4, <1>5

LEMMA SettleStep ==
  ASSUME AllInv, [Next]_vars
  PROVE  AllInv'
<1> USE DEF AllInv
<1>1. OrderInv'  BY OrderStep
<1>2. NavInv'  BY NavStep
<1> SUFFICES SettleInv'  BY <1>1, <1>2
<1>3. CASE Reader  BY <1>1, <1>2, <1>3, ReaderSends, SendSettles
<1>4. CASE Receive  BY <1>1, <1>2, <1>4, ReceiveSettles
<1>5. CASE Handle  BY <1>1, <1>2, <1>5, HandleSettles
<1>6. ASSUME UNCHANGED <<serial, received, commands, pending>>, unpublished' = TRUE
      PROVE  SettleInv'
  BY <1>6 DEF SettleInv
<1>7. ASSUME NEW i, Arrive(i) PROVE SettleInv'
  BY <1>6, <1>7 DEF Arrive, windowVars
<1>8. CASE PageNavigates
  <2>1. UNCHANGED <<serial, received, commands, pending>> /\ unpublished' = TRUE
    BY <1>8 DEF PageNavigates, windowVars
  <2> QED  BY <1>6, <2>1
<1>9. CASE Publish
  <2>1. /\ latest'.serial = received' /\ latest'.tabs = Captured' /\ latest'.active = browser'.active
        /\ UNCHANGED <<serial, received, commands, pending>>
    BY <1>9 DEF Publish, windowVars, Captured
  <2>2. latest' # NoSnapshot  BY <1>9, PublishKeepsNav
  <2>3. /\ commands' = << >> => received' = serial'
        /\ commands' # << >> => commands'[Len(commands')].serial = serial'
        /\ \A i \in 1..Len(pending') : pending'[i].serial \in Nat /\ pending'[i].serial <= serial'
    BY <2>1 DEF SettleInv
  <2> QED  BY <2>1, <2>2, <2>3 DEF SettleInv
<1>10. CASE UNCHANGED vars
  <2>1. UNCHANGED <<serial, received, commands, pending, latest, browser, unpublished,
                    snapshot, tabs, active>>
    BY <1>10 DEF vars, windowVars, ownerVars
  <2>2. Captured' = Captured  BY <2>1 DEF Captured
  <2> QED  BY <2>1, <2>2 DEF SettleInv
<1> QED  BY <1>1, <1>2, <1>3, <1>4, <1>5, <1>7, <1>8, <1>9, <1>10 DEF Next, Settled

(* Once every command is handled and the last snapshot read, the window    *)
(* shows the owner's strip and nothing waits to be acknowledged            *)
(* (WindowBrowser::receive over content_loop's mailbox), for any number of *)
(* inputs, tabs and navigations.                                           *)
THEOREM SettledWindowsAgree == Spec => []SettledAgree
<1>1. Init => AllInv  BY OrderInit, NavInit, SettleInit DEF AllInv
<1>2. AllInv /\ [Next]_vars => AllInv'  BY SettleStep
<1>3. AllInv => SettledAgree
  <2> SUFFICES ASSUME AllInv, commands = << >>, latest = NoSnapshot, ~unpublished
               PROVE  /\ pending = << >> /\ snapshot = serial
                      /\ tabs = Captured /\ active = browser.active
    BY DEF SettledAgree, Captured
  <2>1. received = serial /\ snapshot = received  BY DEF AllInv, SettleInv
  <2>2. \A i \in 1..Len(pending) : /\ pending[i].serial \in Nat /\ serial \in Nat
                                  /\ pending[i].serial <= serial /\ pending[i].serial > serial
    BY <2>1 DEF AllInv, SettleInv, OrderInv
  <2>3. \A i \in 1..Len(pending) : FALSE  BY <2>2
  <2>4. pending \in Seq(Waiting)  BY DEF AllInv, NavInv
  <2>5. pending = << >>  BY <2>3, <2>4
  <2> QED  BY <2>1, <2>5 DEF AllInv, SettleInv
<1> QED  BY <1>1, <1>2, <1>3, PTL DEF Spec
-----------------------------------------------------------------------------
(* The reader's strip. Identities and the place in front are all TabStrip  *)
(* speaks of; what an intent makes of them does not depend on the rest, in *)
(* the window and at the owner alike.                                      *)

IdView(s) == [ids |-> Ids(s.tabs), active |-> s.active]
Holds(ids, id) == \E i \in DOMAIN ids : ids[i] = id
Place(ids, id) == CHOOSE i \in DOMAIN ids : ids[i] = id
Distinct(ids) == \A i, j \in DOMAIN ids : ids[i] = ids[j] => i = j
Strips == {v \in [ids : Seq(Nat), active : Nat] : v.active \in DOMAIN v.ids /\ Distinct(v.ids)}

(* An intent that was made on strip v. *)
Fits(v, x) ==
    /\ x \in Intents /\ x.op # "none"
    /\ x.op = "open" => ~Holds(v.ids, x.id)
    /\ x.op # "open" => Holds(v.ids, x.id)
    /\ x.op = "close" => (x.with # None <=> Len(v.ids) = 1)
    /\ x.op = "close" /\ x.with # None => ~Holds(v.ids, x.with)

(* What it makes of the strip. *)
Closing(v, x) ==
    IF Len(v.ids) = 1 THEN [ids |-> <<x.with>>, active |-> 1]
    ELSE [ids |-> RemoveAt(v.ids, Place(v.ids, x.id)),
          active |-> IF Place(v.ids, x.id) < v.active THEN v.active - 1
                     ELSE Capped(v.active, Len(v.ids) - 1)]
Shuffled(v, x) ==
    InsertAt(RemoveAt(v.ids, Place(v.ids, x.id)), Capped(x.to, Len(v.ids)), x.id)
OnIds(v, x) ==
    CASE x.op = "open" -> [ids |-> Append(v.ids, x.id), active |-> Len(v.ids) + 1]
      [] x.op = "close" -> Closing(v, x)
      [] x.op = "select" -> [ids |-> v.ids, active |-> Place(v.ids, x.id)]
      [] x.op = "move" -> [ids |-> Shuffled(v, x), active |-> Place(Shuffled(v, x), v.ids[v.active])]

(* A place that is named is found. *)
LEMMA Placed ==
  ASSUME NEW ids, NEW id, Holds(ids, id)
  PROVE  Place(ids, id) \in DOMAIN ids /\ ids[Place(ids, id)] = id
  BY Zenon DEF Holds, Place

(* The identities of a list of tabs, place by place. *)
LEMMA IdsOf ==
  ASSUME NEW T, \A t \in T : t.id \in Nat, NEW s \in Seq(T)
  PROVE  /\ Ids(s) \in Seq(Nat) /\ Len(Ids(s)) = Len(s) /\ DOMAIN Ids(s) = DOMAIN s
         /\ \A i \in DOMAIN s : Ids(s)[i] = s[i].id
<1> DEFINE q == [i \in DOMAIN s |-> s[i].id]
<1>1. DOMAIN s = 1..Len(s) /\ Len(s) \in Nat /\ \A i \in 1..Len(s) : s[i] \in T  OBVIOUS
<1>2. q \in Seq(Nat) /\ Len(q) = Len(s) /\ DOMAIN q = DOMAIN s  BY <1>1
<1>3. Ids(s) = q  BY DEF Ids
<1> QED  BY <1>2, <1>3

(* Two lists of one length that agree place by place are one. *)
LEMMA SameList ==
  ASSUME NEW S, NEW a \in Seq(S), NEW b \in Seq(S), Len(a) = Len(b),
         \A i \in 1..Len(a) : a[i] = b[i]
  PROVE  a = b
  OBVIOUS

(* Adding, removing and inserting a tab does the same to the identities.   *)
LEMMA IdsAppend ==
  ASSUME NEW T, \A t \in T : t.id \in Nat, NEW s \in Seq(T), NEW e \in T
  PROVE  Ids(Append(s, e)) = Append(Ids(s), e.id)
<1>1. PICK a : a = Append(s, e)  OBVIOUS
<1>2. a \in Seq(T) /\ Len(a) = Len(s) + 1 /\ a[Len(s) + 1] = e
      /\ \A i \in 1..Len(s) : a[i] = s[i]
  BY <1>1
<1>3. /\ Ids(a) \in Seq(Nat) /\ Len(Ids(a)) = Len(a)
      /\ \A i \in 1..Len(a) : Ids(a)[i] = a[i].id
      /\ Ids(s) \in Seq(Nat) /\ Len(Ids(s)) = Len(s)
      /\ \A i \in 1..Len(s) : Ids(s)[i] = s[i].id
  BY <1>2, IdsOf
<1>4. PICK p, q : p = Ids(a) /\ q = Ids(s)  OBVIOUS
<1>5. p = Append(q, e.id)
  <2>1. e.id \in Nat  OBVIOUS
  <2>2. p \in Seq(Nat) /\ Len(p) = Len(q) + 1 /\ q \in Seq(Nat)  BY <1>2, <1>3, <1>4
  <2>3. PICK c : c = Append(q, e.id)  OBVIOUS
  <2>4. c \in Seq(Nat) /\ Len(c) = Len(q) + 1 /\ c[Len(q) + 1] = e.id
        /\ \A i \in 1..Len(q) : c[i] = q[i]
    BY <2>1, <2>2, <2>3
  <2>5. \A i \in 1..Len(p) : p[i] = c[i]
    <3> TAKE i \in 1..Len(p)
    <3>1. CASE i = Len(q) + 1  BY <1>2, <1>3, <1>4, <2>2, <2>4, <3>1
    <3>2. CASE i # Len(q) + 1
      <4>1. i \in 1..Len(q) /\ i \in 1..Len(s) /\ i \in 1..Len(a)
        BY <1>2, <1>3, <1>4, <2>2, <3>2
      <4> QED  BY <1>2, <1>3, <1>4, <2>4, <4>1
    <3> QED  BY <3>1, <3>2
  <2> QED  BY <2>2, <2>3, <2>4, <2>5, SameList
<1> QED  BY <1>1, <1>4, <1>5

LEMMA IdsRemove ==
  ASSUME NEW T, \A t \in T : t.id \in Nat, NEW s \in Seq(T), NEW i \in 1..Len(s)
  PROVE  Ids(RemoveAt(s, i)) = RemoveAt(Ids(s), i)
<1>1. PICK a, q : a = RemoveAt(s, i) /\ q = Ids(s)  OBVIOUS
<1>2. /\ a \in Seq(T) /\ Len(a) = Len(s) - 1
      /\ \A j \in 1..(i - 1) : a[j] = s[j]
      /\ \A j \in i..(Len(s) - 1) : a[j] = s[j + 1]
  BY <1>1, RemovedAt
<1>3. q \in Seq(Nat) /\ Len(q) = Len(s) /\ \A j \in 1..Len(s) : q[j] = s[j].id
  BY <1>1, IdsOf
<1>4. PICK p : p = Ids(a)  OBVIOUS
<1>5. p \in Seq(Nat) /\ Len(p) = Len(a) /\ \A j \in 1..Len(a) : p[j] = a[j].id
  BY <1>2, <1>4, IdsOf
<1>6. PICK c : c = RemoveAt(q, i)  OBVIOUS
<1>7. /\ c \in Seq(Nat) /\ Len(c) = Len(q) - 1
      /\ \A j \in 1..(i - 1) : c[j] = q[j]
      /\ \A j \in i..(Len(q) - 1) : c[j] = q[j + 1]
  <2>1. i \in 1..Len(q)  BY <1>3
  <2> QED  BY <1>3, <1>6, <2>1, RemovedAt
<1>8. \A j \in 1..Len(p) : p[j] = c[j]
  <2> TAKE j \in 1..Len(p)
  <2>0. Len(s) \in Nat /\ i \in Nat /\ j \in Nat /\ j \in 1..Len(a)  BY <1>5
  <2>1. CASE j < i
    <3>1. j \in 1..(i - 1) /\ j \in 1..Len(s)  BY <2>0, <2>1
    <3> QED  BY <1>2, <1>3, <1>5, <1>7, <2>0, <3>1
  <2>2. CASE j >= i
    <3>1. j \in i..(Len(s) - 1) /\ j + 1 \in 1..Len(s)  BY <1>2, <2>0, <2>2
    <3> QED  BY <1>2, <1>3, <1>5, <1>7, <2>0, <3>1
  <2> QED  BY <2>0, <2>1, <2>2
<1>9. Len(p) = Len(c)  BY <1>2, <1>3, <1>5, <1>7
<1>10. p = c  BY <1>5, <1>7, <1>8, <1>9, SameList
<1> QED  BY <1>1, <1>4, <1>6, <1>10

LEMMA InsertedId ==
  ASSUME NEW q \in Seq(Nat), NEW i \in 1..(Len(q) + 1), NEW y \in Nat
  PROVE  /\ InsertAt(q, i, y) \in Seq(Nat) /\ Len(InsertAt(q, i, y)) = Len(q) + 1
         /\ InsertAt(q, i, y)[i] = y
         /\ \A j \in 1..(i - 1) : InsertAt(q, i, y)[j] = q[j]
         /\ \A j \in i..Len(q) : InsertAt(q, i, y)[j + 1] = q[j]
<1>1. PICK N : N = Nat  OBVIOUS
<1>2. q \in Seq(N) /\ y \in N  BY <1>1
<1>3. LET c == InsertAt(q, i, y)
      IN  /\ c \in Seq(N) /\ Len(c) = Len(q) + 1 /\ c[i] = y
          /\ \A j \in 1..(i - 1) : c[j] = q[j]
          /\ \A j \in i..Len(q) : c[j + 1] = q[j]
  BY <1>2, InsertedAt
<1> QED  BY <1>1, <1>3

LEMMA IdsInsert ==
  ASSUME NEW T, \A t \in T : t.id \in Nat, NEW s \in Seq(T), NEW i \in 1..(Len(s) + 1), NEW e \in T
  PROVE  Ids(InsertAt(s, i, e)) = InsertAt(Ids(s), i, e.id)
<1>1. PICK a, q : a = InsertAt(s, i, e) /\ q = Ids(s)  OBVIOUS
<1>2. /\ a \in Seq(T) /\ Len(a) = Len(s) + 1 /\ a[i] = e
      /\ \A j \in 1..(i - 1) : a[j] = s[j]
      /\ \A j \in i..Len(s) : a[j + 1] = s[j]
  BY <1>1, InsertedAt
<1>3. q \in Seq(Nat) /\ Len(q) = Len(s) /\ \A j \in 1..Len(s) : q[j] = s[j].id
  BY <1>1, IdsOf
<1>4. PICK p : p = Ids(a)  OBVIOUS
<1>5. p \in Seq(Nat) /\ Len(p) = Len(a) /\ \A j \in 1..Len(a) : p[j] = a[j].id
  BY <1>2, <1>4, IdsOf
<1>6. PICK c : c = InsertAt(q, i, e.id)  OBVIOUS
<1>7. /\ c \in Seq(Nat) /\ Len(c) = Len(q) + 1 /\ c[i] = e.id
      /\ \A j \in 1..(i - 1) : c[j] = q[j]
      /\ \A j \in i..Len(q) : c[j + 1] = q[j]
  <2>1. PICK y : y = e.id  OBVIOUS
  <2>2. i \in 1..(Len(q) + 1) /\ y \in Nat /\ c = InsertAt(q, i, y)  BY <1>3, <1>6, <2>1
  <2> QED  BY <1>3, <2>1, <2>2, InsertedId
<1>8. \A j \in 1..Len(p) : p[j] = c[j]
  <2> TAKE j \in 1..Len(p)
  <2>0. Len(s) \in Nat /\ i \in Nat /\ j \in Nat /\ j \in 1..Len(a)  BY <1>5
  <2>1. CASE j < i
    <3>1. j \in 1..(i - 1) /\ j \in 1..Len(s)  BY <2>0, <2>1
    <3> QED  BY <1>2, <1>3, <1>5, <1>7, <2>0, <3>1
  <2>2. CASE j > i
    <3>1. PICK k \in i..Len(s) : j = k + 1
      <4>1. j - 1 \in i..Len(s) /\ j = (j - 1) + 1  BY <1>2, <2>0, <2>2
      <4> QED  BY <4>1
    <3>2. k \in 1..Len(s)  BY <2>0, <3>1
    <3>3. a[j] = s[k] /\ c[j] = q[k]  BY <1>2, <1>3, <1>7, <3>1
    <3> QED  BY <1>3, <1>5, <2>0, <3>2, <3>3
  <2>3. CASE j = i  BY <1>2, <1>5, <1>7, <2>0, <2>3
  <2> QED  BY <2>0, <2>1, <2>2, <2>3
<1>9. Len(p) = Len(c)  BY <1>2, <1>3, <1>5, <1>7
<1>10. p = c  BY <1>5, <1>7, <1>8, <1>9, SameList
<1> QED  BY <1>1, <1>4, <1>6, <1>10

(* The search by identity finds the same place. *)
LEMMA SamePlace ==
  ASSUME NEW T, \A t \in T : t.id \in Nat, NEW s \in Seq(T), Distinct(Ids(s)), NEW id
  PROVE  /\ Has(s, id) <=> Holds(Ids(s), id)
         /\ Has(s, id) => /\ IndexOf(s, id) = Place(Ids(s), id)
                          /\ IndexOf(s, id) \in 1..Len(s) /\ s[IndexOf(s, id)].id = id
<1>1. DOMAIN Ids(s) = DOMAIN s /\ \A i \in DOMAIN s : Ids(s)[i] = s[i].id  BY IdsOf
<1>2. Has(s, id) <=> Holds(Ids(s), id)  BY <1>1 DEF Has, Holds
<1>3. ASSUME Has(s, id) PROVE IndexOf(s, id) = Place(Ids(s), id)
  <2>1. IndexOf(s, id) \in DOMAIN s /\ s[IndexOf(s, id)].id = id  BY <1>3, Found
  <2>2. Place(Ids(s), id) \in DOMAIN Ids(s) /\ Ids(s)[Place(Ids(s), id)] = id
    BY <1>2, <1>3, Placed
  <2> QED  BY <1>1, <2>1, <2>2 DEF Distinct
<1>4. DOMAIN s = 1..Len(s)  OBVIOUS
<1> QED  BY <1>2, <1>3, <1>4, Found

(* Identities stay distinct without one ... *)
LEMMA DistinctWithout ==
  ASSUME NEW q \in Seq(Nat), Distinct(q), NEW i \in 1..Len(q)
  PROVE  /\ RemoveAt(q, i) \in Seq(Nat) /\ Len(RemoveAt(q, i)) = Len(q) - 1
         /\ Distinct(RemoveAt(q, i)) /\ ~Holds(RemoveAt(q, i), q[i])
         /\ \A k \in 1..Len(q) : k # i => Holds(RemoveAt(q, i), q[k])
         /\ \A j \in DOMAIN RemoveAt(q, i) : Holds(q, RemoveAt(q, i)[j])
<1>1. PICK r : r = RemoveAt(q, i)  OBVIOUS
<1>2. /\ r \in Seq(Nat) /\ Len(r) = Len(q) - 1
      /\ \A j \in 1..(i - 1) : r[j] = q[j]
      /\ \A j \in i..(Len(q) - 1) : r[j] = q[j + 1]
  BY <1>1, RemovedAt
<1>3. DOMAIN r = 1..(Len(q) - 1) /\ DOMAIN q = 1..Len(q) /\ i \in Nat /\ Len(q) \in Nat
  BY <1>2
<1>4. ASSUME NEW j \in DOMAIN r
      PROVE  \E k \in DOMAIN q : r[j] = q[k] /\ k = IF j < i THEN j ELSE j + 1
  <2>1. CASE j < i
    <3>1. j \in 1..(i - 1) /\ j \in DOMAIN q  BY <1>3, <2>1
    <3> QED  BY <1>2, <2>1, <3>1
  <2>2. CASE ~(j < i)
    <3>1. j \in i..(Len(q) - 1) /\ j + 1 \in DOMAIN q  BY <1>3, <2>2
    <3> QED  BY <1>2, <2>2, <3>1
  <2> QED  BY <2>1, <2>2
<1>5. Distinct(r)
  <2> SUFFICES ASSUME NEW j \in DOMAIN r, NEW m \in DOMAIN r, r[j] = r[m] PROVE j = m
    BY DEF Distinct
  <2>1. PICK k \in DOMAIN q : r[j] = q[k] /\ k = IF j < i THEN j ELSE j + 1  BY <1>4
  <2>2. PICK l \in DOMAIN q : r[m] = q[l] /\ l = IF m < i THEN m ELSE m + 1  BY <1>4
  <2>3. k = l  BY <2>1, <2>2 DEF Distinct
  <2> QED  BY <1>3, <2>1, <2>2, <2>3
<1>6. ~Holds(r, q[i])
  <2> SUFFICES ASSUME NEW j \in DOMAIN r, r[j] = q[i] PROVE FALSE  BY DEF Holds
  <2>1. PICK k \in DOMAIN q : r[j] = q[k] /\ k = IF j < i THEN j ELSE j + 1  BY <1>4
  <2>2. k = i  BY <1>3, <2>1 DEF Distinct
  <2> QED  BY <1>3, <2>1, <2>2
<1>7. ASSUME NEW k \in 1..Len(q), k # i PROVE Holds(r, q[k])
  <2>1. CASE k < i
    <3>1. k \in 1..(i - 1) /\ k \in DOMAIN r  BY <1>3, <2>1
    <3> QED  BY <1>2, <3>1 DEF Holds
  <2>2. CASE k > i
    <3>1. k - 1 \in i..(Len(q) - 1) /\ k - 1 \in DOMAIN r /\ (k - 1) + 1 = k  BY <1>3, <2>2
    <3> QED  BY <1>2, <3>1 DEF Holds
  <2> QED  BY <1>3, <1>7, <2>1, <2>2
<1>8. \A j \in DOMAIN r : Holds(q, r[j])  BY <1>4 DEF Holds
<1> QED  BY <1>1, <1>2, <1>5, <1>6, <1>7, <1>8

(* ... and with one more that was not there. *)
LEMMA DistinctWith ==
  ASSUME NEW q \in Seq(Nat), Distinct(q), NEW i \in 1..(Len(q) + 1), NEW y \in Nat, ~Holds(q, y)
  PROVE  /\ InsertAt(q, i, y) \in Seq(Nat) /\ Len(InsertAt(q, i, y)) = Len(q) + 1
         /\ Distinct(InsertAt(q, i, y)) /\ InsertAt(q, i, y)[i] = y
         /\ \A k \in 1..Len(q) : Holds(InsertAt(q, i, y), q[k])
         /\ \A j \in DOMAIN InsertAt(q, i, y) :
               InsertAt(q, i, y)[j] = y \/ Holds(q, InsertAt(q, i, y)[j])
<1>1. PICK r : r = InsertAt(q, i, y)  OBVIOUS
<1>2. /\ r \in Seq(Nat) /\ Len(r) = Len(q) + 1 /\ r[i] = y
      /\ \A j \in 1..(i - 1) : r[j] = q[j]
      /\ \A j \in i..Len(q) : r[j + 1] = q[j]
  BY <1>1, InsertedId
<1>3. DOMAIN r = 1..(Len(q) + 1) /\ DOMAIN q = 1..Len(q) /\ i \in Nat /\ Len(q) \in Nat
  BY <1>2
<1>4. ASSUME NEW j \in DOMAIN r, j # i
      PROVE  \E k \in DOMAIN q : r[j] = q[k] /\ k = IF j < i THEN j ELSE j - 1
  <2>1. CASE j < i
    <3>1. j \in 1..(i - 1) /\ j \in DOMAIN q  BY <1>3, <2>1
    <3> QED  BY <1>2, <2>1, <3>1
  <2>2. CASE ~(j < i)
    <3>1. j - 1 \in i..Len(q) /\ j - 1 \in DOMAIN q /\ (j - 1) + 1 = j  BY <1>3, <1>4, <2>2
    <3> QED  BY <1>2, <2>2, <3>1
  <2> QED  BY <2>1, <2>2
<1>5. Distinct(r)
  <2> SUFFICES ASSUME NEW j \in DOMAIN r, NEW m \in DOMAIN r, r[j] = r[m] PROVE j = m
    BY DEF Distinct
  <2>1. CASE j # i /\ m # i
    <3>1. PICK k \in DOMAIN q : r[j] = q[k] /\ k = IF j < i THEN j ELSE j - 1  BY <1>4, <2>1
    <3>2. PICK l \in DOMAIN q : r[m] = q[l] /\ l = IF m < i THEN m ELSE m - 1  BY <1>4, <2>1
    <3>3. k = l  BY <3>1, <3>2 DEF Distinct
    <3> QED  BY <1>3, <2>1, <3>1, <3>2, <3>3
  <2>2. CASE j # i /\ m = i
    <3>1. PICK k \in DOMAIN q : r[j] = q[k]  BY <1>4, <2>2
    <3> QED  BY <1>2, <2>2, <3>1 DEF Holds
  <2>3. CASE j = i /\ m # i
    <3>1. PICK k \in DOMAIN q : r[m] = q[k]  BY <1>4, <2>3
    <3> QED  BY <1>2, <2>3, <3>1 DEF Holds
  <2> QED  BY <2>1, <2>2, <2>3
<1>6. ASSUME NEW k \in 1..Len(q) PROVE Holds(r, q[k])
  <2>1. CASE k < i
    <3>1. k \in 1..(i - 1) /\ k \in DOMAIN r  BY <1>3, <2>1
    <3> QED  BY <1>2, <3>1 DEF Holds
  <2>2. CASE ~(k < i)
    <3>1. k \in i..Len(q) /\ k + 1 \in DOMAIN r  BY <1>3, <2>2
    <3> QED  BY <1>2, <3>1 DEF Holds
  <2> QED  BY <2>1, <2>2
<1>7. \A j \in DOMAIN r : r[j] = y \/ Holds(q, r[j])  BY <1>2, <1>4 DEF Holds
<1> QED  BY <1>1, <1>2, <1>5, <1>6, <1>7

(* What an intent makes of a strip is a strip. *)
LEMMA OpenOnIds ==
  ASSUME NEW v \in Strips, NEW x, Fits(v, x), x.op = "open"
  PROVE  OnIds(v, x) = [ids |-> Append(v.ids, x.id), active |-> Len(v.ids) + 1]
         /\ OnIds(v, x) \in Strips
<1>1. OnIds(v, x) = [ids |-> Append(v.ids, x.id), active |-> Len(v.ids) + 1]  BY DEF OnIds
<1>2. v.ids \in Seq(Nat) /\ x.id \in Nat /\ Distinct(v.ids) /\ ~Holds(v.ids, x.id)
  BY DEF Strips, Fits, Intents
<1>3. PICK q : q = Append(v.ids, x.id)  OBVIOUS
<1>4. /\ q \in Seq(Nat) /\ Len(q) = Len(v.ids) + 1 /\ DOMAIN q = 1..(Len(v.ids) + 1)
      /\ \A i \in 1..Len(v.ids) : q[i] = v.ids[i]
      /\ q[Len(v.ids) + 1] = x.id /\ DOMAIN v.ids = 1..Len(v.ids) /\ Len(v.ids) \in Nat
  BY <1>2, <1>3
<1>5. Distinct(q)
  <2> SUFFICES ASSUME NEW j \in DOMAIN q, NEW m \in DOMAIN q, q[j] = q[m] PROVE j = m
    BY DEF Distinct
  <2>1. \A k \in DOMAIN q : k \in DOMAIN v.ids \/ k = Len(v.ids) + 1  BY <1>4
  <2> QED  BY <1>2, <1>4, <2>1 DEF Distinct, Holds
<1>6. PICK a : a = Len(v.ids) + 1  OBVIOUS
<1>7. a \in Nat /\ a \in DOMAIN q  BY <1>4, <1>6
<1>8. [ids |-> q, active |-> a] \in Strips  BY <1>4, <1>5, <1>7 DEF Strips
<1> QED  BY <1>1, <1>3, <1>6, <1>8

LEMMA CloseOnIds ==
  ASSUME NEW v \in Strips, NEW x, Fits(v, x), x.op = "close"
  PROVE  OnIds(v, x) = Closing(v, x) /\ OnIds(v, x) \in Strips
<1>1. OnIds(v, x) = Closing(v, x)  BY DEF OnIds
<1>2. /\ v.ids \in Seq(Nat) /\ x.with \in Nat /\ Distinct(v.ids) /\ Holds(v.ids, x.id)
      /\ v.active \in 1..Len(v.ids)
  BY DEF Strips, Fits, Intents
<1>3. CASE Len(v.ids) = 1
  <2>1. Closing(v, x) = [ids |-> <<x.with>>, active |-> 1]  BY <1>3 DEF Closing
  <2>2. PICK y : y = x.with  OBVIOUS
  <2>3. <<y>> \in Seq(Nat) /\ DOMAIN <<y>> = {1} /\ Distinct(<<y>>)
    BY <1>2, <2>2 DEF Distinct
  <2> QED  BY <1>1, <2>1, <2>2, <2>3 DEF Strips
<1>4. CASE Len(v.ids) # 1
  <2>1. PICK i, q : i = Place(v.ids, x.id) /\ q = RemoveAt(v.ids, i)  OBVIOUS
  <2>2. i \in 1..Len(v.ids)  BY <1>2, <2>1, Placed
  <2>3. q \in Seq(Nat) /\ Len(q) = Len(v.ids) - 1 /\ Distinct(q)
    BY <1>2, <2>1, <2>2, DistinctWithout
  <2>4. PICK a : a = IF i < v.active THEN v.active - 1 ELSE Capped(v.active, Len(v.ids) - 1)
    OBVIOUS
  <2>5. Closing(v, x) = [ids |-> q, active |-> a]  BY <1>4, <2>1, <2>4 DEF Closing
  <2>6. a \in 1..Len(q) /\ a \in Nat
    <3>1. PICK n, b : n = Len(v.ids) /\ b = v.active  OBVIOUS
    <3>2. n \in Nat /\ n # 0 /\ n # 1 /\ b \in 1..n /\ i \in 1..n /\ Len(q) = n - 1
      BY <1>2, <1>4, <2>2, <2>3, <3>1
    <3>3. a = IF i < b THEN b - 1 ELSE IF b > n - 1 THEN n - 1 ELSE b
      BY <2>4, <3>1 DEF Capped
    <3> QED  BY <3>2, <3>3
  <2> QED  BY <1>1, <2>3, <2>5, <2>6 DEF Strips
<1> QED  BY <1>3, <1>4

LEMMA SelectOnIds ==
  ASSUME NEW v \in Strips, NEW x, Fits(v, x), x.op = "select"
  PROVE  OnIds(v, x) = [ids |-> v.ids, active |-> Place(v.ids, x.id)]
         /\ OnIds(v, x) \in Strips
<1>1. OnIds(v, x) = [ids |-> v.ids, active |-> Place(v.ids, x.id)]  BY DEF OnIds
<1>2. v.ids \in Seq(Nat) /\ Distinct(v.ids) /\ Holds(v.ids, x.id)  BY DEF Strips, Fits
<1>3. Place(v.ids, x.id) \in DOMAIN v.ids  BY <1>2, Placed
<1>4. Place(v.ids, x.id) \in Nat  BY <1>2, <1>3
<1> QED  BY <1>1, <1>2, <1>3, <1>4 DEF Strips

LEMMA MoveOnIds ==
  ASSUME NEW v \in Strips, NEW x, Fits(v, x), x.op = "move"
  PROVE  /\ OnIds(v, x) = [ids |-> Shuffled(v, x), active |-> Place(Shuffled(v, x), v.ids[v.active])]
         /\ OnIds(v, x) \in Strips /\ Len(Shuffled(v, x)) = Len(v.ids)
         /\ Place(v.ids, x.id) \in 1..Len(v.ids) /\ v.ids[Place(v.ids, x.id)] = x.id
         /\ Capped(x.to, Len(v.ids)) \in 1..Len(v.ids)
         /\ Holds(Shuffled(v, x), v.ids[v.active])
<1>1. OnIds(v, x) = [ids |-> Shuffled(v, x), active |-> Place(Shuffled(v, x), v.ids[v.active])]
  BY DEF OnIds
<1>2. /\ v.ids \in Seq(Nat) /\ Distinct(v.ids) /\ Holds(v.ids, x.id) /\ x.id \in Nat
      /\ v.active \in 1..Len(v.ids) /\ x.to \in Nat \ {0}
  BY DEF Strips, Fits, Intents
<1>3. PICK i, q, at, y : /\ i = Place(v.ids, x.id) /\ q = RemoveAt(v.ids, i)
                         /\ at = Capped(x.to, Len(v.ids)) /\ y = x.id
  OBVIOUS
<1>4. i \in 1..Len(v.ids) /\ v.ids[i] = y  BY <1>2, <1>3, Placed
<1>5. at \in 1..Len(v.ids)
  <2>1. x.to \in Nat /\ x.to # 0 /\ Len(v.ids) \in Nat /\ Len(v.ids) # 0  BY <1>2, <1>4
  <2> QED  BY <1>3, <2>1, CappedIn
<1>6. /\ q \in Seq(Nat) /\ Len(q) = Len(v.ids) - 1 /\ Distinct(q) /\ ~Holds(q, y)
      /\ \A k \in 1..Len(v.ids) : k # i => Holds(q, v.ids[k])
  <2>1. PICK s : s = v.ids  OBVIOUS
  <2>2. s \in Seq(Nat) /\ Distinct(s) /\ i \in 1..Len(s) /\ q = RemoveAt(s, i) /\ s[i] = y
    BY <1>2, <1>3, <1>4, <2>1
  <2> QED  BY <2>1, <2>2, DistinctWithout
<1>7. PICK r : r = InsertAt(q, at, y)  OBVIOUS
<1>8. /\ r \in Seq(Nat) /\ Len(r) = Len(q) + 1 /\ Distinct(r) /\ r[at] = y
      /\ \A k \in 1..Len(q) : Holds(r, q[k])
  <2>1. at \in 1..(Len(q) + 1) /\ y \in Nat  BY <1>2, <1>3, <1>5, <1>6
  <2> QED  BY <1>6, <1>7, <2>1, DistinctWith
<1>9. Holds(r, v.ids[v.active])
  <2>1. CASE v.active = i
    <3>1. at \in DOMAIN r  BY <1>5, <1>6, <1>8
    <3> QED  BY <1>4, <1>8, <2>1, <3>1 DEF Holds
  <2>2. CASE v.active # i
    <3>1. Holds(q, v.ids[v.active])  BY <1>2, <1>6, <2>2
    <3>2. PICK k \in DOMAIN q : q[k] = v.ids[v.active]  BY <3>1 DEF Holds
    <3>3. k \in 1..Len(q)  BY <1>6
    <3>4. Holds(r, q[k])  BY <1>8, <3>3
    <3> QED  BY <3>2, <3>4
  <2> QED  BY <2>1, <2>2
<1>10. Shuffled(v, x) = r  BY <1>3, <1>7 DEF Shuffled
<1>11. PICK a : a = Place(r, v.ids[v.active])  OBVIOUS
<1>12. a \in DOMAIN r /\ a \in Nat  BY <1>8, <1>9, <1>11, Placed
<1>13. [ids |-> r, active |-> a] \in Strips  BY <1>8, <1>12 DEF Strips
<1>14. Len(r) = Len(v.ids)  BY <1>2, <1>6, <1>8
<1> QED  BY <1>1, <1>3, <1>4, <1>5, <1>9, <1>10, <1>11, <1>13, <1>14

LEMMA OnIdsIsStrip ==
  ASSUME NEW v \in Strips, NEW x, Fits(v, x)
  PROVE  OnIds(v, x) \in Strips
<1>1. x.op \in {"open", "close", "select", "move"}  BY DEF Fits, Intents, Ops
<1> QED  BY <1>1, OpenOnIds, CloseOnIds, SelectOnIds, MoveOnIds

(* The window's projection does that ... *)
LEMMA ProjectOnIds ==
  ASSUME NEW n \in Nat \ {0}, NEW s \in Views(n), IdView(s) \in Strips,
         NEW x, Fits(IdView(s), x)
  PROVE  IdView(Project(s, x)) = OnIds(IdView(s), x)
<1>1. PICK v, T, ids : v = IdView(s) /\ T = WindowTabs(n) /\ ids = Ids(s.tabs)  OBVIOUS
<1>2. /\ s.tabs \in Seq(T) /\ \A t \in T : t.id \in Nat
      /\ v.ids = ids /\ v.active = s.active /\ s.active \in 1..Len(s.tabs)
      /\ v \in Strips /\ Fits(v, x) /\ x \in Intents /\ Distinct(ids)
      /\ ids \in Seq(Nat) /\ Len(ids) = Len(s.tabs)
      /\ \A i \in 1..Len(ids) : ids[i] = s.tabs[i].id
  <2>1. s.tabs \in Seq(T) /\ \A t \in T : t.id \in Nat  BY <1>1 DEF Views, WindowTabs
  <2>2. ids \in Seq(Nat) /\ Len(ids) = Len(s.tabs) /\ DOMAIN ids = DOMAIN s.tabs
        /\ \A i \in DOMAIN s.tabs : ids[i] = s.tabs[i].id
    BY <1>1, <2>1, IdsOf
  <2>3. v.ids = ids /\ v.active = s.active /\ v \in Strips /\ Fits(v, x) /\ x \in Intents
    BY <1>1 DEF IdView, Fits
  <2> QED  BY <2>1, <2>2, <2>3 DEF Strips
<1>3. \A id : Holds(ids, id) =>
            /\ Has(s.tabs, id) /\ IndexOf(s.tabs, id) = Place(ids, id)
            /\ Place(ids, id) \in 1..Len(ids)
            /\ s.tabs[Place(ids, id)].id = id
  BY <1>1, <1>2, SamePlace
<1>4. \A i \in Nat : FromTab(Blank(i)) \in T /\ FromTab(Blank(i)).id = i
  BY <1>1, BlankInView DEF FromTab, Blank
<1>5. CASE x.op = "open"
  <2>1. PICK t : t = FromTab(Blank(x.id))  OBVIOUS
  <2>2. t \in T /\ t.id = x.id  BY <1>2, <1>4, <2>1 DEF Intents
  <2>3. Project(s, x) = [tabs |-> Append(s.tabs, t), active |-> Len(s.tabs) + 1]
    BY <1>5, <2>1 DEF Project
  <2>4. Ids(Append(s.tabs, t)) = Append(ids, x.id)  BY <1>1, <1>2, <2>2, IdsAppend
  <2>5. IdView(Project(s, x)) = [ids |-> Append(ids, x.id), active |-> Len(ids) + 1]
    <3>1. PICK q, a : q = Append(s.tabs, t) /\ a = Len(s.tabs) + 1  OBVIOUS
    <3>2. Project(s, x) = [tabs |-> q, active |-> a]  BY <2>3, <3>1
    <3>3. IdView(Project(s, x)) = [ids |-> Ids(q), active |-> a]  BY <3>2 DEF IdView
    <3>4. a = Len(ids) + 1  BY <1>2, <3>1
    <3> QED  BY <2>4, <3>1, <3>3, <3>4
  <2> QED  BY <1>1, <1>2, <1>5, <2>5, OpenOnIds
<1>6. CASE x.op = "close"
  <2>1. PICK i, rest : i = Place(ids, x.id) /\ rest = RemoveAt(s.tabs, i)  OBVIOUS
  <2>2. Holds(ids, x.id) /\ (x.with # None <=> Len(ids) = 1)  BY <1>2, <1>6 DEF Fits
  <2>3. Has(s.tabs, x.id) /\ IndexOf(s.tabs, x.id) = i /\ i \in 1..Len(ids)
    BY <1>3, <2>1, <2>2
  <2>4. rest \in Seq(T) /\ Len(rest) = Len(ids) - 1
    <3>1. PICK q : q = s.tabs  OBVIOUS
    <3>2. q \in Seq(T) /\ i \in 1..Len(q) /\ rest = RemoveAt(q, i) /\ Len(q) = Len(ids)
      BY <1>2, <2>1, <2>3, <3>1
    <3> QED  BY <3>2, RemovedAt
  <2>5. PICK t : t = FromTab(Blank(x.with))  OBVIOUS
  <2>6. t \in T /\ t.id = x.with  BY <1>2, <1>4, <2>5 DEF Intents
  <2>7. PICK all : all = IF x.with = None THEN rest ELSE Append(rest, t)  OBVIOUS
  <2>8. Project(s, x) = [tabs |-> all, active |-> FrontAfterClose(s, i, all)]
    BY <1>6, <2>1, <2>3, <2>5, <2>7 DEF Project
  <2>9. CASE Len(ids) = 1
    <3>1. rest = << >> /\ all = <<t>> /\ i = 1 /\ s.active = 1
      BY <1>2, <2>2, <2>3, <2>4, <2>6, <2>7, <2>9
    <3>2. FrontAfterClose(s, i, all) = 1
      BY <3>1 DEF FrontAfterClose, UpperEnd, Capped
    <3>3. Ids(<<t>>) = <<x.with>>
      <4>1. Ids(<< >>) = << >>  BY DEF Ids
      <4>2. << >> \in Seq(T)  OBVIOUS
      <4>3. Ids(Append(<< >>, t)) = Append(Ids(<< >>), t.id)
        BY <1>2, <2>6, <4>2, IdsAppend
      <4>4. Append(<< >>, t) = <<t>> /\ Append(<< >>, t.id) = <<t.id>>  OBVIOUS
      <4> QED  BY <2>6, <4>1, <4>3, <4>4
    <3>4. IdView(Project(s, x)) = [ids |-> <<x.with>>, active |-> 1]
      BY <2>8, <3>1, <3>2, <3>3 DEF IdView
    <3>5. Closing(v, x) = [ids |-> <<x.with>>, active |-> 1]
      BY <1>2, <2>9 DEF Closing
    <3> QED  BY <1>1, <1>2, <1>6, <3>4, <3>5, CloseOnIds
  <2>10. CASE Len(ids) # 1
    <3>1. all = rest  BY <2>2, <2>7, <2>10
    <3>2. Ids(rest) = RemoveAt(ids, i)  BY <1>1, <1>2, <2>1, <2>3, IdsRemove
    <3>3. FrontAfterClose(s, i, all) = IF i < s.active THEN s.active - 1
                                       ELSE Capped(s.active, Len(ids) - 1)
      <4>1. PICK m, a : m = Len(ids) /\ a = s.active  OBVIOUS
      <4>2. m \in Nat /\ m # 1 /\ i \in 1..m /\ a \in 1..m /\ Len(all) = m - 1
            /\ all \in Seq(T)
        BY <1>2, <2>3, <2>4, <2>10, <3>1, <4>1
      <4>3. UpperEnd(all) = m - 1  BY <4>2 DEF UpperEnd
      <4>4. FrontAfterClose(s, i, all) = Capped(IF i < a THEN a - 1 ELSE a, m - 1)
        BY <4>1, <4>3 DEF FrontAfterClose
      <4>5. i < a => Capped(a - 1, m - 1) = a - 1  BY <4>2 DEF Capped
      <4> QED  BY <4>1, <4>4, <4>5
    <3>4. IdView(Project(s, x)) =
            [ids |-> RemoveAt(ids, i),
             active |-> IF i < s.active THEN s.active - 1 ELSE Capped(s.active, Len(ids) - 1)]
      BY <2>8, <3>1, <3>2, <3>3 DEF IdView
    <3>5. Closing(v, x) =
            [ids |-> RemoveAt(ids, i),
             active |-> IF i < s.active THEN s.active - 1 ELSE Capped(s.active, Len(ids) - 1)]
      BY <1>2, <2>1, <2>10 DEF Closing
    <3> QED  BY <1>1, <1>2, <1>6, <3>4, <3>5, CloseOnIds
  <2> QED  BY <2>9, <2>10
<1>7. CASE x.op = "select"
  <2>1. Holds(ids, x.id)  BY <1>2, <1>7 DEF Fits
  <2>2. Project(s, x) = [s EXCEPT !.active = Place(ids, x.id)]
    BY <1>3, <1>7, <2>1 DEF Project
  <2>3. IdView(Project(s, x)) = [ids |-> ids, active |-> Place(ids, x.id)]
    BY <1>1, <2>2 DEF IdView, Views
  <2> QED  BY <1>1, <1>2, <1>7, <2>3, SelectOnIds
<1>8. CASE x.op = "move"
  <2>1. PICK i, at, front : i = Place(ids, x.id) /\ at = Capped(x.to, Len(ids)) /\ front = ids[s.active]
    OBVIOUS
  <2>2. /\ Holds(ids, x.id) /\ at \in 1..Len(ids)
        /\ OnIds(v, x) = [ids |-> Shuffled(v, x), active |-> Place(Shuffled(v, x), front)]
        /\ Shuffled(v, x) = InsertAt(RemoveAt(ids, i), at, x.id)
        /\ Holds(Shuffled(v, x), front) /\ OnIds(v, x) \in Strips
    BY <1>2, <1>8, <2>1, MoveOnIds DEF Fits, Shuffled
  <2>3. Has(s.tabs, x.id) /\ IndexOf(s.tabs, x.id) = i /\ i \in 1..Len(ids)
        /\ s.tabs[i].id = x.id
    BY <1>3, <2>1, <2>2
  <2>4. PICK rest, moved : rest = RemoveAt(s.tabs, i) /\ moved = InsertAt(rest, at, s.tabs[i])
    OBVIOUS
  <2>5. Project(s, x) = [tabs |-> moved, active |-> IndexOf(moved, front)]
    BY <1>2, <1>8, <2>1, <2>3, <2>4 DEF Project
  <2>6. Ids(moved) = Shuffled(v, x) /\ moved \in Seq(T)
    <3>1. rest \in Seq(T) /\ Len(rest) = Len(ids) - 1
      <4>1. PICK q : q = s.tabs  OBVIOUS
      <4>2. q \in Seq(T) /\ i \in 1..Len(q) /\ rest = RemoveAt(q, i) /\ Len(q) = Len(ids)
        BY <1>2, <2>3, <2>4, <4>1
      <4> QED  BY <4>2, RemovedAt
    <3>2. PICK e : e = s.tabs[i]  OBVIOUS
    <3>3. e \in T /\ e.id = x.id /\ at \in 1..(Len(rest) + 1)  BY <1>2, <2>2, <2>3, <3>1, <3>2
    <3>4. Ids(rest) = RemoveAt(ids, i)  BY <1>1, <1>2, <2>3, <2>4, IdsRemove
    <3>5. moved = InsertAt(rest, at, e)  BY <2>4, <3>2
    <3>6. Ids(moved) = InsertAt(Ids(rest), at, e.id)  BY <1>2, <3>1, <3>3, <3>5, IdsInsert
    <3>7. moved \in Seq(T)  BY <3>1, <3>3, <3>5, InsertedAt
    <3> QED  BY <2>2, <3>3, <3>4, <3>6, <3>7
  <2>7. Distinct(Shuffled(v, x))  BY <2>2 DEF Strips
  <2>8. IndexOf(moved, front) = Place(Shuffled(v, x), front)
    BY <1>2, <2>2, <2>6, <2>7, SamePlace
  <2>9. IdView(Project(s, x)) = [ids |-> Shuffled(v, x), active |-> Place(Shuffled(v, x), front)]
    BY <2>5, <2>6, <2>8 DEF IdView
  <2> QED  BY <1>1, <2>2, <2>9
<1>9. x.op \in {"open", "close", "select", "move"}  BY DEF Fits, Intents, Ops
<1> QED  BY <1>5, <1>6, <1>7, <1>8, <1>9

(* ... and so does the owner, which takes the replacement's name over.     *)
LEMMA ApplyOnIds ==
  ASSUME NEW n \in Nat \ {0}, NEW b \in Browsers(n), IdView(b) \in Strips,
         NEW x, Fits(IdView(b), x), NEW fresh \in Nat
  PROVE  IdView(Apply(b, x, fresh)) = OnIds(IdView(b), x)
<1>1. PICK v, T, ids : v = IdView(b) /\ T = OwnerTabs(n) /\ ids = Ids(b.tabs)  OBVIOUS
<1>2. /\ b.tabs \in Seq(T) /\ \A t \in T : t.id \in Nat
      /\ b = [tabs |-> b.tabs, active |-> b.active]
      /\ v.ids = ids /\ v.active = b.active /\ b.active \in 1..Len(b.tabs)
      /\ v \in Strips /\ Fits(v, x) /\ x \in Intents /\ Distinct(ids)
      /\ ids \in Seq(Nat) /\ Len(ids) = Len(b.tabs)
      /\ \A i \in 1..Len(ids) : ids[i] = b.tabs[i].id
  <2>1. b.tabs \in Seq(T) /\ (\A t \in T : t.id \in Nat)
        /\ b = [tabs |-> b.tabs, active |-> b.active]
    BY <1>1 DEF Browsers, OwnerTabs
  <2>2. ids \in Seq(Nat) /\ Len(ids) = Len(b.tabs) /\ DOMAIN ids = DOMAIN b.tabs
        /\ \A i \in DOMAIN b.tabs : ids[i] = b.tabs[i].id
    BY <1>1, <2>1, IdsOf
  <2>3. v.ids = ids /\ v.active = b.active /\ v \in Strips /\ Fits(v, x) /\ x \in Intents
    BY <1>1 DEF IdView, Fits
  <2> QED  BY <2>1, <2>2, <2>3 DEF Strips
<1>3. \A id : Holds(ids, id) =>
            /\ Has(b.tabs, id) /\ IndexOf(b.tabs, id) = Place(ids, id)
            /\ Place(ids, id) \in 1..Len(ids)
            /\ b.tabs[Place(ids, id)].id = id
  BY <1>1, <1>2, SamePlace
<1>4. \A i \in Nat : Blank(i) \in T /\ Blank(i).id = i
  BY <1>1, BlankIsOwned DEF Blank
<1>5. CASE x.op = "open"
  <2>1. PICK t : t = Blank(x.id)  OBVIOUS
  <2>2. t \in T /\ t.id = x.id  BY <1>2, <1>4, <2>1 DEF Intents
  <2>3. PICK q, a : q = Append(b.tabs, t) /\ a = Len(b.tabs) + 1  OBVIOUS
  <2>4. Apply(b, x, fresh) = [tabs |-> q, active |-> a]
    BY <1>5, <2>1, <2>3 DEF Apply
  <2>5. Ids(Append(b.tabs, t)) = Append(ids, x.id)  BY <1>1, <1>2, <2>2, IdsAppend
  <2>6. IdView(Apply(b, x, fresh)) = [ids |-> Ids(q), active |-> a]  BY <2>4 DEF IdView
  <2>7. a = Len(ids) + 1  BY <1>2, <2>3
  <2> QED  BY <1>1, <1>2, <1>5, <2>3, <2>5, <2>6, <2>7, OpenOnIds
<1>6. CASE x.op = "close"
  <2>1. PICK i, rest : i = Place(ids, x.id) /\ rest = RemoveAt(b.tabs, i)  OBVIOUS
  <2>2. Holds(ids, x.id) /\ (x.with # None <=> Len(ids) = 1)  BY <1>2, <1>6 DEF Fits
  <2>3. Has(b.tabs, x.id) /\ IndexOf(b.tabs, x.id) = i /\ i \in 1..Len(ids)
    BY <1>3, <2>1, <2>2
  <2>4. rest \in Seq(T) /\ Len(rest) = Len(ids) - 1
    <3>1. PICK q : q = b.tabs  OBVIOUS
    <3>2. q \in Seq(T) /\ i \in 1..Len(q) /\ rest = RemoveAt(q, i) /\ Len(q) = Len(ids)
      BY <1>2, <2>1, <2>3, <3>1
    <3> QED  BY <3>2, RemovedAt
  <2>5. PICK c : c = CloseTab(b, i, fresh)  OBVIOUS
  <2>6. /\ c = IF rest = << >> THEN [tabs |-> <<Blank(fresh)>>, active |-> 1]
               ELSE [tabs |-> rest, active |-> OwnerFront(b, i, rest)]
        /\ Apply(b, x, fresh) = IF x.with = None THEN c ELSE [c EXCEPT !.tabs[1] = Blank(x.with)]
    BY <1>6, <2>1, <2>3, <2>5 DEF Apply, CloseTab
  <2>7. CASE Len(ids) = 1
    <3>1. rest = << >> /\ x.with # None  BY <2>2, <2>4, <2>7
    <3>2. PICK t, u : t = Blank(x.with) /\ u = Blank(fresh)  OBVIOUS
    <3>3. c = [tabs |-> <<u>>, active |-> 1]  BY <2>6, <3>1, <3>2
    <3>4. Apply(b, x, fresh) = [c EXCEPT !.tabs[1] = t]  BY <2>6, <3>1, <3>2
    <3>5. Apply(b, x, fresh) = [tabs |-> <<t>>, active |-> 1]
      <4>1. [<<u>> EXCEPT ![1] = t] = <<t>>  OBVIOUS
      <4> QED  BY <3>3, <3>4, <4>1
    <3>6. t \in T /\ t.id = x.with  BY <1>2, <1>4, <3>2 DEF Intents
    <3>7. Ids(<<t>>) = <<x.with>>
      <4>1. Ids(<< >>) = << >>  BY DEF Ids
      <4>2. << >> \in Seq(T)  OBVIOUS
      <4>3. Ids(Append(<< >>, t)) = Append(Ids(<< >>), t.id)
        BY <1>2, <3>6, <4>2, IdsAppend
      <4>4. Append(<< >>, t) = <<t>> /\ Append(<< >>, t.id) = <<t.id>>  OBVIOUS
      <4> QED  BY <3>6, <4>1, <4>3, <4>4
    <3>8. IdView(Apply(b, x, fresh)) = [ids |-> <<x.with>>, active |-> 1]
      BY <3>5, <3>7 DEF IdView
    <3>9. Closing(v, x) = [ids |-> <<x.with>>, active |-> 1]
      BY <1>2, <2>7 DEF Closing
    <3> QED  BY <1>1, <1>2, <1>6, <3>8, <3>9, CloseOnIds
  <2>8. CASE Len(ids) # 1
    <3>1. x.with = None /\ Len(rest) # 0  BY <1>2, <2>2, <2>3, <2>4, <2>8
    <3>2. rest # << >>  BY <3>1
    <3>3. Apply(b, x, fresh) = [tabs |-> rest, active |-> OwnerFront(b, i, rest)]
      BY <2>6, <3>1, <3>2
    <3>4. Ids(rest) = RemoveAt(ids, i)  BY <1>1, <1>2, <2>1, <2>3, IdsRemove
    <3>5. OwnerFront(b, i, rest) = IF i < b.active THEN b.active - 1
                                   ELSE Capped(b.active, Len(ids) - 1)
      <4>1. PICK m, a : m = Len(ids) /\ a = b.active  OBVIOUS
      <4>2. m \in Nat /\ m # 1 /\ i \in 1..m /\ a \in 1..m /\ Len(rest) = m - 1
        BY <1>2, <2>3, <2>4, <2>8, <4>1
      <4>3. OwnerFront(b, i, rest) = IF i < a THEN a - 1
                                     ELSE IF i = a THEN Capped(i, m - 1) ELSE a
        BY <4>1, <4>2 DEF OwnerFront
      <4>4. ~(i < a) /\ i # a => Capped(a, m - 1) = a  BY <4>2 DEF Capped
      <4> QED  BY <4>1, <4>2, <4>3, <4>4
    <3>6. IdView(Apply(b, x, fresh)) =
            [ids |-> RemoveAt(ids, i),
             active |-> IF i < b.active THEN b.active - 1 ELSE Capped(b.active, Len(ids) - 1)]
      BY <3>3, <3>4, <3>5 DEF IdView
    <3>7. Closing(v, x) =
            [ids |-> RemoveAt(ids, i),
             active |-> IF i < b.active THEN b.active - 1 ELSE Capped(b.active, Len(ids) - 1)]
      BY <1>2, <2>1, <2>8 DEF Closing
    <3> QED  BY <1>1, <1>2, <1>6, <3>6, <3>7, CloseOnIds
  <2> QED  BY <2>7, <2>8
<1>7. CASE x.op = "select"
  <2>1. Holds(ids, x.id)  BY <1>2, <1>7 DEF Fits
  <2>2. Apply(b, x, fresh) = [b EXCEPT !.active = Place(ids, x.id)]
    BY <1>3, <1>7, <2>1 DEF Apply
  <2>3. Apply(b, x, fresh) = [tabs |-> b.tabs, active |-> Place(ids, x.id)]
    BY <1>2, <2>2
  <2>4. IdView(Apply(b, x, fresh)) = [ids |-> ids, active |-> Place(ids, x.id)]
    BY <1>1, <2>3 DEF IdView
  <2> QED  BY <1>1, <1>2, <1>7, <2>4, SelectOnIds
<1>8. CASE x.op = "move"
  <2>1. PICK i, at, front : i = Place(ids, x.id) /\ at = Capped(x.to, Len(ids)) /\ front = ids[b.active]
    OBVIOUS
  <2>2. /\ Holds(ids, x.id) /\ at \in 1..Len(ids)
        /\ OnIds(v, x) = [ids |-> Shuffled(v, x), active |-> Place(Shuffled(v, x), front)]
        /\ Shuffled(v, x) = InsertAt(RemoveAt(ids, i), at, x.id)
        /\ Holds(Shuffled(v, x), front) /\ OnIds(v, x) \in Strips
    BY <1>2, <1>8, <2>1, MoveOnIds DEF Fits, Shuffled
  <2>3. Has(b.tabs, x.id) /\ IndexOf(b.tabs, x.id) = i /\ i \in 1..Len(ids)
        /\ b.tabs[i].id = x.id
    BY <1>3, <2>1, <2>2
  <2>4. PICK rest, moved : rest = RemoveAt(b.tabs, i) /\ moved = InsertAt(rest, at, b.tabs[i])
    OBVIOUS
  <2>5. Apply(b, x, fresh) = [tabs |-> moved, active |-> IndexOf(moved, front)]
    BY <1>2, <1>8, <2>1, <2>3, <2>4 DEF Apply
  <2>6. Ids(moved) = Shuffled(v, x) /\ moved \in Seq(T)
    <3>1. rest \in Seq(T) /\ Len(rest) = Len(ids) - 1
      <4>1. PICK s : s = b.tabs  OBVIOUS
      <4>2. s \in Seq(T) /\ i \in 1..Len(s) /\ rest = RemoveAt(s, i) /\ Len(s) = Len(ids)
        BY <1>2, <2>3, <2>4, <4>1
      <4> QED  BY <4>2, RemovedAt
    <3>2. PICK e : e = b.tabs[i]  OBVIOUS
    <3>3. e \in T /\ e.id = x.id /\ at \in 1..(Len(rest) + 1)  BY <1>2, <2>2, <2>3, <3>1, <3>2
    <3>4. Ids(rest) = RemoveAt(ids, i)  BY <1>1, <1>2, <2>3, <2>4, IdsRemove
    <3>5. moved = InsertAt(rest, at, e)  BY <2>4, <3>2
    <3>6. Ids(moved) = InsertAt(Ids(rest), at, e.id)  BY <1>2, <3>1, <3>3, <3>5, IdsInsert
    <3>7. moved \in Seq(T)  BY <3>1, <3>3, <3>5, InsertedAt
    <3> QED  BY <2>2, <3>3, <3>4, <3>6, <3>7
  <2>7. Distinct(Shuffled(v, x))  BY <2>2 DEF Strips
  <2>8. IndexOf(moved, front) = Place(Shuffled(v, x), front)
    BY <1>2, <2>2, <2>6, <2>7, SamePlace
  <2>9. IdView(Apply(b, x, fresh)) = [ids |-> Shuffled(v, x), active |-> Place(Shuffled(v, x), front)]
    BY <2>5, <2>6, <2>8 DEF IdView
  <2> QED  BY <1>1, <2>2, <2>9
<1>9. x.op \in {"open", "close", "select", "move"}  BY DEF Fits, Intents, Ops
<1> QED  BY <1>5, <1>6, <1>7, <1>8, <1>9

(* TabStrip's Drop is RemoveAt. *)
LEMMA DropIsRemove ==
  ASSUME NEW S, NEW q \in Seq(S), NEW i \in 1..Len(q)
  PROVE  Strip!Drop(q, i) = RemoveAt(q, i)
<1>1. PICK r, d : r = RemoveAt(q, i) /\ d = Strip!Drop(q, i)  OBVIOUS
<1>2. /\ r \in Seq(S) /\ Len(r) = Len(q) - 1
      /\ \A j \in 1..(i - 1) : r[j] = q[j]
      /\ \A j \in i..(Len(q) - 1) : r[j] = q[j + 1]
  BY <1>1, RemovedAt
<1>3. d = [k \in 1..(Len(q) - 1) |-> IF k < i THEN q[k] ELSE q[k + 1]]
  BY <1>1 DEF Strip!Drop
<1>4. d \in Seq(S) /\ Len(d) = Len(q) - 1  BY <1>3
<1>5. \A j \in 1..Len(r) : r[j] = d[j]
  <2> TAKE j \in 1..Len(r)
  <2>1. j < i => j \in 1..(i - 1)  OBVIOUS
  <2>2. ~(j < i) => j \in i..(Len(q) - 1)  BY <1>2
  <2>3. j \in 1..(Len(q) - 1)  BY <1>2
  <2> QED  BY <1>2, <1>3, <2>1, <2>2, <2>3
<1>6. r = d  BY <1>2, <1>4, <1>5, SameList
<1> QED  BY <1>1, <1>6

(* Each intent that fits the strip is one of the promised steps.            *)
LEMMA StripSteps ==
  ASSUME NEW v \in Strips, NEW x, Fits(v, x), NEW w, w = OnIds(v, x),
         Ids(tabs) = v.ids, active = v.active,
         Ids(tabs)' = w.ids, active' = w.active
  PROVE  Strip!StripNext
<1>1. /\ v.ids \in Seq(Nat) /\ v.active \in 1..Len(v.ids) /\ Distinct(v.ids)
      /\ w \in Strips /\ w.ids \in Seq(Nat)
  BY OnIdsIsStrip DEF Strips
<1>2. CASE x.op = "open"
  <2>1. PICK q : q = Append(v.ids, x.id)  OBVIOUS
  <2>2. w.ids = q /\ w.active = Len(v.ids) + 1 /\ x.id \in Nat /\ ~Holds(v.ids, x.id)
    BY <1>2, <2>1, OpenOnIds DEF Fits, Intents
  <2>3. q \in Seq(Nat) /\ Len(q) = Len(v.ids) + 1 /\ q[Len(q)] = x.id
        /\ \A i \in 1..Len(v.ids) : q[i] = v.ids[i]
    BY <1>1, <2>1, <2>2
  <2>4. SubSeq(q, 1, Len(v.ids)) = v.ids
    <3>1. PICK c, m : c = SubSeq(q, 1, m) /\ m = Len(v.ids)  OBVIOUS
    <3>2. c \in Seq(Nat) /\ Len(c) = m /\ \A i \in 1..m : c[i] = q[i]
      <4>1. m \in Nat /\ m <= Len(q)  BY <2>3, <3>1
      <4>2. \A k \in 1..m : q[k] \in Nat  BY <2>3, <4>1
      <4> QED  BY <2>3, <3>1, <4>1, <4>2, SubSeqProperties
    <3>3. c = v.ids  BY <1>1, <2>3, <3>1, <3>2, SameList
    <3> QED  BY <3>1, <3>3
  <2>5. x.id \notin {v.ids[k] : k \in DOMAIN v.ids}  BY <2>2 DEF Holds
  <2>6. Strip!Open  BY <2>2, <2>3, <2>4, <2>5 DEF Strip!Open
  <2> QED  BY <2>6 DEF Strip!StripNext
<1>3. CASE x.op = "close" /\ Len(v.ids) = 1
  <2>1. w = [ids |-> <<x.with>>, active |-> 1]  BY <1>3, CloseOnIds DEF Closing
  <2>2. ~Holds(v.ids, x.with)  BY <1>3 DEF Fits
  <2>3. x.with # v.ids[1]  BY <1>1, <1>3, <2>2 DEF Holds
  <2>4. PICK y, q : y = x.with /\ q = <<y>>  OBVIOUS
  <2>5. Len(q) = 1 /\ q[1] = y  BY <2>4
  <2>6. Strip!CloseLast  BY <1>3, <2>1, <2>3, <2>4, <2>5 DEF Strip!CloseLast
  <2> QED  BY <2>6 DEF Strip!StripNext
<1>4. CASE x.op = "close" /\ Len(v.ids) # 1
  <2>1. PICK i, q : i = Place(v.ids, x.id) /\ q = RemoveAt(v.ids, i)  OBVIOUS
  <2>2. i \in 1..Len(v.ids)  BY <1>1, <1>4, <2>1, Placed DEF Fits
  <2>3. /\ q \in Seq(Nat) /\ Len(q) = Len(v.ids) - 1
        /\ \A j \in 1..(i - 1) : q[j] = v.ids[j]
        /\ \A j \in i..(Len(v.ids) - 1) : q[j] = v.ids[j + 1]
    BY <1>1, <2>1, <2>2, RemovedAt
  <2>4. w.ids = q /\ w.active = IF i < v.active THEN v.active - 1
                                ELSE Capped(v.active, Len(v.ids) - 1)
    BY <1>4, <2>1, CloseOnIds DEF Closing
  <2>5. Strip!Drop(v.ids, i) = q  BY <1>1, <2>1, <2>2, DropIsRemove
  <2>6. PICK m, a : m = Len(v.ids) /\ a = v.active  OBVIOUS
  <2>7. m \in Nat /\ m > 1 /\ a \in 1..m /\ i \in 1..m
    <3>1. m \in Nat /\ m # 1 /\ a \in 1..m /\ i \in 1..m  BY <1>1, <1>4, <2>2, <2>6
    <3> QED  BY <3>1
  <2>8. CASE i < a
    <3>1. a - 1 \in i..(m - 1) /\ (a - 1) + 1 = a  BY <2>7, <2>8
    <3>2. q[a - 1] = v.ids[a]  BY <2>3, <2>6, <3>1
    <3>3. w.active = a - 1  BY <2>4, <2>6, <2>8
    <3>4. Strip!Close(i)  BY <2>4, <2>5, <2>6, <2>7, <2>8, <3>2, <3>3 DEF Strip!Close
    <3> QED  BY <1>1, <2>2, <3>4 DEF Strip!StripNext
  <2>9. CASE i = a
    <3>1. w.active = IF i < m THEN i ELSE i - 1  BY <2>4, <2>6, <2>7, <2>9 DEF Capped
    <3>2. Strip!Close(i)  BY <2>4, <2>5, <2>6, <2>7, <2>9, <3>1 DEF Strip!Close
    <3> QED  BY <1>1, <2>2, <3>2 DEF Strip!StripNext
  <2>10. CASE i > a
    <3>1. a \in 1..(i - 1) /\ w.active = a  BY <2>4, <2>6, <2>7, <2>10 DEF Capped
    <3>2. q[a] = v.ids[a]  BY <2>3, <3>1
    <3>3. Strip!Close(i)  BY <2>4, <2>5, <2>6, <2>7, <2>10, <3>1, <3>2 DEF Strip!Close
    <3> QED  BY <1>1, <2>2, <3>3 DEF Strip!StripNext
  <2> QED  BY <2>7, <2>8, <2>9, <2>10
<1>5. CASE x.op = "select"
  <2>1. w = [ids |-> v.ids, active |-> Place(v.ids, x.id)]  BY <1>5, SelectOnIds
  <2>2. Place(v.ids, x.id) \in DOMAIN v.ids  BY <1>5, Placed DEF Fits
  <2>3. Strip!Select(Place(v.ids, x.id))  BY <2>1 DEF Strip!Select
  <2> QED  BY <2>2, <2>3 DEF Strip!StripNext
<1>6. CASE x.op = "move"
  <2>1. PICK i, at, q, r, y : /\ i = Place(v.ids, x.id) /\ at = Capped(x.to, Len(v.ids))
                              /\ q = RemoveAt(v.ids, i) /\ r = Shuffled(v, x) /\ y = x.id
    OBVIOUS
  <2>2. /\ w.ids = r /\ w.active = Place(r, v.ids[v.active]) /\ Len(r) = Len(v.ids)
        /\ i \in 1..Len(v.ids) /\ v.ids[i] = y /\ at \in 1..Len(v.ids)
        /\ Holds(r, v.ids[v.active]) /\ r = InsertAt(q, at, y)
    BY <1>6, <2>1, MoveOnIds DEF Shuffled
  <2>3. q \in Seq(Nat) /\ Len(q) = Len(v.ids) - 1  BY <1>1, <2>1, <2>2, RemovedAt
  <2>4. y \in Nat /\ at \in 1..(Len(q) + 1) /\ q \in Seq(Nat) /\ r = InsertAt(q, at, y)
    <3>1. v.ids[i] \in Nat  BY <1>1, <2>2
    <3> QED  BY <1>1, <2>2, <2>3, <3>1
  <2>7. /\ r \in Seq(Nat) /\ r[at] = y
        /\ \A j \in 1..(at - 1) : r[j] = q[j]
        /\ \A j \in at..Len(q) : r[j + 1] = q[j]
    <3>1. r \in Seq(Nat) /\ r[at] = y
          /\ (\A j \in 1..(at - 1) : r[j] = q[j])
          /\ (\A j \in at..Len(q) : r[j + 1] = q[j])
      BY <2>4, InsertedId
    <3> QED  BY <3>1
  <2>8. Strip!Drop(r, at) = q
    <3>1. PICK d : d = Strip!Drop(r, at)  OBVIOUS
    <3>2. d = [k \in 1..(Len(r) - 1) |-> IF k < at THEN r[k] ELSE r[k + 1]]
      BY <3>1 DEF Strip!Drop
    <3>3. d \in Seq(Nat) /\ Len(d) = Len(q)
      <4>1. Len(r) - 1 = Len(q) /\ Len(r) \in Nat /\ Len(q) \in Nat
        BY <2>2, <2>3, <2>7
      <4>2. \A k \in 1..(Len(r) - 1) : r[k] \in Nat /\ r[k + 1] \in Nat  BY <2>7, <4>1
      <4>3. d \in [1..Len(q) -> Nat]  BY <3>2, <4>1, <4>2
      <4> QED  BY <4>1, <4>3
    <3>4. \A j \in 1..Len(d) : d[j] = q[j]
      <4> TAKE j \in 1..Len(d)
      <4>0. at \in Nat  BY <2>2
      <4>1. j < at => j \in 1..(at - 1)  BY <4>0
      <4>2. ~(j < at) => j \in at..Len(q)  BY <2>2, <3>3
      <4>3. j \in 1..(Len(r) - 1)  BY <2>2, <2>3, <3>3
      <4> QED  BY <2>7, <3>2, <4>1, <4>2, <4>3
    <3>5. d = q  BY <2>3, <3>3, <3>4, SameList
    <3> QED  BY <3>1, <3>5
  <2>9. Strip!Drop(v.ids, i) = q  BY <1>1, <2>1, <2>2, DropIsRemove
  <2>10. w.active \in DOMAIN r /\ r[w.active] = v.ids[v.active]  BY <2>2, Placed
  <2>11. Strip!Move(i, at)  BY <2>2, <2>7, <2>8, <2>9, <2>10 DEF Strip!Move
  <2>12. i \in DOMAIN v.ids /\ at \in DOMAIN v.ids  BY <1>1, <2>2
  <2> QED  BY <2>11, <2>12 DEF Strip!StripNext
<1>7. x.op \in {"open", "close", "select", "move"}  BY DEF Fits, Intents, Ops
<1> QED  BY <1>2, <1>3, <1>4, <1>5, <1>6, <1>7

(* The strips there have been between the snapshot in the mailbox and the  *)
(* window's: one for every serial number, each made from the one before by *)
(* the intent of that number if it has one.                                *)
Told(H) ==
    /\ H \in [Nat -> Strips]
    /\ H[serial] = IdView(View)
    /\ H[received] = IdView(browser)
    /\ latest # NoSnapshot => /\ latest.serial \in Nat /\ snapshot <= latest.serial
                              /\ latest.serial <= received
                              /\ H[latest.serial] = IdView(latest)
    /\ \A i \in 1..Len(pending) :
          /\ Fits(H[pending[i].serial - 1], pending[i].intent)
          /\ H[pending[i].serial] = OnIds(H[pending[i].serial - 1], pending[i].intent)
    /\ \A n \in Nat : /\ snapshot < n /\ n <= serial
                      /\ \A i \in 1..Len(pending) : pending[i].serial # n
                      => H[n] = H[n - 1]
    /\ \A k \in 1..Len(commands) : commands[k].intent = NoIntent =>
          LET h == H[commands[k].serial] IN h.ids[h.active] = commands[k].tab

(* What is pending and what is on its way are the same intents, but for    *)
(* those the owner has received.                                           *)
Matching ==
    /\ snapshot \in Nat /\ snapshot <= received
    /\ \A i \in 1..Len(pending) : /\ pending[i].serial \in Nat
                                  /\ snapshot < pending[i].serial
                                  /\ pending[i].serial <= serial
    /\ \A i, j \in 1..Len(pending) : i < j => pending[i].serial < pending[j].serial
    /\ \A k \in 1..Len(commands) : received < commands[k].serial
    /\ \A j, k \in 1..Len(commands) : j < k => commands[j].serial < commands[k].serial
    /\ \A k \in 1..Len(commands) :
          /\ commands[k].kind \in {"chrome", "navigate", "press", "pointer"}
          /\ commands[k].intent # NoIntent =>
                /\ commands[k].kind = "chrome"
                /\ \E i \in 1..Len(pending) : /\ pending[i].serial = commands[k].serial
                                              /\ pending[i].intent = commands[k].intent
    /\ \A i \in 1..Len(pending) : pending[i].serial > received =>
          \E k \in 1..Len(commands) : /\ commands[k].serial = pending[i].serial
                                      /\ commands[k].intent = pending[i].intent

Fresh == \A i \in 1..Len(tabs) : tabs[i].id < next_tab

StripInv == OrderInv /\ NavInv /\ Matching /\ Fresh /\ \E H : Told(H)

(* Between intents the strip stays. *)
LEMMA Still ==
  ASSUME NEW H, NEW a \in Nat, NEW b \in Nat, a <= b,
         \A n \in Nat : a < n /\ n <= b => H[n] = H[n - 1]
  PROVE  H[b] = H[a]
<1> DEFINE h == [i \in 0..(b - a) |-> H[a + i]]
<1>1. PICK X : X = {H[a]}  OBVIOUS
<1>2. b - a \in Nat /\ h[0] \in X  BY <1>1
<1>3. ASSUME NEW i \in 1..(b - a), h[i - 1] \in X PROVE h[i] \in X
  <2>1. a + i \in Nat /\ a < a + i /\ a + i <= b /\ i - 1 \in 0..(b - a) /\ i \in 0..(b - a)
    OBVIOUS
  <2>2. (a + i) - 1 = a + (i - 1)  OBVIOUS
  <2>3. H[a + i] = H[a + (i - 1)]  BY <2>1, <2>2
  <2> QED  BY <1>1, <1>3, <2>1, <2>3
<1>4. \A i \in 0..(b - a) : h[i] \in X
  <2> HIDE DEF h
  <2> QED  BY <1>2, <1>3, CarriedThrough
<1>5. b - a \in 0..(b - a) /\ a + (b - a) = b  OBVIOUS
<1>6. h[b - a] = H[b]  BY <1>5
<1> QED  BY <1>1, <1>4, <1>5, <1>6

(* The intents kept by Receive are the later ones, in their order.         *)
LEMMA KeptInOrder ==
  ASSUME pending \in Seq(Waiting), NEW n \in Nat,
         \A i, j \in 1..Len(pending) : i < j => pending[i].serial < pending[j].serial
  PROVE  LET k == Unacknowledged(n)
         IN  /\ k \in Seq(Waiting)
             /\ \A i, j \in 1..Len(k) : i < j => k[i].serial < k[j].serial
             /\ \A i \in 1..Len(k) : k[i].serial > n /\ \E j \in 1..Len(pending) : k[i] = pending[j]
             /\ \A j \in 1..Len(pending) : pending[j].serial > n =>
                   \E i \in 1..Len(k) : k[i] = pending[j]
<1> DEFINE Kept(k, m) ==
             /\ k \in Seq(Waiting)
             /\ \A i, j \in 1..Len(k) : i < j => k[i].serial < k[j].serial
             /\ \A i \in 1..Len(k) : k[i].serial > n /\ \E j \in 1..m : k[i] = pending[j]
             /\ \A j \in 1..m : pending[j].serial > n => \E i \in 1..Len(k) : k[i] = pending[j]
<1>1. PICK kept : KeepsLater(kept, n)  BY KeptUnfolds
<1>2. PICK m : m = Len(pending)  OBVIOUS
<1>3. m \in Nat /\ kept[0] = << >> /\ Unacknowledged(n) = kept[m]
      /\ \A i \in 1..m : kept[i] = IF pending[i].serial > n THEN Append(kept[i - 1], pending[i])
                                   ELSE kept[i - 1]
  BY <1>1, <1>2 DEF KeepsLater
<1> DEFINE h == [i \in 0..m |-> IF Kept(kept[i], i) THEN 1 ELSE 0]
<1>4. h[0] \in {1}
  <2>1. Kept(<< >>, 0)  OBVIOUS
  <2>2. 0 \in 0..m  BY <1>3
  <2> HIDE DEF Kept
  <2> QED  BY <1>3, <2>1, <2>2
<1>5. ASSUME NEW i \in 1..m, h[i - 1] \in {1} PROVE h[i] \in {1}
  <2>1. i - 1 \in 0..m /\ i \in 0..m /\ i \in Nat  BY <1>3
  <2>2. PICK k, w, l : k = kept[i - 1] /\ w = pending[i] /\ l = kept[i]  OBVIOUS
  <2>3. Kept(k, i - 1)
    <3> HIDE DEF Kept
    <3> QED  BY <1>5, <2>1, <2>2
  <2>4. w \in Waiting /\ l = IF w.serial > n THEN Append(k, w) ELSE k
    BY <1>2, <1>3, <2>2
  <2>5. \A j \in 1..i : j \in 1..(i - 1) \/ j = i  BY <2>1
  <2>6. CASE ~(w.serial > n)
    <3>1. l = k  BY <2>4, <2>6
    <3>2. \A j \in 1..(i - 1) : j \in 1..i  BY <2>1
    <3>3. Kept(k, i)  BY <2>2, <2>3, <2>5, <2>6, <3>2
    <3> HIDE DEF Kept
    <3> QED  BY <2>1, <2>2, <3>1, <3>3
  <2>7. CASE w.serial > n
    <3>1. k \in Seq(Waiting) /\ l = Append(k, w)  BY <2>3, <2>4, <2>7
    <3>2. /\ l \in Seq(Waiting) /\ Len(l) = Len(k) + 1 /\ l[Len(k) + 1] = w
          /\ \A j \in 1..Len(k) : l[j] = k[j]
      BY <2>4, <3>1
    <3>3. \A j \in 1..Len(l) : j \in 1..Len(k) \/ j = Len(k) + 1  BY <3>1, <3>2
    <3>4. \A j \in 1..Len(k) : k[j].serial < w.serial
      <4> TAKE j \in 1..Len(k)
      <4>1. PICK p \in 1..(i - 1) : k[j] = pending[p]  BY <2>3
      <4>2. p \in 1..Len(pending) /\ i \in 1..Len(pending) /\ p < i  BY <1>2, <1>3, <2>1
      <4> QED  BY <2>2, <4>1, <4>2
    <3>5. \A a, b \in 1..Len(l) : a < b => l[a].serial < l[b].serial
      <4> TAKE a, b \in 1..Len(l)
      <4>1. HAVE a < b
      <4>2. a \in 1..Len(k)  BY <3>1, <3>2, <4>1
      <4>3. CASE b \in 1..Len(k)  BY <2>3, <3>2, <4>1, <4>2, <4>3
      <4>4. CASE b = Len(k) + 1  BY <3>2, <3>4, <4>2, <4>4
      <4> QED  BY <3>3, <4>3, <4>4
    <3>6. \A a \in 1..Len(l) : l[a].serial > n /\ \E j \in 1..i : l[a] = pending[j]
      <4> TAKE a \in 1..Len(l)
      <4>1. CASE a \in 1..Len(k)
        <5>1. l[a] = k[a] /\ k[a].serial > n  BY <2>3, <3>2, <4>1
        <5>2. PICK j \in 1..(i - 1) : k[a] = pending[j]  BY <2>3, <4>1
        <5>3. j \in 1..i  BY <2>1
        <5> QED  BY <5>1, <5>2, <5>3
      <4>2. CASE a = Len(k) + 1
        <5>1. i \in 1..i  BY <2>1
        <5> QED  BY <2>2, <2>7, <3>2, <4>2, <5>1
      <4> QED  BY <3>3, <4>1, <4>2
    <3>7. \A j \in 1..i : pending[j].serial > n => \E a \in 1..Len(l) : l[a] = pending[j]
      <4> TAKE j \in 1..i
      <4>1. HAVE pending[j].serial > n
      <4>2. CASE j \in 1..(i - 1)
        <5>1. PICK a \in 1..Len(k) : k[a] = pending[j]  BY <2>3, <4>1, <4>2
        <5>2. a \in 1..Len(l)  BY <3>1, <3>2
        <5> QED  BY <3>2, <5>1, <5>2
      <4>3. CASE j = i
        <5>1. Len(k) + 1 \in 1..Len(l)  BY <3>1, <3>2
        <5> QED  BY <2>2, <3>2, <4>3, <5>1
      <4> QED  BY <2>5, <4>2, <4>3
    <3>8. Kept(l, i)  BY <3>2, <3>5, <3>6, <3>7
    <3> HIDE DEF Kept
    <3> QED  BY <2>1, <2>2, <3>8
  <2> QED  BY <2>6, <2>7
<1>6. \A i \in 0..m : h[i] \in {1}
  <2> HIDE DEF h
  <2>1. PICK Y : Y = {1}  OBVIOUS
  <2>2. h[0] \in Y /\ \A i \in 1..m : h[i - 1] \in Y => h[i] \in Y  BY <1>4, <1>5, <2>1
  <2>3. \A i \in 0..m : h[i] \in Y  BY <1>3, <2>2, CarriedThrough
  <2> QED  BY <2>1, <2>3
<1>7. Kept(kept[m], m)
  <2>1. m \in 0..m  BY <1>3
  <2> HIDE DEF Kept
  <2> QED  BY <1>6, <2>1
<1> QED  BY <1>2, <1>3, <1>7

(* The snapshot with the later intents applied again is the strip the      *)
(* window has, by whatever way it came to have it.                         *)
LEMMA ReprojectsToView ==
  ASSUME NavInv, Matching, OrderInv, NEW H, Told(H), latest # NoSnapshot
  PROVE  IdView(Reproject(latest, Unacknowledged(latest.serial))) = IdView(View)
<1>1. PICK from, k, n : /\ from = latest.serial /\ k = Unacknowledged(latest.serial)
                        /\ n = next_navigation
  OBVIOUS
<1>2. /\ from \in Nat /\ snapshot <= from /\ from <= received /\ H[from] = IdView(latest)
      /\ H \in [Nat -> Strips] /\ H[serial] = IdView(View)
      /\ serial \in Nat /\ from <= serial /\ snapshot \in Nat
  <2>1. /\ from \in Nat /\ snapshot <= from /\ from <= received /\ H[from] = IdView(latest)
        /\ H \in [Nat -> Strips] /\ H[serial] = IdView(View)
    BY <1>1 DEF Told
  <2>2. serial \in Nat /\ received \in Nat /\ received <= serial /\ snapshot \in Nat
    BY DEF OrderInv, Matching
  <2> QED  BY <2>1, <2>2
<1>3. /\ k \in Seq(Waiting)
      /\ \A i, j \in 1..Len(k) : i < j => k[i].serial < k[j].serial
      /\ \A i \in 1..Len(k) : k[i].serial > from /\ \E j \in 1..Len(pending) : k[i] = pending[j]
      /\ \A j \in 1..Len(pending) : pending[j].serial > from =>
            \E i \in 1..Len(k) : k[i] = pending[j]
  BY <1>1, <1>2, KeptInOrder DEF NavInv, Matching
<1>4. ASSUME NEW i \in 1..Len(k)
      PROVE  /\ k[i].serial \in Nat /\ k[i].serial > from /\ k[i].serial <= serial
             /\ Fits(H[k[i].serial - 1], k[i].intent)
             /\ H[k[i].serial] = OnIds(H[k[i].serial - 1], k[i].intent)
  <2>1. PICK j \in 1..Len(pending) : k[i] = pending[j]  BY <1>3
  <2> QED  BY <1>3, <2>1 DEF Told, Matching
<1>5. ASSUME NEW p \in Nat, NEW q \in Nat, from <= p, p <= q, q <= serial,
             \A i \in 1..Len(k) : ~(p < k[i].serial /\ k[i].serial <= q)
      PROVE  H[q] = H[p]
  <2>1. ASSUME NEW m \in Nat, p < m, m <= q PROVE H[m] = H[m - 1]
    <3>1. ASSUME NEW j \in 1..Len(pending), pending[j].serial = m PROVE FALSE
      <4>1. pending[j].serial > from  BY <1>2, <1>5, <2>1, <3>1
      <4>2. PICK i \in 1..Len(k) : k[i] = pending[j]  BY <1>3, <4>1
      <4> QED  BY <1>5, <2>1, <3>1, <4>2
    <3>2. snapshot < m /\ m <= serial  BY <1>2, <1>5, <2>1
    <3> QED  BY <3>1, <3>2 DEF Told
  <2> QED  BY <1>5, <2>1, Still
<1>6. [tabs |-> latest.tabs, active |-> latest.active] \in Views(n) /\ n \in Nat \ {0}
  BY <1>1 DEF NavInv, ViewOf
<1>7. PICK after : /\ AppliesAgain(after, latest, k)
                   /\ \A i \in 0..Len(k) : after[i] \in Views(n)
  BY <1>3, <1>6, ReprojectUnfolds
<1>8. /\ after[0] = [tabs |-> latest.tabs, active |-> latest.active]
      /\ \A i \in 1..Len(k) : after[i] = Project(after[i - 1], k[i].intent)
      /\ Reproject(latest, k) = after[Len(k)]
  BY <1>7 DEF AppliesAgain
<1> DEFINE at == [i \in 0..Len(k) |-> IF i = 0 THEN from ELSE k[i].serial]
           h == [i \in 0..Len(k) |-> IF IdView(after[i]) = H[at[i]] THEN 1 ELSE 0]
<1>9. Len(k) \in Nat /\ \A i \in 0..Len(k) : at[i] \in Nat /\ from <= at[i] /\ at[i] <= serial
  <2>1. Len(k) \in Nat  BY <1>3
  <2>2. \A i \in 0..Len(k) : i = 0 \/ i \in 1..Len(k)  BY <2>1
  <2> QED  BY <1>2, <1>4, <2>1, <2>2
<1>10. h[0] \in {1}
  <2>1. IdView(after[0]) = IdView(latest)  BY <1>8 DEF IdView
  <2> QED  BY <1>2, <1>9, <2>1
<1>11. ASSUME NEW i \in 1..Len(k), h[i - 1] \in {1} PROVE h[i] \in {1}
  <2>1. i - 1 \in 0..Len(k) /\ i \in 0..Len(k) /\ i # 0 /\ i \in Nat  BY <1>9
  <2>2. IdView(after[i - 1]) = H[at[i - 1]]  BY <1>11, <2>1
  <2>3. PICK s, x, p : s = k[i].serial /\ x = k[i].intent /\ p = at[i - 1]  OBVIOUS
  <2>4. /\ s \in Nat /\ s > from /\ s <= serial /\ p \in Nat /\ from <= p /\ at[i] = s
        /\ Fits(H[s - 1], x) /\ H[s] = OnIds(H[s - 1], x)
    BY <1>4, <1>9, <2>1, <2>3
  <2>5. p < s
    <3>1. CASE i = 1  BY <2>3, <2>4, <3>1
    <3>2. CASE i # 1
      <4>1. i - 1 \in 1..Len(k) /\ i - 1 < i  BY <2>1, <3>2
      <4>2. p = k[i - 1].serial  BY <2>1, <2>3, <4>1
      <4> QED  BY <1>3, <2>3, <4>1, <4>2
    <3> QED  BY <3>1, <3>2
  <2>6. \A j \in 1..Len(k) : ~(p < k[j].serial /\ k[j].serial <= s - 1)
    <3> SUFFICES ASSUME NEW j \in 1..Len(k), p < k[j].serial, k[j].serial <= s - 1 PROVE FALSE
      OBVIOUS
    <3>1. k[j].serial \in Nat  BY <1>4
    <3>2. CASE j >= i
      <4>1. j = i \/ i < j  BY <2>1, <3>2
      <4>2. s <= k[j].serial  BY <1>3, <2>3, <2>4, <3>1, <4>1
      <4> QED  BY <2>4, <3>1, <4>2
    <3>3. CASE j < i
      <4>1. i - 1 \in 1..Len(k) /\ (j = i - 1 \/ j < i - 1)  BY <2>1, <3>3
      <4>2. p = k[i - 1].serial  BY <2>1, <2>3, <4>1
      <4>3. k[j].serial <= p
        <5>1. PICK r : r = i - 1  OBVIOUS
        <5>2. r \in 1..Len(k) /\ p = k[r].serial /\ (j = r \/ j < r)  BY <4>1, <4>2, <5>1
        <5>3. CASE j = r  BY <2>4, <5>2, <5>3
        <5>4. CASE j < r
          <6>1. k[j].serial < k[r].serial  BY <1>3, <5>2, <5>4
          <6> QED  BY <2>4, <3>1, <5>2, <6>1
        <5> QED  BY <5>2, <5>3, <5>4
      <4> QED  BY <2>4, <3>1, <4>3
    <3> QED  BY <2>1, <3>2, <3>3
  <2>7. H[s - 1] = H[p]
    <3>1. s - 1 \in Nat /\ p <= s - 1 /\ s - 1 <= serial  BY <1>2, <2>4, <2>5
    <3> QED  BY <1>5, <2>4, <2>6, <3>1
  <2>8. PICK v : v = after[i - 1]  OBVIOUS
  <2>9. v \in Views(n) /\ IdView(v) = H[s - 1] /\ IdView(v) \in Strips /\ Fits(IdView(v), x)
    <3>1. s - 1 \in Nat  BY <1>2, <2>4
    <3>2. H[s - 1] \in Strips  BY <1>2, <3>1
    <3> QED  BY <1>7, <2>1, <2>2, <2>3, <2>4, <2>7, <2>8, <3>2
  <2>10. IdView(Project(v, x)) = OnIds(IdView(v), x)  BY <1>6, <2>9, ProjectOnIds
  <2>11. after[i] = Project(v, x)  BY <1>8, <2>3, <2>8
  <2>12. IdView(after[i]) = H[at[i]]  BY <2>4, <2>9, <2>10, <2>11
  <2> HIDE DEF at
  <2> QED  BY <2>1, <2>12
<1>12. \A i \in 0..Len(k) : h[i] \in {1}
  <2> HIDE DEF h
  <2>1. PICK Y : Y = {1}  OBVIOUS
  <2>2. h[0] \in Y /\ \A i \in 1..Len(k) : h[i - 1] \in Y => h[i] \in Y  BY <1>10, <1>11, <2>1
  <2>3. \A i \in 0..Len(k) : h[i] \in Y  BY <1>9, <2>2, CarriedThrough
  <2> QED  BY <2>1, <2>3
<1>13. Len(k) \in 0..Len(k)  BY <1>9
<1>14. IdView(after[Len(k)]) = H[at[Len(k)]]
  <2> HIDE DEF at
  <2> QED  BY <1>12, <1>13
<1>15. H[serial] = H[at[Len(k)]]
  <2>1. PICK p : p = at[Len(k)]  OBVIOUS
  <2>2. p \in Nat /\ from <= p /\ p <= serial  BY <1>9, <1>13, <2>1
  <2>3. \A j \in 1..Len(k) : ~(p < k[j].serial /\ k[j].serial <= serial)
    <3> SUFFICES ASSUME NEW j \in 1..Len(k), p < k[j].serial PROVE FALSE  OBVIOUS
    <3>1. Len(k) \in 1..Len(k) /\ (j = Len(k) \/ j < Len(k)) /\ Len(k) # 0  BY <1>9
    <3>2. p = k[Len(k)].serial  BY <1>13, <2>1, <3>1
    <3> QED  BY <1>3, <1>4, <2>2, <3>1, <3>2
  <2>4. PICK q : q = serial  OBVIOUS
  <2>5. q \in Nat /\ p <= q /\ q <= serial
        /\ \A j \in 1..Len(k) : ~(p < k[j].serial /\ k[j].serial <= q)
    BY <1>2, <2>2, <2>3, <2>4
  <2>6. H[q] = H[p]  BY <1>5, <2>2, <2>5
  <2> QED  BY <2>1, <2>4, <2>6
<1> QED  BY <1>1, <1>2, <1>8, <1>14, <1>15

(* A strip gains no tab but the one an intent names. *)
LEMMA NoOtherTab ==
  ASSUME NEW v \in Strips, NEW x, Fits(v, x), NEW w, w = OnIds(v, x), NEW i \in DOMAIN w.ids
  PROVE  \/ Holds(v.ids, w.ids[i])
         \/ x.op = "open" /\ w.ids[i] = x.id
         \/ x.op = "close" /\ x.with # None /\ w.ids[i] = x.with
<1>1. v.ids \in Seq(Nat) /\ v.active \in 1..Len(v.ids) /\ Distinct(v.ids) /\ Len(v.ids) \in Nat
  BY DEF Strips
<1>2. CASE x.op = "open"
  <2>1. PICK q : q = Append(v.ids, x.id)  OBVIOUS
  <2>2. w.ids = q /\ x.id \in Nat  BY <1>2, <2>1, OpenOnIds DEF Fits, Intents
  <2>3. DOMAIN q = 1..(Len(v.ids) + 1) /\ q[Len(v.ids) + 1] = x.id
        /\ \A k \in 1..Len(v.ids) : q[k] = v.ids[k]
    BY <1>1, <2>1, <2>2
  <2>4. i \in 1..Len(v.ids) \/ i = Len(v.ids) + 1  BY <1>1, <2>2, <2>3
  <2>5. DOMAIN v.ids = 1..Len(v.ids)  BY <1>1
  <2> QED  BY <1>2, <2>2, <2>3, <2>4, <2>5 DEF Holds
<1>3. CASE x.op = "close" /\ Len(v.ids) = 1
  <2>1. w = [ids |-> <<x.with>>, active |-> 1]  BY <1>3, CloseOnIds DEF Closing
  <2>2. x.with # None  BY <1>3 DEF Fits
  <2>3. i = 1 /\ w.ids[i] = x.with  BY <2>1
  <2> QED  BY <1>3, <2>2, <2>3
<1>4. CASE x.op = "close" /\ Len(v.ids) # 1
  <2>1. PICK k, q : k = Place(v.ids, x.id) /\ q = v.ids  OBVIOUS
  <2>2. k \in 1..Len(q) /\ q \in Seq(Nat) /\ Distinct(q)  BY <1>1, <1>4, <2>1, Placed DEF Fits
  <2>3. w.ids = RemoveAt(q, k)  BY <1>4, <2>1, CloseOnIds DEF Closing
  <2>4. \A j \in DOMAIN RemoveAt(q, k) : Holds(q, RemoveAt(q, k)[j])  BY <2>2, DistinctWithout
  <2> QED  BY <2>1, <2>3, <2>4
<1>5. CASE x.op = "select"
  <2>1. w.ids = v.ids  BY <1>5, SelectOnIds
  <2> QED  BY <2>1 DEF Holds
<1>6. CASE x.op = "move"
  <2>1. PICK k, at, q, y, r : /\ k = Place(v.ids, x.id) /\ at = Capped(x.to, Len(v.ids))
                              /\ q = v.ids /\ y = x.id /\ r = RemoveAt(q, k)
    OBVIOUS
  <2>2. /\ k \in 1..Len(q) /\ q[k] = y /\ at \in 1..Len(q) /\ w.ids = InsertAt(r, at, y)
        /\ q \in Seq(Nat) /\ Distinct(q) /\ Len(q) \in Nat
    BY <1>1, <1>6, <2>1, MoveOnIds DEF Shuffled
  <2>3. y \in Nat /\ Holds(q, y)  BY <2>2 DEF Holds
  <2>4. /\ r \in Seq(Nat) /\ Len(r) = Len(q) - 1 /\ Distinct(r) /\ ~Holds(r, y)
        /\ \A j \in DOMAIN r : Holds(q, r[j])
    <3>1. r = RemoveAt(q, k)  BY <2>1
    <3> QED  BY <2>2, <3>1, DistinctWithout
  <2>5. at \in 1..(Len(r) + 1)  BY <2>2, <2>4
  <2>6. \A j \in DOMAIN InsertAt(r, at, y) :
           InsertAt(r, at, y)[j] = y \/ Holds(r, InsertAt(r, at, y)[j])
    BY <2>3, <2>4, <2>5, DistinctWith
  <2>7. w.ids[i] = y \/ Holds(r, w.ids[i])  BY <2>2, <2>6
  <2>8. Holds(q, w.ids[i])  BY <2>3, <2>4, <2>7 DEF Holds
  <2> QED  BY <2>1, <2>8
<1>7. x.op \in {"open", "close", "select", "move"}  BY DEF Fits, Intents, Ops
<1> QED  BY <1>2, <1>3, <1>4, <1>5, <1>6, <1>7

(* What the reader does is one input: an intent that fits the strip and is *)
(* projected at once, or an input that leaves the strip alone.             *)
Asks(kind, intent, v) ==
    \/ /\ intent = NoIntent /\ v = View /\ kind \in {"navigate", "press", "pointer"}
       /\ next_tab' = next_tab
    \/ /\ kind = "chrome" /\ Fits(IdView(View), intent) /\ v = Project(View, intent)
       /\ next_tab' \in {next_tab, next_tab + 1}
       /\ intent.op = "open" => intent.id = next_tab /\ next_tab' = next_tab + 1
       /\ intent.op = "close" /\ intent.with # None =>
             intent.with = next_tab /\ next_tab' = next_tab + 1

LEMMA ReaderAsks ==
  ASSUME Plain = {}, StripInv, Reader
  PROVE  \E kind, intent, v : Send(kind, intent, v) /\ Asks(kind, intent, v)
<1>1. PICK ids, T : ids = Ids(tabs) /\ T = WindowTabs(next_navigation)  OBVIOUS
<1>2. /\ tabs \in Seq(T) /\ \A t \in T : t.id \in Nat
      /\ next_tab \in Nat
  BY <1>1 DEF StripInv, NavInv, Views, View, WindowTabs
<1>3. /\ ids \in Seq(Nat) /\ Len(ids) = Len(tabs) /\ DOMAIN ids = DOMAIN tabs
      /\ \A i \in DOMAIN tabs : ids[i] = tabs[i].id
  BY <1>1, <1>2, IdsOf
<1>4. IdView(View).ids = ids  BY <1>1 DEF IdView, View
<1>5. tabs # << >> /\ Len(tabs) \in Nat /\ DOMAIN tabs = 1..Len(tabs)  BY <1>2 DEF Reader, WindowLives
<1>6. next_tab # None /\ ~Holds(ids, next_tab)
  <2>1. \A i \in DOMAIN tabs : tabs[i].id \in Nat /\ tabs[i].id < next_tab
    BY <1>2, <1>5 DEF StripInv, Fresh
  <2>2. 1 \in DOMAIN tabs  BY <1>2, <1>5
  <2> QED  BY <1>2, <1>3, <2>1, <2>2 DEF Holds, None
<1>7. \A i \in DOMAIN tabs : Holds(ids, tabs[i].id) /\ tabs[i].id \in Nat
  BY <1>2, <1>3 DEF Holds
<1>8. CASE NewTab
  <2> DEFINE x == [op |-> "open", id |-> next_tab, with |-> None, to |-> 0]
  <2>1. x \in Intents  BY <1>2 DEF None, Intents, Ops
  <2>2. Fits(IdView(View), x)  BY <1>4, <1>6, <2>1 DEF Fits
  <2>3. Send("chrome", x, Project(View, x)) /\ next_tab' = next_tab + 1
    BY <1>8 DEF NewTab, Chrome
  <2>4. Asks("chrome", x, Project(View, x))  BY <2>2, <2>3 DEF Asks
  <2> HIDE DEF x
  <2> QED  BY <2>3, <2>4
<1>9. ASSUME NEW i \in DOMAIN tabs, CloseOne(tabs[i].id)
      PROVE  \E kind, intent, v : Send(kind, intent, v) /\ Asks(kind, intent, v)
  <2> DEFINE x == [op |-> "close", id |-> tabs[i].id, to |-> 0,
                   with |-> IF Len(tabs) = 1 THEN next_tab ELSE None]
  <2>1. x \in Intents  BY <1>2, <1>7 DEF None, Intents, Ops
  <2>2. Fits(IdView(View), x)  BY <1>3, <1>4, <1>6, <1>7, <2>1 DEF Fits
  <2>3. Send("chrome", x, Project(View, x))
        /\ next_tab' = IF Len(tabs) = 1 THEN next_tab + 1 ELSE next_tab
    BY <1>9 DEF CloseOne, Chrome
  <2>4. Asks("chrome", x, Project(View, x))  BY <2>2, <2>3 DEF Asks
  <2> HIDE DEF x
  <2> QED  BY <2>3, <2>4
<1>10. ASSUME NEW i \in DOMAIN tabs, SelectOne(tabs[i].id)
       PROVE  \E kind, intent, v : Send(kind, intent, v) /\ Asks(kind, intent, v)
  <2> DEFINE x == [op |-> "select", id |-> tabs[i].id, with |-> None, to |-> 0]
  <2>1. x \in Intents  BY <1>7 DEF None, Intents, Ops
  <2>2. Fits(IdView(View), x)  BY <1>4, <1>7, <2>1 DEF Fits
  <2>3. Send("chrome", x, Project(View, x)) /\ next_tab' = next_tab
    BY <1>10 DEF SelectOne, Chrome
  <2>4. Asks("chrome", x, Project(View, x))  BY <2>2, <2>3 DEF Asks
  <2> HIDE DEF x
  <2> QED  BY <2>3, <2>4
<1>11. ASSUME NEW i \in DOMAIN tabs, NEW j \in DOMAIN tabs, MoveOne(tabs[i].id, j)
       PROVE  \E kind, intent, v : Send(kind, intent, v) /\ Asks(kind, intent, v)
  <2> DEFINE x == [op |-> "move", id |-> tabs[i].id, with |-> None, to |-> j]
  <2>1. x \in Intents  BY <1>5, <1>7 DEF None, Intents, Ops
  <2>2. Fits(IdView(View), x)  BY <1>4, <1>7, <2>1 DEF Fits
  <2>3. Send("chrome", x, Project(View, x)) /\ next_tab' = next_tab
    BY <1>11 DEF MoveOne, Chrome
  <2>4. Asks("chrome", x, Project(View, x))  BY <2>2, <2>3 DEF Asks
  <2> HIDE DEF x
  <2> QED  BY <2>3, <2>4
<1>12. CASE Navigate
  <2>1. Send("navigate", NoIntent, View) /\ next_tab' = next_tab  BY <1>12 DEF Navigate
  <2>2. Asks("navigate", NoIntent, View)  BY <2>1 DEF Asks
  <2> QED  BY <2>1, <2>2
<1>13. ASSUME NEW k \in PageEvents, Event(k)
       PROVE  \E kind, intent, v : Send(kind, intent, v) /\ Asks(kind, intent, v)
  <2>1. Send(k, NoIntent, View) /\ next_tab' = next_tab  BY <1>13 DEF Event
  <2>2. Asks(k, NoIntent, View)  BY <2>1 DEF Asks, PageEvents
  <2> QED  BY <2>1, <2>2
<1>14. PageEvents \cup Plain = PageEvents  OBVIOUS
<1> QED  BY <1>8, <1>9, <1>10, <1>11, <1>12, <1>13, <1>14 DEF Reader

(* The channel after one more input. *)
LEMMA Posted ==
  ASSUME OrderInv, NEW e, NEW c, c = Post(e)
  PROVE  /\ Len(c) \in Nat \ {0} /\ c[Len(c)] = e
         /\ \A i \in 1..(Len(c) - 1) : i \in 1..Len(commands) /\ c[i] = commands[i]
         /\ \A i \in 1..Len(commands) : commands[i].kind # "pointer" => i \in 1..(Len(c) - 1)
<1> PICK S : commands \in Seq(S)  BY DEF OrderInv
<1>1. CASE e.kind = "pointer" /\ pointer_slot = TRUE /\ Pointers # {}
  <2>1. commands # << >> /\ c = [commands EXCEPT ![Len(commands)] = e]
        /\ (CHOOSE i \in Pointers : \A j \in Pointers : j <= i) = Len(commands)
    BY <1>1, LastPointer DEF Post
  <2>2. /\ c \in Seq(S \cup {e}) /\ Len(c) = Len(commands)
        /\ \A i \in 1..(Len(commands) - 1) : c[i] = commands[i]
        /\ c[Len(commands)] = e
    BY <2>1, Replaced
  <2>3. commands[Len(commands)].kind = "pointer"
    BY <1>1, <2>1 DEF OrderInv, PointerLast
  <2>4. Len(commands) \in Nat \ {0}  BY <2>1
  <2> QED  BY <2>2, <2>3, <2>4
<1>2. CASE ~(e.kind = "pointer" /\ pointer_slot = TRUE /\ Pointers # {})
  <2>1. c = Append(commands, e)  BY <1>2 DEF Post
  <2>2. /\ c \in Seq(S \cup {e}) /\ Len(c) = Len(commands) + 1
        /\ \A i \in 1..Len(commands) : c[i] = commands[i]
        /\ c[Len(commands) + 1] = e
    BY <2>1, Appended
  <2> QED  BY <2>2
<1> QED  BY <1>1, <1>2

(* What Send changes, part by part.                                        *)
LEMMA SendParts ==
  ASSUME OrderInv, NavInv, NEW kind, NEW intent, NEW v, Send(kind, intent, v)
  PROVE  /\ serial \in Nat /\ received \in Nat /\ received <= serial
         /\ serial' = serial + 1
         /\ UNCHANGED <<received, browser, snapshot, latest>>
         /\ View' = [tabs |-> v.tabs, active |-> v.active]
         /\ Len(commands') \in Nat \ {0}
         /\ LET e == commands'[Len(commands')]
            IN  /\ e.serial = serial + 1 /\ e.kind = kind /\ e.intent = intent
                /\ e.tab = v.tabs[v.active].id
         /\ \A k \in 1..(Len(commands') - 1) :
               k \in 1..Len(commands) /\ commands'[k] = commands[k]
         /\ \A k \in 1..Len(commands) : commands[k].kind # "pointer" => k \in 1..(Len(commands') - 1)
         /\ \A i \in 1..Len(pending) : i \in 1..Len(pending') /\ pending'[i] = pending[i]
         /\ \A i \in 1..Len(pending') :
               \/ i \in 1..Len(pending)
               \/ /\ intent # NoIntent /\ i = Len(pending) + 1
                  /\ pending'[i].serial = serial + 1 /\ pending'[i].intent = intent
         /\ Len(pending) \in Nat
         /\ intent # NoIntent => Len(pending) + 1 \in 1..Len(pending')
<1> DEFINE input == [serial |-> serial + 1, tab |-> v.tabs[v.active].id, kind |-> kind,
                     context |-> IF kind \in PageEvents
                                 THEN v.tabs[v.active].navigation ELSE 0,
                     intent |-> intent, seen |-> scenes[v.tabs[v.active].id].document,
                     upto |-> next_navigation]
<1>1. PICK e : e = input  OBVIOUS
<1>2. e.serial = serial + 1 /\ e.kind = kind /\ e.intent = intent /\ e.tab = v.tabs[v.active].id
  BY <1>1
<1>3. commands' = Post(e)  BY <1>1 DEF Send
<1> HIDE DEF input
<1>4. /\ Len(commands') \in Nat \ {0} /\ commands'[Len(commands')] = e
      /\ \A i \in 1..(Len(commands') - 1) : i \in 1..Len(commands) /\ commands'[i] = commands[i]
      /\ \A i \in 1..Len(commands) : commands[i].kind # "pointer" => i \in 1..(Len(commands') - 1)
  BY <1>3, Posted
<1>5. PICK w : w = [serial |-> serial + 1, intent |-> intent]  OBVIOUS
<1>6. /\ pending' = IF intent = NoIntent THEN pending ELSE Append(pending, w)
      /\ w.serial = serial + 1 /\ w.intent = intent /\ pending \in Seq(Waiting)
  BY <1>5 DEF Send, NavInv
<1>7. CASE intent = NoIntent
  <2>1. pending' = pending /\ Len(pending) \in Nat  BY <1>6, <1>7
  <2> QED
    BY <1>2, <1>4, <1>7, <2>1 DEF Send, ownerVars, View, OrderInv
<1>8. CASE intent # NoIntent
  <2>1. /\ Len(pending') = Len(pending) + 1 /\ Len(pending) \in Nat
        /\ \A j \in 1..Len(pending) : pending'[j] = pending[j]
        /\ pending'[Len(pending) + 1] = w
    BY <1>6, <1>8, Appended
  <2>2. /\ \A i \in 1..Len(pending) : i \in 1..Len(pending') /\ pending'[i] = pending[i]
        /\ \A i \in 1..Len(pending') :
               \/ i \in 1..Len(pending)
               \/ /\ i = Len(pending) + 1
                  /\ pending'[i].serial = serial + 1 /\ pending'[i].intent = intent
        /\ Len(pending) + 1 \in 1..Len(pending')
    BY <1>6, <2>1
  <2> QED
    BY <1>2, <1>4, <1>8, <2>1, <2>2 DEF Send, ownerVars, View, OrderInv
<1> QED  BY <1>7, <1>8

(* An input sent joins the channel, and its intent what is pending.        *)
LEMMA SendMatches ==
  ASSUME StripInv, NEW kind, NEW intent, NEW v, Send(kind, intent, v), Asks(kind, intent, v)
  PROVE  Matching'
<1>1. /\ serial \in Nat /\ received \in Nat /\ received <= serial
      /\ serial' = serial + 1 /\ received' = received /\ snapshot' = snapshot
      /\ Len(commands') \in Nat \ {0}
      /\ commands'[Len(commands')].serial = serial + 1
      /\ commands'[Len(commands')].kind = kind
      /\ commands'[Len(commands')].intent = intent
      /\ \A k \in 1..(Len(commands') - 1) : k \in 1..Len(commands) /\ commands'[k] = commands[k]
      /\ \A k \in 1..Len(commands) : commands[k].kind # "pointer" => k \in 1..(Len(commands') - 1)
      /\ \A i \in 1..Len(pending) : i \in 1..Len(pending') /\ pending'[i] = pending[i]
      /\ \A i \in 1..Len(pending') :
               \/ i \in 1..Len(pending)
               \/ /\ intent # NoIntent /\ i = Len(pending) + 1
                  /\ pending'[i].serial = serial + 1 /\ pending'[i].intent = intent
      /\ Len(pending) \in Nat
      /\ intent # NoIntent => Len(pending) + 1 \in 1..Len(pending')
  BY SendParts DEF StripInv
<1>2. /\ snapshot \in Nat /\ snapshot <= received
      /\ \A i \in 1..Len(pending) : /\ pending[i].serial \in Nat
                                    /\ snapshot < pending[i].serial
                                    /\ pending[i].serial <= serial
      /\ \A k \in 1..Len(commands) : /\ received < commands[k].serial
                                     /\ commands[k].serial \in Nat
                                     /\ commands[k].serial <= serial
  BY DEF StripInv, Matching, OrderInv, Numbered
<1>3. \A k \in 1..Len(commands') : k \in 1..(Len(commands') - 1) \/ k = Len(commands')
  BY <1>1
<1>4. /\ kind \in {"chrome", "navigate", "press", "pointer"}
      /\ intent # NoIntent => kind = "chrome"
  BY DEF Asks
<1>5. \A i \in 1..Len(pending') : /\ pending'[i].serial \in Nat
                                  /\ snapshot' < pending'[i].serial
                                  /\ pending'[i].serial <= serial'
  <2> TAKE i \in 1..Len(pending')
  <2>1. CASE i \in 1..Len(pending)  BY <1>1, <1>2, <2>1
  <2>2. CASE pending'[i].serial = serial + 1  BY <1>1, <1>2, <2>2
  <2> QED  BY <1>1, <2>1, <2>2
<1>6. \A i, j \in 1..Len(pending') : i < j => pending'[i].serial < pending'[j].serial
  <2> TAKE i, j \in 1..Len(pending')
  <2>1. HAVE i < j
  <2>2. i \in 1..Len(pending)  BY <1>1, <2>1
  <2>3. CASE j \in 1..Len(pending)
    <3>1. pending[i].serial < pending[j].serial  BY <2>1, <2>2, <2>3 DEF StripInv, Matching
    <3> QED  BY <1>1, <2>2, <2>3, <3>1
  <2>4. CASE j = Len(pending) + 1 /\ pending'[j].serial = serial + 1
    <3>1. pending'[i].serial \in Nat /\ pending'[i].serial <= serial  BY <1>1, <1>2, <2>2
    <3> QED  BY <1>1, <2>4, <3>1
  <2> QED  BY <1>1, <2>3, <2>4
<1>7. \A k \in 1..Len(commands') : received' < commands'[k].serial
  BY <1>1, <1>2, <1>3
<1>8. \A j, k \in 1..Len(commands') : j < k => commands'[j].serial < commands'[k].serial
  <2> TAKE j, k \in 1..Len(commands')
  <2>1. HAVE j < k
  <2>2. j \in 1..(Len(commands') - 1)  BY <1>1, <2>1
  <2>3. j \in 1..Len(commands) /\ commands'[j] = commands[j]  BY <1>1, <2>2
  <2>4. CASE k \in 1..(Len(commands') - 1)
    <3>1. k \in 1..Len(commands) /\ commands'[k] = commands[k]  BY <1>1, <2>4
    <3>2. commands[j].serial < commands[k].serial
      BY <2>1, <2>3, <3>1 DEF StripInv, Matching
    <3> QED  BY <2>3, <3>1, <3>2
  <2>5. CASE k = Len(commands')
    <3>1. commands[j].serial \in Nat /\ commands[j].serial <= serial  BY <1>2, <2>3
    <3> QED  BY <1>1, <2>3, <2>5, <3>1
  <2> QED  BY <1>3, <2>4, <2>5
<1>9. ASSUME NEW k \in 1..Len(commands')
      PROVE  /\ commands'[k].kind \in {"chrome", "navigate", "press", "pointer"}
             /\ commands'[k].intent # NoIntent =>
                  /\ commands'[k].kind = "chrome"
                  /\ \E i \in 1..Len(pending') : /\ pending'[i].serial = commands'[k].serial
                                                 /\ pending'[i].intent = commands'[k].intent
  <2>1. CASE k \in 1..(Len(commands') - 1)
    <3>1. k \in 1..Len(commands) /\ commands'[k] = commands[k]  BY <1>1, <2>1
    <3>2. /\ commands[k].kind \in {"chrome", "navigate", "press", "pointer"}
          /\ commands[k].intent # NoIntent =>
                /\ commands[k].kind = "chrome"
                /\ \E i \in 1..Len(pending) : /\ pending[i].serial = commands[k].serial
                                              /\ pending[i].intent = commands[k].intent
      BY <3>1 DEF StripInv, Matching
    <3>3. ASSUME commands[k].intent # NoIntent
          PROVE  \E i \in 1..Len(pending') : /\ pending'[i].serial = commands'[k].serial
                                             /\ pending'[i].intent = commands'[k].intent
      <4>1. PICK i \in 1..Len(pending) : /\ pending[i].serial = commands[k].serial
                                         /\ pending[i].intent = commands[k].intent
        BY <3>2, <3>3
      <4>2. i \in 1..Len(pending') /\ pending'[i] = pending[i]  BY <1>1
      <4> QED  BY <3>1, <4>1, <4>2
    <3> QED  BY <3>1, <3>2, <3>3
  <2>2. CASE k = Len(commands')
    <3>1. commands'[k].kind = kind /\ commands'[k].intent = intent
          /\ commands'[k].serial = serial + 1
      BY <1>1, <2>2
    <3>2. ASSUME intent # NoIntent
          PROVE  \E i \in 1..Len(pending') : /\ pending'[i].serial = serial + 1
                                             /\ pending'[i].intent = intent
      <4>1. PICK i : i = Len(pending) + 1  OBVIOUS
      <4>2. i \in 1..Len(pending') /\ i \notin 1..Len(pending)  BY <1>1, <3>2, <4>1
      <4> QED  BY <1>1, <4>2
    <3> QED  BY <1>4, <3>1, <3>2
  <2> QED  BY <1>3, <2>1, <2>2
<1>10. ASSUME NEW i \in 1..Len(pending'), pending'[i].serial > received'
       PROVE  \E k \in 1..Len(commands') : /\ commands'[k].serial = pending'[i].serial
                                           /\ commands'[k].intent = pending'[i].intent
  <2>1. CASE i \in 1..Len(pending)
    <3>1. pending'[i] = pending[i] /\ pending[i].serial > received  BY <1>1, <1>10, <2>1
    <3>2. PICK k \in 1..Len(commands) : /\ commands[k].serial = pending[i].serial
                                        /\ commands[k].intent = pending[i].intent
      BY <2>1, <3>1 DEF StripInv, Matching
    <3>3. pending[i].intent # NoIntent
      BY <2>1 DEF StripInv, Told, Fits, NoIntent
    <3>4. commands[k].kind = "chrome"  BY <3>2, <3>3 DEF StripInv, Matching
    <3>5. k \in 1..(Len(commands') - 1) /\ commands'[k] = commands[k]  BY <1>1, <3>4
    <3>6. k \in 1..Len(commands')  BY <1>1, <3>5
    <3> QED  BY <3>1, <3>2, <3>5, <3>6
  <2>2. CASE pending'[i].serial = serial + 1 /\ pending'[i].intent = intent
    <3>1. Len(commands') \in 1..Len(commands')  BY <1>1
    <3> QED  BY <1>1, <2>2, <3>1
  <2> QED  BY <1>1, <2>1, <2>2
<1>11. snapshot' \in Nat /\ snapshot' <= received'  BY <1>1, <1>2
<1> QED  BY <1>5, <1>6, <1>7, <1>8, <1>9, <1>10, <1>11 DEF Matching

(* ... and its strip follows from the one before it by that intent.        *)
LEMMA SendTells ==
  ASSUME StripInv, NEW kind, NEW intent, NEW v, Send(kind, intent, v), Asks(kind, intent, v)
  PROVE  /\ Fresh' /\ \E H : Told(H)'
         /\ \/ IdView(View)' = IdView(View)
            \/ Fits(IdView(View), intent) /\ IdView(View)' = OnIds(IdView(View), intent)
<1>1. /\ serial \in Nat /\ received \in Nat /\ received <= serial
      /\ serial' = serial + 1
      /\ UNCHANGED <<received, browser, snapshot, latest>>
      /\ View' = [tabs |-> v.tabs, active |-> v.active]
      /\ Len(commands') \in Nat \ {0}
      /\ commands'[Len(commands')].serial = serial + 1
      /\ commands'[Len(commands')].intent = intent
      /\ commands'[Len(commands')].tab = v.tabs[v.active].id
      /\ \A k \in 1..(Len(commands') - 1) : k \in 1..Len(commands) /\ commands'[k] = commands[k]
      /\ \A i \in 1..Len(pending) : i \in 1..Len(pending') /\ pending'[i] = pending[i]
      /\ \A i \in 1..Len(pending') :
               \/ i \in 1..Len(pending)
               \/ /\ intent # NoIntent /\ i = Len(pending) + 1
                  /\ pending'[i].serial = serial + 1 /\ pending'[i].intent = intent
      /\ Len(pending) \in Nat
      /\ intent # NoIntent => Len(pending) + 1 \in 1..Len(pending')
  BY SendParts DEF StripInv
<1>2. /\ snapshot \in Nat /\ snapshot <= received
      /\ \A i \in 1..Len(pending) : /\ pending[i].serial \in Nat
                                    /\ snapshot < pending[i].serial
                                    /\ pending[i].serial <= serial
      /\ \A k \in 1..Len(commands) : /\ commands[k].serial \in Nat
                                     /\ commands[k].serial <= serial
  BY DEF StripInv, Matching, OrderInv, Numbered
<1>3. PICK H : Told(H)  BY DEF StripInv
<1>4. PICK old, new : old = IdView(View) /\ new = IdView(v)  OBVIOUS
<1>5. H \in [Nat -> Strips] /\ H[serial] = old /\ old \in Strips
  BY <1>1, <1>3, <1>4 DEF Told
<1>6. PICK x : x = intent  OBVIOUS
<1>7. \/ x = NoIntent /\ new = old
      \/ x # NoIntent /\ Fits(old, x) /\ new = OnIds(old, x)
  <2>1. CASE intent = NoIntent /\ v = View  BY <1>4, <1>6, <2>1
  <2>2. CASE Fits(IdView(View), intent) /\ v = Project(View, intent)
    <3>1. View \in Views(next_navigation) /\ next_navigation \in Nat \ {0}
      BY DEF StripInv, NavInv
    <3>2. new = OnIds(old, x)  BY <1>4, <1>5, <1>6, <2>2, <3>1, ProjectOnIds
    <3>3. x # NoIntent  BY <1>6, <2>2 DEF Fits, NoIntent
    <3> QED  BY <1>4, <1>6, <2>2, <3>2, <3>3
  <2> QED  BY <2>1, <2>2 DEF Asks
<1>8. new \in Strips  BY <1>5, <1>7, OnIdsIsStrip
<1>9. IdView(View)' = new  BY <1>1, <1>4 DEF IdView
<1>10. Fresh'
  <2>1. tabs' = v.tabs /\ v \in Views(next_navigation) /\ next_tab \in Nat
    <3>1. View \in Views(next_navigation) /\ next_navigation \in Nat \ {0} /\ next_tab \in Nat
      BY DEF StripInv, NavInv
    <3>2. Fits(IdView(View), intent) => intent \in Intents  BY DEF Fits
    <3> QED  BY <1>1, <3>1, <3>2, ProjectKeepsView DEF Asks, View
  <2>2. PICK T : T = WindowTabs(next_navigation)  OBVIOUS
  <2>3. v.tabs \in Seq(T) /\ tabs \in Seq(T) /\ \A t \in T : t.id \in Nat
    BY <2>1, <2>2 DEF StripInv, NavInv, Views, View, WindowTabs
  <2>4. /\ new.ids = Ids(v.tabs) /\ old.ids = Ids(tabs)  BY <1>4 DEF IdView, View
  <2>5. /\ DOMAIN new.ids = 1..Len(v.tabs)
        /\ \A i \in 1..Len(v.tabs) : new.ids[i] = v.tabs[i].id
        /\ DOMAIN old.ids = 1..Len(tabs)
        /\ \A i \in 1..Len(tabs) : old.ids[i] = tabs[i].id
    BY <2>3, <2>4, IdsOf
  <2>6. \A i \in 1..Len(tabs) : tabs[i].id \in Nat /\ tabs[i].id < next_tab
    BY <2>3 DEF StripInv, Fresh
  <2>7. next_tab' \in {next_tab, next_tab + 1}  BY DEF Asks
  <2>8. \A id : Holds(old.ids, id) => id \in Nat /\ id < next_tab'
    BY <2>1, <2>5, <2>6, <2>7 DEF Holds
  <2>9. ASSUME NEW i \in 1..Len(v.tabs) PROVE new.ids[i] < next_tab'
    <3>1. CASE new = old
      <4>1. Holds(old.ids, new.ids[i])  BY <2>5, <3>1 DEF Holds
      <4> QED  BY <2>8, <4>1
    <3>2. CASE x # NoIntent /\ Fits(old, x) /\ new = OnIds(old, x)
      <4>1. /\ x.op = "open" => x.id = next_tab /\ next_tab' = next_tab + 1
            /\ x.op = "close" /\ x.with # None => x.with = next_tab /\ next_tab' = next_tab + 1
        BY <1>6, <3>2 DEF Asks
      <4>2. \/ Holds(old.ids, new.ids[i])
            \/ x.op = "open" /\ new.ids[i] = x.id
            \/ x.op = "close" /\ x.with # None /\ new.ids[i] = x.with
        BY <1>5, <2>5, <3>2, NoOtherTab
      <4> QED  BY <2>1, <2>8, <4>1, <4>2
    <3> QED  BY <1>7, <3>1, <3>2
  <2> QED  BY <2>1, <2>5, <2>9 DEF Fresh
<1>20. PICK G : G = [H EXCEPT ![serial + 1] = new]  OBVIOUS
<1>11. /\ G \in [Nat -> Strips] /\ G[serial + 1] = new
       /\ \A n \in Nat : n <= serial => G[n] = H[n]
  BY <1>1, <1>5, <1>8, <1>20
<1>12. G[serial'] = IdView(View)'  BY <1>1, <1>9, <1>11
<1>13. G[received'] = IdView(browser)'
  <2>1. H[received] = IdView(browser)  BY <1>3 DEF Told
  <2> QED  BY <1>1, <1>11, <2>1 DEF IdView
<1>14. latest' # NoSnapshot =>
          /\ latest'.serial \in Nat /\ snapshot' <= latest'.serial
          /\ latest'.serial <= received'
          /\ G[latest'.serial] = IdView(latest')
  <2>1. latest # NoSnapshot =>
          /\ latest.serial \in Nat /\ snapshot <= latest.serial
          /\ latest.serial <= received
          /\ H[latest.serial] = IdView(latest)
    BY <1>3 DEF Told
  <2>2. latest # NoSnapshot => G[latest.serial] = H[latest.serial]  BY <1>1, <1>11, <2>1
  <2> QED  BY <1>1, <2>1, <2>2
<1>15. ASSUME NEW i \in 1..Len(pending')
       PROVE  /\ Fits(G[pending'[i].serial - 1], pending'[i].intent)
              /\ G[pending'[i].serial] = OnIds(G[pending'[i].serial - 1], pending'[i].intent)
  <2>1. PICK n, y : n = pending'[i].serial /\ y = pending'[i].intent  OBVIOUS
  <2>2. CASE i \in 1..Len(pending)
    <3>1. n = pending[i].serial /\ y = pending[i].intent  BY <1>1, <2>1, <2>2
    <3>2. n \in Nat /\ n <= serial /\ n - 1 \in Nat /\ n - 1 <= serial
      BY <1>1, <1>2, <2>2, <3>1
    <3>3. Fits(H[n - 1], y) /\ H[n] = OnIds(H[n - 1], y)  BY <1>3, <2>2, <3>1 DEF Told
    <3>4. G[n] = H[n] /\ G[n - 1] = H[n - 1]  BY <1>11, <3>2
    <3> QED  BY <2>1, <3>3, <3>4
  <2>3. CASE intent # NoIntent /\ pending'[i].serial = serial + 1 /\ pending'[i].intent = intent
    <3>1. n = serial + 1 /\ n - 1 = serial /\ y = x  BY <1>1, <1>6, <2>1, <2>3
    <3>2. G[serial] = old  BY <1>1, <1>5, <1>11
    <3>3. Fits(old, x) /\ new = OnIds(old, x)  BY <1>6, <1>7, <2>3
    <3> QED  BY <1>11, <2>1, <3>1, <3>2, <3>3
  <2> QED  BY <1>1, <2>2, <2>3
<1>16. ASSUME NEW n \in Nat, snapshot' < n, n <= serial',
              \A i \in 1..Len(pending') : pending'[i].serial # n
       PROVE  G[n] = G[n - 1]
  <2>1. CASE n <= serial
    <3>1. \A i \in 1..Len(pending) : pending[i].serial # n  BY <1>1, <1>16
    <3>2. H[n] = H[n - 1]  BY <1>1, <1>3, <1>16, <2>1, <3>1 DEF Told
    <3>3. n - 1 \in Nat /\ n - 1 <= serial  BY <1>1, <1>2, <1>16, <2>1
    <3> QED  BY <1>11, <2>1, <3>2, <3>3
  <2>2. CASE n = serial + 1
    <3>1. intent = NoIntent
      <4> SUFFICES ASSUME intent # NoIntent PROVE FALSE  OBVIOUS
      <4>1. PICK i : i = Len(pending) + 1  OBVIOUS
      <4>2. i \in 1..Len(pending') /\ i \notin 1..Len(pending)  BY <1>1, <4>1
      <4> QED  BY <1>1, <1>16, <2>2, <4>2
    <3>2. new = old  BY <1>6, <1>7, <3>1
    <3>3. G[serial] = old /\ n - 1 = serial  BY <1>1, <1>5, <1>11, <2>2
    <3> QED  BY <1>11, <2>2, <3>2, <3>3
  <2> QED  BY <1>1, <1>16, <2>1, <2>2
<1>17. ASSUME NEW k \in 1..Len(commands'), commands'[k].intent = NoIntent
       PROVE  G[commands'[k].serial].ids[G[commands'[k].serial].active] = commands'[k].tab
  <2>1. CASE k \in 1..(Len(commands') - 1)
    <3>1. k \in 1..Len(commands) /\ commands'[k] = commands[k]  BY <1>1, <2>1
    <3>2. H[commands[k].serial].ids[H[commands[k].serial].active] = commands[k].tab
      BY <1>3, <1>17, <3>1 DEF Told
    <3>3. G[commands[k].serial] = H[commands[k].serial]  BY <1>2, <1>11, <3>1
    <3> QED  BY <3>1, <3>2, <3>3
  <2>2. CASE k = Len(commands')
    <3>1. G[commands'[k].serial] = new /\ commands'[k].tab = v.tabs[v.active].id
      BY <1>1, <1>11, <2>2
    <3>2. new.ids = Ids(v.tabs) /\ new.active = v.active /\ new.active \in DOMAIN new.ids
      BY <1>4, <1>8 DEF IdView, Strips
    <3>3. new.ids[v.active] = v.tabs[v.active].id  BY <3>2 DEF Ids
    <3> QED  BY <3>1, <3>2, <3>3
  <2>3. k \in 1..(Len(commands') - 1) \/ k = Len(commands')  BY <1>1
  <2> QED  BY <2>1, <2>2, <2>3
<1>18. Told(G)'
  BY <1>11, <1>12, <1>13, <1>14, <1>15, <1>16, <1>17 DEF Told
<1> QED  BY <1>4, <1>6, <1>7, <1>9, <1>10, <1>18

(* A tab that loads, or whose document arrives, keeps its identity. *)
LEMMA SameIds ==
  ASSUME NEW s, NEW i \in DOMAIN s, NEW t, t.id = s[i].id
  PROVE  Ids([s EXCEPT ![i] = t]) = Ids(s)
<1>1. PICK q : q = [s EXCEPT ![i] = t]  OBVIOUS
<1>2. DOMAIN q = DOMAIN s /\ \A j \in DOMAIN s : q[j].id = s[j].id  BY <1>1
<1> QED  BY <1>1, <1>2 DEF Ids

LEMMA LoadingAlike ==
  ASSUME NEW n, NEW b \in Browsers(n), NEW i \in DOMAIN b.tabs
  PROVE  IdView(Loading(b, i)) = IdView(b)
<1>1. PICK t : t = Started(b.tabs[i])  OBVIOUS
<1>2. t.id = b.tabs[i].id  BY <1>1 DEF Started
<1>3. PICK q : q = [b.tabs EXCEPT ![i] = t]  OBVIOUS
<1>4. b = [tabs |-> b.tabs, active |-> b.active]  BY DEF Browsers
<1>5. Loading(b, i) = [tabs |-> q, active |-> b.active]
  <2>1. Loading(b, i) = [b EXCEPT !.tabs[i] = t]  BY <1>1 DEF Loading
  <2> QED  BY <1>3, <1>4, <2>1
<1>6. Ids(q) = Ids(b.tabs)  BY <1>2, <1>3, SameIds
<1> QED  BY <1>5, <1>6 DEF IdView

LEMMA ArrivedAlike ==
  ASSUME NavInv, NEW i \in DOMAIN browser.tabs, Arrive(i)
  PROVE  IdView(browser') = IdView(browser)
<1>1. PICK t : t = Arrived(browser.tabs[i])  OBVIOUS
<1>2. t.id = browser.tabs[i].id  BY <1>1 DEF Arrived
<1>3. PICK q : q = [browser.tabs EXCEPT ![i] = t]  OBVIOUS
<1>4. browser = [tabs |-> browser.tabs, active |-> browser.active]  BY DEF NavInv, Browsers
<1>5. browser' = [tabs |-> q, active |-> browser.active]
  <2>1. browser' = [browser EXCEPT !.tabs[i] = t]  BY <1>1 DEF Arrive
  <2> QED  BY <1>3, <1>4, <2>1
<1>6. Ids(q) = Ids(browser.tabs)  BY <1>2, <1>3, SameIds
<1> QED  BY <1>5, <1>6 DEF IdView

(* At first there is the one strip. *)
LEMMA StripInit == Init => StripInv
<1> SUFFICES ASSUME Init PROVE StripInv  OBVIOUS
<1>1. OrderInv /\ NavInv  BY OrderInit, NavInit
<1>2. /\ pending = << >> /\ commands = << >> /\ latest = NoSnapshot /\ serial = 0 /\ received = 0
      /\ snapshot = 0 /\ next_tab = 2 /\ active = 1 /\ browser.active = 1
      /\ tabs = <<FromTab(Blank(1))>> /\ browser.tabs = <<Blank(1)>>
  BY DEF Init
<1>3. PICK t, b : t = FromTab(Blank(1)) /\ b = Blank(1)  OBVIOUS
<1>4. t.id = 1 /\ b.id = 1  BY <1>3 DEF FromTab, Blank
<1>5. DOMAIN <<t>> = {1} /\ <<t>>[1] = t /\ DOMAIN <<b>> = {1} /\ <<b>>[1] = b /\ Len(<<t>>) = 1
  OBVIOUS
<1>6. PICK v : v = [ids |-> [i \in {1} |-> 1], active |-> 1]  OBVIOUS
<1>7. IdView(View) = v /\ IdView(browser) = v
  BY <1>2, <1>3, <1>4, <1>5, <1>6 DEF IdView, View, Ids
<1>8. v \in Strips
  <2>1. PICK q : q = [i \in {1} |-> 1]  OBVIOUS
  <2>2. PICK m \in Nat : m = 1  OBVIOUS
  <2>3. q \in Seq(Nat) /\ DOMAIN q = {1}
    <3>1. {1} = 1..m  BY <2>2
    <3>2. q = [i \in 1..m |-> 1]  BY <2>1, <3>1
    <3>3. q \in [1..m -> Nat]  BY <3>2
    <3>4. \A n \in Nat : \A f \in [1..n -> Nat] : f \in Seq(Nat)  OBVIOUS
    <3>5. q \in Seq(Nat)  BY <2>2, <3>3, <3>4
    <3> QED  BY <2>1, <3>5
  <2>4. v \in [ids : Seq(Nat), active : Nat] /\ v.active \in DOMAIN v.ids /\ v.ids = q
    BY <1>6, <2>1, <2>3
  <2>5. Distinct(v.ids)  BY <2>3, <2>4 DEF Distinct
  <2> QED  BY <2>4, <2>5 DEF Strips
<1>9. Fresh  BY <1>2, <1>3, <1>4, <1>5 DEF Fresh
<1>10. Matching  BY <1>2 DEF Matching
<1>11. PICK H : H = [n \in Nat |-> v]  OBVIOUS
<1>12. H \in [Nat -> Strips] /\ \A n \in Nat : H[n] = v  BY <1>8, <1>11
<1>13. Told(H)  BY <1>2, <1>7, <1>12 DEF Told
<1> QED  BY <1>1, <1>9, <1>10, <1>13 DEF StripInv

(* Steps that leave both strips alone. *)
LEMMA QuietTells ==
  ASSUME StripInv, UNCHANGED <<serial, tabs, active, received, snapshot, pending, commands,
                               latest, next_tab>>,
         IdView(browser') = IdView(browser)
  PROVE  Matching' /\ Fresh' /\ \E H : Told(H)'
<1>1. Matching'  BY DEF StripInv, Matching
<1>2. Fresh'  BY DEF StripInv, Fresh
<1>3. PICK H : Told(H)  BY DEF StripInv
<1>4. View' = View /\ IdView(View)' = IdView(View) /\ IdView(browser)' = IdView(browser)
      /\ IdView(latest)' = IdView(latest)
  BY DEF IdView, View
<1>5. Told(H)'  BY <1>3, <1>4 DEF Told
<1> QED  BY <1>1, <1>2, <1>5

(* What is published is the strip of the last number received. *)
LEMMA PublishTells ==
  ASSUME StripInv, Publish
  PROVE  Matching' /\ Fresh' /\ \E H : Told(H)'
<1>1. /\ latest'.serial = received /\ latest'.tabs = Captured /\ latest'.active = browser.active
      /\ UNCHANGED <<serial, tabs, active, received, snapshot, pending, commands, browser, next_tab>>
  BY DEF Publish, windowVars, idVars, Captured
<1>2. Matching'  BY <1>1 DEF StripInv, Matching
<1>3. Fresh'  BY <1>1 DEF StripInv, Fresh
<1>4. PICK H : Told(H)  BY DEF StripInv
<1>5. View' = View /\ IdView(View)' = IdView(View) /\ IdView(browser)' = IdView(browser)
  BY <1>1 DEF IdView, View
<1>6. Ids(Captured) = Ids(browser.tabs)
  <2>1. DOMAIN Captured = DOMAIN browser.tabs
        /\ \A i \in DOMAIN browser.tabs : Captured[i].id = browser.tabs[i].id
    BY DEF Captured, FromTab
  <2> QED  BY <2>1 DEF Ids
<1>7. IdView(latest)' = IdView(browser)  BY <1>1, <1>6 DEF IdView
<1>8. received \in Nat /\ snapshot <= received  BY DEF StripInv, OrderInv, Matching
<1>9. H[latest'.serial] = IdView(latest)'  BY <1>1, <1>4, <1>7 DEF Told
<1>10. Told(H)'  BY <1>1, <1>4, <1>5, <1>8, <1>9 DEF Told
<1> QED  BY <1>2, <1>3, <1>10

(* Reading a snapshot forgets the strips before it; the one on show stays. *)
LEMMA ReceiveTells ==
  ASSUME StripInv, Receive
  PROVE  /\ Matching' /\ Fresh' /\ \E H : Told(H)'
         /\ IdView(View)' = IdView(View)
<1>1. PICK k, from, v : /\ from = latest.serial /\ k = Unacknowledged(latest.serial)
                        /\ v = Reproject(latest, Unacknowledged(latest.serial))
  OBVIOUS
<1>2. /\ latest # NoSnapshot /\ latest' = NoSnapshot /\ snapshot' = from
      /\ pending' = k /\ tabs' = v.tabs /\ active' = v.active
      /\ UNCHANGED <<serial, commands, browser, received, next_tab>>
  BY <1>1 DEF Receive, ownerVars, idVars
<1>3. PICK H : Told(H)  BY DEF StripInv
<1>4. /\ from \in Nat /\ snapshot <= from /\ from <= received
  BY <1>1, <1>2, <1>3 DEF Told
<1>5. IdView(v) = IdView(View)  BY <1>1, <1>2, <1>3, ReprojectsToView DEF StripInv
<1>6. IdView(View)' = IdView(View)
  <2>1. View' = [tabs |-> v.tabs, active |-> v.active]  BY <1>2 DEF View
  <2> QED  BY <1>5, <2>1 DEF IdView
<1>7. /\ k \in Seq(Waiting)
      /\ \A i, j \in 1..Len(k) : i < j => k[i].serial < k[j].serial
      /\ \A i \in 1..Len(k) : k[i].serial > from /\ \E j \in 1..Len(pending) : k[i] = pending[j]
      /\ \A j \in 1..Len(pending) : pending[j].serial > from =>
            \E i \in 1..Len(k) : k[i] = pending[j]
  BY <1>1, <1>4, KeptInOrder DEF StripInv, NavInv, Matching
<1>8. Fresh'
  <2>1. Ids(tabs') = Ids(tabs)  BY <1>6 DEF IdView, View
  <2>2. DOMAIN Ids(tabs') = DOMAIN tabs' /\ \A i \in DOMAIN tabs' : Ids(tabs')[i] = tabs'[i].id
    BY DEF Ids
  <2>3. DOMAIN Ids(tabs) = DOMAIN tabs /\ \A i \in DOMAIN tabs : Ids(tabs)[i] = tabs[i].id
    BY DEF Ids
  <2>4. DOMAIN tabs = 1..Len(tabs)  BY DEF StripInv, NavInv, Views, View
  <2>5. DOMAIN tabs' = 1..Len(tabs')
    <3>1. View' \in Views(next_navigation')  BY ReceiveKeepsNav DEF StripInv, NavInv
    <3>2. tabs' \in Seq(WindowTabs(next_navigation'))  BY <3>1 DEF Views, View
    <3> QED  BY <3>2
  <2>6. \A i \in DOMAIN tabs' : i \in DOMAIN tabs /\ tabs'[i].id = tabs[i].id
    BY <2>1, <2>2, <2>3
  <2>7. \A i \in 1..Len(tabs') : tabs'[i].id < next_tab'
    BY <1>2, <2>4, <2>5, <2>6 DEF StripInv, Fresh
  <2> QED  BY <2>7 DEF Fresh
<1>9. Matching'
  <2>1. \A i \in 1..Len(k) : /\ k[i].serial \in Nat /\ from < k[i].serial /\ k[i].serial <= serial
    <3> TAKE i \in 1..Len(k)
    <3>1. PICK j \in 1..Len(pending) : k[i] = pending[j]  BY <1>7
    <3>2. pending[j].serial \in Nat /\ pending[j].serial <= serial  BY DEF StripInv, Matching
    <3>3. k[i].serial > from  BY <1>7
    <3> QED  BY <1>4, <3>1, <3>2, <3>3
  <2>2. ASSUME NEW c \in 1..Len(commands), commands[c].intent # NoIntent
        PROVE  \E i \in 1..Len(k) : /\ k[i].serial = commands[c].serial
                                    /\ k[i].intent = commands[c].intent
    <3>1. PICK j \in 1..Len(pending) : /\ pending[j].serial = commands[c].serial
                                       /\ pending[j].intent = commands[c].intent
      BY <2>2 DEF StripInv, Matching
    <3>2. received < commands[c].serial /\ received \in Nat /\ commands[c].serial \in Nat
      BY DEF StripInv, Matching, OrderInv, Numbered
    <3>3. pending[j].serial > from  BY <1>4, <3>1, <3>2
    <3> QED  BY <1>7, <3>1, <3>3
  <2>3. ASSUME NEW i \in 1..Len(k), k[i].serial > received
        PROVE  \E c \in 1..Len(commands) : /\ commands[c].serial = k[i].serial
                                           /\ commands[c].intent = k[i].intent
    <3>1. PICK j \in 1..Len(pending) : k[i] = pending[j]  BY <1>7
    <3> QED  BY <2>3, <3>1 DEF StripInv, Matching
  <2>4. /\ \A c \in 1..Len(commands) : received < commands[c].serial
        /\ \A j, c \in 1..Len(commands) : j < c => commands[j].serial < commands[c].serial
        /\ \A c \in 1..Len(commands) :
              /\ commands[c].kind \in {"chrome", "navigate", "press", "pointer"}
              /\ commands[c].intent # NoIntent => commands[c].kind = "chrome"
    BY DEF StripInv, Matching
  <2> QED  BY <1>2, <1>4, <1>7, <2>1, <2>2, <2>3, <2>4 DEF Matching
<1>10. Told(H)'
  <2>1. IdView(browser)' = IdView(browser)  BY <1>2 DEF IdView
  <2>2. ASSUME NEW i \in 1..Len(k)
        PROVE  /\ Fits(H[k[i].serial - 1], k[i].intent)
               /\ H[k[i].serial] = OnIds(H[k[i].serial - 1], k[i].intent)
    <3>1. PICK j \in 1..Len(pending) : k[i] = pending[j]  BY <1>7
    <3> QED  BY <1>3, <3>1 DEF Told
  <2>3. ASSUME NEW n \in Nat, from < n, n <= serial, \A i \in 1..Len(k) : k[i].serial # n
        PROVE  H[n] = H[n - 1]
    <3>1. \A j \in 1..Len(pending) : pending[j].serial # n
      <4> SUFFICES ASSUME NEW j \in 1..Len(pending), pending[j].serial = n PROVE FALSE  OBVIOUS
      <4>1. pending[j].serial > from  BY <1>4, <2>3
      <4>2. PICK i \in 1..Len(k) : k[i] = pending[j]  BY <1>7, <4>1
      <4> QED  BY <2>3, <4>2
    <3>2. snapshot < n  BY <1>4, <2>3 DEF StripInv, Matching
    <3> QED  BY <1>3, <2>3, <3>1, <3>2 DEF Told
  <2>4. /\ H \in [Nat -> Strips] /\ H[serial] = IdView(View) /\ H[received] = IdView(browser)
        /\ \A c \in 1..Len(commands) : commands[c].intent = NoIntent =>
              H[commands[c].serial].ids[H[commands[c].serial].active] = commands[c].tab
    BY <1>3 DEF Told
  <2> QED  BY <1>2, <1>6, <2>1, <2>2, <2>3, <2>4 DEF Told
<1> QED  BY <1>6, <1>8, <1>9, <1>10

(* The first of the channel, and the rest of it. *)
LEMMA FirstOfChannel ==
  ASSUME OrderInv, commands # << >>,
         \A k \in 1..Len(commands) : received < commands[k].serial,
         \A j, k \in 1..Len(commands) : j < k => commands[j].serial < commands[k].serial
  PROVE  /\ Len(commands) \in Nat \ {0} /\ 1 \in 1..Len(commands) /\ Head(commands) = commands[1]
         /\ Len(Tail(commands)) = Len(commands) - 1
         /\ \A k \in 1..Len(Tail(commands)) :
               k + 1 \in 1..Len(commands) /\ Tail(commands)[k] = commands[k + 1]
         /\ \A k \in 1..Len(commands) :
               k # 1 => k - 1 \in 1..Len(Tail(commands)) /\ Tail(commands)[k - 1] = commands[k]
         /\ \A k \in 1..Len(commands) : k # 1 => commands[1].serial < commands[k].serial
         /\ received \in Nat /\ serial \in Nat
         /\ commands[1].serial \in Nat /\ received < commands[1].serial
         /\ commands[1].serial <= serial
<1>1. PICK S : commands \in Seq(S)  BY DEF OrderInv
<1>2. PICK q, t : q = commands /\ t = Tail(commands)  OBVIOUS
<1>3. q \in Seq(S) /\ q # << >> /\ t = Tail(q)  BY <1>1, <1>2
<1>4. /\ Len(q) \in Nat \ {0} /\ 1 \in 1..Len(q) /\ Head(q) = q[1] /\ Len(t) = Len(q) - 1
      /\ \A k \in 1..Len(t) : k + 1 \in 1..Len(q) /\ t[k] = q[k + 1]
  BY <1>3
<1>5. ASSUME NEW k \in 1..Len(q), k # 1 PROVE k - 1 \in 1..Len(t) /\ t[k - 1] = q[k]
  <2>1. k - 1 \in 1..Len(t) /\ (k - 1) + 1 = k  BY <1>4, <1>5
  <2> QED  BY <1>4, <2>1
<1>6. ASSUME NEW k \in 1..Len(q), k # 1 PROVE q[1].serial < q[k].serial
  <2>1. 1 \in 1..Len(q) /\ 1 < k  BY <1>4, <1>6
  <2> QED  BY <1>2, <2>1
<1>7. /\ received \in Nat /\ serial \in Nat /\ q[1].serial \in Nat /\ received < q[1].serial
      /\ q[1].serial <= serial
  BY <1>2, <1>4 DEF OrderInv, Numbered
<1> QED  BY <1>2, <1>4, <1>5, <1>6, <1>7

(* What the owner makes of its next input is the strip of that number.     *)
LEMMA HandleFollows ==
  ASSUME StripInv, Handle, NEW H, Told(H), NEW r, r = commands[1].serial
  PROVE  IdView(browser') = H[r]
<1> PICK input : input = commands[1]  OBVIOUS
<1>1. /\ Len(commands) \in Nat \ {0} /\ 1 \in 1..Len(commands) /\ Head(commands) = commands[1]
      /\ \A k \in 1..Len(commands) : k # 1 => r < commands[k].serial
      /\ received \in Nat /\ serial \in Nat /\ r \in Nat /\ received < r /\ r <= serial
      /\ snapshot \in Nat /\ snapshot <= received
  <2>1. commands # << >>  BY DEF Handle
  <2> QED  BY <2>1, FirstOfChannel DEF StripInv, Matching
<1>2. \A i \in 1..Len(pending) : received < pending[i].serial =>
         \E k \in 1..Len(commands) : /\ commands[k].serial = pending[i].serial
                                     /\ commands[k].intent = pending[i].intent
  <2>1. \A i \in 1..Len(pending) : pending[i].serial \in Nat  BY DEF StripInv, Matching
  <2>2. \A i \in 1..Len(pending) : received < pending[i].serial => pending[i].serial > received
    BY <1>1, <2>1
  <2> QED  BY <2>2 DEF StripInv, Matching
<1>3. H[r - 1] = IdView(browser)
  <2>1. ASSUME NEW n \in Nat, received < n, n <= r - 1 PROVE H[n] = H[n - 1]
    <3>1. snapshot < n /\ n <= serial /\ n < r  BY <1>1, <2>1
    <3>2. \A i \in 1..Len(pending) : pending[i].serial # n
      <4> SUFFICES ASSUME NEW i \in 1..Len(pending), pending[i].serial = n PROVE FALSE  OBVIOUS
      <4>1. PICK k \in 1..Len(commands) : commands[k].serial = n  BY <1>2, <2>1
      <4>2. k = 1 \/ r < n  BY <1>1, <4>1
      <4>3. k = 1 => n = r  BY <4>1
      <4> QED  BY <1>1, <3>1, <4>2, <4>3
    <3> QED  BY <3>1, <3>2 DEF Told
  <2>2. r - 1 \in Nat /\ received <= r - 1  BY <1>1
  <2>3. H[r - 1] = H[received]  BY <1>1, <2>1, <2>2, Still
  <2> QED  BY <2>3 DEF Told
<1>4. /\ browser \in Browsers(next_navigation) /\ next_navigation \in Nat \ {0} /\ next_tab \in Nat
      /\ browser = [tabs |-> browser.tabs, active |-> browser.active]
      /\ browser.tabs \in Seq(OwnerTabs(next_navigation)) /\ browser.active \in DOMAIN browser.tabs
  BY DEF StripInv, NavInv, Browsers
<1>5. IdView(browser) \in Strips
  <2>1. r - 1 \in Nat  BY <1>1
  <2> QED  BY <1>3, <2>1 DEF Told
<1>6. CASE input.intent # NoIntent
  <2>1. PICK x : x = input.intent  OBVIOUS
  <2>2. input.kind = "chrome" /\ \E i \in 1..Len(pending) : pending[i].serial = r /\ pending[i].intent = x
    BY <1>1, <1>6, <2>1 DEF StripInv, Matching
  <2>3. Fits(H[r - 1], x) /\ H[r] = OnIds(H[r - 1], x)  BY <2>2 DEF Told
  <2>4. IdView(Apply(browser, x, next_tab)) = H[r]
    BY <1>3, <1>4, <1>5, <2>3, ApplyOnIds
  <2>5. browser' = Effect("chrome", Apply(browser, x, next_tab))
    BY <1>1, <1>6, <2>1, <2>2 DEF Handle, PageEvents
  <2>6. browser' = Apply(browser, x, next_tab)  BY <2>5 DEF Effect
  <2> QED  BY <2>4, <2>6
<1>7. CASE input.intent = NoIntent
  <2>1. \A i \in 1..Len(pending) : pending[i].serial # r
    <3> SUFFICES ASSUME NEW i \in 1..Len(pending), pending[i].serial = r PROVE FALSE  OBVIOUS
    <3>1. PICK k \in 1..Len(commands) : commands[k].serial = r /\ commands[k].intent = pending[i].intent
      BY <1>1, <1>2
    <3>2. k = 1  BY <1>1, <3>1
    <3>3. pending[i].intent = NoIntent  BY <1>7, <3>1, <3>2
    <3>4. Fits(H[pending[i].serial - 1], pending[i].intent)  BY DEF Told
    <3> QED  BY <3>3, <3>4 DEF Fits, NoIntent
  <2>2. H[r] = IdView(browser)
    <3>1. snapshot < r  BY <1>1
    <3> QED  BY <1>1, <1>3, <2>1, <3>1 DEF Told
  <2>3. H[r].ids[H[r].active] = input.tab  BY <1>1, <1>7 DEF Told
  <2>4. browser.tabs[browser.active].id = input.tab  BY <1>4, <2>2, <2>3 DEF IdView, Ids
  <2>5. IndexOf(browser.tabs, input.tab) = browser.active /\ Has(browser.tabs, input.tab)
    <3>1. \A i \in DOMAIN browser.tabs : browser.tabs[i].id = input.tab => i = browser.active
      BY <1>4, <1>5, <2>4 DEF Strips, IdView, Distinct, Ids
    <3>2. Has(browser.tabs, input.tab)  BY <1>4, <2>4 DEF Has
    <3>3. IndexOf(browser.tabs, input.tab) \in DOMAIN browser.tabs
          /\ browser.tabs[IndexOf(browser.tabs, input.tab)].id = input.tab
      BY <3>2, Found
    <3> QED  BY <3>1, <3>2, <3>3
  <2>6. [browser EXCEPT !.active = IndexOf(browser.tabs, input.tab)] = browser
    BY <1>4, <2>5
  <2>7. browser' = browser \/ browser' = Effect(input.kind, browser)
    BY <1>1, <1>7, <2>6 DEF Handle
  <2>8. input.kind \in {"chrome", "navigate", "press", "pointer"}
    BY <1>1 DEF StripInv, Matching
  <2>9. browser' = browser \/ browser' = Loading(browser, browser.active)
    BY <2>7, <2>8 DEF Effect
  <2>10. IdView(Loading(browser, browser.active)) = IdView(browser)  BY <1>4, LoadingAlike
  <2> QED  BY <2>2, <2>9, <2>10
<1> QED  BY <1>6, <1>7

(* The owner comes to the strip of the input it takes. *)
LEMMA HandleTells ==
  ASSUME StripInv, Handle
  PROVE  Matching' /\ Fresh' /\ \E H : Told(H)'
<1>1. PICK r : r = commands[1].serial  OBVIOUS
<1>2. PICK t : t = Tail(commands)  OBVIOUS
<1>3. commands # << >>  BY DEF Handle
<1>4. /\ Len(commands) \in Nat \ {0} /\ 1 \in 1..Len(commands) /\ Head(commands) = commands[1]
      /\ \A k \in 1..Len(t) : k + 1 \in 1..Len(commands) /\ t[k] = commands[k + 1]
      /\ Len(t) = Len(commands) - 1
      /\ \A k \in 1..Len(commands) : k # 1 => k - 1 \in 1..Len(t) /\ t[k - 1] = commands[k]
      /\ \A k \in 1..Len(commands) : k # 1 => r < commands[k].serial
      /\ received \in Nat /\ serial \in Nat /\ r \in Nat /\ received < r /\ r <= serial
  BY <1>1, <1>2, <1>3, FirstOfChannel DEF StripInv, Matching
<1>5. /\ snapshot \in Nat /\ snapshot <= received
      /\ \A i \in 1..Len(pending) : /\ pending[i].serial \in Nat /\ snapshot < pending[i].serial
                                    /\ pending[i].serial <= serial
  BY DEF StripInv, Matching
<1>6. /\ commands' = t /\ received' = r
      /\ UNCHANGED <<tabs, active, pending, serial, snapshot, latest>>
  BY <1>1, <1>2, <1>4 DEF Handle, windowVars
<1>7. Fresh'
  <2>1. next_tab' = next_tab \/ next_tab' = next_tab + 1  BY DEF Handle
  <2>2. next_tab \in Nat /\ \A i \in 1..Len(tabs) : tabs[i].id \in Nat
    <3>1. PICK T : T = WindowTabs(next_navigation)  OBVIOUS
    <3>2. next_tab \in Nat /\ tabs \in Seq(T) /\ \A w \in T : w.id \in Nat
      BY <3>1 DEF StripInv, NavInv, Views, View, WindowTabs
    <3> QED  BY <3>2
  <2> QED  BY <1>6, <2>1, <2>2 DEF StripInv, Fresh
<1>8. Matching'
  <2>1. snapshot \in Nat /\ snapshot <= r  BY <1>4, <1>5
  <2>2. \A k \in 1..Len(t) : r < t[k].serial
    <3> TAKE k \in 1..Len(t)
    <3>1. k + 1 # 1 /\ k + 1 \in 1..Len(commands) /\ t[k] = commands[k + 1]  BY <1>4
    <3> QED  BY <1>4, <3>1
  <2>3. \A j, k \in 1..Len(t) : j < k => t[j].serial < t[k].serial
    <3> TAKE j, k \in 1..Len(t)
    <3>1. HAVE j < k
    <3>2. j + 1 < k + 1  BY <3>1
    <3> QED  BY <1>4, <3>2 DEF StripInv, Matching
  <2>4. ASSUME NEW k \in 1..Len(t)
        PROVE  /\ t[k].kind \in {"chrome", "navigate", "press", "pointer"}
               /\ t[k].intent # NoIntent =>
                     /\ t[k].kind = "chrome"
                     /\ \E i \in 1..Len(pending) : /\ pending[i].serial = t[k].serial
                                                   /\ pending[i].intent = t[k].intent
    <3>1. PICK c \in 1..Len(commands) : t[k] = commands[c]  BY <1>4
    <3> QED  BY <3>1 DEF StripInv, Matching
  <2>5. ASSUME NEW i \in 1..Len(pending), pending[i].serial > r
        PROVE  \E k \in 1..Len(t) : /\ t[k].serial = pending[i].serial
                                    /\ t[k].intent = pending[i].intent
    <3>1. pending[i].serial > received  BY <1>4, <1>5, <2>5
    <3>2. PICK k \in 1..Len(commands) : /\ commands[k].serial = pending[i].serial
                                        /\ commands[k].intent = pending[i].intent
      BY <3>1 DEF StripInv, Matching
    <3>3. k # 1  BY <1>1, <1>4, <2>5, <3>2
    <3>4. k - 1 \in 1..Len(t) /\ t[k - 1] = commands[k]  BY <1>4, <3>3
    <3> QED  BY <3>2, <3>4
  <2>6. \A i, j \in 1..Len(pending) : i < j => pending[i].serial < pending[j].serial
    BY DEF StripInv, Matching
  <2> QED  BY <1>5, <1>6, <2>1, <2>2, <2>3, <2>4, <2>5, <2>6 DEF Matching
<1>9. PICK H : Told(H)  BY DEF StripInv
<1>10. Told(H)'
  <2>1. IdView(browser)' = H[r]  BY <1>1, <1>9, HandleFollows DEF IdView
  <2>2. View' = View /\ IdView(View)' = IdView(View) /\ IdView(latest)' = IdView(latest)
    BY <1>6 DEF View, IdView
  <2>3. latest # NoSnapshot => /\ latest.serial \in Nat /\ snapshot <= latest.serial
                               /\ latest.serial <= r /\ H[latest.serial] = IdView(latest)
    <3>1. latest # NoSnapshot => /\ latest.serial \in Nat /\ snapshot <= latest.serial
                                 /\ latest.serial <= received /\ H[latest.serial] = IdView(latest)
      BY <1>9 DEF Told
    <3> QED  BY <1>4, <3>1
  <2>4. \A k \in 1..Len(t) : t[k].intent = NoIntent =>
           H[t[k].serial].ids[H[t[k].serial].active] = t[k].tab
    BY <1>4, <1>9 DEF Told
  <2> QED  BY <1>6, <1>9, <2>1, <2>2, <2>3, <2>4 DEF Told
<1> QED  BY <1>7, <1>8, <1>10

(* The reader's steps change the strip as promised; the others leave it.   *)
LEMMA StripKept ==
  ASSUME Plain = {}, StripInv, [Next]_vars
  PROVE  /\ Matching' /\ Fresh' /\ \E H : Told(H)'
         /\ Strip!StripNext \/ UNCHANGED Strip!stripVars
<1>1. \/ Reader \/ Receive \/ Handle \/ PageNavigates \/ Publish
      \/ \E i \in DOMAIN browser.tabs : Arrive(i)
      \/ UNCHANGED vars
  BY DEF Next, Settled
<1>2. UNCHANGED <<tabs, active>> => UNCHANGED Strip!stripVars
  BY DEF Strip!stripVars, Ids
<1>3. CASE Reader
  <2>1. PICK kind, intent, v : Send(kind, intent, v) /\ Asks(kind, intent, v)
    BY <1>3, ReaderAsks
  <2>2. /\ Matching' /\ Fresh' /\ \E H : Told(H)'
        /\ \/ IdView(View)' = IdView(View)
           \/ Fits(IdView(View), intent) /\ IdView(View)' = OnIds(IdView(View), intent)
    BY <2>1, SendMatches, SendTells
  <2>3. PICK old, new : old = IdView(View) /\ new = IdView(View)'  OBVIOUS
  <2>4. /\ Ids(tabs) = old.ids /\ active = old.active
        /\ Ids(tabs)' = new.ids /\ active' = new.active
    BY <2>3 DEF IdView, View
  <2>5. old \in Strips  BY <2>3 DEF StripInv, Told, OrderInv
  <2>6. CASE new = old  BY <2>2, <2>4, <2>6 DEF Strip!stripVars
  <2>7. CASE Fits(old, intent) /\ new = OnIds(old, intent)
    <3>1. Strip!StripNext  BY <2>4, <2>5, <2>7, StripSteps
    <3> QED  BY <2>2, <3>1
  <2> QED  BY <2>2, <2>3, <2>6, <2>7
<1>4. CASE Receive
  <2>1. Matching' /\ Fresh' /\ (\E H : Told(H)') /\ IdView(View)' = IdView(View)
    BY <1>4, ReceiveTells
  <2>2. Ids(tabs)' = Ids(tabs) /\ active' = active  BY <2>1 DEF IdView, View
  <2> QED  BY <2>1, <2>2 DEF Strip!stripVars
<1>5. CASE Handle
  <2>1. UNCHANGED <<tabs, active>>  BY <1>5 DEF Handle, windowVars
  <2> QED  BY <1>2, <1>5, <2>1, HandleTells
<1>6. CASE Publish
  <2>1. UNCHANGED <<tabs, active>>  BY <1>6 DEF Publish, windowVars
  <2> QED  BY <1>2, <1>6, <2>1, PublishTells
<1>7. CASE PageNavigates
  <2>1. UNCHANGED <<serial, tabs, active, received, snapshot, pending, commands, latest, next_tab>>
        /\ browser' = Loading(browser, browser.active)
    BY <1>7 DEF PageNavigates, windowVars
  <2>2. browser \in Browsers(next_navigation) /\ browser.active \in DOMAIN browser.tabs
    BY DEF StripInv, NavInv, Browsers
  <2>3. IdView(browser') = IdView(browser)  BY <2>1, <2>2, LoadingAlike
  <2> QED  BY <1>2, <2>1, <2>3, QuietTells
<1>8. ASSUME NEW i \in DOMAIN browser.tabs, Arrive(i)
      PROVE  /\ Matching' /\ Fresh' /\ \E H : Told(H)'
             /\ Strip!StripNext \/ UNCHANGED Strip!stripVars
  <2>1. UNCHANGED <<serial, tabs, active, received, snapshot, pending, commands, latest, next_tab>>
    BY <1>8 DEF Arrive, windowVars, idVars
  <2>2. IdView(browser') = IdView(browser)  BY <1>8, ArrivedAlike DEF StripInv
  <2> QED  BY <1>2, <2>1, <2>2, QuietTells
<1>9. CASE UNCHANGED vars
  <2>1. UNCHANGED <<serial, tabs, active, received, snapshot, pending, commands, latest, next_tab, browser>>
    BY <1>9 DEF vars, windowVars, ownerVars, idVars
  <2> QED  BY <1>2, <2>1, QuietTells
<1> QED  BY <1>1, <1>3, <1>4, <1>5, <1>6, <1>7, <1>8, <1>9

(* The tab strip on show is the one the reader was promised, at once and   *)
(* at no other moment than the reader's own, however stale the snapshots   *)
(* applied under it (WindowBrowser::receive over Intent::project and       *)
(* Intent::apply). A reopened or a duplicated tab appears when the owner   *)
(* has made it: the promise is for a reader who asks for neither.          *)
THEOREM ReadersStripIsKept ==
  ASSUME Plain = {}
  PROVE  Spec => ImplementsTabStrip
<1>1. Init => Strip!StripInit
  <2> SUFFICES ASSUME Init PROVE Strip!StripInit  OBVIOUS
  <2>1. PICK t : t = FromTab(Blank(1))  OBVIOUS
  <2>2. tabs = <<t>> /\ active = 1  BY <2>1 DEF Init
  <2>3. DOMAIN tabs = 1..1  BY <2>2
  <2>4. DOMAIN Ids(tabs) = 1..1  BY <2>3 DEF Ids
  <2>5. Len(Ids(tabs)) = 1  BY <2>4, LenProperties
  <2> QED  BY <2>2, <2>5 DEF Strip!StripInit
<1>2. Init => StripInv  BY StripInit
<1>3. StripInv /\ [Next]_vars => StripInv' /\ [Strip!StripNext]_(Strip!stripVars)
  <2> SUFFICES ASSUME StripInv, [Next]_vars
               PROVE  StripInv' /\ (Strip!StripNext \/ UNCHANGED Strip!stripVars)
    OBVIOUS
  <2>1. OrderInv'  BY OrderStep DEF StripInv
  <2>2. NavInv'  BY NavStep DEF StripInv
  <2>3. /\ Matching' /\ Fresh' /\ \E H : Told(H)'
        /\ Strip!StripNext \/ UNCHANGED Strip!stripVars
    BY StripKept
  <2>4. StripInv'  BY <2>1, <2>2, <2>3 DEF StripInv
  <2> QED  BY <2>3, <2>4
<1> QED  BY <1>1, <1>2, <1>3, PTL DEF Spec, ImplementsTabStrip, Strip!StripSpec

-----------------------------------------------------------------------------
(* Types. Each input gives out two identities at most, one by the window   *)
(* when it is sent and one by the owner when it is handled; an identity on *)
(* its way to the owner is in no strip the owner has shown.                *)

(* The identity an intent gives out, and the strips that do not have it. *)
NewOf(x) == IF x.op = "open" THEN {x.id}
            ELSE IF x.op = "close" /\ x.with # None THEN {x.with} ELSE {}
Without(ids, x) == \A y \in NewOf(x) : ~Holds(ids, y)

(* At most m tabs, all named before n and no two alike. *)
Known(ids, n, m) ==
    Distinct(ids) /\ Len(ids) <= m /\ \A i \in DOMAIN ids : 0 < ids[i] /\ ids[i] < n
(* An intent about tabs named before n, to one of m places. *)
About(x, n, m) ==
    /\ x \in Intents /\ x.op # "none"
    /\ 0 < x.id /\ x.id < n /\ x.with < n /\ x.to <= m

Counted ==
    /\ serial <= MaxSerial /\ loads \in 0..MaxLoads /\ snapshot \in Nat /\ snapshot <= received
    /\ 2 <= next_tab /\ next_tab <= 2 + serial + received
    /\ next_navigation <= 1 + received + loads
Queued ==
    /\ \A i \in 1..Len(pending) : pending[i].serial \in Nat /\ pending[i].serial <= serial
    /\ \A i, j \in 1..Len(pending) : i < j => pending[i].serial < pending[j].serial
    /\ \A k \in 1..Len(commands) : received < commands[k].serial
    /\ \A j, k \in 1..Len(commands) : j < k => commands[j].serial < commands[k].serial
    /\ \A k \in 1..Len(commands) : commands[k].intent # NoIntent =>
          /\ commands[k].kind = "chrome"
          /\ \E i \in 1..Len(pending) : /\ pending[i].serial = commands[k].serial
                                        /\ pending[i].intent = commands[k].intent
Named ==
    /\ Known(Ids(tabs), next_tab, 1 + serial)
    /\ Known(Ids(browser.tabs), next_tab, 1 + received)
    /\ \A i \in 1..Len(pending) : About(pending[i].intent, next_tab, 1 + serial)
    /\ \A i, j \in 1..Len(pending) :
          i < j => NewOf(pending[i].intent) \cap NewOf(pending[j].intent) = {}
    /\ \A i \in 1..Len(pending) :
          pending[i].serial > received => Without(Ids(browser.tabs), pending[i].intent)
    /\ latest # NoSnapshot =>
          /\ latest.serial \in Nat /\ latest.serial <= received
          /\ Known(Ids(latest.tabs), next_tab, 1 + latest.serial)
          /\ \A i \in 1..Len(pending) :
                pending[i].serial > latest.serial => Without(Ids(latest.tabs), pending[i].intent)
Held ==
    /\ scenes \in [TabIds -> [document : Navigations, serial : Serials]]
    /\ invalidated \in [TabIds -> Serials]
    /\ pointer_slot \in BOOLEAN /\ unpublished \in BOOLEAN
    /\ commands \in Seq(Input)
    /\ hit \in [seen : Navigations, upto : Navigations, document : Navigations]
    /\ latest = [serial |-> latest.serial, tabs |-> latest.tabs, active |-> latest.active,
                 document |-> latest.document]
    /\ latest.document \in Navigations
    /\ \A i \in 1..Len(closed_tabs) : closed_tabs[i].tab.id \in TabIds
TypeInv == Counted /\ Queued /\ Named /\ Held

LEMMA NewOfIn ==
  ASSUME NEW x \in Intents
  PROVE  NewOf(x) \subseteq Nat
  BY DEF NewOf, Intents

(* One more at the end ... *)
LEMMA DistinctAppend ==
  ASSUME NEW q \in Seq(Nat), Distinct(q), NEW y \in Nat, ~Holds(q, y)
  PROVE  /\ Append(q, y) \in Seq(Nat) /\ Len(Append(q, y)) = Len(q) + 1 /\ Distinct(Append(q, y))
         /\ \A i \in DOMAIN Append(q, y) : Append(q, y)[i] = y \/ Holds(q, Append(q, y)[i])
<1>1. PICK r : r = Append(q, y)  OBVIOUS
<1>2. /\ r \in Seq(Nat) /\ Len(r) = Len(q) + 1 /\ DOMAIN r = 1..(Len(q) + 1)
      /\ \A i \in 1..Len(q) : r[i] = q[i]
      /\ r[Len(q) + 1] = y /\ DOMAIN q = 1..Len(q) /\ Len(q) \in Nat
  BY <1>1
<1>3. \A k \in DOMAIN r : k \in DOMAIN q \/ k = Len(q) + 1  BY <1>2
<1>4. Distinct(r)  BY <1>2, <1>3 DEF Distinct, Holds
<1>5. \A i \in DOMAIN r : r[i] = y \/ Holds(q, r[i])  BY <1>2, <1>3 DEF Holds
<1> QED  BY <1>1, <1>2, <1>4, <1>5

(* ... or in the place of the first. *)
LEMMA DistinctInstead ==
  ASSUME NEW q \in Seq(Nat), Distinct(q), q # << >>, NEW y \in Nat, ~Holds(q, y),
         NEW r \in Seq(Nat), Len(r) = Len(q), r[1] = y, \A i \in 2..Len(q) : r[i] = q[i]
  PROVE  Distinct(r) /\ \A i \in DOMAIN r : r[i] = y \/ Holds(q, r[i])
<1>1. /\ DOMAIN r = 1..Len(q) /\ DOMAIN q = 1..Len(q) /\ Len(q) \in Nat
      /\ \A i \in 1..Len(q) : i = 1 \/ i \in 2..Len(q)
  OBVIOUS
<1>2. Distinct(r)  BY <1>1 DEF Distinct, Holds
<1>3. \A i \in DOMAIN r : r[i] = y \/ Holds(q, r[i])  BY <1>1 DEF Holds
<1> QED  BY <1>2, <1>3

(* The list p comes of q and gains no identity but those of Y.             *)
Gains(p, q, Y) ==
    /\ Distinct(p) /\ p \in Seq(Nat) /\ Len(p) <= Len(q) + 1
    /\ \A i \in DOMAIN p : p[i] \in Y \/ Holds(q, p[i])

LEMMA MovedGains ==
  ASSUME NEW q \in Seq(Nat), Distinct(q), NEW i \in 1..Len(q), NEW at \in 1..Len(q)
  PROVE  Gains(InsertAt(RemoveAt(q, i), at, q[i]), q, {})
<1>1. PICK r, y : r = RemoveAt(q, i) /\ y = q[i]  OBVIOUS
<1>2. /\ r \in Seq(Nat) /\ Len(r) = Len(q) - 1 /\ Distinct(r) /\ ~Holds(r, y)
      /\ \A j \in DOMAIN r : Holds(q, r[j])
  BY <1>1, DistinctWithout
<1>3. y \in Nat /\ Holds(q, y) /\ at \in 1..(Len(r) + 1) /\ Len(q) \in Nat
  BY <1>1, <1>2 DEF Holds
<1>4. PICK p : p = InsertAt(r, at, y)  OBVIOUS
<1>5. /\ p \in Seq(Nat) /\ Len(p) = Len(r) + 1 /\ Distinct(p)
      /\ \A j \in DOMAIN p : p[j] = y \/ Holds(r, p[j])
  BY <1>2, <1>3, <1>4, DistinctWith
<1>6. \A j \in DOMAIN p : Holds(q, p[j])  BY <1>2, <1>3, <1>5 DEF Holds
<1> QED  BY <1>1, <1>2, <1>3, <1>4, <1>5, <1>6 DEF Gains

(* The window's projection of an intent to a strip without its new tab.    *)
LEMMA ProjectGains ==
  ASSUME NEW n \in Nat \ {0}, NEW v \in Views(n), Distinct(Ids(v.tabs)),
         NEW x \in Intents, Without(Ids(v.tabs), x)
  PROVE  Gains(Ids(Project(v, x).tabs), Ids(v.tabs), NewOf(x))
<1>1. PICK T, s, q : T = WindowTabs(n) /\ s = v.tabs /\ q = Ids(s)  OBVIOUS
<1>2. /\ s \in Seq(T) /\ (\A t \in T : t.id \in Nat)
      /\ q \in Seq(Nat) /\ Len(q) = Len(s) /\ Distinct(q) /\ Len(q) \in Nat
      /\ \A i \in 1..Len(s) : q[i] = s[i].id
      /\ s # << >> => v.active \in 1..Len(s)
  <2>1. s \in Seq(T) /\ (\A t \in T : t.id \in Nat) /\ (s # << >> => v.active \in 1..Len(s))
    BY <1>1 DEF Views, WindowTabs
  <2>2. q \in Seq(Nat) /\ Len(q) = Len(s) /\ \A i \in 1..Len(s) : q[i] = s[i].id
    BY <1>1, <2>1, IdsOf
  <2> QED  BY <1>1, <2>1, <2>2
<1>3. \A i \in Nat : FromTab(Blank(i)) \in T /\ FromTab(Blank(i)).id = i
  BY <1>1, BlankInView DEF FromTab, Blank
<1>4. ASSUME NEW id, Has(s, id)
      PROVE  IndexOf(s, id) \in 1..Len(s) /\ q[IndexOf(s, id)] = id
  <2>1. IndexOf(s, id) \in DOMAIN s /\ s[IndexOf(s, id)].id = id  BY <1>4, Found
  <2>2. DOMAIN s = 1..Len(s)  BY <1>2
  <2> QED  BY <1>2, <2>1, <2>2
<1>5. x.id \in Nat /\ x.with \in Nat  BY DEF Intents
<1>6. CASE x.op = "open"
  <2>1. PICK t : t = FromTab(Blank(x.id))  OBVIOUS
  <2>2. t \in T /\ t.id = x.id  BY <1>3, <1>5, <2>1
  <2>3. Project(v, x).tabs = Append(s, t)  BY <1>1, <1>6, <2>1 DEF Project
  <2>4. Ids(Append(s, t)) = Append(q, x.id)  BY <1>1, <1>2, <2>2, IdsAppend
  <2>5. NewOf(x) = {x.id}  BY <1>6 DEF NewOf
  <2>6. ~Holds(q, x.id)  BY <1>1, <2>5 DEF Without
  <2> QED  BY <1>1, <1>2, <1>5, <2>3, <2>4, <2>5, <2>6, DistinctAppend DEF Gains
<1>7. CASE x.op = "close" /\ Has(s, x.id)
  <2>1. PICK i, rest : i = IndexOf(s, x.id) /\ rest = RemoveAt(s, i)  OBVIOUS
  <2>2. i \in 1..Len(s) /\ i \in 1..Len(q)  BY <1>2, <1>4, <1>7, <2>1
  <2>3. PICK p : p = RemoveAt(q, i)  OBVIOUS
  <2>4. Ids(rest) = p  BY <1>1, <1>2, <2>1, <2>2, <2>3, IdsRemove
  <2>5. /\ p \in Seq(Nat) /\ Len(p) = Len(q) - 1 /\ Distinct(p)
        /\ \A j \in DOMAIN p : Holds(q, p[j])
    BY <1>2, <2>2, <2>3, DistinctWithout
  <2>6. rest \in Seq(T)  BY <1>2, <2>1, <2>2, RemovedAt
  <2>7. CASE x.with = None
    <3>1. Project(v, x).tabs = rest  BY <1>1, <1>7, <2>1, <2>7 DEF Project
    <3> QED  BY <1>1, <1>2, <2>4, <2>5, <3>1 DEF Gains
  <2>8. CASE x.with # None
    <3>1. PICK t : t = FromTab(Blank(x.with))  OBVIOUS
    <3>2. t \in T /\ t.id = x.with  BY <1>3, <1>5, <3>1
    <3>3. Project(v, x).tabs = Append(rest, t)  BY <1>1, <1>7, <2>1, <2>8, <3>1 DEF Project
    <3>4. Ids(Append(rest, t)) = Append(p, x.with)  BY <1>2, <2>4, <2>6, <3>2, IdsAppend
    <3>5. NewOf(x) = {x.with}  BY <1>7, <2>8 DEF NewOf
    <3>6. ~Holds(p, x.with)  BY <1>1, <2>5, <3>5 DEF Without, Holds
    <3>7. PICK r : r = Append(p, x.with)  OBVIOUS
    <3>8. /\ r \in Seq(Nat) /\ Len(r) = Len(p) + 1 /\ Distinct(r)
          /\ \A j \in DOMAIN r : r[j] = x.with \/ Holds(p, r[j])
      BY <1>5, <2>5, <3>6, <3>7, DistinctAppend
    <3>9. \A j \in DOMAIN r : r[j] = x.with \/ Holds(q, r[j])  BY <2>5, <3>8 DEF Holds
    <3> QED  BY <1>1, <1>2, <2>5, <3>3, <3>4, <3>5, <3>7, <3>8, <3>9 DEF Gains
  <2> QED  BY <2>7, <2>8
<1>8. CASE x.op = "select" /\ Has(s, x.id)
  <2>1. Project(v, x).tabs = s  BY <1>1, <1>8 DEF Project, Views
  <2> QED  BY <1>1, <1>2, <2>1 DEF Gains, Holds
<1>9. CASE x.op = "move" /\ Has(s, x.id)
  <2>1. PICK i, at, rest, e : /\ i = IndexOf(s, x.id) /\ at = Capped(x.to, Len(s))
                              /\ rest = RemoveAt(s, i) /\ e = s[i]
    OBVIOUS
  <2>2. i \in 1..Len(s) /\ i \in 1..Len(q) /\ e \in T /\ e.id = q[i]  BY <1>2, <1>4, <1>9, <2>1
  <2>3. at \in 1..Len(s)
    <3>1. x.to \in Nat /\ x.to # 0 /\ Len(s) \in Nat /\ Len(s) # 0
      BY <1>2, <1>9, <2>2 DEF Intents
    <3> QED  BY <2>1, <3>1, CappedIn
  <2>4. rest \in Seq(T) /\ Len(rest) = Len(s) - 1 /\ at \in 1..(Len(rest) + 1)
    <3>1. rest \in Seq(T) /\ Len(rest) = Len(s) - 1  BY <1>2, <2>1, <2>2, RemovedAt
    <3> QED  BY <1>2, <2>3, <3>1
  <2>5. Project(v, x).tabs = InsertAt(rest, at, e)  BY <1>1, <1>9, <2>1 DEF Project
  <2>6. Ids(rest) = RemoveAt(q, i)  BY <1>1, <1>2, <2>1, <2>2, IdsRemove
  <2>7. Ids(InsertAt(rest, at, e)) = InsertAt(RemoveAt(q, i), at, q[i])
    BY <1>2, <2>2, <2>4, <2>6, IdsInsert
  <2>8. Gains(InsertAt(RemoveAt(q, i), at, q[i]), q, {})  BY <1>2, <2>2, <2>3, MovedGains
  <2> QED  BY <1>1, <2>5, <2>7, <2>8 DEF Gains
<1>10. CASE /\ x.op # "open" /\ ~(x.op = "close" /\ Has(s, x.id))
            /\ ~(x.op = "select" /\ Has(s, x.id)) /\ ~(x.op = "move" /\ Has(s, x.id))
  <2>1. Project(v, x) = v  BY <1>1, <1>10 DEF Project
  <2> QED  BY <1>1, <1>2, <2>1 DEF Gains, Holds
<1> QED  BY <1>6, <1>7, <1>8, <1>9, <1>10

LEMMA MoreGains ==
  ASSUME NEW p, NEW q, NEW Y, NEW Z, Y \subseteq Z, Gains(p, q, Y)
  PROVE  Gains(p, q, Z)
  BY DEF Gains

(* What the owner makes of it, too, with a blank tab of its own if it      *)
(* closes the last.                                                        *)
Spare(b, x, fresh) ==
    IF x.op = "close" /\ Has(b.tabs, x.id) /\ Len(b.tabs) = 1 THEN {fresh} ELSE {}

LEMMA ApplyGains ==
  ASSUME NEW n \in Nat \ {0}, NEW b \in Browsers(n), Distinct(Ids(b.tabs)),
         NEW x \in Intents, Without(Ids(b.tabs), x),
         NEW fresh \in Nat, ~Holds(Ids(b.tabs), fresh), fresh \notin NewOf(x)
  PROVE  Gains(Ids(Apply(b, x, fresh).tabs), Ids(b.tabs), NewOf(x) \cup Spare(b, x, fresh))
<1>1. PICK T, s, q : T = OwnerTabs(n) /\ s = b.tabs /\ q = Ids(s)  OBVIOUS
<1>2. /\ s \in Seq(T) /\ (\A t \in T : t.id \in Nat)
      /\ q \in Seq(Nat) /\ Len(q) = Len(s) /\ Distinct(q) /\ Len(q) \in Nat
      /\ \A i \in 1..Len(s) : q[i] = s[i].id
      /\ b.active \in 1..Len(s) /\ b = [tabs |-> s, active |-> b.active]
  <2>1. s \in Seq(T) /\ (\A t \in T : t.id \in Nat) /\ b.active \in 1..Len(s)
        /\ b = [tabs |-> s, active |-> b.active]
    BY <1>1 DEF Browsers, OwnerTabs
  <2>2. q \in Seq(Nat) /\ Len(q) = Len(s) /\ \A i \in 1..Len(s) : q[i] = s[i].id
    BY <1>1, <2>1, IdsOf
  <2> QED  BY <1>1, <2>1, <2>2
<1>3. \A i \in Nat : Blank(i) \in T /\ Blank(i).id = i
  BY <1>1, BlankIsOwned DEF Blank
<1>4. ASSUME NEW id, Has(s, id)
      PROVE  IndexOf(s, id) \in 1..Len(s) /\ q[IndexOf(s, id)] = id
  <2>1. IndexOf(s, id) \in DOMAIN s /\ s[IndexOf(s, id)].id = id  BY <1>4, Found
  <2>2. DOMAIN s = 1..Len(s)  BY <1>2
  <2> QED  BY <1>2, <2>1, <2>2
<1>5. x.id \in Nat /\ x.with \in Nat  BY DEF Intents
<1>6. CASE x.op = "open"
  <2>1. PICK t : t = Blank(x.id)  OBVIOUS
  <2>2. t \in T /\ t.id = x.id  BY <1>3, <1>5, <2>1
  <2>3. Apply(b, x, fresh).tabs = Append(s, t)  BY <1>1, <1>6, <2>1 DEF Apply
  <2>4. Ids(Append(s, t)) = Append(q, x.id)  BY <1>1, <1>2, <2>2, IdsAppend
  <2>5. NewOf(x) = {x.id}  BY <1>6 DEF NewOf
  <2>6. ~Holds(q, x.id)  BY <1>1, <2>5 DEF Without
  <2>7. PICK p : p = Append(q, x.id)  OBVIOUS
  <2>8. /\ p \in Seq(Nat) /\ Len(p) = Len(q) + 1 /\ Distinct(p)
        /\ \A i \in DOMAIN p : p[i] = x.id \/ Holds(q, p[i])
    BY <1>2, <1>5, <2>6, <2>7, DistinctAppend
  <2>9. Gains(p, q, NewOf(x))  BY <1>2, <2>5, <2>8 DEF Gains
  <2>10. Gains(p, q, NewOf(x) \cup Spare(b, x, fresh))  BY <2>9, MoreGains
  <2> QED  BY <1>1, <2>3, <2>4, <2>7, <2>10
<1>7. CASE x.op = "close" /\ Has(s, x.id)
  <2>1. PICK i, rest, c : i = IndexOf(s, x.id) /\ rest = RemoveAt(s, i) /\ c = CloseTab(b, i, fresh)
    OBVIOUS
  <2>2. i \in 1..Len(s) /\ i \in 1..Len(q)  BY <1>2, <1>4, <1>7, <2>1
  <2>3. PICK p : p = RemoveAt(q, i)  OBVIOUS
  <2>4. Ids(rest) = p  BY <1>1, <1>2, <2>1, <2>2, <2>3, IdsRemove
  <2>5. /\ p \in Seq(Nat) /\ Len(p) = Len(q) - 1 /\ Distinct(p)
        /\ \A j \in DOMAIN p : Holds(q, p[j])
    BY <1>2, <2>2, <2>3, DistinctWithout
  <2>6. rest \in Seq(T) /\ Len(rest) = Len(s) - 1  BY <1>2, <2>1, <2>2, RemovedAt
  <2>7. /\ c.tabs \in Seq(T) /\ c.tabs # << >> /\ c = [tabs |-> c.tabs, active |-> c.active]
        /\ Gains(Ids(c.tabs), q, Spare(b, x, fresh)) /\ Len(c.tabs) <= Len(q)
        /\ ~Has(s, fresh)
    <3>1. c \in Browsers(n)
      <4>1. i \in DOMAIN b.tabs  BY <1>1, <1>2, <2>2
      <4> QED  BY <2>1, <4>1, CloseTabKeeps
    <3>5. ~Has(s, fresh)  BY <1>1, <1>2, SamePlace
    <3>2. c.tabs \in Seq(T) /\ c.tabs # << >> /\ c = [tabs |-> c.tabs, active |-> c.active]
      BY <1>1, <3>1 DEF Browsers
    <3>3. CASE rest = << >>
      <4>1. PICK t : t = Blank(fresh)  OBVIOUS
      <4>2. t \in T /\ t.id = fresh  BY <1>3, <4>1
      <4>3. c.tabs = <<t>>  BY <1>1, <2>1, <3>3, <4>1 DEF CloseTab
      <4>4. Ids(<<t>>) = <<fresh>>
        <5>1. Ids(<< >>) = << >>  BY DEF Ids
        <5>2. << >> \in Seq(T)  OBVIOUS
        <5>3. Ids(Append(<< >>, t)) = Append(Ids(<< >>), t.id)  BY <1>2, <4>2, <5>2, IdsAppend
        <5>4. Append(<< >>, t) = <<t>> /\ Append(<< >>, t.id) = <<t.id>>  OBVIOUS
        <5> QED  BY <4>2, <5>1, <5>3, <5>4
      <4>5. Len(s) = 1  BY <1>2, <2>6, <3>3
      <4>6. Spare(b, x, fresh) = {fresh}  BY <1>1, <1>7, <4>5 DEF Spare
      <4>7. Gains(<<fresh>>, q, {fresh})
        <5>1. PICK f : f = <<fresh>>  OBVIOUS
        <5>2. f \in Seq(Nat) /\ Len(f) = 1 /\ DOMAIN f = {1} /\ f[1] = fresh  BY <5>1
        <5> QED  BY <1>2, <5>1, <5>2 DEF Gains, Distinct
      <4>8. Len(c.tabs) <= Len(q)  BY <1>2, <4>3, <4>5
      <4>9. Gains(Ids(c.tabs), q, Spare(b, x, fresh))  BY <4>3, <4>4, <4>6, <4>7
      <4> QED  BY <3>2, <3>5, <4>8, <4>9
    <3>4. CASE rest # << >>
      <4>1. c.tabs = rest  BY <1>1, <2>1, <3>4 DEF CloseTab
      <4>2. Gains(p, q, {}) /\ Len(c.tabs) <= Len(q)  BY <1>2, <2>5, <2>6, <4>1 DEF Gains
      <4>3. Gains(p, q, Spare(b, x, fresh))  BY <4>2, MoreGains
      <4> QED  BY <2>4, <3>2, <3>5, <4>1, <4>2, <4>3
    <3> QED  BY <3>3, <3>4
  <2>8. CASE x.with = None
    <3>1. Apply(b, x, fresh) = c  BY <1>1, <1>7, <2>1, <2>8 DEF Apply
    <3> QED  BY <1>1, <2>7, <3>1 DEF Gains
  <2>9. CASE x.with # None
    <3>1. PICK t, d, r : /\ t = Blank(x.with) /\ d = Ids(c.tabs)
                         /\ r = [c.tabs EXCEPT ![1] = t]
      OBVIOUS
    <3>2. t \in T /\ t.id = x.with  BY <1>3, <1>5, <3>1
    <3>3. Apply(b, x, fresh) = [c EXCEPT !.tabs[1] = t]
      BY <1>1, <1>7, <2>1, <2>9, <3>1 DEF Apply
    <3>4. Apply(b, x, fresh).tabs = r  BY <2>7, <3>1, <3>3
    <3>5. /\ r \in Seq(T) /\ Len(r) = Len(c.tabs) /\ r[1] = t
          /\ \A j \in 2..Len(r) : r[j] = c.tabs[j]
      BY <2>7, <3>1, <3>2
    <3>6. /\ Ids(r) \in Seq(Nat) /\ Len(Ids(r)) = Len(r) /\ \A j \in 1..Len(r) : Ids(r)[j] = r[j].id
          /\ d \in Seq(Nat) /\ Len(d) = Len(c.tabs) /\ \A j \in 1..Len(d) : d[j] = c.tabs[j].id
      <4>1. PICK a : a = c.tabs  OBVIOUS
      <4>2. a \in Seq(T) /\ d = Ids(a)  BY <2>7, <3>1, <4>1
      <4>3. /\ d \in Seq(Nat) /\ Len(d) = Len(a) /\ DOMAIN d = DOMAIN a
            /\ \A j \in DOMAIN a : d[j] = a[j].id
        BY <1>2, <4>2, IdsOf
      <4>4. DOMAIN d = 1..Len(d)  BY <4>3
      <4>5. /\ Ids(r) \in Seq(Nat) /\ Len(Ids(r)) = Len(r) /\ DOMAIN Ids(r) = DOMAIN r
            /\ \A j \in DOMAIN r : Ids(r)[j] = r[j].id
        BY <1>2, <3>5, IdsOf
      <4>6. DOMAIN r = 1..Len(r)  BY <3>5
      <4> QED  BY <4>1, <4>3, <4>4, <4>5, <4>6
    <3>7. NewOf(x) = {x.with}  BY <1>7, <2>9 DEF NewOf
    <3>8. ~Holds(d, x.with)
      <4>1. ~Holds(q, x.with) /\ fresh # x.with  BY <1>1, <3>7 DEF Without
      <4>2. \A j \in DOMAIN d : d[j] = fresh \/ Holds(q, d[j])
        BY <2>7, <3>1 DEF Gains, Spare
      <4> QED  BY <4>1, <4>2 DEF Holds
    <3>9. d # << >> /\ Len(r) \in Nat /\ Len(r) # 0  BY <2>7, <3>5, <3>6
    <3>10. Ids(r)[1] = x.with /\ \A j \in 2..Len(d) : Ids(r)[j] = d[j]
      <4>1. Len(r) = Len(d) /\ 1 \in 1..Len(r) /\ \A j \in 2..Len(d) : j \in 1..Len(r) /\ j \in 1..Len(d)
        BY <3>5, <3>6, <3>9
      <4>2. Ids(r)[1] = x.with  BY <3>2, <3>5, <3>6, <4>1
      <4>3. ASSUME NEW j \in 2..Len(d) PROVE Ids(r)[j] = d[j]
        <5>1. r[j] = c.tabs[j] /\ Ids(r)[j] = r[j].id /\ d[j] = c.tabs[j].id  BY <3>5, <3>6, <4>1
        <5> QED  BY <5>1
      <4> QED  BY <4>2, <4>3
    <3>11. Distinct(Ids(r)) /\ \A j \in DOMAIN Ids(r) : Ids(r)[j] = x.with \/ Holds(d, Ids(r)[j])
      <4>1. Distinct(d)  BY <2>7, <3>1 DEF Gains
      <4>2. Len(Ids(r)) = Len(d)  BY <3>5, <3>6
      <4> QED  BY <1>5, <3>6, <3>8, <3>9, <3>10, <4>1, <4>2, DistinctInstead
    <3>12. \A j \in DOMAIN Ids(r) : Ids(r)[j] \in NewOf(x) \cup Spare(b, x, fresh) \/ Holds(q, Ids(r)[j])
      <4>1. \A j \in DOMAIN d : d[j] \in Spare(b, x, fresh) \/ Holds(q, d[j])
        BY <2>7, <3>1 DEF Gains
      <4> TAKE j \in DOMAIN Ids(r)
      <4>2. CASE Ids(r)[j] = x.with  BY <3>7, <4>2
      <4>3. CASE Holds(d, Ids(r)[j])
        <5>1. PICK k \in DOMAIN d : d[k] = Ids(r)[j]  BY <4>3 DEF Holds
        <5> QED  BY <4>1, <5>1
      <4> QED  BY <3>11, <4>2, <4>3
    <3>13. Len(Ids(r)) <= Len(q) + 1  BY <1>2, <2>7, <3>5, <3>6
    <3> QED  BY <1>1, <3>4, <3>6, <3>11, <3>12, <3>13 DEF Gains
  <2> QED  BY <2>8, <2>9
<1>8. CASE x.op = "select" /\ Has(s, x.id)
  <2>1. Apply(b, x, fresh).tabs = s  BY <1>1, <1>2, <1>8 DEF Apply
  <2> QED  BY <1>1, <1>2, <2>1 DEF Gains, Holds
<1>9. CASE x.op = "move" /\ Has(s, x.id)
  <2>1. PICK i, at, rest, e : /\ i = IndexOf(s, x.id) /\ at = Capped(x.to, Len(s))
                              /\ rest = RemoveAt(s, i) /\ e = s[i]
    OBVIOUS
  <2>2. i \in 1..Len(s) /\ i \in 1..Len(q) /\ e \in T /\ e.id = q[i]  BY <1>2, <1>4, <1>9, <2>1
  <2>3. at \in 1..Len(s)
    <3>1. x.to \in Nat /\ x.to # 0 /\ Len(s) \in Nat /\ Len(s) # 0
      BY <1>2, <1>9, <2>2 DEF Intents
    <3> QED  BY <2>1, <3>1, CappedIn
  <2>4. rest \in Seq(T) /\ Len(rest) = Len(s) - 1 /\ at \in 1..(Len(rest) + 1)
    <3>1. rest \in Seq(T) /\ Len(rest) = Len(s) - 1  BY <1>2, <2>1, <2>2, RemovedAt
    <3> QED  BY <1>2, <2>3, <3>1
  <2>5. Apply(b, x, fresh).tabs = InsertAt(rest, at, e)  BY <1>1, <1>9, <2>1 DEF Apply
  <2>6. Ids(rest) = RemoveAt(q, i)  BY <1>1, <1>2, <2>1, <2>2, IdsRemove
  <2>7. Ids(InsertAt(rest, at, e)) = InsertAt(RemoveAt(q, i), at, q[i])
    <3>1. Ids(InsertAt(rest, at, e)) = InsertAt(Ids(rest), at, e.id)  BY <1>2, <2>2, <2>4, IdsInsert
    <3> QED  BY <2>2, <2>6, <3>1
  <2>8. Gains(InsertAt(RemoveAt(q, i), at, q[i]), q, {})  BY <1>2, <2>2, <2>3, MovedGains
  <2> QED  BY <1>1, <2>5, <2>7, <2>8 DEF Gains
<1>10. CASE /\ x.op # "open" /\ ~(x.op = "close" /\ Has(s, x.id))
            /\ ~(x.op = "select" /\ Has(s, x.id)) /\ ~(x.op = "move" /\ Has(s, x.id))
  <2>1. Apply(b, x, fresh) = b  BY <1>1, <1>10 DEF Apply
  <2> QED  BY <1>1, <1>2, <2>1 DEF Gains, Holds
<1> QED  BY <1>6, <1>7, <1>8, <1>9, <1>10

(* A restored tab is a new one. *)
LEMMA RestoredGains ==
  ASSUME NEW n \in Nat \ {0}, NEW b, b.tabs \in Seq(OwnerTabs(n)), Distinct(Ids(b.tabs)),
         next_tab \in Nat, ~Holds(Ids(b.tabs), next_tab), NEW tab, NEW i \in Nat \ {0}
  PROVE  Gains(Ids(Restored(b, tab, i).tabs), Ids(b.tabs), {next_tab})
<1>1. PICK T, s, q, e : T = OwnerTabs(n) /\ s = b.tabs /\ q = Ids(s) /\ e = Blank(next_tab)
  OBVIOUS
<1>2. /\ s \in Seq(T) /\ (\A t \in T : t.id \in Nat) /\ e \in T /\ e.id = next_tab
      /\ q \in Seq(Nat) /\ Len(q) = Len(s) /\ Distinct(q) /\ Len(q) \in Nat
  <2>1. s \in Seq(T) /\ (\A t \in T : t.id \in Nat)  BY <1>1 DEF OwnerTabs
  <2>2. e \in T /\ e.id = next_tab  BY <1>1, BlankIsOwned DEF Blank
  <2>3. q \in Seq(Nat) /\ Len(q) = Len(s)  BY <1>1, <2>1, IdsOf
  <2> QED  BY <1>1, <2>1, <2>2, <2>3
<1>3. PICK at : at = Capped(i, Len(s) + 1)  OBVIOUS
<1>4. at \in 1..(Len(s) + 1)
  <2>1. Len(s) + 1 \in Nat /\ Len(s) + 1 # 0  BY <1>2
  <2> QED  BY <1>3, <2>1, CappedIn
<1>5. PICK r : r = InsertAt(s, at, e)  OBVIOUS
<1>6. r \in Seq(T) /\ Len(r) = Len(s) + 1  BY <1>2, <1>4, <1>5, InsertedAt
<1>7. Ids(r) = InsertAt(q, at, next_tab)  BY <1>1, <1>2, <1>4, <1>5, IdsInsert
<1>8. Gains(Ids(r), q, {next_tab})
  <2>1. at \in 1..(Len(q) + 1) /\ ~Holds(q, next_tab)  BY <1>1, <1>2, <1>4
  <2>2. PICK p : p = InsertAt(q, at, next_tab)  OBVIOUS
  <2>3. /\ p \in Seq(Nat) /\ Len(p) = Len(q) + 1 /\ Distinct(p)
        /\ \A j \in DOMAIN p : p[j] = next_tab \/ Holds(q, p[j])
    BY <1>2, <2>1, <2>2, DistinctWith
  <2> QED  BY <1>2, <1>7, <2>2, <2>3 DEF Gains
<1>9. PICK placed : placed = [tabs |-> r, active |-> at]  OBVIOUS
<1>10. placed \in Browsers(n) /\ at \in DOMAIN placed.tabs /\ placed.tabs = r
  <2>1. at \in DOMAIN r /\ at \in Nat  BY <1>2, <1>4, <1>6
  <2> QED  BY <1>1, <1>6, <1>9, <2>1 DEF Browsers
<1>11. Restored(b, tab, i) = IF tab.navigation = 0 THEN placed ELSE Loading(placed, at)
  BY <1>1, <1>3, <1>5, <1>9 DEF Restored
<1>12. Ids(Loading(placed, at).tabs) = Ids(r)
  <2>1. IdView(Loading(placed, at)) = IdView(placed)  BY <1>10, LoadingAlike
  <2> QED  BY <1>10, <2>1 DEF IdView
<1>13. Ids(Restored(b, tab, i).tabs) = Ids(r)  BY <1>10, <1>11, <1>12
<1> QED  BY <1>1, <1>8, <1>13

(* What an input past its checks does to a browser it leaves the owner in. *)
LEMMA EffectGains ==
  ASSUME NEW n \in Nat \ {0}, NEW b \in Browsers(n), Distinct(Ids(b.tabs)),
         next_tab \in Nat, ~Holds(Ids(b.tabs), next_tab), closed_tabs \in Seq(Closed(n)), NEW kind
  PROVE  Gains(Ids(Effect(kind, b).tabs), Ids(b.tabs),
               IF (kind = "reopen" /\ closed_tabs # << >>) \/ kind = "duplicate"
               THEN {next_tab} ELSE {})
<1>1. PICK T, s, q : T = OwnerTabs(n) /\ s = b.tabs /\ q = Ids(s)  OBVIOUS
<1>2. /\ s \in Seq(T) /\ (\A t \in T : t.id \in Nat)
      /\ q \in Seq(Nat) /\ Len(q) = Len(s) /\ Distinct(q) /\ Len(q) \in Nat
      /\ b.active \in 1..Len(s) /\ b.active \in DOMAIN s /\ b = [tabs |-> s, active |-> b.active]
  <2>1. s \in Seq(T) /\ (\A t \in T : t.id \in Nat) /\ b.active \in 1..Len(s)
        /\ b.active \in DOMAIN s /\ b = [tabs |-> s, active |-> b.active]
    BY <1>1 DEF Browsers, OwnerTabs
  <2>2. q \in Seq(Nat) /\ Len(q) = Len(s)  BY <1>1, <2>1, IdsOf
  <2> QED  BY <1>1, <2>1, <2>2
<1>3. CASE kind = "navigate"
  <2>1. IdView(Loading(b, b.active)) = IdView(b)  BY <1>1, <1>2, LoadingAlike
  <2>2. Ids(Effect(kind, b).tabs) = q  BY <1>1, <1>3, <2>1 DEF Effect, IdView
  <2> QED  BY <1>1, <1>2, <1>3, <2>2 DEF Gains, Holds
<1>4. CASE kind = "reopen" /\ closed_tabs # << >>
  <2>1. PICK closed, left : /\ closed = Last(closed_tabs)
                            /\ left = IF b.tabs[b.active].navigation = 0
                                      THEN [b EXCEPT !.tabs = RemoveAt(b.tabs, b.active)] ELSE b
    OBVIOUS
  <2>2. Effect(kind, b) = Restored(left, closed.tab, closed.index)
    BY <1>4, <2>1 DEF Effect, Reopened
  <2>3. closed.index \in Nat \ {0}
    <3>1. closed \in Closed(n)  BY <1>4, <2>1, EmptySeq DEF Last
    <3> QED  BY <3>1 DEF Closed
  <2>4. PICK l : l = Ids(left.tabs)  OBVIOUS
  <2>5. /\ left.tabs \in Seq(T) /\ l \in Seq(Nat) /\ Distinct(l) /\ Len(l) <= Len(q)
        /\ \A j \in DOMAIN l : Holds(q, l[j])
    <3>1. CASE left = b
      <4>1. left.tabs = s /\ l = q  BY <1>1, <2>4, <3>1
      <4> QED  BY <1>2, <4>1 DEF Holds
    <3>2. CASE left # b
      <4>1. left.tabs = RemoveAt(s, b.active)  BY <1>1, <1>2, <2>1, <3>2
      <4>2. l = RemoveAt(q, b.active) /\ left.tabs \in Seq(T)
        <5>1. b.active \in 1..Len(s)  BY <1>2
        <5>2. Ids(RemoveAt(s, b.active)) = RemoveAt(Ids(s), b.active)  BY <1>2, <5>1, IdsRemove
        <5>3. RemoveAt(s, b.active) \in Seq(T)  BY <1>2, <5>1, RemovedAt
        <5> QED  BY <1>1, <2>4, <4>1, <5>2, <5>3
      <4>3. b.active \in 1..Len(q)  BY <1>2
      <4>4. /\ l \in Seq(Nat) /\ Len(l) = Len(q) - 1 /\ Distinct(l)
            /\ \A j \in DOMAIN l : Holds(q, l[j])
        BY <1>2, <4>2, <4>3, DistinctWithout
      <4> QED  BY <1>2, <4>2, <4>4
    <3> QED  BY <3>1, <3>2
  <2>6. ~Holds(l, next_tab)  BY <1>1, <2>5 DEF Holds
  <2>7. Gains(Ids(Restored(left, closed.tab, closed.index).tabs), l, {next_tab})
    BY <1>1, <2>3, <2>4, <2>5, <2>6, RestoredGains
  <2>8. PICK p : p = Ids(Effect(kind, b).tabs)  OBVIOUS
  <2>9. /\ Distinct(p) /\ p \in Seq(Nat) /\ Len(p) <= Len(l) + 1
        /\ \A i \in DOMAIN p : p[i] = next_tab \/ Holds(l, p[i])
    BY <2>2, <2>7, <2>8 DEF Gains
  <2>10. Len(p) <= Len(q) + 1  BY <1>2, <2>5, <2>9
  <2>11. \A i \in DOMAIN p : p[i] = next_tab \/ Holds(q, p[i])  BY <2>5, <2>9 DEF Holds
  <2> QED  BY <1>1, <1>4, <2>8, <2>9, <2>10, <2>11 DEF Gains
<1>5. CASE kind = "duplicate"
  <2>1. Effect(kind, b) = Restored(b, b.tabs[b.active], b.active + 1)  BY <1>5 DEF Effect
  <2>2. b.active + 1 \in Nat \ {0}  BY <1>2
  <2> QED  BY <1>1, <1>2, <1>5, <2>1, <2>2, RestoredGains
<1>6. CASE /\ kind # "navigate" /\ ~(kind = "reopen" /\ closed_tabs # << >>)
           /\ kind # "duplicate"
  <2>1. Effect(kind, b) = b  BY <1>6 DEF Effect
  <2> QED  BY <1>1, <1>2, <1>6, <2>1 DEF Gains, Holds
<1> QED  BY <1>3, <1>4, <1>5, <1>6

(* Identities given out later leave what was known known. *)
LEMMA KnownMore ==
  ASSUME NEW ids \in Seq(Nat), NEW n \in Nat, NEW m \in Nat, Known(ids, n, m),
         NEW n2 \in Nat, NEW m2 \in Nat, n <= n2, m <= m2
  PROVE  Known(ids, n2, m2)
<1>1. Len(ids) \in Nat /\ \A i \in DOMAIN ids : ids[i] \in Nat  OBVIOUS
<1> QED  BY <1>1 DEF Known

LEMMA AboutMore ==
  ASSUME NEW n \in Nat, NEW m \in Nat, NEW x, About(x, n, m),
         NEW n2 \in Nat, NEW m2 \in Nat, n <= n2, m <= m2
  PROVE  About(x, n2, m2)
<1>1. x.id \in Nat /\ x.with \in Nat /\ x.to \in Nat  BY DEF About, Intents
<1> QED  BY <1>1 DEF About

LEMMA NewOfNamed ==
  ASSUME NEW n \in Nat, NEW m, NEW x, About(x, n, m)
  PROVE  \A y \in NewOf(x) : y \in Nat /\ 0 < y /\ y < n
  BY DEF About, NewOf, Intents, None

LEMMA GainsKnown ==
  ASSUME NEW q \in Seq(Nat), NEW n \in Nat, NEW m \in Nat, Known(q, n, m),
         NEW p, NEW Y, Gains(p, q, Y), \A y \in Y : y \in Nat /\ 0 < y /\ y < n
  PROVE  Known(p, n, m + 1)
<1>1. /\ Len(p) \in Nat /\ Len(q) \in Nat /\ Len(p) <= Len(q) + 1 /\ Distinct(p)
      /\ \A i \in DOMAIN p : p[i] \in Y \/ Holds(q, p[i])
  BY DEF Gains
<1>2. Len(q) <= m /\ \A i \in DOMAIN q : 0 < q[i] /\ q[i] < n  BY DEF Known
<1>3. \A i \in DOMAIN p : 0 < p[i] /\ p[i] < n  BY <1>1, <1>2 DEF Holds
<1>4. Len(p) <= m + 1  BY <1>1, <1>2
<1> QED  BY <1>1, <1>3, <1>4 DEF Known

LEMMA GainsWithout ==
  ASSUME NEW p, NEW q, NEW Y, Gains(p, q, Y), NEW x, Without(q, x), Y \cap NewOf(x) = {}
  PROVE  Without(p, x)
<1> SUFFICES ASSUME NEW i \in DOMAIN p, p[i] \in NewOf(x) PROVE FALSE
  BY DEF Without, Holds
<1>1. Holds(q, p[i])  BY DEF Gains
<1> QED  BY <1>1 DEF Without

(* What the mailbox does not acknowledge, as it waits to be applied again. *)
Kept(k, from) ==
    /\ k \in Seq(Waiting) /\ Len(k) \in Nat
    /\ \A i \in 1..Len(k) : /\ k[i].serial \in Nat /\ from < k[i].serial /\ k[i].serial <= serial
                            /\ About(k[i].intent, next_tab, 1 + serial)
                            /\ Without(Ids(latest.tabs), k[i].intent)
                            /\ \E j \in 1..Len(pending) : k[i] = pending[j]
    /\ \A i, j \in 1..Len(k) :
          i < j => /\ k[i].serial < k[j].serial
                   /\ NewOf(k[i].intent) \cap NewOf(k[j].intent) = {}
    /\ \A j \in 1..Len(pending) : from < pending[j].serial =>
          \E i \in 1..Len(k) : k[i] = pending[j]

LEMMA KeptIsKept ==
  ASSUME NavInv, Queued, Named, latest # NoSnapshot
  PROVE  Kept(Unacknowledged(latest.serial), latest.serial)
<1>1. PICK k, from : from = latest.serial /\ k = Unacknowledged(latest.serial)  OBVIOUS
<1>2. from \in Nat  BY <1>1 DEF Named
<1>3. /\ \A i \in 1..Len(pending) : pending[i].serial \in Nat /\ pending[i].serial <= serial
      /\ \A i, j \in 1..Len(pending) : i < j => pending[i].serial < pending[j].serial
      /\ pending \in Seq(Waiting)
  BY DEF Queued, NavInv
<1>4. /\ k \in Seq(Waiting)
      /\ \A i, j \in 1..Len(k) : i < j => k[i].serial < k[j].serial
      /\ \A i \in 1..Len(k) : k[i].serial > from /\ \E j \in 1..Len(pending) : k[i] = pending[j]
      /\ \A j \in 1..Len(pending) : pending[j].serial > from =>
            \E i \in 1..Len(k) : k[i] = pending[j]
  BY <1>1, <1>2, <1>3, KeptInOrder
<1>5. ASSUME NEW i \in 1..Len(k)
      PROVE  /\ k[i].serial \in Nat /\ from < k[i].serial /\ k[i].serial <= serial
             /\ About(k[i].intent, next_tab, 1 + serial)
             /\ Without(Ids(latest.tabs), k[i].intent)
  <2>1. PICK j \in 1..Len(pending) : k[i] = pending[j]  BY <1>4
  <2>2. k[i].serial \in Nat /\ from < k[i].serial /\ k[i].serial <= serial
    BY <1>2, <1>3, <1>4, <2>1
  <2>3. About(k[i].intent, next_tab, 1 + serial)  BY <2>1 DEF Named
  <2>4. pending[j].serial > latest.serial  BY <1>1, <1>4, <2>1
  <2>5. Without(Ids(latest.tabs), k[i].intent)  BY <2>1, <2>4 DEF Named
  <2> QED  BY <2>2, <2>3, <2>5
<1>6. ASSUME NEW i \in 1..Len(k), NEW j \in 1..Len(k), i < j
      PROVE  NewOf(k[i].intent) \cap NewOf(k[j].intent) = {}
  <2>1. PICK a \in 1..Len(pending) : k[i] = pending[a]  BY <1>4
  <2>2. PICK c \in 1..Len(pending) : k[j] = pending[c]  BY <1>4
  <2>3. k[i].serial < k[j].serial /\ k[i].serial \in Nat /\ k[j].serial \in Nat
    BY <1>4, <1>5, <1>6
  <2>4. a # c  BY <2>1, <2>2, <2>3
  <2>5. a < c \/ c < a  BY <2>4
  <2>6. NewOf(pending[a].intent) \cap NewOf(pending[c].intent) = {}
    <3>1. CASE a < c  BY <3>1 DEF Named
    <3>2. CASE c < a
      <4>1. NewOf(pending[c].intent) \cap NewOf(pending[a].intent) = {}  BY <3>2 DEF Named
      <4> QED  BY <4>1
    <3> QED  BY <2>5, <3>1, <3>2
  <2> QED  BY <2>1, <2>2, <2>6
<1>7. \A j \in 1..Len(pending) : from < pending[j].serial => pending[j].serial > from
  BY <1>2, <1>3
<1>8. Len(k) \in Nat  BY <1>4
<1> QED  BY <1>1, <1>4, <1>5, <1>6, <1>7, <1>8 DEF Kept

(* Applied again, they give the snapshot's strip no tab twice, and none    *)
(* that was not named.                                                     *)
LEMMA ReprojectGains ==
  ASSUME OrderInv, NavInv, Queued, Named, latest # NoSnapshot, NEW k, Kept(k, latest.serial)
  PROVE  Known(Ids(Reproject(latest, k).tabs), next_tab, 1 + serial)
<1>1. PICK from, n, m : from = latest.serial /\ n = next_navigation /\ m = Len(k)  OBVIOUS
<1>2. /\ from \in Nat /\ n \in Nat \ {0} /\ m \in Nat /\ serial \in Nat /\ next_tab \in Nat
      /\ k \in Seq(Waiting) /\ [tabs |-> latest.tabs, active |-> latest.active] \in Views(n)
      /\ Known(Ids(latest.tabs), next_tab, 1 + from)
      /\ \A i \in 1..m : k[i].intent \in Intents
  <2>1. \A w \in Waiting : w.intent \in Intents  BY DEF Waiting
  <2> QED  BY <1>1, <2>1 DEF NavInv, Named, Kept, ViewOf
<1>3. PICK after : /\ AppliesAgain(after, latest, k)
                   /\ \A i \in 0..Len(k) : after[i] \in Views(n)
  BY <1>2, ReprojectUnfolds
<1>4. /\ after[0] = [tabs |-> latest.tabs, active |-> latest.active]
      /\ \A i \in 1..m : after[i] = Project(after[i - 1], k[i].intent)
      /\ Reproject(latest, k) = after[m]
      /\ \A i \in 0..m : after[i] \in Views(n)
  BY <1>1, <1>3 DEF AppliesAgain
<1> DEFINE at == [i \in 0..m |-> IF i = 0 THEN from ELSE k[i].serial]
           Good(i) == /\ Known(Ids(after[i].tabs), next_tab, 1 + at[i])
                      /\ \A j \in 1..m : i < j => Without(Ids(after[i].tabs), k[j].intent)
           h == [i \in 0..m |-> IF Good(i) THEN 1 ELSE 0]
<1>5. \A i \in 0..m : at[i] \in Nat /\ from <= at[i] /\ (i = 0 \/ at[i] <= serial)
  <2>1. \A i \in 0..m : i = 0 \/ i \in 1..m  BY <1>2
  <2>2. \A i \in 1..m : k[i].serial \in Nat /\ from < k[i].serial /\ k[i].serial <= serial
    BY <1>1 DEF Kept
  <2> QED  BY <1>2, <2>1, <2>2
<1>6. \A i \in 0..m : Ids(after[i].tabs) \in Seq(Nat)
  <2> TAKE i \in 0..m
  <2>1. after[i].tabs \in Seq(WindowTabs(n)) /\ \A t \in WindowTabs(n) : t.id \in Nat
    BY <1>4 DEF Views, WindowTabs
  <2> QED  BY <2>1, IdsOf
<1>7. h[0] \in {1}
  <2>1. 0 \in 0..m /\ at[0] = from  BY <1>2
  <2>2. after[0].tabs = latest.tabs  BY <1>4
  <2>3. \A j \in 1..m : Without(Ids(latest.tabs), k[j].intent)  BY <1>1 DEF Kept
  <2>4. Good(0)  BY <1>2, <2>1, <2>2, <2>3
  <2> HIDE DEF Good
  <2> QED  BY <2>1, <2>4
<1>8. ASSUME NEW i \in 1..m, h[i - 1] \in {1} PROVE h[i] \in {1}
  <2>1. i - 1 \in 0..m /\ i \in 0..m /\ i # 0 /\ i \in Nat /\ i - 1 < i  BY <1>2
  <2>2. Good(i - 1)
    <3> HIDE DEF Good
    <3> QED  BY <1>8, <2>1
  <2>3. PICK v, w, x, p, s : /\ v = after[i - 1] /\ w = after[i] /\ x = k[i].intent
                             /\ p = at[i - 1] /\ s = at[i]
    OBVIOUS
  <2>4. p \in Nat /\ s \in Nat /\ p < s
    <3>1. p \in Nat /\ s \in Nat /\ s = k[i].serial  BY <1>5, <2>1, <2>3
    <3>2. CASE i = 1
      <4>1. p = from /\ from < k[i].serial  BY <1>1, <2>1, <2>3, <3>2 DEF Kept
      <4> QED  BY <3>1, <4>1
    <3>3. CASE i # 1
      <4>1. i - 1 \in 1..m /\ i - 1 # 0  BY <2>1, <3>3
      <4>2. p = k[i - 1].serial  BY <2>1, <2>3, <4>1
      <4>3. k[i - 1].serial < k[i].serial  BY <1>1, <2>1, <4>1 DEF Kept
      <4> QED  BY <3>1, <4>2, <4>3
    <3> QED  BY <3>2, <3>3
  <2>5. /\ Known(Ids(v.tabs), next_tab, 1 + p)
        /\ \A j \in 1..m : i - 1 < j => Without(Ids(v.tabs), k[j].intent)
    BY <2>2, <2>3
  <2>6. /\ v \in Views(n) /\ Distinct(Ids(v.tabs)) /\ x \in Intents /\ Without(Ids(v.tabs), x)
        /\ Ids(v.tabs) \in Seq(Nat) /\ w = Project(v, x)
    BY <1>2, <1>4, <1>6, <2>1, <2>3, <2>5 DEF Known
  <2>7. Gains(Ids(w.tabs), Ids(v.tabs), NewOf(x))  BY <1>2, <2>6, ProjectGains
  <2>8. \A y \in NewOf(x) : y \in Nat /\ 0 < y /\ y < next_tab
    <3>1. About(x, next_tab, 1 + serial)  BY <1>1, <2>3 DEF Kept
    <3> QED  BY <1>2, <3>1, NewOfNamed
  <2>9. Known(Ids(w.tabs), next_tab, 1 + s)
    <3>1. 1 + p \in Nat /\ 1 + p + 1 \in Nat /\ 1 + s \in Nat /\ 1 + p + 1 <= 1 + s  BY <2>4
    <3>2. Known(Ids(w.tabs), next_tab, 1 + p + 1)
      BY <1>2, <2>5, <2>6, <2>7, <2>8, <3>1, GainsKnown
    <3>3. Ids(w.tabs) \in Seq(Nat)  BY <2>7 DEF Gains
    <3> QED  BY <1>2, <3>1, <3>2, <3>3, KnownMore
  <2>10. ASSUME NEW j \in 1..m, i < j PROVE Without(Ids(w.tabs), k[j].intent)
    <3>1. i - 1 < j  BY <2>1, <2>10
    <3>2. NewOf(x) \cap NewOf(k[j].intent) = {}  BY <1>1, <2>3, <2>10 DEF Kept
    <3> QED  BY <2>5, <2>7, <3>1, <3>2, GainsWithout
  <2>11. Good(i)  BY <2>3, <2>9, <2>10
  <2> HIDE DEF Good
  <2> QED  BY <2>1, <2>11
<1>9. \A i \in 0..m : h[i] \in {1}
  <2> HIDE DEF h
  <2>1. PICK Y : Y = {1}  OBVIOUS
  <2>2. h[0] \in Y /\ \A i \in 1..m : h[i - 1] \in Y => h[i] \in Y  BY <1>7, <1>8, <2>1
  <2>3. \A i \in 0..m : h[i] \in Y  BY <1>2, <2>2, CarriedThrough
  <2> QED  BY <2>1, <2>3
<1>10. m \in 0..m  BY <1>2
<1>11. Good(m)
  <2> HIDE DEF Good
  <2> QED  BY <1>9, <1>10
<1>12. at[m] <= serial
  <2>1. CASE m = 0
    <3>1. from <= received /\ received <= serial
      BY <1>1 DEF Named, OrderInv
    <3> QED  BY <1>2, <1>10, <2>1, <3>1 DEF OrderInv
  <2>2. CASE m # 0  BY <1>5, <1>10, <2>2
  <2> QED  BY <2>1, <2>2
<1>13. PICK ids, c : ids = Ids(after[m].tabs) /\ c = at[m]  OBVIOUS
<1>14. c \in Nat /\ c <= serial /\ ids \in Seq(Nat) /\ Known(ids, next_tab, 1 + c)
  BY <1>5, <1>6, <1>10, <1>11, <1>12, <1>13
<1>15. 1 + c \in Nat /\ 1 + serial \in Nat /\ 1 + c <= 1 + serial /\ next_tab <= next_tab
  BY <1>2, <1>14
<1>16. Known(ids, next_tab, 1 + serial)  BY <1>2, <1>14, <1>15, KnownMore
<1> QED  BY <1>4, <1>13, <1>16

(* The window reads a snapshot ... *)
LEMMA ReceiveKeepsTypes ==
  ASSUME OrderInv, NavInv, TypeInv, Receive
  PROVE  TypeInv'
<1>1. PICK k, v : /\ k = Unacknowledged(latest.serial)
                  /\ v = Reproject(latest, Unacknowledged(latest.serial))
  OBVIOUS
<1>2. /\ latest # NoSnapshot /\ latest' = NoSnapshot /\ snapshot' = latest.serial
      /\ pending' = k /\ tabs' = v.tabs
      /\ scenes' = [t \in TabIds |->
            IF ~Has(v.tabs, t) THEN NoScene
            ELSE IF t = latest.tabs[latest.active].id /\ Current(t, latest)
                 THEN [document |-> latest.document, serial |-> latest.serial]
                 ELSE scenes[t]]
      /\ invalidated' = [t \in TabIds |-> IF Has(v.tabs, t) THEN invalidated[t] ELSE 0]
      /\ UNCHANGED <<serial, pointer_slot, commands, browser, received, closed_tabs, unpublished,
                     next_tab, next_navigation, loads, hit>>
  BY <1>1 DEF Receive, ownerVars, idVars
<1>3. Counted /\ Queued /\ Named /\ Held  BY DEF TypeInv
<1>4. Kept(k, latest.serial)  BY <1>1, <1>2, <1>3, KeptIsKept
<1>5. /\ latest.serial \in Nat /\ latest.serial <= received /\ received \in Nat
      /\ received <= serial /\ serial \in Nat /\ serial <= MaxSerial /\ MaxSerial \in Nat
  BY <1>2, <1>3, PlainAssumption DEF Named, OrderInv, Counted
<1>6. Counted'  BY <1>2, <1>3, <1>5 DEF Counted
<1>7. Queued'
  <2>1. /\ \A i \in 1..Len(k) : k[i].serial \in Nat /\ k[i].serial <= serial
        /\ \A i, j \in 1..Len(k) : i < j => k[i].serial < k[j].serial
    BY <1>4 DEF Kept
  <2>2. /\ \A c \in 1..Len(commands) : received < commands[c].serial
        /\ \A j, c \in 1..Len(commands) : j < c => commands[j].serial < commands[c].serial
    BY <1>3 DEF Queued
  <2>3. ASSUME NEW c \in 1..Len(commands), commands[c].intent # NoIntent
        PROVE  /\ commands[c].kind = "chrome"
               /\ \E i \in 1..Len(k) : /\ k[i].serial = commands[c].serial
                                       /\ k[i].intent = commands[c].intent
    <3>1. commands[c].kind = "chrome"  BY <1>3, <2>3 DEF Queued
    <3>2. PICK j \in 1..Len(pending) : /\ pending[j].serial = commands[c].serial
                                       /\ pending[j].intent = commands[c].intent
      BY <1>3, <2>3 DEF Queued
    <3>3. received < commands[c].serial /\ commands[c].serial \in Nat
      BY <1>3, <3>2 DEF Queued
    <3>4. latest.serial < pending[j].serial  BY <1>5, <3>2, <3>3
    <3>5. PICK i \in 1..Len(k) : k[i] = pending[j]  BY <1>4, <3>4 DEF Kept
    <3> QED  BY <3>1, <3>2, <3>5
  <2> QED  BY <1>2, <2>1, <2>2, <2>3 DEF Queued
<1>8. Named'
  <2>1. Known(Ids(v.tabs), next_tab, 1 + serial)
    BY <1>1, <1>2, <1>3, <1>4, ReprojectGains
  <2>2. \A i \in 1..Len(k) : About(k[i].intent, next_tab, 1 + serial)  BY <1>4 DEF Kept
  <2>3. \A i, j \in 1..Len(k) : i < j => NewOf(k[i].intent) \cap NewOf(k[j].intent) = {}
    BY <1>4 DEF Kept
  <2>4. ASSUME NEW i \in 1..Len(k), k[i].serial > received
        PROVE  Without(Ids(browser.tabs), k[i].intent)
    <3>1. PICK j \in 1..Len(pending) : k[i] = pending[j]  BY <1>4 DEF Kept
    <3> QED  BY <1>3, <2>4, <3>1 DEF Named
  <2>5. Known(Ids(browser.tabs), next_tab, 1 + received)  BY <1>3 DEF Named
  <2> QED  BY <1>2, <2>1, <2>2, <2>3, <2>4, <2>5 DEF Named
<1>9. Held'
  <2>1. latest.document \in Navigations /\ latest.serial \in Serials /\ 0 \in Navigations
        /\ 0 \in Serials
    BY <1>3, <1>5, PlainAssumption DEF Held, Serials, Navigations
  <2>2. /\ scenes \in [TabIds -> [document : Navigations, serial : Serials]]
        /\ invalidated \in [TabIds -> Serials]
    BY <1>3 DEF Held
  <2>3. scenes' \in [TabIds -> [document : Navigations, serial : Serials]]
    <3>1. NoScene \in [document : Navigations, serial : Serials]  BY <2>1 DEF NoScene
    <3>2. [document |-> latest.document, serial |-> latest.serial]
             \in [document : Navigations, serial : Serials]
      BY <2>1
    <3> QED  BY <1>2, <2>2, <3>1, <3>2
  <2>4. invalidated' \in [TabIds -> Serials]  BY <1>2, <2>1, <2>2
  <2>5. /\ latest' = [serial |-> latest'.serial, tabs |-> latest'.tabs,
                      active |-> latest'.active, document |-> latest'.document]
        /\ latest'.document \in Navigations
    BY <1>2, <2>1 DEF NoSnapshot
  <2> QED  BY <1>2, <1>3, <2>3, <2>4, <2>5 DEF Held
<1> QED  BY <1>6, <1>7, <1>8, <1>9 DEF TypeInv

(* ... the owner publishes one ... *)
LEMMA PublishKeepsTypes ==
  ASSUME OrderInv, NavInv, TypeInv, Publish
  PROVE  TypeInv'
<1>1. /\ latest' = [serial |-> received, tabs |-> Captured, active |-> browser.active,
                    document |-> browser.tabs[browser.active].document]
      /\ unpublished' = FALSE
      /\ UNCHANGED <<tabs, pending, serial, pointer_slot, snapshot, scenes, invalidated, commands,
                     browser, received, closed_tabs, next_tab, next_navigation, loads, hit>>
  BY DEF Publish, windowVars, idVars, Captured
<1>2. Counted /\ Queued /\ Named /\ Held /\ received \in Nat /\ serial \in Nat
      /\ received <= serial
  BY DEF TypeInv, OrderInv
<1>3. Ids(Captured) = Ids(browser.tabs)
  <2>1. DOMAIN Captured = DOMAIN browser.tabs
        /\ \A i \in DOMAIN browser.tabs : Captured[i].id = browser.tabs[i].id
    BY DEF Captured, FromTab
  <2> QED  BY <2>1 DEF Ids
<1>4. browser.tabs[browser.active].document \in Navigations
  <2>1. PICK t : t = browser.tabs[browser.active]  OBVIOUS
  <2>2. t \in OwnerTabs(next_navigation) /\ next_navigation \in Nat  BY <2>1 DEF NavInv, Browsers
  <2>3. t.document \in Nat /\ t.document < next_navigation  BY <2>2, OwnedFields
  <2>4. next_navigation <= MaxSerial + MaxLoads + 1
    BY <1>2, <2>2, PlainAssumption DEF Counted
  <2> QED  BY <2>1, <2>2, <2>3, <2>4, PlainAssumption DEF Navigations
<1>5. Counted' /\ Queued'  BY <1>1, <1>2 DEF Counted, Queued
<1>6. Named'
  <2>1. latest'.serial = received /\ latest'.tabs = Captured  BY <1>1
  <2> QED  BY <1>1, <1>2, <1>3, <2>1 DEF Named
<1>7. Held'
  <2>1. /\ latest' = [serial |-> latest'.serial, tabs |-> latest'.tabs,
                      active |-> latest'.active, document |-> latest'.document]
        /\ latest'.document \in Navigations
    BY <1>1, <1>4
  <2> QED  BY <1>1, <1>2, <2>1 DEF Held
<1> QED  BY <1>5, <1>6, <1>7 DEF TypeInv

(* ... and a document arrives in a tab, or is left for another: neither    *)
(* names a tab.                                                            *)
LEMMA QuietKeepsTypes ==
  ASSUME OrderInv, NavInv, TypeInv, Ids(browser'.tabs) = Ids(browser.tabs),
         unpublished' \in BOOLEAN,
         loads' \in 0..MaxLoads, next_navigation' <= 1 + received + loads',
         UNCHANGED <<windowVars, commands, latest, received, closed_tabs, next_tab, hit>>
  PROVE  TypeInv'
<1>1. UNCHANGED <<tabs, pending, serial, pointer_slot, snapshot, scenes, invalidated>>
  BY DEF windowVars
<1>2. Counted'  BY <1>1 DEF TypeInv, Counted
<1>3. Queued'  BY <1>1 DEF TypeInv, Queued
<1>4. Named'  BY <1>1 DEF TypeInv, Named
<1>5. Held'  BY <1>1 DEF TypeInv, Held
<1> QED  BY <1>2, <1>3, <1>4, <1>5 DEF TypeInv

LEMMA ArriveKeepsTypes ==
  ASSUME OrderInv, NavInv, TypeInv, NEW i \in DOMAIN browser.tabs, Arrive(i)
  PROVE  TypeInv'
<1>1. IdView(browser') = IdView(browser)  BY ArrivedAlike
<1>2. Ids(browser'.tabs) = Ids(browser.tabs)  BY <1>1 DEF IdView
<1>3. /\ unpublished' \in BOOLEAN
      /\ UNCHANGED <<windowVars, commands, latest, received, closed_tabs, next_tab, hit>>
      /\ loads' = loads /\ next_navigation' = next_navigation
  BY DEF Arrive, idVars
<1>4. loads' \in 0..MaxLoads /\ next_navigation' <= 1 + received + loads'
  BY <1>3 DEF TypeInv, Counted
<1> QED  BY <1>2, <1>3, <1>4, QuietKeepsTypes

LEMMA PageNavigatesKeepsTypes ==
  ASSUME OrderInv, NavInv, TypeInv, PageNavigates
  PROVE  TypeInv'
<1>1. browser \in Browsers(next_navigation) /\ browser.active \in DOMAIN browser.tabs
  BY DEF NavInv, Browsers
<1>2. IdView(Loading(browser, browser.active)) = IdView(browser)  BY <1>1, LoadingAlike
<1>3. /\ loads < MaxLoads /\ loads' = loads + 1 /\ next_navigation' = next_navigation + 1
      /\ unpublished' = TRUE /\ browser' = Loading(browser, browser.active)
      /\ UNCHANGED <<windowVars, commands, latest, received, closed_tabs, next_tab, hit>>
  BY DEF PageNavigates
<1>4. Ids(browser'.tabs) = Ids(browser.tabs)  BY <1>2, <1>3 DEF IdView
<1>5. loads \in 0..MaxLoads /\ next_navigation <= 1 + received + loads
  BY DEF TypeInv, Counted
<1>6. loads' \in 0..MaxLoads /\ next_navigation' <= 1 + received + loads'
  BY <1>3, <1>5, PlainAssumption DEF OrderInv, NavInv
<1> QED  BY <1>3, <1>4, <1>6, QuietKeepsTypes

(* What the reader does is one input: it names at most one tab, the next.  *)
Says(kind, intent, v) ==
    /\ kind \in Kinds /\ v \in Views(next_navigation) /\ v.tabs # << >>
    /\ Gains(Ids(v.tabs), Ids(tabs), NewOf(intent))
    /\ next_tab' \in {next_tab, next_tab + 1}
    /\ NewOf(intent) # {} => NewOf(intent) = {next_tab} /\ next_tab' = next_tab + 1
    /\ \/ intent = NoIntent /\ kind # "chrome"
       \/ kind = "chrome" /\ About(intent, next_tab', 1 + serial)
KeepsScenes ==
    /\ scenes' \in [TabIds -> [document : Navigations, serial : Serials]]
    /\ invalidated' \in [TabIds -> Serials]

LEMMA StripOfWindow ==
  ASSUME NavInv, Named, WindowLives
  PROVE  /\ IdView(View) \in Strips /\ IdView(View).ids = Ids(tabs)
         /\ Ids(tabs) \in Seq(Nat) /\ Len(Ids(tabs)) = Len(tabs) /\ DOMAIN tabs = 1..Len(tabs)
         /\ \A i \in DOMAIN tabs : /\ i \in Nat \ {0} /\ tabs[i].id \in Nat
                                   /\ 0 < tabs[i].id /\ tabs[i].id < next_tab
                                   /\ Holds(Ids(tabs), tabs[i].id)
         /\ Len(tabs) \in Nat /\ Len(tabs) <= 1 + serial
         /\ ~Holds(Ids(tabs), next_tab) /\ Distinct(Ids(tabs))
<1>1. PICK ids, T, n : ids = Ids(tabs) /\ T = WindowTabs(next_navigation) /\ n = next_tab
  OBVIOUS
<1>2. /\ tabs \in Seq(T) /\ (\A t \in T : t.id \in Nat) /\ active \in DOMAIN tabs /\ active \in Nat
      /\ n \in Nat
  BY <1>1 DEF NavInv, Views, View, WindowTabs, WindowLives
<1>3. /\ ids \in Seq(Nat) /\ Len(ids) = Len(tabs) /\ DOMAIN ids = DOMAIN tabs
      /\ \A i \in DOMAIN tabs : ids[i] = tabs[i].id
  BY <1>1, <1>2, IdsOf
<1>4. Distinct(ids) /\ Len(ids) <= 1 + serial /\ \A i \in DOMAIN ids : 0 < ids[i] /\ ids[i] < n
  BY <1>1 DEF Named, Known
<1>5. IdView(View) = [ids |-> ids, active |-> active]  BY <1>1 DEF IdView, View
<1>6. IdView(View) \in Strips  BY <1>2, <1>3, <1>4, <1>5 DEF Strips
<1>7. DOMAIN tabs = 1..Len(tabs) /\ Len(tabs) \in Nat  BY <1>2
<1>8. \A i \in DOMAIN tabs : /\ i \in Nat \ {0} /\ tabs[i].id \in Nat
                             /\ 0 < tabs[i].id /\ tabs[i].id < n /\ Holds(ids, tabs[i].id)
  BY <1>2, <1>3, <1>4, <1>7 DEF Holds
<1>9. ~Holds(ids, n)
  <2>1. \A i \in DOMAIN ids : ids[i] \in Nat /\ ids[i] < n  BY <1>3, <1>4
  <2> QED  BY <1>2, <2>1 DEF Holds
<1> QED  BY <1>1, <1>3, <1>4, <1>5, <1>6, <1>7, <1>8, <1>9

LEMMA IntentSays ==
  ASSUME NavInv, Named, WindowLives, NEW x, Fits(IdView(View), x),
         About(x, next_tab', 1 + serial), next_tab' \in {next_tab, next_tab + 1},
         NewOf(x) # {} => NewOf(x) = {next_tab} /\ next_tab' = next_tab + 1
  PROVE  Says("chrome", x, Project(View, x))
<1>1. PICK n, v, w : n = next_navigation /\ v = View /\ w = Project(View, x)  OBVIOUS
<1>2. /\ IdView(v) \in Strips /\ IdView(v).ids = Ids(tabs) /\ ~Holds(Ids(tabs), next_tab)
      /\ Distinct(Ids(tabs)) /\ v.tabs = tabs /\ x \in Intents
      /\ v \in Views(n) /\ n \in Nat \ {0}
  BY <1>1, StripOfWindow DEF View, Fits, NavInv
<1>3. w \in Views(n)  BY <1>1, <1>2, ProjectKeepsView
<1>4. w.tabs # << >>
  <2>1. IdView(w) = OnIds(IdView(v), x)  BY <1>1, <1>2, ProjectOnIds
  <2>2. OnIds(IdView(v), x) \in Strips  BY <1>1, <1>2, OnIdsIsStrip
  <2>3. w.active \in DOMAIN Ids(w.tabs)  BY <2>1, <2>2 DEF Strips, IdView
  <2> QED  BY <2>3 DEF Ids
<1>5. Without(Ids(v.tabs), x)  BY <1>2 DEF Without
<1>6. Gains(Ids(w.tabs), Ids(v.tabs), NewOf(x))  BY <1>1, <1>2, <1>5, ProjectGains
<1> QED  BY <1>1, <1>2, <1>3, <1>4, <1>6 DEF Says, Kinds

LEMMA PlainSays ==
  ASSUME NavInv, Named, WindowLives, NEW kind \in Kinds, kind # "chrome", next_tab' = next_tab
  PROVE  Says(kind, NoIntent, View)
<1>1. PICK q : q = Ids(tabs)  OBVIOUS
<1>2. q \in Seq(Nat) /\ Distinct(q)  BY <1>1, StripOfWindow
<1>3. Gains(q, q, {})  BY <1>2 DEF Gains, Holds
<1>4. NewOf(NoIntent) = {}  BY DEF NewOf, NoIntent
<1> QED  BY <1>1, <1>3, <1>4 DEF Says, View, WindowLives, NavInv

LEMMA ReaderSays ==
  ASSUME OrderInv, NavInv, TypeInv, Reader
  PROVE  (\E kind, intent, v : Send(kind, intent, v) /\ Says(kind, intent, v)) /\ KeepsScenes
<1>1. /\ WindowLives /\ Named /\ next_tab \in Nat /\ 2 <= next_tab /\ serial \in Nat
      /\ scenes \in [TabIds -> [document : Navigations, serial : Serials]]
      /\ invalidated \in [TabIds -> Serials] /\ MaxSerial \in Nat /\ MaxLoads \in Nat
  BY PlainAssumption DEF Reader, TypeInv, NavInv, OrderInv, Counted, Held
<1>2. PICK ids : ids = Ids(tabs)  OBVIOUS
<1>3. /\ IdView(View).ids = ids /\ DOMAIN tabs = 1..Len(tabs) /\ Len(ids) = Len(tabs)
      /\ \A i \in DOMAIN tabs : /\ i \in Nat \ {0} /\ tabs[i].id \in Nat
                                /\ 0 < tabs[i].id /\ tabs[i].id < next_tab
                                /\ Holds(ids, tabs[i].id)
      /\ Len(tabs) \in Nat /\ Len(tabs) <= 1 + serial /\ ~Holds(ids, next_tab)
  BY <1>1, <1>2, StripOfWindow
<1>4. UNCHANGED <<scenes, invalidated>> => KeepsScenes  BY <1>1 DEF KeepsScenes
<1>5. CASE NewTab
  <2>1. PICK x : x = [op |-> "open", id |-> next_tab, with |-> None, to |-> 0]  OBVIOUS
  <2>2. x \in Intents /\ x.op = "open" /\ x.id = next_tab /\ x.with = 0 /\ x.to = 0
    BY <1>1, <2>1 DEF None, Intents, Ops
  <2>3. Fits(IdView(View), x)  BY <1>3, <2>2 DEF Fits
  <2>4. /\ Send("chrome", x, Project(View, x)) /\ next_tab' = next_tab + 1
        /\ UNCHANGED <<scenes, invalidated>>
    BY <1>5, <2>1 DEF NewTab, Chrome
  <2>5. NewOf(x) = {next_tab}  BY <2>2 DEF NewOf
  <2>6. About(x, next_tab', 1 + serial)  BY <1>1, <2>2, <2>4 DEF About
  <2>7. Says("chrome", x, Project(View, x))  BY <1>1, <2>3, <2>4, <2>5, <2>6, IntentSays
  <2> QED  BY <1>4, <2>4, <2>7
<1>6. ASSUME NEW i \in DOMAIN tabs, CloseOne(tabs[i].id)
      PROVE  (\E kind, intent, v : Send(kind, intent, v) /\ Says(kind, intent, v)) /\ KeepsScenes
  <2>1. PICK x : x = [op |-> "close", id |-> tabs[i].id, to |-> 0,
                      with |-> IF Len(tabs) = 1 THEN next_tab ELSE None]
    OBVIOUS
  <2>2. /\ x \in Intents /\ x.op = "close" /\ x.id = tabs[i].id /\ x.to = 0
        /\ x.with = IF Len(tabs) = 1 THEN next_tab ELSE 0
    BY <1>1, <1>3, <2>1 DEF None, Intents, Ops
  <2>3. Fits(IdView(View), x)  BY <1>1, <1>3, <2>2 DEF Fits, None
  <2>4. /\ Send("chrome", x, Project(View, x))
        /\ next_tab' = IF Len(tabs) = 1 THEN next_tab + 1 ELSE next_tab
        /\ UNCHANGED <<scenes, invalidated>>
    BY <1>6, <2>1 DEF CloseOne, Chrome
  <2>5. NewOf(x) # {} => NewOf(x) = {next_tab} /\ next_tab' = next_tab + 1
    BY <2>2, <2>4 DEF NewOf, None
  <2>6. About(x, next_tab', 1 + serial)  BY <1>1, <1>3, <2>2, <2>4 DEF About
  <2>7. Says("chrome", x, Project(View, x))  BY <1>1, <2>3, <2>4, <2>5, <2>6, IntentSays
  <2> QED  BY <1>4, <2>4, <2>7
<1>7. ASSUME NEW i \in DOMAIN tabs, SelectOne(tabs[i].id)
      PROVE  (\E kind, intent, v : Send(kind, intent, v) /\ Says(kind, intent, v)) /\ KeepsScenes
  <2>1. PICK x : x = [op |-> "select", id |-> tabs[i].id, with |-> None, to |-> 0]  OBVIOUS
  <2>2. x \in Intents /\ x.op = "select" /\ x.id = tabs[i].id /\ x.with = 0 /\ x.to = 0
    BY <1>3, <2>1 DEF None, Intents, Ops
  <2>3. Fits(IdView(View), x)  BY <1>3, <2>2 DEF Fits
  <2>4. /\ Send("chrome", x, Project(View, x)) /\ next_tab' = next_tab
        /\ UNCHANGED <<scenes, invalidated>>
    BY <1>7, <2>1 DEF SelectOne, Chrome
  <2>5. NewOf(x) = {}  BY <2>2 DEF NewOf
  <2>6. About(x, next_tab', 1 + serial)  BY <1>1, <1>3, <2>2, <2>4 DEF About
  <2>7. Says("chrome", x, Project(View, x))  BY <1>1, <2>3, <2>4, <2>5, <2>6, IntentSays
  <2> QED  BY <1>4, <2>4, <2>7
<1>8. ASSUME NEW i \in DOMAIN tabs, NEW j \in DOMAIN tabs, MoveOne(tabs[i].id, j)
      PROVE  (\E kind, intent, v : Send(kind, intent, v) /\ Says(kind, intent, v)) /\ KeepsScenes
  <2>1. PICK x : x = [op |-> "move", id |-> tabs[i].id, with |-> None, to |-> j]  OBVIOUS
  <2>2. x \in Intents /\ x.op = "move" /\ x.id = tabs[i].id /\ x.with = 0 /\ x.to = j
    BY <1>3, <2>1 DEF None, Intents, Ops
  <2>3. Fits(IdView(View), x)  BY <1>3, <2>2 DEF Fits
  <2>4. /\ Send("chrome", x, Project(View, x)) /\ next_tab' = next_tab
        /\ UNCHANGED <<scenes, invalidated>>
    BY <1>8, <2>1 DEF MoveOne, Chrome
  <2>5. NewOf(x) = {}  BY <2>2 DEF NewOf
  <2>6. About(x, next_tab', 1 + serial)
    <3>1. j <= 1 + serial  BY <1>1, <1>3
    <3> QED  BY <1>1, <1>3, <2>2, <2>4, <3>1 DEF About
  <2>7. Says("chrome", x, Project(View, x))  BY <1>1, <2>3, <2>4, <2>5, <2>6, IntentSays
  <2> QED  BY <1>4, <2>4, <2>7
<1>9. CASE Navigate
  <2>1. /\ Send("navigate", NoIntent, View) /\ next_tab' = next_tab
        /\ invalidated' = [invalidated EXCEPT ![tabs[active].id] = serial + 1]
        /\ scenes' = [scenes EXCEPT ![tabs[active].id] = NoScene]
    BY <1>9 DEF Navigate
  <2>2. Says("navigate", NoIntent, View)  BY <1>1, <2>1, PlainSays DEF Kinds
  <2>3. serial < MaxSerial  BY <2>1 DEF Send
  <2>4. serial + 1 \in Serials  BY <1>1, <2>3 DEF Serials
  <2>5. NoScene \in [document : Navigations, serial : Serials]
    BY <1>1 DEF NoScene, Navigations, Serials
  <2>6. KeepsScenes  BY <1>1, <2>1, <2>4, <2>5 DEF KeepsScenes
  <2> QED  BY <2>1, <2>2, <2>6
<1>10. ASSUME NEW k \in PageEvents \cup Plain, Event(k)
       PROVE  (\E kind, intent, v : Send(kind, intent, v) /\ Says(kind, intent, v)) /\ KeepsScenes
  <2>1. Send(k, NoIntent, View) /\ UNCHANGED <<scenes, invalidated, next_tab>>
    BY <1>10 DEF Event
  <2>2. k \in Kinds /\ k # "chrome"  BY PlainAssumption DEF PageEvents, Kinds
  <2>3. Says(k, NoIntent, View)  BY <1>1, <2>1, <2>2, PlainSays
  <2> QED  BY <1>4, <2>1, <2>3
<1> QED  BY <1>5, <1>6, <1>7, <1>8, <1>9, <1>10 DEF Reader

LEMMA PostTyped ==
  ASSUME NEW S, commands \in Seq(S), NEW e \in S
  PROVE  Post(e) \in Seq(S)
<1>1. CASE e.kind = "pointer" /\ pointer_slot /\ Pointers # {}
  <2> DEFINE at == CHOOSE i \in Pointers : \A j \in Pointers : j <= i
  <2>1. Post(e) = [commands EXCEPT ![at] = e]  BY <1>1 DEF Post
  <2> HIDE DEF at
  <2>2. PICK q : q = [commands EXCEPT ![at] = e]  OBVIOUS
  <2>3. /\ DOMAIN q = 1..Len(commands) /\ Len(commands) \in Nat
        /\ \A i \in 1..Len(commands) : q[i] = commands[i] \/ q[i] = e
    BY <2>2
  <2>4. \A i \in 1..Len(commands) : q[i] \in S  BY <2>3
  <2>5. q = [i \in 1..Len(commands) |-> q[i]]  BY <2>2, <2>3
  <2>6. q \in Seq(S)  BY <2>3, <2>4, <2>5
  <2> QED  BY <2>1, <2>2, <2>6
<1>2. CASE ~(e.kind = "pointer" /\ pointer_slot /\ Pointers # {})
  <2>1. Post(e) = Append(commands, e)  BY <1>2, Zenon DEF Post
  <2> QED  BY <2>1
<1> QED  BY <1>1, <1>2

(* What is about tabs named so far is an intent the reader can have.       *)
LEMMA AboutIsIntent ==
  ASSUME NEW n \in Nat, n <= 2 * MaxSerial + 2, NEW m \in Nat, m <= MaxSerial + 1,
         NEW x, About(x, n, m)
  PROVE  x \in Intent
<1>1. /\ x \in [op : Ops, id : Nat, with : Nat, to : Nat] /\ x.op # "none"
      /\ 0 < x.id /\ x.id < n /\ x.with < n /\ x.to <= m
  BY DEF About, Intents
<1>2. x.op \in {"open", "close", "select", "move"}  BY <1>1 DEF Ops
<1>3. x.id \in TabIds /\ x.with \in {None} \cup TabIds
  BY <1>1, PlainAssumption DEF TabIds, None
<1>4. x.to \in 0..(MaxSerial + 1)  BY <1>1, PlainAssumption
<1>5. x = [op |-> x.op, id |-> x.id, with |-> x.with, to |-> x.to]  BY <1>1
<1> QED  BY <1>2, <1>3, <1>4, <1>5 DEF Intent

(* The input joins the channel, its intent what is pending.                *)
LEMMA SendKeepsTypes ==
  ASSUME OrderInv, NavInv, TypeInv, NEW kind, NEW intent, NEW v,
         Send(kind, intent, v), Says(kind, intent, v), KeepsScenes
  PROVE  TypeInv'
<1>1. /\ Counted /\ Queued /\ Named /\ Held /\ MaxSerial \in Nat /\ MaxLoads \in Nat
      /\ next_tab \in Nat /\ next_navigation \in Nat \ {0} /\ 2 <= next_tab
      /\ WindowLives /\ serial < MaxSerial /\ tabs' = v.tabs
      /\ UNCHANGED <<snapshot, latest, browser, received, closed_tabs, unpublished,
                     next_navigation, loads, hit>>
  BY PlainAssumption DEF TypeInv, NavInv, Send, ownerVars, Counted
<1>2. /\ serial \in Nat /\ received \in Nat /\ received <= serial /\ serial' = serial + 1
      /\ next_tab' \in Nat /\ next_tab <= next_tab' /\ next_tab' <= next_tab + 1
      /\ serial' <= MaxSerial
  <2>1. serial \in Nat /\ received \in Nat /\ received <= serial /\ serial' = serial + 1
    BY DEF OrderInv, Send
  <2> QED  BY <1>1, <2>1 DEF Says
<1>3. PICK c : c = commands'  OBVIOUS
<1>4. /\ Len(c) \in Nat \ {0}
      /\ c[Len(c)].serial = serial + 1 /\ c[Len(c)].kind = kind /\ c[Len(c)].intent = intent
      /\ \A k \in 1..(Len(c) - 1) : k \in 1..Len(commands) /\ c[k] = commands[k]
      /\ \A i \in 1..Len(pending) : i \in 1..Len(pending') /\ pending'[i] = pending[i]
      /\ \A i \in 1..Len(pending') :
            \/ i \in 1..Len(pending)
            \/ /\ intent # NoIntent /\ i = Len(pending) + 1
               /\ pending'[i].serial = serial + 1 /\ pending'[i].intent = intent
      /\ Len(pending) \in Nat
      /\ intent # NoIntent => Len(pending) + 1 \in 1..Len(pending')
  <2> QED  BY <1>3, SendParts
<1>5. \A k \in 1..Len(c) : k = Len(c) \/ k \in 1..(Len(c) - 1)  BY <1>4
<1>6. Counted'  BY <1>1, <1>2 DEF Counted
<1>7. Queued'
  <2>1. \A i \in 1..Len(pending') : pending'[i].serial \in Nat /\ pending'[i].serial <= serial + 1
    <3> TAKE i \in 1..Len(pending')
    <3>1. CASE i \in 1..Len(pending)
      <4>1. pending'[i] = pending[i]  BY <1>4, <3>1
      <4>2. pending[i].serial \in Nat /\ pending[i].serial <= serial  BY <1>1, <3>1 DEF Queued
      <4> QED  BY <1>2, <4>1, <4>2
    <3>2. CASE i \notin 1..Len(pending)
      <4>1. pending'[i].serial = serial + 1  BY <1>4, <3>2
      <4> QED  BY <1>2, <4>1
    <3> QED  BY <3>1, <3>2
  <2>2. ASSUME NEW i \in 1..Len(pending'), NEW j \in 1..Len(pending'), i < j
        PROVE  pending'[i].serial < pending'[j].serial
    <3>1. i \in 1..Len(pending) /\ pending'[i] = pending[i]  BY <1>4, <2>2
    <3>2. CASE j \in 1..Len(pending)
      <4>1. pending'[j] = pending[j]  BY <1>4, <3>2
      <4> QED  BY <1>1, <2>2, <3>1, <3>2, <4>1 DEF Queued
    <3>3. CASE j \notin 1..Len(pending)
      <4>1. pending'[j].serial = serial + 1  BY <1>4, <3>3
      <4>2. pending[i].serial \in Nat /\ pending[i].serial <= serial  BY <1>1, <3>1 DEF Queued
      <4> QED  BY <1>2, <3>1, <4>1, <4>2
    <3> QED  BY <3>2, <3>3
  <2>3. \A k \in 1..Len(commands) : commands[k].serial \in Nat /\ commands[k].serial <= serial
    BY DEF OrderInv, Numbered
  <2>4. \A k \in 1..Len(c) : received < c[k].serial
    <3> TAKE k \in 1..Len(c)
    <3>1. CASE k = Len(c)  BY <1>2, <1>4, <3>1
    <3>2. CASE k \in 1..(Len(c) - 1)  BY <1>1, <1>4, <3>2 DEF Queued
    <3> QED  BY <1>5, <3>1, <3>2
  <2>5. ASSUME NEW j \in 1..Len(c), NEW k \in 1..Len(c), j < k
        PROVE  c[j].serial < c[k].serial
    <3>1. j \in 1..(Len(c) - 1)  BY <1>4, <2>5
    <3>2. j \in 1..Len(commands) /\ c[j] = commands[j]  BY <1>4, <3>1
    <3>3. CASE k = Len(c)
      <4>1. c[k].serial = serial + 1  BY <1>4, <3>3
      <4> QED  BY <1>2, <2>3, <3>2, <4>1
    <3>4. CASE k \in 1..(Len(c) - 1)
      <4>1. k \in 1..Len(commands) /\ c[k] = commands[k]  BY <1>4, <3>4
      <4> QED  BY <1>1, <2>5, <3>2, <4>1 DEF Queued
    <3> QED  BY <1>5, <3>3, <3>4
  <2>6. ASSUME NEW k \in 1..Len(c), c[k].intent # NoIntent
        PROVE  /\ c[k].kind = "chrome"
               /\ \E i \in 1..Len(pending') : /\ pending'[i].serial = c[k].serial
                                              /\ pending'[i].intent = c[k].intent
    <3>1. CASE k = Len(c)
      <4>1. intent # NoIntent /\ c[k].serial = serial + 1 /\ c[k].intent = intent /\ c[k].kind = kind
        BY <1>4, <2>6, <3>1
      <4>2. PICK i : i = Len(pending) + 1  OBVIOUS
      <4>3. i \in 1..Len(pending') /\ i \notin 1..Len(pending)  BY <1>4, <4>1, <4>2
      <4>4. pending'[i].serial = serial + 1 /\ pending'[i].intent = intent  BY <1>4, <4>3
      <4> QED  BY <4>1, <4>3, <4>4 DEF Says
    <3>2. CASE k \in 1..(Len(c) - 1)
      <4>1. k \in 1..Len(commands) /\ c[k] = commands[k]  BY <1>4, <3>2
      <4>2. PICK i \in 1..Len(pending) : /\ pending[i].serial = commands[k].serial
                                        /\ pending[i].intent = commands[k].intent
        BY <1>1, <2>6, <4>1 DEF Queued
      <4>3. commands[k].kind = "chrome"  BY <1>1, <2>6, <4>1 DEF Queued
      <4>4. i \in 1..Len(pending') /\ pending'[i] = pending[i]  BY <1>4
      <4> QED  BY <4>1, <4>2, <4>3, <4>4
    <3> QED  BY <1>5, <3>1, <3>2
  <2> QED  BY <1>1, <1>2, <1>3, <2>1, <2>2, <2>4, <2>5, <2>6 DEF Queued
<1>8. Known(Ids(v.tabs), next_tab', 1 + serial') /\ Ids(v.tabs) \in Seq(Nat)
  <2>1. PICK q, p : q = Ids(tabs) /\ p = Ids(v.tabs)  OBVIOUS
  <2>2. q \in Seq(Nat) /\ Known(q, next_tab, 1 + serial)  BY <1>1, <2>1, StripOfWindow DEF Named
  <2>3. 1 + serial \in Nat /\ 1 + serial + 1 = 1 + serial'  BY <1>2
  <2>4. Known(q, next_tab', 1 + serial)  BY <1>1, <1>2, <2>2, <2>3, KnownMore
  <2>5. \A y \in NewOf(intent) : y \in Nat /\ 0 < y /\ y < next_tab'  BY <1>1, <1>2 DEF Says
  <2>6. Gains(p, q, NewOf(intent))  BY <2>1 DEF Says
  <2>7. Known(p, next_tab', 1 + serial + 1)  BY <1>2, <2>2, <2>3, <2>4, <2>5, <2>6, GainsKnown
  <2>8. p \in Seq(Nat)  BY <2>6 DEF Gains
  <2> QED  BY <2>1, <2>3, <2>7, <2>8
<1>9. Named'
  <2>1. ASSUME NEW i \in 1..Len(pending') PROVE About(pending'[i].intent, next_tab', 1 + serial')
    <3>1. CASE i \in 1..Len(pending)
      <4>1. pending'[i] = pending[i] /\ About(pending[i].intent, next_tab, 1 + serial)
        BY <1>1, <1>4, <3>1 DEF Named
      <4>2. 1 + serial \in Nat /\ 1 + serial' \in Nat /\ 1 + serial <= 1 + serial'  BY <1>2
      <4> QED  BY <1>1, <1>2, <4>1, <4>2, AboutMore
    <3>2. CASE i \notin 1..Len(pending)
      <4>1. intent # NoIntent /\ pending'[i].intent = intent  BY <1>4, <3>2
      <4>2. About(intent, next_tab', 1 + serial)  BY <4>1 DEF Says
      <4>3. 1 + serial \in Nat /\ 1 + serial' \in Nat /\ 1 + serial <= 1 + serial'  BY <1>2
      <4>4. About(intent, next_tab', 1 + serial')  BY <1>2, <4>2, <4>3, AboutMore
      <4> QED  BY <4>1, <4>4
    <3> QED  BY <3>1, <3>2
  <2>2. \A i \in 1..Len(pending) : \A y \in NewOf(pending[i].intent) : y \in Nat /\ y < next_tab
    <3> TAKE i \in 1..Len(pending)
    <3>1. About(pending[i].intent, next_tab, 1 + serial)  BY <1>1 DEF Named
    <3> QED  BY <1>1, <3>1, NewOfNamed
  <2>3. NewOf(intent) \subseteq {next_tab}  BY DEF Says
  <2>4. ASSUME NEW i \in 1..Len(pending'), NEW j \in 1..Len(pending'), i < j
        PROVE  NewOf(pending'[i].intent) \cap NewOf(pending'[j].intent) = {}
    <3>1. i \in 1..Len(pending) /\ pending'[i] = pending[i]  BY <1>4, <2>4
    <3>2. CASE j \in 1..Len(pending)
      <4>1. pending'[j] = pending[j]  BY <1>4, <3>2
      <4> QED  BY <1>1, <2>4, <3>1, <3>2, <4>1 DEF Named
    <3>3. CASE j \notin 1..Len(pending)
      <4>1. pending'[j].intent = intent  BY <1>4, <3>3
      <4>2. next_tab \notin NewOf(pending[i].intent)
        <5> SUFFICES ASSUME next_tab \in NewOf(pending[i].intent) PROVE FALSE  OBVIOUS
        <5>1. next_tab \in Nat /\ next_tab < next_tab  BY <1>1, <2>2, <3>1
        <5> QED  BY <5>1
      <4> QED  BY <2>3, <3>1, <4>1, <4>2
    <3> QED  BY <3>2, <3>3
  <2>5. ASSUME NEW ids \in Seq(Nat), NEW m, Known(ids, next_tab, m) PROVE Without(ids, intent)
    <3>1. \A i \in DOMAIN ids : ids[i] \in Nat /\ ids[i] < next_tab  BY <2>5 DEF Known
    <3>2. ~Holds(ids, next_tab)  BY <1>1, <3>1 DEF Holds
    <3> QED  BY <2>3, <3>2 DEF Without
  <2>6. Known(Ids(browser.tabs), next_tab, 1 + received) /\ Ids(browser.tabs) \in Seq(Nat)
    <3>1. PICK T : T = OwnerTabs(next_navigation)  OBVIOUS
    <3>2. browser.tabs \in Seq(T) /\ \A t \in T : t.id \in Nat
      BY <3>1 DEF NavInv, Browsers, OwnerTabs
    <3> QED  BY <1>1, <3>2, IdsOf DEF Named
  <2>7. Known(Ids(browser.tabs), next_tab', 1 + received)
    <3>1. 1 + received \in Nat  BY <1>2
    <3> QED  BY <1>1, <1>2, <2>6, <3>1, KnownMore
  <2>8. ASSUME NEW i \in 1..Len(pending'), pending'[i].serial > received
        PROVE  Without(Ids(browser.tabs), pending'[i].intent)
    <3>1. CASE i \in 1..Len(pending)
      <4>1. pending'[i] = pending[i]  BY <1>4, <3>1
      <4> QED  BY <1>1, <2>8, <3>1, <4>1 DEF Named
    <3>2. CASE i \notin 1..Len(pending)
      <4>1. pending'[i].intent = intent  BY <1>4, <3>2
      <4> QED  BY <2>5, <2>6, <4>1
    <3> QED  BY <3>1, <3>2
  <2>9. ASSUME latest # NoSnapshot
        PROVE  /\ latest.serial \in Nat /\ latest.serial <= received
               /\ Known(Ids(latest.tabs), next_tab', 1 + latest.serial)
               /\ \A i \in 1..Len(pending') :
                     pending'[i].serial > latest.serial => Without(Ids(latest.tabs), pending'[i].intent)
    <3>1. PICK ids, from : ids = Ids(latest.tabs) /\ from = latest.serial  OBVIOUS
    <3>2. from \in Nat /\ from <= received /\ Known(ids, next_tab, 1 + from) /\ 1 + from \in Nat
      BY <1>1, <2>9, <3>1 DEF Named
    <3>3. ids \in Seq(Nat)
      <4>1. PICK T : T = WindowTabs(next_navigation)  OBVIOUS
      <4>2. latest.tabs \in Seq(T) /\ \A t \in T : t.id \in Nat
        BY <2>9, <4>1 DEF NavInv, Views, ViewOf, WindowTabs
      <4> QED  BY <3>1, <4>2, IdsOf
    <3>4. Known(ids, next_tab', 1 + from)  BY <1>1, <1>2, <3>2, <3>3, KnownMore
    <3>5. ASSUME NEW i \in 1..Len(pending'), pending'[i].serial > from
          PROVE  Without(ids, pending'[i].intent)
      <4>1. CASE i \in 1..Len(pending)
        <5>1. pending'[i] = pending[i]  BY <1>4, <4>1
        <5> QED  BY <1>1, <2>9, <3>1, <3>5, <4>1, <5>1 DEF Named
      <4>2. CASE i \notin 1..Len(pending)
        <5>1. pending'[i].intent = intent  BY <1>4, <4>2
        <5> QED  BY <2>5, <3>2, <3>3, <5>1
      <4> QED  BY <4>1, <4>2
    <3> QED  BY <3>1, <3>2, <3>4, <3>5
  <2> QED  BY <1>1, <1>8, <2>1, <2>4, <2>7, <2>8, <2>9 DEF Named
<1>10. Held'
  <2>1. PICK front, n : front = v.tabs[v.active] /\ n = next_navigation  OBVIOUS
  <2>2. v.active \in DOMAIN v.tabs /\ front \in WindowTabs(n) /\ v.tabs \in Seq(WindowTabs(n))
    BY <2>1 DEF Says, Views
  <2>3. front.id \in Nat /\ front.navigation \in Nat /\ front.navigation < n
    BY <2>2 DEF WindowTabs, Below
  <2>4. Ids(v.tabs)[v.active] = front.id /\ v.active \in DOMAIN Ids(v.tabs)
    BY <2>1, <2>2 DEF Ids
  <2>5. front.id \in TabIds
    <3>1. 0 < front.id /\ front.id < next_tab'  BY <1>8, <2>4 DEF Known
    <3>2. next_tab' <= 2 + serial' + received  BY <1>1, <1>2, <1>6 DEF Counted
    <3>3. front.id <= 2 * MaxSerial + 1  BY <1>1, <1>2, <2>3, <3>1, <3>2
    <3> QED  BY <1>1, <2>3, <3>1, <3>3 DEF TabIds
  <2>6. n \in Nat /\ n <= MaxSerial + MaxLoads + 1  BY <1>1, <1>2, <2>1 DEF Counted
  <2>7. n \in Navigations /\ front.navigation \in Navigations /\ 0 \in Navigations
    BY <1>1, <2>3, <2>6 DEF Navigations
  <2>8. PICK e : e = [serial |-> serial + 1, tab |-> front.id, kind |-> kind,
                      context |-> IF kind \in PageEvents THEN front.navigation ELSE 0,
                      intent |-> intent, seen |-> scenes[front.id].document,
                      upto |-> n]
    OBVIOUS
  <2>9. commands' = Post(e)  BY <2>1, <2>8 DEF Send
  <2>10. intent \in Intent \cup {NoIntent}
    <3>1. CASE intent # NoIntent
      <4>1. About(intent, next_tab', 1 + serial)  BY <3>1 DEF Says
      <4>2. next_tab' <= 2 + serial' + received  BY <1>1, <1>2, <1>6 DEF Counted
      <4>3. next_tab' <= 2 * MaxSerial + 2 /\ 1 + serial \in Nat /\ 1 + serial <= MaxSerial + 1
        BY <1>1, <1>2, <4>2
      <4> QED  BY <1>2, <4>1, <4>3, AboutIsIntent
    <3> QED  BY <3>1
  <2>11. e \in Input
    <3>1. serial + 1 \in Serials  BY <1>1, <1>2 DEF Serials
    <3>2. scenes[front.id].document \in Navigations  BY <1>1, <2>5 DEF Held
    <3>3. kind \in Kinds  BY DEF Says
    <3> QED  BY <2>5, <2>7, <2>8, <2>10, <3>1, <3>2, <3>3 DEF Input
  <2>12. commands' \in Seq(Input)
    <3>1. commands \in Seq(Input)  BY <1>1 DEF Held
    <3>2. Input \cup {e} = Input  BY <2>11
    <3>3. PICK S : S = Input  OBVIOUS
    <3>4. commands \in Seq(S) /\ e \in S /\ S \cup {e} = S  BY <2>11, <3>1, <3>3
    <3>5. Post(e) \in Seq(S)  BY <3>4, PostTyped
    <3> QED  BY <2>9, <3>3, <3>5
  <2>13. pointer_slot' \in BOOLEAN  BY DEF Send, SlotStaysOpen
  <2> QED  BY <1>1, <2>12, <2>13 DEF Held, KeepsScenes
<1> QED  BY <1>6, <1>7, <1>9, <1>10 DEF TypeInv

(* The input at the head of the channel: if it carries an intent, that is  *)
(* one the owner's strip has not seen.                                     *)
LEMMA HeadIsNew ==
  ASSUME OrderInv, NavInv, TypeInv, commands # << >>,
         NEW x, x = commands[1].intent, x # NoIntent
  PROVE  /\ commands[1].kind = "chrome" /\ x \in Intents
         /\ \E i \in 1..Len(pending) : pending[i].serial = commands[1].serial /\ pending[i].intent = x
         /\ Without(Ids(browser.tabs), x)
         /\ \A y \in NewOf(x) : y \in Nat /\ 0 < y /\ y < next_tab
<1>1. Queued /\ Named /\ next_tab \in Nat  BY DEF TypeInv, NavInv
<1>2. 1 \in 1..Len(commands) /\ commands[1].serial \in Nat /\ received \in Nat
      /\ received < commands[1].serial
  BY <1>1, FirstOfChannel DEF Queued
<1>3. commands[1].kind = "chrome" /\ \E i \in 1..Len(pending) :
         pending[i].serial = commands[1].serial /\ pending[i].intent = commands[1].intent
  BY <1>1, <1>2 DEF Queued
<1>4. PICK i \in 1..Len(pending) : pending[i].serial = commands[1].serial /\ pending[i].intent = x
  BY <1>3
<1>5. pending[i].serial > received  BY <1>2, <1>4
<1>6. Without(Ids(browser.tabs), x)  BY <1>1, <1>4, <1>5 DEF Named
<1>7. About(x, next_tab, 1 + serial)  BY <1>1, <1>4 DEF Named
<1>8. \A y \in NewOf(x) : y \in Nat /\ 0 < y /\ y < next_tab  BY <1>1, <1>7, NewOfNamed
<1>9. x \in Intents  BY <1>7 DEF About
<1> QED  BY <1>3, <1>4, <1>6, <1>8, <1>9

(* Handling it names at most one tab more, and gives the strip no identity *)
(* but that one and the intent's own.                                      *)
LEMMA HandleGains ==
  ASSUME OrderInv, NavInv, TypeInv, Handle
  PROVE  /\ next_tab' \in {next_tab, next_tab + 1}
         /\ \E F : /\ F = {} \/ (F = {next_tab} /\ next_tab' = next_tab + 1)
                   /\ Gains(Ids(browser'.tabs), Ids(browser.tabs), NewOf(commands[1].intent) \cup F)
<1> DEFINE input == Head(commands)
           here == Has(browser.tabs, input.tab)
           meant == input.kind \in PageEvents => ForThisDocument(input)
           acted == meant /\ (input.intent # NoIntent \/ here)
           b == IF input.intent # NoIntent THEN Apply(browser, input.intent, next_tab)
                ELSE [browser EXCEPT !.active = IndexOf(browser.tabs, input.tab)]
           closing == input.intent.op = "close" /\ Has(browser.tabs, input.intent.id)
           reopening == input.kind = "reopen" /\ closed_tabs # << >>
<1>1. PICK q, n, x : q = Ids(browser.tabs) /\ n = next_navigation /\ x = input.intent  OBVIOUS
<1>2. /\ commands # << >> /\ n \in Nat \ {0} /\ next_tab \in Nat /\ browser \in Browsers(n)
      /\ closed_tabs \in Seq(Closed(n)) /\ Known(q, next_tab, 1 + received) /\ Queued /\ Named
  BY <1>1 DEF NavInv, TypeInv, Named, Handle
<1>3. input = commands[1]  BY <1>2, FirstOfChannel DEF Queued
<1>4. q \in Seq(Nat) /\ Distinct(q) /\ ~Holds(q, next_tab)
      /\ browser = [tabs |-> browser.tabs, active |-> browser.active]
  <2>1. browser.tabs \in Seq(OwnerTabs(n)) /\ \A t \in OwnerTabs(n) : t.id \in Nat
    BY <1>2 DEF Browsers, OwnerTabs
  <2>2. q \in Seq(Nat)  BY <1>1, <2>1, IdsOf
  <2>3. Distinct(q) /\ \A i \in DOMAIN q : q[i] \in Nat /\ q[i] < next_tab
    BY <1>2, <2>2 DEF Known
  <2>4. ~Holds(q, next_tab)  BY <1>2, <2>3 DEF Holds
  <2>5. browser = [tabs |-> browser.tabs, active |-> browser.active]  BY <1>2 DEF Browsers
  <2> QED  BY <2>2, <2>3, <2>4, <2>5
<1>5. CASE ~acted
  <2>1. browser' = browser /\ next_tab' = next_tab  BY <1>5 DEF Handle
  <2>2. Gains(q, q, NewOf(x) \cup {})
    <3>1. Len(q) \in Nat /\ \A i \in DOMAIN q : Holds(q, q[i])  BY <1>4 DEF Holds
    <3> QED  BY <1>4, <3>1 DEF Gains
  <2> QED  BY <1>1, <1>3, <2>1, <2>2
<1>6. CASE acted
  <2>1. /\ browser' = Effect(input.kind, b)
        /\ next_tab' = IF \/ closing /\ Len(browser.tabs) = 1
                          \/ reopening \/ input.kind = "duplicate"
                       THEN next_tab + 1 ELSE next_tab
    BY <1>6 DEF Handle
  <2>2. next_tab' \in {next_tab, next_tab + 1}  BY <2>1
  <2>3. CASE input.intent # NoIntent
    <3>1. /\ input.kind = "chrome" /\ x \in Intents /\ Without(q, x)
          /\ \A y \in NewOf(x) : y \in Nat /\ y < next_tab
      BY <1>1, <1>2, <1>3, <2>3, HeadIsNew
    <3>2. next_tab \notin NewOf(x)
      <4> SUFFICES ASSUME next_tab \in NewOf(x) PROVE FALSE  OBVIOUS
      <4>1. next_tab < next_tab  BY <3>1
      <4> QED  BY <1>2, <4>1
    <3>3. PICK F : F = Spare(browser, x, next_tab)  OBVIOUS
    <3>4. Gains(Ids(Apply(browser, x, next_tab).tabs), q, NewOf(x) \cup F)
      BY <1>1, <1>2, <1>4, <3>1, <3>2, <3>3, ApplyGains
    <3>5. browser' = Apply(browser, x, next_tab)  BY <1>1, <2>1, <2>3, <3>1 DEF Effect
    <3>6. F = {} \/ (F = {next_tab} /\ next_tab' = next_tab + 1)
      BY <1>1, <2>1, <3>3 DEF Spare
    <3> QED  BY <1>1, <1>3, <2>2, <3>4, <3>5, <3>6
  <2>4. CASE input.intent = NoIntent
    <3>1. Meant(input)
      <4>1. PICK S : commands \in Seq(S)  BY DEF NavInv
      <4> QED  BY <1>2, <4>1, RestAreMeant DEF NavInv
    <3>2. b \in Browsers(n)  BY <1>1, <1>6, <3>1, ActsOnTab
    <3>3. b.tabs = browser.tabs  BY <1>4, <2>4
    <3>4. PICK c : c = b  OBVIOUS
    <3>5. PICK F : F = IF reopening \/ input.kind = "duplicate" THEN {next_tab} ELSE {}  OBVIOUS
    <3>6. Gains(Ids(Effect(input.kind, c).tabs), q, F)
      <4> HIDE DEF b, input
      <4>1. c \in Browsers(n) /\ Ids(c.tabs) = q  BY <1>1, <3>2, <3>3, <3>4
      <4>2. F = IF (input.kind = "reopen" /\ closed_tabs # << >>) \/ input.kind = "duplicate"
                THEN {next_tab} ELSE {}
        BY <3>5
      <4> QED  BY <1>2, <1>4, <4>1, <4>2, EffectGains
    <3>7. browser' = Effect(input.kind, c)  BY <2>1, <3>4
    <3>8. F = {} \/ (F = {next_tab} /\ next_tab' = next_tab + 1)  BY <2>1, <3>5
    <3>9. F \subseteq NewOf(x) \cup F  OBVIOUS
    <3>10. Gains(Ids(browser'.tabs), q, NewOf(x) \cup F)  BY <3>6, <3>7, <3>9, MoreGains
    <3> QED  BY <1>1, <1>3, <2>2, <3>8, <3>10
  <2> QED  BY <2>3, <2>4
<1> QED  BY <1>5, <1>6

(* What else handling it leaves: the last input to reach a document, and   *)
(* the tabs that may be reopened.                                          *)
LEMMA HandleHolds ==
  ASSUME OrderInv, NavInv, TypeInv, Handle
  PROVE  /\ hit' \in [seen : Navigations, upto : Navigations, document : Navigations]
         /\ \A i \in 1..Len(closed_tabs') : closed_tabs'[i].tab.id \in TabIds
         /\ next_navigation' \in {next_navigation, next_navigation + 1}
         /\ unpublished' \in BOOLEAN
<1> DEFINE input == Head(commands)
           here == Has(browser.tabs, input.tab)
           meant == input.kind \in PageEvents => ForThisDocument(input)
           acted == meant /\ (input.intent # NoIntent \/ here)
           b == IF input.intent # NoIntent THEN Apply(browser, input.intent, next_tab)
                ELSE [browser EXCEPT !.active = IndexOf(browser.tabs, input.tab)]
           closing == input.intent.op = "close" /\ Has(browser.tabs, input.intent.id)
           reopening == input.kind = "reopen" /\ closed_tabs # << >>
           at == IndexOf(browser.tabs, input.intent.id)
           place == [index |-> at, tab |-> browser.tabs[at]]
<1>1. /\ Counted /\ Queued /\ Named /\ Held /\ MaxSerial \in Nat /\ MaxLoads \in Nat
      /\ serial \in Nat /\ received \in Nat /\ received <= serial /\ next_tab \in Nat
      /\ commands # << >> /\ commands \in Seq(Input)
      /\ closed_tabs \in Seq(Closed(next_navigation))
      /\ \A i \in 1..Len(closed_tabs) : closed_tabs[i].tab.id \in TabIds
      /\ hit \in [seen : Navigations, upto : Navigations, document : Navigations]
  BY PlainAssumption DEF TypeInv, OrderInv, NavInv, Held, Handle
<1>2. input \in Input
  <2>1. 1 \in 1..Len(commands) /\ Head(commands) = commands[1]
    BY <1>1, FirstOfChannel DEF Queued
  <2>2. commands[1] \in Input  BY <1>1, <2>1
  <2> QED  BY <2>1, <2>2
<1>3. NavInv'  BY HandleKeepsNav
<1>4. unpublished' \in BOOLEAN
  <2>1. unpublished' = (unpublished \/ PublishesAfter(acted))  BY DEF Handle
  <2> QED  BY <2>1
<1>5. CASE ~acted
  <2>1. UNCHANGED <<closed_tabs, next_navigation, hit>>  BY <1>5 DEF Handle
  <2> QED  BY <1>1, <1>4, <2>1
<1>6. CASE acted
  <2>1. /\ closed_tabs' = IF closing THEN Append(closed_tabs, place)
                          ELSE IF reopening THEN Front(closed_tabs) ELSE closed_tabs
        /\ next_navigation' = IF \E i \in DOMAIN browser'.tabs :
                                    browser'.tabs[i].loading = next_navigation
                              THEN next_navigation + 1 ELSE next_navigation
        /\ hit' = IF input.kind \in PageEvents
                  THEN [seen |-> input.seen, upto |-> input.upto,
                        document |-> b.tabs[b.active].document]
                  ELSE hit
    BY <1>6 DEF Handle
  <2>2. closing => browser.tabs[at].id \in TabIds
    <3> SUFFICES ASSUME closing PROVE browser.tabs[at].id \in TabIds  OBVIOUS
    <3>1. at \in DOMAIN browser.tabs  BY Found
    <3>2. PICK i, y : i = at /\ y = browser.tabs[at].id  OBVIOUS
    <3>3. i \in DOMAIN Ids(browser.tabs) /\ Ids(browser.tabs)[i] = y  BY <3>1, <3>2 DEF Ids
    <3>4. 0 < y /\ y < next_tab  BY <1>1, <3>3 DEF Named, Known
    <3>5. y \in Nat
      <4>1. browser.tabs \in Seq(OwnerTabs(next_navigation))
        BY DEF NavInv, Browsers
      <4>2. browser.tabs[at] \in OwnerTabs(next_navigation)  BY <3>1, <4>1
      <4> QED  BY <3>2, <4>2 DEF OwnerTabs
    <3>6. next_tab <= 2 + serial + received /\ serial <= MaxSerial  BY <1>1 DEF Counted
    <3>7. y \in 1..(2 * MaxSerial + 1)  BY <1>1, <3>4, <3>5, <3>6
    <3> QED  BY <3>2, <3>7 DEF TabIds
  <2> HIDE DEF input, here, meant, acted, b, closing, reopening, at
  <2>3. \A i \in 1..Len(closed_tabs') : closed_tabs'[i].tab.id \in TabIds
    <3>1. PICK q, c, p : q = closed_tabs /\ c = closed_tabs' /\ p = place  OBVIOUS
    <3>2. q \in Seq(Closed(next_navigation)) /\ \A i \in 1..Len(q) : q[i].tab.id \in TabIds
      BY <1>1, <3>1
    <3>3. CASE closing
      <4>1. c = Append(q, p) /\ p.tab.id \in TabIds  BY <2>1, <2>2, <3>1, <3>3
      <4>2. /\ \A i \in 1..Len(q) : c[i] = q[i]
            /\ c[Len(q) + 1] = p /\ Len(c) = Len(q) + 1 /\ Len(q) \in Nat
        BY <3>2, <4>1
      <4>3. \A i \in 1..Len(c) : i \in 1..Len(q) \/ i = Len(q) + 1  BY <4>2
      <4> QED  BY <3>1, <3>2, <4>1, <4>2, <4>3
    <3>4. CASE ~closing /\ reopening
      <4>1. c = SubSeq(q, 1, Len(q) - 1)  BY <2>1, <3>1, <3>4 DEF Front
      <4>2. Len(q) \in Nat /\ Len(q) # 0  BY <3>1, <3>2, <3>4 DEF reopening
      <4>3. Len(c) = Len(q) - 1 /\ \A i \in 1..(Len(q) - 1) : c[i] = q[i]
        <5>1. PICK S : S = Closed(next_navigation)  OBVIOUS
        <5>2. PICK m : m = Len(q) - 1  OBVIOUS
        <5>3. q \in Seq(S) /\ m \in Int /\ 0 <= m /\ \A i \in 1..m : i \in Nat /\ q[i] \in S
          BY <3>2, <4>2, <5>1, <5>2
        <5>4. /\ Len(SubSeq(q, 1, m)) = IF 1 <= m THEN m - 1 + 1 ELSE 0
              /\ \A i \in 1..(m - 1 + 1) : SubSeq(q, 1, m)[i] = q[1 + i - 1]
          BY <5>3, SubSeqProperties
        <5>5. m - 1 + 1 = m /\ \A i \in 1..m : 1 + i - 1 = i  BY <5>3
        <5>6. Len(c) = m  BY <4>1, <5>2, <5>3, <5>4, <5>5
        <5> QED  BY <4>1, <5>2, <5>4, <5>5, <5>6
      <4>4. \A i \in 1..Len(c) : i \in 1..(Len(q) - 1) /\ i \in 1..Len(q)  BY <4>2, <4>3
      <4> QED  BY <3>1, <3>2, <4>3, <4>4
    <3>5. CASE ~closing /\ ~reopening  BY <1>1, <2>1, <3>5
    <3> QED  BY <3>3, <3>4, <3>5
  <2>4. hit' \in [seen : Navigations, upto : Navigations, document : Navigations]
    <3>1. CASE input.kind \in PageEvents
      <4>1. PICK d : d = b.tabs[b.active].document  OBVIOUS
      <4>2. hit' = [seen |-> input.seen, upto |-> input.upto, document |-> d]
        BY <2>1, <3>1, <4>1
      <4>3. input.seen \in Navigations /\ input.upto \in Navigations  BY <1>2 DEF Input
      <4>4. d \in Nat /\ d < input.upto  BY <1>3, <4>2 DEF NavInv, NoInputToLaterNavigation
      <4>5. d \in Navigations  BY <1>1, <4>3, <4>4 DEF Navigations
      <4> QED  BY <4>2, <4>3, <4>5
    <3>2. CASE input.kind \notin PageEvents  BY <1>1, <2>1, <3>2
    <3> QED  BY <3>1, <3>2
  <2>5. next_navigation' \in {next_navigation, next_navigation + 1}  BY <2>1
  <2> QED  BY <1>4, <2>3, <2>4, <2>5
<1> QED  BY <1>5, <1>6

LEMMA HandleKeepsTypes ==
  ASSUME OrderInv, NavInv, TypeInv, Handle
  PROVE  TypeInv'
<1>1. PICK r, x, t : r = commands[1].serial /\ x = commands[1].intent /\ t = Tail(commands)
  OBVIOUS
<1>2. /\ Counted /\ Queued /\ Named /\ Held /\ MaxSerial \in Nat /\ MaxLoads \in Nat
      /\ next_tab \in Nat /\ next_navigation \in Nat \ {0} /\ commands # << >>
  BY PlainAssumption DEF TypeInv, NavInv, Handle
<1>3. /\ Len(commands) \in Nat \ {0} /\ Head(commands) = commands[1]
      /\ Len(t) = Len(commands) - 1
      /\ \A k \in 1..Len(t) : k + 1 \in 1..Len(commands) /\ t[k] = commands[k + 1]
      /\ \A k \in 1..Len(commands) : k # 1 => r < commands[k].serial
      /\ received \in Nat /\ serial \in Nat /\ r \in Nat /\ received < r /\ r <= serial
  BY <1>1, <1>2, FirstOfChannel DEF Queued
<1>4. /\ received' = r /\ commands' = t
      /\ UNCHANGED <<tabs, pending, serial, pointer_slot, snapshot, scenes, invalidated,
                     latest, loads>>
  BY <1>1, <1>3 DEF Handle, windowVars
<1>5. PICK F : /\ F = {} \/ (F = {next_tab} /\ next_tab' = next_tab + 1)
               /\ Gains(Ids(browser'.tabs), Ids(browser.tabs), NewOf(x) \cup F)
  BY <1>1, HandleGains
<1>6. /\ next_tab' \in Nat /\ next_tab <= next_tab' /\ next_tab' <= next_tab + 1
      /\ next_navigation' \in Nat \ {0} /\ next_navigation' <= next_navigation + 1
  <2>1. next_tab' \in {next_tab, next_tab + 1}  BY HandleGains
  <2>2. next_navigation' \in {next_navigation, next_navigation + 1}  BY HandleHolds
  <2> QED  BY <1>2, <2>1, <2>2
<1>7. Counted'
  <2>1. /\ serial <= MaxSerial /\ loads \in 0..MaxLoads /\ snapshot \in Nat
        /\ snapshot <= received /\ 2 <= next_tab /\ next_tab <= 2 + serial + received
        /\ next_navigation <= 1 + received + loads
    BY <1>2 DEF Counted
  <2>2. snapshot <= r /\ 2 <= next_tab'  BY <1>2, <1>3, <1>6, <2>1
  <2>3. next_tab' <= 2 + serial + r  BY <1>2, <1>3, <1>6, <2>1
  <2>4. next_navigation' <= 1 + r + loads  BY <1>2, <1>3, <1>6, <2>1
  <2> QED  BY <1>4, <2>1, <2>2, <2>3, <2>4 DEF Counted
<1>8. Queued'
  <2>1. /\ \A i \in 1..Len(pending) : pending[i].serial \in Nat /\ pending[i].serial <= serial
        /\ \A i, j \in 1..Len(pending) : i < j => pending[i].serial < pending[j].serial
    BY <1>2 DEF Queued
  <2>2. \A k \in 1..Len(t) : r < t[k].serial
    <3> TAKE k \in 1..Len(t)
    <3>1. k + 1 \in 1..Len(commands) /\ t[k] = commands[k + 1] /\ k + 1 # 1  BY <1>3
    <3> QED  BY <1>3, <3>1
  <2>3. ASSUME NEW j \in 1..Len(t), NEW k \in 1..Len(t), j < k PROVE t[j].serial < t[k].serial
    <3>1. /\ j + 1 \in 1..Len(commands) /\ t[j] = commands[j + 1]
          /\ k + 1 \in 1..Len(commands) /\ t[k] = commands[k + 1] /\ j + 1 < k + 1
      BY <1>3, <2>3
    <3> QED  BY <1>2, <3>1 DEF Queued
  <2>4. ASSUME NEW k \in 1..Len(t), t[k].intent # NoIntent
        PROVE  /\ t[k].kind = "chrome"
               /\ \E i \in 1..Len(pending) : /\ pending[i].serial = t[k].serial
                                             /\ pending[i].intent = t[k].intent
    <3>1. k + 1 \in 1..Len(commands) /\ t[k] = commands[k + 1]  BY <1>3
    <3> QED  BY <1>2, <2>4, <3>1 DEF Queued
  <2> QED  BY <1>4, <2>1, <2>2, <2>3, <2>4 DEF Queued
<1>9. Named'
  <2>1. PICK q, p : q = Ids(browser.tabs) /\ p = Ids(browser'.tabs)  OBVIOUS
  <2>2. q \in Seq(Nat) /\ Known(q, next_tab, 1 + received) /\ Gains(p, q, NewOf(x) \cup F)
    <3>1. browser.tabs \in Seq(OwnerTabs(next_navigation))
          /\ \A b \in OwnerTabs(next_navigation) : b.id \in Nat
      BY DEF NavInv, Browsers, OwnerTabs
    <3> QED  BY <1>2, <1>5, <2>1, <3>1, IdsOf DEF Named
  <2>3. \A y \in NewOf(x) : y \in Nat /\ 0 < y /\ y < next_tab
    <3>1. CASE x = NoIntent  BY <3>1 DEF NewOf, NoIntent
    <3>2. CASE x # NoIntent  BY <1>1, <1>2, <3>2, HeadIsNew
    <3> QED  BY <3>1, <3>2
  <2>4. Known(p, next_tab', 1 + r)
    <3>1. 1 + received \in Nat /\ 1 + received + 1 \in Nat /\ 1 + r \in Nat
          /\ 1 + received + 1 <= 1 + r
      BY <1>3
    <3>2. Known(q, next_tab', 1 + received)  BY <1>2, <1>6, <2>2, <3>1, KnownMore
    <3>3. \A y \in NewOf(x) \cup F : y \in Nat /\ 0 < y /\ y < next_tab'
      <4>1. 0 < next_tab  BY <1>2 DEF Counted
      <4>2. \A y \in F : y = next_tab /\ next_tab < next_tab'  BY <1>2, <1>5
      <4>3. \A y \in NewOf(x) : y \in Nat /\ 0 < y /\ y < next_tab'  BY <1>2, <1>6, <2>3
      <4> QED  BY <1>2, <4>1, <4>2, <4>3
    <3>4. Known(p, next_tab', 1 + received + 1)  BY <1>6, <2>2, <3>1, <3>2, <3>3, GainsKnown
    <3>5. p \in Seq(Nat)  BY <2>2 DEF Gains
    <3> QED  BY <1>6, <3>1, <3>4, <3>5, KnownMore
  <2>5. \A i \in 1..Len(pending) : About(pending[i].intent, next_tab', 1 + serial)
    <3> TAKE i \in 1..Len(pending)
    <3>1. About(pending[i].intent, next_tab, 1 + serial) /\ 1 + serial \in Nat
          /\ 1 + serial <= 1 + serial
      BY <1>2, <1>3 DEF Named
    <3> QED  BY <1>2, <1>6, <3>1, AboutMore
  <2>6. ASSUME NEW i \in 1..Len(pending), pending[i].serial > r
        PROVE  Without(p, pending[i].intent)
    <3>1. pending[i].serial \in Nat /\ pending[i].serial > received
      BY <1>2, <1>3, <2>6 DEF Queued
    <3>2. Without(q, pending[i].intent)  BY <1>2, <2>1, <3>1 DEF Named
    <3>3. NewOf(x) \cap NewOf(pending[i].intent) = {}
      <4>1. CASE x = NoIntent  BY <4>1 DEF NewOf, NoIntent
      <4>2. CASE x # NoIntent
        <5>1. PICK j \in 1..Len(pending) : pending[j].serial = r /\ pending[j].intent = x
          BY <1>1, <1>2, <4>2, HeadIsNew
        <5>2. i \in Nat /\ j \in Nat /\ i # j  BY <1>3, <2>6, <3>1, <5>1
        <5>3. CASE j < i  BY <1>2, <5>1, <5>3 DEF Named
        <5>4. CASE i < j
          <6>1. NewOf(pending[i].intent) \cap NewOf(pending[j].intent) = {}
            BY <1>2, <5>4 DEF Named
          <6> QED  BY <5>1, <6>1
        <5> QED  BY <5>2, <5>3, <5>4
      <4> QED  BY <4>1, <4>2
    <3>4. next_tab \notin NewOf(pending[i].intent)
      <4> SUFFICES ASSUME next_tab \in NewOf(pending[i].intent) PROVE FALSE  OBVIOUS
      <4>1. About(pending[i].intent, next_tab, 1 + serial)  BY <1>2 DEF Named
      <4>2. next_tab < next_tab  BY <1>2, <4>1, NewOfNamed
      <4> QED  BY <1>2, <4>2
    <3>5. (NewOf(x) \cup F) \cap NewOf(pending[i].intent) = {}  BY <1>5, <3>3, <3>4
    <3> QED  BY <2>2, <3>2, <3>5, GainsWithout
  <2>7. Known(Ids(tabs), next_tab', 1 + serial)
    <3>1. tabs \in Seq(WindowTabs(next_navigation))
          /\ \A w \in WindowTabs(next_navigation) : w.id \in Nat
      BY DEF NavInv, View, Views, WindowTabs
    <3>2. PICK w : w = Ids(tabs)  OBVIOUS
    <3>3. w \in Seq(Nat) /\ Known(w, next_tab, 1 + serial)  BY <1>2, <3>1, <3>2, IdsOf DEF Named
    <3>4. 1 + serial \in Nat /\ 1 + serial <= 1 + serial  BY <1>3
    <3> QED  BY <1>2, <1>6, <3>2, <3>3, <3>4, KnownMore
  <2>8. ASSUME latest # NoSnapshot
        PROVE  /\ latest.serial \in Nat /\ latest.serial <= r
               /\ Known(Ids(latest.tabs), next_tab', 1 + latest.serial)
    <3>1. PICK w, from : w = Ids(latest.tabs) /\ from = latest.serial  OBVIOUS
    <3>2. from \in Nat /\ from <= received /\ Known(w, next_tab, 1 + from)
      BY <1>2, <2>8, <3>1 DEF Named
    <3>3. latest.tabs \in Seq(WindowTabs(next_navigation))
          /\ \A v \in WindowTabs(next_navigation) : v.id \in Nat
      BY <2>8 DEF NavInv, ViewOf, Views, WindowTabs
    <3>4. w \in Seq(Nat)  BY <3>1, <3>3, IdsOf
    <3>5. 1 + from \in Nat /\ 1 + from <= 1 + from /\ from <= r  BY <1>3, <3>2
    <3>6. Known(w, next_tab', 1 + from)  BY <1>2, <1>6, <3>2, <3>4, <3>5, KnownMore
    <3> QED  BY <3>1, <3>2, <3>5, <3>6
  <2>9. /\ \A i, j \in 1..Len(pending) :
              i < j => NewOf(pending[i].intent) \cap NewOf(pending[j].intent) = {}
        /\ latest # NoSnapshot => \A i \in 1..Len(pending) :
              pending[i].serial > latest.serial => Without(Ids(latest.tabs), pending[i].intent)
    BY <1>2 DEF Named
  <2> QED  BY <1>4, <2>1, <2>4, <2>5, <2>6, <2>7, <2>8, <2>9 DEF Named
<1>10. Held'
  <2>1. t \in Seq(Input)  BY <1>1, <1>2, EmptySeq DEF Held
  <2>2. /\ hit' \in [seen : Navigations, upto : Navigations, document : Navigations]
        /\ \A i \in 1..Len(closed_tabs') : closed_tabs'[i].tab.id \in TabIds
        /\ unpublished' \in BOOLEAN
    BY HandleHolds
  <2> QED  BY <1>2, <1>4, <2>1, <2>2 DEF Held
<1> QED  BY <1>7, <1>8, <1>9, <1>10 DEF TypeInv

(* Nothing has been named but the first tab.                               *)
LEMMA TypeInit == Init => TypeInv
<1> SUFFICES ASSUME Init PROVE TypeInv  OBVIOUS
<1>1. PICK f, b : f = FromTab(Blank(1)) /\ b = Blank(1)  OBVIOUS
<1>2. f.id = 1 /\ b.id = 1  BY <1>1 DEF FromTab, Blank
<1>3. /\ tabs = <<f>> /\ browser.tabs = <<b>> /\ pending = << >> /\ commands = << >>
      /\ closed_tabs = << >> /\ latest = NoSnapshot /\ serial = 0 /\ received = 0 /\ snapshot = 0
      /\ next_tab = 2 /\ next_navigation = 1 /\ loads = 0
      /\ pointer_slot = FALSE /\ unpublished = FALSE
      /\ scenes = [t \in TabIds |-> NoScene] /\ invalidated = [t \in TabIds |-> 0]
      /\ hit = [seen |-> 0, upto |-> 1, document |-> 0]
  BY <1>1 DEF Init
<1>4. Counted  BY <1>3, PlainAssumption DEF Counted
<1>5. Queued  BY <1>3 DEF Queued
<1>6. ASSUME NEW t, t.id = 1 PROVE Known(Ids(<<t>>), 2, 1)
  <2>1. Ids(<<t>>) = [i \in 1..1 |-> 1]
    <3>1. DOMAIN <<t>> = 1..1 /\ \A i \in 1..1 : <<t>>[i] = t  OBVIOUS
    <3> QED  BY <1>6, <3>1 DEF Ids
  <2>2. PICK q : q = [i \in 1..1 |-> 1]  OBVIOUS
  <2>3. DOMAIN q = 1..1 /\ q[1] = 1 /\ \A i \in 1..1 : i = 1  BY <2>2
  <2>4. Len(q) = 1  BY <2>3, LenProperties
  <2>5. Distinct(q)  BY <2>3 DEF Distinct
  <2>6. \A i \in DOMAIN q : 0 < q[i] /\ q[i] < 2  BY <2>3
  <2>7. Known(q, 2, 1)  BY <2>4, <2>5, <2>6 DEF Known
  <2> QED  BY <2>1, <2>2, <2>7
<1>7. Named
  <2>1. Known(Ids(tabs), next_tab, 1 + serial) /\ Known(Ids(browser.tabs), next_tab, 1 + received)
    <3>1. Known(Ids(<<f>>), 2, 1) /\ Known(Ids(<<b>>), 2, 1)  BY <1>2, <1>6
    <3> QED  BY <1>3, <3>1
  <2>2. 1..Len(pending) = {}  BY <1>3
  <2> QED  BY <1>3, <2>1, <2>2 DEF Named
<1>8. Held
  <2>1. 0 \in Navigations /\ 1 \in Navigations /\ 0 \in Serials
    BY PlainAssumption DEF Navigations, Serials
  <2>2. 1..Len(closed_tabs) = {} /\ commands \in Seq(Input)  BY <1>3
  <2> QED  BY <1>3, <2>1, <2>2 DEF Held, NoScene, NoSnapshot
<1> QED  BY <1>4, <1>5, <1>7, <1>8 DEF TypeInv

LEMMA TypeStep ==
  ASSUME OrderInv, NavInv, TypeInv, [Next]_vars
  PROVE  TypeInv'
<1>1. CASE Reader
  <2>1. PICK kind, intent, v : Send(kind, intent, v) /\ Says(kind, intent, v)
    BY <1>1, ReaderSays
  <2>2. KeepsScenes  BY <1>1, ReaderSays
  <2> QED  BY <2>1, <2>2, SendKeepsTypes
<1>2. CASE Receive  BY <1>2, ReceiveKeepsTypes
<1>3. CASE Handle  BY <1>3, HandleKeepsTypes
<1>4. CASE \E i \in DOMAIN browser.tabs : Arrive(i)  BY <1>4, ArriveKeepsTypes
<1>5. CASE PageNavigates  BY <1>5, PageNavigatesKeepsTypes
<1>6. CASE Publish  BY <1>6, PublishKeepsTypes
<1>7. CASE UNCHANGED vars
  <2>1. UNCHANGED <<tabs, active, pending, serial, pointer_slot, snapshot, scenes, invalidated,
                    commands, latest, browser, received, closed_tabs, unpublished,
                    next_tab, next_navigation, loads, hit>>
    BY <1>7 DEF vars, windowVars, ownerVars, idVars
  <2> QED  BY <2>1 DEF TypeInv, Counted, Queued, Named, Held
<1> QED  BY <1>1, <1>2, <1>3, <1>4, <1>5, <1>6, <1>7 DEF Next, Settled

(* A list of one kind whose elements are of another.                       *)
LEMMA AllOf ==
  ASSUME NEW T, NEW S, NEW q \in Seq(T), \A i \in 1..Len(q) : q[i] \in S
  PROVE  q \in Seq(S)
<1>1. q = [i \in 1..Len(q) |-> q[i]] /\ Len(q) \in Nat  OBVIOUS
<1> QED  BY <1>1

LEMMA TypesHold ==
  ASSUME OrderInv, NavInv, TypeInv
  PROVE  TypeOK
<1>1. /\ Counted /\ Queued /\ Named /\ Held /\ MaxSerial \in Nat /\ MaxLoads \in Nat
      /\ serial \in Nat /\ received \in Nat /\ received <= serial /\ next_tab \in Nat
      /\ next_navigation \in Nat \ {0} /\ serial <= MaxSerial
  BY PlainAssumption DEF TypeInv, OrderInv, NavInv, Counted
<1>2. \A k \in Nat : k <= serial => k \in Serials  BY <1>1 DEF Serials
<1>3. next_tab <= 2 * MaxSerial + 2
  <2>1. next_tab <= 2 + serial + received  BY <1>1 DEF Counted
  <2> QED  BY <1>1, <2>1
<1>4. \A y \in Nat : 0 < y /\ y < next_tab => y \in TabIds  BY <1>1, <1>3 DEF TabIds
<1>5. \A d \in Nat : d <= next_navigation => d \in Navigations
  <2>1. next_navigation <= 1 + received + loads /\ loads \in 0..MaxLoads  BY <1>1 DEF Counted
  <2>2. next_navigation <= MaxSerial + MaxLoads + 1  BY <1>1, <2>1
  <2> QED  BY <1>1, <2>2 DEF Navigations
<1>6. PICK n, W, O : n = next_navigation /\ W = WindowTabs(n) /\ O = OwnerTabs(n)  OBVIOUS
<1>7. ASSUME NEW q \in Seq(W), NEW m, Known(Ids(q), next_tab, m) PROVE q \in Seq(WindowTab)
  <2> SUFFICES ASSUME NEW i \in 1..Len(q) PROVE q[i] \in WindowTab  BY AllOf
  <2>1. PICK t : t = q[i]  OBVIOUS
  <2>2. t \in W  BY <2>1
  <2>3. /\ t = [id |-> t.id, navigation |-> t.navigation]
        /\ t.id \in Nat /\ t.navigation \in Nat /\ t.navigation < n
    BY <1>6, <2>2 DEF WindowTabs, Below
  <2>4. i \in DOMAIN Ids(q) /\ Ids(q)[i] = t.id  BY <2>1 DEF Ids
  <2>5. t.id \in TabIds  BY <1>4, <1>7, <2>3, <2>4 DEF Known
  <2>6. t.navigation \in Navigations  BY <1>1, <1>5, <1>6, <2>3
  <2> QED  BY <2>1, <2>3, <2>5, <2>6 DEF WindowTab
<1>8. ASSUME NEW t \in O, t.id \in TabIds PROVE t \in Tab
  <2>1. /\ t = [id |-> t.id, navigation |-> t.navigation,
                document |-> t.document, loading |-> t.loading]
        /\ t.navigation \in Nat /\ t.document \in Nat /\ t.loading \in Nat
        /\ t.navigation < n /\ t.document <= t.navigation /\ t.loading <= t.navigation
    BY <1>6, OwnedFields
  <2>2. t.navigation <= n /\ t.document <= n /\ t.loading <= n  BY <1>1, <1>6, <2>1
  <2>3. t.navigation \in Navigations /\ t.document \in Navigations /\ t.loading \in Navigations
    BY <1>5, <1>6, <2>1, <2>2
  <2> QED  BY <1>8, <2>1, <2>3 DEF Tab
<1>9. /\ tabs \in Seq(WindowTab) /\ (WindowLives => active \in DOMAIN tabs)
      /\ \A i, j \in DOMAIN tabs : tabs[i].id = tabs[j].id => i = j
  <2>1. tabs \in Seq(W) /\ (WindowLives => active \in DOMAIN tabs)
    BY <1>6 DEF NavInv, View, Views, WindowLives
  <2>2. Known(Ids(tabs), next_tab, 1 + serial)  BY <1>1 DEF Named
  <2>3. tabs \in Seq(WindowTab)  BY <1>7, <2>1, <2>2
  <2>4. \A i, j \in DOMAIN tabs : tabs[i].id = tabs[j].id => i = j
    BY <2>2 DEF Known, Distinct, Ids
  <2> QED  BY <2>1, <2>3, <2>4
<1>10. pending \in Seq([serial : Serials, intent : Intent])
  <2> SUFFICES ASSUME NEW i \in 1..Len(pending)
               PROVE  pending[i] \in [serial : Serials, intent : Intent]
    BY AllOf DEF NavInv
  <2>1. pending[i] \in Waiting  BY DEF NavInv
  <2>2. PICK p : p = pending[i]  OBVIOUS
  <2>3. p = [serial |-> p.serial, intent |-> p.intent] /\ p.serial \in Nat
    BY <2>1, <2>2 DEF Waiting
  <2>4. p.serial \in Serials  BY <1>1, <1>2, <2>2, <2>3 DEF Queued
  <2>5. p.intent \in Intent
    <3>1. About(p.intent, next_tab, 1 + serial)  BY <1>1, <2>2 DEF Named
    <3>2. 1 + serial \in Nat /\ 1 + serial <= MaxSerial + 1  BY <1>1
    <3> QED  BY <1>1, <1>3, <3>1, <3>2, AboutIsIntent
  <2> QED  BY <2>2, <2>3, <2>4, <2>5
<1>11. latest \in Snapshot
  <2>1. CASE latest = NoSnapshot
    <3>1. 0 \in Serials /\ 0 \in Navigations  BY <1>1, <1>2, <1>5
    <3>2. << >> \in Seq(WindowTab)  OBVIOUS
    <3> QED  BY <2>1, <3>1, <3>2 DEF NoSnapshot, Snapshot
  <2>2. CASE latest # NoSnapshot
    <3>1. /\ latest = [serial |-> latest.serial, tabs |-> latest.tabs, active |-> latest.active,
                       document |-> latest.document]
          /\ latest.document \in Navigations
      BY <1>1 DEF Held
    <3>2. latest.serial \in Nat /\ latest.serial <= received
          /\ Known(Ids(latest.tabs), next_tab, 1 + latest.serial)
      BY <1>1, <2>2 DEF Named
    <3>3. latest.tabs \in Seq(W) /\ latest.active \in Nat
      BY <1>6, <2>2 DEF NavInv, ViewOf, Views
    <3>4. latest.tabs \in Seq(WindowTab)  BY <1>7, <3>2, <3>3
    <3>5. latest.serial \in Serials  BY <1>1, <1>2, <3>2
    <3> QED  BY <3>1, <3>3, <3>4, <3>5 DEF Snapshot
  <2> QED  BY <2>1, <2>2
<1>12. /\ browser.tabs \in Seq(Tab) /\ browser.active \in DOMAIN browser.tabs
       /\ \A i, j \in DOMAIN browser.tabs : browser.tabs[i].id = browser.tabs[j].id => i = j
  <2>1. PICK q : q = browser.tabs  OBVIOUS
  <2>2. q \in Seq(O) /\ browser.active \in DOMAIN q /\ Known(Ids(q), next_tab, 1 + received)
    BY <1>1, <1>6, <2>1 DEF NavInv, Browsers, Named
  <2>3. \A i \in 1..Len(q) : q[i] \in Tab
    <3> TAKE i \in 1..Len(q)
    <3>1. q[i] \in O  BY <2>2
    <3>2. i \in DOMAIN Ids(q) /\ Ids(q)[i] = q[i].id  BY <2>2 DEF Ids
    <3>3. q[i].id \in Nat  BY <1>6, <3>1, OwnedFields
    <3>4. q[i].id \in TabIds  BY <1>4, <2>2, <3>2, <3>3 DEF Known
    <3> QED  BY <1>8, <3>1, <3>4
  <2>4. q \in Seq(Tab)  BY <2>2, <2>3, AllOf
  <2>5. \A i, j \in DOMAIN q : q[i].id = q[j].id => i = j  BY <2>2 DEF Known, Distinct, Ids
  <2> QED  BY <2>1, <2>2, <2>4, <2>5
<1>13. closed_tabs \in Seq([index : Nat, tab : Tab])
  <2>1. PICK q : q = closed_tabs  OBVIOUS
  <2>2. q \in Seq(Closed(n)) /\ \A i \in 1..Len(q) : q[i].tab.id \in TabIds
    BY <1>1, <1>6, <2>1 DEF NavInv, Held
  <2>3. \A i \in 1..Len(q) : q[i] \in [index : Nat, tab : Tab]
    <3> TAKE i \in 1..Len(q)
    <3>1. PICK c : c = q[i]  OBVIOUS
    <3>2. c \in Closed(n) /\ c.tab.id \in TabIds  BY <2>2, <3>1
    <3>3. c = [index |-> c.index, tab |-> c.tab] /\ c.index \in Nat /\ c.tab \in O
      BY <1>6, <3>2 DEF Closed
    <3>4. c.tab \in Tab  BY <1>8, <3>2, <3>3
    <3> QED  BY <3>1, <3>3, <3>4
  <2> QED  BY <2>1, <2>2, <2>3, AllOf
<1>14. /\ serial \in Serials /\ snapshot \in Serials /\ received \in Serials
       /\ next_navigation \in Navigations /\ loads \in 0..MaxLoads
  <2>1. snapshot \in Nat /\ snapshot <= received /\ loads \in 0..MaxLoads  BY <1>1 DEF Counted
  <2>2. snapshot <= serial  BY <1>1, <2>1
  <2> QED  BY <1>1, <1>2, <1>5, <2>1, <2>2
<1>15. /\ scenes \in [TabIds -> [document : Navigations, serial : Serials]]
       /\ invalidated \in [TabIds -> Serials] /\ commands \in Seq(Input)
       /\ pointer_slot \in BOOLEAN /\ unpublished \in BOOLEAN
       /\ hit \in [seen : Navigations, upto : Navigations, document : Navigations]
  BY <1>1 DEF Held
<1> QED  BY <1>1, <1>9, <1>10, <1>11, <1>12, <1>13, <1>14, <1>15 DEF TypeOK

(* Whatever the reader asks for and whatever the window projects, the      *)
(* strip and the tabs of the owner (WindowBrowser, Browser::tabs) hold no  *)
(* identity twice, the tab in front is one of them, and every identity,    *)
(* navigation and serial on its way is one that was given out.             *)
THEOREM TypeCorrect == Spec => []TypeOK
<1>1. Init => OrderInv /\ NavInv /\ TypeInv  BY OrderInit, NavInit, TypeInit
<1>2. OrderInv /\ NavInv /\ TypeInv /\ [Next]_vars => (OrderInv /\ NavInv /\ TypeInv)'
  BY OrderStep, NavStep, TypeStep
<1>3. OrderInv /\ NavInv /\ TypeInv => TypeOK  BY TypesHold
<1> QED  BY <1>1, <1>2, <1>3, PTL DEF Spec
=============================================================================
