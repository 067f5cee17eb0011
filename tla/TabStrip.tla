------------------------------- MODULE TabStrip -------------------------------
(***************************************************************************)
(* What the reader of a window is promised of the tab strip: a list of     *)
(* tabs and the one in front that change when the reader opens, closes,    *)
(* selects or drags one, at that moment, and at no other. WindowOwner      *)
(* shows that two threads and a stale copy of the list keep the promise.   *)
(***************************************************************************)
EXTENDS Naturals, Sequences

VARIABLES strip,  \* the tabs' identities, in order
          front   \* the position of the one in front

stripVars == <<strip, front>>

Drop(s, i) == [k \in 1..(Len(s) - 1) |-> IF k < i THEN s[k] ELSE s[k + 1]]

StripInit == Len(strip) = 1 /\ front = 1

Open ==
    /\ Len(strip') = Len(strip) + 1
    /\ SubSeq(strip', 1, Len(strip)) = strip
    /\ strip'[Len(strip')] \notin {strip[k] : k \in DOMAIN strip}
    /\ front' = Len(strip')

(* The neighbour that slides into a closed tab's place comes to the front; *)
(* any other tab closed leaves the same tab in front.                      *)
Close(i) ==
    /\ Len(strip) > 1
    /\ strip' = Drop(strip, i)
    /\ IF i # front THEN strip'[front'] = strip[front]
       ELSE front' = IF i < Len(strip) THEN i ELSE i - 1

(* A window is never without a tab: closing the last one leaves a new one. *)
CloseLast ==
    /\ Len(strip) = 1 /\ Len(strip') = 1
    /\ strip'[1] # strip[1] /\ front' = 1

Select(i) == strip' = strip /\ front' = i

(* A drag changes one tab's place and not which is in front.               *)
Move(i, j) ==
    /\ Len(strip') = Len(strip)
    /\ Drop(strip', j) = Drop(strip, i) /\ strip'[j] = strip[i]
    /\ strip'[front'] = strip[front]

StripNext ==
    \/ Open
    \/ CloseLast
    \/ \E i \in DOMAIN strip : Close(i) \/ Select(i)
    \/ \E i, j \in DOMAIN strip : Move(i, j)

StripSpec == StripInit /\ [][StripNext]_stripVars
=============================================================================
