---------------------------- MODULE DurableStore ----------------------------
(***************************************************************************)
(* What the cookie store promises, with no thread, lock or file in it: a   *)
(* jar whose contents are numbered by revision, the revision a crash would *)
(* leave on disk, and the newest revision somebody was told is safe.       *)
(* CookieWriter.tla implements it.                                         *)
(***************************************************************************)
EXTENDS Naturals

VARIABLES
    jar,    \* the revision of the live jar
    disk,   \* the newest revision every crash preserves
    acked   \* the newest revision a caller was told has reached the disk

vars == <<jar, disk, acked>>

Init ==
    /\ jar = 0
    /\ disk = 0
    /\ acked = 0

(* A persistent cookie is set, replaced or removed. *)
Change ==
    /\ jar' = jar + 1
    /\ UNCHANGED <<disk, acked>>

(* A newer state of the jar becomes durable; intermediate ones may be skipped. *)
Persist ==
    /\ disk' \in disk .. jar
    /\ UNCHANGED <<jar, acked>>

(* A caller is told about what is durable, never about more. *)
Acknowledge ==
    /\ acked' \in acked .. disk
    /\ UNCHANGED <<jar, disk>>

(* The process dies. The next one finds what was durable, or something newer *)
(* that was on its way, and never something older.                           *)
Crash ==
    /\ disk' \in disk .. jar
    /\ jar' = disk'
    /\ UNCHANGED acked

Next == Change \/ Persist \/ Acknowledge \/ Crash

Spec == Init /\ [][Next]_vars
=============================================================================
