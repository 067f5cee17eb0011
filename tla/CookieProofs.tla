----------------------------- MODULE CookieProofs -----------------------------
(***************************************************************************)
(* Proofs about CookieWriter and CookieJar. Each has variables of its own  *)
(* and neither's steps mention the other's: they meet in kept_revision,    *)
(* which the jar raises and the writer goes by.                            *)
(*                                                                         *)
(* Of the writer, for every number of changes and crashes: the types, the  *)
(* inductive invariant behind the durability promise, and that the worker, *)
(* its locks and its file operations implement DurableStore. Of the jar,   *)
(* for every capacity, clock, set of hosts and number of cookies: that no  *)
(* cookie that lasts changes unnoticed, that there is one per identity,    *)
(* and what a store may take out.                                          *)
(***************************************************************************)
EXTENDS CookieWriter, CookieJar, FiniteSetTheorems, WellFoundedInduction,
        NaturalsInduction, TLAPS

-----------------------------------------------------------------------------
(* The writer.                                                             *)

(* The worker's and the owner's places, the revisions they pass on and the  *)
(* files on the disk are what they should be at every moment.               *)
THEOREM TypeCorrect == Spec => []TypeOK
<1>1. Init => TypeOK
  <2> SUFFICES ASSUME Init PROVE TypeOK
    OBVIOUS
  <2>1. /\ moved \in BOOLEAN /\ stopping \in BOOLEAN /\ finished \in BOOLEAN
        /\ result \in BOOLEAN /\ exitOk \in BOOLEAN /\ attached \in BOOLEAN
    BY Zenon DEF Init
  <2> QED
    BY <2>1 DEF Init, TypeOK, KeyAnswers, NoAttempt, WorkerPcs, OwnerPcs, Tasks, Writing
<1>2. TypeOK /\ [Next]_vars => TypeOK'
  <2> SUFFICES ASSUME TypeOK, [Next]_vars PROVE TypeOK'
    OBVIOUS
  <2> USE DEF TypeOK, vars, diskVars, stateVars, workerVars, ownerVars, ghostVars,
              WorkerPcs, OwnerPcs, Tasks, Writing
  <2>1. CASE JarChanges BY <2>1 DEF JarChanges
  <2>2. CASE WorkerCheck
    <3>1. exitOk' \in BOOLEAN BY <2>2, Zenon DEF WorkerCheck
    <3> QED BY <2>2, <3>1 DEF WorkerCheck
  <2>3. CASE WorkerSnapshot BY <2>3 DEF WorkerSnapshot
  <2>4. CASE WorkerKey
    <3>1. result' \in BOOLEAN BY <2>4, Zenon DEF WorkerKey
    <3> QED BY <2>4, <3>1 DEF WorkerKey
  <2>5. CASE CreateTemporary BY <2>5 DEF CreateTemporary
  <2>6. CASE SyncTemporary BY <2>6 DEF SyncTemporary
  <2>7. CASE RenameTemporary BY <2>7 DEF RenameTemporary
  <2>8. CASE SyncDirectory BY <2>8 DEF SyncDirectory, Readable
  <2>9. CASE WriteFails
    <3>1. result' \in BOOLEAN BY <2>9, Zenon DEF WriteFails
    <3> QED BY <2>9, <3>1 DEF WriteFails
  <2>10. CASE WorkerPanics
    <3>1. exitOk' \in BOOLEAN BY <2>10, Zenon DEF WorkerPanics
    <3> QED BY <2>10, <3>1 DEF WorkerPanics
  <2>11. CASE WorkerReport
    BY <2>11 DEF WorkerReport, WrittenAfter, Larger, OwnerAwake
  <2>12. CASE WorkerUnwinds BY <2>12 DEF WorkerUnwinds, OwnerAwake
  <2>13. CASE RetryFallsDue BY <2>13 DEF RetryFallsDue
  <2>14. CASE SpuriousWake BY <2>14 DEF SpuriousWake
  <2>15. ASSUME NEW t \in {"schedule", "flush", "drop"}, Begin(t) PROVE TypeOK'
    BY <2>15 DEF Begin
  <2>16. CASE ImportPlain BY <2>16 DEF ImportPlain
  <2>17. CASE ScheduleSet BY <2>17 DEF ScheduleSet, Awake
  <2>18. CASE FlushSet
    <3>1. moved' \in BOOLEAN BY <2>18, Zenon DEF FlushSet, Answer, Larger, Awake
    <3> QED BY <2>18, <3>1 DEF FlushSet, Answer, Larger, Awake
  <2>19. CASE FlushWait BY <2>19 DEF FlushWait, Answer, Larger
  <2>20. CASE RemovePlain
    <3>1. plain' \in BOOLEAN BY <2>20, Zenon DEF RemovePlain
    <3> QED BY <2>20, <3>1 DEF RemovePlain
  <2>21. CASE FinishRead BY <2>21 DEF FinishRead
  <2>22. CASE FinishStop BY <2>22 DEF FinishStop, Larger, Awake
  <2>23. CASE FinishJoin BY <2>23 DEF FinishJoin, Larger
  <2>24. CASE Crash
    <3>1. moved' \in BOOLEAN /\ stopping' \in BOOLEAN /\ finished' \in BOOLEAN BY <2>24, Zenon DEF Crash, Readable, KeyAnswers, NoAttempt
    <3>2. result' \in BOOLEAN /\ exitOk' \in BOOLEAN BY <2>24, Zenon DEF Crash, Readable, KeyAnswers, NoAttempt
    <3>3. attached' \in BOOLEAN BY <2>24, Zenon DEF Crash, Readable, KeyAnswers, NoAttempt
    <3> QED BY <2>24, <3>1, <3>2, <3>3 DEF Crash, Readable, KeyAnswers, NoAttempt
  <2>25. CASE UNCHANGED vars BY <2>25
  <2> QED
    BY <2>1, <2>2, <2>3, <2>4, <2>5, <2>6, <2>7, <2>8, <2>9, <2>10, <2>11, <2>12,
       <2>13, <2>14, <2>15, <2>16, <2>17, <2>18, <2>19, <2>20, <2>21, <2>22, <2>23,
       <2>24, <2>25 DEF Next, Worker, Owner, Terminated
<1> QED BY <1>1, <1>2, PTL DEF Spec

-----------------------------------------------------------------------------
(* The inductive invariant, in the parts the argument goes through.        *)

(* The file under the cookie name is always whole, because only a synced   *)
(* temporary is renamed to it, and it is never behind what is durable nor  *)
(* ahead of the jar.                                                       *)
FileInv ==
    /\ fileWhole = TRUE
    /\ wpc = "rename" => tmp = "synced"
    /\ durable <= file
    /\ file <= jar

(* The snapshot being written is between the file and the jar, is what the *)
(* file holds once renamed, and is durable once its success is reported.   *)
SnapshotInv ==
    /\ wpc \in Writing \cup {"key", "report"} => file <= snap /\ snap <= jar
    /\ wpc = "syncdir" => file = snap
    /\ wpc = "report" /\ result = TRUE => snap <= durable

(* What State calls written is durable. A worker that returned true had    *)
(* nothing left to write when it was told to stop, and nothing is asked of *)
(* it after that.                                                          *)
WrittenInv ==
    /\ written <= durable
    /\ exitOk = TRUE => wpc \in {"unwind", "gone"} /\ stopping = TRUE /\ wanted <= written
    /\ stopping = TRUE => opc \in {"join", "gone"}
    /\ opc = "join" => ask <= wanted
    /\ acked <= durable

(* While a migration is between its import and the removal of the plain    *)
(* file, the revision it waits for is the one that holds the import.       *)
PlainInv ==
    /\ opc = "import" => plain = TRUE /\ wpc = "unborn"
    /\ task = "migrate" => ask = plainRev /\ opc \in {"set", "wait", "asleep"}
    /\ opc = "unlink" => plainRev <= durable
    /\ plain = TRUE \/ plainRev <= durable

DurabilityInv == FileInv /\ SnapshotInv /\ WrittenInv /\ PlainInv

LEMMA DurabilityInvInit == Init => DurabilityInv
BY DEF Init, KeyAnswers, DurabilityInv, FileInv, SnapshotInv, WrittenInv, PlainInv, Writing

LEMMA DurabilityInvStep ==
    TypeOK /\ DurabilityInv /\ [Next]_vars => DurabilityInv'
<1> SUFFICES ASSUME TypeOK, DurabilityInv, [Next]_vars PROVE DurabilityInv'
  OBVIOUS
<1> USE DEF TypeOK, DurabilityInv, FileInv, SnapshotInv, WrittenInv, PlainInv,
            vars, diskVars, stateVars, workerVars, ownerVars, ghostVars, Writing
<1>1. CASE JarChanges BY <1>1 DEF JarChanges
<1>2. CASE WorkerCheck BY <1>2 DEF WorkerCheck
<1>3. CASE WorkerSnapshot BY <1>3 DEF WorkerSnapshot
<1>4. CASE WorkerKey BY <1>4 DEF WorkerKey
<1>5. CASE CreateTemporary BY <1>5 DEF CreateTemporary
<1>6. CASE SyncTemporary BY <1>6 DEF SyncTemporary
<1>7. CASE RenameTemporary
  <2>1. fileWhole' = TRUE BY <1>7, Zenon DEF RenameTemporary
  <2> QED BY <1>7, <2>1 DEF RenameTemporary
<1>8. CASE SyncDirectory BY <1>8 DEF SyncDirectory, Readable
<1>9. CASE WriteFails BY <1>9 DEF WriteFails
<1>10. CASE WorkerPanics
  <2>1. ~(exitOk' = TRUE) BY <1>10, Zenon DEF WorkerPanics
  <2> QED BY <1>10, <2>1 DEF WorkerPanics
<1>11. CASE WorkerReport
  BY <1>11 DEF WorkerReport, WrittenAfter, Larger, OwnerAwake
<1>12. CASE WorkerUnwinds BY <1>12 DEF WorkerUnwinds, OwnerAwake
<1>13. CASE RetryFallsDue BY <1>13 DEF RetryFallsDue
<1>14. CASE SpuriousWake BY <1>14 DEF SpuriousWake
<1>15. ASSUME NEW t \in {"schedule", "flush", "drop"}, Begin(t) PROVE DurabilityInv'
  BY <1>15 DEF Begin
<1>16. CASE ImportPlain BY <1>16 DEF ImportPlain
<1>17. CASE ScheduleSet BY <1>17 DEF ScheduleSet, Awake
<1>18. CASE FlushSet
  <2>1. FileInv' BY <1>18 DEF FlushSet, Answer, Larger, Awake
  <2>2. SnapshotInv' BY <1>18 DEF FlushSet, Answer, Larger, Awake
  <2>3. WrittenInv' BY <1>18 DEF FlushSet, Answer, Larger, Awake
  <2>4. PlainInv' BY <1>18 DEF FlushSet, Answer, Larger, Awake
  <2> QED BY <2>1, <2>2, <2>3, <2>4
<1>19. CASE FlushWait
  <2>1. FileInv' BY <1>19 DEF FlushWait, Answer, Larger
  <2>2. SnapshotInv' BY <1>19 DEF FlushWait, Answer, Larger
  <2>3. WrittenInv' BY <1>19 DEF FlushWait, Answer, Larger
  <2>4. PlainInv' BY <1>19 DEF FlushWait, Answer, Larger
  <2> QED BY <2>1, <2>2, <2>3, <2>4
<1>20. CASE RemovePlain
  <2>1. FileInv' BY <1>20 DEF RemovePlain
  <2>2. SnapshotInv' BY <1>20 DEF RemovePlain
  <2>3. WrittenInv' BY <1>20 DEF RemovePlain
  <2>4. PlainInv' BY <1>20 DEF RemovePlain
  <2> QED BY <2>1, <2>2, <2>3, <2>4
<1>21. CASE FinishRead BY <1>21 DEF FinishRead
<1>22. CASE FinishStop BY <1>22 DEF FinishStop, Larger, Awake
<1>23. CASE FinishJoin BY <1>23 DEF FinishJoin, Larger
<1>24. CASE Crash
  <2>1. FileInv' BY <1>24 DEF Crash, Readable, KeyAnswers, NoAttempt
  <2>2. SnapshotInv' BY <1>24 DEF Crash, Readable, KeyAnswers, NoAttempt
  <2>3. WrittenInv' BY <1>24 DEF Crash, Readable, KeyAnswers, NoAttempt
  <2>4. PlainInv' BY <1>24 DEF Crash, Readable, KeyAnswers, NoAttempt
  <2> QED BY <2>1, <2>2, <2>3, <2>4
<1>25. CASE UNCHANGED vars BY <1>25
<1> QED
  BY <1>1, <1>2, <1>3, <1>4, <1>5, <1>6, <1>7, <1>8, <1>9, <1>10, <1>11, <1>12,
     <1>13, <1>14, <1>15, <1>16, <1>17, <1>18, <1>19, <1>20, <1>21, <1>22, <1>23,
     <1>24, <1>25 DEF Next, Worker, Owner, Terminated

LEMMA Durability == Spec => [](TypeOK /\ DurabilityInv)
<1>1. Init => DurabilityInv BY DurabilityInvInit
<1>2. TypeOK /\ TypeOK' /\ DurabilityInv /\ [Next]_vars => DurabilityInv'
  BY DurabilityInvStep
<1> QED BY <1>1, <1>2, TypeCorrect, PTL DEF Spec

(* Whatever flush or finish acknowledged survives a crash at any moment,    *)
(* between any two file operations of any later write.                     *)
THEOREM AcknowledgedIsDurable == Spec => []AckedSurvivesCrash
<1>1. TypeOK /\ DurabilityInv => AckedSurvivesCrash
  BY DEF TypeOK, DurabilityInv, FileInv, WrittenInv, AckedSurvivesCrash, Readable
<1> QED BY <1>1, Durability, PTL

(* The plain file goes only when what it held is durable in the sealed one. *)
THEOREM MigrationKeepsCookies == Spec => []PlainRemovedOnlyWhenSealed
<1>1. TypeOK /\ DurabilityInv => PlainRemovedOnlyWhenSealed
  BY DEF TypeOK, DurabilityInv, PlainInv, PlainRemovedOnlyWhenSealed
<1> QED BY <1>1, Durability, PTL

-----------------------------------------------------------------------------
(* The worker, its file operations and the owner's calls implement the      *)
(* durable store: a successful directory sync is Persist, an answered flush *)
(* or a joined worker is Acknowledge, and everything else about threads,    *)
(* locks and temporaries is invisible.                                      *)
THEOREM ImplementsDurableStore == Spec => ImplementsPromise
<1>1. Init => Promise!Init
  BY DEF Init, Promise!Init
<1>2. TypeOK /\ DurabilityInv /\ [Next]_vars => [Promise!Next]_<<jar, durable, acked>>
  <2> SUFFICES ASSUME TypeOK, DurabilityInv, [Next]_vars
               PROVE [Promise!Next]_<<jar, durable, acked>>
    OBVIOUS
  <2> USE DEF TypeOK, DurabilityInv, FileInv, SnapshotInv, WrittenInv, vars, diskVars,
              stateVars, workerVars, ownerVars, ghostVars, Writing
  <2>1. CASE JarChanges \/ ImportPlain
    BY <2>1 DEF JarChanges, ImportPlain, Promise!Next, Promise!Change
  <2>2. CASE SyncDirectory
    BY <2>2 DEF SyncDirectory, Readable, Promise!Next, Promise!Persist
  <2>3. CASE FlushSet
    BY <2>3 DEF FlushSet, Answer, Larger, Promise!Next, Promise!Acknowledge
  <2>4. CASE FlushWait
    BY <2>4 DEF FlushWait, Answer, Larger, Promise!Next, Promise!Acknowledge
  <2>5. CASE FinishJoin
    BY <2>5 DEF FinishJoin, Larger, Promise!Next, Promise!Acknowledge
  <2>6. CASE Crash
    BY <2>6 DEF Crash, Readable, Promise!Next, Promise!Crash
  <2>7. CASE \/ WorkerCheck \/ WorkerSnapshot \/ WorkerKey \/ CreateTemporary
             \/ SyncTemporary \/ RenameTemporary \/ WriteFails \/ WorkerPanics
             \/ WorkerReport \/ WorkerUnwinds \/ RetryFallsDue \/ SpuriousWake
    <3>1. UNCHANGED <<jar, durable, acked>>
      BY <2>7 DEF WorkerCheck, WorkerSnapshot, WorkerKey, CreateTemporary,
         SyncTemporary, RenameTemporary, WriteFails, WorkerPanics, WorkerReport,
         WorkerUnwinds, RetryFallsDue, SpuriousWake
    <3> QED BY <3>1
  <2>8. CASE \/ ScheduleSet \/ RemovePlain \/ FinishRead \/ FinishStop
    <3>1. UNCHANGED <<jar, durable, acked>>
      BY <2>8 DEF ScheduleSet, RemovePlain, FinishRead, FinishStop
    <3> QED BY <3>1
  <2>9. ASSUME NEW t \in {"schedule", "flush", "drop"}, Begin(t)
        PROVE [Promise!Next]_<<jar, durable, acked>>
    <3>1. UNCHANGED <<jar, durable, acked>> BY <2>9 DEF Begin
    <3> QED BY <3>1
  <2>10. CASE UNCHANGED vars BY <2>10
  <2> QED
    BY <2>1, <2>2, <2>3, <2>4, <2>5, <2>6, <2>7, <2>8, <2>9, <2>10
       DEF Next, Worker, Owner, Terminated
<1> QED
  BY <1>1, <1>2, Durability, PTL
     DEF ImplementsPromise, Spec, Promise!Spec, Promise!vars

-----------------------------------------------------------------------------
(* Every change that could satisfy a sleeper's condition also wakes it.     *)
THEOREM NoSleeperForgotten == Spec => []NoLostWakeup
<1>1. Init => NoLostWakeup
  BY DEF Init, NoLostWakeup
<1>2. TypeOK /\ NoLostWakeup /\ [Next]_vars => NoLostWakeup'
  <2> SUFFICES ASSUME TypeOK, NoLostWakeup, [Next]_vars PROVE NoLostWakeup'
    OBVIOUS
  <2> USE DEF TypeOK, NoLostWakeup, FlushFailed, vars, diskVars, stateVars, workerVars,
              ownerVars, ghostVars, Writing
  <2>1. CASE \/ JarChanges \/ WorkerSnapshot \/ WorkerKey \/ CreateTemporary
             \/ SyncTemporary \/ RenameTemporary \/ SyncDirectory \/ WriteFails
             \/ WorkerPanics
    BY <2>1 DEF JarChanges, WorkerSnapshot, WorkerKey, CreateTemporary, SyncTemporary,
       RenameTemporary, SyncDirectory, WriteFails, WorkerPanics
  <2>2. CASE WorkerCheck BY <2>2 DEF WorkerCheck
  <2>3. CASE WorkerReport BY <2>3 DEF WorkerReport, OwnerAwake
  <2>4. CASE WorkerUnwinds BY <2>4 DEF WorkerUnwinds, OwnerAwake
  <2>5. CASE RetryFallsDue BY <2>5 DEF RetryFallsDue
  <2>6. CASE SpuriousWake BY <2>6 DEF SpuriousWake
  <2>7. ASSUME NEW t \in {"schedule", "flush", "drop"}, Begin(t) PROVE NoLostWakeup'
    BY <2>7 DEF Begin
  <2>8. CASE ImportPlain BY <2>8 DEF ImportPlain
  <2>9. CASE ScheduleSet BY <2>9 DEF ScheduleSet, Awake
  <2>10. CASE FlushSet BY <2>10 DEF FlushSet, Answer, Awake
  <2>11. CASE FlushWait BY <2>11 DEF FlushWait, Answer
  <2>12. CASE RemovePlain \/ FinishRead
    <3>1. /\ opc' # "asleep"
          /\ UNCHANGED <<wpc, wanted, written, stopping, retryAt>>
      BY <2>12 DEF RemovePlain, FinishRead
    <3> QED BY <3>1
  <2>13. CASE FinishStop BY <2>13 DEF FinishStop, Awake
  <2>14. CASE FinishJoin BY <2>14 DEF FinishJoin
  <2>15. CASE Crash BY <2>15 DEF Crash
  <2>16. CASE UNCHANGED vars BY <2>16
  <2> QED
    BY <2>1, <2>2, <2>3, <2>4, <2>5, <2>6, <2>7, <2>8, <2>9, <2>10, <2>11, <2>12,
       <2>13, <2>14, <2>15, <2>16 DEF Next, Worker, Owner, Terminated
<1> QED BY <1>1, <1>2, TypeCorrect, PTL DEF Spec

-----------------------------------------------------------------------------
(* The jar. Its lists are gone through from the first place to the last.   *)

(* What holds at the start and is carried from each place to the next      *)
(* holds at every place.                                                   *)
LEMMA CarriedThrough ==
  ASSUME NEW n \in Nat, NEW X, NEW h, h[0] \in X,
         \A i \in 1..n : h[i - 1] \in X => h[i] \in X
  PROVE  \A i \in 0..n : h[i] \in X
<1> DEFINE Bad == {i \in 0..n : h[i] \notin X}
<1>1. CASE Bad = {}  BY <1>1
<1>2. CASE Bad # {}
  <2>1. Bad \subseteq Nat  OBVIOUS
  <2>2. PICK m \in Bad : \A j \in Bad : ~(<<j, m>> \in OpToRel(<, Nat))
    <3> HIDE DEF Bad
    <3> QED  BY <1>2, <2>1, NatLessThanWellFounded, WFMin, Zenon
  <2>3. m \in Nat /\ m \in 1..n /\ m - 1 \in 0..n /\ m - 1 \in Nat /\ m - 1 < m  OBVIOUS
  <2>4. m - 1 \notin Bad
    <3>1. <<m - 1, m>> \in OpToRel(<, Nat)  BY <2>3 DEF OpToRel
    <3> QED  BY <2>2, <3>1
  <2> QED  BY <2>3, <2>4
<1> QED  BY <1>1, <1>2

(* The function that takes a start through n steps exists.                 *)
Runs(g, n, X, base, step) ==
    g \in [0..n -> X] /\ g[0] = base /\ \A i \in 1..n : g[i] = step[i][g[i - 1]]

LEMMA Stepwise ==
  ASSUME NEW n \in Nat, NEW X, NEW base \in X, NEW step \in [1..n -> [X -> X]]
  PROVE  \E g : Runs(g, n, X, base, step)
<1> DEFINE Solves(g, k) == /\ g \in [0..k -> X]
                           /\ g = [i \in 0..k |-> IF i = 0 THEN base ELSE step[i][g[i - 1]]]
           h == [k \in 0..n |-> IF \E g : Solves(g, k) THEN 1 ELSE 0]
<1>1. h[0] \in {1}
  <2> DEFINE g == [i \in 0..0 |-> base]
  <2>1. g \in [0..0 -> X]  OBVIOUS
  <2>2. g = [i \in 0..0 |-> IF i = 0 THEN base ELSE step[i][g[i - 1]]]
    <3>1. \A i \in 0..0 : i = 0  OBVIOUS
    <3> QED  BY <3>1
  <2>3. Solves(g, 0) /\ 0 \in 0..n  BY <2>1, <2>2
  <2> HIDE DEF Solves, g
  <2> QED  BY <2>3
<1>2. ASSUME NEW k \in 1..n, h[k - 1] \in {1} PROVE h[k] \in {1}
  <2>0. k \in Nat /\ k - 1 \in 0..n /\ k \in 0..n  OBVIOUS
  <2>1. PICK g : Solves(g, k - 1)  BY <1>2, <2>0
  <2> DEFINE f == [i \in 0..k |-> IF i = k THEN step[k][g[k - 1]] ELSE g[i]]
  <2>2. g[k - 1] \in X /\ step[k][g[k - 1]] \in X  BY <2>0, <2>1
  <2>3. f \in [0..k -> X]
    <3>1. \A i \in 0..k : i # k => i \in 0..(k - 1)  BY <2>0
    <3> QED  BY <2>1, <2>2, <3>1
  <2>4. ASSUME NEW i \in 0..k
        PROVE  f[i] = IF i = 0 THEN base ELSE step[i][f[i - 1]]
    <3>1. CASE i = k
      <4>1. k - 1 \in 0..k /\ k - 1 # k /\ i # 0  BY <2>0, <3>1
      <4>2. f[i - 1] = g[k - 1]  BY <3>1, <4>1
      <4> QED  BY <3>1, <4>1, <4>2
    <3>2. CASE i # k
      <4>1. i \in 0..(k - 1) /\ f[i] = g[i]  BY <2>0, <3>2
      <4>2. CASE i = 0  BY <2>1, <4>1, <4>2
      <4>3. CASE i # 0
        <5>1. i - 1 \in 0..k /\ i - 1 # k  BY <2>0, <4>1, <4>3
        <5>2. f[i - 1] = g[i - 1]  BY <5>1
        <5> QED  BY <2>1, <4>1, <4>3, <5>2
      <4> QED  BY <4>2, <4>3
    <3> QED  BY <3>1, <3>2
  <2>5. f = [i \in 0..k |-> IF i = 0 THEN base ELSE step[i][f[i - 1]]]
    <3> HIDE DEF f
    <3> SUFFICES f = [i \in 0..k |-> f[i]]  BY <2>4
    <3> QED  BY <2>3
  <2>6. Solves(f, k)  BY <2>3, <2>5
  <2> HIDE DEF Solves
  <2> QED  BY <2>0, <2>6
<1>3. \A k \in 0..n : h[k] \in {1}
  <2>1. \A i \in 1..n : h[i - 1] \in {1} => h[i] \in {1}  BY <1>2
  <2> HIDE DEF h
  <2>2. n \in Nat  OBVIOUS
  <2>3. \A i \in 0..n : h[i] \in {1}  
    <3>1. PICK Y : Y = {1}  OBVIOUS
    <3>2. h[0] \in Y /\ \A i \in 1..n : h[i - 1] \in Y => h[i] \in Y  BY <1>1, <2>1, <3>1
    <3>3. \A i \in 0..n : h[i] \in Y  BY <3>2, <2>2, CarriedThrough
    <3> QED  BY <3>3, <3>1
  <2> QED  BY <2>3
<1>4. \E g : Solves(g, n)
  <2>1. n \in 0..n  OBVIOUS
  <2> HIDE DEF Solves
  <2> QED  BY <1>3, <2>1
<1>5. PICK g : Solves(g, n)  BY <1>4
<1>6. g[0] = base  BY <1>5
<1>7. \A i \in 1..n : g[i] = step[i][g[i - 1]]
  <2>1. \A i \in 1..n : i \in 0..n /\ i # 0  OBVIOUS
  <2> QED  BY <1>5, <2>1
<1> QED  BY <1>5, <1>6, <1>7 DEF Runs

(* What is kept of a list, after each of its places.                       *)
KeepsAll(kept, s, gone) ==
    /\ kept[0] = << >>
    /\ \A i \in 1..Len(s) :
          kept[i] = IF i \in gone THEN kept[i - 1] ELSE Append(kept[i - 1], s[i])
    /\ Without(s, gone) = kept[Len(s)]

LEMMA WithoutUnfolds ==
  ASSUME NEW S, NEW s \in Seq(S), NEW gone
  PROVE  \E kept : KeepsAll(kept, s, gone)
<1> DEFINE m == Len(s)
           step == [i \in 1..m |-> [k \in Seq(S) |->
                      IF i \in gone THEN k ELSE Append(k, s[i])]]
           kept == CHOOSE f : f = [i \in 0..m |->
                      IF i = 0 THEN << >>
                      ELSE IF i \in gone THEN f[i - 1] ELSE Append(f[i - 1], s[i])]
<1>1. m \in Nat /\ \A i \in 1..m : s[i] \in S  OBVIOUS
<1>2. step \in [1..m -> [Seq(S) -> Seq(S)]]  BY <1>1
<1>3. << >> \in Seq(S)  OBVIOUS
<1>4. PICK g : Runs(g, m, Seq(S), << >>, step)
  <2> HIDE DEF step, m
  <2> QED  BY <1>1, <1>2, <1>3, Stepwise
<1>5. g = [i \in 0..m |-> IF i = 0 THEN << >>
                          ELSE IF i \in gone THEN g[i - 1] ELSE Append(g[i - 1], s[i])]
  <2>1. ASSUME NEW i \in 0..m, i # 0
        PROVE  g[i] = IF i \in gone THEN g[i - 1] ELSE Append(g[i - 1], s[i])
    <3>1. i \in 1..m /\ i - 1 \in 0..m  BY <1>1, <2>1
    <3>2. g[i - 1] \in Seq(S) /\ g[i] = step[i][g[i - 1]]  BY <1>4, <3>1 DEF Runs
    <3> QED  BY <3>1, <3>2
  <2>2. ASSUME NEW i \in 0..m, i = 0 PROVE g[i] = << >>  BY <1>4, <2>2 DEF Runs
  <2>3. g = [i \in 0..m |-> g[i]]  BY <1>4 DEF Runs
  <2> HIDE DEF step, m
  <2> QED  BY <2>1, <2>2, <2>3
<1>6. kept = [i \in 0..m |-> IF i = 0 THEN << >>
                             ELSE IF i \in gone THEN kept[i - 1]
                                  ELSE Append(kept[i - 1], s[i])]
  <2> HIDE DEF m
  <2> QED  BY <1>5, Zenon
<1>7. Without(s, gone) = kept[m]
  BY DEF Without
<1> HIDE DEF kept
<1>8. kept[0] = << >>  BY <1>1, <1>6
<1>9. ASSUME NEW i \in 1..m
      PROVE  kept[i] = IF i \in gone THEN kept[i - 1] ELSE Append(kept[i - 1], s[i])
  <2>1. i \in 0..m /\ i # 0  BY <1>1
  <2> QED  BY <1>6, <2>1
<1>10. KeepsAll(kept, s, gone)  BY <1>7, <1>8, <1>9 DEF KeepsAll
<1> QED  BY <1>10

(* w is made of the places P of s: each place is used, and used once.      *)
Made(p, w, s, P) ==
    /\ p \in [1..Len(w) -> P]
    /\ \A j, k \in 1..Len(w) : p[j] = p[k] => j = k
    /\ \A i \in P : \E k \in 1..Len(w) : p[k] = i
    /\ \A k \in 1..Len(w) : w[k] = s[p[k]]
MadeOf(w, s, P) == \E p : Made(p, w, s, P)

LEMMA OneMore ==
  ASSUME NEW S, NEW w \in Seq(S), NEW s, NEW P, NEW i, i \notin P, s[i] \in S, MadeOf(w, s, P)
  PROVE  MadeOf(Append(w, s[i]), s, P \cup {i})
<1> DEFINE n == Len(w)
           v == Append(w, s[i])
<1>1. PICK p : Made(p, w, s, P)  BY DEF MadeOf
<1>2. /\ p \in [1..n -> P]
      /\ \A j, k \in 1..n : p[j] = p[k] => j = k
      /\ \A x \in P : \E k \in 1..n : p[k] = x
      /\ \A k \in 1..n : w[k] = s[p[k]]
  BY <1>1 DEF Made
<1>3. n \in Nat /\ Len(v) = n + 1 /\ v[n + 1] = s[i] /\ \A k \in 1..n : v[k] = w[k]  OBVIOUS
<1> HIDE DEF v, n
<1> DEFINE q == [k \in 1..(n + 1) |-> IF k = n + 1 THEN i ELSE p[k]]
<1>4. /\ \A k \in 1..(n + 1) : k = n + 1 \/ k \in 1..n
      /\ \A k \in 1..n : k \in 1..(n + 1) /\ k # n + 1
      /\ n + 1 \in 1..(n + 1)
  BY <1>3
<1>5. q[n + 1] = i /\ \A k \in 1..n : q[k] = p[k] /\ q[k] \in P  BY <1>2, <1>4
<1>6. q \in [1..(n + 1) -> P \cup {i}]  BY <1>2, <1>4
<1> HIDE DEF q
<1>7. \A j, k \in 1..(n + 1) : q[j] = q[k] => j = k  BY <1>2, <1>4, <1>5
<1>8. \A x \in P \cup {i} : \E k \in 1..(n + 1) : q[k] = x  BY <1>2, <1>4, <1>5
<1>9. \A k \in 1..(n + 1) : v[k] = s[q[k]]  BY <1>2, <1>3, <1>4, <1>5
<1>10. Made(q, v, s, P \cup {i})  BY <1>3, <1>6, <1>7, <1>8, <1>9 DEF Made
<1> QED  BY <1>10 DEF MadeOf, v

(* What is kept so far has the places gone through that stay, once each.   *)
LEMMA KeptSoFar ==
  ASSUME NEW S, NEW s \in Seq(S), NEW gone, NEW kept, KeepsAll(kept, s, gone)
  PROVE  \A i \in 0..Len(s) : kept[i] \in Seq(S) /\ MadeOf(kept[i], s, (1..i) \ gone)
<1> DEFINE m == Len(s)
           Good(i) == kept[i] \in Seq(S) /\ MadeOf(kept[i], s, (1..i) \ gone)
           h == [i \in 0..m |-> IF Good(i) THEN 1 ELSE 0]
<1>1. m \in Nat /\ \A i \in 1..m : s[i] \in S  OBVIOUS
<1>3. Good(0)
  <2>1. kept[0] = << >>  BY DEF KeepsAll
  <2>2. (1..0) \ gone = {}  OBVIOUS
  <2>3. Made([k \in 1..0 |-> 0], << >>, s, {})  BY DEF Made
  <2> QED  BY <2>1, <2>2, <2>3 DEF MadeOf
<1>4. ASSUME NEW i \in 1..m, Good(i - 1) PROVE Good(i)
  <2>1. kept[i] = IF i \in gone THEN kept[i - 1] ELSE Append(kept[i - 1], s[i])
    BY DEF KeepsAll
  <2>2. CASE i \in gone
    <3>1. (1..i) \ gone = (1..(i - 1)) \ gone  BY <1>1, <2>2
    <3> QED  BY <1>4, <2>1, <2>2, <3>1
  <2>3. CASE i \notin gone
    <3>1. (1..i) \ gone = ((1..(i - 1)) \ gone) \cup {i}  BY <1>1, <2>3
    <3>2. i \notin (1..(i - 1)) \ gone  BY <1>1
    <3>3. PICK w : w = kept[i - 1]  OBVIOUS
    <3>4. w \in Seq(S) /\ MadeOf(w, s, (1..(i - 1)) \ gone) /\ s[i] \in S  BY <1>1, <1>4, <3>3
    <3>5. MadeOf(Append(w, s[i]), s, ((1..(i - 1)) \ gone) \cup {i})
      BY <3>2, <3>4, OneMore
    <3>6. Append(w, s[i]) \in Seq(S)  BY <3>4
    <3> QED  BY <2>1, <2>3, <3>1, <3>3, <3>5, <3>6
  <2> QED  BY <2>2, <2>3
<1> HIDE DEF Good
<1>5. \A i \in 0..m : h[i] \in {1}
  <2>1. PICK Y : Y = {1}  OBVIOUS
  <2>2. h[0] \in Y  BY <1>1, <1>3, <2>1
  <2>3. ASSUME NEW i \in 1..m, h[i - 1] \in Y PROVE h[i] \in Y
    <3>1. i \in 0..m /\ i - 1 \in 0..m  BY <1>1
    <3>2. Good(i - 1)  BY <2>1, <2>3, <3>1
    <3> QED  BY <1>4, <2>1, <3>1, <3>2
  <2> HIDE DEF h, m
  <2>4. m \in Nat /\ h[0] \in Y /\ \A i \in 1..m : h[i - 1] \in Y => h[i] \in Y
    BY <1>1, <2>2, <2>3
  <2>5. \A i \in 0..m : h[i] \in Y  BY <2>4, CarriedThrough
  <2> QED  BY <2>1, <2>5
<1>6. ASSUME NEW i \in 0..m PROVE Good(i)  BY <1>5
<1> QED  BY <1>6 DEF Good

(* Without keeps the other places, each of them once.                      *)
LEMMA WithoutKeeps ==
  ASSUME NEW S, NEW s \in Seq(S), NEW gone
  PROVE  /\ Without(s, gone) \in Seq(S)
         /\ MadeOf(Without(s, gone), s, DOMAIN s \ gone)
<1>1. PICK kept : KeepsAll(kept, s, gone)  BY WithoutUnfolds
<1>2. Len(s) \in 0..Len(s) /\ DOMAIN s = 1..Len(s)  OBVIOUS
<1>3. \A i \in 0..Len(s) : kept[i] \in Seq(S) /\ MadeOf(kept[i], s, (1..i) \ gone)
  BY <1>1, KeptSoFar
<1> QED  BY <1>1, <1>2, <1>3 DEF KeepsAll

(* A place that is last and stays is last in what is kept.                 *)
LEMMA LastStays ==
  ASSUME NEW S, NEW s \in Seq(S), s # << >>, NEW gone, Len(s) \notin gone
  PROVE  /\ Without(s, gone) # << >>
         /\ Without(s, gone)[Len(Without(s, gone))] = s[Len(s)]
<1>1. Len(s) \in 1..Len(s) /\ Len(s) - 1 \in 0..Len(s) /\ s[Len(s)] \in S  OBVIOUS
<1>2. PICK kept : KeepsAll(kept, s, gone)  BY WithoutUnfolds
<1>3. PICK w : w = kept[Len(s) - 1]  OBVIOUS
<1>4. Without(s, gone) = Append(w, s[Len(s)])  BY <1>1, <1>2, <1>3 DEF KeepsAll
<1>5. \A i \in 0..Len(s) : kept[i] \in Seq(S)  BY <1>2, KeptSoFar
<1>6. w \in Seq(S)  BY <1>1, <1>3, <1>5
<1>7. PICK v : v = Append(w, s[Len(s)])  OBVIOUS
<1>8. v # << >> /\ v[Len(v)] = s[Len(s)]  BY <1>1, <1>6, <1>7
<1> QED  BY <1>4, <1>7, <1>8

(* What the places of w tell of w: its elements, that two of them are      *)
(* equal in Identity only if two of the places are, and how many there are. *)
LEMMA MadeElements ==
  ASSUME NEW S, NEW w \in Seq(S), NEW s, NEW P, MadeOf(w, s, P)
  PROVE  /\ \A k \in DOMAIN w : \E i \in P : w[k] = s[i]
         /\ \A i \in P : \E k \in DOMAIN w : w[k] = s[i]
<1>1. PICK p : Made(p, w, s, P)  BY DEF MadeOf
<1>2. DOMAIN w = 1..Len(w)  OBVIOUS
<1> QED  BY <1>1, <1>2 DEF Made

Distinct(s) == \A i, j \in DOMAIN s : Identity(s[i]) = Identity(s[j]) => i = j

LEMMA MadeDistinct ==
  ASSUME NEW S, NEW w \in Seq(S), NEW s, NEW P \in SUBSET DOMAIN s, MadeOf(w, s, P), Distinct(s)
  PROVE  Distinct(w)
<1>1. PICK p : Made(p, w, s, P)  BY DEF MadeOf
<1>2. DOMAIN w = 1..Len(w)  OBVIOUS
<1>3. ASSUME NEW j \in DOMAIN w, NEW k \in DOMAIN w, Identity(w[j]) = Identity(w[k])
      PROVE  j = k
  <2>1. p[j] \in DOMAIN s /\ p[k] \in DOMAIN s /\ w[j] = s[p[j]] /\ w[k] = s[p[k]]
    BY <1>1, <1>2 DEF Made
  <2>2. p[j] = p[k]  BY <1>3, <2>1 DEF Distinct
  <2> QED  BY <1>1, <1>2, <2>2 DEF Made
<1> QED  BY <1>3 DEF Distinct

LEMMA MadeCount ==
  ASSUME NEW S, NEW w \in Seq(S), NEW s, NEW P, MadeOf(w, s, P)
  PROVE  IsFiniteSet(P) /\ Cardinality(P) = Len(w)
<1>1. PICK p : Made(p, w, s, P)  BY DEF MadeOf
<1>2. Len(w) \in Nat  OBVIOUS
<1>3. IsFiniteSet(1..Len(w)) /\ Cardinality(1..Len(w)) = Len(w)  BY <1>2, FS_Interval
<1>4. p \in Bijection(1..Len(w), P)
  BY <1>1 DEF Made, Bijection, Injection, Surjection, IsInjective
<1>5. ExistsBijection(1..Len(w), P)  BY <1>4 DEF ExistsBijection
<1> QED  BY <1>3, <1>5, FS_Bijection

LEMMA PlacesCount ==
  ASSUME NEW S, NEW s \in Seq(S)
  PROVE  IsFiniteSet(DOMAIN s) /\ Cardinality(DOMAIN s) = Len(s)
<1>1. Len(s) \in Nat /\ DOMAIN s = 1..Len(s)  OBVIOUS
<1> QED  BY <1>1, FS_Interval

-----------------------------------------------------------------------------
(* Making room.                                                            *)

LEMMA LeastOf ==
  ASSUME NEW A \in SUBSET Nat, A # {}
  PROVE  \E m \in A : \A j \in A : m <= j
<1>1. PICK m \in A : \A j \in A : ~(<<j, m>> \in OpToRel(<, Nat))
  BY NatLessThanWellFounded, WFMin, Zenon
<1>2. ASSUME NEW j \in A PROVE m <= j
  <2>1. CASE j < m
    <3>1. <<j, m>> \in OpToRel(<, Nat)  BY <2>1 DEF OpToRel
    <3> QED  BY <1>1, <3>1
  <2> QED  BY <2>1
<1> QED  BY <1>2

(* Of any cookies one is the longest unused.                               *)
LEMMA LongestUnused ==
  ASSUME NEW s \in Seq(Cookie), NEW R \in SUBSET DOMAIN s, R # {}
  PROVE  \E m \in R : \A j \in R : ~LongerUnused(s, j, m)
<1>1. \A i \in DOMAIN s : s[i] \in Cookie /\ i \in Nat  OBVIOUS
<1>2. \A i \in DOMAIN s : s[i].last_access \in Nat  BY <1>1 DEF Cookie
<1> DEFINE A == {s[i].last_access : i \in R}
<1>3. PICK a \in A : \A b \in A : a <= b
  <2>1. A \in SUBSET Nat /\ A # {}  BY <1>2
  <2> HIDE DEF A
  <2> QED  BY <2>1, LeastOf
<1> DEFINE B == {i \in R : s[i].last_access = a}
<1>4. PICK m \in B : \A j \in B : m <= j
  <2>1. B \in SUBSET Nat /\ B # {}  BY <1>1, <1>3
  <2> HIDE DEF B
  <2> QED  BY <2>1, LeastOf
<1>5. ASSUME NEW j \in R, LongerUnused(s, j, m) PROVE FALSE
  <2>1. j \in Nat /\ m \in Nat /\ s[j].last_access \in Nat /\ s[m].last_access = a /\ a \in Nat
    BY <1>1, <1>2
  <2>2. a <= s[j].last_access  BY <1>3
  <2>3. s[j].last_access = a /\ j < m  BY <1>5, <2>1, <2>2 DEF LongerUnused
  <2> QED  BY <1>4, <2>1, <2>3
<1> QED  BY <1>5

(* What is left is no more than it may be; something goes when there is    *)
(* too much, and nothing goes when there is not.                           *)
LEMMA EvictedCount ==
  ASSUME NEW s \in Seq(Cookie), NEW from \in SUBSET DOMAIN s, NEW cap \in Nat
  PROVE  /\ IsFiniteSet(from) /\ Cardinality(from) \in Nat
         /\ Cardinality(from \ Evicted(s, from, cap)) <= cap
         /\ Cardinality(from) > cap => Evicted(s, from, cap) # {}
         /\ Evicted(s, from, cap) # {} => Cardinality(from) > cap
<1> DEFINE E == Evicted(s, from, cap)
           before(i) == {j \in from : LongerUnused(s, j, i)}
<1>1. IsFiniteSet(from)  BY PlacesCount, FS_Subset
<1>2. \A A \in SUBSET from : IsFiniteSet(A) /\ Cardinality(A) \in Nat
  BY <1>1, FS_Subset, FS_CardinalityType
<1>3. \A i \in from : i \in E <=> Cardinality(before(i)) < Cardinality(from) - cap
  BY DEF Evicted
<1>4. E \in SUBSET from  BY DEF Evicted
<1>5. \A i : before(i) \in SUBSET from  OBVIOUS
<1>6. ASSUME from \ E # {} PROVE Cardinality(from \ E) <= cap
  <2>1. PICK m \in from \ E : \A j \in from \ E : ~LongerUnused(s, j, m)
    <3>1. from \ E \in SUBSET DOMAIN s  OBVIOUS
    <3> HIDE DEF E
    <3> QED  BY <1>6, <3>1, LongestUnused
  <2>2. before(m) \in SUBSET E  BY <2>1
  <2>3. Cardinality(before(m)) <= Cardinality(E) /\ Cardinality(E) \in Nat
        /\ Cardinality(before(m)) \in Nat /\ Cardinality(from) \in Nat
    <3> HIDE DEF before, E
    <3> QED  BY <1>2, <1>4, <1>5, <2>2, FS_Subset
  <2>4. ~(Cardinality(before(m)) < Cardinality(from) - cap)
    <3> HIDE DEF before, E
    <3> QED  BY <1>3, <2>1
  <2>5. Cardinality(from \ E) = Cardinality(from) - Cardinality(E)
    <3>1. Cardinality(from \ E) = Cardinality(from) - Cardinality(from \cap E)
      <4> HIDE DEF E
      <4> QED  BY <1>1, FS_Difference
    <3>2. from \cap E = E  BY <1>4
    <3> QED  BY <3>1, <3>2
  <2> HIDE DEF before, E
  <2> QED  BY <2>3, <2>4, <2>5
<1>7. ASSUME from \ E = {} PROVE Cardinality(from \ E) <= cap
  <2>1. Cardinality({}) = 0 /\ 0 <= cap  BY FS_EmptySet
  <2>2. Cardinality(from \ E) = Cardinality({})  BY <1>7, Zenon
  <2> HIDE DEF E
  <2> QED  BY <2>1, <2>2
<1>8. ASSUME Cardinality(from) > cap PROVE E # {}
  <2>1. from # {} /\ Cardinality(from) \in Nat
    <3>1. Cardinality({}) = 0  BY FS_EmptySet
    <3> QED  BY <1>2, <1>8, <3>1
  <2>2. PICK m \in from : \A j \in from : ~LongerUnused(s, j, m)  BY <2>1, LongestUnused
  <2>3. before(m) = {}  BY <2>2
  <2>4. Cardinality(before(m)) = 0  BY <2>3, FS_EmptySet
  <2>5. Cardinality(before(m)) < Cardinality(from) - cap
    <3> HIDE DEF before
    <3> QED  BY <1>8, <2>1, <2>4
  <2> HIDE DEF E, before
  <2> QED  BY <1>3, <2>5
<1>9. ASSUME E # {} PROVE Cardinality(from) > cap
  <2>1. PICK i \in from : i \in E  BY <1>4, <1>9
  <2>2. Cardinality(before(i)) \in Nat /\ Cardinality(from) \in Nat
    <3> HIDE DEF before
    <3> QED  BY <1>2, <1>5
  <2>3. Cardinality(before(i)) < Cardinality(from) - cap
    <3> HIDE DEF before, E
    <3> QED  BY <1>3, <2>1
  <2> HIDE DEF before, E
  <2> QED  BY <2>2, <2>3
<1>10. Cardinality(from) \in Nat  BY <1>2
<1> HIDE DEF E, before
<1>11. /\ Cardinality(from \ E) <= cap
       /\ Cardinality(from) > cap => E # {}
       /\ E # {} => Cardinality(from) > cap
  BY <1>6, <1>7, <1>8, <1>9
<1> QED  BY <1>1, <1>10, <1>11 DEF E

(* w is some of the cookies of s, none of them twice.                      *)
Thinned(w, s) ==
    /\ w \in Seq(Cookie)
    /\ \A k \in DOMAIN w : \E i \in DOMAIN s : w[k] = s[i]
    /\ Distinct(s) => Distinct(w)
    /\ Len(w) <= Len(s)

LEMMA WithoutThins ==
  ASSUME NEW s \in Seq(Cookie), NEW gone
  PROVE  Thinned(Without(s, gone), s)
<1>1. PICK w : w = Without(s, gone)  OBVIOUS
<1>2. w \in Seq(Cookie) /\ MadeOf(w, s, DOMAIN s \ gone)  BY <1>1, WithoutKeeps
<1>3. DOMAIN s \ gone \in SUBSET DOMAIN s  OBVIOUS
<1>4. \A k \in DOMAIN w : \E i \in DOMAIN s \ gone : w[k] = s[i]  BY <1>2, MadeElements
<1>5. Distinct(s) => Distinct(w)  BY <1>2, <1>3, MadeDistinct
<1>6. Cardinality(DOMAIN s \ gone) = Len(w)  BY <1>2, MadeCount
<1>7. IsFiniteSet(DOMAIN s) /\ Cardinality(DOMAIN s) = Len(s)  BY PlacesCount
<1>8. Len(w) <= Len(s)  BY <1>3, <1>6, <1>7, FS_Subset
<1> QED  BY <1>1, <1>2, <1>4, <1>5, <1>8 DEF Thinned

LEMMA ThinnedTwice ==
  ASSUME NEW s \in Seq(Cookie), NEW w, NEW v, Thinned(w, s), Thinned(v, w)
  PROVE  Thinned(v, s)
<1>1. Len(v) \in Nat /\ Len(w) \in Nat /\ Len(s) \in Nat  BY DEF Thinned
<1>2. Len(v) <= Len(s)  BY <1>1 DEF Thinned
<1>3. \A k \in DOMAIN v : \E i \in DOMAIN s : v[k] = s[i]  BY DEF Thinned
<1> QED  BY <1>2, <1>3 DEF Thinned

(* A place outside gone is found again.                                    *)
LEMMA WithoutLeaves ==
  ASSUME NEW s \in Seq(Cookie), NEW gone, NEW i \in DOMAIN s, i \notin gone
  PROVE  \E k \in DOMAIN Without(s, gone) : Without(s, gone)[k] = s[i]
<1>1. PICK w : w = Without(s, gone)  OBVIOUS
<1>2. w \in Seq(Cookie) /\ MadeOf(w, s, DOMAIN s \ gone)  BY <1>1, WithoutKeeps
<1>3. i \in DOMAIN s \ gone  OBVIOUS
<1> QED  BY <1>1, <1>2, <1>3, MadeElements

LEMMA WithoutDrops ==
  ASSUME NEW s \in Seq(Cookie), NEW gone, NEW k \in DOMAIN Without(s, gone)
  PROVE  \E i \in DOMAIN s : i \notin gone /\ Without(s, gone)[k] = s[i]
<1>1. PICK w : w = Without(s, gone)  OBVIOUS
<1>2. w \in Seq(Cookie) /\ MadeOf(w, s, DOMAIN s \ gone) /\ k \in DOMAIN w
  BY <1>1, WithoutKeeps
<1>3. \E i \in DOMAIN s \ gone : w[k] = s[i]  BY <1>2, MadeElements
<1> QED  BY <1>1, <1>3

(* However full it was, the jar holds no more than it may.                 *)
LEMMA RoomIsMade ==
  ASSUME NEW s \in Seq(Cookie), per_domain \in Nat, Total \in Nat
  PROVE  Thinned(MakeRoom(s), s) /\ Len(MakeRoom(s)) <= Total
<1> DEFINE room == Without(s, Evicted(s, OfDomain(s, s[Len(s)].domain), per_domain))
           gone == Evicted(room, DOMAIN room, Total)
<1>1. MakeRoom(s) = Without(room, gone)  BY DEF MakeRoom
<1>2. Thinned(room, s)  BY WithoutThins
<1>3. room \in Seq(Cookie)  BY <1>2 DEF Thinned
<1>4. Thinned(Without(room, gone), room)  BY <1>3, WithoutThins
<1>5. MadeOf(Without(room, gone), room, DOMAIN room \ gone)
      /\ Without(room, gone) \in Seq(Cookie)
  BY <1>3, WithoutKeeps
<1>6. Cardinality(DOMAIN room \ gone) = Len(Without(room, gone))  BY <1>5, MadeCount
<1>7. Cardinality(DOMAIN room \ gone) <= Total
  <2> HIDE DEF room
  <2>1. DOMAIN room \in SUBSET DOMAIN room  OBVIOUS
  <2> QED  BY <1>3, <2>1, EvictedCount
<1> HIDE DEF room, gone
<1>8. Thinned(Without(room, gone), s)  BY <1>2, <1>4, ThinnedTwice
<1> QED  BY <1>1, <1>6, <1>7, <1>8

-----------------------------------------------------------------------------
(* What a store does, whatever it stores: the cookie it replaces is out,   *)
(* the new one is last, and if it lives what has expired goes and room is  *)
(* made.                                                                   *)
Displaces(rest) ==
    {ReadBack(o) : o \in {q \in Elements(rest) \ Elements(cookies') : Persistent(q) /\ Live(q)}}
Stored(c, rest, new, w) ==
    /\ rest = Without(cookies, Replaced(c))
    /\ rest \in Seq(Cookie) /\ Thinned(rest, cookies)
    /\ new \in Cookie
    /\ new = [c EXCEPT !.created = new.created]
    /\ w = Without(Append(rest, new), Expired(Append(rest, new)))
    /\ w \in Seq(Cookie) /\ Thinned(w, Append(rest, new))
    /\ \A k \in DOMAIN w : w[k] = new \/ \E i \in DOMAIN rest : w[k] = rest[i]
    /\ cookies' = IF Live(new) THEN MakeRoom(w) ELSE rest
    /\ kept_revision' = kept_revision
          + Bump(Touched({cookies[i] : i \in Replaced(c)}, new))
          + Bump(Live(new) /\ Expired(Append(rest, new)) # {})
    /\ revision' = revision + 1 + Bump(Live(new))
    /\ displaced' = displaced \cup Displaces(rest)

LEMMA AskedAreCookies ==
  ASSUME JarTypeOK, NEW h \in Hosts, NEW c \in Asked(h)
  PROVE  c \in Cookie
<1>1. PICK n \in Names, v \in Values, s \in Scopes(h), o \in BOOLEAN,
           e \in {Session, Past} \cup {now + l : l \in Lifetimes} :
        c = [name |-> n, value |-> v, domain |-> s[1], host_only |-> s[2], http_only |-> o,
             expires |-> e, created |-> now, last_access |-> now]
  BY DEF Asked
<1>2. s[1] \in Hosts /\ s[2] \in BOOLEAN
  <2>1. CASE s = <<h, TRUE>>  BY <2>1
  <2>2. ASSUME NEW d \in Hosts, s = <<d, FALSE>> PROVE s[1] \in Hosts /\ s[2] \in BOOLEAN
    BY <2>2
  <2> QED  BY <2>1, <2>2 DEF Scopes
<1>3. now \in Nat /\ e \in Int  BY JarAssumption DEF JarTypeOK, Session, Past
<1> QED  BY <1>1, <1>2, <1>3 DEF Cookie

LEMMA StoreStores ==
  ASSUME JarTypeOK, NEW c \in Cookie, Store(c)
  PROVE  \E rest, new, w : Stored(c, rest, new, w)
<1> DEFINE old == Replaced(c)
           age == IF old = {} THEN now ELSE cookies[CHOOSE i \in old : TRUE].created
<1>1. PICK rest : rest = Without(cookies, old)  OBVIOUS
<1>2. PICK new : new = [c EXCEPT !.created = age]  OBVIOUS
<1>3. PICK w : w = Without(Append(rest, new), Expired(Append(rest, new)))  OBVIOUS
<1>4. cookies \in Seq(Cookie) /\ \A i \in DOMAIN cookies : cookies[i] \in Cookie
  BY DEF JarTypeOK
<1>5. age \in Nat
  <2>1. now \in Nat  BY DEF JarTypeOK
  <2>2. old \in SUBSET DOMAIN cookies  BY DEF Replaced
  <2>3. \A i \in DOMAIN cookies : cookies[i].created \in Nat  BY <1>4 DEF Cookie
  <2> HIDE DEF old
  <2> QED  BY <2>1, <2>2, <2>3
<1>6. new \in Cookie /\ new = [c EXCEPT !.created = new.created]
  <2> HIDE DEF age
  <2>1. new \in Cookie /\ new.created = age  BY <1>2, <1>5 DEF Cookie
  <2> QED  BY <1>2, <2>1
<1>7. Thinned(rest, cookies) /\ rest \in Seq(Cookie)
  BY <1>1, <1>4, WithoutThins DEF Thinned
<1>8. PICK pushed : pushed = Append(rest, new)  OBVIOUS
<1>9. pushed \in Seq(Cookie)  BY <1>6, <1>7, <1>8
<1>10. Thinned(w, pushed)  BY <1>3, <1>8, <1>9, WithoutThins
<1>11. \A i \in DOMAIN pushed : pushed[i] = new \/ (i \in DOMAIN rest /\ pushed[i] = rest[i])
  BY <1>6, <1>7, <1>8
<1>12. w \in Seq(Cookie)
       /\ \A k \in DOMAIN w : w[k] = new \/ \E i \in DOMAIN rest : w[k] = rest[i]
  BY <1>10, <1>11 DEF Thinned
<1>13. cookies' = IF Live(new) THEN MakeRoom(w) ELSE rest
  BY <1>1, <1>2, <1>3, Zenon DEF Store
<1>14. kept_revision' = kept_revision
          + Bump(Touched({cookies[i] : i \in Replaced(c)}, new))
          + Bump(Live(new) /\ Expired(Append(rest, new)) # {})
  BY <1>1, <1>2, Zenon DEF Store
<1>16. revision' = revision + 1 + Bump(Live(new))  BY <1>2, Zenon DEF Store
<1>17. displaced' = displaced \cup Displaces(rest)  BY <1>1, Zenon DEF Store, Displaces
<1>15. Stored(c, rest, new, w)
  BY <1>1, <1>3, <1>6, <1>7, <1>8, <1>10, <1>12, <1>13, <1>14, <1>16, <1>17, Zenon DEF Stored
<1> QED  BY <1>15

(* What stays was there, or is the new cookie.                             *)
LEMMA StoreAddsOne ==
  ASSUME JarTypeOK, NEW c \in Cookie, NEW rest, NEW new, NEW w, Stored(c, rest, new, w)
  PROVE  /\ cookies' \in Seq(Cookie)
         /\ Thinned(cookies', IF Live(new) THEN w ELSE rest)
         /\ \A k \in DOMAIN cookies' :
               \/ Live(new) /\ cookies'[k] = new
               \/ \E i \in DOMAIN cookies : cookies'[k] = cookies[i]
<1>1. per_domain \in Nat /\ Total \in Nat  BY JarAssumption DEF JarTypeOK
<1>2. rest \in Seq(Cookie) /\ w \in Seq(Cookie) /\ cookies \in Seq(Cookie)
  BY DEF Stored, JarTypeOK
<1>3. \A i \in DOMAIN rest : \E j \in DOMAIN cookies : rest[i] = cookies[j]
  BY DEF Stored, Thinned
<1>4. CASE Live(new)
  <2>1. cookies' = MakeRoom(w)  BY <1>4 DEF Stored
  <2>2. Thinned(cookies', w)  BY <1>1, <1>2, <2>1, RoomIsMade
  <2>3. \A k \in DOMAIN w : w[k] = new \/ \E i \in DOMAIN rest : w[k] = rest[i]
    BY DEF Stored
  <2>4. cookies' \in Seq(Cookie) /\ \A k \in DOMAIN cookies' : \E i \in DOMAIN w : cookies'[k] = w[i]
    BY <2>2 DEF Thinned
  <2> QED  BY <1>3, <1>4, <2>2, <2>3, <2>4
<1>5. CASE ~Live(new)
  <2>1. cookies' = rest  BY <1>5 DEF Stored
  <2>2. Thinned(rest, rest)  BY <1>2 DEF Thinned
  <2> QED  BY <1>2, <1>3, <1>5, <2>1, <2>2
<1> QED  BY <1>4, <1>5

-----------------------------------------------------------------------------
(* The file.                                                               *)

LEMMA TextIsWhatLasts ==
  ASSUME cookies \in Seq(Cookie)
  PROVE  /\ ToText \in Seq(Cookie)
         /\ \A k \in DOMAIN ToText : \E i \in DOMAIN cookies :
               /\ Persistent(cookies[i]) /\ Live(cookies[i])
               /\ ToText[k] = ReadBack(cookies[i])
         /\ \A i \in DOMAIN cookies : Persistent(cookies[i]) /\ Live(cookies[i]) =>
               \E k \in DOMAIN ToText : ToText[k] = ReadBack(cookies[i])
         /\ Distinct(cookies) => Distinct(ToText)
         /\ Len(ToText) <= Len(cookies)
<1> DEFINE gone == Expired(cookies) \cup {i \in DOMAIN cookies : ~Persistent(cookies[i])}
<1>1. PICK kept : kept = Without(cookies, gone)  OBVIOUS
<1>2. PICK text : text = [i \in DOMAIN kept |-> ReadBack(kept[i])]  OBVIOUS
<1>3. ToText = text  BY <1>1, <1>2 DEF ToText
<1>4. Thinned(kept, cookies)  BY <1>1, WithoutThins
<1>5. kept \in Seq(Cookie) /\ \A i \in DOMAIN kept : kept[i] \in Cookie  BY <1>4 DEF Thinned
<1>6. \A x \in Cookie : ReadBack(x) \in Cookie /\ Identity(ReadBack(x)) = Identity(x)
  BY DEF Cookie, ReadBack, Identity
<1>7. /\ text \in Seq(Cookie) /\ DOMAIN text = DOMAIN kept /\ Len(text) = Len(kept)
      /\ \A k \in DOMAIN text : text[k] = ReadBack(kept[k])
  <2>1. \A k \in DOMAIN kept : ReadBack(kept[k]) \in Cookie  BY <1>5, <1>6
  <2>2. PICK n \in Nat : DOMAIN kept = 1..n /\ Len(kept) = n  BY <1>5
  <2>3. text \in [1..n -> Cookie]  BY <1>2, <2>1, <2>2
  <2> QED  BY <1>2, <2>2, <2>3
<1>8. ASSUME NEW k \in DOMAIN text
      PROVE  \E i \in DOMAIN cookies : /\ Persistent(cookies[i]) /\ Live(cookies[i])
                                        /\ text[k] = ReadBack(cookies[i])
  <2>1. k \in DOMAIN Without(cookies, gone)  BY <1>1, <1>7
  <2>2. PICK i \in DOMAIN cookies : i \notin gone /\ Without(cookies, gone)[k] = cookies[i]
    <3> HIDE DEF gone
    <3> QED  BY <2>1, WithoutDrops
  <2>3. Persistent(cookies[i]) /\ Live(cookies[i])  BY <2>2 DEF Expired
  <2> HIDE DEF gone
  <2> QED  BY <1>1, <1>7, <2>2, <2>3
<1>9. ASSUME NEW i \in DOMAIN cookies, Persistent(cookies[i]), Live(cookies[i])
      PROVE  \E k \in DOMAIN text : text[k] = ReadBack(cookies[i])
  <2>1. i \notin gone  BY <1>9 DEF Expired
  <2>2. PICK k \in DOMAIN Without(cookies, gone) : Without(cookies, gone)[k] = cookies[i]
    <3> HIDE DEF gone
    <3> QED  BY <2>1, WithoutLeaves
  <2> HIDE DEF gone
  <2> QED  BY <1>1, <1>7, <2>2
<1>10. ASSUME Distinct(cookies) PROVE Distinct(text)
  <2>1. Distinct(kept)  BY <1>4, <1>10 DEF Thinned
  <2>2. \A k \in DOMAIN text : Identity(text[k]) = Identity(kept[k])  BY <1>5, <1>6, <1>7
  <2> QED  BY <1>7, <2>1, <2>2 DEF Distinct
<1>11. Len(text) <= Len(cookies)  BY <1>4, <1>7 DEF Thinned
<1> QED  BY <1>3, <1>7, <1>8, <1>9, <1>10, <1>11

LEMMA FromTextReads ==
  ASSUME NEW text \in Seq(Cookie)
  PROVE  /\ Thinned(FromText(text), text)
         /\ \A i \in DOMAIN text : Live(text[i]) =>
               \E k \in DOMAIN FromText(text) : FromText(text)[k] = text[i]
<1>1. Thinned(FromText(text), text)  BY WithoutThins DEF FromText
<1>2. ASSUME NEW i \in DOMAIN text, Live(text[i])
      PROVE  \E k \in DOMAIN FromText(text) : FromText(text)[k] = text[i]
  <2>1. i \notin Expired(text)  BY <1>2 DEF Expired
  <2> QED  BY <2>1, WithoutLeaves DEF FromText
<1> QED  BY <1>1, <1>2

-----------------------------------------------------------------------------
(* Types.                                                                  *)

LEMMA Bumps == \A b : Bump(b) \in {0, 1}
  BY DEF Bump

LEMMA StoreTypes ==
  ASSUME JarTypeOK, NEW c \in Cookie, Store(c)
  PROVE  JarTypeOK'
<1>1. PICK rest, new, w : Stored(c, rest, new, w)  BY StoreStores
<1>2. cookies' \in Seq(Cookie)  BY <1>1, StoreAddsOne
<1>3. kept_revision' \in Nat
  <2>1. \E a \in {0, 1}, b \in {0, 1} : kept_revision' = kept_revision + a + b
    BY <1>1, Bumps DEF Stored
  <2> QED  BY <2>1 DEF JarTypeOK
<1>4. revision' \in Nat
  <2>1. \E a \in {0, 1} : revision' = revision + 1 + a
    BY <1>1, Bumps DEF Stored
  <2> QED  BY <2>1 DEF JarTypeOK
<1>5. UNCHANGED <<third_party, per_domain, now, disk, tsv, saved, running, starts>>
  BY DEF Store
<1>6. displaced' \subseteq Cookie
  <2>1. rest \in Seq(Cookie)  BY <1>1 DEF Stored
  <2>2. Elements(rest) \subseteq Cookie  BY <2>1 DEF Elements
  <2>3. \A o \in Cookie : ReadBack(o) \in Cookie  BY DEF Cookie, ReadBack
  <2>4. displaced \subseteq Cookie  BY DEF JarTypeOK
  <2> QED  BY <1>1, <2>2, <2>3, <2>4 DEF Stored, Displaces
<1> QED  BY <1>2, <1>3, <1>4, <1>5, <1>6 DEF JarTypeOK, Persistent

LEMMA RemoveThins ==
  ASSUME JarTypeOK, NEW gone, RemoveThose(gone)
  PROVE  /\ Thinned(cookies', cookies)
         /\ \E b \in {0, 1} : kept_revision' = kept_revision + b
<1>1. cookies' = Without(cookies, gone)  BY DEF RemoveThose
<1>2. Thinned(cookies', cookies)  BY <1>1, WithoutThins DEF JarTypeOK
<1>3. PICK b \in {0, 1} : b = Bump(\E i \in gone : Persistent(cookies[i]))  BY Bumps
<1>4. kept_revision' = kept_revision + b  BY <1>3, Zenon DEF RemoveThose
<1> QED  BY <1>2, <1>4

LEMMA RemoveTypes ==
  ASSUME JarTypeOK, NEW gone, RemoveThose(gone)
  PROVE  JarTypeOK'
<1>1. cookies' \in Seq(Cookie) /\ \E b \in {0, 1} : kept_revision' = kept_revision + b
  BY RemoveThins DEF Thinned
<1>2. /\ revision' = revision + 1
      /\ UNCHANGED <<third_party, per_domain, now, disk, tsv, saved, running, starts, displaced>>
  BY DEF RemoveThose
<1> QED  BY <1>1, <1>2 DEF JarTypeOK, Persistent

(* A request changes nothing of a cookie but when it was last used.        *)
LEMMA HeaderUses ==
  ASSUME JarTypeOK, NEW h \in Hosts, NEW x \in BOOLEAN, HeaderFor(h, x)
  PROVE  /\ cookies' \in Seq(Cookie) /\ DOMAIN cookies' = DOMAIN cookies
         /\ Len(cookies') = Len(cookies)
         /\ \A i \in DOMAIN cookies :
               \E u \in Nat : cookies'[i] = [cookies[i] EXCEPT !.last_access = u]
<1>0. PICK sent \in SUBSET {i \in DOMAIN cookies : Live(cookies[i]) /\ Reaches(cookies[i], h)} :
        cookies' = [i \in DOMAIN cookies |->
                       IF i \in sent THEN [cookies[i] EXCEPT !.last_access = now] ELSE cookies[i]]
  BY DEF HeaderFor
<1> DEFINE used(i) == IF i \in sent THEN [cookies[i] EXCEPT !.last_access = now] ELSE cookies[i]
<1>1. cookies' = [i \in DOMAIN cookies |-> used(i)]  BY <1>0
<1>2. cookies \in Seq(Cookie) /\ now \in Nat  BY DEF JarTypeOK
<1>3. PICK n \in Nat : DOMAIN cookies = 1..n /\ Len(cookies) = n
                       /\ \A i \in 1..n : cookies[i] \in Cookie
  BY <1>2
<1>4. ASSUME NEW i \in DOMAIN cookies
      PROVE  used(i) \in Cookie /\ \E u \in Nat : used(i) = [cookies[i] EXCEPT !.last_access = u]
  <2>1. PICK y : y = cookies[i]  OBVIOUS
  <2>2. y \in Cookie  BY <1>3, <2>1
  <2>3. y = [y EXCEPT !.last_access = y.last_access] /\ y.last_access \in Nat
    BY <2>2 DEF Cookie
  <2>4. [y EXCEPT !.last_access = now] \in Cookie  BY <1>2, <2>2 DEF Cookie
  <2>5. used(i) = [y EXCEPT !.last_access = now] \/ used(i) = y  BY <2>1
  <2> HIDE DEF used
  <2> QED  BY <1>2, <2>1, <2>2, <2>3, <2>4, <2>5
<1> HIDE DEF used
<1>5. cookies' \in [1..n -> Cookie]  BY <1>1, <1>3, <1>4
<1>6. cookies' \in Seq(Cookie) /\ DOMAIN cookies' = 1..n /\ Len(cookies') = n  BY <1>5
<1> QED  BY <1>1, <1>3, <1>4, <1>6

(* A new process: what it reads, and what it took over from a plain file.  *)
Begun(read, legacy) ==
    /\ read = FromText(disk) /\ Thinned(read, disk)
    /\ legacy \in Seq(Cookie)
    /\ \A i \in DOMAIN legacy : Persistent(legacy[i]) /\ ReadBack(legacy[i]) = legacy[i]
    /\ ~tsv => legacy = << >>
    /\ cookies' = read \o legacy
    /\ kept_revision' = Len(cookies')
    /\ \/ saved' = Len(read) /\ UNCHANGED <<disk, tsv>>
       \/ /\ tsv /\ saved' = Len(cookies')
          /\ disk' = IF legacy = << >> THEN disk ELSE cookies'

LEMMA StartBegins ==
  ASSUME JarTypeOK, Start
  PROVE  \E read, legacy : Begun(read, legacy)
<1>1. PICK read : read = FromText(disk)  OBVIOUS
<1>2. PICK legacy : legacy = IF tsv THEN FromText(Legacy) ELSE << >>  OBVIOUS
<1>3. Thinned(read, disk)  BY <1>1, FromTextReads DEF JarTypeOK
<1>4. Thinned(FromText(Legacy), Legacy)  BY LegacyAssumption, FromTextReads
<1>5. legacy \in Seq(Cookie)
      /\ \A i \in DOMAIN legacy : Persistent(legacy[i]) /\ ReadBack(legacy[i]) = legacy[i]
  <2>1. CASE tsv
    <3>1. legacy \in Seq(Cookie) /\ \A i \in DOMAIN legacy : \E j \in DOMAIN Legacy : legacy[i] = Legacy[j]
      BY <1>2, <1>4, <2>1 DEF Thinned
    <3> QED  BY <3>1, LegacyAssumption
  <2>2. CASE ~tsv  BY <1>2, <2>2
  <2> QED  BY <2>1, <2>2
<1>6. /\ cookies' = read \o legacy /\ kept_revision' = Len(cookies')
      /\ \/ saved' = Len(read) /\ UNCHANGED <<disk, tsv>>
         \/ /\ tsv /\ saved' = Len(cookies')
            /\ disk' = IF legacy = << >> THEN disk ELSE cookies'
  BY <1>1, <1>2, Zenon DEF Start
<1>7. ~tsv => legacy = << >>  BY <1>2
<1> QED  BY <1>1, <1>3, <1>5, <1>6, <1>7, Zenon DEF Begun

LEMMA JoinedElements ==
  ASSUME NEW s \in Seq(Cookie), NEW z \in Seq(Cookie)
  PROVE  /\ s \o z \in Seq(Cookie) /\ Len(s \o z) = Len(s) + Len(z)
         /\ \A k \in DOMAIN (s \o z) :
               \/ \E i \in DOMAIN s : (s \o z)[k] = s[i]
               \/ \E i \in DOMAIN z : (s \o z)[k] = z[i]
         /\ z = << >> => s \o z = s
<1>1. PICK y : y = s \o z  OBVIOUS
<1>2. y \in Seq(Cookie) /\ Len(y) = Len(s) + Len(z) /\ DOMAIN y = 1..(Len(s) + Len(z))  BY <1>1
<1>3. ASSUME NEW k \in DOMAIN y
      PROVE  (\E i \in DOMAIN s : y[k] = s[i]) \/ (\E i \in DOMAIN z : y[k] = z[i])
  <2>1. Len(s) \in Nat /\ Len(z) \in Nat /\ DOMAIN s = 1..Len(s) /\ DOMAIN z = 1..Len(z)
    OBVIOUS
  <2>2. CASE k <= Len(s)
    <3>1. k \in DOMAIN s /\ y[k] = s[k]  BY <1>1, <1>2, <2>1, <2>2
    <3> QED  BY <3>1
  <2>3. CASE ~(k <= Len(s))
    <3>1. k - Len(s) \in DOMAIN z /\ y[k] = z[k - Len(s)]  BY <1>1, <1>2, <2>1, <2>3
    <3> QED  BY <3>1
  <2> QED  BY <2>2, <2>3
<1>4. z = << >> => y = s  BY <1>1
<1> QED  BY <1>1, <1>2, <1>3, <1>4

LEMMA StartTypes ==
  ASSUME JarTypeOK, Start
  PROVE  JarTypeOK'
<1>1. PICK read, legacy : Begun(read, legacy)  BY StartBegins
<1>2. /\ read \in Seq(Cookie) /\ legacy \in Seq(Cookie) /\ Thinned(read, disk)
      /\ cookies' = read \o legacy /\ kept_revision' = Len(cookies')
  BY <1>1 DEF Begun, Thinned
<1>3. cookies' \in Seq(Cookie)
      /\ \A k \in DOMAIN cookies' : \/ \E i \in DOMAIN read : cookies'[k] = read[i]
                                    \/ \E i \in DOMAIN legacy : cookies'[k] = legacy[i]
  BY <1>2, JoinedElements
<1>4. kept_revision' \in Nat /\ saved' \in Nat  BY <1>1, <1>2, <1>3 DEF Begun
<1>5. /\ running' = TRUE /\ third_party' = TRUE /\ revision' = Len(cookies') /\ displaced' = {}
      /\ UNCHANGED <<per_domain, now, starts>>
  BY DEF Start
<1>6. tsv' \in BOOLEAN  BY DEF Start, JarTypeOK
<1>7. disk' = disk \/ disk' = cookies'  BY <1>1 DEF Begun
<1>8. \A k \in DOMAIN cookies' : Persistent(cookies'[k])
  <2>1. \A i \in DOMAIN read : Persistent(read[i])  BY <1>2 DEF Thinned, JarTypeOK
  <2>2. \A i \in DOMAIN legacy : Persistent(legacy[i])  BY <1>1 DEF Begun
  <2> QED  BY <1>3, <2>1, <2>2
<1>9. disk' \in Seq(Cookie) /\ \A i \in DOMAIN disk' : Persistent(disk'[i])
  BY <1>3, <1>7, <1>8 DEF JarTypeOK
<1>10. disk' \in Seq(Cookie) /\ (\A i \in DOMAIN disk : Persistent(disk[i]))'
  BY <1>9 DEF Persistent
<1> QED  BY <1>3, <1>4, <1>5, <1>6, <1>10 DEF JarTypeOK

(* Every step but a store, a request, a removal and a start.               *)
LEMMA OtherTypes ==
  ASSUME JarTypeOK, SetAcceptsThirdParty \/ Save \/ Stop \/ Tick \/ UNCHANGED storeVars
  PROVE  JarTypeOK'
<1> USE DEF JarTypeOK, Persistent, jarVars, storeVars
<1>1. CASE SetAcceptsThirdParty
  <2>1. third_party' \in BOOLEAN  BY <1>1, Zenon DEF SetAcceptsThirdParty
  <2> QED  BY <1>1, <2>1 DEF SetAcceptsThirdParty
<1>2. CASE Save
  <2>1. disk' = ToText /\ ToText \in Seq(Cookie)  BY <1>2, TextIsWhatLasts DEF Save
  <2>2. \A k \in DOMAIN disk' : disk'[k].expires # Session
    <3>1. \A c \in Cookie : ReadBack(c).expires = c.expires  BY DEF Cookie, ReadBack
    <3>2. cookies \in Seq(Cookie) /\ \A i \in DOMAIN cookies : cookies[i] \in Cookie
      OBVIOUS
    <3>3. \A k \in DOMAIN ToText : \E i \in DOMAIN cookies :
             Persistent(cookies[i]) /\ ToText[k] = ReadBack(cookies[i])
      BY <3>2, TextIsWhatLasts
    <3> HIDE DEF JarTypeOK, storeVars
    <3> QED  BY <2>1, <3>1, <3>2, <3>3 DEF Persistent
  <2> QED  BY <1>2, <2>1, <2>2 DEF Save
<1>3. CASE Stop
  <2>1. starts' \in 0..MaxStarts  BY <1>3, JarAssumption DEF Stop
  <2>2. running' \in BOOLEAN  BY <1>3, Zenon DEF Stop
  <2> QED  BY <1>3, <2>1, <2>2 DEF Stop
<1>4. CASE Tick  BY <1>4, JarAssumption DEF Tick
<1>5. CASE UNCHANGED storeVars  BY <1>5
<1> QED  BY <1>1, <1>2, <1>3, <1>4, <1>5

(* The kinds of step.                                                      *)
LEMMA JarSteps ==
  ASSUME JarTypeOK, [JarNext]_storeVars
  PROVE  \/ \E c \in Cookie : Store(c)
         \/ \E h \in Hosts, x \in BOOLEAN : HeaderFor(h, x)
         \/ \E gone : RemoveThose(gone)
         \/ Start
         \/ SetAcceptsThirdParty \/ Save \/ Stop \/ Tick \/ UNCHANGED storeVars
<1>1. ASSUME NEW h \in Hosts, NEW x \in BOOLEAN, NEW c \in Asked(h), SetIn(c, x)
      PROVE  \E d \in Cookie : Store(d)
  BY <1>1, AskedAreCookies DEF SetIn
<1>2. ASSUME NEW h \in Hosts, NEW c \in Asked(h), SetFromScript(c, h)
      PROVE  \E d \in Cookie : Store(d)
  BY <1>2, AskedAreCookies DEF SetFromScript
<1>3. ASSUME NEW s, ClearSite(s) PROVE \E gone : RemoveThose(gone)  BY <1>3, Zenon DEF ClearSite
<1>4. ASSUME NEW n, Remove(n) PROVE \E gone : RemoveThose(gone)  BY <1>4, Zenon DEF Remove
<1> QED  BY <1>1, <1>2, <1>3, <1>4, Zenon DEF JarNext

LEMMA JarTypeStep ==
  ASSUME JarTypeOK, [JarNext]_storeVars
  PROVE  JarTypeOK'
<1>1. ASSUME NEW h \in Hosts, NEW x \in BOOLEAN, HeaderFor(h, x) PROVE JarTypeOK'
  <2>1. cookies' \in Seq(Cookie)  BY <1>1, HeaderUses
  <2>2. UNCHANGED <<kept_revision, revision, third_party, per_domain, now, disk, tsv,
                    saved, running, starts, displaced>>
    BY <1>1 DEF HeaderFor
  <2> QED  BY <2>1, <2>2 DEF JarTypeOK, Persistent
<1> QED  BY <1>1, JarSteps, StoreTypes, RemoveTypes, StartTypes, OtherTypes

LEMMA JarTypeInit == JarInit => JarTypeOK
<1> SUFFICES ASSUME JarInit PROVE JarTypeOK  OBVIOUS
<1>1. tsv \in BOOLEAN  BY Zenon DEF JarInit
<1>2. third_party \in BOOLEAN /\ running \in BOOLEAN  BY Zenon DEF JarInit
<1>3. now \in 1..MaxTime /\ starts \in 0..MaxStarts  BY JarAssumption DEF JarInit
<1>4. cookies = << >> /\ disk = << >> /\ << >> \in Seq(Cookie) /\ DOMAIN << >> = {}
  BY DEF JarInit
<1> QED  BY <1>1, <1>2, <1>3, <1>4 DEF JarInit, JarTypeOK

(* The jar, its revisions, the file and the clock keep their types.        *)
THEOREM JarTypeCorrect == JarSpec => []JarTypeOK
<1> QED  BY JarTypeInit, JarTypeStep, PTL DEF JarSpec

-----------------------------------------------------------------------------
(* Nothing kept is unsaved. The file need not hold what the jar holds now, *)
(* only what lasts of it, and only while the revisions agree: they agree   *)
(* again only by a save, since neither ever goes back in a process.        *)

OnFile(c) == \E j \in DOMAIN disk : disk[j] = ReadBack(c)
TextInv ==
    /\ saved <= kept_revision
    /\ \A j \in DOMAIN disk : ReadBack(disk[j]) = disk[j]
    /\ kept_revision = saved =>
          \A i \in DOMAIN cookies : Persistent(cookies[i]) /\ Live(cookies[i]) => OnFile(cookies[i])
SavedInv == JarTypeOK /\ TextInv

(* A step that leaves the file and the clock alone, and after which every  *)
(* cookie that lasts was there before, or the revision has moved.          *)
LEMMA FileKept ==
  ASSUME SavedInv, JarTypeOK', UNCHANGED <<disk, saved, now>>,
         \/ /\ kept_revision' = kept_revision
            /\ \A k \in DOMAIN cookies' :
                  Persistent(cookies'[k]) /\ Live(cookies'[k]) =>
                     \E i \in DOMAIN cookies : /\ cookies[i].expires = cookies'[k].expires
                                               /\ ReadBack(cookies[i]) = ReadBack(cookies'[k])
         \/ kept_revision' > kept_revision
  PROVE  TextInv'
<1>1. saved' <= kept_revision'  BY DEF SavedInv, TextInv, JarTypeOK
<1>2. (\A j \in DOMAIN disk : ReadBack(disk[j]) = disk[j])'
  BY DEF SavedInv, TextInv, ReadBack
<1>3. ASSUME kept_revision' = saved', NEW k \in DOMAIN cookies', Persistent(cookies'[k]),
             Live(cookies'[k])
      PROVE  \E j \in DOMAIN disk' : disk'[j] = ReadBack(cookies'[k])
  <2>1. kept_revision' = kept_revision /\ kept_revision = saved
    BY <1>3 DEF SavedInv, TextInv, JarTypeOK
  <2>2. PICK i \in DOMAIN cookies : /\ cookies[i].expires = cookies'[k].expires
                                    /\ ReadBack(cookies[i]) = ReadBack(cookies'[k])
    BY <1>3, <2>1 DEF JarTypeOK
  <2>3. Persistent(cookies[i]) /\ Live(cookies[i])  BY <1>3, <2>2 DEF Persistent, Live
  <2>4. OnFile(cookies[i])  BY <2>1, <2>3 DEF SavedInv, TextInv
  <2> QED  BY <2>2, <2>4 DEF OnFile
<1>4. (kept_revision = saved =>
          \A i \in DOMAIN cookies : Persistent(cookies[i]) /\ Live(cookies[i]) => OnFile(cookies[i]))'
  BY <1>3 DEF Persistent, Live, OnFile, ReadBack
<1> QED  BY <1>1, <1>2, <1>4 DEF TextInv

LEMMA StoreKeepsFile ==
  ASSUME SavedInv, JarTypeOK', NEW c \in Cookie, Store(c)
  PROVE  TextInv'
<1>0. JarTypeOK  BY DEF SavedInv
<1>1. PICK rest, new, w : Stored(c, rest, new, w)  BY <1>0, StoreStores
<1>2. UNCHANGED <<disk, saved, now>>  BY DEF Store
<1>3. PICK a \in {0, 1} : a = Bump(Touched({cookies[i] : i \in Replaced(c)}, new))  BY Bumps
<1>4. PICK b \in {0, 1} : b = Bump(Live(new) /\ Expired(Append(rest, new)) # {})  BY Bumps
<1>5. kept_revision' = kept_revision + a + b /\ kept_revision \in Nat
  BY <1>0, <1>1, <1>3, <1>4 DEF Stored, JarTypeOK
<1>6. CASE a = 0 /\ b = 0
  <2>1. ~Touched({cookies[i] : i \in Replaced(c)}, new)  BY <1>3, <1>6 DEF Bump
  <2>2. ~(Live(new) /\ Persistent(new))  BY <2>1 DEF Touched
  <2>3. \A k \in DOMAIN cookies' : Persistent(cookies'[k]) /\ Live(cookies'[k]) =>
           \E i \in DOMAIN cookies : cookies'[k] = cookies[i]
    BY <1>0, <1>1, <2>2, StoreAddsOne
  <2> QED  BY <1>2, <1>5, <1>6, <2>3, FileKept
<1>7. CASE ~(a = 0 /\ b = 0)
  <2>1. kept_revision' > kept_revision  BY <1>5, <1>7
  <2> QED  BY <1>2, <2>1, FileKept
<1> QED  BY <1>6, <1>7

LEMMA RemoveKeepsFile ==
  ASSUME SavedInv, JarTypeOK', NEW gone, RemoveThose(gone)
  PROVE  TextInv'
<1>0. JarTypeOK  BY DEF SavedInv
<1>1. UNCHANGED <<disk, saved, now>>  BY DEF RemoveThose
<1>2. \A k \in DOMAIN cookies' : \E i \in DOMAIN cookies : cookies'[k] = cookies[i]
  BY <1>0, RemoveThins DEF Thinned
<1>3. kept_revision' = kept_revision \/ kept_revision' > kept_revision
  BY <1>0, RemoveThins DEF JarTypeOK
<1> QED  BY <1>1, <1>2, <1>3, FileKept

LEMMA HeaderKeepsFile ==
  ASSUME SavedInv, JarTypeOK', NEW h \in Hosts, NEW x \in BOOLEAN, HeaderFor(h, x)
  PROVE  TextInv'
<1>0. JarTypeOK  BY DEF SavedInv
<1>1. UNCHANGED <<disk, saved, now, kept_revision>>  BY DEF HeaderFor
<1>2. \A y \in Cookie : \A u \in Nat :
         /\ [y EXCEPT !.last_access = u].expires = y.expires
         /\ ReadBack([y EXCEPT !.last_access = u]) = ReadBack(y)
  BY DEF Cookie, ReadBack
<1>3. \A i \in DOMAIN cookies : cookies[i] \in Cookie  BY <1>0 DEF JarTypeOK
<1>4. \A k \in DOMAIN cookies' : \E i \in DOMAIN cookies :
         /\ cookies[i].expires = cookies'[k].expires
         /\ ReadBack(cookies[i]) = ReadBack(cookies'[k])
  <2> SUFFICES ASSUME NEW k \in DOMAIN cookies'
               PROVE  /\ k \in DOMAIN cookies
                      /\ cookies[k].expires = cookies'[k].expires
                      /\ ReadBack(cookies[k]) = ReadBack(cookies'[k])
    OBVIOUS
  <2>1. k \in DOMAIN cookies  BY <1>0, HeaderUses
  <2>2. PICK u \in Nat : cookies'[k] = [cookies[k] EXCEPT !.last_access = u]
    BY <1>0, <2>1, HeaderUses
  <2>3. cookies[k] \in Cookie  BY <1>3, <2>1
  <2> QED  BY <1>2, <2>1, <2>2, <2>3
<1> QED  BY <1>1, <1>4, FileKept

LEMMA SaveKeepsFile ==
  ASSUME SavedInv, JarTypeOK', Save
  PROVE  TextInv'
<1>1. /\ disk' = ToText /\ saved' = kept_revision /\ kept_revision' = kept_revision
      /\ cookies' = cookies /\ now' = now
  BY DEF Save, jarVars
<1>2. cookies \in Seq(Cookie) /\ \A i \in DOMAIN cookies : cookies[i] \in Cookie
  BY DEF SavedInv, JarTypeOK
<1>3. \A c \in Cookie : ReadBack(ReadBack(c)) = ReadBack(c)  BY DEF Cookie, ReadBack
<1>4. \A k \in DOMAIN ToText : \E i \in DOMAIN cookies :
         Persistent(cookies[i]) /\ ToText[k] = ReadBack(cookies[i])
  BY <1>2, TextIsWhatLasts
<1>5. \A k \in DOMAIN disk' : ReadBack(disk'[k]) = disk'[k]  BY <1>1, <1>2, <1>3, <1>4
<1>6. (\A j \in DOMAIN disk : ReadBack(disk[j]) = disk[j])'  BY <1>5 DEF ReadBack
<1>7. \A i \in DOMAIN cookies : Persistent(cookies[i]) /\ Live(cookies[i]) =>
         \E k \in DOMAIN disk' : disk'[k] = ReadBack(cookies[i])
  BY <1>1, <1>2, TextIsWhatLasts
<1>8. (\A i \in DOMAIN cookies : Persistent(cookies[i]) /\ Live(cookies[i]) => OnFile(cookies[i]))'
  BY <1>1, <1>7 DEF Persistent, Live, OnFile, ReadBack
<1>9. saved' <= kept_revision'  BY <1>1 DEF SavedInv, JarTypeOK
<1> QED  BY <1>6, <1>8, <1>9 DEF TextInv

LEMMA StartKeepsFile ==
  ASSUME SavedInv, JarTypeOK', Start
  PROVE  TextInv'
<1>0. JarTypeOK /\ disk \in Seq(Cookie)  BY DEF SavedInv, JarTypeOK
<1>1. PICK read, legacy : Begun(read, legacy)  BY <1>0, StartBegins
<1>2. /\ read \in Seq(Cookie) /\ legacy \in Seq(Cookie)
      /\ \A k \in DOMAIN read : \E i \in DOMAIN disk : read[k] = disk[i]
      /\ \A k \in DOMAIN legacy : ReadBack(legacy[k]) = legacy[k]
      /\ cookies' = read \o legacy /\ kept_revision' = Len(cookies')
  BY <1>1 DEF Begun, Thinned
<1>3. /\ cookies' \in Seq(Cookie) /\ Len(cookies') = Len(read) + Len(legacy)
      /\ \A k \in DOMAIN cookies' : \/ \E i \in DOMAIN read : cookies'[k] = read[i]
                                    \/ \E i \in DOMAIN legacy : cookies'[k] = legacy[i]
      /\ legacy = << >> => cookies' = read
  BY <1>2, JoinedElements
<1>4. Len(read) \in Nat /\ Len(legacy) \in Nat /\ (Len(legacy) = 0 => legacy = << >>)
  BY <1>2
<1>5. \A i \in DOMAIN disk : ReadBack(disk[i]) = disk[i]  BY DEF SavedInv, TextInv
<1>6. \A k \in DOMAIN cookies' : ReadBack(cookies'[k]) = cookies'[k]
  <2>1. \A k \in DOMAIN read : ReadBack(read[k]) = read[k]  BY <1>2, <1>5
  <2> QED  BY <1>2, <1>3, <2>1
<1>7. CASE legacy = << >>
  <2>1. disk' = disk /\ cookies' = read  BY <1>1, <1>3, <1>7 DEF Begun
  <2>2. saved' <= kept_revision'  BY <1>1, <1>2, <1>3, <1>4, <1>7 DEF Begun
  <2>3. \A k \in DOMAIN cookies' : \E j \in DOMAIN disk' : disk'[j] = ReadBack(cookies'[k])
    BY <1>2, <1>6, <2>1
  <2>4. \A j \in DOMAIN disk' : ReadBack(disk'[j]) = disk'[j]  BY <1>5, <2>1
  <2> QED  BY <2>2, <2>3, <2>4 DEF TextInv, OnFile, ReadBack
<1>8. CASE legacy # << >> /\ saved' = Len(read) /\ UNCHANGED <<disk, tsv>>
  <2>1. kept_revision' > saved'  BY <1>2, <1>3, <1>4, <1>8
  <2>2. saved' <= kept_revision' /\ kept_revision' # saved'  BY <1>2, <1>3, <1>4, <1>8
  <2>3. \A j \in DOMAIN disk' : ReadBack(disk'[j]) = disk'[j]  BY <1>5, <1>8
  <2> QED  BY <2>2, <2>3 DEF TextInv, ReadBack
<1>9. CASE legacy # << >> /\ saved' = Len(cookies') /\ disk' = cookies'
  <2>1. saved' <= kept_revision'  BY <1>2, <1>3, <1>4, <1>9
  <2>2. \A j \in DOMAIN disk' : ReadBack(disk'[j]) = disk'[j]  BY <1>6, <1>9
  <2>3. \A k \in DOMAIN cookies' : \E j \in DOMAIN disk' : disk'[j] = ReadBack(cookies'[k])
    BY <1>6, <1>9
  <2> QED  BY <2>1, <2>2, <2>3 DEF TextInv, OnFile, ReadBack
<1> QED  BY <1>1, <1>7, <1>8, <1>9 DEF Begun

LEMMA OthersKeepFile ==
  ASSUME SavedInv, JarTypeOK', SetAcceptsThirdParty \/ Stop \/ UNCHANGED storeVars
  PROVE  TextInv'
<1>1. UNCHANGED <<cookies, kept_revision, disk, saved, now>>
  BY DEF SetAcceptsThirdParty, Stop, storeVars, jarVars
<1> QED  BY <1>1, FileKept

(* Time only takes cookies from those that are to last.                    *)
LEMMA TickKeepsFile ==
  ASSUME SavedInv, JarTypeOK', Tick
  PROVE  TextInv'
<1>1. UNCHANGED <<cookies, kept_revision, disk, saved>> /\ now' = now + 1
  BY DEF Tick, jarVars
<1>2. \A i \in DOMAIN cookies : cookies[i] \in Cookie  BY DEF SavedInv, JarTypeOK
<1>3. ASSUME NEW i \in DOMAIN cookies, cookies[i].expires > now + 1 \/ cookies[i].expires = Session
      PROVE  Live(cookies[i])
  <2>1. cookies[i].expires \in Int /\ now \in Nat  BY <1>2 DEF Cookie, SavedInv, JarTypeOK
  <2> QED  BY <1>3, <2>1 DEF Live
<1>4. (kept_revision = saved =>
          \A i \in DOMAIN cookies : Persistent(cookies[i]) /\ Live(cookies[i]) => OnFile(cookies[i]))'
  BY <1>1, <1>3 DEF SavedInv, TextInv, Persistent, Live, OnFile, ReadBack
<1> QED  BY <1>1, <1>4 DEF SavedInv, TextInv, ReadBack

LEMMA SavedStep ==
  ASSUME SavedInv, [JarNext]_storeVars
  PROVE  SavedInv'
<1>1. JarTypeOK /\ JarTypeOK'  BY JarTypeStep DEF SavedInv
<1>2. TextInv'
  BY <1>1, JarSteps, StoreKeepsFile, HeaderKeepsFile, RemoveKeepsFile, StartKeepsFile,
     SaveKeepsFile, OthersKeepFile, TickKeepsFile
<1> QED  BY <1>1, <1>2 DEF SavedInv

LEMMA SavedInit == JarInit => SavedInv
<1> SUFFICES ASSUME JarInit PROVE SavedInv  OBVIOUS
<1>1. TextInv  BY DEF JarInit, TextInv
<1> QED  BY <1>1, JarTypeInit DEF SavedInv

LEMMA SavedTells == SavedInv => NothingKeptIsUnsaved
<1> SUFFICES ASSUME SavedInv, kept_revision = saved, NEW x \in WouldWrite PROVE x \in OnDisk
  BY DEF NothingKeptIsUnsaved
<1>1. cookies \in Seq(Cookie) /\ disk \in Seq(Cookie) /\ \A i \in DOMAIN cookies : cookies[i] \in Cookie
  BY DEF SavedInv, JarTypeOK
<1>2. PICK i \in DOMAIN cookies :
        Persistent(cookies[i]) /\ Live(cookies[i]) /\ x = ReadBack(cookies[i])
  BY <1>1, TextIsWhatLasts DEF WouldWrite, Elements
<1>3. PICK j \in DOMAIN disk : disk[j] = x  BY <1>2 DEF SavedInv, TextInv, OnFile
<1>4. Live(disk[j])
  <2>1. disk[j].expires = cookies[i].expires  BY <1>1, <1>2, <1>3 DEF ReadBack, Cookie
  <2> QED  BY <1>2, <2>1 DEF Live
<1>5. PICK k \in DOMAIN FromText(disk) : FromText(disk)[k] = disk[j]
  BY <1>1, <1>4, FromTextReads
<1> QED  BY <1>3, <1>5 DEF OnDisk, Elements

(* While the revision says the file is up to date, every cookie that       *)
(* outlives the process would be read back from it as it is now: no path   *)
(* through a store, a removal, an eviction that follows a store, a request *)
(* or a take-over of a plain file changes such a cookie unnoticed.         *)
THEOREM NothingKeptIsLost == JarSpec => []NothingKeptIsUnsaved
<1>1. JarInit => SavedInv  BY SavedInit
<1>2. SavedInv /\ [JarNext]_storeVars => SavedInv'  BY SavedStep
<1>3. SavedInv => NothingKeptIsUnsaved  BY SavedTells
<1> QED  BY <1>1, <1>2, <1>3, PTL DEF JarSpec

-----------------------------------------------------------------------------
(* One cookie per identity, when no plain file was taken over: a store     *)
(* takes out the cookie it replaces, and nothing else brings one in.       *)

IdentityInv ==
    /\ JarTypeOK
    /\ ~tsv
    /\ Distinct(cookies) /\ Distinct(disk)
    /\ Len(cookies) <= Total /\ Len(disk) <= Total

LEMMA StoreKeepsApart ==
  ASSUME JarTypeOK, Distinct(cookies), Len(cookies) <= Total, NEW c \in Cookie, Store(c)
  PROVE  Distinct(cookies') /\ Len(cookies') <= Total
<1>1. PICK rest, new, w : Stored(c, rest, new, w)  BY StoreStores
<1>2. /\ rest \in Seq(Cookie) /\ w \in Seq(Cookie) /\ Thinned(rest, cookies)
      /\ rest = Without(cookies, Replaced(c)) /\ Thinned(w, Append(rest, new))
      /\ new \in Cookie /\ new = [c EXCEPT !.created = new.created]
  BY <1>1 DEF Stored
<1>3. cookies \in Seq(Cookie) /\ Total \in Nat /\ per_domain \in Nat
  BY JarAssumption DEF JarTypeOK
<1>4. Identity(new) = Identity(c)  BY <1>2 DEF Identity, Cookie
<1>5. \A k \in DOMAIN rest : Identity(rest[k]) # Identity(c)
  <2> SUFFICES ASSUME NEW k \in DOMAIN rest, Identity(rest[k]) = Identity(c) PROVE FALSE
    OBVIOUS
  <2>1. PICK i \in DOMAIN cookies : i \notin Replaced(c) /\ rest[k] = cookies[i]
    BY <1>2, <1>3, WithoutDrops
  <2>2. \A j \in DOMAIN cookies : Identity(cookies[j]) = Identity(c) => j = i
    BY <2>1 DEF Distinct
  <2>3. i <= i  BY <1>3
  <2> QED  BY <2>1, <2>2, <2>3 DEF Replaced
<1>6. Distinct(rest)  BY <1>2 DEF Thinned
<1>7. Distinct(Append(rest, new))
  <2>1. PICK pushed : pushed = Append(rest, new)  OBVIOUS
  <2>2. \A k \in DOMAIN pushed : \/ k \in DOMAIN rest /\ pushed[k] = rest[k]
                                 \/ k = Len(rest) + 1 /\ pushed[k] = new
    BY <1>2, <2>1
  <2> QED  BY <1>4, <1>5, <1>6, <2>1, <2>2 DEF Distinct
<1>8. Distinct(w)  BY <1>2, <1>7 DEF Thinned
<1>9. Thinned(cookies', IF Live(new) THEN w ELSE rest)  BY <1>1, StoreAddsOne
<1>10. CASE Live(new)
  <2>1. Distinct(cookies')  BY <1>8, <1>9, <1>10 DEF Thinned
  <2>2. cookies' = MakeRoom(w)  BY <1>1, <1>10 DEF Stored
  <2> QED  BY <1>2, <1>3, <2>1, <2>2, RoomIsMade
<1>11. CASE ~Live(new)
  <2>1. Distinct(cookies') /\ cookies' = rest  BY <1>1, <1>6, <1>11 DEF Stored
  <2>2. Len(rest) <= Len(cookies)  BY <1>2 DEF Thinned
  <2>3. Len(rest) \in Nat /\ Len(cookies) \in Nat  BY <1>2, <1>3
  <2> QED  BY <1>3, <2>1, <2>2, <2>3
<1> QED  BY <1>10, <1>11

LEMMA IdentityStep ==
  ASSUME IdentityInv, [JarNext]_storeVars
  PROVE  IdentityInv'
<1>0. /\ JarTypeOK /\ JarTypeOK' /\ ~tsv /\ Distinct(cookies) /\ Distinct(disk)
      /\ Len(cookies) <= Total /\ Len(disk) <= Total
  BY JarTypeStep DEF IdentityInv
<1>1. cookies \in Seq(Cookie) /\ disk \in Seq(Cookie) /\ Total \in Nat
      /\ Len(cookies) \in Nat /\ Len(disk) \in Nat
  BY <1>0, JarAssumption DEF JarTypeOK
<1> DEFINE Apart == Distinct(cookies') /\ Len(cookies') <= Total
           DiskApart == ~tsv' /\ Distinct(disk') /\ Len(disk') <= Total
<1>2. SUFFICES Apart /\ DiskApart
  <2>1. (Distinct(cookies) /\ Distinct(disk))' <=> Distinct(cookies') /\ Distinct(disk')
    BY DEF Distinct, Identity
  <2> QED  BY <1>0, <2>1 DEF IdentityInv
<1>3. ASSUME UNCHANGED <<tsv, disk>> PROVE DiskApart  BY <1>0, <1>3
<1>4. ASSUME UNCHANGED cookies PROVE Apart  BY <1>0, <1>4
<1>5. ASSUME NEW c \in Cookie, Store(c) PROVE Apart /\ DiskApart
  <2>1. UNCHANGED <<tsv, disk>>  BY <1>5 DEF Store
  <2>2. Apart  BY <1>0, <1>5, StoreKeepsApart
  <2> QED  BY <1>3, <2>1, <2>2
<1>6. ASSUME NEW h \in Hosts, NEW x \in BOOLEAN, HeaderFor(h, x) PROVE Apart /\ DiskApart
  <2>1. UNCHANGED <<tsv, disk>>  BY <1>6 DEF HeaderFor
  <2>2. \A y \in Cookie : \A u \in Nat : Identity([y EXCEPT !.last_access = u]) = Identity(y)
    BY DEF Cookie, Identity
  <2>3. /\ DOMAIN cookies' = DOMAIN cookies /\ Len(cookies') = Len(cookies)
        /\ \A i \in DOMAIN cookies :
              \E u \in Nat : cookies'[i] = [cookies[i] EXCEPT !.last_access = u]
    BY <1>0, <1>6, HeaderUses
  <2>4. \A i \in DOMAIN cookies : cookies[i] \in Cookie  BY <1>1
  <2>5. \A i \in DOMAIN cookies : Identity(cookies'[i]) = Identity(cookies[i])
    BY <2>2, <2>3, <2>4
  <2>6. Apart  BY <1>0, <2>3, <2>5 DEF Distinct
  <2> QED  BY <1>3, <2>1, <2>6
<1>7. ASSUME NEW gone, RemoveThose(gone) PROVE Apart /\ DiskApart
  <2>1. UNCHANGED <<tsv, disk>>  BY <1>7 DEF RemoveThose
  <2>2. Thinned(cookies', cookies)  BY <1>0, <1>7, RemoveThins
  <2>3. Len(cookies') \in Nat  BY <2>2 DEF Thinned
  <2>4. Apart  BY <1>0, <1>1, <2>2, <2>3 DEF Thinned
  <2> QED  BY <1>3, <2>1, <2>4
<1>8. ASSUME Start PROVE Apart /\ DiskApart
  <2>1. PICK read, legacy : Begun(read, legacy)  BY <1>0, <1>8, StartBegins
  <2>2. legacy = << >> /\ Thinned(read, disk) /\ read \in Seq(Cookie)
        /\ cookies' = read \o legacy /\ UNCHANGED <<disk, tsv>>
    BY <1>0, <2>1 DEF Begun, Thinned
  <2>3. cookies' = read  BY <2>2, JoinedElements
  <2>4. Len(read) \in Nat  BY <2>2
  <2>5. Apart  BY <1>0, <1>1, <2>2, <2>3, <2>4 DEF Thinned
  <2> QED  BY <1>3, <2>2, <2>5
<1>9. ASSUME Save PROVE Apart /\ DiskApart
  <2>1. disk' = ToText /\ tsv' = tsv /\ cookies' = cookies  BY <1>9 DEF Save, jarVars
  <2>2. Distinct(ToText) /\ Len(ToText) <= Len(cookies) /\ ToText \in Seq(Cookie)
    BY <1>0, <1>1, TextIsWhatLasts
  <2>3. Len(ToText) \in Nat  BY <2>2
  <2>4. DiskApart  BY <1>0, <1>1, <2>1, <2>2, <2>3
  <2> QED  BY <1>4, <2>1, <2>4
<1>10. ASSUME SetAcceptsThirdParty \/ Stop \/ Tick \/ UNCHANGED storeVars
       PROVE  Apart /\ DiskApart
  <2>1. UNCHANGED <<cookies, disk, tsv>>
    BY <1>10 DEF SetAcceptsThirdParty, Stop, Tick, storeVars, jarVars
  <2> QED  BY <1>3, <1>4, <2>1
<1> HIDE DEF Apart, DiskApart
<1> QED  BY <1>0, <1>5, <1>6, <1>7, <1>8, <1>9, <1>10, JarSteps

LEMMA IdentityInit ==
  ASSUME Legacy = << >>
  PROVE  JarInit => IdentityInv
<1> SUFFICES ASSUME JarInit PROVE IdentityInv  OBVIOUS
<1>1. ~tsv  BY DEF JarInit
<1>2. cookies = << >> /\ disk = << >>  BY DEF JarInit
<1>3. Distinct(cookies) /\ Distinct(disk)  BY <1>2 DEF Distinct
<1>4. Len(cookies) <= Total /\ Len(disk) <= Total  BY <1>2, JarAssumption
<1> QED  BY <1>1, <1>3, <1>4, JarTypeInit DEF IdentityInv

(* A jar that took nothing over from an older build's plain file never     *)
(* holds two cookies of one identity, whatever was set, evicted, written   *)
(* and read back. With a plain file it may: one that survives its take-    *)
(* over is taken over again.                                               *)
THEOREM EachCookieOnce ==
  ASSUME Legacy = << >>
  PROVE  JarSpec => []OneCookiePerIdentity
<1>1. JarInit => IdentityInv  BY IdentityInit
<1>2. IdentityInv /\ [JarNext]_storeVars => IdentityInv'  BY IdentityStep
<1>3. IdentityInv => OneCookiePerIdentity  BY DEF IdentityInv, OneCookiePerIdentity, Distinct
<1> QED  BY <1>1, <1>2, <1>3, PTL DEF JarSpec

-----------------------------------------------------------------------------
(* What is removed stays removed. While the revisions agree, what would be *)
(* read back is in the jar, or a store evicted it.                         *)

Accounted(x) ==
    \/ \E i \in DOMAIN cookies :
          Persistent(cookies[i]) /\ Live(cookies[i]) /\ x = ReadBack(cookies[i])
    \/ x \in displaced
RemovedInv == kept_revision = saved =>
    \A j \in DOMAIN disk : Live(disk[j]) => Accounted(disk[j])

(* A step that leaves the file and the clock alone, and after which every  *)
(* cookie that lasts is still there, or the revision has moved.            *)
LEMMA StaysRemoved ==
  ASSUME SavedInv, RemovedInv, UNCHANGED <<disk, saved, now>>, displaced \subseteq displaced',
         \/ /\ kept_revision' = kept_revision
            /\ \A i \in DOMAIN cookies : Persistent(cookies[i]) /\ Live(cookies[i]) =>
                  \/ \E k \in DOMAIN cookies' : /\ cookies'[k].expires = cookies[i].expires
                                                /\ ReadBack(cookies'[k]) = ReadBack(cookies[i])
                  \/ ReadBack(cookies[i]) \in displaced'
         \/ kept_revision' > kept_revision
  PROVE  RemovedInv'
<1>1. ASSUME kept_revision' = saved', NEW j \in DOMAIN disk, Live(disk[j])
      PROVE  \/ \E k \in DOMAIN cookies' : /\ Persistent(cookies'[k]) /\ Live(cookies'[k])
                                           /\ disk[j] = ReadBack(cookies'[k])
             \/ disk[j] \in displaced'
  <2>1. kept_revision' = kept_revision /\ kept_revision = saved
    BY <1>1 DEF SavedInv, TextInv, JarTypeOK
  <2>2. Accounted(disk[j])  BY <1>1, <2>1 DEF RemovedInv
  <2>3. CASE disk[j] \in displaced  BY <2>3
  <2>4. ASSUME NEW i \in DOMAIN cookies, Persistent(cookies[i]), Live(cookies[i]),
               disk[j] = ReadBack(cookies[i]), disk[j] \notin displaced'
        PROVE  \E k \in DOMAIN cookies' : /\ Persistent(cookies'[k]) /\ Live(cookies'[k])
                                          /\ disk[j] = ReadBack(cookies'[k])
    <3>1. ~(kept_revision' > kept_revision)  BY <2>1 DEF SavedInv, JarTypeOK
    <3>2. PICK k \in DOMAIN cookies' : /\ cookies'[k].expires = cookies[i].expires
                                       /\ ReadBack(cookies'[k]) = ReadBack(cookies[i])
      BY <2>4, <3>1
    <3>3. Persistent(cookies'[k]) /\ Live(cookies'[k])  BY <2>4, <3>2 DEF Persistent, Live
    <3> QED  BY <2>4, <3>2, <3>3
  <2> QED  BY <2>2, <2>3, <2>4 DEF Accounted
<1>2. ASSUME kept_revision' = saved', NEW j \in DOMAIN disk', Live(disk[j])'
      PROVE  Accounted(disk[j])'
  BY <1>1, <1>2 DEF Accounted, Live, Persistent, ReadBack
<1> QED  BY <1>2 DEF RemovedInv

LEMMA StoreRemovesOnly ==
  ASSUME SavedInv, RemovedInv, NEW c \in Cookie, Store(c)
  PROVE  RemovedInv'
<1>0. JarTypeOK /\ cookies \in Seq(Cookie)  BY DEF SavedInv, JarTypeOK
<1>1. PICK rest, new, w : Stored(c, rest, new, w)  BY <1>0, StoreStores
<1>2. UNCHANGED <<disk, saved, now>>  BY DEF Store
<1>3. displaced \subseteq displaced'  BY <1>1 DEF Stored
<1>4. PICK a \in {0, 1} : a = Bump(Touched({cookies[i] : i \in Replaced(c)}, new))  BY Bumps
<1>5. PICK b \in {0, 1} : b = Bump(Live(new) /\ Expired(Append(rest, new)) # {})  BY Bumps
<1>6. kept_revision' = kept_revision + a + b /\ kept_revision \in Nat
  BY <1>0, <1>1, <1>4, <1>5 DEF Stored, JarTypeOK
<1>7. CASE a = 0 /\ b = 0
  <2>1. ~Touched({cookies[i] : i \in Replaced(c)}, new)  BY <1>4, <1>7 DEF Bump
  <2>2. ASSUME NEW i \in DOMAIN cookies, Persistent(cookies[i]), Live(cookies[i])
        PROVE  \/ \E k \in DOMAIN cookies' : cookies'[k] = cookies[i]
               \/ ReadBack(cookies[i]) \in displaced'
    <3>1. i \notin Replaced(c)  BY <2>1, <2>2 DEF Touched
    <3>2. \E k \in DOMAIN rest : rest[k] = cookies[i]
      <4>1. rest = Without(cookies, Replaced(c))  BY <1>1 DEF Stored
      <4> QED  BY <1>0, <3>1, <4>1, WithoutLeaves
    <3>3. cookies[i] \in Elements(rest)  BY <3>2 DEF Elements
    <3>4. CASE cookies[i] \in Elements(cookies')  BY <3>4 DEF Elements
    <3>5. CASE cookies[i] \notin Elements(cookies')
      <4>1. ReadBack(cookies[i]) \in Displaces(rest)  BY <2>2, <3>3, <3>5 DEF Displaces
      <4> QED  BY <1>1, <4>1 DEF Stored
    <3> QED  BY <3>4, <3>5
  <2>3. kept_revision' = kept_revision  BY <1>6, <1>7
  <2>4. \A i \in DOMAIN cookies : Persistent(cookies[i]) /\ Live(cookies[i]) =>
           \/ \E k \in DOMAIN cookies' : /\ cookies'[k].expires = cookies[i].expires
                                         /\ ReadBack(cookies'[k]) = ReadBack(cookies[i])
           \/ ReadBack(cookies[i]) \in displaced'
    BY <2>2
  <2> QED  BY <1>2, <1>3, <2>3, <2>4, StaysRemoved
<1>8. CASE ~(a = 0 /\ b = 0)
  <2>1. kept_revision' > kept_revision  BY <1>6, <1>8
  <2> QED  BY <1>2, <1>3, <2>1, StaysRemoved
<1> QED  BY <1>7, <1>8

LEMMA RemoveIsCounted ==
  ASSUME SavedInv, RemovedInv, NEW gone, RemoveThose(gone)
  PROVE  RemovedInv'
<1>0. JarTypeOK /\ cookies \in Seq(Cookie)  BY DEF SavedInv, JarTypeOK
<1>1. UNCHANGED <<disk, saved, now, displaced>> /\ cookies' = Without(cookies, gone)
  BY DEF RemoveThose
<1>2. PICK b \in {0, 1} : b = Bump(\E i \in gone : Persistent(cookies[i]))  BY Bumps
<1>3. kept_revision' = kept_revision + b /\ kept_revision \in Nat
  <2>1. kept_revision' = kept_revision + b  BY <1>2, Zenon DEF RemoveThose
  <2> QED  BY <1>0, <2>1 DEF JarTypeOK
<1>4. CASE b = 0
  <2>1. ~(\E i \in gone : Persistent(cookies[i]))  BY <1>2, <1>4 DEF Bump
  <2>2. \A i \in DOMAIN cookies : Persistent(cookies[i]) /\ Live(cookies[i]) =>
           \E k \in DOMAIN cookies' : cookies'[k] = cookies[i]
    BY <1>0, <1>1, <2>1, WithoutLeaves
  <2>3. kept_revision' = kept_revision  BY <1>3, <1>4
  <2> QED  BY <1>1, <2>2, <2>3, StaysRemoved
<1>5. CASE b = 1
  <2>1. kept_revision' > kept_revision  BY <1>3, <1>5
  <2> QED  BY <1>1, <2>1, StaysRemoved
<1> QED  BY <1>4, <1>5

LEMMA HeaderRemovesNone ==
  ASSUME SavedInv, RemovedInv, NEW h \in Hosts, NEW x \in BOOLEAN, HeaderFor(h, x)
  PROVE  RemovedInv'
<1>0. JarTypeOK  BY DEF SavedInv
<1>1. UNCHANGED <<disk, saved, now, kept_revision, displaced>>  BY DEF HeaderFor
<1>2. \A y \in Cookie : \A u \in Nat :
         /\ [y EXCEPT !.last_access = u].expires = y.expires
         /\ ReadBack([y EXCEPT !.last_access = u]) = ReadBack(y)
  BY DEF Cookie, ReadBack
<1>3. \A i \in DOMAIN cookies : cookies[i] \in Cookie  BY <1>0 DEF JarTypeOK
<1>4. \A i \in DOMAIN cookies : /\ i \in DOMAIN cookies'
                                /\ cookies'[i].expires = cookies[i].expires
                                /\ ReadBack(cookies'[i]) = ReadBack(cookies[i])
  <2> SUFFICES ASSUME NEW i \in DOMAIN cookies
               PROVE  /\ i \in DOMAIN cookies'
                      /\ cookies'[i].expires = cookies[i].expires
                      /\ ReadBack(cookies'[i]) = ReadBack(cookies[i])
    OBVIOUS
  <2>1. i \in DOMAIN cookies'  BY <1>0, HeaderUses
  <2>2. PICK u \in Nat : cookies'[i] = [cookies[i] EXCEPT !.last_access = u]  BY <1>0, HeaderUses
  <2> QED  BY <1>2, <1>3, <2>1, <2>2
<1> QED  BY <1>1, <1>4, StaysRemoved

(* The file is written or read: what it holds is what the jar holds.       *)
LEMMA FileRemovesNone ==
  ASSUME SavedInv, RemovedInv, JarTypeOK', Save \/ Start
  PROVE  RemovedInv'
<1>0. JarTypeOK /\ cookies \in Seq(Cookie) /\ disk \in Seq(Cookie)
      /\ \A i \in DOMAIN cookies : cookies[i] \in Cookie
  BY DEF SavedInv, JarTypeOK
<1>1. CASE Save
  <2>1. disk' = ToText /\ cookies' = cookies /\ now' = now  BY <1>1 DEF Save, jarVars
  <2>2. \A j \in DOMAIN disk' : \E i \in DOMAIN cookies' :
           /\ Persistent(cookies[i]) /\ Live(cookies[i]) /\ disk'[j] = ReadBack(cookies[i])
    BY <1>0, <2>1, TextIsWhatLasts
  <2>3. \A j \in DOMAIN disk' : Accounted(disk[j])'
    BY <2>1, <2>2 DEF Accounted, Persistent, Live, ReadBack
  <2> QED  BY <2>3 DEF RemovedInv
<1>2. CASE Start
  <2>1. PICK read, legacy : Begun(read, legacy)  BY <1>0, <1>2, StartBegins
  <2>2. /\ read \in Seq(Cookie) /\ legacy \in Seq(Cookie)
        /\ cookies' = read \o legacy /\ kept_revision' = Len(cookies')
    BY <2>1 DEF Begun, Thinned
  <2>3. /\ cookies' \in Seq(Cookie) /\ Len(cookies') = Len(read) + Len(legacy)
        /\ legacy = << >> => cookies' = read
    BY <2>2, JoinedElements
  <2>4. now' = now  BY <1>2 DEF Start
  <2>5. CASE legacy = << >>
    <3>1. disk' = disk /\ cookies' = FromText(disk)  BY <2>1, <2>3, <2>5 DEF Begun
    <3>2. \A j \in DOMAIN disk : Persistent(disk[j]) /\ ReadBack(disk[j]) = disk[j]
      BY <1>0 DEF JarTypeOK, SavedInv, TextInv
    <3>3. \A j \in DOMAIN disk : Live(disk[j]) =>
             \E k \in DOMAIN cookies' : cookies'[k] = disk[j]
      BY <1>0, <3>1, FromTextReads
    <3>4. \A j \in DOMAIN disk : Live(disk[j]) =>
             \E k \in DOMAIN cookies' :
                Persistent(cookies'[k]) /\ Live(cookies'[k]) /\ disk[j] = ReadBack(cookies'[k])
      BY <3>2, <3>3
    <3>5. \A j \in DOMAIN disk' : Live(disk[j])' => Accounted(disk[j])'
      BY <2>4, <3>1, <3>4 DEF Accounted, Persistent, Live, ReadBack
    <3> QED  BY <3>5 DEF RemovedInv
  <2>6. CASE legacy # << >> /\ saved' = Len(read)
    <3>1. Len(legacy) \in Nat \ {0} /\ Len(read) \in Nat  BY <2>2, <2>6
    <3>2. kept_revision' # saved'  BY <2>2, <2>3, <2>6, <3>1
    <3> QED  BY <3>2 DEF RemovedInv
  <2>7. CASE legacy # << >> /\ disk' = cookies'
    <3>1. (\A j \in DOMAIN disk : Persistent(disk[j]))'  BY DEF JarTypeOK
    <3>2. (\A j \in DOMAIN disk : ReadBack(disk[j]) = disk[j])'  BY <1>2, StartKeepsFile DEF TextInv
    <3>3. \A j \in DOMAIN disk' : Live(disk[j])' => Accounted(disk[j])'
      BY <2>7, <3>1, <3>2 DEF Accounted, Persistent, Live, ReadBack
    <3> QED  BY <3>3 DEF RemovedInv
  <2> QED  BY <2>1, <2>5, <2>6, <2>7 DEF Begun
<1> QED  BY <1>1, <1>2

(* Time only takes cookies from those that would be read back.             *)
LEMMA OthersRemoveNone ==
  ASSUME SavedInv, RemovedInv, SetAcceptsThirdParty \/ Stop \/ Tick \/ UNCHANGED storeVars
  PROVE  RemovedInv'
<1>1. CASE SetAcceptsThirdParty \/ Stop \/ UNCHANGED storeVars
  <2>1. UNCHANGED <<cookies, kept_revision, disk, saved, now, displaced>>
    BY <1>1 DEF SetAcceptsThirdParty, Stop, storeVars, jarVars
  <2> QED  BY <2>1, StaysRemoved
<1>2. CASE Tick
  <2>1. UNCHANGED <<cookies, kept_revision, disk, saved, displaced>> /\ now' = now + 1 /\ now \in Nat
    BY <1>2 DEF Tick, jarVars, SavedInv, JarTypeOK
  <2>2. ASSUME kept_revision = saved, NEW j \in DOMAIN disk, disk[j].expires = Session \/ disk[j].expires > now + 1
        PROVE  \/ \E i \in DOMAIN cookies :
                     /\ Persistent(cookies[i]) /\ disk[j] = ReadBack(cookies[i])
                     /\ cookies[i].expires = Session \/ cookies[i].expires > now + 1
               \/ disk[j] \in displaced
    <3>1. disk[j] \in Cookie /\ \A i \in DOMAIN cookies : cookies[i] \in Cookie
      BY DEF SavedInv, JarTypeOK
    <3>2. disk[j].expires \in Int  BY <3>1 DEF Cookie
    <3>3. Live(disk[j])  BY <2>1, <2>2, <3>2 DEF Live
    <3>4. Accounted(disk[j])  BY <2>2, <3>3 DEF RemovedInv
    <3>5. \A x \in Cookie : ReadBack(x).expires = x.expires  BY DEF Cookie, ReadBack
    <3> QED  BY <2>2, <3>1, <3>4, <3>5 DEF Accounted
  <2>3. ASSUME kept_revision' = saved', NEW j \in DOMAIN disk', Live(disk[j])'
        PROVE  Accounted(disk[j])'
    BY <2>1, <2>2, <2>3 DEF Accounted, Live, Persistent, ReadBack
  <2> QED  BY <2>3 DEF RemovedInv
<1> QED  BY <1>1, <1>2

LEMMA RemovedStep ==
  ASSUME SavedInv, RemovedInv, [JarNext]_storeVars
  PROVE  RemovedInv'
<1>1. JarTypeOK /\ JarTypeOK'  BY JarTypeStep DEF SavedInv
<1> QED
  BY <1>1, JarSteps, StoreRemovesOnly, HeaderRemovesNone, RemoveIsCounted, FileRemovesNone,
     OthersRemoveNone

LEMMA RemovedTells ==
  ASSUME SavedInv, RemovedInv
  PROVE  RemovedStaysRemoved
<1> SUFFICES ASSUME kept_revision = saved, NEW x \in OnDisk PROVE x \in WouldWrite \cup displaced
  BY DEF RemovedStaysRemoved
<1>1. cookies \in Seq(Cookie) /\ disk \in Seq(Cookie)  BY DEF SavedInv, JarTypeOK
<1>2. PICK k \in DOMAIN FromText(disk) : x = FromText(disk)[k]  BY DEF OnDisk, Elements
<1>3. PICK j \in DOMAIN disk : j \notin Expired(disk) /\ x = disk[j]
  BY <1>1, <1>2, WithoutDrops DEF FromText
<1>4. Accounted(x)  BY <1>3 DEF Expired, RemovedInv
<1>5. ASSUME NEW i \in DOMAIN cookies, Persistent(cookies[i]), Live(cookies[i]), x = ReadBack(cookies[i])
      PROVE  x \in WouldWrite
  <2>1. \E m \in DOMAIN ToText : ToText[m] = x  BY <1>1, <1>5, TextIsWhatLasts
  <2> QED  BY <2>1 DEF WouldWrite, Elements
<1> QED  BY <1>4, <1>5 DEF Accounted

(* While the revision says the file is up to date, nothing would be read   *)
(* back from it that the jar has given up: a cookie replaced, deleted by   *)
(* its server or taken out by a person does not return with the next       *)
(* process. What a store evicted may.                                      *)
THEOREM WhatIsRemovedStaysRemoved == JarSpec => []RemovedStaysRemoved
<1>1. JarInit => SavedInv /\ RemovedInv
  <2>1. JarInit => RemovedInv  BY DEF JarInit, RemovedInv
  <2> QED  BY <2>1, SavedInit
<1>2. SavedInv /\ RemovedInv /\ [JarNext]_storeVars => SavedInv' /\ RemovedInv'
  BY SavedStep, RemovedStep
<1>3. SavedInv /\ RemovedInv => RemovedStaysRemoved  BY RemovedTells
<1> QED  BY <1>1, <1>2, <1>3, PTL DEF JarSpec

-----------------------------------------------------------------------------
(* What a store takes out of the jar.                                      *)

(* Without takes out the places it is given, and only them.                *)
LEMMA WithoutFewer ==
  ASSUME NEW s \in Seq(Cookie), NEW gone, gone \cap DOMAIN s # {}
  PROVE  Len(Without(s, gone)) < Len(s)
<1>1. PICK w : w = Without(s, gone)  BY WithoutKeeps
<1>2. w \in Seq(Cookie) /\ MadeOf(w, s, DOMAIN s \ gone)  BY <1>1, WithoutKeeps
<1>3. IsFiniteSet(DOMAIN s \ gone) /\ Cardinality(DOMAIN s \ gone) = Len(w)  BY <1>2, MadeCount
<1>4. IsFiniteSet(DOMAIN s) /\ Cardinality(DOMAIN s) = Len(s)  BY PlacesCount
<1>5. DOMAIN s \ gone \in SUBSET DOMAIN s /\ DOMAIN s \ gone # DOMAIN s  OBVIOUS
<1>6. Len(w) <= Len(s) /\ Len(w) # Len(s)  BY <1>3, <1>4, <1>5, FS_Subset
<1>7. Len(w) \in Nat /\ Len(s) \in Nat  BY <1>2
<1> QED  BY <1>1, <1>6, <1>7

LEMMA WithoutNone ==
  ASSUME NEW s \in Seq(Cookie), NEW gone, gone \cap DOMAIN s = {}
  PROVE  Without(s, gone) = s
<1> DEFINE m == Len(s)
<1>1. PICK kept : KeepsAll(kept, s, gone)  BY WithoutUnfolds
<1>2. m \in Nat /\ DOMAIN s = 1..m /\ \A i \in 1..m : s[i] \in Cookie  OBVIOUS
<1> DEFINE Good(i) == /\ kept[i] \in Seq(Cookie) /\ Len(kept[i]) = i
                      /\ \A k \in 1..i : kept[i][k] = s[k]
           h == [i \in 0..m |-> IF Good(i) THEN 1 ELSE 0]
<1>3. Good(0)
  <2>1. kept[0] = << >>  BY <1>1 DEF KeepsAll
  <2> QED  BY <2>1
<1>4. ASSUME NEW i \in 1..m, Good(i - 1) PROVE Good(i)
  <2>1. PICK w : w = kept[i - 1]  OBVIOUS
  <2>2. w \in Seq(Cookie) /\ Len(w) = i - 1 /\ \A k \in 1..(i - 1) : w[k] = s[k]
    BY <1>4, <2>1
  <2>3. kept[i] = Append(w, s[i]) /\ s[i] \in Cookie
    BY <1>1, <1>2, <2>1 DEF KeepsAll
  <2>4. PICK v : v = Append(w, s[i])  OBVIOUS
  <2>5. v \in Seq(Cookie) /\ Len(v) = i /\ v[i] = s[i] /\ \A k \in 1..(i - 1) : v[k] = w[k]
    BY <1>2, <2>2, <2>3, <2>4
  <2>6. \A k \in 1..i : k = i \/ k \in 1..(i - 1)  BY <1>2
  <2>7. \A k \in 1..i : v[k] = s[k]  BY <2>2, <2>5, <2>6
  <2> QED  BY <2>3, <2>4, <2>5, <2>7
<1> HIDE DEF Good
<1>5. \A i \in 0..m : h[i] \in {1}
  <2>1. PICK Y : Y = {1}  OBVIOUS
  <2>2. h[0] \in Y  BY <1>2, <1>3, <2>1
  <2>3. ASSUME NEW i \in 1..m, h[i - 1] \in Y PROVE h[i] \in Y
    <3>1. i \in 0..m /\ i - 1 \in 0..m  BY <1>2
    <3>2. Good(i - 1)  BY <2>1, <2>3, <3>1
    <3> QED  BY <1>4, <2>1, <3>1, <3>2
  <2> HIDE DEF h, m
  <2>4. m \in Nat /\ h[0] \in Y /\ \A i \in 1..m : h[i - 1] \in Y => h[i] \in Y
    BY <1>2, <2>2, <2>3
  <2>5. \A i \in 0..m : h[i] \in Y  BY <2>4, CarriedThrough
  <2> QED  BY <2>1, <2>5
<1>6. m \in 0..m  BY <1>2
<1>7. Good(m)  BY <1>5, <1>6
<1>8. PICK v : v = kept[m]  OBVIOUS
<1>9. v \in Seq(Cookie) /\ Len(v) = Len(s) /\ \A k \in 1..Len(s) : v[k] = s[k]
  BY <1>7, <1>8 DEF Good
<1>10. v = s  BY <1>9
<1> QED  BY <1>1, <1>8, <1>10 DEF KeepsAll

(* When making room costs a cookie of another domain, the jar was full,    *)
(* nothing else went, and the new cookie's own domain was within its       *)
(* bound with the new cookie in it.                                        *)
LEMMA AnotherDomainPays ==
  ASSUME JarTypeOK, Len(cookies) <= Total, NEW c \in Cookie, Store(c),
         NEW i \in DOMAIN cookies, Live(cookies[i]), cookies[i] \notin Elements(cookies'),
         cookies[i].domain # c.domain
  PROVE  /\ Len(cookies) >= Total
         /\ Cardinality({j \in OfDomain(cookies, c.domain) : Live(cookies[j])}) < per_domain
<1>1. PICK rest, new, w : Stored(c, rest, new, w)  BY StoreStores
<1>2. PICK pushed : pushed = Append(rest, new)  OBVIOUS
<1>3. /\ rest \in Seq(Cookie) /\ w \in Seq(Cookie) /\ Thinned(rest, cookies)
      /\ rest = Without(cookies, Replaced(c)) /\ Thinned(w, pushed)
      /\ w = Without(pushed, Expired(pushed))
      /\ new \in Cookie /\ new = [c EXCEPT !.created = new.created]
      /\ cookies' = IF Live(new) THEN MakeRoom(w) ELSE rest
  BY <1>1, <1>2 DEF Stored
<1>4. cookies \in Seq(Cookie) /\ Total \in Nat /\ per_domain \in Nat
  BY JarAssumption DEF JarTypeOK
<1>5. new.domain = c.domain  BY <1>3 DEF Cookie
<1>6. /\ pushed \in Seq(Cookie) /\ pushed # << >> /\ Len(pushed) = Len(rest) + 1
      /\ pushed[Len(pushed)] = new
      /\ \A k \in DOMAIN rest : k \in DOMAIN pushed /\ pushed[k] = rest[k]
  BY <1>2, <1>3
<1>7. PICK a \in DOMAIN rest : rest[a] = cookies[i]
  <2>1. i \notin Replaced(c)  BY DEF Replaced, Identity
  <2> QED  BY <1>3, <1>4, <2>1, WithoutLeaves
<1>8. Live(new)  BY <1>3, <1>7 DEF Elements
<1>9. PICK b \in DOMAIN w : w[b] = cookies[i]
  <2>1. a \in DOMAIN pushed /\ pushed[a] = cookies[i]  BY <1>6, <1>7
  <2>2. a \notin Expired(pushed)  BY <2>1 DEF Expired
  <2>3. \E k \in DOMAIN w : w[k] = pushed[a]  BY <1>3, <1>6, <2>1, <2>2, WithoutLeaves
  <2> QED  BY <2>1, <2>3
<1>10. w[Len(w)] = new
  <2>1. Len(pushed) \notin Expired(pushed)  BY <1>6, <1>8 DEF Expired
  <2> QED  BY <1>3, <1>6, <2>1, LastStays
<1> DEFINE own == OfDomain(w, c.domain)
           out == Evicted(w, own, per_domain)
<1>11. PICK room : room = Without(w, out)  OBVIOUS
<1>12. cookies' = Without(room, Evicted(room, DOMAIN room, Total))
  BY <1>3, <1>5, <1>8, <1>10, <1>11 DEF MakeRoom
<1>13. out \in SUBSET own /\ own \in SUBSET DOMAIN w  BY DEF Evicted, OfDomain
<1>14. Thinned(room, w) /\ room \in Seq(Cookie)  BY <1>3, <1>11, WithoutThins DEF Thinned
<1>15. PICK d \in DOMAIN room : room[d] = cookies[i]
  <2>1. b \notin own  BY <1>9 DEF OfDomain
  <2>2. b \notin out  BY <1>13, <2>1
  <2> HIDE DEF out
  <2>3. \E k \in DOMAIN room : room[k] = w[b]  BY <1>3, <1>9, <1>11, <2>2, WithoutLeaves
  <2> QED  BY <1>9, <2>3
<1>16. Evicted(room, DOMAIN room, Total) # {}
  <2> SUFFICES ASSUME Evicted(room, DOMAIN room, Total) = {} PROVE FALSE  OBVIOUS
  <2>1. d \notin Evicted(room, DOMAIN room, Total)  OBVIOUS
  <2>2. \E k \in DOMAIN cookies' : cookies'[k] = room[d]
    BY <1>12, <1>14, <2>1, WithoutLeaves
  <2> QED  BY <1>15, <2>2 DEF Elements
<1>17. Len(room) > Total
  <2>1. DOMAIN room \in SUBSET DOMAIN room  OBVIOUS
  <2>2. Cardinality(DOMAIN room) > Total  BY <1>4, <1>14, <1>16, <2>1, EvictedCount
  <2> QED  BY <1>14, <2>2, PlacesCount
<1>18. /\ Len(room) \in Nat /\ Len(w) \in Nat /\ Len(rest) \in Nat /\ Len(cookies) \in Nat
       /\ Len(room) <= Len(w) /\ Len(w) <= Len(rest) + 1 /\ Len(rest) <= Len(cookies)
  BY <1>3, <1>4, <1>6, <1>14 DEF Thinned
<1>19. /\ Len(cookies) = Total /\ Len(rest) = Len(cookies) /\ Len(w) = Len(pushed)
       /\ Len(room) = Len(w)
  BY <1>4, <1>6, <1>17, <1>18
<1>20. rest = cookies
  <2>1. Replaced(c) \cap DOMAIN cookies = {}
    BY <1>3, <1>4, <1>18, <1>19, WithoutFewer
  <2> QED  BY <1>3, <1>4, <2>1, WithoutNone
<1>21. w = pushed
  <2>1. Expired(pushed) \cap DOMAIN pushed = {}
    BY <1>3, <1>6, <1>18, <1>19, WithoutFewer
  <2> QED  BY <1>3, <1>6, <2>1, WithoutNone
<1>22. out = {}
  <2>1. out \cap DOMAIN w = {}
    <3> HIDE DEF out
    <3> QED  BY <1>3, <1>11, <1>18, <1>19, WithoutFewer
  <2> HIDE DEF out
  <2> QED  BY <1>13, <2>1
<1>23. IsFiniteSet(own) /\ Cardinality(own) \in Nat /\ Cardinality(own) <= per_domain
  <2> HIDE DEF own
  <2> QED  BY <1>3, <1>4, <1>13, <1>22, EvictedCount DEF out
<1> DEFINE alive == {j \in OfDomain(cookies, c.domain) : Live(cookies[j])}
<1>24. alive \cup {Len(pushed)} \in SUBSET own /\ Len(pushed) \notin alive
  <2>1. Len(pushed) \in own  BY <1>5, <1>6, <1>21 DEF OfDomain
  <2>2. \A j \in DOMAIN cookies : j \in DOMAIN w /\ w[j] = cookies[j]
    BY <1>6, <1>20, <1>21
  <2>3. \A j \in alive : j \in own  BY <2>2 DEF OfDomain
  <2>4. Len(pushed) \notin DOMAIN cookies  BY <1>6, <1>18, <1>20, <1>4
  <2> QED  BY <2>1, <2>3, <2>4 DEF OfDomain
<1> HIDE DEF own, alive, out
<1>25. /\ IsFiniteSet(alive \cup {Len(pushed)})
       /\ Cardinality(alive \cup {Len(pushed)}) <= Cardinality(own)
  BY <1>23, <1>24, FS_Subset
<1>26. IsFiniteSet(alive)
  <2>1. alive \in SUBSET (alive \cup {Len(pushed)})  OBVIOUS
  <2> QED  BY <1>25, <2>1, FS_Subset
<1>27. Cardinality(alive) \in Nat
       /\ Cardinality(alive \cup {Len(pushed)}) = Cardinality(alive) + 1
  BY <1>24, <1>26, FS_AddElement, FS_CardinalityType
<1>28. Cardinality(alive) < per_domain  BY <1>4, <1>23, <1>25, <1>27
<1> QED  BY <1>4, <1>19, <1>28 DEF alive

(* One noisy domain does not empty another: without a plain file taken     *)
(* over, a store costs another domain an unexpired cookie only when the    *)
(* jar is full and the storing domain had room of its own. A plain file    *)
(* may bring more cookies than the jar holds, which later stores take out. *)
THEOREM NoisyDomainPays ==
  ASSUME Legacy = << >>
  PROVE  JarSpec => NoisyDomainEvictsItself
<1> DEFINE Pays == \A i \in Lost : \A h \in Hosts : \A c \in Asked(h) :
              cookies[i].domain # c.domain /\ Store(c) =>
                 /\ Len(cookies) >= Total
                 /\ Cardinality({j \in OfDomain(cookies, c.domain) : Live(cookies[j])}) < per_domain
<1>1. ASSUME IdentityInv PROVE Pays
  <2> SUFFICES ASSUME NEW i \in Lost, NEW h \in Hosts, NEW c \in Asked(h),
                      cookies[i].domain # c.domain, Store(c)
               PROVE  /\ Len(cookies) >= Total
                      /\ Cardinality({j \in OfDomain(cookies, c.domain) : Live(cookies[j])})
                            < per_domain
    OBVIOUS
  <2>1. /\ i \in DOMAIN cookies /\ Live(cookies[i]) /\ cookies[i] \notin Elements(cookies')
    BY DEF Lost
  <2>2. JarTypeOK /\ Len(cookies) <= Total /\ c \in Cookie
    BY <1>1, AskedAreCookies DEF IdentityInv
  <2> QED  BY <2>1, <2>2, AnotherDomainPays
<1>2. IdentityInv => [Pays]_storeVars  BY <1>1
<1>3. JarInit => IdentityInv  BY IdentityInit
<1>4. IdentityInv /\ [JarNext]_storeVars => IdentityInv'  BY IdentityStep
<1> QED  BY <1>2, <1>3, <1>4, PTL DEF JarSpec, NoisyDomainEvictsItself

=============================================================================
