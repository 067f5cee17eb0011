---------------------------- MODULE CookieWriter ----------------------------
(***************************************************************************)
(* The cookie file's persistence (otlyra-app/src/cookies.rs and            *)
(* cookies/writer.rs): the content owner's CookieStore, the one            *)
(* otlyra-cookies worker, the mutex and condition variable they share, the *)
(* jar that network threads change at any time, and the steps of an atomic *)
(* file replacement, any of which may fail or be cut short by a crash.     *)
(*                                                                         *)
(* A jar's contents are abstracted to Jar::kept_revision, which names them *)
(* within a run; a new run numbers on from the revision it read back.      *)
(* Instants are abstracted to whether a retry deadline is set and past.    *)
(* A definition whose name ends in _Something before the definition it     *)
(* resembles is a mutant of it: a plausible bug some property must catch.  *)
(***************************************************************************)
EXTENDS Naturals

CONSTANTS
    MaxRev,      \* bound: cookie changes stop at this revision
    MaxCrashes   \* bound: how often the process may die

ASSUME BoundsAssumption == MaxRev \in Nat /\ MaxCrashes \in Nat

VARIABLES
    \* the jar (network threads, owner) and the disk
    jar, file, fileWhole, durable, tmp, plain,
    \* writer.rs State, under its mutex
    wanted, written, moved, last, retryAt, stopping, finished,
    \* the worker's program counter and locals
    wpc, snap, result, exitOk, key,
    \* the owner's program counter and locals
    opc, task, ask, attached,
    \* ghosts: what was acknowledged, where the legacy import of this run
    \* sits (or of the one that ended it), crashes
    acked, plainRev, crashes

diskVars   == <<file, fileWhole, durable, tmp, plain>>
stateVars  == <<wanted, written, moved, last, retryAt, stopping, finished>>
workerVars == <<wpc, snap, result, exitOk, key>>
ownerVars  == <<opc, task, ask, attached>>
ghostVars  == <<acked, plainRev, crashes>>
vars == <<jar, diskVars, stateVars, workerVars, ownerVars, ghostVars>>

Writing == {"create", "sync", "rename", "syncdir"}
WorkerPcs ==
    {"unborn", "check", "asleep", "timed", "snapshot", "key", "report",
     "unwind", "gone"} \cup Writing
OwnerPcs ==
    {"import", "idle", "set", "wait", "asleep", "unlink", "finish", "stop",
     "join", "gone"}
Tasks == {"none", "schedule", "flush", "migrate", "drop"}

Larger(a, b) == IF a >= b THEN a ELSE b

NoAttempt == [rev |-> 0, ok |-> TRUE]

TypeOK ==
    /\ jar \in Nat /\ file \in Nat /\ durable \in Nat
    /\ wanted \in Nat /\ written \in Nat /\ snap \in Nat /\ ask \in Nat
    /\ acked \in Nat /\ plainRev \in Nat /\ crashes \in Nat
    /\ last \in [rev : Nat, ok : BOOLEAN]
    /\ fileWhole \in BOOLEAN /\ plain \in BOOLEAN /\ moved \in BOOLEAN
    /\ stopping \in BOOLEAN /\ finished \in BOOLEAN
    /\ result \in BOOLEAN /\ exitOk \in BOOLEAN /\ attached \in BOOLEAN
    /\ tmp \in {"none", "unsynced", "synced"}
    /\ retryAt \in {"none", "pending", "due"}
    /\ key \in {"unasked", "granted", "refused"}
    /\ wpc \in WorkerPcs
    /\ opc \in OwnerPcs
    /\ task \in Tasks

(* CookieStore::persist asks the keychain only when there is a file to open. *)
KeyAnswers(present) == IF present THEN {"granted", "refused"} ELSE {"unasked"}

(* The first process of a profile. The worker is spawned by the first flush *)
(* with something to write; an older build's plain file is taken over       *)
(* first. Without a key nothing is attached and nothing will be written.    *)
Init ==
    /\ plain \in BOOLEAN
    /\ key \in KeyAnswers(plain)
    /\ attached = (key # "refused")
    /\ opc = IF plain /\ attached THEN "import" ELSE "idle"
    /\ jar = 0 /\ file = 0 /\ fileWhole = TRUE /\ durable = 0 /\ tmp = "none"
    /\ wanted = 0 /\ written = 0 /\ moved = FALSE /\ last = NoAttempt
    /\ retryAt = "none" /\ stopping = FALSE /\ finished = FALSE
    /\ wpc = "unborn" /\ snap = 0 /\ result = FALSE /\ exitOk = FALSE
    /\ task = "none" /\ ask = 0
    /\ acked = 0 /\ plainRev = 0 /\ crashes = 0

-----------------------------------------------------------------------------
(* Network threads. *)

(* A response sets, replaces or removes a persistent cookie. *)
JarChanges ==
    /\ jar < MaxRev
    /\ jar' = jar + 1
    /\ UNCHANGED <<diskVars, stateVars, workerVars, ownerVars, ghostVars>>

-----------------------------------------------------------------------------
(* The worker thread. *)

(* Condvar::notify_one and notify_all: a sleeping worker goes back to its  *)
(* condition. While the owner notifies it is not itself asleep, so the one *)
(* waiter there can be is the worker.                                      *)
Awake(pc) == IF pc \in {"asleep", "timed"} THEN "check" ELSE pc

OwnerAwake_NotNotified == opc
OwnerAwake == IF opc = "asleep" THEN "wait" ELSE opc

(* One evaluation of the waiting loop's conditions, under the state lock. *)
WorkerCheck ==
    /\ wpc = "check"
    /\ \/ /\ stopping /\ written >= wanted
          /\ wpc' = "unwind" /\ exitOk' = TRUE
       \/ /\ written < wanted
          /\ stopping \/ retryAt # "pending"
          /\ wpc' = "snapshot" /\ UNCHANGED exitOk
       \/ /\ written < wanted /\ ~stopping /\ retryAt = "pending"
          /\ wpc' = "timed" /\ UNCHANGED exitOk
       \/ /\ ~stopping /\ written >= wanted
          /\ wpc' = "asleep" /\ UNCHANGED exitOk
    /\ UNCHANGED <<jar, diskVars, stateVars, snap, result, key, ownerVars, ghostVars>>

RetryFallsDue_WithoutWake ==
    /\ retryAt = "pending"
    /\ retryAt' = "due"
    /\ UNCHANGED <<jar, diskVars, wanted, written, moved, last, stopping, finished,
                   workerVars, ownerVars, ghostVars>>

(* The retry deadline passes; wait_timeout returns if that is the wait. *)
RetryFallsDue ==
    /\ retryAt = "pending"
    /\ retryAt' = "due"
    /\ wpc' = IF wpc = "timed" THEN "check" ELSE wpc
    /\ UNCHANGED <<jar, diskVars, wanted, written, moved, last, stopping, finished,
                   snap, result, exitOk, key, ownerVars, ghostVars>>

(* Either condition wait may return without a notification. *)
SpuriousWake ==
    /\ \/ wpc \in {"asleep", "timed"} /\ wpc' = "check" /\ UNCHANGED opc
       \/ opc = "asleep" /\ opc' = "wait" /\ UNCHANGED wpc
    /\ UNCHANGED <<jar, diskVars, stateVars, snap, result, exitOk, key,
                   task, ask, attached, ghostVars>>

(* Copy revision and contents together under the jar's lock only. *)
WorkerSnapshot ==
    /\ wpc = "snapshot"
    /\ snap' = jar
    /\ wpc' = "key"
    /\ UNCHANGED <<jar, diskVars, stateVars, result, exitOk, key, ownerVars, ghostVars>>

(* OnceLock::get_or_init: the keychain answers once per process. *)
WorkerKey ==
    /\ wpc = "key"
    /\ key' \in IF key = "unasked" THEN {"granted", "refused"} ELSE {key}
    /\ wpc' = IF key' = "granted" THEN "create" ELSE "report"
    /\ result' = FALSE
    /\ UNCHANGED <<jar, diskVars, stateVars, snap, exitOk, ownerVars, ghostVars>>

(* write_atomic, one file operation at a time: the sealed bytes go to a    *)
(* temporary of their own, *)
CreateTemporary ==
    /\ wpc = "create"
    /\ tmp' = "unsynced"
    /\ wpc' = "sync"
    /\ UNCHANGED <<jar, file, fileWhole, durable, plain, stateVars, snap, result,
                   exitOk, key, ownerVars, ghostVars>>

SyncTemporary_Skipped ==
    /\ wpc = "sync"
    /\ wpc' = "rename"
    /\ UNCHANGED <<jar, diskVars, stateVars, snap, result, exitOk, key, ownerVars,
                   ghostVars>>

(* are synced, *)
SyncTemporary ==
    /\ wpc = "sync"
    /\ tmp' = "synced"
    /\ wpc' = "rename"
    /\ UNCHANGED <<jar, file, fileWhole, durable, plain, stateVars, snap, result,
                   exitOk, key, ownerVars, ghostVars>>

(* take the cookie file's name -- whole after a crash only if synced before, *)
RenameTemporary ==
    /\ wpc = "rename"
    /\ file' = snap
    /\ fileWhole' = (tmp = "synced")
    /\ tmp' = "none"
    /\ wpc' = "syncdir"
    /\ UNCHANGED <<jar, durable, plain, stateVars, snap, result, exitOk, key,
                   ownerVars, ghostVars>>

Readable == IF fileWhole THEN file ELSE 0

(* and keep it: after the directory's sync no crash brings the old one back. *)
SyncDirectory ==
    /\ wpc = "syncdir"
    /\ durable' = Readable
    /\ result' = TRUE
    /\ wpc' = "report"
    /\ UNCHANGED <<jar, file, fileWhole, tmp, plain, stateVars, snap, exitOk, key,
                   ownerVars, ghostVars>>

(* Sealing or any file operation fails; the temporary is removed. *)
WriteFails ==
    /\ wpc \in Writing
    /\ tmp' = "none"
    /\ result' = FALSE
    /\ wpc' = "report"
    /\ UNCHANGED <<jar, file, fileWhole, durable, plain, stateVars, snap, exitOk, key,
                   ownerVars, ghostVars>>

(* The write callback panics; only the Completion guard runs. *)
WorkerPanics ==
    /\ wpc = "create"
    /\ wpc' = "unwind"
    /\ exitOk' = FALSE
    /\ UNCHANGED <<jar, diskVars, stateVars, snap, result, key, ownerVars, ghostVars>>

WrittenAfter_AnyOutcome == snap
WrittenAfter == IF result THEN snap ELSE written

(* The outcome is recorded under the state lock and everyone is woken. *)
WorkerReport ==
    /\ wpc = "report"
    /\ wanted' = Larger(wanted, snap)
    /\ moved' = TRUE
    /\ last' = [rev |-> snap, ok |-> result]
    /\ written' = WrittenAfter
    /\ retryAt' = IF result THEN "none" ELSE "pending"
    /\ wpc' = IF key = "refused" \/ (stopping /\ ~result) THEN "unwind" ELSE "check"
    /\ opc' = OwnerAwake
    /\ UNCHANGED <<jar, diskVars, stopping, finished, snap, result, exitOk, key,
                   task, ask, attached, ghostVars>>

(* Completion::drop. *)
WorkerUnwinds ==
    /\ wpc = "unwind"
    /\ finished' = TRUE
    /\ wpc' = "gone"
    /\ opc' = OwnerAwake
    /\ UNCHANGED <<jar, diskVars, wanted, written, moved, last, retryAt, stopping,
                   snap, result, exitOk, key, task, ask, attached, ghostVars>>

-----------------------------------------------------------------------------
(* The content owner: CookieStore's operations, one at a time. *)

(* migrate_plain: what the plain file held is put into the jar, and a flush *)
(* follows before the file may go. A file that cannot be read is left where *)
(* it is, and so is one whose flush has no worker because none would spawn. *)
ImportPlain ==
    /\ opc = "import"
    /\ \/ /\ jar' = jar + 1 /\ plainRev' = jar + 1 /\ ask' = jar + 1
          /\ wpc' = "check" /\ opc' = "set" /\ task' = "migrate"
       \/ /\ jar' \in {jar, jar + 1}
          /\ opc' = "idle"
          /\ UNCHANGED <<plainRev, ask, wpc, task>>
    /\ UNCHANGED <<diskVars, stateVars, snap, result, exitOk, key, attached,
                   acked, crashes>>

(* schedule_flush, flush and drop all begin by reading the revision. With   *)
(* no worker yet and nothing new they end there; the worker may also fail   *)
(* to spawn.                                                                *)
Begin(t) ==
    /\ opc = "idle"
    /\ attached \/ t = "drop"
    /\ ask' = jar
    /\ LET nothingNew == wpc = "unborn" /\ jar = written
           spawns     == wpc = "unborn" /\ jar # written /\ attached
           leave      == /\ opc' = IF t = "drop" THEN "gone" ELSE "idle"
                         /\ task' = "none"
                         /\ UNCHANGED wpc
       IN \/ /\ nothingNew \/ spawns \/ ~attached
             /\ leave
          \/ /\ spawns
             /\ wpc' = "check" /\ opc' = "set" /\ task' = t
          \/ /\ wpc # "unborn"
             /\ opc' = "set" /\ task' = t
             /\ UNCHANGED wpc
    /\ UNCHANGED <<jar, diskVars, stateVars, snap, result, exitOk, key, attached,
                   ghostVars>>

(* CookieWriter::schedule. *)
ScheduleSet ==
    /\ opc = "set" /\ task \in {"schedule", "drop"}
    /\ IF ask > wanted
       THEN wanted' = ask /\ retryAt' = "none" /\ wpc' = Awake(wpc)
       ELSE UNCHANGED <<wanted, retryAt, wpc>>
    /\ opc' = IF task = "drop" THEN "finish" ELSE "idle"
    /\ task' = IF task = "drop" THEN "drop" ELSE "none"
    /\ UNCHANGED <<jar, diskVars, written, moved, last, stopping, finished, snap,
                   result, exitOk, key, ask, attached, ghostVars>>

Answer_UnlinksAnyway(yes) ==
    /\ acked' = IF yes THEN Larger(acked, ask) ELSE acked
    /\ opc' = IF task = "migrate" THEN "unlink" ELSE "idle"
    /\ task' = "none"

(* flush answers: yes acknowledges the revision it was called with, and a  *)
(* migration goes on to remove the plain file.                             *)
Answer(yes) ==
    /\ acked' = IF yes THEN Larger(acked, ask) ELSE acked
    /\ opc' = IF yes /\ task = "migrate" THEN "unlink" ELSE "idle"
    /\ task' = "none"

(* CookieWriter::flush up to its waiting loop. moved is attempts > before. *)
FlushSet ==
    /\ opc = "set" /\ task \in {"flush", "migrate"}
    /\ \/ /\ written >= ask
          /\ Answer(TRUE)
          /\ UNCHANGED <<wanted, retryAt, moved, wpc>>
       \/ /\ written < ask
          /\ moved' = FALSE
          /\ wanted' = Larger(wanted, ask)
          /\ retryAt' = "none"
          /\ wpc' = Awake(wpc)
          /\ opc' = "wait"
          /\ UNCHANGED <<task, acked>>
    /\ UNCHANGED <<jar, diskVars, written, last, stopping, finished, snap, result,
                   exitOk, key, ask, attached, plainRev, crashes>>

FlushFailed_IgnoresExit == moved /\ last.rev >= ask /\ ~last.ok
FlushFailed == finished \/ (moved /\ last.rev >= ask /\ ~last.ok)

(* One evaluation of flush's loop, under the state lock. *)
FlushWait ==
    /\ opc = "wait"
    /\ \/ /\ written >= ask
          /\ Answer(TRUE)
       \/ /\ written < ask /\ FlushFailed
          /\ Answer(FALSE)
       \/ /\ written < ask /\ ~FlushFailed
          /\ opc' = "asleep"
          /\ UNCHANGED <<acked, task>>
    /\ UNCHANGED <<jar, diskVars, stateVars, workerVars, ask, attached, plainRev,
                   crashes>>

(* The plain file is removed, or its removal fails and it stays. *)
RemovePlain ==
    /\ opc = "unlink"
    /\ plain' \in {FALSE, plain}
    /\ opc' = "idle"
    /\ UNCHANGED <<jar, file, fileWhole, durable, tmp, stateVars, workerVars, task,
                   ask, attached, ghostVars>>

(* CookieWriter::finish reads the revision once more, *)
FinishRead ==
    /\ opc = "finish"
    /\ ask' = jar
    /\ opc' = "stop"
    /\ UNCHANGED <<jar, diskVars, stateVars, workerVars, task, attached, ghostVars>>

(* asks the worker to stop, *)
FinishStop ==
    /\ opc = "stop"
    /\ wanted' = Larger(wanted, ask)
    /\ stopping' = TRUE
    /\ retryAt' = "none"
    /\ wpc' = Awake(wpc)
    /\ opc' = "join"
    /\ UNCHANGED <<jar, diskVars, written, moved, last, finished, snap, result,
                   exitOk, key, task, ask, attached, ghostVars>>

(* and joins it, reporting what it returned. *)
FinishJoin ==
    /\ opc = "join"
    /\ wpc = "gone"
    /\ acked' = IF exitOk THEN Larger(acked, ask) ELSE acked
    /\ opc' = "gone"
    /\ task' = "none"
    /\ UNCHANGED <<jar, diskVars, stateVars, workerVars, ask, attached, plainRev,
                   crashes>>

-----------------------------------------------------------------------------
(* The process dies, during any of the above or after it all, and a next   *)
(* one starts from what the disk shows it: the old file, or a replacement  *)
(* that was renamed and not yet synced. What it reads has settled on disk. *)
Crash ==
    /\ crashes < MaxCrashes
    /\ crashes' = crashes + 1
    /\ \E kept \in {durable, Readable} :
         /\ file' = kept /\ durable' = kept
         /\ jar' = kept /\ wanted' = kept /\ written' = kept
         /\ snap' = kept /\ ask' = kept
         /\ key' \in KeyAnswers(kept > 0 \/ plain)
    /\ attached' = (key' # "refused")
    /\ opc' = IF plain /\ attached' THEN "import" ELSE "idle"
    /\ fileWhole' = TRUE /\ tmp' = "none"
    /\ moved' = FALSE /\ last' = NoAttempt /\ retryAt' = "none"
    /\ stopping' = FALSE /\ finished' = FALSE
    /\ wpc' = "unborn" /\ result' = FALSE /\ exitOk' = FALSE
    /\ task' = "none"
    /\ plainRev' = IF plain THEN 0 ELSE plainRev
    /\ UNCHANGED <<plain, acked>>

(* The store is dropped and everything has stopped. *)
Terminated ==
    /\ opc = "gone"
    /\ UNCHANGED vars

Worker ==
    \/ WorkerCheck \/ WorkerSnapshot \/ WorkerKey
    \/ CreateTemporary \/ SyncTemporary \/ RenameTemporary \/ SyncDirectory
    \/ WriteFails \/ WorkerPanics \/ WorkerReport \/ WorkerUnwinds

Owner ==
    \/ ImportPlain \/ ScheduleSet \/ FlushSet \/ FlushWait \/ RemovePlain
    \/ FinishRead \/ FinishStop \/ FinishJoin

Next ==
    \/ JarChanges
    \/ Worker
    \/ RetryFallsDue
    \/ SpuriousWake
    \/ \E t \in {"schedule", "flush", "drop"} : Begin(t)
    \/ Owner
    \/ Crash
    \/ Terminated

Spec == Init /\ [][Next]_vars

(* Both threads run whenever they can and time passes. *)
Fairness ==
    /\ WF_vars(Worker)
    /\ WF_vars(Owner)
    /\ WF_vars(RetryFallsDue)

FairSpec == Spec /\ Fairness

(* The disk, tried again and again, does not fail at the same step forever. *)
DiskRecovers ==
    /\ SF_vars(CreateTemporary)
    /\ SF_vars(SyncTemporary)
    /\ SF_vars(RenameTemporary)
    /\ SF_vars(SyncDirectory)

-----------------------------------------------------------------------------
(* Properties. *)

(* Whatever a flush or a finish said has reached the disk is in the file    *)
(* whichever moment the process dies at, between any two file operations   *)
(* of a later write included (write_atomic's order: sync, rename, sync).   *)
AckedSurvivesCrash == \A kept \in {durable, Readable} : acked <= kept

(* An older build's plain file is removed only once the sealed file keeps  *)
(* what it held, also across a crash and a second take-over.               *)
PlainRemovedOnlyWhenSealed == ~plain => plainRev <= durable

(* Nobody sleeps on the shared condition variable with work to do: a       *)
(* worker asleep without a deadline has nothing to write and no stop to    *)
(* obey, one asleep until a deadline has that deadline ahead, and a        *)
(* sleeping flush has no answer waiting in the state it would re-read.     *)
NoLostWakeup ==
    /\ wpc = "asleep" => written >= wanted /\ ~stopping
    /\ wpc = "timed" => retryAt = "pending" /\ ~stopping
    /\ opc = "asleep" => written < ask /\ ~FlushFailed

(* The durable promise, as the abstract store states it. *)
Promise == INSTANCE DurableStore WITH disk <- durable
ImplementsPromise == Promise!Spec

(* A flush is a barrier, not a trap: it answers even when the key is        *)
(* refused, every write fails or the worker panics.                        *)
Flushing == opc \in {"wait", "asleep"}
FlushAnswers == Flushing ~> ~Flushing

(* On a disk that recovers, what was asked for is written, by retries      *)
(* nobody else has to prompt, unless the process dies and forgets it or    *)
(* the worker is gone (no key, or told to stop).                           *)
WantedIsWritten ==
    DiskRecovers =>
        \A r \in 1 .. MaxRev :
            wanted >= r ~> \/ written >= r \/ wanted < r
                           \/ wpc \in {"unwind", "gone"}
=============================================================================
