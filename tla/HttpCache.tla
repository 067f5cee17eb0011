------------------------------ MODULE HttpCache ------------------------------
(***************************************************************************)
(* The cache of responses: a memory tier and a disk tier behind one lock,  *)
(* the thread that owns the writing of files, and the loads of a runtime   *)
(* that let go of the lock while they read a file or wait for a server.    *)
(*                                                                         *)
(* A response is whose body it has, whether a validator came with it and   *)
(* the cookie it depends on, if the server said Vary: Cookie. How long it  *)
(* is good for is a choice made anew at each look-up, which stands for the *)
(* clock and the headers that feed it. Every body weighs one. Redirects    *)
(* are left out: a chain is one exchange, under the address asked first.   *)
(*                                                                         *)
(* A definition X_Something is a mutant of X, and is used by no other.     *)
(***************************************************************************)
EXTENDS Naturals, FiniteSets, SequencesExt

CONSTANTS
    Url, Hash,      \* addresses, and what a file of the cache is named after
    Varies, Tagged, \* the addresses whose server sends Vary: Cookie; an ETag
    Load,           \* the loads there can be at one moment
    Cookie,         \* values of the one Cookie header
    MemRoom,        \* Capacity.bytes
    DiskRoom,       \* Disk.capacity and ENTRY_LIMIT
    QueueRoom,      \* QUEUE_LIMIT
    MaxLoads, MaxEvents,  \* bounds of the instance
    None

Mode == {"Default", "Reload", "Bypass"}
Use == {"Fresh", "Stale"}
Status == {200, 304}
FileName == Hash \X {"entry", "writing"}

(* A body is known by the address that sent it. Only a 304 that is taken   *)
(* for an answer has none.                                                 *)
Stored == [url : Url, body : Url \cup {None}, varied : Cookie \cup {None}]
File == [stored : Stored, whole : BOOLEAN]
Job == [op : {"Write"}, stored : Stored] \cup [op : {"Remove"}, file : FileName]
Response == [status : Status, stored : Stored, keep : BOOLEAN]

ASSUME CacheAssumption ==
    /\ Varies \cup Tagged \subseteq Url /\ None \notin Url \cup Cookie \cup Stored \cup File /\ Cookie # {}
    /\ IsFiniteSet(Hash) /\ \A n \in {MemRoom, DiskRoom, QueueRoom} : n \in Nat \ {0}
    /\ {MaxLoads, MaxEvents} \subseteq Nat

VARIABLES
    entries,   \* the memory tier, least recently used first
    index,     \* the disk tier's index, least recently used first
    jobs,      \* what the writing thread has been sent, its current job first
    step,      \* how far it is with that job
    files,     \* the directory: each name, and the file of that name if there is one
    attached,  \* whether the disk tier has been opened in this run
    loads,     \* each load: where it is, and what it carries over a wait
    cookie,    \* what the jar would send now
    nameOf,    \* name_for: the same for every run
    count      \* how often each bounded thing has happened

vars == <<entries, index, jobs, step, files, attached, loads, cookie, nameOf, count>>

Idle == [at |-> "idle"]

(* What ends a run, empties the cache or fails is bounded together.        *)
Event(kind) ==
    /\ count.clears + count.failures + count.crashes + count.quits < MaxEvents
    /\ count' = [count EXCEPT ![kind] = @ + 1]

(***************************************************************************)
(* Entries and files.                                                      *)
(***************************************************************************)

Holding(es, u) == {i \in DOMAIN es : es[i].url = u}
Place(es, u) == CHOOSE i \in Holding(es, u) : TRUE
Without(es, u) == IF Holding(es, u) = {} THEN es ELSE RemoveAt(es, Place(es, u))
Only(es, u) == IF Holding(es, u) = {} THEN <<>> ELSE <<es[Place(es, u)]>>
EntryFor(u) == entries[Place(entries, u)]
FileOf(u) == <<nameOf[u], "entry">>
TempOf(u) == <<nameOf[u], "writing">>
Newest(es, room) == IF Len(es) <= room THEN es ELSE SubSeq(es, Len(es) - room + 1, Len(es))

(* The memory tier with e in it, used last, and the oldest evicted.        *)
Remember(es, e) == Newest(Append(Without(es, e.url), e), MemRoom)

Removals(es) == [i \in DOMAIN es |-> [op |-> "Remove", file |-> es[i].file]]

(* Disk operations take and give the index and the queue as one record.    *)
Disk == [index |-> index, jobs |-> jobs]

Forget_KeepsFile(d, u) == [d EXCEPT !.index = Without(d.index, u)]
Forget(d, u) ==
    [index |-> Without(d.index, u),
     jobs  |-> d.jobs \o Removals(Only(d.index, u))]

Queued(js) == Cardinality({i \in DOMAIN js : js[i].op = "Write"})

MakeRoom(d) ==
    LET over == IF Len(d.index) > DiskRoom THEN Len(d.index) - DiskRoom ELSE 0
    IN  [index |-> Newest(d.index, DiskRoom),
         jobs  |-> d.jobs \o Removals(SubSeq(d.index, 1, over))]

(* A write that finds the queue full is not made: the index stays as it    *)
(* was, and so does the file.                                              *)
Write_IndexFirst(d, e) ==
    LET listed == Append(Without(d.index, e.url), [url |-> e.url, file |-> FileOf(e.url)])
    IN  IF ~attached THEN d
        ELSE IF Queued(d.jobs) + 1 > QueueRoom THEN MakeRoom([d EXCEPT !.index = listed])
        ELSE MakeRoom([index |-> listed, jobs |-> Append(d.jobs, [op |-> "Write", stored |-> e])])
Write(d, e) ==
    IF ~attached \/ Queued(d.jobs) + 1 > QueueRoom THEN d
    ELSE MakeRoom([index |-> Append(Without(d.index, e.url), [url |-> e.url, file |-> FileOf(e.url)]),
                   jobs  |-> Append(d.jobs, [op |-> "Write", stored |-> e])])

DiskBecomes(d) == index' = d.index /\ jobs' = d.jobs

(* Cache::store and Cache::remove, by whether the rules keep the response. *)
Keep(d, e, kept) ==
    /\ DiskBecomes(IF kept THEN Write(Forget(d, e.url), e) ELSE Forget(d, e.url))
    /\ entries' = IF kept THEN Remember(entries, e) ELSE Without(entries, e.url)

(***************************************************************************)
(* A load.                                                                 *)
(***************************************************************************)

Goes(l, record) == loads' = [loads EXCEPT ![l] = record]
Answer(l, from, e) ==
    Goes(l, [at |-> "answered", url |-> loads[l].url, from |-> from, stored |-> e, varying |-> loads[l].varying])

(* Where a load goes on: it knows its address, what it would send, and     *)
(* how it may use what is kept.                                            *)
Looking(u, mode, varying) == [at |-> "looking", url |-> u, mode |-> mode, varying |-> varying]
Sending(u, varying, asks) == [at |-> "sending", url |-> u, varying |-> varying, asks |-> asks]

(* The first lock: what the request would send now, and which file may     *)
(* answer if nothing in memory does.                                       *)
Begin(l, u, mode) ==
    /\ loads[l].at \in {"idle", "answered"} /\ count.loads < MaxLoads
    /\ count' = [count EXCEPT !.loads = @ + 1]
    /\ Goes(l, IF mode = "Bypass" THEN Sending(u, cookie, FALSE)
               ELSE IF Holding(entries, u) = {} /\ Holding(index, u) # {}
               THEN [at |-> "reading", url |-> u, mode |-> mode, varying |-> cookie,
                     file |-> index[Place(index, u)].file]
               ELSE Looking(u, mode, cookie))
    /\ UNCHANGED <<entries, index, jobs, step, files, attached, cookie, nameOf>>

(* On the blocking pool, with the lock dropped. A file that is not there or *)
(* is cut short reads as nothing.                                          *)
ReadAt(l) ==
    /\ loads[l].at = "reading"
    /\ LET name == loads[l].file
           read == IF files[name] # None /\ files[name].whole THEN files[name].stored ELSE None
       IN  Goes(l, [at |-> "read", url |-> loads[l].url, mode |-> loads[l].mode,
                    varying |-> loads[l].varying, read |-> read])
    /\ UNCHANGED <<entries, index, jobs, step, files, attached, cookie, nameOf, count>>

(* The address inside the file decides. What memory got meanwhile stays.   *)
TakeRead_Unchecked(l) ==
    /\ loads[l].at = "read"
    /\ LET u == loads[l].url
       IN  IF loads[l].read # None
           THEN /\ entries' = IF Holding(entries, u) # {} THEN entries
                              ELSE Remember(entries, [loads[l].read EXCEPT !.url = u])
                /\ UNCHANGED <<index, jobs>>
           ELSE DiskBecomes(Forget(Disk, u)) /\ UNCHANGED entries
    /\ Goes(l, Looking(loads[l].url, loads[l].mode, loads[l].varying))
    /\ UNCHANGED <<step, files, attached, cookie, nameOf, count>>
TakeRead(l) ==
    /\ loads[l].at = "read"
    /\ LET u == loads[l].url
           read == loads[l].read
       IN  IF read # None /\ read.url = u
           THEN /\ entries' = IF Holding(entries, u) # {} THEN entries ELSE Remember(entries, read)
                /\ index' = IF Holding(entries, u) # {} THEN index
                            ELSE Without(index, u) \o Only(index, u)
                /\ UNCHANGED jobs
           ELSE DiskBecomes(Forget(Disk, u)) /\ UNCHANGED entries
    /\ Goes(l, Looking(loads[l].url, loads[l].mode, loads[l].varying))
    /\ UNCHANGED <<step, files, attached, cookie, nameOf, count>>

(* Whether an entry answers a request that carries this cookie.            *)
Answers(e, carried) == e.varied \in {None, carried}

(* look_up: an entry past its lifetime is still of use if it can be asked  *)
(* about, and is passed over if it has nothing to ask with.                *)
Found(u, carried, use) ==
    /\ Holding(entries, u) # {}
    /\ Answers(EntryFor(u), carried)
    /\ use = "Stale" => u \in Tagged

(* The third lock. A load that is not answered is sent with the entry's    *)
(* validator, or with none.                                                *)
LookUp(l, use) ==
    /\ loads[l].at = "looking"
    /\ LET u     == loads[l].url
           found == Found(u, loads[l].varying, use)
       IN  /\ entries' = IF found THEN Remember(entries, EntryFor(u)) ELSE entries
           /\ IF found /\ use = "Fresh" /\ loads[l].mode = "Default"
              THEN Answer(l, "Cache", EntryFor(u))
              ELSE Goes(l, Sending(u, loads[l].varying, found /\ u \in Tagged))
    /\ UNCHANGED <<index, jobs, step, files, attached, cookie, nameOf, count>>

(* The server answers what it was sent, which carries the cookie of this   *)
(* moment. It says 304 only to a request that asked about a validator.     *)
Serve(l, status, keep) ==
    /\ loads[l].at = "sending"
    /\ LET u == loads[l].url
       IN  /\ status = 304 => loads[l].asks
           /\ Goes(l, [at |-> "replied", url |-> u, varying |-> loads[l].varying, response |->
                         [status |-> status, keep |-> keep, stored |->
                            [url |-> u, body |-> IF status = 200 THEN u ELSE None,
                             varied |-> IF u \in Varies THEN cookie ELSE None]]])
    /\ UNCHANGED <<entries, index, jobs, step, files, attached, cookie, nameOf, count>>

(* What Vary named is recorded from `varying`, taken when the load began.  *)
Recorded(l) ==
    LET e == loads[l].response.stored
    IN  [e EXCEPT !.varied = IF e.varied = None THEN None ELSE loads[l].varying]

(* A 304 brings the entry the address holds now up to date, on disk too,   *)
(* and that entry answers if it still may.                                 *)
NotModified(l) ==
    /\ loads[l].at = "replied" /\ loads[l].response.status = 304
    /\ LET u == loads[l].url
       IN  /\ Found(u, loads[l].varying, "Fresh")
           /\ DiskBecomes(Write(Disk, EntryFor(u)))
           /\ entries' = Remember(entries, EntryFor(u))
           /\ Answer(l, "Revalidated", EntryFor(u))
    /\ UNCHANGED <<step, files, attached, cookie, nameOf, count>>

(* A 304 with nothing to answer for it is given to the caller as it came,  *)
(* and is kept if its headers allow.                                       *)
BareNotModified(l) ==
    /\ loads[l].at = "replied" /\ loads[l].response.status = 304
    /\ LET u == loads[l].url
           d == IF Holding(entries, u) # {} THEN Write(Disk, EntryFor(u)) ELSE Disk
       IN  /\ ~Found(u, loads[l].varying, "Fresh")
           /\ Keep(d, Recorded(l), loads[l].response.keep)
    /\ Answer(l, "Network", loads[l].response.stored)
    /\ UNCHANGED <<step, files, attached, cookie, nameOf, count>>

(* The whole body has arrived.                                             *)
Receive(l) ==
    /\ loads[l].at = "replied" /\ loads[l].response.status = 200
    /\ Keep(Disk, Recorded(l), loads[l].response.keep)
    /\ Answer(l, "Network", loads[l].response.stored)
    /\ UNCHANGED <<step, files, attached, cookie, nameOf, count>>

(* A load is dropped at a wait: cancelled, refused, too large, unreachable. *)
Abandon(l) ==
    /\ loads[l].at \notin {"idle", "answered"}
    /\ Goes(l, Idle)
    /\ UNCHANGED <<entries, index, jobs, step, files, attached, cookie, nameOf, count>>

(***************************************************************************)
(* The writing thread, one job at a time.                                  *)
(***************************************************************************)

Head1 == jobs[1]
Writing(s) == jobs # <<>> /\ Head1.op = "Write" /\ step = s

WriteBeside ==
    /\ Writing("take") /\ step' = "beside"
    /\ files' = [files EXCEPT ![TempOf(Head1.stored.url)] = [stored |-> Head1.stored, whole |-> FALSE]]
    /\ UNCHANGED <<entries, index, jobs, attached, loads, cookie, nameOf, count>>

FillBeside ==
    /\ Writing("beside") /\ step' = "filled"
    /\ files' = [files EXCEPT ![TempOf(Head1.stored.url)].whole = TRUE]
    /\ UNCHANGED <<entries, index, jobs, attached, loads, cookie, nameOf, count>>

RenameOver ==
    /\ Writing("filled") /\ step' = "take" /\ jobs' = Tail(jobs)
    /\ LET u == Head1.stored.url
       IN  files' = [files EXCEPT ![FileOf(u)] = files[TempOf(u)], ![TempOf(u)] = None]
    /\ UNCHANGED <<entries, index, attached, loads, cookie, nameOf, count>>

(* A write or a rename that fails is warned about and passed over; what it *)
(* left beside the file stays there.                                       *)
WriteFails ==
    /\ jobs # <<>> /\ Head1.op = "Write" /\ Event("failures")
    /\ step' = "take" /\ jobs' = Tail(jobs)
    /\ UNCHANGED <<entries, index, files, attached, loads, cookie, nameOf>>

RemoveFile ==
    /\ jobs # <<>> /\ Head1.op = "Remove"
    /\ jobs' = Tail(jobs) /\ files' = [files EXCEPT ![Head1.file] = None]
    /\ UNCHANGED <<entries, index, step, attached, loads, cookie, nameOf, count>>

Writer == WriteBeside \/ FillBeside \/ RenameOver \/ WriteFails \/ RemoveFile

(***************************************************************************)
(* The reader, the server, and the process.                                *)
(***************************************************************************)

(* Forgetting one site, here one address, and forgetting everything.       *)
ClearSite(u) ==
    /\ Event("clears")
    /\ entries' = Without(entries, u) /\ DiskBecomes(Forget(Disk, u))
    /\ UNCHANGED <<step, files, attached, loads, cookie, nameOf>>

Clear ==
    /\ Event("clears")
    /\ entries' = <<>> /\ index' = <<>> /\ jobs' = jobs \o Removals(index)
    /\ UNCHANGED <<step, files, attached, loads, cookie, nameOf>>

SetCookie(c) ==
    /\ Varies # {} /\ cookie' = c /\ cookie # c
    /\ UNCHANGED <<entries, index, jobs, step, files, attached, loads, nameOf, count>>

(* What the scan of a directory may leave in the index: every whole file,  *)
(* in either order where two answer for one address.                       *)
Whole(fs) == {n \in FileName : fs[n] # None /\ fs[n].whole}
Scanned(fs) ==
    LET urls == {fs[n].stored.url : n \in Whole(fs)}
        of   == {p \in [urls -> Whole(fs)] : \A u \in urls : fs[p[u]].stored.url = u}
    IN  UNION {{[i \in DOMAIN s |-> [url |-> s[i], file |-> p[s[i]]]] : s \in SetToSeqs(urls)} : p \in of}

(* The disk is opened away from the start of the run, and attached to a    *)
(* cache that may have answered already.                                   *)
AttachDisk ==
    /\ ~attached /\ attached' = TRUE
    /\ \E found \in Scanned(files) : DiskBecomes(MakeRoom([index |-> found, jobs |-> <<>>]))
    /\ UNCHANGED <<entries, step, files, loads, cookie, nameOf, count>>

NextRun ==
    /\ entries' = <<>> /\ index' = <<>> /\ jobs' = <<>> /\ step' = "take"
    /\ attached' = FALSE /\ loads' = [l \in Load |-> Idle]
    /\ UNCHANGED <<cookie, nameOf>>

(* Dropping the cache finishes the queue; a crash does not, and may cut a  *)
(* renamed file short, since nothing is synced.                            *)
Quit ==
    /\ jobs = <<>> /\ Event("quits")
    /\ NextRun /\ UNCHANGED files
Crash ==
    /\ Event("crashes")
    /\ NextRun
    /\ \E cut \in SUBSET Whole(files) :
          files' = [n \in FileName |-> IF n \in cut THEN [files[n] EXCEPT !.whole = FALSE] ELSE files[n]]

Init ==
    /\ entries = <<>> /\ index = <<>> /\ jobs = <<>> /\ step = "take"
    /\ files = [n \in FileName |-> None] /\ attached = FALSE
    /\ loads = [l \in Load |-> Idle]
    /\ cookie \in Cookie
    /\ nameOf \in [Url -> Hash]
    /\ count = [loads |-> 0, clears |-> 0, failures |-> 0, crashes |-> 0, quits |-> 0]

Next ==
    \/ \E l \in Load :
          \/ \E u \in Url, mode \in Mode : Begin(l, u, mode)
          \/ ReadAt(l) \/ TakeRead(l) \/ Receive(l) \/ Abandon(l)
          \/ NotModified(l) \/ BareNotModified(l)
          \/ \E use \in Use : LookUp(l, use)
          \/ \E status \in Status, keep \in BOOLEAN : Serve(l, status, keep)
    \/ Writer
    \/ \E u \in Url : ClearSite(u)
    \/ \E c \in Cookie : SetCookie(c)
    \/ Clear \/ AttachDisk \/ Quit \/ Crash

Spec == Init /\ [][Next]_vars

(***************************************************************************)
(* Properties.                                                             *)
(***************************************************************************)

(* A load between two of its waits, with what it carries over each.        *)
Waiting == [at : {"reading"}, url : Url, mode : Mode, varying : Cookie, file : FileName]
    \cup [at : {"read"}, url : Url, mode : Mode, varying : Cookie, read : Stored \cup {None}]
    \cup [at : {"looking"}, url : Url, mode : Mode, varying : Cookie]
    \cup [at : {"sending"}, url : Url, varying : Cookie, asks : BOOLEAN]
Replied == [at : {"replied"}, url : Url, varying : Cookie, response : Response]
Reply == [at : {"answered"}, url : Url, varying : Cookie, stored : Stored,
          from : {"Cache", "Revalidated", "Network"}]

TypeOK ==
    /\ entries \in Seq(Stored) /\ Len(entries) <= MemRoom
    /\ index \in Seq([url : Url, file : FileName]) /\ Len(index) <= DiskRoom
    /\ \A es \in {entries, index} : \A i, j \in DOMAIN es : es[i].url = es[j].url => i = j
    /\ jobs \in Seq(Job) /\ Queued(jobs) <= QueueRoom
    /\ step \in {"take", "beside", "filled"} /\ attached \in BOOLEAN
    /\ files \in [FileName -> File \cup {None}]
    /\ loads \in [Load -> {Idle} \cup Waiting \cup Replied \cup Reply]
    /\ cookie \in Cookie /\ nameOf \in [Url -> Hash]
    /\ count \in [loads : 0 .. MaxLoads, clears : Nat, failures : Nat, crashes : Nat, quits : Nat]

(* Whether a name holds a whole response of an address once the queue is   *)
(* played: the last job to touch it puts it there, or none does and it is  *)
(* there already.                                                          *)
Touches(job, n) == IF job.op = "Remove" THEN n = job.file
                   ELSE n \in {FileOf(job.stored.url), TempOf(job.stored.url)}
Untouched(js, n, i) == \A k \in DOMAIN js : k > i => ~Touches(js[k], n)
Ends(js, n, u) ==
    \/ files[n] # None /\ files[n].whole /\ files[n].stored.url = u /\ Untouched(js, n, 0)
    \/ \E i \in DOMAIN js : /\ js[i].op = "Write" /\ js[i].stored.url = u
                           /\ n = FileOf(u) /\ Untouched(js, n, i)

Answered(l) == loads[l].at = "answered"

(* Two addresses may share a file, a file may be cut short, and a reader's *)
(* cookie may change: whatever a load is answered with from the cache is a *)
(* whole response for its own address, and one that does not depend on a   *)
(* cookie other than the one the load carried.                             *)
OwnAnswer ==
    \A l \in Load : Answered(l) =>
        /\ loads[l].stored.body \in {loads[l].url, None}
        /\ loads[l].from # "Network" => loads[l].stored.varied \in {None, loads[l].varying}

(* What was cleared, evicted or replaced by a response that may not be     *)
(* kept leaves no file for the next run to find: once the queue is played, *)
(* every whole file holds an address the index lists. What a failed write  *)
(* or a crash left beside is not covered, and may come back: see README.md. *)
ForgottenLeavesNoFile ==
    attached /\ count.failures = 0 /\ count.crashes = 0 =>
        \A n \in FileName, u \in Url : Ends(jobs, n, u) => Holding(index, u) # {}

(* The other way: what the index lists is in its file once the queue is    *)
(* played, unless the file is shared with another address or a write has   *)
(* failed.                                                                 *)
Alone(u) == \A v \in Url \ {u} : nameOf[v] # nameOf[u]
IndexedIsOnFile ==
    count.failures = 0 =>
        \A i \in DOMAIN index : Alone(index[i].url) => Ends(jobs, index[i].file, index[i].url)
=============================================================================
