---------------------------- MODULE LocalStorage ----------------------------
(***************************************************************************)
(* The localStorage of a browser a person uses: one area shared by every   *)
(* document, written back to a file by threads that nobody waits for, and  *)
(* a log of changes from which the other documents of an origin are told.  *)
(*                                                                         *)
(* All script runs on the content owner, so a call of script is one step.  *)
(* What the area holds is known by the number of the change that made it,  *)
(* its moment; keys, values and the quota are left out, and so is a call   *)
(* that changes nothing, which costs one more write. A disk that loses a   *)
(* rename it has made is left out too: nothing here asks for a sync.       *)
(*                                                                         *)
(* A definition X_Something is a mutant of X, and is used by no other.     *)
(***************************************************************************)
EXTENDS Naturals, FiniteSets, SequencesExt

CONSTANTS
    Doc, Origin,
    Writer,       \* the writing threads there can be at one moment
    Owner,        \* the content owner, which writes when the area is dropped
    LogRoom,      \* LOG
    MaxChanges, MaxOpens, MaxFailures, MaxRuns,  \* bounds of the instance
    Short,        \* a text created or cut off, and not yet all written
    Mixed,        \* the text of one moment over that of another
    None

Thread == Writer \cup {Owner}
Inode == 1 .. Cardinality(Thread) + 2
Moment == 0 .. MaxChanges
Change == [seq : Nat, origin : Origin, source : Doc]

ASSUME StorageAssumption ==
    /\ Doc \subseteq Nat /\ IsFiniteSet(Writer) /\ Owner \notin Writer /\ None \notin Inode
    /\ LogRoom \in Nat \ {0}
    /\ {MaxChanges, MaxOpens, MaxFailures, MaxRuns} \subseteq Nat

VARIABLES
    phase,     \* whether the browser runs, is dropping the area or is gone
    area,      \* the moment the area is at
    dirty,     \* whether it changed since its text was last taken
    rested,    \* whether a second has passed since the last flush
    writers,   \* each thread: how far it is with the text it took
    names,     \* what the file and its partial file name, an inode or nothing
    content,   \* each inode: the moment of its text, or how it fell short
    crossed,   \* whether the write that last renamed the file met another
    made,      \* all changes script made in this run, in order: next is their number
    log,       \* the newest of them
    docs,      \* each document: its origin, where it listens from, what it heard
    changes, opens, failures, runs  \* how often each bounded thing has happened

file == <<names, content>>
page == <<made, log, docs, opens>>
vars == <<phase, area, dirty, rested, writers, file, crossed, page, changes, failures, runs>>

Idle == [at |-> "idle"]
Closed == [open |-> FALSE]

Busy == {w \in Thread : writers[w].at # "idle"}
Path == IF names.path = None THEN 0 ELSE content[names.path]

(***************************************************************************)
(* Documents.                                                              *)
(***************************************************************************)

(* A document starts listening when its page is built, at the newest. That *)
(* the first to open is the first of Doc only tells them apart.            *)
Listen_FromTheLog(d, o) == docs' = [docs EXCEPT ![d] = [open |-> TRUE, ready |-> FALSE, origin |-> o,
                            since |-> Len(made), seen |-> 0, heard |-> <<>>]]
Listen(d, o) == docs' = [docs EXCEPT ![d] = [open |-> TRUE, ready |-> FALSE, origin |-> o,
                            since |-> Len(made), seen |-> Len(made), heard |-> <<>>]]
Open(d, o) ==
    /\ phase = "running" /\ opens < MaxOpens
    /\ \A e \in Doc : e < d => docs[e].open
    /\ opens' = opens + 1
    /\ Listen(d, o)
    /\ UNCHANGED <<phase, area, dirty, rested, writers, file, crossed, made, log, changes, failures, runs>>

(* The parse is over and the tab has the document's runner.                *)
Ready(d) ==
    /\ phase = "running" /\ docs[d].open /\ ~docs[d].ready
    /\ docs' = [docs EXCEPT ![d].ready = TRUE]
    /\ UNCHANGED <<phase, area, dirty, rested, writers, file, crossed, made, log, opens, changes, failures, runs>>

(* The area is at a new moment, and has to be written.                     *)
Changed_OnlyIfIdle ==
    /\ changes < MaxChanges /\ changes' = changes + 1
    /\ area' = changes + 1
    /\ dirty' = (dirty \/ Busy = {})
Changed ==
    /\ changes < MaxChanges /\ changes' = changes + 1
    /\ area' = changes + 1
    /\ dirty' = TRUE

Record(change) == IF Len(log) >= LogRoom THEN log' = Append(Tail(log), change)
                  ELSE log' = Append(log, change)

(* setItem, removeItem or clear.                                           *)
Script(d) ==
    /\ phase = "running" /\ docs[d].open
    /\ Changed
    /\ LET change == [seq |-> Len(made) + 1, origin |-> docs[d].origin, source |-> d]
       IN  made' = Append(made, change) /\ Record(change)
    /\ UNCHANGED <<phase, rested, writers, file, crossed, docs, opens, failures, runs>>

(* A person clears a site's data: no document is told.                     *)
Forget ==
    /\ phase = "running" /\ Changed
    /\ UNCHANGED <<phase, rested, writers, file, crossed, page, failures, runs>>

(* changes_since and drain_storage.                                        *)
For(d, change) == change.origin = docs[d].origin /\ change.source # d
Unheard(d, change) == For(d, change) /\ change.seq > docs[d].seen
Since(d) ==
    LET kept[i \in 0 .. Len(log)] ==
            IF i = 0 THEN <<>>
            ELSE IF Unheard(d, log[i]) THEN Append(kept[i - 1], log[i]) ELSE kept[i - 1]
    IN  kept[Len(log)]
Drained ==
    docs' = [d \in Doc |->
        IF ~docs[d].open \/ ~docs[d].ready \/ Since(d) = <<>> THEN docs[d]
        ELSE [docs[d] EXCEPT !.seen = Last(Since(d)).seq,
                             !.heard = @ \o [i \in DOMAIN Since(d) |-> Since(d)[i].seq]]]

(***************************************************************************)
(* Writing back.                                                           *)
(***************************************************************************)

(* A write begins. Nothing makes it wait for those under way, which no     *)
(* longer have the partial file to themselves then: solo records it, and   *)
(* changes nothing.                                                        *)
Met(writer) == IF writer.at = "idle" THEN writer ELSE [writer EXCEPT !.solo = FALSE]
Began(w) ==
    writers' = [v \in Thread |->
        IF v = w THEN [at |-> "opening", text |-> area, solo |-> Busy = {}] ELSE Met(writers[v])]

(* The flag goes down when the text is taken, by a writer or by the drop.  *)
Flush ==
    IF dirty /\ rested
    THEN /\ Writer \ Busy # {} /\ Began(CHOOSE w \in Writer \ Busy : TRUE)
         /\ dirty' = FALSE /\ rested' = FALSE
    ELSE UNCHANGED <<writers, dirty, rested>>

Pump ==
    /\ phase = "running"
    /\ Drained /\ Flush
    /\ UNCHANGED <<phase, area, file, crossed, made, log, opens, changes, failures, runs>>

Second ==
    /\ phase = "running" /\ ~rested
    /\ rested' = TRUE
    /\ UNCHANGED <<phase, area, dirty, writers, file, crossed, page, changes, failures, runs>>

(* The partial file is created, or what is there cut to nothing.           *)
Creates(w) ==
    /\ writers[w].at = "opening"
    /\ LET fresh == CHOOSE i \in Inode : i # names.path /\ \A v \in Thread : writers[v].at = "writing" => i # writers[v].inode
           inode == IF names.partial = None THEN fresh ELSE names.partial
       IN  /\ names' = [names EXCEPT !.partial = inode]
           /\ content' = [content EXCEPT ![inode] = Short]
           /\ writers' = [writers EXCEPT ![w] = [at |-> "writing", text |-> writers[w].text,
                                                 solo |-> writers[w].solo, inode |-> inode]]
    /\ UNCHANGED <<phase, area, dirty, rested, crossed, page, changes, failures, runs>>

(* Two threads in one inode may leave the text of either or some of both.  *)
Alone(w) == /\ content[writers[w].inode] = Short
            /\ \A v \in Thread \ {w} : writers[v].at = "writing" => writers[v].inode # writers[w].inode
Writes(w) ==
    /\ writers[w].at = "writing"
    /\ \E result \in {writers[w].text} \cup (IF Alone(w) THEN {} ELSE {Mixed}) :
           content' = [content EXCEPT ![writers[w].inode] = result]
    /\ writers' = [writers EXCEPT ![w] = [at |-> "renaming", solo |-> writers[w].solo]]
    /\ UNCHANGED <<phase, area, dirty, rested, names, crossed, page, changes, failures, runs>>

(* A thread that is done is gone; after the drop, so is the process.       *)
Done(w) ==
    IF w = Owner THEN phase' = "over" /\ writers' = [v \in Thread |-> Idle]
    ELSE UNCHANGED phase /\ writers' = [writers EXCEPT ![w] = Idle]

(* Another thread may have renamed the partial file already.               *)
Renames(w) ==
    /\ writers[w].at = "renaming"
    /\ names' = IF names.partial = None THEN names ELSE [partial |-> None, path |-> names.partial]
    /\ crossed' = IF names.partial = None THEN crossed ELSE ~writers[w].solo
    /\ Done(w)
    /\ UNCHANGED <<area, dirty, rested, content, page, changes, failures, runs>>

(* No thread, a full disk, a refused rename: a warning, and no more tries. *)
Fails_ButRenames(w) ==
    /\ w \in Busy /\ failures < MaxFailures
    /\ failures' = failures + 1
    /\ names' = IF names.partial = None THEN names ELSE [partial |-> None, path |-> names.partial]
    /\ Done(w)
    /\ UNCHANGED <<area, dirty, rested, content, crossed, page, changes, runs>>
Fails(w) ==
    /\ w \in Busy /\ failures < MaxFailures
    /\ failures' = failures + 1
    /\ Done(w)
    /\ UNCHANGED <<area, dirty, rested, file, crossed, page, changes, runs>>

(***************************************************************************)
(* Runs of the browser.                                                    *)
(***************************************************************************)

PageGone == docs' = [d \in Doc |-> Closed] /\ made' = <<>> /\ log' = <<>>

(* The world is dropped on its owner, which waits for no writer. A flag    *)
(* that is down means that there is nothing to write, and the process ends *)
(* with its writers under way.                                             *)
Quit ==
    /\ phase = "running"
    /\ PageGone
    /\ IF dirty
       THEN phase' = "dropping" /\ Began(Owner)
       ELSE phase' = "over" /\ writers' = [w \in Thread |-> Idle]
    /\ dirty' = FALSE
    /\ UNCHANGED <<area, rested, file, crossed, opens, changes, failures, runs>>

Crash ==
    /\ phase # "over" /\ runs < MaxRuns
    /\ phase' = "over"
    /\ writers' = [w \in Thread |-> Idle] /\ PageGone
    /\ UNCHANGED <<area, dirty, rested, file, crossed, opens, changes, failures, runs>>

(* StorageArea::persisted: a line that cannot be read is skipped.          *)
Start ==
    /\ phase = "over" /\ runs < MaxRuns
    /\ runs' = runs + 1
    /\ phase' = "running" /\ dirty' = FALSE /\ rested' = TRUE
    /\ area' = IF Path \in Moment THEN Path ELSE 0
    /\ UNCHANGED <<writers, file, crossed, page, changes, failures>>

(* Nothing is left to happen in this instance.                             *)
Over == phase = "over" /\ runs = MaxRuns /\ UNCHANGED vars

Init ==
    /\ phase = "running" /\ area = 0 /\ dirty = FALSE /\ rested = TRUE
    /\ writers = [w \in Thread |-> Idle]
    /\ names = [path |-> None, partial |-> None] /\ content = [i \in Inode |-> Short]
    /\ crossed = FALSE
    /\ made = <<>> /\ log = <<>> /\ docs = [d \in Doc |-> Closed]
    /\ changes = 0 /\ opens = 0 /\ failures = 0 /\ runs = 0

Next ==
    \/ \E d \in Doc : \/ \E o \in Origin : Open(d, o)
                      \/ Ready(d) \/ Script(d)
    \/ Forget \/ Pump \/ Second
    \/ \E w \in Thread : Creates(w) \/ Writes(w) \/ Renames(w) \/ Fails(w)
    \/ Quit \/ Crash \/ Start \/ Over

Spec == Init /\ [][Next]_vars

(* The loop pumps for as long as it runs, time passes, and the system runs *)
(* every thread. Nothing makes a person quit.                              *)
FairSpec ==
    /\ Spec
    /\ WF_vars(Pump) /\ WF_vars(Second)
    /\ \A w \in Thread : WF_vars(Creates(w)) /\ WF_vars(Writes(w)) /\ WF_vars(Renames(w))

-----------------------------------------------------------------------------

TypeOK ==
    /\ phase \in {"running", "dropping", "over"} /\ dirty \in BOOLEAN /\ rested \in BOOLEAN
    /\ area \in Moment
    /\ writers \in [Thread -> {Idle} \cup [at : {"opening"}, text : Moment, solo : BOOLEAN]
                                 \cup [at : {"renaming"}, solo : BOOLEAN]
                                 \cup [at : {"writing"}, text : Moment, solo : BOOLEAN, inode : Inode]]
    /\ crossed \in BOOLEAN
    /\ names \in [path : Inode \cup {None}, partial : Inode \cup {None}]
    /\ content \in [Inode -> Moment \cup {Short, Mixed}]
    /\ made \in Seq(Change) /\ log \in Seq(Change) /\ Len(log) <= LogRoom
    /\ docs \in [Doc -> {Closed} \cup [open : {TRUE}, ready : BOOLEAN, origin : Origin,
                                      since : Nat, seen : Nat, heard : Seq(Nat)]]
    /\ changes \in 0 .. MaxChanges /\ opens \in 0 .. MaxOpens
    /\ failures \in 0 .. MaxFailures /\ runs \in 0 .. MaxRuns

(* The file is what the area was at one moment, whole: never part of it,   *)
(* and never one moment over another, whatever write failed or was cut     *)
(* short by the end of the process. Only two writes that met may leave it  *)
(* otherwise, and the next one that has the partial file to itself makes   *)
(* it whole again. The comment on write_file, "whole or not at all"        *)
(* (storage.rs:126), makes no such exception; flush starts a thread that   *)
(* nobody waits for (206-215), and the drop writes beside it (84-90).      *)
TornOnlyByTwo == crossed \/ Path \in Moment

(* A document hears of a change once, in the order they were made, and     *)
(* only of changes other documents of its origin made since it began to    *)
(* listen; one it has not heard of is still in the log, or so many have    *)
(* been made since that the log had no room (set_storage, record,          *)
(* changes_since, drain_storage).                                          *)
OthersAreTold ==
    \A d \in Doc : docs[d].open =>
        LET heard == docs[d].heard
            meant == {n \in DOMAIN made : n > docs[d].since /\ For(d, made[n])}
        IN  /\ \A i, j \in DOMAIN heard : i < j => heard[i] < heard[j]
            /\ ToSet(heard) \subseteq meant
            /\ \A n \in meant \ ToSet(heard) :
                   \/ \E i \in DOMAIN log : log[i].seq = n /\ n > docs[d].seen
                   \/ Len(made) - n >= LogRoom

(* While the browser runs, no write fails and no two writes meet, what the *)
(* area holds comes to be what the file holds (flush_local_storage,        *)
(* flush). Of two that meet the older text may be renamed last.            *)
SavedInTheEnd == []<>(phase # "running" \/ failures > 0 \/ crossed \/ Path = area)

=============================================================================
