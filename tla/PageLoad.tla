------------------------------- MODULE PageLoad -------------------------------
(***************************************************************************)
(* One tab's slot in the world of pages: the document on screen, the       *)
(* script world kept for it, the load that is to replace it, and what each *)
(* of them has asked the network for.                                      *)
(*                                                                         *)
(* A document is known by the number of the load that fetched it. What is  *)
(* in it is a sequence of kinds: a script that stops the parse, one the    *)
(* page may not reach, one with its text in the document, a deferred       *)
(* script, a style sheet, a picture. A request is the set of the resources *)
(* its answer feeds, as the table of outstanding requests has it. A fetch  *)
(* is what a page asks for outside of the load's own table: a request of   *)
(* its script, a module that script imports, a picture an element wants.   *)
(*                                                                         *)
(* A definition X_Something is a mutant of X, and is used by no other.     *)
(***************************************************************************)
EXTENDS Naturals, FiniteSets, SequencesExt

CONSTANTS
    Shapes,      \* what the documents of the instance have in them
    MaxLoads,    \* loads started in all
    MaxFetches   \* fetches the pages' scripts make in all

Kind == {"script", "barred", "inline", "defer", "sheet", "image"}

ASSUME LoadAssumption ==
    /\ Shapes \subseteq Seq(Kind)
    /\ MaxLoads \in Nat \ {0} /\ MaxFetches \in Nat

VARIABLES
    page,        \* the document on screen and how much of it is parsed
    scripts,     \* whose script world the slot keeps
    generation,  \* which document the slot's own requests are for
    generations, \* the numbers given out
    pending,     \* the load in flight
    fetches,     \* page_, module_ and picture_fetches: who asked, under which generation
    started, asked,  \* how many loads and fetches there have been
    done,        \* the last load that came to its end, as it was then
    delivered    \* the last answer a script was given: who asked, who got it

vars == <<page, scripts, generation, generations, pending, fetches, started, asked, done, delivered>>

NoPage == [doc |-> 0, upto |-> 0]
NoLoad == [doc |-> 0]
Loading == pending.doc # 0
Arrived == Loading /\ pending.arrived

Res(kind, p) == <<kind, p>>
IsSheet(r) == r[1] \in {"sheet", "import"}

(***************************************************************************)
(* A load, as a record that the steps of the parse take and give.          *)
(***************************************************************************)

(* Where a parse that has passed position p stops next, or the end.        *)
Stops(shape, p) == {q \in p + 1 .. Len(shape) : shape[q] \in {"script", "barred"}}
Stop(shape, p) ==
    IF Stops(shape, p) = {} THEN Len(shape) + 1
    ELSE CHOOSE q \in Stops(shape, p) : \A r \in Stops(shape, p) : q <= r

Between(shape, kinds, p, q) == {i \in p + 1 .. q : i <= Len(shape) /\ shape[i] \in kinds}

Ascends(ran) == \A i, j \in DOMAIN ran : i < j => ran[i] < ran[j]
Sorted(set) == CHOOSE ran \in [1 .. Cardinality(set) -> set] : Ascends(ran) /\ Range(ran) = set

(* The scripts the parser runs where they stand, whatever is loading.      *)
Inline(shape, p, q) == Sorted(Between(shape, {"inline"}, p, q))

(* request_found: the sheets and pictures of what has just been parsed.    *)
Found(shape, p, q) == {{Res(shape[i], i)} : i \in Between(shape, {"sheet", "image"}, p, q)}

Waits(load, r) == \E request \in load.waiting : r \in request
SheetsLoading_LinkedOnly(load) ==
    \E request \in load.waiting : \E r \in request : r[1] = "sheet"
SheetsLoading(load) == \E request \in load.waiting : \E r \in request : IsSheet(r)

(* The parse goes on past the script it is stopped at, which runs if its   *)
(* source has come, as far as the next one, which is asked for.            *)
Step(load) ==
    LET from == load.upto
        to   == Stop(load.shape, from)
        next == IF to <= Len(load.shape) /\ load.shape[to] = "script" THEN {{Res("script", to)}} ELSE {}
    IN  [load EXCEPT !.ran = (IF from \in load.got THEN Append(@, from) ELSE @) \o Inline(load.shape, from, to),
                     !.upto = to,
                     !.stopped = to <= Len(load.shape),
                     !.runner = to > Len(load.shape),
                     !.waiting = @ \cup Found(load.shape, from, to) \cup next]

CanStep(load) ==
    /\ load.stopped /\ ~SheetsLoading(load)
    /\ load.upto \in load.got \/ ~Waits(load, Res("script", load.upto))

(* resume_parse: as many steps as the scripts in hand allow.               *)
Onward(load) == IF CanStep(load) THEN Step(load) ELSE load
Resume(load) ==
    LET after[n \in 0 .. Len(load.shape)] ==
          IF n = 0 THEN load ELSE CHOOSE next \in {Onward(l) : l \in {after[n - 1]}} : TRUE
    IN  after[Len(load.shape)]

(* The preload scan asks for every script by address. The parse that then  *)
(* begins adopts, of those, the script it stops at and the deferred ones   *)
(* before it; a deferred script further on stays the scan's.               *)
Adopted_Deferred(shape, to) == Between(shape, {"defer"}, 0, to)
Adopted(shape, to) == Between(shape, {"defer"}, 0, to) \cup Between(shape, {"script"}, to - 1, to)

Built(shape, restart) ==
    LET to      == Stop(shape, 0)
        scanned == Between(shape, {"script", "defer"}, 0, Len(shape))
    IN  [restart EXCEPT
            !.arrived = TRUE, !.shape = shape, !.upto = to,
            !.stopped = to <= Len(shape), !.runner = to > Len(shape),
            !.order = Between(shape, {"defer"}, 0, to), !.ran = Inline(shape, 0, to),
            !.waiting = {{Res("source", p)} \cup (IF p \in Adopted(shape, to) THEN {Res("script", p)} ELSE {})
                         : p \in scanned} \cup Found(shape, 0, to)]

NewLoad(n) ==
    [doc |-> n, arrived |-> FALSE, shape |-> <<>>, upto |-> 0, stopped |-> FALSE, runner |-> FALSE,
     order |-> {}, came |-> {}, got |-> {}, ran |-> <<>>, failed |-> {}, waiting |-> {}]

(***************************************************************************)
(* The end of a load. The slot takes the load's script world, under a new  *)
(* generation, to which what scripts asked for under the slot's is carried *)
(* over, and what elements asked for is not.                               *)
(***************************************************************************)

Rebased_All(f) ==
    IF f.generation = generation THEN [f EXCEPT !.generation = generations + 1] ELSE f
Rebased(f) ==
    IF f.kind # "picture" /\ f.generation = generation
    THEN [f EXCEPT !.generation = generations + 1] ELSE f

Finish(load) ==
    /\ generations' = generations + 1
    /\ generation' = generations + 1
    /\ fetches' = {Rebased(f) : f \in fetches}
    /\ pending' = NoLoad
    /\ scripts' = IF load.runner THEN load.doc ELSE 0
    /\ done' = [load EXCEPT !.ran = IF load.runner THEN @ \o Sorted(load.order \cap load.got) ELSE @]
    /\ page' = [doc |-> load.doc, upto |-> load.upto]

Carry_UnlessStopped(load) ==
    IF load.waiting = {} /\ ~load.stopped THEN Finish(load)
    ELSE /\ pending' = load /\ page' = [doc |-> load.doc, upto |-> load.upto]
         /\ UNCHANGED <<scripts, generation, generations, fetches, done>>
Carry(load) ==
    IF load.waiting = {} THEN Finish(load)
    ELSE /\ pending' = load /\ page' = [doc |-> load.doc, upto |-> load.upto]
         /\ UNCHANGED <<scripts, generation, generations, fetches, done>>

(***************************************************************************)
(* Actions.                                                                *)
(***************************************************************************)

(* start: the load it replaces is cancelled; the page stays.               *)
Start ==
    /\ started < MaxLoads /\ started' = started + 1
    /\ pending' = NewLoad(started + 1)
    /\ UNCHANGED <<page, scripts, generation, generations, fetches, asked, done, delivered>>

(* set_page with no document: what the tab's page and load wait for goes.  *)
Blank ==
    /\ page' = NoPage /\ scripts' = 0 /\ pending' = NoLoad /\ fetches' = {}
    /\ generations' = generations + 1 /\ generation' = generations + 1

(* A document that failed, that may not be shown in its frame, or that is  *)
(* an attachment.                                                          *)
NoDocument ==
    /\ Loading /\ ~pending.arrived /\ Blank
    /\ UNCHANGED <<started, asked, done, delivered>>

(* The reader opens one of the browser's own pages.                        *)
ShowSystem ==
    /\ page.doc # 0 \/ Loading
    /\ Blank
    /\ UNCHANGED <<started, asked, done, delivered>>

DocumentArrives(shape) ==
    /\ Loading /\ ~pending.arrived
    /\ Carry(Built(shape, pending))
    /\ UNCHANGED <<started, asked, delivered>>

Without(load, request) == [load EXCEPT !.waiting = @ \ {request}]
ScriptsOf(request) == {r[2] : r \in {s \in request : s[1] = "script"}}
SourcesOf(request) == {r[2] : r \in {s \in request : s[1] \in {"script", "source"}}}

(* A sheet or an import that settles may be what a script waits for.       *)
Settled_ScriptsOnly(load, request, script) ==
    IF script THEN Resume(load) ELSE load
Settled(load, request, script) ==
    IF script \/ \E r \in request : IsSheet(r) THEN Resume(load) ELSE load

(* A sheet that came may import another.                                   *)
SubresourceArrives(request, imports) ==
    /\ Arrived /\ request \in pending.waiting
    /\ imports => \E r \in request : r[1] = "sheet"
    /\ LET load == [Without(pending, request) EXCEPT
                       !.came = @ \cup SourcesOf(request),
                       !.got = @ \cup ScriptsOf(request),
                       !.waiting = @ \cup IF imports THEN {{Res("import", r[2])} : r \in request} ELSE {}]
       IN  Carry(Settled(load, request, ScriptsOf(request) # {}))
    /\ UNCHANGED <<started, asked, delivered>>

SubresourceFails(request) ==
    /\ Arrived /\ request \in pending.waiting
    /\ LET load == [Without(pending, request) EXCEPT !.failed = @ \cup ScriptsOf(request)]
       IN  Carry(Settled(load, request, FALSE))
    /\ UNCHANGED <<started, asked, delivered>>

(* The reader presses Stop: the load goes, and nothing else does.          *)
StopLoad ==
    /\ Loading /\ pending' = NoLoad
    /\ UNCHANGED <<page, scripts, generation, generations, fetches, started, asked, done, delivered>>

(* with_page_runner: the parser's script world while the parse is stopped, *)
(* the load's after it, the slot's once there is no load.                  *)
Runner ==
    IF page.doc = 0 THEN 0
    ELSE IF ~Loading THEN scripts
    ELSE IF pending.stopped \/ pending.runner THEN pending.doc
    ELSE 0

(* A module is asked for so only once the load is over.                    *)
PageAsks(kind) ==
    /\ IF kind = "picture" THEN page.doc # 0 ELSE Runner # 0
    /\ kind = "module" => ~Loading
    /\ asked < MaxFetches /\ asked' = asked + 1
    /\ fetches' = fetches \cup
         {[kind |-> kind, asker |-> IF kind = "picture" THEN page.doc ELSE Runner, generation |-> generation]}
    /\ UNCHANGED <<page, scripts, generation, generations, pending, started, done, delivered>>

(* An answer of another generation, or that finds no script world, is lost. *)
Takes(f) ==
    /\ f.generation = generation
    /\ f.kind = "picture" => ~Arrived /\ page.doc # 0
    /\ f.kind = "module" => ~Loading
    /\ f.kind # "picture" => Runner # 0

PageAnswered(f) ==
    /\ f \in fetches /\ fetches' = fetches \ {f}
    /\ delivered' = IF Takes(f)
                    THEN [kind |-> f.kind, asker |-> f.asker,
                          to |-> IF f.kind = "picture" THEN page.doc ELSE Runner]
                    ELSE delivered
    /\ UNCHANGED <<page, scripts, generation, generations, pending, started, asked, done>>

Quiet == started = MaxLoads /\ ~Loading /\ page.doc = 0 /\ UNCHANGED vars

Init ==
    /\ page = NoPage /\ scripts = 0 /\ pending = NoLoad
    /\ generation = 0 /\ generations = 0 /\ fetches = {}
    /\ started = 0 /\ asked = 0
    /\ done = NoLoad /\ delivered = [kind |-> "request", asker |-> 0, to |-> 0]

Requests == IF Arrived THEN pending.waiting ELSE {}
Answers ==
    \/ NoDocument \/ \E shape \in Shapes : DocumentArrives(shape)
    \/ \E request \in Requests :
          SubresourceFails(request) \/ \E imports \in BOOLEAN : SubresourceArrives(request, imports)

Next ==
    \/ Start \/ Answers \/ ShowSystem \/ StopLoad
    \/ \E kind \in {"request", "module", "picture"} : PageAsks(kind)
    \/ \E f \in fetches : PageAnswered(f)
    \/ Quiet

Spec == Init /\ [][Next]_vars
(* The pool answers every request, with a response or with an error: its   *)
(* fetches end by a timeout if by nothing else.                            *)
FairSpec == Spec /\ WF_vars(Answers)

(***************************************************************************)
(* Properties.                                                             *)
(***************************************************************************)

IsLoad(load) ==
    /\ load.doc \in 1..MaxLoads /\ load.shape \in Shapes \cup {<<>>}
    /\ load.upto \in 0 .. Len(load.shape) + 1
    /\ load.got \cap load.failed = {} /\ load.got \cup load.failed \subseteq DOMAIN load.shape
    /\ ~(load.stopped /\ load.runner)

TypeOK ==
    /\ page.doc \in 0..MaxLoads /\ scripts \in 0..MaxLoads
    /\ generation \in 0..generations
    /\ Loading => IsLoad(pending)
    /\ done.doc # 0 => IsLoad(done)
    /\ \A f \in fetches : f.asker \in 1..MaxLoads /\ f.generation \in 0..generations

(* The comment at load.rs:1051, "a script runs against the style the sheets *)
(* before it give", as far as it holds. The parse passes a script that      *)
(* stops it only when every sheet from before that script, and every import *)
(* of one, has settled: what has run has the sheets from before the last    *)
(* stop at or before it. For a script with a source those are all the       *)
(* sheets before it. A script with its text in the document does not wait   *)
(* for the sheets since that stop: the parser runs it at once, while they   *)
(* load (driver.rs:896-926), and the comment is wrong about it.             *)
ScriptsSeeStyle ==
    Arrived =>
        \A p \in Range(pending.ran) : \A q \in Stops(pending.shape, 0) :
            q <= p => \A request \in pending.waiting : \A r \in request : IsSheet(r) => q < r[2]

(* What a load that is over has run: every script of the document's own     *)
(* text the parse passed, every script with a source that came for the      *)
(* stop it was awaited at, and the deferred scripts from before the first   *)
(* stop that came, unless the parse never ended; each once, in the order of *)
(* the document, the deferred ones last. No order of answers, and no sheet  *)
(* settling last, leaves one of these behind, and nothing else runs: a      *)
(* deferred script after the first script that stops the parse is fetched,  *)
(* waited for and never run, for the list finish_load walks is made with    *)
(* the document (load.rs:689-697, 756, 1309). driver.rs:864-869 says of all *)
(* deferred scripts that they run after the parse.                          *)
ArrivedScriptsRan ==
    LET deferred(p) == done.shape[p] = "defer"
        inline   == {p \in DOMAIN done.shape : done.shape[p] = "inline" /\ p < done.upto}
        awaited  == {p \in done.got : ~deferred(p)}
        early    == {p \in done.came : deferred(p) /\ p < Stop(done.shape, 0)}
    IN  done.doc # 0 =>
            /\ Range(done.ran) = inline \cup awaited \cup (IF done.runner THEN early ELSE {})
            /\ \A i, j \in DOMAIN done.ran : i < j =>
                  \/ ~deferred(done.ran[i]) /\ deferred(done.ran[j])
                  \/ /\ deferred(done.ran[i]) = deferred(done.ran[j])
                     /\ done.ran[i] < done.ran[j]

(* A load ends with its parse cut short only at a script that is lost: one  *)
(* whose fetch failed, or that the page may not reach. No other order of    *)
(* answers cuts a document. That a lost script does cut it is what the code *)
(* does, and not what it says: the failure of the fetch resumes nothing     *)
(* (load.rs:997-1007), where load.rs:1060 has it that "a fetch that failed  *)
(* must not stop the page for ever".                                        *)
CutAtALostScript ==
    done.doc # 0 /\ done.stopped =>
        done.shape[done.upto] = "barred" \/ done.upto \in done.failed

(* A load ends, whatever fails and in whatever order the answers come:     *)
(* nothing it waits for is left out of what it is told of.                 *)
LoadEnds == \A n \in 1..MaxLoads : pending.doc = n ~> pending.doc # n

(* The documentation of PageSlot.generation: a picture fetched for one     *)
(* document "is never handed to an element of" the next. Nor is it, unless *)
(* the load of the document on screen was stopped half way: that one has   *)
(* the generation of the document before it.                               *)
PictureStaysWithItsDocument ==
    [][delivered' # delivered /\ delivered'.kind = "picture" =>
          delivered'.to = delivered'.asker \/ delivered'.to # done.doc]_vars

=============================================================================
