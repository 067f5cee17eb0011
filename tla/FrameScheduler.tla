--------------------------- MODULE FrameScheduler ---------------------------
(***************************************************************************)
(* When a window builds a frame: the scheduler of the window's loop, the   *)
(* one frame that may be with the render thread, the timers that ask for   *)
(* one later, and a native window that can hide, refuse a frame, lose the  *)
(* first redraw asked of it, and say so late.                              *)
(*                                                                         *)
(* What the painter would draw is known by its version. A timer is off,    *)
(* ahead or due; which of two is the earlier is left out, and so are what  *)
(* a frame holds, the trace, accessibility, and what ends the loop: a      *)
(* failure or the closing of the window. A window that is minimized is one *)
(* that is occluded.                                                       *)
(*                                                                         *)
(* A definition X_Something is a mutant of X, and is used by no other.     *)
(***************************************************************************)
EXTENDS Naturals, Sequences

CONSTANTS
    MaxDropped,   \* MAX_DROPPED_FRAMES
    MaxVersions, MaxFlips, MaxDrops,  \* bounds of the instance
    None

Version == 0 .. MaxVersions

ASSUME FrameAssumption ==
    /\ {MaxDropped, MaxVersions, MaxFlips, MaxDrops} \subseteq Nat
    /\ None \notin Version

Timer == {"off", "ahead", "due"}
Outcome == {"Frame", "Dropped", "Occluded"}

(* What the painter answers: no frame, one now, one with the display, one  *)
(* at a time to come, or at a time that has passed.                        *)
Request == {"None", "Now", "Vsync", "At", "AtPast"}

VARIABLES
    loop,      \* the window loop: FrameScheduler and what decides with it; asked
               \* holds while winit owes it a RedrawRequested
    painter,   \* what it would draw, what it composed last, what it knows is shown
    render,    \* the render thread: whether it has its device, its job, its report
    screen,    \* the version the window shows
    native,    \* whether the system lets the window be seen
    news,      \* what the loop has yet to hear about that
    count      \* how often each bounded thing has happened

vars == <<loop, painter, render, screen, native, news, count>>

Loop == [pending : BOOLEAN, inFlight : BOOLEAN, asked : BOOLEAN, deadline : Timer, visible : BOOLEAN, ready : BOOLEAN,
         bootstrap : Timer, refused : Timer \cup {None},
         dropped : 0 .. MaxDropped + 1, started : BOOLEAN]

(***************************************************************************)
(* The scheduler, as what a call makes of the loop.                        *)
(***************************************************************************)

Issue(l) == IF ~l.visible THEN l
            ELSE IF ~l.ready THEN [l EXCEPT !.pending = FALSE]
            ELSE [l EXCEPT !.asked = TRUE]

RequestNow(l) == IF l.pending THEN l
                 ELSE IF l.inFlight THEN [l EXCEPT !.pending = TRUE]
                 ELSE Issue([l EXCEPT !.pending = TRUE])

SetDeadline(l, at) == IF l.deadline = "off" THEN [l EXCEPT !.deadline = at] ELSE l

RequestFrame(l, request) ==
    CASE request = "None" -> l
      [] request = "At" -> SetDeadline(l, "ahead")
      [] request = "AtPast" -> IF l.visible THEN RequestNow(l) ELSE SetDeadline(l, "due")
      [] request = "Now" -> IF l.visible THEN RequestNow([l EXCEPT !.deadline = "off"]) ELSE l
      [] request = "Vsync" -> IF l.visible THEN RequestNow(l) ELSE l

(* An event goes up, and comes back with what the painter wants.           *)
Deliver(l, request, next) ==
    LET heard == RequestFrame(l, request)
    IN  IF l.visible THEN heard ELSE RequestFrame(heard, next)

UpdateVisibility(l, visible, request, next) ==
    IF visible = l.visible THEN l
    ELSE LET turned == Deliver([l EXCEPT !.deadline = "off", !.pending = FALSE,
                                         !.refused = None,
                                         !.bootstrap = IF visible THEN @ ELSE "off",
                                         !.visible = visible], request, next)
         IN  IF visible THEN RequestFrame([turned EXCEPT !.dropped = 0], "Now") ELSE turned

OcclusionChanged(l, occluded, request, next) ==
    LET synced == UpdateVisibility(l, ~occluded, request, next)
    IN  IF ~occluded /\ synced.refused # None THEN RequestFrame(synced, "Now") ELSE synced

WakeBootstrap(l) ==
    IF l.bootstrap # "due" THEN l
    ELSE LET spent == [l EXCEPT !.bootstrap = "off"]
         IN  IF ~l.started /\ l.visible /\ l.pending /\ ~l.inFlight THEN Issue(spent) ELSE spent

WakeRefused(l) ==
    IF l.refused = "due" /\ l.visible THEN RequestFrame([l EXCEPT !.refused = "off"], "Now") ELSE l

(* Hidden, a deadline still wakes the painter, but is not asked for twice. *)
WakeDeadline(l, request, next) ==
    IF l.deadline # "due" THEN l
    ELSE LET spent == [l EXCEPT !.deadline = "off"]
             woken == Deliver(spent, request, next)
         IN  IF l.visible THEN RequestNow(spent)
             ELSE IF woken.deadline = "due" THEN [woken EXCEPT !.deadline = "off"] ELSE woken

WakeDue(l, request, next) == WakeDeadline(WakeRefused(WakeBootstrap(l)), request, next)

(* A window held visible whose frame the presenter would not take.         *)
NotePresentation_Trusts(l, outcome) == IF outcome = "Frame" THEN [l EXCEPT !.refused = None] ELSE l
NotePresentation(l, outcome) ==
    IF outcome = "Occluded" /\ l.visible THEN [l EXCEPT !.refused = "ahead"]
    ELSE IF outcome = "Frame" THEN [l EXCEPT !.refused = None]
    ELSE l

(* A report: the frame is no longer in flight, and one may be owed.        *)
AskAgain(l, outcome, next) ==
    LET refused == [l EXCEPT !.dropped = IF @ > MaxDropped THEN @ ELSE @ + 1]
        seen    == [l EXCEPT !.dropped = 0]
    IN  IF outcome = "Dropped"
        THEN IF refused.dropped <= MaxDropped THEN RequestFrame(refused, "Now") ELSE refused
        ELSE IF outcome = "Occluded" /\ next = "Vsync" THEN seen ELSE RequestFrame(seen, next)

FrameFinished_ForgetsOwed(l, outcome, next) ==
    AskAgain(NotePresentation([l EXCEPT !.inFlight = FALSE], outcome), outcome, next)
FrameFinished(l, outcome, next) ==
    LET again == AskAgain(NotePresentation([l EXCEPT !.inFlight = FALSE], outcome), outcome, next)
    IN  IF l.pending THEN Issue(again) ELSE again

(***************************************************************************)
(* The window's loop.                                                      *)
(***************************************************************************)

(* What the painter answers to an event, and then as its next frame: any   *)
(* request, but a frame at once when what it would draw has changed.       *)
Answers(changed) == IF changed THEN {"Now"} ELSE Request

(* Input, a resize, a menu, a wake by another thread: the painter hears it.*)
Event ==
    \E changed \in BOOLEAN : \E request \in Answers(changed), next \in Request \ {"Now"} :
        /\ changed => count.versions < MaxVersions
        /\ painter' = [painter EXCEPT !.draws = IF changed THEN @ + 1 ELSE @]
        /\ count' = [count EXCEPT !.versions = painter'.draws]
        /\ loop' = Deliver(loop, request, next)
        /\ UNCHANGED <<render, screen, native, news>>

(* The window comes to the front: what it shows may be stale.              *)
Focused ==
    /\ loop' = RequestFrame([loop EXCEPT !.dropped = 0], "Now")
    /\ UNCHANGED <<painter, render, screen, native, news, count>>

Occlusion ==
    /\ news # <<>>
    /\ news' = Tail(news)
    /\ \E request, next \in Request \ {"Now"} : loop' = OcclusionChanged(loop, Head(news), request, next)
    /\ UNCHANGED <<painter, render, screen, native, count>>

(* new_events and about_to_wait, when a timer is due.                      *)
Wake ==
    /\ "due" \in {loop.bootstrap, loop.refused, loop.deadline}
    /\ \E request, next \in Request \ {"Now"} : loop' = WakeDue(loop, request, next)
    /\ UNCHANGED <<painter, render, screen, native, news, count>>

Time(timer) ==
    /\ loop[timer] = "ahead"
    /\ loop' = [loop EXCEPT ![timer] = "due"]
    /\ UNCHANGED <<painter, render, screen, native, news, count>>

Busy == loop.inFlight

(* RedrawRequested, which the system may also send of its own accord.      *)
Redraw ==
    /\ IF ~loop.visible THEN loop' = [loop EXCEPT !.asked = FALSE] /\ UNCHANGED <<painter, render>>
       ELSE IF ~loop.ready THEN loop' = [loop EXCEPT !.asked = FALSE, !.pending = FALSE]
                                /\ UNCHANGED <<painter, render>>
       ELSE IF Busy THEN loop' = [loop EXCEPT !.asked = FALSE, !.pending = TRUE]
                                  /\ UNCHANGED <<painter, render>>
       ELSE /\ loop' = [loop EXCEPT !.asked = FALSE, !.pending = FALSE, !.deadline = "off",
                                    !.inFlight = TRUE, !.started = TRUE, !.bootstrap = "off"]
            /\ painter' = [painter EXCEPT !.composed = painter.draws]
            /\ render' = [render EXCEPT !.jobs = Append(@, painter.draws)]
    /\ UNCHANGED <<screen, native, news, count>>

(* The device is there: everything asked for till now is in this frame.    *)
Ready ==
    /\ render.device = "reported"
    /\ render' = [render EXCEPT !.device = "there"]
    /\ loop' = [RequestFrame([loop EXCEPT !.ready = TRUE], "Now")
                   EXCEPT !.bootstrap = IF loop.started THEN @ ELSE "ahead"]
    /\ UNCHANGED <<painter, screen, native, news, count>>

(* complete_frame: what the painter keeps of its damage depends on it.     *)
Completed_AnyOutcome(outcome) ==
    painter' = [painter EXCEPT !.composed = None, !.shown = painter.composed]
Completed(outcome) ==
    painter' = [painter EXCEPT !.composed = None,
        !.shown = IF outcome = "Frame" /\ loop.visible /\ painter.composed # None THEN painter.composed ELSE @]

Report ==
    /\ render.reports # <<>>
    /\ render' = [render EXCEPT !.reports = Tail(@)]
    /\ Completed(Head(render.reports))
    /\ \E next \in Request : loop' = FrameFinished(loop, Head(render.reports), next)
    /\ UNCHANGED <<screen, native, news, count>>

(***************************************************************************)
(* The render thread and the system.                                       *)
(***************************************************************************)

Device ==
    /\ render.device = "none"
    /\ render' = [render EXCEPT !.device = "reported"]
    /\ UNCHANGED <<loop, painter, screen, native, news, count>>

(* The surface is asked for as the frame is drawn: the system may think    *)
(* the window hidden before, or after, it has said so to the loop.         *)
Draw ==
    /\ render.jobs # <<>>
    /\ \E outcome \in (IF native THEN {"Frame"} ELSE {"Occluded"}) \cup (IF count.drops < MaxDrops THEN {"Dropped"} ELSE {}) :
           /\ render' = [render EXCEPT !.jobs = Tail(@), !.reports = Append(@, outcome)]
           /\ screen' = IF outcome = "Frame" THEN Head(render.jobs) ELSE screen
           /\ count' = [count EXCEPT !.drops = IF outcome = "Dropped" THEN @ + 1 ELSE @]
    /\ UNCHANGED <<loop, painter, native, news>>

Occlude ==
    /\ count.flips < MaxFlips
    /\ count' = [count EXCEPT !.flips = @ + 1]
    /\ native' = ~native /\ news' = Append(news, native)
    /\ UNCHANGED <<loop, painter, render, screen>>

(* The launch redraw of a window that has drawn nothing may be lost, once, *)
(* before the retry that is there for it.                                  *)
Lose ==
    /\ loop.asked /\ ~loop.started /\ loop.bootstrap = "ahead" /\ count.lost = 0
    /\ count' = [count EXCEPT !.lost = 1]
    /\ loop' = [loop EXCEPT !.asked = FALSE]
    /\ UNCHANGED <<painter, render, screen, native, news>>

Init ==
    /\ loop = [pending |-> FALSE, inFlight |-> FALSE, asked |-> FALSE, deadline |-> "off", visible |-> TRUE,
               ready |-> FALSE, bootstrap |-> "off", refused |-> None, dropped |-> 0,
               started |-> FALSE]
    /\ painter = [draws |-> 0, composed |-> None, shown |-> None]
    /\ render = [device |-> "none", jobs |-> <<>>, reports |-> <<>>]
    /\ screen = None /\ native \in BOOLEAN /\ news = <<>>
    /\ count = [versions |-> 0, flips |-> 0, drops |-> 0, lost |-> 0]

Next ==
    \/ Event \/ Focused \/ Occlusion \/ Wake \/ Redraw \/ Ready \/ Report
    \/ \E timer \in {"deadline", "bootstrap", "refused"} : Time(timer)
    \/ Device \/ Draw \/ Occlude \/ Lose

Spec == Init /\ [][Next]_vars

(* The system delivers what it owes and lets both threads run; time passes.*)
FairSpec ==
    /\ Spec
    /\ WF_vars(Occlusion) /\ WF_vars(Wake) /\ WF_vars(loop.asked /\ Redraw)
    /\ WF_vars(Ready) /\ WF_vars(Report) /\ WF_vars(Device) /\ WF_vars(Draw)
    /\ \A timer \in {"deadline", "bootstrap", "refused"} : WF_vars(Time(timer))

-----------------------------------------------------------------------------

(* The render thread has the one frame the loop holds in flight, as a job  *)
(* or as a report, and no other (redraw_started, frame_done).              *)
TypeOK ==
    /\ loop \in Loop
    /\ painter \in [draws : Version, composed : Version \cup {None}, shown : Version \cup {None}]
    /\ render.device \in {"none", "reported", "there"}
    /\ render.jobs \in Seq(Version) /\ render.reports \in Seq(Outcome)
    /\ Len(render.jobs) + Len(render.reports) = (IF loop.inFlight THEN 1 ELSE 0)
    /\ screen \in Version \cup {None} /\ native \in BOOLEAN /\ news \in Seq(BOOLEAN)

(* A frame that is owed is on its way in a window the loop holds visible:  *)
(* winit has been asked, or a frame in flight will report, or the launch   *)
(* retry is armed. A request that finds one owed counts on it, so one that *)
(* nothing carries would be the last (request_now, frame_finished).        *)
OwedIsCarried ==
    loop.pending /\ loop.visible => loop.asked \/ loop.inFlight \/ loop.bootstrap # "off"

(* The painter lets go of the damage of a version only when the window has *)
(* shown that version (complete_frame).                                    *)
DamageIsKeptUntilShown ==
    painter.shown # None => screen # None /\ painter.shown <= screen

(* A window that can be seen comes to show what its painter would draw,    *)
(* unless its frames are dropped more often than it asks again: whatever   *)
(* hides and shows it meanwhile, and whichever frame is refused.           *)
ScreenCatchesUp ==
    []<>(screen = painter.draws \/ ~native \/ ~loop.visible \/ loop.dropped > MaxDropped)

=============================================================================
