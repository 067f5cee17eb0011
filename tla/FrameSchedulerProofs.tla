------------------------ MODULE FrameSchedulerProofs ------------------------
(***************************************************************************)
(* Proofs about FrameScheduler, for any number of versions, flips and      *)
(* dropped frames, and any bound on the frames asked for again.            *)
(*                                                                         *)
(* A frame that is owed is carried because every call of the scheduler     *)
(* keeps it so, whatever its caller did before: the lemmas say it of one   *)
(* call each, and the report of a frame, which takes a carrier away, asks  *)
(* again. The launch retry counts as a carrier only while no frame was     *)
(* built, which is why it has to be off once one was. The painter's damage *)
(* is safe because the one frame in flight is the one it composed.         *)
(***************************************************************************)
EXTENDS FrameScheduler, TLAPS

Carried(l) == l.pending /\ l.visible => l.asked \/ l.inFlight \/ l.bootstrap # "off"
RetrySpent(l) == l.started => l.bootstrap = "off"
Sound(l) == l \in Loop /\ Carried(l) /\ RetrySpent(l)

(* A call neither starts a frame nor ends one.                             *)
Keeps(l, k) == Sound(k) /\ k.inFlight = l.inFlight

-----------------------------------------------------------------------------
(* The calls of the scheduler.                                             *)

LEMMA IssueSettles ==
    ASSUME NEW l \in Loop, RetrySpent(l)
    PROVE  Keeps(l, Issue(l))
BY DEF Issue, Keeps, Sound, Carried, RetrySpent, Loop, Timer

LEMMA RequestNowKeeps ==
    ASSUME NEW l, Sound(l)
    PROVE  Keeps(l, RequestNow(l))
<1>1. CASE l.pending
  BY <1>1 DEF RequestNow, Keeps
<1>2. CASE ~l.pending /\ l.inFlight
  BY <1>2 DEF RequestNow, Keeps, Sound, Carried, RetrySpent, Loop
<1>3. CASE ~l.pending /\ ~l.inFlight
  <2> DEFINE k == [l EXCEPT !.pending = TRUE]
  <2>1. k \in Loop /\ RetrySpent(k) /\ k.inFlight = l.inFlight
    BY DEF Sound, RetrySpent, Loop
  <2>2. Keeps(k, Issue(k))
    BY <2>1, IssueSettles
  <2> QED BY <1>3, <2>1, <2>2 DEF RequestNow, Keeps
<1> QED BY <1>1, <1>2, <1>3

LEMMA SetDeadlineKeeps ==
    ASSUME NEW l, Sound(l), NEW at \in Timer
    PROVE  Keeps(l, SetDeadline(l, at))
BY DEF SetDeadline, Keeps, Sound, Carried, RetrySpent, Loop

LEMMA RequestFrameKeeps ==
    ASSUME NEW l, Sound(l), NEW request \in Request
    PROVE  Keeps(l, RequestFrame(l, request))
<1> DEFINE k == [l EXCEPT !.deadline = "off"]
<1>1. Sound(k) /\ k.inFlight = l.inFlight
  BY DEF Sound, Carried, RetrySpent, Loop, Timer
<1>2. Keeps(l, RequestNow(l)) /\ Keeps(k, RequestNow(k)) /\ Keeps(l, l)
  BY <1>1, RequestNowKeeps DEF Keeps
<1>3. Keeps(l, SetDeadline(l, "ahead")) /\ Keeps(l, SetDeadline(l, "due"))
  BY SetDeadlineKeeps DEF Timer
<1>4. CASE request = "None"
  BY <1>4, <1>2 DEF RequestFrame
<1>5. CASE request = "At"
  BY <1>5, <1>3 DEF RequestFrame
<1>6. CASE request = "AtPast"
  BY <1>6, <1>2, <1>3 DEF RequestFrame
<1>7. CASE request = "Now"
  BY <1>7, <1>1, <1>2 DEF RequestFrame, Keeps
<1>8. CASE request = "Vsync"
  BY <1>8, <1>2 DEF RequestFrame
<1> QED BY <1>4, <1>5, <1>6, <1>7, <1>8 DEF Request

LEMMA DeliverKeeps ==
    ASSUME NEW l, Sound(l), NEW request \in Request, NEW next \in Request
    PROVE  Keeps(l, Deliver(l, request, next))
<1> DEFINE heard == RequestFrame(l, request)
<1>1. Keeps(l, heard)
  BY RequestFrameKeeps
<1>2. Keeps(heard, RequestFrame(heard, next))
  BY <1>1, RequestFrameKeeps DEF Keeps
<1> QED BY <1>1, <1>2 DEF Deliver, Keeps

-----------------------------------------------------------------------------
(* What the loop does with them.                                           *)

LEMMA UpdateVisibilityKeeps ==
    ASSUME NEW l, Sound(l), NEW visible \in BOOLEAN, NEW request \in Request, NEW next \in Request
    PROVE  Keeps(l, UpdateVisibility(l, visible, request, next))
<1> DEFINE still == [l EXCEPT !.deadline = "off", !.pending = FALSE, !.refused = None,
                              !.bootstrap = IF visible THEN @ ELSE "off", !.visible = visible]
           turned == Deliver(still, request, next)
           again == [turned EXCEPT !.dropped = 0]
<1>1. Sound(still) /\ still.inFlight = l.inFlight
  BY DEF Sound, Carried, RetrySpent, Loop, Timer
<1>2. Keeps(still, turned)
  BY <1>1, DeliverKeeps
<1>3. Sound(again) /\ again.inFlight = turned.inFlight
  BY <1>2, FrameAssumption DEF Keeps, Sound, Carried, RetrySpent, Loop
<1>4. Keeps(again, RequestFrame(again, "Now"))
  BY <1>3, RequestFrameKeeps DEF Request
<1>5. CASE visible = l.visible
  BY <1>5 DEF UpdateVisibility, Keeps
<1>6. CASE visible # l.visible
  BY <1>6, <1>1, <1>2, <1>3, <1>4 DEF UpdateVisibility, Keeps
<1> QED BY <1>5, <1>6

LEMMA OcclusionChangedKeeps ==
    ASSUME NEW l, Sound(l), NEW occluded \in BOOLEAN, NEW request \in Request, NEW next \in Request
    PROVE  Keeps(l, OcclusionChanged(l, occluded, request, next))
<1> DEFINE synced == UpdateVisibility(l, ~occluded, request, next)
<1>1. Keeps(l, synced)
  BY UpdateVisibilityKeeps
<1>2. Keeps(synced, RequestFrame(synced, "Now"))
  BY <1>1, RequestFrameKeeps DEF Keeps, Request
<1> QED BY <1>1, <1>2 DEF OcclusionChanged, Keeps

(* A launch retry that is spent asks for the frame it stood for.           *)
LEMMA WakeBootstrapKeeps ==
    ASSUME NEW l, Sound(l)
    PROVE  Keeps(l, WakeBootstrap(l))
<1> DEFINE spent == [l EXCEPT !.bootstrap = "off"]
<1>1. spent \in Loop /\ RetrySpent(spent) /\ spent.inFlight = l.inFlight
  BY DEF Sound, RetrySpent, Loop, Timer
<1>2. Keeps(spent, Issue(spent))
  BY <1>1, IssueSettles
<1>3. CASE l.bootstrap # "due"
  BY <1>3 DEF WakeBootstrap, Keeps
<1>4. CASE l.bootstrap = "due" /\ ~l.started /\ l.visible /\ l.pending /\ ~l.inFlight
  BY <1>4, <1>1, <1>2 DEF WakeBootstrap, Keeps
<1>5. CASE l.bootstrap = "due" /\ ~(~l.started /\ l.visible /\ l.pending /\ ~l.inFlight)
  <2>1. ~l.started
    BY <1>5 DEF Sound, RetrySpent
  <2>2. Carried(spent)
    BY <1>5, <2>1 DEF Sound, Carried, Loop
  <2> QED BY <1>5, <1>1, <2>2 DEF WakeBootstrap, Keeps, Sound
<1> QED BY <1>3, <1>4, <1>5

LEMMA WakeRefusedKeeps ==
    ASSUME NEW l, Sound(l)
    PROVE  Keeps(l, WakeRefused(l))
<1> DEFINE spent == [l EXCEPT !.refused = "off"]
<1>1. Sound(spent) /\ spent.inFlight = l.inFlight
  BY DEF Sound, Carried, RetrySpent, Loop, Timer
<1>2. Keeps(spent, RequestFrame(spent, "Now"))
  BY <1>1, RequestFrameKeeps DEF Request
<1> QED BY <1>1, <1>2 DEF WakeRefused, Keeps

LEMMA WakeDeadlineKeeps ==
    ASSUME NEW l, Sound(l), NEW request \in Request, NEW next \in Request
    PROVE  Keeps(l, WakeDeadline(l, request, next))
<1> DEFINE spent == [l EXCEPT !.deadline = "off"]
           woken == Deliver(spent, request, next)
           once == [woken EXCEPT !.deadline = "off"]
<1>1. Sound(spent) /\ spent.inFlight = l.inFlight
  BY DEF Sound, Carried, RetrySpent, Loop, Timer
<1>2. Keeps(spent, RequestNow(spent)) /\ Keeps(spent, woken)
  BY <1>1, RequestNowKeeps, DeliverKeeps
<1>3. Sound(once) /\ once.inFlight = woken.inFlight
  BY <1>2 DEF Keeps, Sound, Carried, RetrySpent, Loop, Timer
<1> QED BY <1>1, <1>2, <1>3 DEF WakeDeadline, Keeps

LEMMA WakeDueKeeps ==
    ASSUME NEW l, Sound(l), NEW request \in Request, NEW next \in Request
    PROVE  Keeps(l, WakeDue(l, request, next))
<1>1. Keeps(l, WakeBootstrap(l))
  BY WakeBootstrapKeeps
<1>2. Keeps(WakeBootstrap(l), WakeRefused(WakeBootstrap(l)))
  BY <1>1, WakeRefusedKeeps DEF Keeps
<1>3. Keeps(WakeRefused(WakeBootstrap(l)), WakeDeadline(WakeRefused(WakeBootstrap(l)), request, next))
  BY <1>2, WakeDeadlineKeeps DEF Keeps
<1> QED BY <1>1, <1>2, <1>3 DEF WakeDue, Keeps

(* Without its frame, a loop that owed one asks for it again: whatever it  *)
(* made of the report before, Issue settles it.                            *)
LEMMA AskAgainSettles ==
    ASSUME NEW l \in Loop, RetrySpent(l), ~l.inFlight, NEW outcome \in Outcome, NEW next \in Request
    PROVE  /\ AskAgain(l, outcome, next) \in Loop
           /\ RetrySpent(AskAgain(l, outcome, next))
           /\ ~AskAgain(l, outcome, next).inFlight
           /\ Carried(l) => Carried(AskAgain(l, outcome, next))
<1> DEFINE Fits(k) == k \in Loop /\ RetrySpent(k) /\ ~k.inFlight /\ (Carried(l) => Carried(k))
           refused == [l EXCEPT !.dropped = IF @ > MaxDropped THEN @ ELSE @ + 1]
           seen == [l EXCEPT !.dropped = 0]
<1>1. Fits(refused) /\ Fits(seen)
  BY FrameAssumption DEF Loop, RetrySpent, Carried
<1>2. ASSUME NEW k, Fits(k), NEW request \in Request
      PROVE  Fits(RequestFrame(k, request))
  <2> DEFINE off == [k EXCEPT !.deadline = "off"]
             Now(j) == [j EXCEPT !.pending = TRUE]
  <2>1. Fits(off)
    BY <1>2 DEF Loop, RetrySpent, Carried, Timer
  <2>2. ASSUME NEW j, Fits(j)
        PROVE  Fits(RequestNow(j))
    <3>1. Now(j) \in Loop /\ RetrySpent(Now(j)) /\ ~Now(j).inFlight
      BY <2>2 DEF Loop, RetrySpent
    <3>2. Keeps(Now(j), Issue(Now(j)))
      BY <3>1, IssueSettles
    <3> QED BY <2>2, <3>1, <3>2 DEF RequestNow, Keeps, Sound
  <2>3. Fits(SetDeadline(k, "ahead")) /\ Fits(SetDeadline(k, "due"))
    BY <1>2 DEF SetDeadline, Loop, RetrySpent, Carried, Timer
  <2> HIDE DEF Fits, off
  <2>4. Fits(RequestNow(k)) /\ Fits(RequestNow(off))
    BY <1>2, <2>1, <2>2
  <2> QED BY <1>2, <2>3, <2>4 DEF RequestFrame, Request, off
<1>3. "Now" \in Request
  BY DEF Request
<1> HIDE DEF Fits, refused, seen
<1>4. Fits(RequestFrame(refused, "Now")) /\ Fits(RequestFrame(seen, next))
  BY <1>1, <1>2, <1>3
<1>5. Fits(AskAgain(l, outcome, next))
  BY <1>1, <1>4 DEF AskAgain, refused, seen
<1> QED BY <1>5 DEF Fits

LEMMA FrameFinishedSettles ==
    ASSUME NEW l, Sound(l), NEW outcome \in Outcome, NEW next \in Request
    PROVE  Sound(FrameFinished(l, outcome, next)) /\ ~FrameFinished(l, outcome, next).inFlight
<1> DEFINE landed == [l EXCEPT !.inFlight = FALSE]
           noted == NotePresentation(landed, outcome)
           again == AskAgain(noted, outcome, next)
<1>1. /\ noted \in Loop /\ RetrySpent(noted) /\ ~noted.inFlight
      /\ ~l.pending => Carried(noted)
  BY DEF NotePresentation, Sound, Loop, RetrySpent, Carried, Timer
<1>2. /\ again \in Loop /\ RetrySpent(again) /\ ~again.inFlight
      /\ ~l.pending => Carried(again)
  BY <1>1, AskAgainSettles
<1>3. Keeps(again, Issue(again))
  BY <1>2, IssueSettles
<1>4. CASE l.pending
  BY <1>4, <1>2, <1>3 DEF FrameFinished, Keeps
<1>5. CASE ~l.pending
  BY <1>5, <1>2 DEF FrameFinished, Sound
<1> QED BY <1>4, <1>5

-----------------------------------------------------------------------------
(* The window, its painter and the render thread.                          *)

Counts == [versions : Nat, flips : Nat, drops : Nat, lost : Nat]

Typed ==
    /\ painter \in [draws : Version, composed : Version \cup {None}, shown : Version \cup {None}]
    /\ render \in [device : {"none", "reported", "there"}, jobs : Seq(Version), reports : Seq(Outcome)]
    /\ screen \in Version \cup {None} /\ native \in BOOLEAN /\ news \in Seq(BOOLEAN)
    /\ count \in Counts /\ count.versions = painter.draws

Idle == ~loop.inFlight /\ render.jobs = <<>> /\ render.reports = <<>> /\ painter.composed = None
Drawing == loop.inFlight /\ render.jobs = <<painter.composed>> /\ render.reports = <<>>
Drawn(outcome) ==
    /\ loop.inFlight /\ render.jobs = <<>> /\ render.reports = <<outcome>>
    /\ outcome = "Frame" => screen = painter.composed

(* The render thread has the frame the painter composed, or its outcome.   *)
Flight ==
    \/ Idle
    \/ painter.composed # None /\ (Drawing \/ \E outcome \in Outcome : Drawn(outcome))

(* The window never runs ahead of its painter, nor the painter's damage of *)
(* the window.                                                             *)
InOrder ==
    /\ painter.composed # None => painter.composed <= painter.draws
    /\ screen # None => /\ screen <= painter.draws
                        /\ painter.composed # None => screen <= painter.composed
    /\ painter.shown # None => screen # None /\ painter.shown <= screen

IInv == Sound(loop) /\ Typed /\ Flight /\ InOrder

LEMMA OneOf ==
    ASSUME NEW S, NEW x \in S
    PROVE  /\ Append(<<>>, x) = <<x>> /\ Head(<<x>>) = x /\ Tail(<<x>>) = <<>>
           /\ <<x>> \in Seq(S) /\ <<x>> # <<>>
OBVIOUS

LEMMA InitHolds == Init => IInv
BY FrameAssumption
   DEF Init, IInv, Sound, Carried, RetrySpent, Loop, Timer, Typed, Counts, Version, Flight, Idle, InOrder

(* What the actions of the loop that build no frame have in common.        *)
LEMMA LoopOnly ==
    ASSUME IInv, Sound(loop'), loop'.inFlight = loop.inFlight,
           UNCHANGED <<painter, screen, native, count>>,
           news' \in Seq(BOOLEAN),
           render'.device \in {"none", "reported", "there"},
           render' = [render EXCEPT !.device = render'.device]
    PROVE  IInv'
BY DEF IInv, Typed, Flight, Idle, Drawing, Drawn, InOrder

(* The painter may have more to draw than any frame that is on its way.    *)
LEMMA EventHolds == IInv /\ Event => IInv'
<1> SUFFICES ASSUME IInv, Event
             PROVE  IInv'
  OBVIOUS
<1>0. PICK changed \in BOOLEAN : \E request \in Answers(changed), next \in Request \ {"Now"} :
          /\ changed => count.versions < MaxVersions
          /\ painter' = [painter EXCEPT !.draws = IF changed THEN @ + 1 ELSE @]
          /\ count' = [count EXCEPT !.versions = painter'.draws]
          /\ loop' = Deliver(loop, request, next)
  BY DEF Event
<1>1. PICK request \in Answers(changed), next \in Request \ {"Now"} :
          /\ changed => count.versions < MaxVersions
          /\ painter' = [painter EXCEPT !.draws = IF changed THEN @ + 1 ELSE @]
          /\ count' = [count EXCEPT !.versions = painter'.draws]
          /\ loop' = Deliver(loop, request, next)
  BY <1>0
<1>2. request \in Request /\ next \in Request
  BY <1>1 DEF Answers, Request
<1>3. Sound(loop') /\ loop'.inFlight = loop.inFlight
  BY <1>1, <1>2, DeliverKeeps DEF IInv, Keeps
<1>4. /\ painter.draws \in Nat /\ painter'.draws \in Version /\ painter.draws <= painter'.draws
      /\ painter'.composed = painter.composed /\ painter'.shown = painter.shown
      /\ painter' \in [draws : Version, composed : Version \cup {None}, shown : Version \cup {None}]
  <2>1. painter.draws \in Nat /\ painter.draws <= MaxVersions /\ MaxVersions \in Nat
    BY FrameAssumption DEF IInv, Typed, Version
  <2>2. (IF changed THEN painter.draws + 1 ELSE painter.draws) \in Version
    BY <1>1, <2>1 DEF IInv, Typed, Version
  <2> QED BY <1>1, <2>1, <2>2 DEF IInv, Typed
<1>5. UNCHANGED <<render, screen, native, news>>
  BY DEF Event
<1>6. Typed'
  <2>1. count' = [count EXCEPT !.versions = painter'.draws] /\ painter'.draws \in Nat /\ count \in Counts
    BY <1>1, <1>4, FrameAssumption DEF IInv, Typed, Version
  <2>2. count' \in Counts /\ count'.versions = painter'.draws
    BY <2>1 DEF Counts
  <2> QED BY <1>4, <1>5, <2>2 DEF IInv, Typed
<1>7. Flight'
  BY <1>3, <1>4, <1>5 DEF IInv, Flight, Idle, Drawing, Drawn
<1>8. InOrder'
  BY <1>4, <1>5, FrameAssumption DEF IInv, Typed, InOrder, Version
<1> QED BY <1>3, <1>6, <1>7, <1>8 DEF IInv

LEMMA FocusedHolds == IInv /\ Focused => IInv'
<1> SUFFICES ASSUME IInv, Focused
             PROVE  IInv'
  OBVIOUS
<1> DEFINE fresh == [loop EXCEPT !.dropped = 0]
<1>1. Sound(fresh) /\ fresh.inFlight = loop.inFlight
  BY FrameAssumption DEF IInv, Sound, Carried, RetrySpent, Loop
<1>2. Keeps(fresh, loop')
  BY <1>1, RequestFrameKeeps DEF Focused, Request
<1>3. render' = [render EXCEPT !.device = render'.device] /\ render'.device \in {"none", "reported", "there"}
  BY DEF Focused, IInv, Typed
<1> QED BY <1>1, <1>2, <1>3, LoopOnly DEF Focused, Keeps, IInv, Typed

LEMMA OcclusionHolds == IInv /\ Occlusion => IInv'
<1> SUFFICES ASSUME IInv, Occlusion
             PROVE  IInv'
  OBVIOUS
<1>1. Head(news) \in BOOLEAN /\ news' \in Seq(BOOLEAN)
  BY DEF IInv, Typed, Occlusion
<1>2. PICK request \in Request, next \in Request : loop' = OcclusionChanged(loop, Head(news), request, next)
  BY DEF Occlusion
<1>3. Keeps(loop, loop')
  BY <1>1, <1>2, OcclusionChangedKeeps DEF IInv
<1>4. render' = [render EXCEPT !.device = render'.device] /\ render'.device \in {"none", "reported", "there"}
  BY DEF Occlusion, IInv, Typed
<1> QED BY <1>1, <1>3, <1>4, LoopOnly DEF Occlusion, Keeps

LEMMA WakeHolds == IInv /\ Wake => IInv'
<1> SUFFICES ASSUME IInv, Wake
             PROVE  IInv'
  OBVIOUS
<1>1. PICK request \in Request, next \in Request : loop' = WakeDue(loop, request, next)
  BY DEF Wake
<1>2. Keeps(loop, loop')
  BY <1>1, WakeDueKeeps DEF IInv
<1>3. render' = [render EXCEPT !.device = render'.device] /\ render'.device \in {"none", "reported", "there"}
  BY DEF Wake, IInv, Typed
<1> QED BY <1>2, <1>3, LoopOnly DEF Wake, Keeps, IInv, Typed

LEMMA TimeHolds == \A timer \in {"deadline", "bootstrap", "refused"} : IInv /\ Time(timer) => IInv'
<1> SUFFICES ASSUME NEW timer \in {"deadline", "bootstrap", "refused"}, IInv, Time(timer)
             PROVE  IInv'
  OBVIOUS
<1>1. loop' \in Loop /\ loop'.inFlight = loop.inFlight
  BY DEF IInv, Sound, Loop, Timer, Time
<1>2. Carried(loop') /\ RetrySpent(loop')
  BY DEF IInv, Sound, Loop, Timer, Time, Carried, RetrySpent
<1>3. render' = [render EXCEPT !.device = render'.device] /\ render'.device \in {"none", "reported", "there"}
  BY DEF Time, IInv, Typed
<1> QED BY <1>1, <1>2, <1>3, LoopOnly DEF Time, Sound, IInv, Typed

LEMMA ReadyHolds == IInv /\ Ready => IInv'
<1> SUFFICES ASSUME IInv, Ready
             PROVE  IInv'
  OBVIOUS
<1> DEFINE able == [loop EXCEPT !.ready = TRUE]
           asked == RequestFrame(able, "Now")
<1>1. Sound(able) /\ able.inFlight = loop.inFlight /\ able.started = loop.started
  BY DEF IInv, Sound, Carried, RetrySpent, Loop
<1>2. Keeps(able, asked)
  BY <1>1, RequestFrameKeeps DEF Request
<1>3. asked.started = able.started
  BY <1>1 DEF RequestFrame, SetDeadline, RequestNow, Issue, Sound, Loop
<1>4. loop' = [asked EXCEPT !.bootstrap = IF loop.started THEN @ ELSE "ahead"]
  BY DEF Ready
<1> HIDE DEF asked
<1>5. Sound(loop') /\ loop'.inFlight = loop.inFlight
  BY <1>1, <1>2, <1>3, <1>4 DEF Keeps, Sound, Carried, RetrySpent, Loop, Timer
<1>6. render' = [render EXCEPT !.device = render'.device] /\ render'.device \in {"none", "reported", "there"}
  BY DEF Ready, IInv, Typed
<1> QED BY <1>5, <1>6, LoopOnly DEF Ready, IInv, Typed

LEMMA DeviceHolds == IInv /\ Device => IInv'
<1> SUFFICES ASSUME IInv, Device
             PROVE  IInv'
  OBVIOUS
<1>1. render' = [render EXCEPT !.device = render'.device] /\ render'.device \in {"none", "reported", "there"}
  BY DEF Device, IInv, Typed
<1> QED BY <1>1, LoopOnly DEF Device, IInv, Typed

LEMMA LoseHolds == IInv /\ Lose => IInv'
<1> SUFFICES ASSUME IInv, Lose
             PROVE  IInv'
  OBVIOUS
<1>1. Sound(loop') /\ loop'.inFlight = loop.inFlight
  BY DEF IInv, Sound, Carried, RetrySpent, Loop, Timer, Lose
<1> QED BY <1>1 DEF Lose, IInv, Typed, Counts, Flight, Idle, Drawing, Drawn, InOrder

LEMMA OccludeHolds == IInv /\ Occlude => IInv'
<1> SUFFICES ASSUME IInv, Occlude
             PROVE  IInv'
  OBVIOUS
<1>1. news' \in Seq(BOOLEAN) /\ native' \in BOOLEAN
  BY DEF IInv, Typed, Occlude
<1>2. count' \in Counts /\ count'.versions = count.versions
  BY DEF IInv, Typed, Occlude, Counts
<1> QED BY <1>1, <1>2 DEF Occlude, IInv, Typed, Flight, Idle, Drawing, Drawn, InOrder

-----------------------------------------------------------------------------
(* A frame, from its redraw to its report.                                 *)

LEMMA RedrawHolds == IInv /\ Redraw => IInv'
<1> SUFFICES ASSUME IInv, Redraw
             PROVE  IInv'
  OBVIOUS
<1>1. CASE loop.visible /\ loop.ready /\ ~Busy
  <2>1. /\ loop' = [loop EXCEPT !.asked = FALSE, !.pending = FALSE, !.deadline = "off",
                                !.inFlight = TRUE, !.started = TRUE, !.bootstrap = "off"]
        /\ painter' = [painter EXCEPT !.composed = painter.draws]
        /\ render' = [render EXCEPT !.jobs = Append(@, painter.draws)]
        /\ UNCHANGED <<screen, native, news, count>>
    BY <1>1 DEF Redraw
  <2>2. Sound(loop') /\ loop'.inFlight
    BY <2>1 DEF IInv, Sound, Carried, RetrySpent, Loop, Timer
  <2>3. Idle /\ painter.draws \in Version /\ painter.draws # None
    BY <1>1, FrameAssumption DEF IInv, Flight, Drawing, Drawn, Busy, Typed
  <2>4. render'.jobs = <<painter.draws>> /\ render'.reports = <<>> /\ render'.jobs \in Seq(Version)
    BY <2>1, <2>3, OneOf DEF Idle, IInv, Typed
  <2>5. painter'.composed = painter.draws /\ painter'.draws = painter.draws /\ painter'.shown = painter.shown
    BY <2>1 DEF IInv, Typed
  <2>6. Typed'
    BY <2>1, <2>3, <2>4, <2>5 DEF IInv, Typed
  <2>7. Flight'
    BY <2>2, <2>3, <2>4, <2>5 DEF Flight, Drawing
  <2>8. InOrder'
    BY <2>1, <2>3, <2>5, FrameAssumption DEF IInv, InOrder, Version
  <2> QED BY <2>2, <2>6, <2>7, <2>8 DEF IInv
<1>2. CASE ~(loop.visible /\ loop.ready /\ ~Busy)
  <2>1. Sound(loop') /\ loop'.inFlight = loop.inFlight /\ UNCHANGED <<painter, render>>
    BY <1>2 DEF Redraw, Busy, IInv, Sound, Carried, RetrySpent, Loop
  <2> QED BY <2>1 DEF Redraw, IInv, Typed, Flight, Idle, Drawing, Drawn, InOrder
<1> QED BY <1>1, <1>2

LEMMA DrawHolds == IInv /\ Draw => IInv'
<1> SUFFICES ASSUME IInv, Draw
             PROVE  IInv'
  OBVIOUS
<1>1. PICK outcome \in Outcome :
          /\ render' = [render EXCEPT !.jobs = Tail(@), !.reports = Append(@, outcome)]
          /\ screen' = IF outcome = "Frame" THEN Head(render.jobs) ELSE screen
          /\ count' = [count EXCEPT !.drops = IF outcome = "Dropped" THEN @ + 1 ELSE @]
  BY DEF Draw, Outcome
<1>2. UNCHANGED <<loop, painter, native, news>> /\ render.jobs # <<>>
  BY DEF Draw
<1>3. painter.composed # None /\ Drawing /\ painter.composed \in Version
  BY <1>2 DEF IInv, Flight, Idle, Drawn, Typed
<1>4. /\ render'.jobs = <<>> /\ render'.reports = <<outcome>>
      /\ render' \in [device : {"none", "reported", "there"}, jobs : Seq(Version), reports : Seq(Outcome)]
  <2>1. Tail(render.jobs) = <<>> /\ Append(render.reports, outcome) = <<outcome>> /\ <<outcome>> \in Seq(Outcome)
    BY <1>3, OneOf DEF Drawing
  <2>2. <<>> \in Seq(Version)
    OBVIOUS
  <2> QED BY <1>1, <2>1, <2>2 DEF IInv, Typed
<1>5. screen' = IF outcome = "Frame" THEN painter.composed ELSE screen
  BY <1>1, <1>3, OneOf DEF Drawing
<1>6. count' \in Counts /\ count'.versions = count.versions
  BY <1>1 DEF IInv, Typed, Counts
<1>7. Typed'
  BY <1>2, <1>3, <1>4, <1>5, <1>6 DEF IInv, Typed
<1>8. Flight'
  BY <1>2, <1>3, <1>4, <1>5 DEF Flight, Drawing, Drawn
<1>9. InOrder'
  BY <1>2, <1>3, <1>5, FrameAssumption DEF IInv, Typed, InOrder, Version
<1> QED BY <1>2, <1>7, <1>8, <1>9 DEF IInv

LEMMA ReportHolds == IInv /\ Report => IInv'
<1> SUFFICES ASSUME IInv, Report
             PROVE  IInv'
  OBVIOUS
<1>1. PICK outcome \in Outcome : Drawn(outcome)
  BY DEF IInv, Flight, Idle, Drawing, Report
<1>2. Head(render.reports) = outcome /\ Tail(render.reports) = <<>>
  BY <1>1, OneOf DEF Drawn
<1>3. PICK next \in Request : loop' = FrameFinished(loop, outcome, next)
  BY <1>2 DEF Report
<1>4. Sound(loop') /\ ~loop'.inFlight
  BY <1>3, FrameFinishedSettles DEF IInv
<1>5. /\ render'.jobs = <<>> /\ render'.reports = <<>>
      /\ render' \in [device : {"none", "reported", "there"}, jobs : Seq(Version), reports : Seq(Outcome)]
  BY <1>1, <1>2 DEF Report, Drawn, IInv, Typed
<1>6. /\ painter'.draws = painter.draws /\ painter'.composed = None
      /\ \/ painter'.shown = painter.shown
         \/ outcome = "Frame" /\ painter.composed # None /\ painter'.shown = painter.composed
      /\ painter' \in [draws : Version, composed : Version \cup {None}, shown : Version \cup {None}]
  BY <1>2 DEF Report, Completed, IInv, Typed
<1>7. UNCHANGED <<screen, native, news, count>>
  BY DEF Report
<1>8. Typed'
  BY <1>5, <1>6, <1>7 DEF IInv, Typed
<1>9. Flight'
  BY <1>4, <1>5, <1>6 DEF Flight, Idle
<1>10. InOrder'
  BY <1>1, <1>6, <1>7, FrameAssumption DEF IInv, Typed, InOrder, Drawn, Version
<1> QED BY <1>4, <1>8, <1>9, <1>10 DEF IInv

-----------------------------------------------------------------------------

LEMMA NextHolds == IInv /\ [Next]_vars => IInv'
<1> SUFFICES ASSUME IInv, [Next]_vars
             PROVE  IInv'
  OBVIOUS
<1>1. CASE UNCHANGED vars
  BY <1>1 DEF vars, IInv, Typed, Flight, Idle, Drawing, Drawn, InOrder
<1> QED BY <1>1, EventHolds, FocusedHolds, OcclusionHolds, WakeHolds, TimeHolds, ReadyHolds, DeviceHolds,
           LoseHolds, OccludeHolds, RedrawHolds, DrawHolds, ReportHolds DEF Next

LEMMA Inductive == Spec => []IInv
<1> QED BY InitHolds, NextHolds, PTL DEF Spec

(* The render thread never has more than the one frame the loop holds in   *)
(* flight, and everything keeps its type.                                  *)
THEOREM TypeCorrect == Spec => []TypeOK
<1>1. IInv => TypeOK
  <2> SUFFICES ASSUME IInv
               PROVE  TypeOK
    OBVIOUS
  <2>1. \A s : s = <<>> => Len(s) = 0
    OBVIOUS
  <2>2. \A s, x : s = <<x>> => Len(s) = 1
    OBVIOUS
  <2>3. loop.inFlight => \/ Len(render.jobs) = 1 /\ Len(render.reports) = 0
                         \/ Len(render.jobs) = 0 /\ Len(render.reports) = 1
    BY <2>1, <2>2, Zenon DEF IInv, Flight, Idle, Drawing, Drawn
  <2>4. ~loop.inFlight => Len(render.jobs) = 0 /\ Len(render.reports) = 0
    BY <2>1, Zenon DEF IInv, Flight, Idle, Drawing, Drawn
  <2>5. Len(render.jobs) + Len(render.reports) = (IF loop.inFlight THEN 1 ELSE 0)
    <3>1. 1 + 0 = 1 /\ 0 + 1 = 1 /\ 0 + 0 = 0
      OBVIOUS
    <3> QED BY <2>3, <2>4, <3>1, Zenon
  <2> QED BY <2>5 DEF IInv, Sound, Typed, TypeOK
<1> QED BY <1>1, Inductive, PTL

(* A frame that is owed in a window held visible is always carried: no     *)
(* order of requests, reports, refusals, hiding and showing loses the last *)
(* one that would have drawn it.                                           *)
THEOREM OwedFrameIsCarried == Spec => []OwedIsCarried
<1>1. IInv => OwedIsCarried
  BY DEF IInv, Sound, Carried, OwedIsCarried
<1> QED BY <1>1, Inductive, PTL

(* The painter keeps the damage of a version until the window has shown    *)
(* that version or a later one, however many frames are dropped or refused.*)
THEOREM DamageIsKept == Spec => []DamageIsKeptUntilShown
<1>1. IInv => DamageIsKeptUntilShown
  BY DEF IInv, InOrder, DamageIsKeptUntilShown
<1> QED BY <1>1, Inductive, PTL

=============================================================================
