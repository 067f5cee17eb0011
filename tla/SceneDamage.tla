---------------------------- MODULE SceneDamage -----------------------------
(***************************************************************************)
(* What of the page is drawn again. The content owner captures a scene     *)
(* each turn and says what changed since the last build; a mailbox keeps   *)
(* the newest snapshot; the window keeps the scene of each tab with the    *)
(* changes no frame has confirmed; the render thread draws those on a      *)
(* surface it keeps, and trusts the rest to be there.                      *)
(*                                                                         *)
(* A layer is known by its tab and its epoch; what it draws in a region,   *)
(* by the epoch that changed it. A union of rectangles is a union of sets  *)
(* of regions. Left out: scrolling, viewports and scales, the layers of    *)
(* the interface, and navigation, which WindowOwner has. When a frame is   *)
(* built is FrameScheduler's: here it is any time a frame is owed.         *)
(*                                                                         *)
(* A definition X_Something is a mutant of X, and is used by no other.     *)
(***************************************************************************)
EXTENDS Naturals, SequencesExt

CONSTANTS
    Tab, Region,
    HideInFlight,  \* whether the window may hide while a frame is in flight
    MaxEdits, MaxSelects, MaxHides, MaxDrops,  \* bounds of the instance
    Whole,         \* damage that is not bounded
    None

Epoch == 0 .. MaxEdits
Damage == (SUBSET Region) \cup {Whole}
Content == [Region -> Epoch]
Scene == [tab : Tab, epoch : Epoch, content : Content, dirty : Damage]
Mail == [tab : Tab, seen : Nat, scene : Scene \cup {None}, full : BOOLEAN]
Placeholder == [tab |-> None]
Frame == [at : {"job"}, scene : Scene \cup {Placeholder}]
            \cup [at : {"report"}, scene : Scene \cup {Placeholder}, outcome : {"Frame", "Dropped"}]
Command == [kind : {"select"}, tab : Tab, serial : Nat]
               \cup [kind : {"visible"}, visible : BOOLEAN]

ASSUME DamageAssumption ==
    /\ HideInFlight \in BOOLEAN /\ {MaxEdits, MaxSelects, MaxHides, MaxDrops} \subseteq Nat
    /\ None \notin Tab \cup Scene \cup {Placeholder} \cup Mail \cup Frame
    /\ \A damage \in SUBSET Region : damage # Whole

VARIABLES
    owner,     \* active, visible, published, and the last select it has seen
    pages,     \* each page: its last build, and what has changed since
    mailbox,   \* the newest snapshot, until the window takes it
    commands,  \* from the window to the owner
    window,    \* active, visible, its selects not yet seen, and its frames
    scenes,    \* the window's scene for each tab
    flight,    \* the frame with the render thread, or its outcome
    surface,   \* what is drawn there
    prev,      \* the scene it is trusted to show, if any
    count      \* how often each bounded thing has happened

vars == <<owner, pages, mailbox, commands, window, scenes, flight, surface, prev, count>>

(***************************************************************************)
(* Damage.                                                                 *)
(***************************************************************************)

Union(a, b) == IF Whole \in {a, b} THEN Whole ELSE a \cup b
Full(scene) == [scene EXCEPT !.dirty = Whole]

(* An unchanged epoch adds no new damage.                                  *)
Accumulate(old, new) ==
    [new EXCEPT !.dirty = IF old.epoch = new.epoch THEN old.dirty ELSE Union(old.dirty, new.dirty)]

(* The damage of a build is kept with the list it made.                    *)
Rebuilt(page) ==
    [epoch   |-> page.epoch + 1,
     content |-> [r \in Region |-> IF page.edits = Whole \/ r \in page.edits THEN page.epoch + 1
                                   ELSE page.content[r]],
     dirty   |-> page.edits,
     edits   |-> {}]
Built(page) == IF page.edits = {} THEN page ELSE Rebuilt(page)

(***************************************************************************)
(* A turn of the owner: one command or one change, then a snapshot.        *)
(***************************************************************************)

(* A scene that replaces one nobody took takes its damage along.           *)
Replacing(snapshot) ==
    IF mailbox = None \/ mailbox.scene = None \/ snapshot.full THEN snapshot
    ELSE IF mailbox.tab # snapshot.tab \/ mailbox.full
         THEN [snapshot EXCEPT !.scene = Full(@), !.full = TRUE]
    ELSE [snapshot EXCEPT !.scene = Accumulate(mailbox.scene, @)]

Snapshot(o, scene, full) ==
    [tab |-> o.active, seen |-> o.seen, scene |-> scene, full |-> full]

Capture(o, ps) ==
    LET page == Built(ps[o.active])
        full == o.published # o.active
        scene == [tab |-> o.active, epoch |-> page.epoch, content |-> page.content,
                  dirty |-> IF full THEN Whole ELSE page.dirty]
    IN  /\ pages' = [ps EXCEPT ![o.active] = page]
        /\ owner' = [o EXCEPT !.published = o.active]
        /\ mailbox' = Replacing(Snapshot(o, scene, full))

(* A hidden window is sent what changed besides the picture, and the first *)
(* scene after it is drawn whole.                                          *)
Unpublished(o) == [o EXCEPT !.published = None]
CaptureHidden(o, ps) ==
    /\ pages' = ps
    /\ owner' = Unpublished(o)
    /\ mailbox' \in {Snapshot(o, None, FALSE)} \cup (IF o = owner THEN {mailbox} ELSE {})

Publish(o, ps) == IF o.visible THEN Capture(o, ps) ELSE CaptureHidden(o, ps)

(* Script or input changes part of a page, or more than it can bound.      *)
Edit(t, damage) ==
    /\ count.edits < MaxEdits
    /\ count' = [count EXCEPT !.edits = @ + 1]
    /\ Publish(owner, [pages EXCEPT ![t].edits = Union(@, damage)])
    /\ UNCHANGED <<commands, window, scenes, flight, surface, prev>>

(* Input that needs geometry builds the page although nobody will see it.  *)
BuildHidden ==
    /\ ~owner.visible /\ pages[owner.active].edits # {}
    /\ CaptureHidden(owner, [pages EXCEPT ![owner.active] = Built(@)])
    /\ UNCHANGED <<commands, window, scenes, flight, surface, prev, count>>

Heard(o, command) ==
    IF command.kind = "select" THEN [o EXCEPT !.active = command.tab, !.seen = command.serial]
    ELSE [o EXCEPT !.visible = command.visible]

(* A turn takes as many commands as there are when it comes to it, and     *)
(* then publishes.                                                         *)
Hear ==
    /\ commands # <<>> /\ commands' = Tail(commands)
    /\ LET o == Heard(owner, Head(commands))
       IN  \/ Publish(o, pages)
           \/ commands' # <<>> /\ owner' = o /\ UNCHANGED <<pages, mailbox>>
    /\ UNCHANGED <<window, scenes, flight, surface, prev, count>>

(***************************************************************************)
(* The window.                                                             *)
(***************************************************************************)

Select(t) ==
    /\ t # window.active /\ count.selects < MaxSelects
    /\ count' = [count EXCEPT !.selects = @ + 1]
    /\ commands' = Append(commands, [kind |-> "select", tab |-> t, serial |-> count.selects + 1])
    /\ window' = [window EXCEPT !.active = t, !.pending = Append(@, t), !.owed = TRUE]
    /\ UNCHANGED <<owner, pages, mailbox, scenes, flight, surface, prev>>

(* receive: the scene is kept, with what no frame has confirmed of the one *)
(* before it, and selects the owner has not seen are projected again.      *)
Kept(snapshot) ==
    IF snapshot.full \/ scenes[snapshot.tab] = None THEN Full(snapshot.scene)
    ELSE Accumulate(scenes[snapshot.tab], snapshot.scene)

Changes_OfTab(snapshot, active) == snapshot.tab # window.snapshot \/ active # window.active
Changes(snapshot, active) ==
    \/ snapshot.tab # window.snapshot \/ active # window.active
    \/ /\ snapshot.scene # None /\ window.active = snapshot.tab
       /\ scenes[snapshot.tab] = None \/ scenes[snapshot.tab].epoch # snapshot.scene.epoch

Receive(w, snapshot) ==
    LET unseen == SubSeq(w.pending, Len(w.pending) - (count.selects - snapshot.seen) + 1, Len(w.pending))
        active == IF unseen = <<>> THEN snapshot.tab ELSE Last(unseen)
    IN  [w EXCEPT !.active = active, !.pending = unseen, !.snapshot = snapshot.tab,
                  !.owed = @ \/ (w.visible /\ Changes(snapshot, active))]

Take ==
    /\ mailbox # None
    /\ mailbox' = None
    /\ window' = Receive(window, mailbox)
    /\ scenes' = IF mailbox.scene = None THEN scenes ELSE [scenes EXCEPT ![mailbox.tab] = Kept(mailbox)]
    /\ UNCHANGED <<owner, pages, commands, flight, surface, prev, count>>

(* What the window shows of a tab other than the one it last confirmed is  *)
(* drawn whole. compose takes the mailbox first: Take comes before it.     *)
Composed_AsCached(t) == IF scenes[t] = None THEN Placeholder ELSE scenes[t]
Composed(t) ==
    IF scenes[t] = None THEN Placeholder
    ELSE IF window.presented # t THEN Full(scenes[t]) ELSE scenes[t]

Compose ==
    /\ window.visible /\ window.owed /\ flight = None /\ mailbox = None
    /\ flight' = [at |-> "job", scene |-> Composed(window.active)]
    /\ window' = [window EXCEPT !.owed = FALSE]
    /\ UNCHANGED <<owner, pages, mailbox, commands, scenes, surface, prev, count>>

(* frame_complete: only what this frame confirmed is let go.               *)
Confirmed(scene) == IF scenes[scene.tab].epoch = scene.epoch THEN [scenes EXCEPT ![scene.tab].dirty = {}] ELSE scenes

Report ==
    /\ flight # None /\ flight.at = "report"
    /\ flight' = None
    /\ LET shown == flight.outcome = "Frame" /\ window.visible
           tab   == flight.scene.tab
       IN  /\ window' = [window EXCEPT !.presented = IF shown THEN tab ELSE @,
                                       !.owed = @ \/ (flight.outcome # "Frame" /\ window.visible)]
           /\ scenes' = IF shown /\ tab # None THEN Confirmed(flight.scene) ELSE scenes
    /\ UNCHANGED <<owner, pages, mailbox, commands, surface, prev, count>>

(* The window hides or comes back, and says so to the owner.               *)
Turn ==
    /\ window.visible => count.hides < MaxHides /\ (HideInFlight \/ flight = None)
    /\ count' = [count EXCEPT !.hides = IF window.visible THEN @ + 1 ELSE @]
    /\ window' = [window EXCEPT !.visible = ~@, !.owed = ~window.visible]
    /\ commands' = Append(commands, [kind |-> "visible", visible |-> ~window.visible])
    /\ UNCHANGED <<owner, pages, mailbox, scenes, flight, surface, prev>>

(***************************************************************************)
(* The render thread.                                                      *)
(***************************************************************************)

(* plan_damage: a layer in its place with its epoch keeps its pixels.      *)
Redrawn(scene) ==
    IF prev = None \/ (prev.tab = None) # (scene.tab = None) THEN Region
    ELSE IF prev.tab = scene.tab /\ (scene.tab = None \/ prev.epoch = scene.epoch) THEN {}
    ELSE IF scene.dirty = Whole THEN Region ELSE scene.dirty

Pixels(scene, r) == IF scene.tab = None THEN <<None, 0>> ELSE <<scene.tab, scene.content[r]>>

(* A frame the presenter did not take is forgotten: the next one is whole. *)
Committed(scene, outcome) == IF outcome = "Frame" THEN scene ELSE None

Draw(outcome) ==
    /\ flight # None /\ flight.at = "job"
    /\ outcome = "Dropped" => count.drops < MaxDrops
    /\ count' = [count EXCEPT !.drops = IF outcome = "Dropped" THEN @ + 1 ELSE @]
    /\ flight' = [at |-> "report", scene |-> flight.scene, outcome |-> outcome]
    /\ surface' = [r \in Region |-> IF r \in Redrawn(flight.scene) THEN Pixels(flight.scene, r) ELSE surface[r]]
    /\ prev' = Committed(flight.scene, outcome)
    /\ UNCHANGED <<owner, pages, mailbox, commands, window, scenes>>

Init ==
    \E t \in Tab :
        /\ owner = [active |-> t, visible |-> TRUE, published |-> None, seen |-> 0]
        /\ window = [active |-> t, visible |-> TRUE, pending |-> <<>>, snapshot |-> t, presented |-> None,
                     owed |-> TRUE]
        /\ pages = [u \in Tab |-> [epoch |-> 0, content |-> [r \in Region |-> 0], dirty |-> Whole, edits |-> {}]]
        /\ mailbox = None /\ commands = <<>> /\ scenes = [u \in Tab |-> None]
        /\ flight = None /\ prev = None /\ surface = [r \in Region |-> <<None, 0>>]
        /\ count = [edits |-> 0, selects |-> 0, hides |-> 0, drops |-> 0]

(* Nothing is under way, and the window can be seen.                       *)
AtRest ==
    /\ commands = <<>> /\ mailbox = None /\ flight = None
    /\ window.visible /\ owner.visible /\ ~window.owed /\ owner.published = owner.active

(* A rest that the bounds of the instance make the last one.               *)
Done ==
    /\ AtRest /\ count.edits = MaxEdits /\ count.selects = MaxSelects /\ count.hides = MaxHides
    /\ UNCHANGED vars

Next ==
    \/ \E t \in Tab, damage \in {Whole} \cup {{r} : r \in Region} : Edit(t, damage)
    \/ BuildHidden \/ Hear
    \/ \E t \in Tab : Select(t)
    \/ Take \/ Compose \/ Report \/ Turn
    \/ \E outcome \in {"Frame", "Dropped"} : Draw(outcome)
    \/ Done

Spec == Init /\ [][Next]_vars

-----------------------------------------------------------------------------

TypeOK ==
    /\ owner \in [active : Tab, visible : BOOLEAN, published : Tab \cup {None}, seen : Nat]
    /\ window \in [active : Tab, visible : BOOLEAN, pending : Seq(Tab), snapshot : Tab,
                   presented : Tab \cup {None}, owed : BOOLEAN]
    /\ pages \in [Tab -> [epoch : Epoch, content : Content, dirty : Damage, edits : Damage]]
    /\ mailbox \in Mail \cup {None}
    /\ commands \in Seq(Command)
    /\ scenes \in [Tab -> Scene \cup {None}]
    /\ flight \in Frame \cup {None}
    /\ prev \in Scene \cup {Placeholder, None}
    /\ count \in [edits : 0..MaxEdits, selects : 0..MaxSelects,
                  hides : 0..MaxHides, drops : 0..MaxDrops]

(* What the surface shows is what the scene it is trusted to show draws,   *)
(* in every region: whatever was published and never taken, drawn and      *)
(* never shown, or cached and come back to (plan_damage, commit).          *)
SurfaceShowsItsScene == prev # None => \A r \in Region : surface[r] = Pixels(prev, r)

(* When nothing is under way, the window that can be seen shows the active *)
(* page as it is: no change was left out of every picture.                 *)
SettledShowsThePage ==
    AtRest => \A r \in Region : surface[r] = <<owner.active, pages[owner.active].content[r]>>

=============================================================================
