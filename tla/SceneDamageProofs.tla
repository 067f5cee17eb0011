--------------------------- MODULE SceneDamageProofs --------------------------
(***************************************************************************)
(* Proofs about SceneDamage. Two invariants carry them.                    *)
(*                                                                         *)
(* Base holds of every run. The scenes of one tab are older or younger     *)
(* builds of one page, in the order in which they left it: page, mailbox,  *)
(* window, frame, surface (Ages). What the owner has published of its      *)
(* active tab is the next thing the window takes or the last one it took   *)
(* (Published), with damage that covers the way from the scene the window  *)
(* has (MailDamage). The selects the owner has not seen are the last ones  *)
(* the window made (Selects).                                              *)
(*                                                                         *)
(* Shown needs a window that does not hide while a frame is in flight. The *)
(* damage a scene of the window keeps covers every change since the scene  *)
(* on the surface, or since the one about to be drawn there (Covered), and *)
(* the window knows what the surface shows (Presented), unless it owes a   *)
(* frame (Owed).                                                           *)
(***************************************************************************)
EXTENDS SceneDamage, SequenceTheorems, TLAPS

Page == [epoch : Epoch, content : Content, dirty : Damage, edits : Damage]
Owner == [active : Tab, visible : BOOLEAN, published : Tab \cup {None}, seen : Nat]

(* a is an earlier build than b, or the same: what b changed since is newer than a. *)
Before(a, b) ==
    /\ a.epoch <= b.epoch
    /\ \A r \in Region : b.content[r] <= a.epoch => a.content[r] = b.content[r]
(* The damage covers every region where b differs from a. *)
Changed(a, b, damage) ==
    damage # Whole => \A r \in Region \ damage : a.content[r] = b.content[r]
(* Nothing in a build is newer than the build. *)
Small(s) == \A r \in Region : s.content[r] <= s.epoch

(* c is the build after b, or b again. *)
Follows(b, c) ==
    IF b.epoch = c.epoch THEN \A r \in Region : b.content[r] = c.content[r] ELSE Changed(b, c, c.dirty)

(* Absence is no tab, scene, snapshot or frame. *)
LEMMA NoneIsNothing ==
    /\ None \notin Tab /\ None \notin Scene /\ None \notin Mail /\ None \notin Frame
    /\ None # Placeholder /\ Placeholder.tab = None
    /\ \A s \in Scene : s.tab # None /\ s.tab \in Tab
  BY DamageAssumption DEF Scene, Placeholder

(* Epochs are naturals. *)
LEMMA EpochIsNat == Epoch \subseteq Nat
  BY DamageAssumption DEF Epoch

(* A union of bounded damage covers both; one with unbounded damage is unbounded. *)
LEMMA UnionDamage ==
    ASSUME NEW a \in Damage, NEW b \in Damage
    PROVE  /\ Union(a, b) \in Damage
           /\ Union(a, b) # Whole => a # Whole /\ b # Whole /\ Union(a, b) = a \cup b
           /\ Union(a, b) = {} => a = {} /\ b = {}
<1>1. CASE Whole \in {a, b}
  BY <1>1, DamageAssumption DEF Union, Damage
<1>2. CASE Whole \notin {a, b}
  BY <1>2, DamageAssumption DEF Union, Damage
<1> QED BY <1>1, <1>2

(* Builds of one page with one epoch draw the same. *)
LEMMA SameEpoch ==
    ASSUME NEW a, NEW b, Before(a, b), Small(b), a.epoch = b.epoch, b.content \in Content, b.epoch \in Nat
    PROVE  \A r \in Region : a.content[r] = b.content[r]
  BY EpochIsNat DEF Before, Small, Content

(* The order of builds is transitive. *)
LEMMA BeforeTransitive ==
    ASSUME NEW a, NEW b, NEW c, a.epoch \in Nat, b.epoch \in Nat, c.epoch \in Nat,
           b.content \in Content, c.content \in Content, Before(a, b), Before(b, c)
    PROVE  Before(a, c)
<1> \A r \in Region : b.content[r] \in Nat /\ c.content[r] \in Nat BY EpochIsNat DEF Content
<1> QED BY DEF Before

(* A build is younger than the page before it, and its damage covers the way. *)
LEMMA BuiltPage ==
    ASSUME NEW p \in Page, Small(p), p.edits # {} => p.epoch < MaxEdits
    PROVE  /\ Built(p) \in Page
           /\ Small(Built(p)) /\ Before(p, Built(p)) /\ Built(p).edits = {}
           /\ p.edits = {} => Built(p).epoch = p.epoch
           /\ p.edits # {} => Built(p).epoch = p.epoch + 1
           /\ Built(p).epoch = p.epoch => Built(p) = p
           /\ Built(p).epoch # p.epoch => Changed(p, Built(p), Built(p).dirty)
<1>1. CASE p.edits = {}
  <2>1. Built(p) = p BY <1>1 DEF Built
  <2>2. p.epoch \in Nat /\ p.epoch # p.epoch + 1 /\ p.epoch <= p.epoch
    <3>1. p.epoch \in Nat BY EpochIsNat DEF Page
    <3> QED BY <3>1
  <2> QED BY <2>1, <2>2, <1>1 DEF Before
<1>2. CASE p.edits # {}
  <2>1. Built(p) = Rebuilt(p) BY <1>2 DEF Built
  <2> PICK q : q = Rebuilt(p) OBVIOUS
  <2> DEFINE C == [r \in Region |-> IF p.edits = Whole \/ r \in p.edits THEN p.epoch + 1 ELSE p.content[r]]
  <2>2. q = [epoch |-> p.epoch + 1, content |-> C, dirty |-> p.edits, edits |-> {}] BY DEF Rebuilt
  <2>3. p.epoch \in Nat /\ p.epoch + 1 \in Epoch /\ p.epoch \in Epoch
    BY <1>2, DamageAssumption DEF Page, Epoch
  <2>4. \A r \in Region : C[r] \in Epoch /\ C[r] <= p.epoch + 1
                          /\ p.content[r] \in Nat /\ p.content[r] <= p.epoch
                          /\ (C[r] = p.epoch + 1 \/ C[r] = p.content[r])
                          /\ (p.edits # Whole /\ r \notin p.edits => C[r] = p.content[r])
    <3> SUFFICES ASSUME NEW r \in Region
                 PROVE  /\ C[r] \in Epoch /\ C[r] <= p.epoch + 1
                        /\ p.content[r] \in Nat /\ p.content[r] <= p.epoch
                        /\ C[r] = p.epoch + 1 \/ C[r] = p.content[r]
                        /\ p.edits # Whole /\ r \notin p.edits => C[r] = p.content[r]
      OBVIOUS
    <3>1. p.content[r] \in Epoch /\ p.content[r] \in Nat /\ p.content[r] <= p.epoch
      BY EpochIsNat DEF Page, Content, Small
    <3>2. C[r] = IF p.edits = Whole \/ r \in p.edits THEN p.epoch + 1 ELSE p.content[r] OBVIOUS
    <3>. HIDE DEF C
    <3>3. CASE p.edits = Whole \/ r \in p.edits BY <3>1, <3>2, <3>3, <2>3
    <3>4. CASE ~(p.edits = Whole \/ r \in p.edits) BY <3>1, <3>2, <3>4, <2>3
    <3> QED BY <3>3, <3>4
  <2>5. C \in Content BY <2>4 DEF Content
  <2>. HIDE DEF C
  <2>6. q \in Page BY <2>2, <2>3, <2>5 DEF Page, Damage
  <2>7. q.epoch = p.epoch + 1 /\ q.content = C /\ q.dirty = p.edits /\ q.edits = {} BY <2>2
  <2>8. Small(q) BY <2>7, <2>4 DEF Small
  <2>9. Before(p, q)
    <3> SUFFICES ASSUME NEW r \in Region, C[r] <= p.epoch PROVE p.content[r] = C[r]
      BY <2>7, <2>3 DEF Before
    <3> QED BY <2>4, <2>3
  <2>10. Changed(p, q, q.dirty) BY <2>7, <2>4 DEF Changed
  <2> QED BY <2>1, <2>6, <2>7, <2>8, <2>9, <2>10, <2>3, <1>2
<1> QED BY <1>1, <1>2

(* Accumulated damage covers every change since the older scene. *)
LEMMA Accumulated ==
    ASSUME NEW a, NEW b \in Scene, NEW c \in Scene,
           Changed(a, b, b.dirty),
           Follows(b, c)
    PROVE  Changed(a, Accumulate(b, c), Accumulate(b, c).dirty)
<1> PICK d : d = Accumulate(b, c) OBVIOUS
<1>1. d.dirty = (IF b.epoch = c.epoch THEN b.dirty ELSE Union(b.dirty, c.dirty)) /\ d.content = c.content
  BY DEF Accumulate, Scene
<1>2. CASE b.epoch = c.epoch
  BY <1>1, <1>2 DEF Changed, Follows
<1>3. CASE b.epoch # c.epoch
  <2>1. Union(b.dirty, c.dirty) # Whole => b.dirty # Whole /\ c.dirty # Whole /\ Union(b.dirty, c.dirty) = b.dirty \cup c.dirty
    BY UnionDamage DEF Scene
  <2> QED BY <2>1, <1>1, <1>3 DEF Changed, Follows
<1> QED BY <1>2, <1>3

(* Accumulating changes the damage of the newer scene alone. *)
LEMMA AccumulateFields ==
    ASSUME NEW b \in Scene, NEW c \in Scene
    PROVE  /\ Accumulate(b, c) \in Scene
           /\ Accumulate(b, c).tab = c.tab /\ Accumulate(b, c).epoch = c.epoch
           /\ Accumulate(b, c).content = c.content
<1>1. Union(b.dirty, c.dirty) \in Damage /\ b.dirty \in Damage BY UnionDamage DEF Scene
<1> PICK D : D = IF b.epoch = c.epoch THEN b.dirty ELSE Union(b.dirty, c.dirty) OBVIOUS
<1>2. D \in Damage BY <1>1
<1> PICK d : d = [c EXCEPT !.dirty = D] OBVIOUS
<1>3. d = Accumulate(b, c) BY DEF Accumulate
<1>4. d \in Scene /\ d.tab = c.tab /\ d.epoch = c.epoch /\ d.content = c.content BY <1>2 DEF Scene
<1> QED BY <1>3, <1>4

(* So does a scene that is to be drawn whole. *)
LEMMA FullFields ==
    ASSUME NEW c \in Scene
    PROVE  /\ Full(c) \in Scene /\ Full(c).tab = c.tab /\ Full(c).epoch = c.epoch
           /\ Full(c).content = c.content /\ Full(c).dirty = Whole
<1> Whole \in Damage BY DEF Damage
<1> PICK d : d = [c EXCEPT !.dirty = Whole] OBVIOUS
<1>1. d = Full(c) BY DEF Full
<1>2. d \in Scene /\ d.tab = c.tab /\ d.epoch = c.epoch /\ d.content = c.content /\ d.dirty = Whole BY DEF Scene
<1> QED BY <1>1, <1>2

(* Every page was built at most n times, and fewer if it has changes to build. *)
Fits(ps, n) == \A t \in Tab : ps[t].epoch <= n /\ (ps[t].edits # {} => ps[t].epoch < n)

HasScene == mailbox # None /\ mailbox.scene # None
InFlight == flight # None /\ flight.scene.tab # None
Drawn == prev # None /\ prev.tab # None

PagesAges == \A t \in Tab : Small(pages[t])
ScenesAges == \A t \in Tab : scenes[t] # None =>
    scenes[t].tab = t /\ Small(scenes[t]) /\ Before(scenes[t], pages[t])
MailAges == HasScene =>
    /\ mailbox.scene.tab = mailbox.tab /\ Small(mailbox.scene)
    /\ Before(mailbox.scene, pages[mailbox.tab])
    /\ scenes[mailbox.tab] # None => Before(scenes[mailbox.tab], mailbox.scene)
FramesAges ==
    /\ InFlight => /\ scenes[flight.scene.tab] # None /\ Small(flight.scene)
                   /\ Before(flight.scene, scenes[flight.scene.tab])
    /\ Drawn => /\ scenes[prev.tab] # None /\ Small(prev)
                /\ Before(prev, scenes[prev.tab])
    /\ InFlight /\ Drawn /\ prev.tab = flight.scene.tab => Before(prev, flight.scene)

(* What was published of the active tab is in the mailbox, or was taken last. *)
Published ==
    owner.published # None =>
        LET t == owner.published
        IN  IF mailbox = None THEN scenes[t] # None /\ scenes[t].epoch = pages[t].epoch
            ELSE mailbox.scene # None /\ mailbox.tab = t /\ mailbox.scene.epoch = pages[t].epoch

(* A snapshot that does not replace all covers the way from the scene there is. *)
MailDamage ==
    HasScene /\ ~mailbox.full /\ scenes[mailbox.tab] # None
        => Changed(scenes[mailbox.tab], mailbox.scene, mailbox.scene.dirty)

(* A capture of a visible window publishes the newest build of the active page. *)
LEMMA CaptureKeeps ==
    ASSUME TypeOK, PagesAges, ScenesAges, MailAges, Published, MailDamage,
           NEW o \in Owner, o.published = owner.published,
           NEW ps \in [Tab -> Page], NEW n \in 0 .. MaxEdits, Fits(ps, n),
           \A t \in Tab : ps[t].epoch = pages[t].epoch /\ ps[t].content = pages[t].content,
           Capture(o, ps), UNCHANGED scenes
    PROVE  /\ pages' \in [Tab -> Page] /\ owner' \in Owner /\ mailbox' \in Mail \cup {None}
           /\ PagesAges' /\ ScenesAges' /\ MailAges' /\ Published' /\ MailDamage' /\ Fits(pages', n)
           /\ owner'.active = o.active /\ owner'.seen = o.seen
           /\ mailbox'.seen = o.seen /\ mailbox'.tab = o.active
<1> PICK t : t = o.active OBVIOUS
<1>0. t \in Tab /\ o.active = t /\ ps[t] \in Page BY DEF Owner
<1> PICK p : p = ps[t] OBVIOUS
<1> PICK q : q = Built(p) OBVIOUS
<1>1. p \in Page /\ p = ps[t] /\ n \in Nat /\ n <= MaxEdits /\ (p.edits # {} => p.epoch < n) /\ p.epoch <= n
      /\ MaxEdits \in Nat
  BY <1>0, DamageAssumption DEF Fits
<1>2. pages[t] \in Page /\ Small(pages[t]) /\ p.epoch = pages[t].epoch /\ p.content = pages[t].content
      /\ p.epoch \in Nat
  BY <1>0, <1>1, EpochIsNat DEF TypeOK, PagesAges, Page
<1>3. Small(p) BY <1>2 DEF Small
<1>4. p.edits # {} => p.epoch < MaxEdits BY <1>1, <1>2
<1>5. /\ q \in Page
      /\ Small(q) /\ Before(p, q) /\ q.edits = {}
      /\ p.edits = {} => q.epoch = p.epoch
      /\ p.edits # {} => q.epoch = p.epoch + 1
      /\ q.epoch = p.epoch => q = p
      /\ q.epoch # p.epoch => Changed(p, q, q.dirty)
  BY <1>1, <1>3, <1>4, BuiltPage
<1>6. Before(pages[t], q) BY <1>5, <1>2 DEF Before
<1>7. pages' = [ps EXCEPT ![t] = q] BY <1>0, <1>1 DEF Capture
<1>8. pages'[t] = q /\ (\A u \in Tab : u # t => pages'[u] = ps[u]) /\ pages' \in [Tab -> Page]
  BY <1>7, <1>0, <1>5
<1>9. q.epoch \in Nat /\ q.content \in Content /\ q.epoch \in Epoch /\ q.dirty \in Damage
  BY <1>5, EpochIsNat DEF Page
<1>10. Fits(pages', n)
  <2> SUFFICES ASSUME NEW u \in Tab
               PROVE  pages'[u].epoch <= n /\ (pages'[u].edits # {} => pages'[u].epoch < n)
    BY DEF Fits
  <2>1. CASE u = t
    <3>1. q.epoch <= n BY <1>1, <1>2, <1>5
    <3> QED BY <2>1, <1>8, <1>5, <3>1
  <2>2. CASE u # t BY <2>2, <1>8 DEF Fits
  <2> QED BY <2>1, <2>2
<1>11. \A u \in Tab : Before(pages[u], pages'[u]) /\ Small(pages'[u])
  <2> SUFFICES ASSUME NEW u \in Tab, u # t PROVE Before(pages[u], pages'[u]) /\ Small(pages'[u])
    BY <1>8, <1>6, <1>5
  <2>1. pages'[u] = ps[u] /\ pages[u] \in Page /\ Small(pages[u]) BY <1>8 DEF TypeOK, Page, PagesAges
  <2>2. pages'[u].epoch = pages[u].epoch /\ pages'[u].content = pages[u].content /\ pages[u].epoch \in Nat
    BY <2>1, EpochIsNat DEF Page
  <2> QED BY <2>1, <2>2 DEF Before, Small
<1>12. PagesAges' BY <1>11 DEF PagesAges
<1>13. ScenesAges'
  <2> SUFFICES ASSUME NEW u \in Tab, scenes[u] # None PROVE Before(scenes[u], pages'[u])
    BY DEF ScenesAges
  <2>1. Before(scenes[u], pages[u]) /\ Before(pages[u], pages'[u]) BY <1>11 DEF ScenesAges
  <2>2. scenes[u] \in Scene /\ pages[u] \in Page /\ pages'[u] \in Page BY <1>8 DEF TypeOK, Page
  <2>3. scenes[u].epoch \in Nat /\ pages[u].epoch \in Nat /\ pages'[u].epoch \in Nat
        /\ pages[u].content \in Content /\ pages'[u].content \in Content
    BY <2>2, EpochIsNat DEF Scene, Page
  <2> QED BY <2>1, <2>3, BeforeTransitive
\* what is captured
<1> PICK full : full = (o.published # t) OBVIOUS
<1> PICK D : D = IF full THEN Whole ELSE q.dirty OBVIOUS
<1> PICK sc : sc = [tab |-> t, epoch |-> q.epoch, content |-> q.content, dirty |-> D] OBVIOUS
<1>14. full \in BOOLEAN /\ D \in Damage BY <1>9 DEF Damage
<1>15. sc \in Scene /\ sc.tab = t /\ sc.epoch = q.epoch /\ sc.content = q.content /\ sc.dirty = D /\ sc # None
  BY <1>14, <1>9, <1>0, NoneIsNothing DEF Scene
<1> PICK snap : snap = [tab |-> t, seen |-> o.seen, scene |-> sc, full |-> full] OBVIOUS
<1>16. o.seen \in Nat BY DEF Owner
<1>17. snap \in Mail /\ snap.tab = t /\ snap.seen = o.seen /\ snap.scene = sc /\ snap.full = full
  BY <1>15, <1>14, <1>0, <1>16 DEF Mail
<1>18. mailbox' = Replacing(snap) /\ owner' = [o EXCEPT !.published = t]
  BY <1>0, <1>1 DEF Capture, Snapshot
<1>19. owner' \in Owner /\ owner'.active = t /\ owner'.seen = o.seen /\ owner'.published = t
  BY <1>18, <1>0 DEF Owner
<1>20. Small(sc) /\ Before(sc, q) BY <1>15, <1>5, <1>9 DEF Small, Before
<1>21. \A a : Before(a, q) => Before(a, sc) BY <1>15 DEF Before
\* how the mailbox takes it
<1> PICK mb : mb = mailbox' OBVIOUS
<1>22. mailbox = None \/ mailbox \in Mail BY DEF TypeOK
<1>23. /\ mb \in Mail /\ mb.tab = t /\ mb.seen = o.seen /\ mb.scene \in Scene
       /\ mb.scene.tab = t /\ mb.scene.epoch = q.epoch /\ mb.scene.content = q.content
       /\ \/ mb.full
          \/ ~full /\ ~HasScene /\ mb.scene.dirty = q.dirty
          \/ ~full /\ HasScene /\ ~mailbox.full /\ mailbox.tab = t /\ mb.scene = Accumulate(mailbox.scene, sc)
  <2>1. CASE ~HasScene \/ full
    <3>1. mb = snap BY <2>1, <1>18, <1>17 DEF Replacing, HasScene
    <3> QED BY <3>1, <2>1, <1>17, <1>15
  <2>2. CASE HasScene /\ ~full /\ (mailbox.tab # t \/ mailbox.full)
    <3> PICK fs : fs = Full(sc) OBVIOUS
    <3>1. mb = [snap EXCEPT !.scene = fs, !.full = TRUE]
      BY <2>2, <1>18, <1>17 DEF Replacing, HasScene
    <3>2. fs \in Scene /\ fs.tab = t /\ fs.epoch = q.epoch /\ fs.content = q.content
      BY <1>15, FullFields
    <3>3. mb \in Mail /\ mb.tab = t /\ mb.seen = o.seen /\ mb.scene = fs /\ mb.full
      BY <3>1, <3>2, <1>17 DEF Mail
    <3> QED BY <3>3, <3>2
  <2>3. CASE HasScene /\ ~full /\ mailbox.tab = t /\ ~mailbox.full
    <3> PICK ac : ac = Accumulate(mailbox.scene, sc) OBVIOUS
    <3>1. mb = [snap EXCEPT !.scene = ac]
      BY <2>3, <1>18, <1>17 DEF Replacing, HasScene
    <3>2. mailbox.scene \in Scene BY <2>3, <1>22 DEF HasScene, Mail
    <3>3. ac \in Scene /\ ac.tab = t /\ ac.epoch = q.epoch /\ ac.content = q.content
      BY <3>2, <1>15, AccumulateFields
    <3>4. mb \in Mail /\ mb.tab = t /\ mb.seen = o.seen /\ mb.scene = ac
      BY <3>1, <3>3, <1>17 DEF Mail
    <3> QED BY <3>4, <3>3, <2>3
  <2> QED BY <2>1, <2>2, <2>3
<1>24. mb.scene # None /\ mb # None BY <1>23, NoneIsNothing
<1>25. Before(mb.scene, q) /\ Small(mb.scene) /\ (\A a : Before(a, q) => Before(a, mb.scene))
  BY <1>23, <1>5, <1>9 DEF Before, Small
<1>26. MailAges'
  BY <1>23, <1>24, <1>25, <1>13, <1>8, <1>0 DEF MailAges, ScenesAges, HasScene
<1>27. Published'
  BY <1>19, <1>23, <1>24, <1>8 DEF Published
<1>28. MailDamage'
  <2> SUFFICES ASSUME ~mb.full, scenes[t] # None PROVE Changed(scenes[t], mb.scene, mb.scene.dirty)
    BY <1>23 DEF MailDamage, HasScene
  <2>1. ~full /\ owner.published = t BY <1>23
  <2>2. scenes[t] \in Scene BY <1>0 DEF TypeOK
  <2>3. t # None BY <1>0, NoneIsNothing
  <2>4. Before(scenes[t], q) BY <1>13, <1>0, <1>8 DEF ScenesAges
  <2>5. CASE ~HasScene
    <3>1. mailbox = None BY <2>5, <2>1, <2>3 DEF Published, HasScene
    <3>2. scenes[t].epoch = p.epoch BY <3>1, <2>1, <2>3, <1>2 DEF Published
    <3>3. Before(scenes[t], pages[t]) BY <1>0 DEF ScenesAges
    <3>4. \A r \in Region : scenes[t].content[r] = pages[t].content[r]
      <4>1. pages[t].content \in Content /\ pages[t].epoch \in Nat /\ scenes[t].epoch = pages[t].epoch
        BY <1>2, <3>2 DEF Page
      <4> QED BY <4>1, <3>3, <1>2, SameEpoch
    <3>5. mb.scene.dirty = q.dirty BY <1>23, <2>5
    <3>6. CASE q.epoch = p.epoch
      <4>1. q = p BY <3>6, <1>5
      <4> QED BY <4>1, <3>4, <1>23, <1>2 DEF Changed
    <3>7. CASE q.epoch # p.epoch
      <4>1. Changed(p, q, q.dirty) BY <3>7, <1>5
      <4> QED BY <4>1, <3>4, <3>5, <1>23, <1>2 DEF Changed
    <3> QED BY <3>6, <3>7
  <2>6. CASE HasScene
    <3>1. mailbox.tab = t /\ ~mailbox.full /\ mb.scene = Accumulate(mailbox.scene, sc) BY <2>6, <1>23
    <3>2. mailbox.scene.epoch = p.epoch BY <2>6, <2>1, <2>3, <1>2 DEF Published, HasScene
    <3> PICK b : b = mailbox.scene OBVIOUS
    <3>3. b \in Scene /\ b.epoch = p.epoch /\ Before(b, pages[t])
      BY <2>6, <1>22, <3>1, <3>2 DEF HasScene, Mail, MailAges
    <3>4. \A r \in Region : b.content[r] = pages[t].content[r]
      <4>1. pages[t].content \in Content /\ pages[t].epoch \in Nat /\ b.epoch = pages[t].epoch
        BY <1>2, <3>3 DEF Page
      <4> QED BY <4>1, <3>3, <1>2, SameEpoch
    <3>5. Changed(scenes[t], b, b.dirty) BY <2>6, <3>1 DEF MailDamage
    <3>6. Follows(b, sc)
      BY <3>3, <3>4, <1>15, <1>5, <1>2, <2>1 DEF Follows, Changed
    <3>8. Changed(scenes[t], Accumulate(b, sc), Accumulate(b, sc).dirty)
      <4> PICK a : a = scenes[t] OBVIOUS
      <4>1. Changed(a, b, b.dirty) BY <3>5
      <4>2. Changed(a, Accumulate(b, sc), Accumulate(b, sc).dirty)
        BY <3>3, <4>1, <3>6, <1>15, Accumulated
      <4> QED BY <4>2
    <3> QED BY <3>8, <3>1
  <2> QED BY <2>5, <2>6
<1> QED BY <1>8, <1>19, <1>23, <1>12, <1>13, <1>26, <1>27, <1>28, <1>10, <1>0

(* A capture of a hidden one publishes no scene, and the next will be whole. *)
LEMMA CaptureHiddenKeeps ==
    ASSUME TypeOK, PagesAges, ScenesAges, MailAges, MailDamage,
           NEW o \in Owner, NEW ps \in [Tab -> Page],
           \A t \in Tab : Before(pages[t], ps[t]) /\ Small(ps[t]),
           CaptureHidden(o, ps), UNCHANGED scenes
    PROVE  /\ pages' = ps /\ owner' \in Owner /\ mailbox' \in Mail \cup {None}
           /\ PagesAges' /\ ScenesAges' /\ MailAges' /\ Published' /\ MailDamage'
           /\ owner'.active = o.active /\ owner'.seen = o.seen
           /\ \/ o = owner /\ mailbox' = mailbox
              \/ mailbox'.seen = o.seen /\ mailbox'.tab = o.active
<1>1. pages' = ps /\ owner' = [o EXCEPT !.published = None] BY DEF CaptureHidden, Unpublished
<1>2. owner' \in Owner /\ owner'.active = o.active /\ owner'.seen = o.seen /\ owner'.published = None
  BY <1>1 DEF Owner
<1>3. Published' BY <1>2 DEF Published
<1>4. PagesAges' BY <1>1 DEF PagesAges
<1>5. \A t \in Tab : \A a : a.epoch \in Nat /\ Before(a, pages[t]) => Before(a, ps[t])
  <2> SUFFICES ASSUME NEW t \in Tab, NEW a, a.epoch \in Nat, Before(a, pages[t]) PROVE Before(a, ps[t])
    OBVIOUS
  <2>1. pages[t] \in Page /\ ps[t] \in Page BY DEF TypeOK, Page
  <2>2. pages[t].epoch \in Nat /\ ps[t].epoch \in Nat /\ pages[t].content \in Content /\ ps[t].content \in Content
    BY <2>1, EpochIsNat DEF Page
  <2> QED BY <2>2, BeforeTransitive
<1>6. ScenesAges'
  <2> SUFFICES ASSUME NEW u \in Tab, scenes[u] # None PROVE Before(scenes[u], ps[u])
    BY <1>1 DEF ScenesAges
  <2>1. scenes[u].epoch \in Nat BY EpochIsNat DEF TypeOK, Scene
  <2> QED BY <2>1, <1>5 DEF ScenesAges
<1>7. CASE o = owner /\ mailbox' = mailbox
  <2>1. MailAges'
    <3> SUFFICES ASSUME HasScene PROVE Before(mailbox.scene, ps[mailbox.tab])
      BY <1>7, <1>1 DEF MailAges, HasScene
    <3>1. mailbox \in Mail BY DEF TypeOK, HasScene
    <3>2. mailbox.tab \in Tab /\ mailbox.scene \in Scene BY <3>1 DEF Mail, HasScene
    <3>3. mailbox.scene.epoch \in Nat BY <3>2, EpochIsNat DEF Scene
    <3> QED BY <3>2, <3>3, <1>5 DEF MailAges
  <2>2. MailDamage' BY <1>7 DEF MailDamage, HasScene
  <2> QED BY <2>1, <2>2, <1>1, <1>2, <1>3, <1>4, <1>6, <1>7 DEF TypeOK
<1>8. CASE mailbox' = Snapshot(o, None, FALSE)
  <2> PICK mb : mb = mailbox' OBVIOUS
  <2>1. mb = [tab |-> o.active, seen |-> o.seen, scene |-> None, full |-> FALSE] BY <1>8 DEF Snapshot
  <2>2. mb \in Mail /\ mb.scene = None /\ mb.tab = o.active /\ mb.seen = o.seen BY <2>1 DEF Mail, Owner
  <2>3. MailAges' /\ MailDamage' BY <2>2 DEF MailAges, MailDamage, HasScene
  <2> QED BY <2>2, <2>3, <1>1, <1>2, <1>3, <1>4, <1>6
<1> QED BY <1>7, <1>8 DEF CaptureHidden

Pages == Fits(pages, count.edits)
Window == [active : Tab, visible : BOOLEAN, pending : Seq(Tab), snapshot : Tab,
           presented : Tab \cup {None}, owed : BOOLEAN]
Count == [edits : 0..MaxEdits, selects : 0..MaxSelects, hides : 0..MaxHides, drops : 0..MaxDrops]

IsSelect(i) == commands[i].kind = "select"
(* Selects reach the owner in the order the window made them. *)
InOrder ==
    /\ \A i \in 1 .. Len(commands) : IsSelect(i) =>
          /\ owner.seen <= commands[i].serial /\ commands[i].serial <= count.selects
          /\ commands[i].serial = count.selects => commands[i].tab = window.active
    /\ \A i, j \in 1 .. Len(commands) :
          i < j /\ IsSelect(i) /\ IsSelect(j) => commands[i].serial <= commands[j].serial
(* The owner has seen the last select, or it is on the way. *)
OwnerKnows ==
    /\ owner.seen <= count.selects /\ count.selects <= Len(window.pending) + owner.seen
    /\ owner.seen = count.selects => owner.active = window.active
    /\ \/ owner.seen = count.selects
       \/ \E i \in 1 .. Len(commands) : IsSelect(i) /\ commands[i].serial = count.selects
(* A snapshot has seen no more selects than its owner. *)
MailKnows == mailbox # None =>
    /\ mailbox.seen <= owner.seen /\ count.selects <= Len(window.pending) + mailbox.seen
    /\ mailbox.seen = count.selects => mailbox.tab = window.active
(* The last select not yet seen is what the window shows. *)
LastPending == window.pending # <<>> => window.pending[Len(window.pending)] = window.active

Ages == PagesAges /\ ScenesAges /\ MailAges /\ FramesAges
Selects == InOrder /\ OwnerKnows /\ MailKnows /\ LastPending
Base == TypeOK /\ Pages /\ Ages /\ Published /\ MailDamage /\ Selects

(* The type invariant by the names used here. *)
LEMMA TypeParts ==
    TypeOK <=> /\ owner \in Owner /\ window \in Window /\ pages \in [Tab -> Page]
               /\ mailbox \in Mail \cup {None} /\ commands \in Seq(Command)
               /\ scenes \in [Tab -> Scene \cup {None}] /\ flight \in Frame \cup {None}
               /\ prev \in Scene \cup {Placeholder, None} /\ count \in Count
  BY DEF TypeOK, Owner, Window, Page, Count

(* Base holds at the start. *)
LEMMA BaseInit == Init => Base
<1> SUFFICES ASSUME Init PROVE Base OBVIOUS
<1> PICK t \in Tab :
        /\ owner = [active |-> t, visible |-> TRUE, published |-> None, seen |-> 0]
        /\ window = [active |-> t, visible |-> TRUE, pending |-> <<>>, snapshot |-> t, presented |-> None,
                     owed |-> TRUE]
        /\ pages = [u \in Tab |-> [epoch |-> 0, content |-> [r \in Region |-> 0], dirty |-> Whole, edits |-> {}]]
        /\ mailbox = None /\ commands = <<>> /\ scenes = [u \in Tab |-> None]
        /\ flight = None /\ prev = None /\ surface = [r \in Region |-> <<None, 0>>]
        /\ count = [edits |-> 0, selects |-> 0, hides |-> 0, drops |-> 0]
  BY DEF Init
<1>1. 0 \in Epoch /\ 0 \in 0..MaxEdits /\ 0 \in 0..MaxSelects /\ 0 \in 0..MaxHides /\ 0 \in 0..MaxDrops
  BY DamageAssumption DEF Epoch
<1> PICK C : C = [r \in Region |-> 0] OBVIOUS
<1>2. C \in Content /\ \A r \in Region : C[r] = 0 BY <1>1 DEF Content
<1> PICK p : p = [epoch |-> 0, content |-> C, dirty |-> Whole, edits |-> {}] OBVIOUS
<1>3. p \in Page /\ Small(p) /\ p.epoch = 0 /\ p.edits = {} BY <1>1, <1>2 DEF Page, Damage, Small
<1>4. pages = [u \in Tab |-> p] OBVIOUS
<1>5. pages \in [Tab -> Page] /\ (\A u \in Tab : pages[u] = p) BY <1>3, <1>4
<1>6. owner \in Owner /\ window \in Window /\ count \in Count
  BY <1>1 DEF Owner, Window, Count
<1>7. TypeOK
  <2>1. commands \in Seq(Command) BY EmptySeq
  <2>2. scenes \in [Tab -> Scene \cup {None}] OBVIOUS
  <2> QED BY <1>5, <1>6, <2>1, <2>2, TypeParts
<1>8. Pages BY <1>5, <1>3 DEF Pages, Fits
<1>9. Ages BY <1>5, <1>3 DEF Ages, PagesAges, ScenesAges, MailAges, FramesAges, HasScene, InFlight, Drawn
<1>10. Published /\ MailDamage BY DEF Published, MailDamage, HasScene
<1>11. Selects BY DEF Selects, InOrder, OwnerKnows, MailKnows, LastPending
<1> QED BY <1>7, <1>8, <1>9, <1>10, <1>11 DEF Base

(* What publishing does to the owner, the pages and the mailbox. *)
LEMMA PublishKeeps ==
    ASSUME Base,
           NEW o \in Owner, o.published = owner.published,
           NEW ps \in [Tab -> Page], NEW n \in 0 .. MaxEdits, Fits(ps, n),
           \A t \in Tab : ps[t].epoch = pages[t].epoch /\ ps[t].content = pages[t].content,
           Publish(o, ps), UNCHANGED <<scenes, flight, prev>>
    PROVE  /\ pages' \in [Tab -> Page] /\ owner' \in Owner /\ mailbox' \in Mail \cup {None}
           /\ Ages' /\ Published' /\ MailDamage' /\ Fits(pages', n)
           /\ owner'.active = o.active /\ owner'.seen = o.seen
           /\ \/ o = owner /\ mailbox' = mailbox
              \/ mailbox'.seen = o.seen /\ mailbox'.tab = o.active
<1>1. FramesAges' BY DEF Base, Ages, FramesAges, InFlight, Drawn
<1>2. CASE o.visible
  <2>1. Capture(o, ps) BY <1>2 DEF Publish
  <2> QED BY <2>1, <1>1, CaptureKeeps DEF Base, Ages
<1>3. CASE ~o.visible
  <2>1. CaptureHidden(o, ps) BY <1>3 DEF Publish
  <2>2. \A t \in Tab : Before(pages[t], ps[t]) /\ Small(ps[t])
    <3> SUFFICES ASSUME NEW t \in Tab PROVE Before(pages[t], ps[t]) /\ Small(ps[t])
      OBVIOUS
    <3>1. pages[t].epoch \in Nat /\ ps[t].epoch = pages[t].epoch /\ ps[t].content = pages[t].content
      BY EpochIsNat DEF Base, TypeOK
    <3> QED BY <3>1 DEF Base, Ages, PagesAges, Before, Small
  <2>3. /\ pages' = ps /\ owner' \in Owner /\ mailbox' \in Mail \cup {None}
        /\ PagesAges' /\ ScenesAges' /\ MailAges' /\ Published' /\ MailDamage'
        /\ owner'.active = o.active /\ owner'.seen = o.seen
        /\ \/ o = owner /\ mailbox' = mailbox
           \/ mailbox'.seen = o.seen /\ mailbox'.tab = o.active
    BY <2>1, <2>2, CaptureHiddenKeeps DEF Base, Ages
  <2> QED BY <2>3, <1>1 DEF Ages
<1> QED BY <1>2, <1>3

(* What each action does to the counts. *)
LEMMA CountStep ==
    ASSUME count \in Count
    PROVE  /\ count' = [count EXCEPT !.edits = @ + 1] /\ count.edits < MaxEdits =>
                  count' \in Count /\ count'.edits = count.edits + 1 /\ count'.selects = count.selects
           /\ count' = [count EXCEPT !.selects = @ + 1] /\ count.selects < MaxSelects =>
                  count' \in Count /\ count'.edits = count.edits /\ count'.selects = count.selects + 1
           /\ count' = [count EXCEPT !.hides = IF window.visible THEN @ + 1 ELSE @]
                /\ (window.visible => count.hides < MaxHides) =>
                  count' \in Count /\ count'.edits = count.edits /\ count'.selects = count.selects
           /\ \A c : count' = [count EXCEPT !.drops = IF c THEN @ + 1 ELSE @]
                /\ (c => count.drops < MaxDrops) =>
                  count' \in Count /\ count'.edits = count.edits /\ count'.selects = count.selects
           /\ count.edits \in Nat /\ count.selects \in Nat /\ count.edits \in 0 .. MaxEdits
<1> USE DamageAssumption
<1>1. count.edits \in 0 .. MaxEdits /\ count.selects \in 0 .. MaxSelects
      /\ count.hides \in 0 .. MaxHides /\ count.drops \in 0 .. MaxDrops
  BY DEF Count
<1>2. ASSUME count' = [count EXCEPT !.edits = @ + 1] /\ count.edits < MaxEdits
      PROVE  count' \in Count /\ count'.edits = count.edits + 1 /\ count'.selects = count.selects
  BY <1>1, <1>2 DEF Count
<1>3. ASSUME count' = [count EXCEPT !.selects = @ + 1] /\ count.selects < MaxSelects
      PROVE  count' \in Count /\ count'.edits = count.edits /\ count'.selects = count.selects + 1
  BY <1>1, <1>3 DEF Count
<1>4. ASSUME count' = [count EXCEPT !.hides = IF window.visible THEN @ + 1 ELSE @]
             /\ (window.visible => count.hides < MaxHides)
      PROVE  count' \in Count /\ count'.edits = count.edits /\ count'.selects = count.selects
  <2> PICK h : h = IF window.visible THEN count.hides + 1 ELSE count.hides OBVIOUS
  <2>1. h \in 0 .. MaxHides BY <1>1, <1>4
  <2>2. count' = [count EXCEPT !.hides = h] BY <1>4
  <2> QED BY <2>1, <2>2 DEF Count
<1>5. ASSUME NEW c, count' = [count EXCEPT !.drops = IF c THEN @ + 1 ELSE @]
                /\ (c => count.drops < MaxDrops)
      PROVE  count' \in Count /\ count'.edits = count.edits /\ count'.selects = count.selects
  <2> PICK h : h = IF c THEN count.drops + 1 ELSE count.drops OBVIOUS
  <2>1. h \in 0 .. MaxDrops BY <1>1, <1>5
  <2>2. count' = [count EXCEPT !.drops = h] BY <1>5
  <2> QED BY <2>1, <2>2 DEF Count
<1> QED BY <1>1, <1>2, <1>3, <1>4, <1>5

(* Each action of the owner keeps Base: a change to a page, *)
LEMMA EditKeeps ==
    ASSUME Base, NEW t \in Tab, NEW damage \in {Whole} \cup {{r} : r \in Region}, Edit(t, damage)
    PROVE  Base'
<1> PICK e : e = Union(pages[t].edits, damage) OBVIOUS
<1> PICK ps : ps = [pages EXCEPT ![t].edits = e] OBVIOUS
<1>1. damage \in Damage /\ pages[t] \in Page /\ pages[t].edits \in Damage /\ pages \in [Tab -> Page]
  BY TypeParts DEF Damage, Base, Page
<1>2. e \in Damage BY <1>1, UnionDamage
<1> PICK p : p = [pages[t] EXCEPT !.edits = e] OBVIOUS
<1>3. p \in Page /\ p.epoch = pages[t].epoch /\ p.content = pages[t].content BY <1>1, <1>2 DEF Page
<1>4. ps = [pages EXCEPT ![t] = p] BY <1>1
<1>5. ps \in [Tab -> Page] /\ ps[t] = p /\ \A u \in Tab : u # t => ps[u] = pages[u] BY <1>4, <1>3, <1>1
<1>6. \A u \in Tab : ps[u].epoch = pages[u].epoch /\ ps[u].content = pages[u].content BY <1>5, <1>3
<1>7. count \in Count /\ count' = [count EXCEPT !.edits = @ + 1] /\ count.edits < MaxEdits
  BY TypeParts DEF Edit, Base
<1>8. count' \in Count /\ count'.edits = count.edits + 1 /\ count'.selects = count.selects
      /\ count.edits \in Nat
  BY <1>7, CountStep
<1> PICK n : n = count'.edits OBVIOUS
<1>9. n \in 0 .. MaxEdits /\ n = count.edits + 1 /\ n \in Nat BY <1>8, DamageAssumption DEF Count
<1>10. Fits(ps, n)
  <2> SUFFICES ASSUME NEW u \in Tab PROVE ps[u].epoch < n BY <1>9, <1>5, EpochIsNat DEF Fits, Page
  <2>1. pages[u].epoch <= count.edits /\ pages[u].epoch \in Nat
    BY <1>1, EpochIsNat DEF Base, Pages, Fits, Page
  <2> QED BY <2>1, <1>6, <1>8, <1>9
<1>11. Publish(owner, ps) /\ UNCHANGED <<scenes, flight, prev>> /\ UNCHANGED <<commands, window>>
  BY DEF Edit
<1>12. owner \in Owner /\ owner.published = owner.published BY TypeParts DEF Base
<1>13. /\ pages' \in [Tab -> Page] /\ owner' \in Owner /\ mailbox' \in Mail \cup {None}
       /\ Ages' /\ Published' /\ MailDamage' /\ Fits(pages', n)
       /\ owner'.active = owner.active /\ owner'.seen = owner.seen
       /\ \/ owner = owner /\ mailbox' = mailbox
          \/ mailbox'.seen = owner.seen /\ mailbox'.tab = owner.active
  BY <1>5, <1>6, <1>9, <1>10, <1>11, <1>12, PublishKeeps
<1>14. TypeOK' BY <1>13, <1>11, <1>8, TypeParts DEF TypeOK, Base, Owner, Page, Count
<1>15. Selects'
  <2>1. InOrder' BY <1>13, <1>11, <1>8 DEF Base, Selects, InOrder, IsSelect
  <2>2. OwnerKnows' BY <1>13, <1>11, <1>8 DEF Base, Selects, OwnerKnows, IsSelect
  <2>3. MailKnows'
    <3>0. owner.seen \in Nat BY <1>12 DEF Owner
    <3>1. CASE mailbox' = mailbox BY <3>1, <1>13, <1>11, <1>8 DEF Base, Selects, MailKnows
    <3>2. CASE mailbox'.seen = owner.seen /\ mailbox'.tab = owner.active
      BY <3>2, <3>0, <1>13, <1>11, <1>8 DEF Base, Selects, MailKnows, OwnerKnows
    <3> QED BY <3>1, <3>2, <1>13
  <2>4. LastPending' BY <1>11 DEF Base, Selects, LastPending
  <2> QED BY <2>1, <2>2, <2>3, <2>4 DEF Selects
<1>16. Pages' BY <1>13 DEF Pages
<1> QED BY <1>13, <1>14, <1>15, <1>16 DEF Base

(* a build nobody will see, *)
LEMMA BuildHiddenKeeps == Base /\ BuildHidden => Base'
<1> SUFFICES ASSUME Base, BuildHidden PROVE Base' OBVIOUS
<1> PICK t : t = owner.active OBVIOUS
<1> PICK q : q = Built(pages[t]) OBVIOUS
<1> PICK ps : ps = [pages EXCEPT ![t] = q] OBVIOUS
<1>1. owner \in Owner /\ t \in Tab /\ pages \in [Tab -> Page] /\ pages[t] \in Page /\ count \in Count
  BY TypeParts DEF Base, Owner
<1>2. CaptureHidden(owner, ps) /\ UNCHANGED <<commands, window, scenes, flight, surface, prev, count>>
  BY <1>1 DEF BuildHidden
<1>3. count.edits \in Nat /\ count.edits <= MaxEdits /\ MaxEdits \in Nat
  BY <1>1, DamageAssumption DEF Count
<1>4. pages[t].epoch \in Nat /\ pages[t].epoch <= count.edits
      /\ (pages[t].edits # {} => pages[t].epoch < count.edits)
  BY <1>1, EpochIsNat DEF Base, Pages, Fits, Page
<1>5. Small(pages[t]) BY <1>1 DEF Base, Ages, PagesAges
<1>6. pages[t].edits # {} => pages[t].epoch < MaxEdits BY <1>3, <1>4
<1>7. /\ q \in Page
      /\ Small(q) /\ Before(pages[t], q) /\ q.edits = {}
      /\ pages[t].edits = {} => q.epoch = pages[t].epoch
      /\ pages[t].edits # {} => q.epoch = pages[t].epoch + 1
  BY <1>1, <1>5, <1>6, BuiltPage
<1>8. ps \in [Tab -> Page] /\ ps[t] = q /\ \A u \in Tab : u # t => ps[u] = pages[u] BY <1>1, <1>7
<1>9. \A u \in Tab : Before(pages[u], ps[u]) /\ Small(ps[u])
  <2> SUFFICES ASSUME NEW u \in Tab, u # t PROVE Before(pages[u], ps[u]) /\ Small(ps[u])
    BY <1>7, <1>8
  <2>1. ps[u] = pages[u] /\ pages[u].epoch \in Nat BY <1>8, <1>1, EpochIsNat DEF Page
  <2> QED BY <2>1 DEF Before, Base, Ages, PagesAges
<1>10. /\ pages' = ps /\ owner' \in Owner /\ mailbox' \in Mail \cup {None}
       /\ PagesAges' /\ ScenesAges' /\ MailAges' /\ Published' /\ MailDamage'
       /\ owner'.active = owner.active /\ owner'.seen = owner.seen
       /\ \/ owner = owner /\ mailbox' = mailbox
          \/ mailbox'.seen = owner.seen /\ mailbox'.tab = owner.active
  BY <1>1, <1>2, <1>8, <1>9, CaptureHiddenKeeps DEF Base, Ages
<1>11. Ages' BY <1>10, <1>2 DEF Base, Ages, FramesAges, InFlight, Drawn
<1>12. TypeOK' BY <1>10, <1>8, <1>2, TypeParts DEF TypeOK, Base, Owner, Page, Count
<1>13. Fits(ps, count.edits)
  <2> SUFFICES ASSUME NEW u \in Tab PROVE ps[u].epoch <= count.edits /\ (ps[u].edits # {} => ps[u].epoch < count.edits)
    BY DEF Fits
  <2>1. CASE u = t
    <3>1. q.epoch <= count.edits BY <1>3, <1>4, <1>7
    <3> QED BY <2>1, <3>1, <1>8, <1>7
  <2>2. CASE u # t BY <2>2, <1>8 DEF Base, Pages, Fits
  <2> QED BY <2>1, <2>2
<1>14. Selects'
  <2>1. InOrder' BY <1>10, <1>2 DEF Base, Selects, InOrder, IsSelect
  <2>2. OwnerKnows' BY <1>10, <1>2 DEF Base, Selects, OwnerKnows, IsSelect
  <2>3. MailKnows'
    <3>0. owner.seen \in Nat BY <1>1 DEF Owner
    <3>1. CASE mailbox' = mailbox BY <3>1, <1>10, <1>2 DEF Base, Selects, MailKnows
    <3>2. CASE mailbox'.seen = owner.seen /\ mailbox'.tab = owner.active
      BY <3>2, <3>0, <1>10, <1>2 DEF Base, Selects, MailKnows, OwnerKnows
    <3> QED BY <3>1, <3>2, <1>10
  <2>4. LastPending' BY <1>2 DEF Base, Selects, LastPending
  <2> QED BY <2>1, <2>2, <2>3, <2>4 DEF Selects
<1>15. Pages' BY <1>13, <1>10, <1>2 DEF Pages
<1> QED BY <1>10, <1>11, <1>12, <1>14, <1>15 DEF Base

(* and a command. *)
LEMMA HearKeeps == Base /\ Hear => Base'
<1> SUFFICES ASSUME Base, Hear PROVE Base' OBVIOUS
<1> PICK m : m = Head(commands) OBVIOUS
<1> PICK o : o = Heard(owner, m) OBVIOUS
<1>1. /\ commands # <<>> /\ commands' = Tail(commands)
      /\ \/ Publish(o, pages)
         \/ owner' = o /\ UNCHANGED <<pages, mailbox>>
      /\ UNCHANGED <<window, scenes, flight, surface, prev, count>>
  BY DEF Hear
<1>2. owner \in Owner /\ pages \in [Tab -> Page] /\ count \in Count /\ commands \in Seq(Command)
      /\ mailbox \in Mail \cup {None}
  BY TypeParts DEF Base
<1>3. m \in Command /\ m = commands[1] /\ 1 \in 1 .. Len(commands) /\ Len(commands) \in Nat
      /\ commands' \in Seq(Command)
      /\ Len(commands') = Len(commands) - 1 /\ \A i \in 1 .. Len(commands') : commands'[i] = commands[i + 1]
  BY <1>1, <1>2, HeadTailProperties
<1>4. /\ owner.seen \in Nat /\ count.selects \in Nat /\ count.edits \in 0 .. MaxEdits
      /\ Len(window.pending) \in Nat
  BY <1>2, CountStep, TypeParts DEF Owner, Base, Window
<1>5. /\ o \in Owner /\ o.published = owner.published
      /\ owner.seen <= o.seen /\ o.seen <= count.selects /\ count.selects <= Len(window.pending) + o.seen
      /\ o.seen = count.selects => o.active = window.active
      /\ m.kind = "select" => o.seen = m.serial
      /\ m.kind # "select" => o.seen = owner.seen
  <2>1. CASE m.kind = "select"
    <3>1. m.tab \in Tab /\ m.serial \in Nat BY <2>1, <1>3 DEF Command
    <3>2. o = [owner EXCEPT !.active = m.tab, !.seen = m.serial] BY <2>1 DEF Heard
    <3>3. o \in Owner /\ o.published = owner.published /\ o.seen = m.serial /\ o.active = m.tab
      BY <3>1, <3>2, <1>2 DEF Owner
    <3>4. owner.seen <= m.serial /\ m.serial <= count.selects /\ (m.serial = count.selects => m.tab = window.active)
      BY <2>1, <1>3 DEF Base, Selects, InOrder, IsSelect
    <3>5. count.selects <= Len(window.pending) + owner.seen BY DEF Base, Selects, OwnerKnows
    <3>6. count.selects <= Len(window.pending) + m.serial BY <3>1, <3>4, <3>5, <1>4
    <3> QED BY <3>3, <3>4, <3>6, <2>1
  <2>2. CASE m.kind # "select"
    <3>1. m.visible \in BOOLEAN BY <2>2, <1>3 DEF Command
    <3>2. o = [owner EXCEPT !.visible = m.visible] BY <2>2 DEF Heard
    <3>3. o \in Owner /\ o.published = owner.published /\ o.seen = owner.seen /\ o.active = owner.active
      BY <3>1, <3>2, <1>2 DEF Owner
    <3> QED BY <3>3, <1>4, <2>2 DEF Base, Selects, OwnerKnows
  <2> QED BY <2>1, <2>2
<1>6. /\ pages' \in [Tab -> Page] /\ owner' \in Owner /\ mailbox' \in Mail \cup {None}
      /\ Ages' /\ Published' /\ MailDamage' /\ Fits(pages', count.edits)
      /\ owner'.active = o.active /\ owner'.seen = o.seen
      /\ \/ mailbox' = mailbox
         \/ mailbox'.seen = o.seen /\ mailbox'.tab = o.active
  <2>1. CASE Publish(o, pages)
    <3>1. Fits(pages, count.edits) /\ count.edits \in 0 .. MaxEdits BY <1>4 DEF Base, Pages
    <3> PICK n : n = count.edits OBVIOUS
    <3> PICK ps : ps = pages OBVIOUS
    <3>2. n \in 0 .. MaxEdits /\ Fits(ps, n) /\ ps \in [Tab -> Page] /\ Publish(o, ps)
          /\ UNCHANGED <<scenes, flight, prev>>
          /\ \A t \in Tab : ps[t].epoch = pages[t].epoch /\ ps[t].content = pages[t].content
      BY <3>1, <1>2, <1>1, <2>1
    <3>3. /\ pages' \in [Tab -> Page] /\ owner' \in Owner /\ mailbox' \in Mail \cup {None}
          /\ Ages' /\ Published' /\ MailDamage' /\ Fits(pages', n)
          /\ owner'.active = o.active /\ owner'.seen = o.seen
          /\ \/ o = owner /\ mailbox' = mailbox
             \/ mailbox'.seen = o.seen /\ mailbox'.tab = o.active
      BY <3>2, <1>5, PublishKeeps
    <3> QED BY <3>3
  <2>2. CASE owner' = o /\ UNCHANGED <<pages, mailbox>>
    <3>1. Ages' BY <2>2, <1>1 DEF Base, Ages, PagesAges, ScenesAges, MailAges, FramesAges, HasScene, InFlight, Drawn
    <3>2. Published' BY <2>2, <1>1, <1>5 DEF Base, Published
    <3>3. MailDamage' BY <2>2, <1>1 DEF Base, MailDamage, HasScene
    <3> QED BY <3>1, <3>2, <3>3, <2>2, <1>2, <1>5 DEF Base, Pages
  <2> QED BY <2>1, <2>2, <1>1
<1>7. TypeOK' BY <1>6, <1>1, <1>3, TypeParts DEF TypeOK, Base, Owner, Page, Count
<1>8. InOrder'
  <2>1. \A i \in 1 .. Len(commands') : i + 1 \in 1 .. Len(commands) /\ 1 < i + 1 /\ i + 1 \in Nat
    BY <1>3
  <2>2. \A i \in 1 .. Len(commands') : IsSelect(i)' =>
          /\ o.seen <= commands'[i].serial /\ commands'[i].serial <= count.selects
          /\ commands'[i].serial = count.selects => commands'[i].tab = window.active
    <3> SUFFICES ASSUME NEW i \in 1 .. Len(commands'), commands'[i].kind = "select"
                 PROVE /\ o.seen <= commands'[i].serial /\ commands'[i].serial <= count.selects
                       /\ commands'[i].serial = count.selects => commands'[i].tab = window.active
      BY DEF IsSelect
    <3> PICK j : j = i + 1 OBVIOUS
    <3>1. j \in 1 .. Len(commands) /\ 1 < j /\ commands'[i] = commands[j] /\ IsSelect(j)
      BY <2>1, <1>3 DEF IsSelect
    <3>2. /\ owner.seen <= commands[j].serial /\ commands[j].serial <= count.selects
          /\ commands[j].serial = count.selects => commands[j].tab = window.active
      BY <3>1 DEF Base, Selects, InOrder
    <3>3. m.kind = "select" => m.serial <= commands[j].serial
      BY <3>1, <1>3 DEF Base, Selects, InOrder, IsSelect
    <3> QED BY <3>1, <3>2, <3>3, <1>5
  <2>3. \A i, j \in 1 .. Len(commands') :
          i < j /\ IsSelect(i)' /\ IsSelect(j)' => commands'[i].serial <= commands'[j].serial
    <3> SUFFICES ASSUME NEW i \in 1 .. Len(commands'), NEW j \in 1 .. Len(commands'), i < j,
                        commands'[i].kind = "select", commands'[j].kind = "select"
                 PROVE  commands'[i].serial <= commands'[j].serial
      BY DEF IsSelect
    <3> PICK ii : ii = i + 1 OBVIOUS
    <3> PICK jj : jj = j + 1 OBVIOUS
    <3>1. ii \in 1 .. Len(commands) /\ jj \in 1 .. Len(commands) /\ ii < jj
          /\ commands'[i] = commands[ii] /\ commands'[j] = commands[jj] /\ IsSelect(ii) /\ IsSelect(jj)
      BY <2>1, <1>3 DEF IsSelect
    <3> QED BY <3>1 DEF Base, Selects, InOrder
  <2> QED BY <2>2, <2>3, <1>6, <1>1 DEF InOrder
<1>9. OwnerKnows'
  <2>1. owner'.seen <= count'.selects /\ count'.selects <= Len(window'.pending) + owner'.seen
        /\ (owner'.seen = count'.selects => owner'.active = window'.active)
    BY <1>5, <1>6, <1>1
  <2>2. ASSUME o.seen # count.selects
        PROVE  \E i \in 1 .. Len(commands') : commands'[i].kind = "select" /\ commands'[i].serial = count.selects
    <3>1. PICK i \in 1 .. Len(commands) : IsSelect(i) /\ commands[i].serial = count.selects
      BY <2>2, <1>5, <1>4 DEF Base, Selects, OwnerKnows, Owner
    <3>2. i # 1 BY <3>1, <1>3, <1>5, <2>2 DEF IsSelect
    <3> PICK k : k = i - 1 OBVIOUS
    <3>3. k \in 1 .. Len(commands') /\ k + 1 = i BY <3>2, <1>3
    <3> QED BY <3>1, <3>3, <1>3 DEF IsSelect
  <2> QED BY <2>1, <2>2, <1>6, <1>1 DEF OwnerKnows, IsSelect
<1>10. MailKnows'
  <2>0. o.seen \in Nat BY <1>5 DEF Owner
  <2>1. CASE mailbox' = mailbox
    <3> SUFFICES ASSUME mailbox # None PROVE mailbox.seen <= o.seen
      BY <2>1, <1>6, <1>1 DEF Base, Selects, MailKnows
    <3>1. mailbox.seen \in Nat /\ mailbox.seen <= owner.seen
      BY <1>2 DEF Base, Selects, MailKnows, Mail
    <3> QED BY <3>1, <1>5, <1>4, <2>0
  <2>2. CASE mailbox'.seen = o.seen /\ mailbox'.tab = o.active
    BY <2>2, <2>0, <1>5, <1>6, <1>1 DEF MailKnows
  <2> QED BY <2>1, <2>2, <1>6
<1>11. LastPending' BY <1>1 DEF Base, Selects, LastPending
<1>12. Pages' BY <1>6, <1>1 DEF Pages
<1> QED BY <1>6, <1>7, <1>8, <1>9, <1>10, <1>11, <1>12 DEF Base, Selects

(* So does each of the window: a select, which comes after all the others, *)
LEMMA SelectKeeps ==
    ASSUME Base, NEW t \in Tab, Select(t)
    PROVE  Base' /\ window'.owed
<1> PICK m : m = [kind |-> "select", tab |-> t, serial |-> count.selects + 1] OBVIOUS
<1> PICK pending : pending = Append(window.pending, t) OBVIOUS
<1>1. /\ count.selects < MaxSelects /\ count' = [count EXCEPT !.selects = @ + 1]
      /\ commands' = Append(commands, m)
      /\ window' = [window EXCEPT !.active = t, !.pending = pending, !.owed = TRUE]
      /\ UNCHANGED <<owner, pages, mailbox, scenes, flight, surface, prev>>
  BY DEF Select
<1>2. owner \in Owner /\ window \in Window /\ count \in Count /\ commands \in Seq(Command)
      /\ mailbox \in Mail \cup {None}
  BY TypeParts DEF Base
<1>3. count' \in Count /\ count'.edits = count.edits /\ count'.selects = count.selects + 1 /\ count.selects \in Nat
  BY <1>1, <1>2, CountStep
<1>4. m \in Command /\ m.kind = "select" /\ m.tab = t /\ m.serial = count.selects + 1 BY <1>3 DEF Command
<1>5. /\ commands' \in Seq(Command) /\ Len(commands') = Len(commands) + 1 /\ Len(commands) \in Nat
      /\ commands'[Len(commands) + 1] = m
      /\ \A i \in 1 .. Len(commands) : commands'[i] = commands[i]
  BY <1>1, <1>2, <1>4, AppendProperties
<1>6. window.pending \in Seq(Tab) BY <1>2 DEF Window
<1>7. /\ pending \in Seq(Tab) /\ Len(pending) = Len(window.pending) + 1 /\ Len(window.pending) \in Nat
      /\ pending[Len(pending)] = t
  BY <1>6, AppendProperties
<1>8. window' \in Window /\ window'.active = t /\ window'.pending = pending /\ window'.owed
  BY <1>1, <1>2, <1>7 DEF Window
<1>9. TypeOK' BY <1>1, <1>3, <1>5, <1>8, TypeParts DEF TypeOK, Base, Window, Count
<1>10. Pages' BY <1>1, <1>3 DEF Base, Pages
<1>11. Ages' BY <1>1 DEF Base, Ages, PagesAges, ScenesAges, MailAges, FramesAges, HasScene, InFlight, Drawn
<1>12. Published' /\ MailDamage' BY <1>1 DEF Base, Published, MailDamage, HasScene
<1>13. owner.seen \in Nat /\ owner.seen <= count.selects BY <1>2 DEF Owner, Base, Selects, OwnerKnows
<1>14. \A i \in 1 .. Len(commands) : IsSelect(i) =>
           owner.seen <= commands[i].serial /\ commands[i].serial <= count.selects /\ commands[i].serial \in Nat
  <2> SUFFICES ASSUME NEW i \in 1 .. Len(commands), IsSelect(i)
               PROVE owner.seen <= commands[i].serial /\ commands[i].serial <= count.selects /\ commands[i].serial \in Nat
    OBVIOUS
  <2>1. commands[i] \in Command BY <1>2
  <2>2. commands[i].serial \in Nat BY <2>1 DEF IsSelect, Command
  <2> QED BY <2>2 DEF Base, Selects, InOrder
<1>15. \A i \in 1 .. Len(commands') : i \in 1 .. Len(commands) \/ (i = Len(commands) + 1 /\ commands'[i] = m)
  BY <1>5
<1>16. InOrder'
  <2>1. \A i \in 1 .. Len(commands') : IsSelect(i)' =>
          /\ owner.seen <= commands'[i].serial /\ commands'[i].serial <= count.selects + 1
          /\ commands'[i].serial = count.selects + 1 => commands'[i].tab = t
    <3> SUFFICES ASSUME NEW i \in 1 .. Len(commands'), commands'[i].kind = "select"
                 PROVE /\ owner.seen <= commands'[i].serial /\ commands'[i].serial <= count.selects + 1
                       /\ commands'[i].serial = count.selects + 1 => commands'[i].tab = t
      BY DEF IsSelect
    <3>1. CASE i \in 1 .. Len(commands)
      <4>1. commands'[i] = commands[i] /\ IsSelect(i) BY <3>1, <1>5 DEF IsSelect
      <4> QED BY <3>1, <4>1, <1>14, <1>3
    <3>2. CASE commands'[i] = m BY <3>2, <1>4, <1>13, <1>3
    <3> QED BY <3>1, <3>2, <1>15
  <2>2. \A i, j \in 1 .. Len(commands') :
          i < j /\ IsSelect(i)' /\ IsSelect(j)' => commands'[i].serial <= commands'[j].serial
    <3> SUFFICES ASSUME NEW i \in 1 .. Len(commands'), NEW j \in 1 .. Len(commands'), i < j,
                        commands'[i].kind = "select", commands'[j].kind = "select"
                 PROVE  commands'[i].serial <= commands'[j].serial
      BY DEF IsSelect
    <3>1. i \in 1 .. Len(commands) BY <1>5
    <3>2. commands'[i] = commands[i] /\ IsSelect(i) BY <3>1, <1>5 DEF IsSelect
    <3>3. CASE j \in 1 .. Len(commands)
      <4>1. commands'[j] = commands[j] /\ IsSelect(j) BY <3>3, <1>5 DEF IsSelect
      <4> QED BY <3>1, <3>2, <3>3, <4>1 DEF Base, Selects, InOrder
    <3>4. CASE commands'[j] = m BY <3>4, <3>1, <3>2, <1>14, <1>4, <1>3
    <3> QED BY <3>3, <3>4, <1>15
  <2> QED BY <2>1, <2>2, <1>1, <1>3, <1>8 DEF InOrder
<1>17. OwnerKnows'
  <2>1. count.selects <= Len(window.pending) + owner.seen BY DEF Base, Selects, OwnerKnows
  <2>2. Len(commands) + 1 \in 1 .. Len(commands') BY <1>5
  <2>3. \E i \in 1 .. Len(commands') : commands'[i].kind = "select" /\ commands'[i].serial = count.selects + 1
    BY <2>2, <1>4, <1>5
  <2>4. owner.seen # count.selects + 1 /\ owner.seen <= count.selects + 1 BY <1>13, <1>3
  <2>5. count.selects + 1 <= Len(pending) + owner.seen BY <2>1, <1>13, <1>3, <1>7
  <2> QED BY <2>3, <2>4, <2>5, <1>1, <1>3, <1>8 DEF OwnerKnows, IsSelect
<1>18. MailKnows'
  <2> SUFFICES ASSUME mailbox # None
               PROVE  /\ mailbox.seen <= owner.seen /\ count.selects + 1 <= Len(pending) + mailbox.seen
                      /\ mailbox.seen # count.selects + 1
    BY <1>1, <1>3, <1>8 DEF MailKnows
  <2>1. mailbox.seen \in Nat /\ mailbox.seen <= owner.seen /\ count.selects <= Len(window.pending) + mailbox.seen
    BY <1>2 DEF Base, Selects, MailKnows, Mail
  <2> QED BY <2>1, <1>7, <1>13, <1>3
<1>19. LastPending' BY <1>7, <1>8 DEF LastPending
<1> QED BY <1>8, <1>9, <1>10, <1>11, <1>12, <1>16, <1>17, <1>18, <1>19 DEF Base, Selects

(* What the window takes of a snapshot, given that its selects follow it. *)
LEMMA TakeWindow ==
    ASSUME Base, Take
    PROVE  /\ window' \in Window /\ window'.active = window.active
           /\ window'.visible = window.visible /\ window'.presented = window.presented
           /\ LastPending' /\ Len(window'.pending) = count.selects - mailbox.seen
           /\ window'.owed = (window.owed \/ (window.visible /\ Changes(mailbox, window.active)))
           /\ mailbox \in Mail /\ mailbox.seen \in Nat /\ count.selects \in Nat /\ mailbox.seen <= count.selects
           /\ mailbox.tab \in Tab
<1>1. mailbox # None /\ mailbox' = None /\ window' = Receive(window, mailbox) /\ count' = count BY DEF Take
<1>2. window \in Window /\ mailbox \in Mail /\ count \in Count /\ owner \in Owner BY <1>1, TypeParts DEF Base
<1> PICK s : s = window.pending OBVIOUS
<1> PICK k : k = count.selects - mailbox.seen OBVIOUS
<1>3. /\ s \in Seq(Tab) /\ Len(s) \in Nat /\ mailbox.seen \in Nat /\ count.selects \in Nat
      /\ mailbox.seen <= owner.seen /\ owner.seen <= count.selects /\ owner.seen \in Nat
      /\ count.selects <= Len(s) + mailbox.seen /\ mailbox.tab \in Tab /\ window.active \in Tab
      /\ window.visible \in BOOLEAN /\ window.owed \in BOOLEAN
  BY <1>1, <1>2, CountStep DEF Window, Mail, Owner, Base, Selects, MailKnows, OwnerKnows
<1>4. k \in 0 .. Len(s) /\ mailbox.seen <= count.selects BY <1>3
<1> PICK u : u = SubSeq(s, Len(s) - k + 1, Len(s)) OBVIOUS
<1>5. u \in Seq(Tab) /\ Len(u) = k /\ (k > 0 => u[k] = s[Len(s)])
  <2> PICK b : b = Len(s) - k + 1 OBVIOUS
  <2>1. b \in 1 .. Len(s) + 1 /\ b \in Nat BY <1>3, <1>4
  <2>2. /\ u \in Seq(Tab) /\ Len(u) = (IF b <= Len(s) THEN Len(s) - b + 1 ELSE 0)
        /\ \A i \in 1 .. Len(s) - b + 1 : u[i] = s[b + i - 1]
    <3>1. s \in Seq(Tab) /\ Len(s) \in Nat /\ b \in 1 .. Len(s) + 1 BY <1>3, <2>1
    <3>2. Len(s) \in b - 1 .. Len(s) BY <3>1
    <3>3. /\ SubSeq(s, b, Len(s)) \in Seq(Tab)
          /\ Len(SubSeq(s, b, Len(s))) = (IF b <= Len(s) THEN Len(s) - b + 1 ELSE 0)
          /\ \A i \in 1 .. Len(s) - b + 1 : SubSeq(s, b, Len(s))[i] = s[b + i - 1]
      BY <3>1, <3>2, SubSeqProperties
    <3> QED BY <3>3
  <2>3. Len(u) = k BY <2>2, <1>3, <1>4
  <2>4. ASSUME k > 0 PROVE u[k] = s[Len(s)]
    <3>0. k \in Nat /\ k \in Int /\ Len(s) \in Int BY <1>3, <1>4
    <3>1. k \in 1 .. Len(s) - b + 1 /\ b + k - 1 = Len(s) BY <2>4, <3>0
    <3> QED BY <3>1, <2>2
  <2> QED BY <2>2, <2>3, <2>4
<1> PICK active : active = IF u = <<>> THEN mailbox.tab ELSE Last(u) OBVIOUS
<1>6. active = window.active
  <2>1. CASE k = 0
    <3>1. u = <<>> /\ mailbox.seen = count.selects 
      <4>1. Len(u) = 0 BY <2>1, <1>5
      <4>2. mailbox.seen = count.selects BY <2>1, <1>3
      <4> QED BY <4>1, <4>2, <1>5, EmptySeq
    <3> QED BY <3>1, <1>1 DEF Base, Selects, MailKnows
  <2>2. CASE k > 0
    <3>1. u # <<>> /\ Last(u) = s[Len(s)] /\ s # <<>> 
      <4>1. Len(u) = k /\ u[k] = s[Len(s)] /\ k # 0 BY <2>2, <1>5, <1>4
      <4>2. u # <<>> BY <4>1, EmptySeq
      <4>3. s # <<>> BY <2>2, <1>4, <1>3, EmptySeq
      <4> QED BY <4>1, <4>2, <4>3 DEF Last
    <3> QED BY <3>1 DEF Base, Selects, LastPending
  <2> QED BY <2>1, <2>2, <1>4
<1> PICK owed : owed = (window.owed \/ (window.visible /\ Changes(mailbox, active))) OBVIOUS
<1>7. owed \in BOOLEAN BY <1>3 DEF Changes
<1>8. window' = [window EXCEPT !.active = active, !.pending = u, !.snapshot = mailbox.tab, !.owed = owed]
  BY <1>1 DEF Receive
<1>9. /\ window' \in Window /\ window'.active = active /\ window'.pending = u /\ window'.visible = window.visible
      /\ window'.presented = window.presented /\ window'.owed = owed
  BY <1>8, <1>2, <1>3, <1>5, <1>6, <1>7 DEF Window
<1>10. LastPending'
  <2> SUFFICES ASSUME u # <<>> PROVE u[Len(u)] = window.active BY <1>9, <1>6 DEF LastPending
  <2>1. k > 0 /\ s # <<>> BY <1>5, <1>4, <1>3, EmptySeq
  <2> QED BY <2>1, <1>5 DEF Base, Selects, LastPending
<1> QED BY <1>2, <1>3, <1>4, <1>5, <1>6, <1>9, <1>10

(* The scene a tab keeps is the one published, with damage that covers     *)
(* every change since any scene that the one before it covered.            *)
LEMMA TakeScenes ==
    ASSUME Base, Take
    PROVE  /\ scenes' \in [Tab -> Scene \cup {None}]
           /\ \A t \in Tab : t # mailbox.tab \/ ~HasScene => scenes'[t] = scenes[t]
           /\ HasScene => LET s == scenes'[mailbox.tab]
                          IN  /\ s \in Scene /\ s.tab = mailbox.tab
                              /\ s.epoch = mailbox.scene.epoch /\ s.content = mailbox.scene.content
           /\ \A t \in Tab : \A a : scenes[t] # None /\ Changed(a, scenes[t], scenes[t].dirty)
                  => Changed(a, scenes'[t], scenes'[t].dirty)
<1>1. mailbox # None /\ scenes' = IF mailbox.scene = None THEN scenes ELSE [scenes EXCEPT ![mailbox.tab] = Kept(mailbox)]
  BY DEF Take
<1>2. mailbox \in Mail /\ scenes \in [Tab -> Scene \cup {None}] BY <1>1, TypeParts DEF Base
<1>3. CASE ~HasScene
  <2>1. scenes' = scenes BY <1>3, <1>1 DEF HasScene
  <2> QED BY <2>1, <1>2, <1>3
<1>4. CASE HasScene
  <2> PICK t : t = mailbox.tab OBVIOUS
  <2> PICK c : c = mailbox.scene OBVIOUS
  <2> PICK d : d = Kept(mailbox) OBVIOUS
  <2> PICK b : b = scenes[t] OBVIOUS
  <2>1. t \in Tab /\ c \in Scene /\ c.tab = t /\ scenes' = [scenes EXCEPT ![t] = d] /\ b \in Scene \cup {None}
    BY <1>4, <1>1, <1>2 DEF HasScene, Mail, Base, Ages, MailAges
  <2>2. d \in Scene /\ d.tab = t /\ d.epoch = c.epoch /\ d.content = c.content
        /\ \A a : b # None /\ Changed(a, b, b.dirty) => Changed(a, d, d.dirty)
    <3>1. CASE mailbox.full \/ b = None
      <4>1. d = Full(c) BY <3>1 DEF Kept
      <4>2. Full(c) \in Scene /\ Full(c).tab = c.tab /\ Full(c).epoch = c.epoch
            /\ Full(c).content = c.content /\ Full(c).dirty = Whole
        BY <2>1, FullFields
      <4> QED BY <4>1, <4>2, <2>1 DEF Changed
    <3>2. CASE ~mailbox.full /\ b # None
      <4>1. d = Accumulate(b, c) BY <3>2 DEF Kept
      <4>2. b \in Scene BY <3>2, <2>1
      <4>3. /\ Accumulate(b, c) \in Scene
            /\ Accumulate(b, c).tab = c.tab /\ Accumulate(b, c).epoch = c.epoch
            /\ Accumulate(b, c).content = c.content
        BY <4>2, <2>1, AccumulateFields
      <4>4. Changed(b, c, c.dirty) BY <1>4, <3>2 DEF Base, MailDamage
      <4>5. Before(b, c) /\ Small(c) /\ c.content \in Content /\ c.epoch \in Nat
        BY <1>4, <3>2, <2>1, EpochIsNat DEF Base, Ages, MailAges, Scene
      <4>6. b.epoch = c.epoch => \A r \in Region : b.content[r] = c.content[r]
        BY <4>5, SameEpoch
      <4>7. Follows(b, c) BY <4>4, <4>6 DEF Follows
      <4>8. ASSUME NEW a, Changed(a, b, b.dirty) PROVE Changed(a, d, d.dirty)
        BY <4>1, <4>2, <2>1, <4>7, <4>8, Accumulated
      <4> QED BY <4>1, <4>3, <4>8, <2>1
    <3> QED BY <3>1, <3>2
  <2>3. scenes'[t] = d /\ (\A u \in Tab : u # t => scenes'[u] = scenes[u]) /\ scenes' \in [Tab -> Scene \cup {None}]
    BY <2>1, <2>2, <1>2
  <2>4. ASSUME NEW u \in Tab, NEW a, scenes[u] # None, Changed(a, scenes[u], scenes[u].dirty)
        PROVE  Changed(a, scenes'[u], scenes'[u].dirty)
    <3>1. CASE u = t BY <3>1, <2>2, <2>3, <2>4
    <3>2. CASE u # t BY <3>2, <2>3, <2>4
    <3> QED BY <3>1, <3>2
  <2> QED BY <2>2, <2>3, <2>4, <1>4
<1> QED BY <1>3, <1>4

(* a snapshot taken, *)
LEMMA TakeKeeps == Base /\ Take => Base'
<1> SUFFICES ASSUME Base, Take PROVE Base' OBVIOUS
<1>1. mailbox # None /\ mailbox' = None /\ UNCHANGED <<owner, pages, commands, flight, surface, prev, count>>
  BY DEF Take
<1>2. /\ window' \in Window /\ window'.active = window.active
      /\ LastPending' /\ Len(window'.pending) = count.selects - mailbox.seen
      /\ mailbox \in Mail /\ mailbox.seen \in Nat /\ count.selects \in Nat /\ mailbox.seen <= count.selects
      /\ mailbox.tab \in Tab
  BY TakeWindow
<1>3. /\ scenes' \in [Tab -> Scene \cup {None}]
      /\ \A t \in Tab : t # mailbox.tab \/ ~HasScene => scenes'[t] = scenes[t]
      /\ HasScene => /\ scenes'[mailbox.tab] \in Scene /\ scenes'[mailbox.tab].tab = mailbox.tab
                     /\ scenes'[mailbox.tab].epoch = mailbox.scene.epoch
                     /\ scenes'[mailbox.tab].content = mailbox.scene.content
  BY TakeScenes
<1>4. TypeOK' BY <1>1, <1>2, <1>3, TypeParts DEF TypeOK, Base, Window
<1>5. Pages' BY <1>1 DEF Base, Pages
<1>6. \A t \in Tab : scenes[t] # None => scenes'[t] # None /\ Before(scenes[t], scenes'[t])
  <2> SUFFICES ASSUME NEW t \in Tab, scenes[t] # None
               PROVE  scenes'[t] # None /\ Before(scenes[t], scenes'[t])
    OBVIOUS
  <2>1. CASE t # mailbox.tab \/ ~HasScene
    <3>1. scenes'[t] = scenes[t] /\ scenes[t].epoch \in Nat BY <2>1, <1>3, TypeParts, EpochIsNat DEF Base, Scene
    <3> QED BY <3>1 DEF Before
  <2>2. CASE t = mailbox.tab /\ HasScene
    BY <2>2, <1>3, NoneIsNothing DEF Base, Ages, MailAges, Before
  <2> QED BY <2>1, <2>2
<1>7. ScenesAges'
  <2> SUFFICES ASSUME NEW t \in Tab, scenes'[t] # None
               PROVE  scenes'[t].tab = t /\ Small(scenes'[t]) /\ Before(scenes'[t], pages[t])
    BY <1>1 DEF ScenesAges
  <2>1. CASE t # mailbox.tab \/ ~HasScene
    BY <2>1, <1>3 DEF Base, Ages, ScenesAges
  <2>2. CASE t = mailbox.tab /\ HasScene
    BY <2>2, <1>3 DEF Base, Ages, MailAges, Before, Small
  <2> QED BY <2>1, <2>2
<1>8. \A s \in Scene : scenes[s.tab] # None /\ Before(s, scenes[s.tab])
         => scenes'[s.tab] # None /\ Before(s, scenes'[s.tab])
  <2> SUFFICES ASSUME NEW s \in Scene, scenes[s.tab] # None, Before(s, scenes[s.tab])
               PROVE  scenes'[s.tab] # None /\ Before(s, scenes'[s.tab])
    OBVIOUS
  <2> PICK a : a = scenes[s.tab] OBVIOUS
  <2> PICK b : b = scenes'[s.tab] OBVIOUS
  <2>1. s.tab \in Tab /\ s.epoch \in Nat BY EpochIsNat DEF Scene
  <2>2. a \in Scene /\ b \in Scene /\ b # None /\ Before(a, b) BY <2>1, <1>3, <1>6, TypeParts DEF Base
  <2>3. a.epoch \in Nat /\ b.epoch \in Nat /\ a.content \in Content /\ b.content \in Content
    BY <2>2, EpochIsNat DEF Scene
  <2> QED BY <2>1, <2>2, <2>3, BeforeTransitive
<1>9. FramesAges'
  <2>1. InFlight => flight.scene \in Scene BY TypeParts DEF Base, InFlight, Frame, Placeholder
  <2>2. Drawn => prev \in Scene BY TypeParts DEF Base, Drawn, Placeholder
  <2> QED BY <2>1, <2>2, <1>8, <1>1 DEF Base, Ages, FramesAges, InFlight, Drawn
<1>10. PagesAges' BY <1>1 DEF Base, Ages, PagesAges
<1>11. MailAges' /\ MailDamage' BY <1>1 DEF MailAges, MailDamage, HasScene
<1>12. Published'
  <2> SUFFICES ASSUME owner.published # None
               PROVE  LET t == owner.published IN scenes'[t] # None /\ scenes'[t].epoch = pages[t].epoch
    BY <1>1 DEF Published
  <2>1. HasScene /\ mailbox.tab = owner.published /\ mailbox.scene.epoch = pages[owner.published].epoch
    BY <1>1 DEF Base, Published, HasScene
  <2> QED BY <2>1, <1>3, NoneIsNothing
<1>13. InOrder' BY <1>1, <1>2 DEF Base, Selects, InOrder, IsSelect
<1>14. OwnerKnows'
  <2>1. mailbox.seen <= owner.seen /\ owner.seen \in Nat BY <1>1, TypeParts DEF Base, Selects, MailKnows, Owner
  <2>2. count.selects <= Len(window'.pending) + owner.seen BY <2>1, <1>2
  <2> QED BY <2>2, <1>1, <1>2 DEF Base, Selects, OwnerKnows, IsSelect
<1>15. MailKnows' BY <1>1 DEF MailKnows
<1> QED BY <1>2, <1>4, <1>5, <1>7, <1>9, <1>10, <1>11, <1>12, <1>13, <1>14, <1>15 DEF Base, Ages, Selects

(* A frame holds a scene or the placeholder, and so does what is shown. *)
LEMMA FrameTypes ==
    ASSUME Base
    PROVE  /\ flight # None => /\ flight \in Frame /\ flight.scene \in Scene \cup {Placeholder}
                               /\ flight.at \in {"job", "report"}
                               /\ flight.at = "report" => flight.outcome \in {"Frame", "Dropped"}
           /\ InFlight => flight.scene \in Scene /\ flight.scene.tab \in Tab
           /\ Drawn => prev \in Scene /\ prev.tab \in Tab
           /\ prev \in Scene \cup {Placeholder, None}
           /\ flight # None /\ ~InFlight => flight.scene = Placeholder
           /\ prev # None /\ ~Drawn => prev = Placeholder
<1>1. flight \in Frame \cup {None} /\ prev \in Scene \cup {Placeholder, None} BY TypeParts DEF Base
<1>2. flight # None => /\ flight.scene \in Scene \cup {Placeholder} /\ flight.at \in {"job", "report"}
                       /\ flight.at = "report" => flight.outcome \in {"Frame", "Dropped"}
  BY <1>1 DEF Frame
<1> QED BY <1>1, <1>2, NoneIsNothing DEF InFlight, Drawn

(* A composed scene is the one kept, to be drawn whole if another was shown. *)
LEMMA ComposedScene ==
    ASSUME Base, NEW t \in Tab
    PROVE  /\ Composed(t) \in Scene \cup {Placeholder}
           /\ scenes[t] = None => Composed(t) = Placeholder
           /\ scenes[t] # None =>
                /\ scenes[t] \in Scene /\ Composed(t) \in Scene /\ Composed(t).tab = t
                /\ Composed(t).epoch = scenes[t].epoch /\ Composed(t).content = scenes[t].content
                /\ Composed(t).dirty = IF window.presented # t THEN Whole ELSE scenes[t].dirty
<1>1. scenes[t] \in Scene \cup {None} BY TypeParts DEF Base
<1>2. scenes[t] # None => scenes[t].tab = t BY DEF Base, Ages, ScenesAges
<1> PICK s : s = scenes[t] OBVIOUS
<1>3. s # None => Full(s) \in Scene /\ Full(s).tab = s.tab /\ Full(s).epoch = s.epoch
           /\ Full(s).content = s.content /\ Full(s).dirty = Whole
  BY <1>1, FullFields
<1> QED BY <1>1, <1>2, <1>3 DEF Composed

(* a frame composed, *)
LEMMA ComposeKeeps == Base /\ Compose => Base'
<1> SUFFICES ASSUME Base, Compose PROVE Base' OBVIOUS
<1> PICK t : t = window.active OBVIOUS
<1> PICK c : c = Composed(t) OBVIOUS
<1>1. /\ flight = None /\ flight' = [at |-> "job", scene |-> c] /\ window' = [window EXCEPT !.owed = FALSE]
      /\ UNCHANGED <<owner, pages, mailbox, commands, scenes, surface, prev, count>>
  BY DEF Compose
<1>2. window \in Window /\ t \in Tab BY TypeParts DEF Base, Window
<1>3. window' \in Window /\ window'.active = t /\ window'.pending = window.pending
  BY <1>1, <1>2 DEF Window
<1>4. /\ c \in Scene \cup {Placeholder}
      /\ scenes[t] = None => c = Placeholder
      /\ scenes[t] # None =>
           /\ scenes[t] \in Scene /\ c \in Scene /\ c.tab = t
           /\ c.epoch = scenes[t].epoch /\ c.content = scenes[t].content
  BY <1>2, ComposedScene
<1>5. flight' \in Frame /\ flight'.scene = c BY <1>1, <1>4 DEF Frame
<1>6. TypeOK' BY <1>1, <1>3, <1>5, TypeParts DEF TypeOK, Base, Window
<1>7. c.tab # None => c \in Scene /\ c.tab = t /\ scenes[t] # None /\ Small(c) /\ Before(c, scenes[t])
                      /\ \A a : Before(a, scenes[t]) => Before(a, c)
  <2> SUFFICES ASSUME c.tab # None
               PROVE c \in Scene /\ c.tab = t /\ scenes[t] # None /\ Small(c) /\ Before(c, scenes[t])
                      /\ \A a : Before(a, scenes[t]) => Before(a, c)
    OBVIOUS
  <2>1. scenes[t] # None BY <1>4, NoneIsNothing
  <2>2. scenes[t].epoch \in Nat BY <2>1, <1>4, EpochIsNat DEF Scene
  <2>3. Small(scenes[t]) BY <2>1, <1>2 DEF Base, Ages, ScenesAges
  <2> QED BY <2>1, <2>2, <2>3, <1>4 DEF Small, Before
<1>8. FramesAges'
  BY <1>7, <1>5, <1>1 DEF Base, Ages, FramesAges, InFlight, Drawn
<1>9. PagesAges' /\ ScenesAges' /\ MailAges' /\ Published' /\ MailDamage' /\ Pages'
  BY <1>1 DEF Base, Ages, PagesAges, ScenesAges, MailAges, Published, MailDamage, HasScene, Pages
<1>10. Selects'
  BY <1>1, <1>3 DEF Base, Selects, InOrder, OwnerKnows, MailKnows, LastPending, IsSelect
<1> QED BY <1>6, <1>8, <1>9, <1>10 DEF Base, Ages

(* A report only lets damage go, and tells the window what is shown. *)
LEMMA ReportScenes ==
    ASSUME Base, Report
    PROVE  /\ scenes' \in [Tab -> Scene \cup {None}]
           /\ \A t \in Tab : scenes[t] # None =>
                 /\ scenes'[t] # None /\ scenes'[t].tab = t
                 /\ scenes'[t].epoch = scenes[t].epoch /\ scenes'[t].content = scenes[t].content
           /\ \A t \in Tab : scenes[t] = None => scenes'[t] = None
           /\ \A t \in Tab :
                 \/ scenes'[t] = scenes[t]
                 \/ /\ InFlight /\ flight.scene.tab = t /\ flight.outcome = "Frame"
                    /\ scenes[t] # None /\ scenes[t].epoch = flight.scene.epoch
<1>1. /\ flight # None
      /\ scenes' = IF flight.outcome = "Frame" /\ window.visible /\ flight.scene.tab # None
                   THEN Confirmed(flight.scene) ELSE scenes
  BY DEF Report
<1>2. scenes \in [Tab -> Scene \cup {None}] BY TypeParts DEF Base
<1>3. \A t \in Tab : scenes[t] # None => scenes[t].tab = t /\ scenes[t] \in Scene
  BY <1>2 DEF Base, Ages, ScenesAges
<1>4. CASE scenes' = scenes
  BY <1>4, <1>2, <1>3
<1>5. CASE scenes' # scenes
  <2> PICK t : t = flight.scene.tab OBVIOUS
  <2>1. InFlight /\ flight.outcome = "Frame" /\ t \in Tab /\ scenes[t] # None
        /\ scenes[t].epoch = flight.scene.epoch /\ scenes' = [scenes EXCEPT ![t].dirty = {}]
    BY <1>1, <1>5, FrameTypes DEF Confirmed, InFlight, Base, Ages, FramesAges
  <2> PICK s : s = [scenes[t] EXCEPT !.dirty = {}] OBVIOUS
  <2>2. scenes[t] \in Scene BY <2>1, <1>3
  <2>3. s \in Scene /\ s.tab = scenes[t].tab /\ s.epoch = scenes[t].epoch /\ s.content = scenes[t].content
    BY <2>2 DEF Scene, Damage
  <2>4. scenes' = [scenes EXCEPT ![t] = s] BY <2>1
  <2>5. scenes' \in [Tab -> Scene \cup {None}] /\ scenes'[t] = s /\ \A u \in Tab : u # t => scenes'[u] = scenes[u]
    BY <2>4, <2>3, <1>2, <2>1
  <2> QED BY <2>5, <2>3, <2>1, <1>3, NoneIsNothing
<1> QED BY <1>4, <1>5

(* What the window learns from a report. *)
LEMMA ReportWindow ==
    ASSUME Base, Report
    PROVE  /\ window' \in Window /\ window'.active = window.active /\ window'.pending = window.pending
           /\ window'.visible = window.visible
           /\ window'.presented = (IF flight.outcome = "Frame" /\ window.visible THEN flight.scene.tab
                                   ELSE window.presented)
           /\ window'.owed = (window.owed \/ (flight.outcome # "Frame" /\ window.visible))
<1> PICK shown : shown = (flight.outcome = "Frame" /\ window.visible) OBVIOUS
<1> PICK at : at = IF shown THEN flight.scene.tab ELSE window.presented OBVIOUS
<1> PICK owed : owed = (window.owed \/ (flight.outcome # "Frame" /\ window.visible)) OBVIOUS
<1>1. flight # None /\ window' = [window EXCEPT !.presented = at, !.owed = owed]
  BY DEF Report
<1>2. window \in Window BY TypeParts DEF Base
<1>3. flight.scene.tab \in Tab \cup {None} BY <1>1, FrameTypes, NoneIsNothing
<1>4. at \in Tab \cup {None} /\ owed \in BOOLEAN BY <1>2, <1>3 DEF Window
<1>5. window' \in Window /\ window'.active = window.active /\ window'.pending = window.pending
           /\ window'.visible = window.visible /\ window'.presented = at /\ window'.owed = owed
  BY <1>1, <1>2, <1>4 DEF Window
<1> QED BY <1>5

(* a report, *)
LEMMA ReportKeeps == Base /\ Report => Base'
<1> SUFFICES ASSUME Base, Report PROVE Base' OBVIOUS
<1>1. flight' = None /\ UNCHANGED <<owner, pages, mailbox, commands, surface, prev, count>> BY DEF Report
<1>2. window' \in Window /\ window'.active = window.active /\ window'.pending = window.pending
  BY ReportWindow
<1>3. /\ scenes' \in [Tab -> Scene \cup {None}]
      /\ \A t \in Tab : scenes[t] # None =>
                 /\ scenes'[t] # None /\ scenes'[t].tab = t
                 /\ scenes'[t].epoch = scenes[t].epoch /\ scenes'[t].content = scenes[t].content
      /\ \A t \in Tab : scenes[t] = None => scenes'[t] = None
      /\ \A t \in Tab : \/ scenes'[t] = scenes[t]
                        \/ InFlight /\ flight.scene.tab = t /\ flight.outcome = "Frame"
  BY ReportScenes
<1>4. TypeOK' BY <1>1, <1>2, <1>3, TypeParts DEF TypeOK, Base, Window
<1>5. ScenesAges' BY <1>1, <1>3 DEF Base, Ages, ScenesAges, Before, Small
<1>6. PagesAges' /\ Pages' BY <1>1 DEF Base, Ages, PagesAges, Pages
<1>7. MailAges'
  <2> SUFFICES ASSUME HasScene, scenes'[mailbox.tab] # None
               PROVE  Before(scenes'[mailbox.tab], mailbox.scene)
    BY <1>1 DEF Base, Ages, MailAges, HasScene
  <2>1. mailbox.tab \in Tab BY TypeParts DEF Base, HasScene, Mail
  <2> QED BY <2>1, <1>3 DEF Base, Ages, MailAges, Before
<1>8. FramesAges'
  <2> SUFFICES ASSUME Drawn PROVE scenes'[prev.tab] # None /\ Before(prev, scenes'[prev.tab])
    BY <1>1 DEF Base, Ages, FramesAges, InFlight, Drawn
  <2>1. prev.tab \in Tab BY FrameTypes
  <2> QED BY <2>1, <1>3 DEF Base, Ages, FramesAges, Before
<1>9. Published'
  <2> SUFFICES ASSUME owner.published # None PROVE Published' BY <1>1 DEF Published
  <2>1. owner.published \in Tab BY TypeParts DEF Base, Owner
  <2> QED BY <2>1, <1>1, <1>3 DEF Base, Published
<1>10. MailDamage'
  <2> SUFFICES ASSUME HasScene, ~mailbox.full, scenes'[mailbox.tab] # None
               PROVE  Changed(scenes'[mailbox.tab], mailbox.scene, mailbox.scene.dirty)
    BY <1>1 DEF MailDamage, HasScene
  <2>1. mailbox.tab \in Tab BY TypeParts DEF Base, HasScene, Mail
  <2> QED BY <2>1, <1>3 DEF Base, MailDamage, Changed
<1>11. Selects'
  BY <1>1, <1>2 DEF Base, Selects, InOrder, OwnerKnows, MailKnows, LastPending, IsSelect
<1> QED BY <1>4, <1>5, <1>6, <1>7, <1>8, <1>9, <1>10, <1>11 DEF Base, Ages

(* and a turn from visible to hidden or back. *)
LEMMA TurnKeeps == Base /\ Turn => Base'
<1> SUFFICES ASSUME Base, Turn PROVE Base' OBVIOUS
<1> PICK v : v = (~window.visible) OBVIOUS
<1> PICK m : m = [kind |-> "visible", visible |-> v] OBVIOUS
<1>1. /\ window.visible => count.hides < MaxHides
      /\ count' = [count EXCEPT !.hides = IF window.visible THEN @ + 1 ELSE @]
      /\ window' = [window EXCEPT !.visible = v, !.owed = v]
      /\ commands' = Append(commands, m)
      /\ UNCHANGED <<owner, pages, mailbox, scenes, flight, surface, prev>>
  BY DEF Turn
<1>2. window \in Window /\ count \in Count /\ commands \in Seq(Command) BY TypeParts DEF Base
<1>3. v \in BOOLEAN OBVIOUS
<1>4. m \in Command /\ m.kind = "visible" BY <1>3 DEF Command
<1>5. /\ commands' \in Seq(Command) /\ Len(commands') = Len(commands) + 1 /\ Len(commands) \in Nat
      /\ commands'[Len(commands) + 1] = m
      /\ \A i \in 1 .. Len(commands) : commands'[i] = commands[i]
  BY <1>1, <1>2, <1>4, AppendProperties
<1>6. \A i \in 1 .. Len(commands') : commands'[i].kind = "select" => i \in 1 .. Len(commands) /\ commands'[i] = commands[i]
  BY <1>4, <1>5
<1>7. window' \in Window /\ window'.active = window.active /\ window'.pending = window.pending
  BY <1>1, <1>2, <1>3 DEF Window
<1>8. count' \in Count /\ count'.edits = count.edits /\ count'.selects = count.selects
  BY <1>1, <1>2, CountStep
<1>9. TypeOK' BY <1>1, <1>5, <1>7, <1>8, TypeParts DEF TypeOK, Base, Window, Count
<1>10. Pages' BY <1>1, <1>8 DEF Base, Pages
<1>11. Ages' BY <1>1 DEF Base, Ages, PagesAges, ScenesAges, MailAges, FramesAges, HasScene, InFlight, Drawn
<1>12. Published' /\ MailDamage' BY <1>1 DEF Base, Published, MailDamage, HasScene
<1>13. InOrder' BY <1>1, <1>6, <1>7, <1>8 DEF Base, Selects, InOrder, IsSelect
<1>14. OwnerKnows'
  <2>1. ASSUME NEW i \in 1 .. Len(commands), IsSelect(i) /\ commands[i].serial = count.selects
        PROVE  i \in 1 .. Len(commands') /\ IsSelect(i)' /\ commands'[i].serial = count.selects
    BY <2>1, <1>5 DEF IsSelect
  <2> QED BY <2>1, <1>1, <1>7, <1>8 DEF Base, Selects, OwnerKnows
<1>15. MailKnows' /\ LastPending' BY <1>1, <1>7, <1>8 DEF Base, Selects, MailKnows, LastPending
<1> QED BY <1>9, <1>10, <1>11, <1>12, <1>13, <1>14, <1>15 DEF Base, Selects

(* What drawing leaves alone. *)
LEMMA DrawStep ==
    ASSUME Base, NEW outcome \in {"Frame", "Dropped"}, Draw(outcome)
    PROVE  /\ flight # None /\ flight.at = "job"
           /\ flight' \in Frame /\ flight' # None /\ flight'.at = "report" /\ flight'.scene = flight.scene
           /\ flight'.outcome = outcome
           /\ prev' = (IF outcome = "Frame" THEN flight.scene ELSE None)
           /\ count' \in Count /\ count'.edits = count.edits /\ count'.selects = count.selects
           /\ UNCHANGED <<owner, pages, mailbox, commands, window, scenes>>
<1> PICK s : s = flight.scene OBVIOUS
<1>1. /\ flight # None /\ flight.at = "job"
      /\ flight' = [at |-> "report", scene |-> s, outcome |-> outcome]
      /\ prev' = (IF outcome = "Frame" THEN s ELSE None)
      /\ UNCHANGED <<owner, pages, mailbox, commands, window, scenes>>
  BY DEF Draw, Committed
<1>2. s \in Scene \cup {Placeholder} BY <1>1, FrameTypes
<1>3. flight' \in Frame /\ flight'.at = "report" /\ flight'.scene = s /\ flight'.outcome = outcome
  BY <1>1, <1>2 DEF Frame
<1>4. flight' # None BY <1>3, NoneIsNothing
<1> PICK c : c = (outcome = "Dropped") OBVIOUS
<1>5. count' = [count EXCEPT !.drops = IF c THEN @ + 1 ELSE @] /\ (c => count.drops < MaxDrops)
      /\ count \in Count
  BY TypeParts DEF Draw, Base
<1>6. count' \in Count /\ count'.edits = count.edits /\ count'.selects = count.selects BY <1>5, CountStep
<1> QED BY <1>1, <1>3, <1>4, <1>6

(* And so does the render thread. *)
LEMMA DrawKeeps ==
    ASSUME Base, NEW outcome \in {"Frame", "Dropped"}, Draw(outcome)
    PROVE  Base'
<1>1. /\ flight # None /\ flight' \in Frame /\ flight' # None /\ flight'.scene = flight.scene
      /\ prev' = (IF outcome = "Frame" THEN flight.scene ELSE None)
      /\ count' \in Count /\ count'.edits = count.edits /\ count'.selects = count.selects
      /\ UNCHANGED <<owner, pages, mailbox, commands, window, scenes>>
  BY DrawStep
<1>2. flight.scene \in Scene \cup {Placeholder} BY <1>1, FrameTypes
<1>3. prev' \in Scene \cup {Placeholder, None} BY <1>1, <1>2
<1>4. TypeOK' BY <1>1, <1>3, TypeParts DEF TypeOK, Base, Count
<1>5. Drawn' => InFlight /\ prev' = flight.scene BY <1>1 DEF Drawn, InFlight
<1>6. InFlight' => InFlight BY <1>1 DEF InFlight
<1>7. InFlight => flight.scene.epoch \in Nat BY FrameTypes, EpochIsNat DEF Scene
<1>8. InFlight => Before(flight.scene, flight.scene) BY <1>7 DEF Before
<1>9. FramesAges' BY <1>1, <1>5, <1>6, <1>8 DEF Base, Ages, FramesAges
<1>10. PagesAges' /\ ScenesAges' /\ MailAges' /\ Published' /\ MailDamage' /\ Pages'
  BY <1>1 DEF Base, Ages, PagesAges, ScenesAges, MailAges, Published, MailDamage, HasScene, Pages
<1>11. Selects'
  BY <1>1 DEF Base, Selects, InOrder, OwnerKnows, MailKnows, LastPending, IsSelect
<1> QED BY <1>4, <1>9, <1>10, <1>11 DEF Base, Ages

(* Base is inductive. *)
LEMMA BaseStep == Base /\ [Next]_vars => Base'
<1> SUFFICES ASSUME Base, [Next]_vars PROVE Base' OBVIOUS
<1>1. CASE \E t \in Tab, damage \in {Whole} \cup {{r} : r \in Region} : Edit(t, damage) BY <1>1, EditKeeps
<1>2. CASE BuildHidden BY <1>2, BuildHiddenKeeps
<1>3. CASE Hear BY <1>3, HearKeeps
<1>4. CASE \E t \in Tab : Select(t) BY <1>4, SelectKeeps
<1>5. CASE Take BY <1>5, TakeKeeps
<1>6. CASE Compose BY <1>6, ComposeKeeps
<1>7. CASE Report BY <1>7, ReportKeeps
<1>8. CASE Turn BY <1>8, TurnKeeps
<1>9. CASE \E outcome \in {"Frame", "Dropped"} : Draw(outcome) BY <1>9, DrawKeeps
<1>10. CASE Done \/ UNCHANGED vars
  <2>1. UNCHANGED <<owner, pages, mailbox, commands, window, scenes, flight, surface, prev, count>>
    BY <1>10 DEF Done, vars
  <2>2. TypeOK' /\ Pages' BY <2>1 DEF Base, TypeOK, Pages
  <2>3. Ages' BY <2>1 DEF Base, Ages, PagesAges, ScenesAges, MailAges, FramesAges, HasScene, InFlight, Drawn
  <2>4. Published' /\ MailDamage' BY <2>1 DEF Base, Published, MailDamage, HasScene
  <2>5. Selects' BY <2>1 DEF Base, Selects, InOrder, OwnerKnows, MailKnows, LastPending, IsSelect
  <2> QED BY <2>2, <2>3, <2>4, <2>5 DEF Base
<1> QED BY <1>1, <1>2, <1>3, <1>4, <1>5, <1>6, <1>7, <1>8, <1>9, <1>10 DEF Next

Waits == flight = None \/ flight.at = "job"
(* Until it is reported, a frame that was shown is the one the surface is trusted to show. *)
Reported == flight # None /\ flight.at = "report"
                => prev = IF flight.outcome = "Frame" THEN flight.scene ELSE None
(* The window knows which tab that is, once the report is in. *)
Presented ==
    /\ flight # None => window.visible
    /\ Waits /\ prev # None => prev.tab = window.presented
(* Damage covers the way from what is shown, or about to be, to what comes after it. *)
Covered ==
    /\ Waits /\ Drawn => Changed(prev, scenes[prev.tab], scenes[prev.tab].dirty)
    /\ InFlight => Changed(flight.scene, scenes[flight.scene.tab], scenes[flight.scene.tab].dirty)
    /\ InFlight /\ Drawn /\ flight.at = "job" =>
          IF prev.tab = flight.scene.tab THEN Changed(prev, flight.scene, flight.scene.dirty)
          ELSE flight.scene.dirty = Whole
(* s is the scene the window has of its active tab. *)
Showing(s) ==
    IF scenes[window.active] = None THEN s.tab = None
    ELSE s.tab = window.active /\ s.epoch = scenes[window.active].epoch
(* A visible window that owes no frame shows that scene, or is about to. *)
Owed == window.visible /\ ~window.owed =>
    IF flight = None THEN prev # None /\ Showing(prev) ELSE Showing(flight.scene)
Shown == Reported /\ Presented /\ Covered /\ Owed /\ SurfaceShowsItsScene

(* Shown holds at the start, *)
LEMMA ShownInit == Init => Shown
  BY DEF Init, Shown, Reported, Presented, Covered, Owed, SurfaceShowsItsScene, Waits, Drawn, InFlight

(* is not about the owner, *)
LEMMA ShownUnchanged ==
    Shown /\ UNCHANGED <<window, scenes, flight, surface, prev>> => Shown'
  BY DEF Shown, Reported, Presented, Covered, Owed, SurfaceShowsItsScene, Waits, Drawn, InFlight, Showing

(* and is kept by a select, *)
LEMMA SelectShows ==
    ASSUME Base, Shown, NEW t \in Tab, Select(t)
    PROVE  Shown'
<1> PICK pending : pending = Append(window.pending, t) OBVIOUS
<1>1. /\ window' = [window EXCEPT !.active = t, !.pending = pending, !.owed = TRUE]
      /\ UNCHANGED <<scenes, flight, surface, prev>>
  BY DEF Select
<1>2. window \in Window BY TypeParts DEF Base
<1>3. window'.visible = window.visible /\ window'.presented = window.presented /\ window'.owed
  BY <1>1, <1>2 DEF Window
<1> QED BY <1>1, <1>3 DEF Shown, Reported, Presented, Covered, Owed, SurfaceShowsItsScene, Waits, Drawn, InFlight

(* by a snapshot taken, *)
LEMMA TakeShows == Base /\ Shown /\ Take => Shown'
<1> SUFFICES ASSUME Base, Shown, Take PROVE Shown' OBVIOUS
<1>1. mailbox # None /\ UNCHANGED <<flight, surface, prev>> BY DEF Take
<1>2. /\ window'.active = window.active
      /\ window'.visible = window.visible /\ window'.presented = window.presented
      /\ window'.owed = (window.owed \/ (window.visible /\ Changes(mailbox, window.active)))
      /\ mailbox.tab \in Tab
  BY TakeWindow
<1>3. /\ \A t \in Tab : t # mailbox.tab \/ ~HasScene => scenes'[t] = scenes[t]
      /\ HasScene => /\ scenes'[mailbox.tab] \in Scene
                     /\ scenes'[mailbox.tab].epoch = mailbox.scene.epoch
      /\ \A t \in Tab : \A a : scenes[t] # None /\ Changed(a, scenes[t], scenes[t].dirty)
                  => Changed(a, scenes'[t], scenes'[t].dirty)
  BY TakeScenes
<1>4. Reported' /\ Presented' /\ SurfaceShowsItsScene'
  BY <1>1, <1>2 DEF Shown, Reported, Presented, SurfaceShowsItsScene, Waits
<1>5. Covered'
  <2>1. InFlight => flight.scene.tab \in Tab /\ scenes[flight.scene.tab] # None
    BY FrameTypes DEF Base, Ages, FramesAges
  <2>2. Drawn => prev.tab \in Tab /\ scenes[prev.tab] # None
    BY FrameTypes DEF Base, Ages, FramesAges
  <2>3. Waits /\ Drawn => Changed(prev, scenes'[prev.tab], scenes'[prev.tab].dirty)
    BY <2>2, <1>3 DEF Shown, Covered
  <2>4. InFlight => Changed(flight.scene, scenes'[flight.scene.tab], scenes'[flight.scene.tab].dirty)
    BY <2>1, <1>3 DEF Shown, Covered
  <2> QED BY <2>3, <2>4, <1>1 DEF Shown, Covered, Waits, Drawn, InFlight
<1>6. Owed'
  <2> SUFFICES ASSUME window.visible, ~window.owed, ~Changes(mailbox, window.active)
               PROVE  Owed'
    BY <1>2 DEF Owed
  <2>1. window.active \in Tab BY TypeParts DEF Base, Window
  <2>2. HasScene /\ window.active = mailbox.tab =>
          scenes[mailbox.tab] # None /\ scenes[mailbox.tab].epoch = mailbox.scene.epoch
    BY DEF Changes, HasScene
  <2>3. /\ scenes'[window.active] = None <=> scenes[window.active] = None
        /\ scenes[window.active] # None => scenes'[window.active].epoch = scenes[window.active].epoch
    BY <2>1, <2>2, <1>3, NoneIsNothing
  <2>4. \A s : Showing(s) => Showing(s)' BY <2>3, <1>2 DEF Showing
  <2> QED BY <2>4, <1>1 DEF Shown, Owed, Showing
<1> QED BY <1>4, <1>5, <1>6 DEF Shown

(* by a frame composed, *)
LEMMA ComposeShows == Base /\ Shown /\ Compose => Shown'
<1> SUFFICES ASSUME Base, Shown, Compose PROVE Shown' OBVIOUS
<1> PICK t : t = window.active OBVIOUS
<1> PICK c : c = Composed(t) OBVIOUS
<1>1. /\ window.visible /\ flight = None /\ flight' = [at |-> "job", scene |-> c]
      /\ window' = [window EXCEPT !.owed = FALSE]
      /\ UNCHANGED <<scenes, surface, prev>>
  BY DEF Compose
<1>2. window \in Window /\ t \in Tab BY TypeParts DEF Base, Window
<1>3. window'.active = t /\ window'.visible /\ window'.presented = window.presented BY <1>1, <1>2 DEF Window
<1>4. /\ c \in Scene \cup {Placeholder}
      /\ scenes[t] = None => c = Placeholder
      /\ scenes[t] # None =>
           /\ scenes[t] \in Scene /\ c \in Scene /\ c.tab = t
           /\ c.epoch = scenes[t].epoch /\ c.content = scenes[t].content
           /\ c.dirty = IF window.presented # t THEN Whole ELSE scenes[t].dirty
  BY <1>2, ComposedScene
<1>5. flight' \in Frame /\ flight'.scene = c /\ flight'.at = "job" BY <1>1, <1>4 DEF Frame
<1>6. flight' # None BY <1>5, NoneIsNothing
<1>7. Reported' /\ SurfaceShowsItsScene' BY <1>1, <1>5 DEF Shown, Reported, SurfaceShowsItsScene
<1>8. Presented' BY <1>1, <1>3, <1>5 DEF Shown, Presented, Waits
<1>9. Covered'
  <2>1. Drawn => Changed(prev, scenes[prev.tab], scenes[prev.tab].dirty) /\ prev.tab = window.presented
    BY <1>1 DEF Shown, Covered, Presented, Waits, Drawn
  <2>2. c.tab # None => scenes[t] # None /\ c.tab = t BY <1>4, NoneIsNothing
  <2>3. c.tab # None => Changed(c, scenes[t], scenes[t].dirty) BY <2>2, <1>4 DEF Changed
  <2>4. ASSUME c.tab # None, Drawn
        PROVE  IF prev.tab = c.tab THEN Changed(prev, c, c.dirty) ELSE c.dirty = Whole
    BY <2>1, <2>2, <2>4, <1>4 DEF Changed
  <2>5. InFlight' <=> c.tab # None BY <1>5, <1>6 DEF InFlight
  <2>6. Drawn' <=> Drawn BY <1>1 DEF Drawn
  <2> QED BY <2>1, <2>2, <2>3, <2>4, <2>5, <2>6, <1>1, <1>5 DEF Covered
<1>10. Owed'
  <2>1. Showing(c)' BY <1>1, <1>3, <1>4, NoneIsNothing DEF Showing
  <2> QED BY <2>1, <1>5, <1>6 DEF Owed, Showing
<1> QED BY <1>7, <1>8, <1>9, <1>10 DEF Shown

(* by a report, *)
LEMMA ReportShows == Base /\ Shown /\ Report => Shown'
<1> SUFFICES ASSUME Base, Shown, Report PROVE Shown' OBVIOUS
<1>1. flight # None /\ flight.at = "report" /\ flight' = None /\ UNCHANGED <<surface, prev>> BY DEF Report
<1>2. window.visible /\ prev = IF flight.outcome = "Frame" THEN flight.scene ELSE None
  BY <1>1 DEF Shown, Reported, Presented
<1>3. /\ window'.active = window.active /\ window'.visible = window.visible
      /\ window'.presented = (IF flight.outcome = "Frame" /\ window.visible THEN flight.scene.tab
                              ELSE window.presented)
      /\ window'.owed = (window.owed \/ (flight.outcome # "Frame" /\ window.visible))
  BY ReportWindow
<1>4. /\ \A t \in Tab : scenes[t] # None =>
            /\ scenes'[t] # None /\ scenes'[t].tab = t
            /\ scenes'[t].epoch = scenes[t].epoch /\ scenes'[t].content = scenes[t].content
      /\ \A t \in Tab : scenes[t] = None => scenes'[t] = None
      /\ \A t \in Tab :
            \/ scenes'[t] = scenes[t]
            \/ /\ InFlight /\ flight.scene.tab = t /\ flight.outcome = "Frame"
               /\ scenes[t] # None /\ scenes[t].epoch = flight.scene.epoch
  BY ReportScenes
<1>5. Reported' /\ SurfaceShowsItsScene' BY <1>1 DEF Shown, Reported, SurfaceShowsItsScene
<1>6. Presented' BY <1>1, <1>2, <1>3 DEF Presented
<1>7. Covered'
  <2> SUFFICES ASSUME Drawn PROVE Changed(prev, scenes'[prev.tab], scenes'[prev.tab].dirty)
    BY <1>1 DEF Covered, Drawn, InFlight
  <2> PICK t : t = prev.tab OBVIOUS
  <2>1. flight.outcome = "Frame" /\ prev = flight.scene /\ InFlight /\ t \in Tab /\ scenes[t] # None
    BY <1>1, <1>2, FrameTypes DEF Drawn, InFlight, Base, Ages, FramesAges
  <2>2. Changed(prev, scenes[t], scenes[t].dirty) BY <2>1 DEF Shown, Covered
  <2>3. CASE scenes'[t] = scenes[t] BY <2>2, <2>3
  <2>4. CASE scenes[t].epoch = flight.scene.epoch
    <3> PICK a : a = prev OBVIOUS
    <3> PICK b : b = scenes[t] OBVIOUS
    <3>1. b \in Scene BY <2>1, TypeParts DEF Base
    <3>2. Before(a, b) /\ Small(b) /\ a.epoch = b.epoch
      BY <2>1, <2>4 DEF Drawn, Base, Ages, FramesAges, ScenesAges
    <3>3. b.content \in Content /\ b.epoch \in Nat BY <3>1, EpochIsNat DEF Scene
    <3>4. \A r \in Region : a.content[r] = b.content[r] BY <3>2, <3>3, SameEpoch
    <3> QED BY <3>4, <2>1, <1>4 DEF Changed
  <2> QED BY <2>1, <2>3, <2>4, <1>4
<1>8. Owed'
  <2> SUFFICES ASSUME window.visible, ~window.owed, flight.outcome = "Frame"
               PROVE  prev # None /\ Showing(prev)'
    BY <1>1, <1>3 DEF Owed, Showing
  <2>1. window.active \in Tab BY TypeParts DEF Base, Window
  <2>2. prev = flight.scene /\ Showing(prev) BY <1>1, <1>2 DEF Shown, Owed
  <2>3. prev # None BY <2>2, <1>1, FrameTypes, NoneIsNothing
  <2> QED BY <2>1, <2>2, <2>3, <1>1, <1>3, <1>4 DEF Showing
<1> QED BY <1>5, <1>6, <1>7, <1>8 DEF Shown

(* by a turn, if no frame is in flight when the window hides, *)
LEMMA TurnShows ==
    ASSUME HideInFlight = FALSE, Base, Shown, Turn
    PROVE  Shown'
<1> PICK v : v = (~window.visible) OBVIOUS
<1>1. /\ window.visible => flight = None
      /\ window' = [window EXCEPT !.visible = v, !.owed = v]
      /\ UNCHANGED <<scenes, flight, surface, prev>>
  BY DEF Turn
<1>2. window \in Window BY TypeParts DEF Base
<1>3. window'.visible = v /\ window'.owed = v /\ window'.presented = window.presented
  BY <1>1, <1>2 DEF Window
<1>4. flight = None BY <1>1 DEF Shown, Presented
<1> QED BY <1>1, <1>3, <1>4
    DEF Shown, Reported, Presented, Covered, Owed, SurfaceShowsItsScene, Waits, Drawn, InFlight

(* and by drawing: what is not redrawn is as the new scene has it. *)
LEMMA DrawShows ==
    ASSUME Base, Shown, NEW outcome \in {"Frame", "Dropped"}, Draw(outcome)
    PROVE  Shown'
<1>1. /\ flight # None /\ flight.at = "job"
      /\ flight' \in Frame /\ flight' # None /\ flight'.at = "report" /\ flight'.scene = flight.scene
      /\ flight'.outcome = outcome
      /\ prev' = (IF outcome = "Frame" THEN flight.scene ELSE None)
      /\ UNCHANGED <<window, scenes>>
  BY DrawStep
<1>2. ~Waits' BY <1>1 DEF Waits
<1>3. Reported' BY <1>1 DEF Reported
<1>4. Presented' BY <1>1, <1>2 DEF Shown, Presented
<1>5. Covered' BY <1>1, <1>2 DEF Shown, Covered, InFlight
<1>6. Owed' BY <1>1 DEF Shown, Owed, Showing
<1>7. SurfaceShowsItsScene'
  <2> PICK s : s = flight.scene OBVIOUS
  <2>1. surface' = [r \in Region |-> IF r \in Redrawn(s) THEN Pixels(s, r) ELSE surface[r]] BY DEF Draw
  <2> SUFFICES ASSUME prev' # None, NEW r \in Region PROVE surface'[r] = Pixels(s, r)
    BY <1>1 DEF SurfaceShowsItsScene, Pixels
  <2>2. CASE r \in Redrawn(s) BY <2>1, <2>2
  <2>3. CASE r \notin Redrawn(s)
    <3>1. surface'[r] = surface[r] BY <2>1, <2>3
    <3>2. prev # None /\ ((prev.tab = None) <=> (s.tab = None)) BY <2>3 DEF Redrawn
    <3>3. surface[r] = Pixels(prev, r) BY <3>2 DEF Shown, SurfaceShowsItsScene
    <3>4. CASE s.tab = None BY <3>1, <3>2, <3>3, <3>4 DEF Pixels
    <3>5. CASE s.tab # None
      <4>1. InFlight /\ Drawn BY <3>2, <3>5, <1>1 DEF InFlight, Drawn
      <4>2. s \in Scene /\ prev \in Scene BY <4>1, FrameTypes
      <4>3. IF prev.tab = s.tab THEN Changed(prev, s, s.dirty) ELSE s.dirty = Whole
        BY <4>1, <1>1 DEF Shown, Covered
      <4>4. CASE prev.tab = s.tab /\ prev.epoch = s.epoch
        <5>1. Before(prev, s) /\ Small(s) BY <4>1, <4>4 DEF Base, Ages, FramesAges
        <5>2. s.content \in Content /\ s.epoch \in Nat BY <4>2, EpochIsNat DEF Scene
        <5> PICK p : p = prev OBVIOUS
        <5>3. Before(p, s) /\ Small(s) /\ p.epoch = s.epoch BY <5>1, <4>4
        <5>4. p.content[r] = s.content[r] BY <5>2, <5>3, SameEpoch
        <5> QED BY <5>4, <4>4, <3>1, <3>3, <3>5 DEF Pixels
      <4>5. CASE ~(prev.tab = s.tab /\ prev.epoch = s.epoch)
        <5>1. s.dirty # Whole /\ r \notin s.dirty BY <4>5, <2>3, <3>5, <3>2 DEF Redrawn
        <5>2. prev.tab = s.tab /\ prev.content[r] = s.content[r] BY <5>1, <4>3 DEF Changed
        <5> QED BY <5>2, <3>1, <3>3, <3>5 DEF Pixels
      <4> QED BY <4>4, <4>5
    <3> QED BY <3>4, <3>5
  <2> QED BY <2>2, <2>3
<1> QED BY <1>3, <1>4, <1>5, <1>6, <1>7 DEF Shown

(* Shown is inductive beside Base. *)
LEMMA ShownStep ==
    ASSUME HideInFlight = FALSE, Base, Shown, [Next]_vars
    PROVE  Shown'
<1>1. CASE \E t \in Tab, damage \in {Whole} \cup {{r} : r \in Region} : Edit(t, damage)
  BY <1>1, ShownUnchanged DEF Edit
<1>2. CASE BuildHidden BY <1>2, ShownUnchanged DEF BuildHidden
<1>3. CASE Hear BY <1>3, ShownUnchanged DEF Hear
<1>4. CASE \E t \in Tab : Select(t) BY <1>4, SelectShows
<1>5. CASE Take BY <1>5, TakeShows
<1>6. CASE Compose BY <1>6, ComposeShows
<1>7. CASE Report BY <1>7, ReportShows
<1>8. CASE Turn BY <1>8, TurnShows
<1>9. CASE \E outcome \in {"Frame", "Dropped"} : Draw(outcome) BY <1>9, DrawShows
<1>10. CASE Done \/ UNCHANGED vars BY <1>10, ShownUnchanged DEF Done, vars
<1> QED BY <1>1, <1>2, <1>3, <1>4, <1>5, <1>6, <1>7, <1>8, <1>9, <1>10 DEF Next

(* At rest the surface, the window, and the page have one epoch. *)
LEMMA RestShowsThePage == Base /\ Shown => SettledShowsThePage
<1> SUFFICES ASSUME Base, Shown, AtRest, NEW r \in Region
             PROVE  surface[r] = <<owner.active, pages[owner.active].content[r]>>
  BY DEF SettledShowsThePage
<1> PICK t : t = owner.active OBVIOUS
<1>1. t \in Tab /\ owner.published = t /\ t # None
  BY TypeParts, NoneIsNothing DEF Base, Owner, AtRest
<1>2. commands = <<>> /\ mailbox = None /\ flight = None /\ window.visible /\ ~window.owed BY DEF AtRest
<1>3. t = window.active
  BY <1>2, EmptySeq DEF Base, Selects, OwnerKnows
<1>4. scenes[t] # None /\ scenes[t].epoch = pages[t].epoch BY <1>1, <1>2 DEF Base, Published
<1>5. prev # None /\ prev.tab = t /\ prev.epoch = scenes[t].epoch
  BY <1>2, <1>3, <1>4 DEF Shown, Owed, Showing
<1>6. Drawn /\ prev \in Scene /\ scenes[t] \in Scene /\ pages[t] \in Page
  BY <1>1, <1>4, <1>5, FrameTypes, TypeParts DEF Drawn, Base
<1> PICK a : a = prev OBVIOUS
<1> PICK b : b = scenes[t] OBVIOUS
<1> PICK c : c = pages[t] OBVIOUS
<1>7. Before(a, b) /\ Before(b, c) /\ Small(b) /\ Small(c) /\ a.epoch = b.epoch /\ b.epoch = c.epoch
  BY <1>1, <1>4, <1>5, <1>6 DEF Base, Ages, FramesAges, ScenesAges, PagesAges
<1>8. b.content \in Content /\ b.epoch \in Nat /\ c.content \in Content /\ c.epoch \in Nat
  BY <1>6, EpochIsNat DEF Scene, Page
<1>9. a.content[r] = b.content[r] BY <1>7, <1>8, SameEpoch
<1>10. b.content[r] = c.content[r] BY <1>7, <1>8, SameEpoch
<1>11. surface[r] = Pixels(a, r) BY <1>5 DEF Shown, SurfaceShowsItsScene
<1> QED BY <1>1, <1>5, <1>9, <1>10, <1>11 DEF Pixels

(***************************************************************************)
(* Every variable keeps its type, whether or not the window hides while a  *)
(* frame is in flight: a report never reaches into the scene of a tab that *)
(* has none, and a turn never builds past the changes there were.          *)
(***************************************************************************)
THEOREM TypeCorrect == Spec => []TypeOK
<1>1. Init => Base BY BaseInit
<1>2. Base /\ [Next]_vars => Base' BY BaseStep
<1>3. Base => TypeOK BY DEF Base
<1> QED BY <1>1, <1>2, <1>3, PTL DEF Spec

(***************************************************************************)
(* plan_damage and commit: as long as the window does not hide while a     *)
(* frame is in flight, the surface shows what it is trusted to show.       *)
(***************************************************************************)
THEOREM TheSurfaceIsTrusted ==
    ASSUME HideInFlight = FALSE
    PROVE  Spec => []SurfaceShowsItsScene
<1>1. Init => Base /\ Shown BY BaseInit, ShownInit
<1>2. Base /\ Shown /\ [Next]_vars => (Base /\ Shown)' BY BaseStep, ShownStep
<1>3. Base /\ Shown => SurfaceShowsItsScene BY DEF Shown
<1> QED BY <1>1, <1>2, <1>3, PTL DEF Spec

(***************************************************************************)
(* Under the same assumption, once nothing is under way what can be seen   *)
(* is the active page as it is: no change was left out of every picture.   *)
(***************************************************************************)
THEOREM WhatSettlesIsThePage ==
    ASSUME HideInFlight = FALSE
    PROVE  Spec => []SettledShowsThePage
<1>1. Init => Base /\ Shown BY BaseInit, ShownInit
<1>2. Base /\ Shown /\ [Next]_vars => (Base /\ Shown)' BY BaseStep, ShownStep
<1>3. Base /\ Shown => SettledShowsThePage BY RestShowsThePage
<1> QED BY <1>1, <1>2, <1>3, PTL DEF Spec

===============================================================================
