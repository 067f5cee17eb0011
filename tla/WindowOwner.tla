----------------------------- MODULE WindowOwner -----------------------------
(***************************************************************************)
(* A native window and its content owner (browser/threaded.rs,             *)
(* threaded/owner.rs, tabs.rs). The owner thread holds the tabs and their  *)
(* documents. The window thread holds a copy of the strip, on which it     *)
(* applies the reader's intents at once, and sends numbered inputs down a  *)
(* channel. The owner publishes snapshots into a mailbox of one place; the *)
(* window replaces its copy by the snapshot and applies again the intents  *)
(* the snapshot does not yet acknowledge.                                  *)
(*                                                                         *)
(* A document is named by the navigation that loaded it. What an input     *)
(* does to a page, the chrome's focus, find bar and menus, system pages    *)
(* and a hidden window are left out. Positions are counted from one. A     *)
(* definition X_Something is a mutant of X.                                *)
(***************************************************************************)
EXTENDS Naturals, Sequences, SequencesExt

CONSTANTS
    Plain,      \* what the reader asks the owner for without an intent:
                \* a subset of {"reopen", "duplicate"}
    MaxSerial,  \* bound: inputs the window sends
    MaxLoads    \* bound: navigations a page starts

ASSUME PlainAssumption ==
    /\ Plain \subseteq {"reopen", "duplicate"}
    /\ MaxSerial \in Nat /\ MaxLoads \in Nat

VARIABLES
    \* WindowBrowser
    tabs, active, pending, serial, pointer_slot, snapshot, scenes, invalidated,
    \* the channel and the mailbox
    commands, latest,
    \* the owner's loop and its Browser
    browser, received, closed_tabs, unpublished,
    \* next_tab_id, next_navigation_id and the navigations pages started
    next_tab, next_navigation, loads,
    \* ghost: the last input that reached a document
    hit

windowVars == <<tabs, active, pending, serial, pointer_slot, snapshot, scenes, invalidated>>
ownerVars == <<browser, received, closed_tabs, unpublished>>
idVars == <<next_tab, next_navigation, loads>>
vars == <<windowVars, commands, latest, ownerVars, idVars, hit>>

None == 0

(* At most one identity per input and one for each replacement.            *)
TabIds == 1..(2 * MaxSerial + 1)
Navigations == 0..(MaxSerial + MaxLoads + 1)
Serials == 0..MaxSerial

(* A tab as the window sees it: navigation is 0 before the first load.     *)
WindowTab == [id : TabIds, navigation : Navigations]
(* ... and as the owner has it: the document shown and the load in flight. *)
Tab == [id : TabIds, navigation : Navigations, document : Navigations, loading : Navigations]
Blank(id) == [id |-> id, navigation |-> 0, document |-> 0, loading |-> 0]
FromTab(tab) == [id |-> tab.id, navigation |-> tab.navigation]

Intent == [op : {"open", "close", "select", "move"}, id : TabIds,
           with : {None} \cup TabIds, to : 0..(MaxSerial + 1)]
NoIntent == [op |-> "none", id |-> 1, with |-> None, to |-> 0]

(* A scene the window keeps for a tab: its document, and the serial of the *)
(* snapshot that brought it. Nothing is kept as serial 0, document 0.      *)
NoScene == [document |-> 0, serial |-> 0]

Snapshot == [serial : Serials, tabs : Seq(WindowTab), active : Nat, document : Navigations]
NoSnapshot == [serial |-> 0, tabs |-> << >>, active |-> 0, document |-> 0]

(* An input. context is the navigation a page event is meant for; seen and *)
(* upto are ghosts: the document on show and the navigations there were.   *)
Kinds == {"chrome", "navigate", "reopen", "duplicate", "press", "pointer"}
PageEvents == {"press", "pointer"}
Input == [serial : Serials, tab : TabIds, context : Navigations, kind : Kinds,
          intent : Intent \cup {NoIntent}, seen : Navigations, upto : Navigations]

Ids(s) == [i \in DOMAIN s |-> s[i].id]
Has(s, id) == \E i \in DOMAIN s : s[i].id = id
IndexOf(s, id) == CHOOSE i \in DOMAIN s : s[i].id = id
Capped(i, n) == IF i > n THEN n ELSE i
UpperEnd(s) == IF s = << >> THEN 1 ELSE Len(s)

(* A window that finds itself without a tab panics at its next look at it. *)
WindowLives == tabs # << >>

TypeOK ==
    /\ tabs \in Seq(WindowTab) /\ (WindowLives => active \in DOMAIN tabs)
    /\ pending \in Seq([serial : Serials, intent : Intent])
    /\ serial \in Serials /\ pointer_slot \in BOOLEAN
    /\ snapshot \in Serials
    /\ scenes \in [TabIds -> [document : Navigations, serial : Serials]]
    /\ invalidated \in [TabIds -> Serials]
    /\ commands \in Seq(Input)
    /\ latest \in Snapshot
    /\ browser.tabs \in Seq(Tab) /\ browser.active \in DOMAIN browser.tabs
    /\ received \in Serials /\ unpublished \in BOOLEAN
    /\ closed_tabs \in Seq([index : Nat, tab : Tab])
    /\ next_tab \in Nat /\ next_navigation \in Navigations /\ loads \in 0..MaxLoads
    /\ hit \in [seen : Navigations, upto : Navigations, document : Navigations]
    /\ \A i, j \in DOMAIN tabs : tabs[i].id = tabs[j].id => i = j
    /\ \A i, j \in DOMAIN browser.tabs : browser.tabs[i].id = browser.tabs[j].id => i = j

(* A new window: one blank tab on both sides, its first snapshot read.     *)
Init ==
    /\ tabs = <<FromTab(Blank(1))>> /\ active = 1
    /\ pending = << >> /\ serial = 0 /\ pointer_slot = FALSE /\ snapshot = 0
    /\ scenes = [t \in TabIds |-> NoScene]
    /\ invalidated = [t \in TabIds |-> 0]
    /\ commands = << >> /\ latest = NoSnapshot
    /\ browser = [tabs |-> <<Blank(1)>>, active |-> 1]
    /\ received = 0 /\ closed_tabs = << >> /\ unpublished = FALSE
    /\ next_tab = 2 /\ next_navigation = 1 /\ loads = 0
    /\ hit = [seen |-> 0, upto |-> 1, document |-> 0]

-----------------------------------------------------------------------------
(* Intents, as the window projects them and as the owner applies them.     *)

View == [tabs |-> tabs, active |-> active]

(* The closed tab's place in front falls to the one that slides into it.   *)
FrontAfterClose_NoShift(v, i, rest) == Capped(v.active, UpperEnd(rest))
FrontAfterClose(v, i, rest) ==
    Capped(IF i < v.active THEN v.active - 1 ELSE v.active, UpperEnd(rest))

(* Intent::project. *)
Project(v, intent) ==
    CASE intent.op = "open" ->
            [tabs |-> Append(v.tabs, FromTab(Blank(intent.id))), active |-> Len(v.tabs) + 1]
      [] intent.op = "close" /\ Has(v.tabs, intent.id) ->
            LET i == IndexOf(v.tabs, intent.id)
                rest == RemoveAt(v.tabs, i)
                all == IF intent.with = None THEN rest
                       ELSE Append(rest, FromTab(Blank(intent.with)))
            IN  [tabs |-> all, active |-> FrontAfterClose(v, i, all)]
      [] intent.op = "select" /\ Has(v.tabs, intent.id) ->
            [v EXCEPT !.active = IndexOf(v.tabs, intent.id)]
      [] intent.op = "move" /\ Has(v.tabs, intent.id) ->
            LET i == IndexOf(v.tabs, intent.id)
                rest == RemoveAt(v.tabs, i)
                moved == InsertAt(rest, Capped(intent.to, Len(v.tabs)), v.tabs[i])
            IN  [tabs |-> moved, active |-> IndexOf(moved, v.tabs[v.active].id)]
      [] OTHER -> v

OwnerFront(b, i, rest) ==
    IF i < b.active THEN b.active - 1
    ELSE IF i = b.active THEN Capped(i, Len(rest)) ELSE b.active

(* Browser::close_tab, which leaves a blank tab of its own, named fresh,   *)
(* when it closed the last; then Intent::apply's own replacement.          *)
CloseTab(b, i, fresh) ==
    LET rest == RemoveAt(b.tabs, i)
    IN  IF rest = << >> THEN [tabs |-> <<Blank(fresh)>>, active |-> 1]
        ELSE [tabs |-> rest, active |-> OwnerFront(b, i, rest)]

(* Intent::apply. *)
Apply(b, intent, fresh) ==
    CASE intent.op = "open" ->
            [tabs |-> Append(b.tabs, Blank(intent.id)), active |-> Len(b.tabs) + 1]
      [] intent.op = "close" /\ Has(b.tabs, intent.id) ->
            LET closed == CloseTab(b, IndexOf(b.tabs, intent.id), fresh)
            IN  IF intent.with = None THEN closed
                ELSE [closed EXCEPT !.tabs[1] = Blank(intent.with)]
      [] intent.op = "select" /\ Has(b.tabs, intent.id) ->
            [b EXCEPT !.active = IndexOf(b.tabs, intent.id)]
      [] intent.op = "move" /\ Has(b.tabs, intent.id) ->
            LET i == IndexOf(b.tabs, intent.id)
                moved == InsertAt(RemoveAt(b.tabs, i), Capped(intent.to, Len(b.tabs)), b.tabs[i])
            IN  [tabs |-> moved, active |-> IndexOf(moved, b.tabs[b.active].id)]
      [] OTHER -> b

-----------------------------------------------------------------------------
(* The window. *)

(* A pointer move takes the place of an unread one unless another input    *)
(* was sent after it.                                                      *)
SlotStaysOpen_Always(kind) == TRUE
SlotStaysOpen(kind) == kind = "pointer"

Pointers == {i \in DOMAIN commands : commands[i].kind = "pointer"}

Post(input) ==
    IF input.kind = "pointer" /\ pointer_slot /\ Pointers # {}
    THEN [commands EXCEPT ![CHOOSE i \in Pointers : \A j \in Pointers : j <= i] = input]
    ELSE Append(commands, input)

(* WindowBrowser::send, after the intent was projected to v.               *)
Send(kind, intent, v) ==
    LET front == v.tabs[v.active]
    IN  /\ WindowLives /\ serial < MaxSerial
        /\ serial' = serial + 1
        /\ tabs' = v.tabs /\ active' = v.active
        /\ pending' = IF intent = NoIntent THEN pending
                      ELSE Append(pending, [serial |-> serial + 1, intent |-> intent])
        /\ commands' = Post([serial |-> serial + 1, tab |-> front.id, kind |-> kind,
                             context |-> IF kind \in PageEvents THEN front.navigation ELSE 0,
                             intent |-> intent, seen |-> scenes[front.id].document,
                             upto |-> next_navigation])
        /\ pointer_slot' = (SlotStaysOpen(kind) /\ (pointer_slot \/ kind = "pointer"))
        /\ UNCHANGED <<snapshot, latest, ownerVars, next_navigation, loads, hit>>

Chrome(intent) ==
    /\ Send("chrome", intent, Project(View, intent))
    /\ UNCHANGED <<scenes, invalidated>>

NewTab ==
    /\ Chrome([op |-> "open", id |-> next_tab, with |-> None, to |-> 0])
    /\ next_tab' = next_tab + 1

(* The window names the tab that follows its last one.                     *)
CloseOne(id) ==
    LET last == Len(tabs) = 1
    IN  /\ Chrome([op |-> "close", id |-> id, to |-> 0,
                   with |-> IF last THEN next_tab ELSE None])
        /\ next_tab' = IF last THEN next_tab + 1 ELSE next_tab

SelectOne(id) ==
    /\ Chrome([op |-> "select", id |-> id, with |-> None, to |-> 0])
    /\ UNCHANGED next_tab

MoveOne(id, to) ==
    /\ Chrome([op |-> "move", id |-> id, with |-> None, to |-> to])
    /\ UNCHANGED next_tab

(* An address is entered, reloaded or travelled to in the tab in front:    *)
(* what that tab showed is put away until the owner has heard of it.       *)
Navigate ==
    LET front == tabs[active].id
    IN  /\ Send("navigate", NoIntent, View)
        /\ invalidated' = [invalidated EXCEPT ![front] = serial + 1]
        /\ scenes' = [scenes EXCEPT ![front] = NoScene]
        /\ UNCHANGED next_tab

(* An event for the document on show, or one passed to the owner whole.    *)
Event(kind) ==
    /\ kind \in PageEvents => scenes[tabs[active].id].document # 0
    /\ Send(kind, NoIntent, View)
    /\ UNCHANGED <<scenes, invalidated, next_tab>>

(* Whether a snapshot's scene of t may be shown.                           *)
Current_Any(t, s) == TRUE
Current(t, s) == s.serial >= invalidated[t]

(* The intents a snapshot of serial n does not acknowledge: the pending    *)
(* list after each of its entries was kept or dropped.                     *)
Unacknowledged(n) ==
    LET kept[i \in 0..Len(pending)] ==
            IF i = 0 THEN << >>
            ELSE IF pending[i].serial > n THEN Append(kept[i - 1], pending[i]) ELSE kept[i - 1]
    IN  kept[Len(pending)]

(* The snapshot's strip with those intents applied to it again, in order.  *)
Reproject(s, waiting) ==
    LET after[i \in 0..Len(waiting)] ==
            IF i = 0 THEN [tabs |-> s.tabs, active |-> s.active]
            ELSE Project(after[i - 1], waiting[i].intent)
    IN  after[Len(waiting)]

(* WindowBrowser::receive. *)
Receive ==
    /\ WindowLives /\ latest # NoSnapshot
    /\ pending' = Unacknowledged(latest.serial)
    /\ \E v \in {Reproject(latest, Unacknowledged(latest.serial))} :
       LET front == latest.tabs[latest.active].id
       IN  /\ tabs' = v.tabs /\ active' = v.active
           /\ scenes' = [t \in TabIds |->
                IF ~Has(v.tabs, t) THEN NoScene
                ELSE IF t = front /\ Current(t, latest)
                     THEN [document |-> latest.document, serial |-> latest.serial]
                     ELSE scenes[t]]
           /\ invalidated' = [t \in TabIds |-> IF Has(v.tabs, t) THEN invalidated[t] ELSE 0]
           /\ snapshot' = latest.serial
    /\ latest' = NoSnapshot
    /\ UNCHANGED <<serial, pointer_slot, commands, ownerVars, idVars, hit>>

-----------------------------------------------------------------------------
(* The owner. *)

(* Browser::start_load in tab i: the tab takes the new navigation's name   *)
(* at once, the document only when it arrives.                             *)
Started(tab) == [id |-> tab.id, navigation |-> next_navigation,
                 document |-> tab.document, loading |-> next_navigation]
Arrived(tab) == [id |-> tab.id, navigation |-> tab.navigation,
                 document |-> tab.loading, loading |-> 0]
Loading(b, i) == [b EXCEPT !.tabs[i] = Started(b.tabs[i])]

(* Browser::restore_tab: the tab under a new name, in front at position i, *)
(* its address loading again if it had one.                                *)
Restored(b, tab, i) ==
    LET at == Capped(i, Len(b.tabs) + 1)
        placed == [tabs |-> InsertAt(b.tabs, at, Blank(next_tab)), active |-> at]
    IN  IF tab.navigation = 0 THEN placed ELSE Loading(placed, at)

(* Browser::reopen_closed_tab uses up an untouched blank tab in front.     *)
Reopened(b) ==
    LET closed == Last(closed_tabs)
        front == b.tabs[b.active]
        left == IF front.navigation = 0
                THEN [b EXCEPT !.tabs = RemoveAt(b.tabs, b.active)] ELSE b
    IN  Restored(left, closed.tab, closed.index)

(* What an input that got past its checks does to b, the browser with its  *)
(* intent applied or its tab selected.                                     *)
Effect(kind, b) ==
    CASE kind = "navigate" -> Loading(b, b.active)
      [] kind = "reopen" /\ closed_tabs # << >> -> Reopened(b)
      [] kind = "duplicate" -> Restored(b, b.tabs[b.active], b.active + 1)
      [] OTHER -> b

(* ContentContext::matches, for the tab the input names.                   *)
ForThisDocument_Unchecked(input) == Has(browser.tabs, input.tab)
ForThisDocument(input) ==
    /\ Has(browser.tabs, input.tab)
    /\ browser.tabs[IndexOf(browser.tabs, input.tab)].navigation = input.context

(* The owner publishes after a batch whether or not it acted on its inputs. *)
PublishesAfter_Acting(acted) == acted
PublishesAfter(acted) == TRUE

(* One Command::Input of the owner's batch. *)
Handle ==
    /\ commands # << >>
    /\ LET input == Head(commands)
           here == Has(browser.tabs, input.tab)
           meant == input.kind \in PageEvents => ForThisDocument(input)
           acted == meant /\ (input.intent # NoIntent \/ here)
           b == IF input.intent # NoIntent THEN Apply(browser, input.intent, next_tab)
                ELSE [browser EXCEPT !.active = IndexOf(browser.tabs, input.tab)]
           closing == input.intent.op = "close" /\ Has(browser.tabs, input.intent.id)
           reopening == input.kind = "reopen" /\ closed_tabs # << >>
       IN  /\ received' = input.serial
           /\ unpublished' = (unpublished \/ PublishesAfter(acted))
           /\ IF ~acted
              THEN UNCHANGED <<browser, closed_tabs, next_tab, next_navigation, hit>>
              ELSE /\ browser' = Effect(input.kind, b)
                   /\ closed_tabs' =
                        IF closing
                        THEN LET i == IndexOf(browser.tabs, input.intent.id)
                             IN  Append(closed_tabs, [index |-> i, tab |-> browser.tabs[i]])
                        ELSE IF reopening THEN Front(closed_tabs) ELSE closed_tabs
                   /\ next_tab' = IF \/ closing /\ Len(browser.tabs) = 1
                                     \/ reopening \/ input.kind = "duplicate"
                                  THEN next_tab + 1 ELSE next_tab
                   /\ next_navigation' =
                        IF \E i \in DOMAIN browser'.tabs :
                                browser'.tabs[i].loading = next_navigation
                        THEN next_navigation + 1 ELSE next_navigation
                   /\ hit' = IF input.kind \in PageEvents
                             THEN [seen |-> input.seen, upto |-> input.upto,
                                   document |-> b.tabs[b.active].document]
                             ELSE hit
    /\ commands' = Tail(commands)
    /\ UNCHANGED <<windowVars, latest, loads>>

(* Browser::pump takes in a finished fetch: the document of tab i arrives. *)
Arrive(i) ==
    /\ browser.tabs[i].loading # 0
    /\ browser' = [browser EXCEPT !.tabs[i] = Arrived(browser.tabs[i])]
    /\ unpublished' = TRUE
    /\ UNCHANGED <<windowVars, commands, latest, received, closed_tabs, idVars, hit>>

(* ... or the script of the page in front leaves for another address.      *)
PageNavigates ==
    /\ loads < MaxLoads /\ browser.tabs[browser.active].document # 0
    /\ browser' = Loading(browser, browser.active)
    /\ next_navigation' = next_navigation + 1 /\ loads' = loads + 1
    /\ unpublished' = TRUE
    /\ UNCHANGED <<windowVars, commands, latest, received, closed_tabs, next_tab, hit>>

(* The owner's loop between batches: what it captures takes the place of a *)
(* snapshot nobody has read, and the window is woken.                      *)
Publish ==
    /\ unpublished
    /\ latest' = [serial |-> received,
                  tabs |-> [i \in DOMAIN browser.tabs |-> FromTab(browser.tabs[i])],
                  active |-> browser.active,
                  document |-> browser.tabs[browser.active].document]
    /\ unpublished' = FALSE
    /\ UNCHANGED <<windowVars, commands, browser, received, closed_tabs, idVars, hit>>

-----------------------------------------------------------------------------
Reader ==
    /\ WindowLives
    /\ \/ NewTab
       \/ Navigate
       \/ \E i \in DOMAIN tabs : CloseOne(tabs[i].id) \/ SelectOne(tabs[i].id)
       \/ \E i, j \in DOMAIN tabs : MoveOne(tabs[i].id, j)
       \/ \E k \in PageEvents \cup Plain : Event(k)

(* Everything is said and done. *)
Settled ==
    /\ serial = MaxSerial \/ ~WindowLives
    /\ commands = << >> /\ ~unpublished
    /\ latest = NoSnapshot \/ ~WindowLives
    /\ UNCHANGED vars

Next ==
    \/ Reader
    \/ Receive
    \/ Handle
    \/ \E i \in DOMAIN browser.tabs : Arrive(i)
    \/ PageNavigates
    \/ Publish
    \/ Settled

(* The owner's loop takes what it is sent and publishes after every batch; *)
(* the waker makes the window read its mailbox. Nothing is fair to the     *)
(* reader, the network or the page.                                        *)
Fairness == WF_vars(Handle) /\ WF_vars(Publish) /\ WF_vars(Receive)

Spec == Init /\ [][Next]_vars
FairSpec == Spec /\ Fairness

-----------------------------------------------------------------------------
(* Properties. *)

(* The reader's tab strip changes only by the reader's own steps.          *)
Strip == INSTANCE TabStrip WITH strip <- Ids(tabs), front <- active
ImplementsTabStrip == Strip!StripSpec

(* Inputs are applied in the order the reader made them: a pointer move    *)
(* coalesced into an older place never runs ahead of a key before it.      *)
InputsInOrder == [][received' >= received]_vars

(* No scene captured before the owner knew of the reader's last navigation *)
(* of a tab is on show in it, though snapshots from before keep arriving.  *)
OldSceneStaysAway ==
    \A t \in TabIds : scenes[t] # NoScene => scenes[t].serial >= invalidated[t]

(* An input never reaches a document whose load began after it was sent.   *)
NoInputToLaterNavigation == hit.document < hit.upto

(* Once every command is handled and the last snapshot read, the window    *)
(* shows the owner's strip, reopened and duplicated tabs included, and     *)
(* nothing waits to be acknowledged.                                       *)
SettledAgree ==
    commands = << >> /\ latest = NoSnapshot /\ ~unpublished =>
        /\ pending = << >> /\ snapshot = serial
        /\ tabs = [i \in DOMAIN browser.tabs |-> FromTab(browser.tabs[i])]
        /\ active = browser.active

(* Every input the reader makes is acknowledged to the window, while it    *)
(* has a tab to show (OnlyClosedTabsGo says how it can come to have none). *)
Acknowledged == \A n \in 1..MaxSerial : serial >= n ~> (snapshot >= n \/ ~WindowLives)

(* Intent::apply: "The shell allocated this identity before the owner      *)
(* closed its last tab; no document uses the replacement." A tab goes only *)
(* because it was closed, or was the untouched one a reopened tab uses up. *)
OnlyClosedTabsGo ==
    [][\A i \in DOMAIN browser.tabs :
        \/ Has(browser'.tabs, browser.tabs[i].id)
        \/ /\ Len(closed_tabs') > Len(closed_tabs)
           /\ Last(closed_tabs').tab = browser.tabs[i]
        \/ Len(closed_tabs') < Len(closed_tabs) /\ i = browser.active]_vars
=============================================================================
