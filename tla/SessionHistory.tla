--------------------------- MODULE SessionHistory ---------------------------
(***************************************************************************)
(* Where one tab has been. The browser keeps a list of entries and the     *)
(* position shown (navigation.rs, loading.rs, tabs.rs); a page keeps a     *)
(* list of its own, of the entries it made itself (dom/js/location.js).    *)
(* Back and forward move in the page where both lists have the step, and   *)
(* load otherwise. The page moves in a task of its own, and the browser is *)
(* told of a page's moves only after a turn of input or at a load's end.   *)
(*                                                                         *)
(* A page has one isolate from its arrival on. Left out: scroll positions, *)
(* titles, forms, cache modes, navigations a script asks for, which come   *)
(* as Navigate or Replace here, and a script left over from the page       *)
(* before (PageLoad).                                                      *)
(*                                                                         *)
(* A definition X_Something is a mutant of X, and is used by no other.     *)
(***************************************************************************)
EXTENDS Integers, SequencesExt

CONSTANTS
    Address, OriginOf,  \* addresses, and the origin of each as location.js compares it
    System,             \* those of the browser's own pages
    Redirects,          \* pairs: a load of one may arrive at the other
    Limit,              \* HISTORY_LIMIT: entries a page keeps
    Patient,            \* whether one move waits for the end of the other's
    MaxActs,            \* bound: what the reader and the pages do
    None

ASSUME HistoryAssumption ==
    /\ System \subseteq Address /\ Redirects \subseteq Address \X (Address \ System)
    /\ Limit \in Nat \ {0} /\ Patient \in BOOLEAN /\ MaxActs \in Nat
    /\ None \notin Address

VARIABLES
    tab,      \* url, history and position: what the browser says
    shown,    \* the document shown, with its own entries, or None
    loading,  \* the load under way, or None
    home,     \* ghost: the page is the one the entry at position stands for
    acts

historyVars == <<tab, shown, loading, home, acts>>

Entry == [url : Address, in_page : BOOLEAN]
Load == [target : Address, previous : Address \cup {None}, record : BOOLEAN, arrived : BOOLEAN]
Kinds == {"push", "replace", "traverse", "followed"}
Change == [kind : Kinds, url : Address, step : Int]
Timer == [next : Int, step : Int, how : Kinds]

(***************************************************************************)
(* The browser's list.                                                     *)
(***************************************************************************)

(* What going somewhere new keeps: the entries up to the one shown.        *)
Kept(t) == SubSeq(t.history, 1, t.position)
Followed(t, entry) ==
    [t EXCEPT !.history = Append(Kept(t), entry), !.position = Len(Kept(t)) + 1]

(* record_history: a load that did not move is not a second place.         *)
Recorded(t, previous) ==
    IF t.url = previous /\ t.history # <<>> THEN t ELSE Followed(t, [url |-> t.url, in_page |-> FALSE])

(* apply_world_event, WorldEvent::Moved.                                   *)
Moved(t, change) ==
    LET place == t.position + change.step
        moved == CASE change.kind = "push" /\ t.history # <<>> ->
                        Followed(t, [url |-> change.url, in_page |-> TRUE])
                   [] change.kind = "replace" /\ t.history # <<>> -> [t EXCEPT !.history[t.position].url = change.url]
                   [] change.kind = "traverse" /\ place \in DOMAIN t.history -> [t EXCEPT !.position = place]
                   [] OTHER -> t
    IN  [moved EXCEPT !.url = change.url]

Told(t, changes) ==
    LET told[n \in 0 .. Len(changes)] == IF n = 0 THEN t ELSE Moved(told[n - 1], changes[n])
    IN  told[Len(changes)]

(***************************************************************************)
(* Loads.                                                                  *)
(***************************************************************************)

Document(url) ==
    [url |-> url, entries |-> <<url>>, index |-> 1, timers |-> <<>>, changes |-> <<>>, scripts |-> TRUE]

(* The document has arrived, and the rest of the load goes on.             *)
Building == loading # None /\ loading.arrived

(* A load that is dropped between its arrival and its end takes the        *)
(* isolate of its page along.                                              *)
Dropped == IF Building THEN [shown EXCEPT !.scripts = FALSE, !.timers = <<>>, !.changes = <<>>] ELSE shown

(* start_send: a page of the browser's own is shown at once.               *)
StartSend(t, target, record) ==
    LET here == [t EXCEPT !.url = target]
    IN  IF target \in System
        THEN /\ tab' = IF record THEN Recorded(here, t.url) ELSE here
             /\ shown' = None /\ loading' = None
        ELSE /\ tab' = here
             /\ shown' = Dropped
             /\ loading' = [target |-> target, previous |-> t.url, record |-> record, arrived |-> FALSE]

Act == acts < MaxActs /\ acts' = acts + 1

(* The reader, a link or a script goes to an address; a script may ask for *)
(* it to take the place of the entry it leaves.                            *)
Navigate(target, record) ==
    /\ Act /\ (record \/ shown # None)
    /\ StartSend(tab, target, record)
    /\ home' = (home /\ shown' # None)

(* The scheme policy keeps a page from an address: nothing is left of it.  *)
Refuse ==
    /\ shown # None /\ Act
    /\ shown' = None /\ loading' = None /\ home' = FALSE
    /\ UNCHANGED tab

Reload ==
    /\ Act /\ tab.url # None
    /\ StartSend(tab, tab.url, FALSE)
    /\ home' = (home /\ shown' # None)

(* The document, at the address it ended at.                               *)
Arrive(final) ==
    /\ loading # None /\ ~loading.arrived
    /\ final = loading.target \/ <<loading.target, final>> \in Redirects
    /\ LET here == [tab EXCEPT !.url = final]
       IN  tab' = IF loading.record THEN Recorded(here, loading.previous) ELSE here
    /\ shown' = Document(final)
    /\ loading' = [loading EXCEPT !.arrived = TRUE]
    /\ home' = (tab'.history # <<>> /\ tab'.history[tab'.position].url = final)
    /\ UNCHANGED acts

(* Not a document but a download: the page that lists it is shown.         *)
Attachment(listed) ==
    /\ loading # None /\ ~loading.arrived
    /\ LET here == [tab EXCEPT !.url = listed]
       IN  tab' = IF loading.record THEN Recorded(here, loading.previous) ELSE here
    /\ shown' = None /\ loading' = None /\ home' = FALSE
    /\ UNCHANGED acts

Fail ==
    /\ loading # None /\ ~loading.arrived
    /\ shown' = None /\ loading' = None /\ home' = FALSE
    /\ UNCHANGED <<tab, acts>>

(* The task of a step, when its turn comes. Its entry may be gone.         *)
Landed(p) ==
    LET timer == Head(p.timers)
        there == [p EXCEPT !.timers = Tail(@), !.index = timer.next]
    IN  IF timer.next \in DOMAIN p.entries
        THEN LET url == p.entries[timer.next]
             IN  [there EXCEPT !.url = url,
                               !.changes = Append(@, [kind |-> timer.how, url |-> url, step |-> timer.step])]
        ELSE there

(* finish_load: the page's tasks that are due, and then the browser hears  *)
(* how the page moved while it loaded.                                     *)
FinishLoad ==
    /\ Building
    /\ loading' = None
    /\ \E due \in 0 .. Len(shown.timers) :
        LET settled[n \in 0 .. due] == IF n = 0 THEN shown ELSE Landed(settled[n - 1])
        IN  /\ tab' = Told(tab, settled[due].changes)
            /\ shown' = [settled[due] EXCEPT !.changes = <<>>]
    /\ UNCHANGED <<home, acts>>

StopLoading ==
    /\ loading # None /\ Act
    /\ loading' = None /\ shown' = Dropped
    /\ UNCHANGED <<tab, home>>

(* restore_tab: the tab is closed and reopened, or looked at in its copy.  *)
Restore ==
    /\ Act /\ tab.url # None
    /\ LET arrived == tab.history # <<>> /\ tab.history[tab.position].url = tab.url
           entry == IF tab.history = <<>> THEN None ELSE tab.history[tab.position].url
           from == IF arrived THEN tab.url ELSE entry
       IN  IF tab.url \in System
           THEN /\ tab' = IF arrived THEN tab ELSE Recorded(tab, from)
                /\ loading' = None
           ELSE /\ loading' = [target |-> tab.url, previous |-> from, record |-> ~arrived, arrived |-> FALSE]
                /\ tab' = tab
    /\ shown' = None /\ home' = FALSE

(***************************************************************************)
(* Steps through the history.                                              *)
(***************************************************************************)

(* The page has a task for each step it takes, its own or the browser's.   *)
Stepped(p, step, how) == [p EXCEPT !.timers = Append(@, [next |-> p.index + step, step |-> step, how |-> how])]
HasEntry(p, step) == p.index + step \in DOMAIN p.entries

(* traverse_in_page: there is an isolate to ask, and it has the entry.     *)
TakesStep(step) ==
    /\ shown # None /\ shown.scripts /\ (loading = None \/ loading.arrived)
    /\ HasEntry(shown, 0) /\ HasEntry(shown, step)

(* Every entry the step leaves or passes was made by the document before.  *)
SameDocument(target) ==
    \A i \in DOMAIN tab.history :
        (i > target \/ i > tab.position) /\ (i <= target \/ i <= tab.position) => tab.history[i].in_page

(* No step of the page's is to come, and no move of its is untold.         *)
PageQuiet == IF shown = None THEN TRUE ELSE shown.timers = <<>> /\ shown.changes = <<>>

Travel(step) ==
    /\ Act
    /\ Patient => PageQuiet
    /\ tab.position + step \in DOMAIN tab.history
    /\ LET target == tab.position + step
           there == [tab EXCEPT !.position = target]
           url == tab.history[target].url
       IN  IF SameDocument(target) /\ TakesStep(step)
           THEN /\ tab' = [there EXCEPT !.url = url]
                /\ shown' = Stepped(shown, step, "followed")
                /\ UNCHANGED <<loading, home>>
           ELSE StartSend(there, url, FALSE) /\ home' = FALSE

(***************************************************************************)
(* The page.                                                               *)
(***************************************************************************)

Pushed_KeepsForward(p, url) == InsertAt(p.entries, p.index + 1, url)
Pushed(p, url) == Append(SubSeq(p.entries, 1, p.index), url)

(* pushState, replaceState and go, as the page after them.                 *)
PushState(p, url) ==
    LET entries == Pushed(p, url)
        over == IF Len(entries) > Limit THEN 1 ELSE 0
    IN  [p EXCEPT !.url = url, !.entries = SubSeq(entries, 1 + over, Len(entries)), !.index = @ + 1 - over,
                  !.changes = Append(@, [kind |-> "push", url |-> url, step |-> 0])]
ReplaceState(p, url) ==
    [p EXCEPT !.url = url, !.entries[p.index] = url,
              !.changes = Append(@, [kind |-> "replace", url |-> url, step |-> 0])]
Go(p, step) == IF HasEntry(p, step) THEN Stepped(p, step, "traverse") ELSE p

Scripted(p) ==
    {PushState(p, url) : url \in {u \in Address : OriginOf[u] = OriginOf[p.url]}} \cup
    {ReplaceState(p, url) : url \in {u \in Address : OriginOf[u] = OriginOf[p.url]}} \cup
    {Go(p, step) : step \in {-1, 1}}

MayMove ==
    /\ shown # None /\ shown.scripts /\ HasEntry(shown, 0)
    /\ Patient => home /\ shown.timers = <<>>

(* A turn the browser gives the page for an input, and looks at it after:  *)
(* the page has moved, or had moved before.                                *)
Input ==
    /\ shown # None /\ shown.scripts /\ loading = None
    /\ \/ /\ shown.changes # <<>>
          /\ tab' = Told(tab, shown.changes) /\ shown' = [shown EXCEPT !.changes = <<>>]
          /\ UNCHANGED acts
       \/ /\ MayMove /\ Act
          /\ \E p \in Scripted(shown) : tab' = Told(tab, p.changes) /\ shown' = [p EXCEPT !.changes = <<>>]
    /\ UNCHANGED <<loading, home>>

(* A turn of a timer, a worker, an answer or the parser: nobody looks.     *)
Turn ==
    /\ MayMove /\ Act
    /\ shown' \in Scripted(shown)
    /\ UNCHANGED <<tab, loading, home>>

(* While its document loads, a page's tasks wait for the end of it.        *)
TakeStep ==
    /\ shown # None /\ shown.timers # <<>> /\ ~Building
    /\ shown' = Landed(shown)
    /\ UNCHANGED <<tab, loading, home, acts>>

HistoryInit ==
    /\ tab = [url |-> None, history |-> <<>>, position |-> 0]
    /\ shown = None /\ loading = None /\ home = FALSE /\ acts = 0

Done == acts = MaxActs /\ loading = None /\ PageQuiet /\ UNCHANGED historyVars

HistoryNext ==
    \/ \E target \in Address, record \in BOOLEAN : Navigate(target, record)
    \/ \E final \in Address \ System : Arrive(final)
    \/ \E listed \in System : Attachment(listed)
    \/ \E step \in {-1, 1} : Travel(step)
    \/ Reload \/ Refuse \/ Fail \/ FinishLoad \/ StopLoading \/ Restore
    \/ Input \/ Turn \/ TakeStep \/ Done

HistorySpec == HistoryInit /\ [][HistoryNext]_historyVars

-----------------------------------------------------------------------------
(***************************************************************************)
(* Properties.                                                             *)
(***************************************************************************)

(* What the fields hold. The position is that of an entry, if any is kept, *)
(* and a page is at one of the entries it kept.                            *)
HistoryTypeOK ==
    /\ tab \in [url : Address \cup {None}, history : Seq(Entry), position : Nat]
    /\ tab.position \in DOMAIN tab.history \/ (tab.history = <<>> /\ tab.position = 0)
    /\ shown # None =>
        /\ shown \in [url : Address, entries : Seq(Address), index : Nat,
                     timers : Seq(Timer), changes : Seq(Change), scripts : BOOLEAN]
        /\ Len(shown.entries) <= Limit
        /\ Patient => shown.index \in DOMAIN shown.entries
    /\ loading \in Load \cup {None}
    /\ home \in BOOLEAN /\ acts \in 0 .. MaxActs

(* What the browser will say of the tab once it has heard of every move,   *)
(* and where the page will be once it has taken the step asked of it.      *)
Heard == Told(tab, shown.changes)
Standing == IF shown.timers # <<>> /\ Head(shown.timers).how = "followed" THEN Head(shown.timers).next ELSE shown.index

(* The browser's list and the page's are two records of the same moves,    *)
(* kept by different code and told apart by up to several turns. Every     *)
(* entry the page kept is the browser's entry at the same distance from    *)
(* the one shown, with its address, and marked as the page's to take: so   *)
(* that Back and Forward, given to the page, land where the browser says.  *)
(* It needs that a step ends before the next move of either (Patient).     *)
ListsAgree ==
    shown # None /\ home /\ shown.scripts =>
        \A j \in DOMAIN shown.entries :
            LET place == Heard.position + j - Standing
            IN  /\ place \in DOMAIN Heard.history
                /\ Heard.history[place].url = shown.entries[j]
                /\ j > 1 => Heard.history[place].in_page

=============================================================================
