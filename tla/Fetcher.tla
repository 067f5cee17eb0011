------------------------------ MODULE Fetcher ------------------------------
(***************************************************************************)
(* The fetch pool (fetcher.rs) and the thread that owns it. Each request   *)
(* becomes a task of a shared runtime. It waits for a permit of its lane,  *)
(* runs its transport, puts one reply into a channel and wakes the owner.  *)
(* The owner takes replies for the loads that still want them, cancels     *)
(* what a page left, and at its end closes the lanes, aborts the tasks and *)
(* waits for them. A driver, when there is one, has a gate that holds      *)
(* requests before they are sent, and no waker: its loop turns by itself.  *)
(*                                                                         *)
(* A lane is a page's host or "documents"; its semaphore is named by the   *)
(* request it was made for, and the documents' is number 0. What a request *)
(* asks for and what comes back are left out, and so is the order in which *)
(* one lane's permit goes to those who wait for it. A definition           *)
(* X_Something is a mutant of X.                                           *)
(***************************************************************************)
EXTENDS Naturals, FiniteSets

CONSTANTS
    Hosts,          \* what a page's requests go to, the documents aside
    Permits,        \* FETCH_CONCURRENCY, 6
    IdleLanes,      \* IDLE_LANES, 64
    HeldLimit,      \* HELD_LIMIT, 64
    ExchangeLimit,  \* EXCHANGE_LIMIT, 300
    MaxRequests     \* bound: requests made

ASSUME LimitAssumption ==
    /\ "documents" \notin Hosts
    /\ Permits \in Nat \ {0} /\ HeldLimit \in Nat \ {0} /\ ExchangeLimit \in Nat \ {0}
    /\ IdleLanes \in Nat /\ MaxRequests \in Nat

VARIABLES
    \* Fetcher: the requests made, the lanes, the tasks it can still abort
    next, lanes, closed, running, gate, waker,
    \* the tasks and the replies in the channel
    task, replies,
    \* the exchanges whose status is no longer Pending
    settled,
    \* the owner's loop, the replies it took and has still to hand out, the
    \* requests some load waits for, and whether a driver is connected
    owner, inbox, wanted, driver,
    \* the mailbox's wake_pending and the Wake commands in its channel
    wake_pending, wakes,
    \* history: the replies the owner took for each request
    taken

poolVars == <<lanes, closed, running, gate, waker>>
ownerVars == <<owner, inbox, wanted, driver>>
wakeVars == <<wake_pending, wakes>>
vars == <<next, poolVars, task, replies, settled, ownerVars, wakeVars, taken>>

Requests == 1..MaxRequests
Keys == Hosts \cup {"documents"}

(* Where a request's task is. "held" is before its task is spawned, and a  *)
(* task is "spawned" until it is first polled. From "sent" on its reply is *)
(* in the channel. "dropped" had none to give: cancelled while held, or    *)
(* before its first poll.                                                  *)
Stages == {"none", "held", "spawned", "queued", "wire", "unwinding",
           "sent", "waking", "ended", "dropped"}
Live == {"spawned", "queued", "wire", "unwinding", "sent", "waking"}
Owing == {"spawned", "queued", "wire", "unwinding"}

Task == [at : Stages, key : Keys, lane : 0..MaxRequests, permit : BOOLEAN, aborted : BOOLEAN]
Over(stage) == [at |-> stage, key |-> "documents", lane |-> 0, permit |-> FALSE, aborted |-> FALSE]

Phases == {"asleep", "woken", "busy", "receiving", "closing", "aborting", "stopped"}
Teardown == {"closing", "aborting", "stopped"}

TypeOK ==
    /\ next \in 0..MaxRequests
    /\ lanes \in [Hosts -> 0..MaxRequests]
    /\ closed \in BOOLEAN /\ gate \in BOOLEAN /\ waker \in BOOLEAN
    /\ running \subseteq Requests /\ settled \subseteq Requests
    /\ task \in [Requests -> Task]
    /\ replies \in [Requests -> 0..1] /\ taken \in [Requests -> 0..1]
    /\ owner \in Phases /\ driver \in {"none", "connected", "away"}
    /\ inbox \subseteq Requests /\ wanted \subseteq Requests
    /\ wake_pending \in BOOLEAN /\ wakes \in Nat

(* A window's pool has a waker and nobody to drive it, a driver's has none. *)
Init ==
    /\ next = 0 /\ lanes = [h \in Hosts |-> 0]
    /\ closed = FALSE /\ running = {} /\ gate = FALSE
    /\ driver \in {"none", "away"} /\ waker = (driver = "none")
    /\ task = [i \in Requests |-> Over("none")]
    /\ replies = [i \in Requests |-> 0] /\ taken = [i \in Requests |-> 0]
    /\ settled = {} /\ inbox = {} /\ wanted = {}
    /\ owner = "asleep" /\ wake_pending = FALSE /\ wakes = 0

IsHeld(i) == task[i].at = "held"
HeldNow == {i \in Requests : IsHeld(i)}
Oldest(S) == CHOOSE i \in S : \A j \in S : i <= j
Listed(i) == i <= next /\ next < i + ExchangeLimit
-----------------------------------------------------------------------------
(* The pool *)

(* Somebody beside the table has the lane: Arc::strong_count > 1.          *)
Shared_Never(lane) == FALSE

Shared(lane) == \E i \in Requests : task[i].at \in Live /\ task[i].lane = lane

(* The table of lanes with room made in it.                                *)
Swept ==
    IF Cardinality({h \in Hosts : lanes[h] # 0}) < IdleLanes THEN lanes
    ELSE [h \in Hosts |-> IF Shared(lanes[h]) THEN lanes[h] ELSE 0]

(* lanes.lane, spawn_on and running.insert.                                *)
Launch(i, k) ==
    /\ running' = running \cup {i}
    /\ IF k = "documents"
       THEN /\ task' = [task EXCEPT ![i] = [Over("spawned") EXCEPT !.key = k]]
            /\ UNCHANGED lanes
       ELSE /\ lanes' = [Swept EXCEPT ![k] = IF Swept[k] = 0 THEN i ELSE Swept[k]]
            /\ task' = [task EXCEPT ![i] = [Over("spawned") EXCEPT !.key = k, !.lane = lanes'[k]]]

(* fetch_in_context when the gate lets the request pass...                 *)
Send(k) ==
    /\ Launch(next + 1, k)
    /\ UNCHANGED replies

(* ... and when it holds it; the oldest held is failed to make room.       *)
Hold_Silently(k) ==
    /\ gate
    /\ LET full == Cardinality(HeldNow) >= HeldLimit
           oldest == Oldest(HeldNow)
           held == [task EXCEPT ![next + 1] = [Over("held") EXCEPT !.key = k]]
       IN  task' = IF full THEN [held EXCEPT ![oldest] = Over("ended")] ELSE held
    /\ UNCHANGED <<lanes, running, replies>>

Hold(k) ==
    /\ gate
    /\ LET full == Cardinality(HeldNow) >= HeldLimit
           oldest == Oldest(HeldNow)
           held == [task EXCEPT ![next + 1] = [Over("held") EXCEPT !.key = k]]
       IN  IF full
           THEN /\ task' = [held EXCEPT ![oldest] = Over("ended")]
                /\ replies' = [replies EXCEPT ![oldest] = @ + 1]
           ELSE /\ task' = held
                /\ UNCHANGED replies
    /\ UNCHANGED <<lanes, running>>

Fetch ==
    /\ owner \in {"busy", "receiving"} /\ next < MaxRequests
    /\ \E k \in Keys : Send(k) \/ Hold(k)
    /\ next' = next + 1
    /\ wanted' = wanted \cup {next + 1}
    /\ UNCHANGED <<closed, gate, waker, settled, owner, inbox, driver, wakeVars, taken>>

(* cancel, for a load or a page that is given up in the same turn.         *)
Cancel(i) ==
    /\ owner \in {"busy", "receiving"} /\ i \in wanted
    /\ wanted' = wanted \ {i}
    /\ IF IsHeld(i)
       THEN /\ task' = [task EXCEPT ![i] = Over("dropped")]
            /\ settled' = settled \cup {j \in {i} : Listed(j)}
            /\ UNCHANGED running
       ELSE /\ running' = running \ {i}
            /\ task' = IF i \in running /\ task[i].at \in Live
                       THEN [task EXCEPT ![i].aborted = TRUE] ELSE task
            /\ UNCHANGED settled
    /\ UNCHANGED <<next, lanes, closed, gate, waker, replies, owner, inbox, driver, wakeVars, taken>>
-----------------------------------------------------------------------------
(* A task. Its steps interleave with the owner's at every await, and an    *)
(* abort that finds it between two awaits stops it only at the second.     *)

Unpolled == <<next, poolVars, settled, ownerVars, taken>>

FirstPoll(i) ==
    /\ task[i].at = "spawned" /\ ~task[i].aborted
    /\ task' = [task EXCEPT ![i].at = "queued"]
    /\ UNCHANGED <<Unpolled, replies, wakeVars>>

(* Aborted before it ran at all: no FetchCompletion was ever made.         *)
DropUnpolled(i) ==
    /\ task[i].at = "spawned" /\ task[i].aborted
    /\ task' = [task EXCEPT ![i] = Over("dropped")]
    /\ UNCHANGED <<Unpolled, replies, wakeVars>>

Users(lane) == {i \in Requests : task[i].permit /\ task[i].lane = lane}

Acquire(i) ==
    /\ task[i].at = "queued" /\ ~closed
    /\ Cardinality(Users(task[i].lane)) < Permits
    /\ task' = [task EXCEPT ![i].at = "wire", ![i].permit = TRUE]
    /\ UNCHANGED <<Unpolled, replies, wakeVars>>

(* The sender fails once the receiver has gone, and then nobody is woken.  *)
Reply(i, after) ==
    IF owner = "stopped"
    THEN /\ task' = [task EXCEPT ![i] = Over("ended")]
         /\ UNCHANGED replies
    ELSE /\ task' = [task EXCEPT ![i] = after]
         /\ replies' = [replies EXCEPT ![i] = @ + 1]

(* The transport ends, well or badly: pending is cleared and the reply     *)
(* sent, with the permit still in hand.                                    *)
Finish(i) ==
    /\ task[i].at = "wire"
    /\ Reply(i, [task[i] EXCEPT !.at = "sent"])
    /\ UNCHANGED <<Unpolled, wakeVars>>

(* The future is dropped: cancelled, refused a permit, or panicking. The   *)
(* permit goes back before FetchCompletion speaks.                         *)
Unwinds(i) ==
    \/ task[i].at = "queued" /\ (task[i].aborted \/ closed)
    \/ task[i].at = "wire" /\ task[i].aborted

Unwind(i) ==
    /\ Unwinds(i)
    /\ task' = [task EXCEPT ![i].at = "unwinding", ![i].permit = FALSE]
    /\ UNCHANGED <<Unpolled, replies, wakeVars>>

Panic(i) ==
    /\ task[i].at = "wire"
    /\ task' = [task EXCEPT ![i].at = "unwinding", ![i].permit = FALSE]
    /\ UNCHANGED <<Unpolled, replies, wakeVars>>

(* FetchCompletion::drop with a reply still pending.                       *)
Tell_Silently(i) ==
    /\ task[i].at = "unwinding"
    /\ task' = [task EXCEPT ![i] = Over("ended")]
    /\ UNCHANGED <<Unpolled, replies, wakeVars>>

Tell_WithoutWake(i) ==
    /\ task[i].at = "unwinding"
    /\ Reply(i, Over("ended"))
    /\ UNCHANGED <<Unpolled, wakeVars>>

Tell(i) ==
    /\ task[i].at = "unwinding"
    /\ Reply(i, [task[i] EXCEPT !.at = "sent"])
    /\ UNCHANGED <<Unpolled, wakeVars>>

(* The waker is cloned under its lock and called after it, if there is one. *)
ReadWaker(i) ==
    /\ task[i].at = "sent"
    /\ task' = [task EXCEPT ![i] = IF waker THEN [@ EXCEPT !.at = "waking"] ELSE Over("ended")]
    /\ UNCHANGED <<Unpolled, replies, wakeVars>>

Wake(i) ==
    /\ task[i].at = "waking"
    /\ task' = [task EXCEPT ![i] = Over("ended")]
    /\ wake_pending' = TRUE
    /\ wakes' = IF wake_pending THEN wakes ELSE wakes + 1
    /\ UNCHANGED <<Unpolled, replies>>

TaskStep(i) ==
    \/ FirstPoll(i) \/ DropUnpolled(i) \/ Acquire(i) \/ Finish(i) \/ Unwind(i)
    \/ Panic(i) \/ Tell(i) \/ ReadWaker(i) \/ Wake(i)
-----------------------------------------------------------------------------
(* The owner *)

Idle == <<next, poolVars, task, replies, settled, taken>>

(* A Wake command is taken, before wake_pending is cleared.                *)
TakeWake ==
    /\ owner \in {"asleep", "busy"} /\ driver = "none" /\ wakes > 0
    /\ wakes' = wakes - 1
    /\ owner' = "woken"
    /\ UNCHANGED <<Idle, inbox, wanted, driver, wake_pending>>

(* A timer of the page falls due, which the loop takes for a Wake.         *)
TimerFallsDue ==
    /\ owner = "asleep" /\ driver = "none"
    /\ owner' = "woken"
    /\ UNCHANGED <<Idle, inbox, wanted, driver, wakeVars>>

ClearPending_Forgotten ==
    /\ owner = "woken"
    /\ owner' = "busy"
    /\ UNCHANGED <<Idle, inbox, wanted, driver, wakeVars>>

ClearPending ==
    /\ owner = "woken"
    /\ wake_pending' = FALSE
    /\ owner' = "busy"
    /\ UNCHANGED <<Idle, inbox, wanted, driver, wakes>>

(* Another command of the window, or one turn of a driver's loop.          *)
Turn ==
    /\ owner = "asleep" /\ driver # "away"
    /\ owner' = "busy"
    /\ UNCHANGED <<Idle, inbox, wanted, driver, wakeVars>>

Poll ==
    /\ owner = "busy"
    /\ LET finished == {i \in Requests : replies[i] > 0}
       IN  /\ running' = running \ finished
           /\ settled' = settled \cup {i \in finished : Listed(i)}
           /\ inbox' = finished
    /\ taken' = [i \in Requests |-> taken[i] + replies[i]]
    /\ replies' = [i \in Requests |-> 0]
    /\ owner' = "receiving"
    /\ UNCHANGED <<next, lanes, closed, gate, waker, task, wanted, driver, wakeVars>>

(* World::receive: a reply nobody waits for any more is let fall.          *)
Receive(i) ==
    /\ owner = "receiving" /\ i \in inbox
    /\ inbox' = inbox \ {i}
    /\ wanted' = wanted \ {i}
    /\ UNCHANGED <<Idle, owner, driver, wakeVars>>

Rest ==
    /\ owner = "receiving" /\ inbox = {}
    /\ owner' = "asleep"
    /\ UNCHANGED <<Idle, inbox, wanted, driver, wakeVars>>
-----------------------------------------------------------------------------
(* A driver *)

Connect ==
    /\ owner = "asleep" /\ driver = "away"
    /\ driver' = "connected"
    /\ UNCHANGED <<Idle, owner, inbox, wanted, wakeVars>>

SetGate ==
    /\ owner = "busy" /\ driver = "connected"
    /\ gate' = ~gate
    /\ UNCHANGED <<next, lanes, closed, running, waker, task, replies, settled, ownerVars, wakeVars, taken>>

(* resume: a page's request may be sent to another host.                   *)
Resume(i) ==
    /\ owner = "busy" /\ driver = "connected" /\ IsHeld(i)
    /\ \E k \in Keys : (k = "documents") = (task[i].key = "documents") /\ Launch(i, k)
    /\ UNCHANGED <<next, closed, gate, waker, replies, settled, ownerVars, wakeVars, taken>>

(* fulfil and fail: the driver's answer goes through the tasks' channel.   *)
Answer(i) ==
    /\ owner = "busy" /\ driver = "connected" /\ IsHeld(i)
    /\ task' = [task EXCEPT ![i] = Over("ended")]
    /\ replies' = [replies EXCEPT ![i] = @ + 1]
    /\ UNCHANGED <<next, poolVars, settled, ownerVars, wakeVars, taken>>

(* The connection ends: the gate is lifted and all it held is failed.      *)
Disconnect ==
    /\ owner = "asleep" /\ driver = "connected"
    /\ driver' = "away" /\ gate' = FALSE
    /\ task' = [i \in Requests |-> IF IsHeld(i) THEN Over("ended") ELSE task[i]]
    /\ replies' = [i \in Requests |-> IF IsHeld(i) THEN replies[i] + 1 ELSE replies[i]]
    /\ UNCHANGED <<next, lanes, closed, running, waker, settled, owner, inbox, wanted, wakeVars, taken>>
-----------------------------------------------------------------------------
(* The end *)

(* shutdown and drop: the waker goes and the lanes close...                *)
Close_LeavesLanes ==
    /\ owner \in {"asleep", "busy"}
    /\ waker' = FALSE
    /\ owner' = "closing"
    /\ UNCHANGED <<next, lanes, closed, running, gate, task, replies, settled, inbox, wanted, driver, wakeVars, taken>>

Close ==
    /\ owner \in {"asleep", "busy"}
    /\ waker' = FALSE /\ closed' = TRUE
    /\ owner' = "closing"
    /\ UNCHANGED <<next, lanes, running, gate, task, replies, settled, inbox, wanted, driver, wakeVars, taken>>

(* ... before every task is aborted, and a window waits for them to end,   *)
(* while the drop of a driver's pool takes the channel along.              *)
AbortAll ==
    /\ owner = "closing"
    /\ task' = [i \in Requests |->
                 IF task[i].at \in Live THEN [task[i] EXCEPT !.aborted = TRUE]
                 ELSE IF IsHeld(i) /\ driver # "none" THEN Over("dropped") ELSE task[i]]
    /\ owner' = IF driver = "none" THEN "aborting" ELSE "stopped"
    /\ replies' = IF driver = "none" THEN replies ELSE [i \in Requests |-> 0]
    /\ UNCHANGED <<next, poolVars, settled, inbox, wanted, driver, wakeVars, taken>>

Drained ==
    /\ replies' = [i \in Requests |-> 0]
    /\ running' = {}
    /\ task' = [i \in Requests |-> IF IsHeld(i) THEN Over("dropped") ELSE task[i]]
    /\ owner' = "stopped"
    /\ UNCHANGED <<next, lanes, closed, gate, waker, settled, inbox, wanted, driver, wakeVars, taken>>

Joined_AtOnce == owner = "aborting" /\ Drained

Joined ==
    /\ owner = "aborting"
    /\ \A i \in Requests : task[i].at \notin Live
    /\ Drained

Stopped ==
    /\ owner = "stopped"
    /\ \A i \in Requests : task[i].at \notin Live
    /\ UNCHANGED vars

OwnerStep ==
    \/ Fetch \/ (\E i \in Requests : Cancel(i))
    \/ TakeWake \/ TimerFallsDue \/ ClearPending \/ Turn \/ Poll
    \/ (\E i \in Requests : Receive(i)) \/ Rest
    \/ Connect \/ SetGate \/ (\E i \in Requests : Resume(i) \/ Answer(i)) \/ Disconnect
    \/ Close \/ AbortAll \/ Joined

Next == OwnerStep \/ (\E i \in Requests : TaskStep(i)) \/ Stopped

Spec == Init /\ [][Next]_vars
-----------------------------------------------------------------------------
(* The runtime polls what can go on, and a transport that is not cancelled *)
(* ends, at the latest by its timeout. The owner finishes what it began    *)
(* and takes the commands that come; a connected driver's loop turns.      *)
(* Nobody has to navigate, cancel, answer for a driver or close.           *)
TransportEnds(i) == ~task[i].aborted /\ Finish(i)

Fairness ==
    /\ \A i \in Requests :
        /\ WF_vars(FirstPoll(i) \/ DropUnpolled(i) \/ Unwind(i) \/ Tell(i) \/ ReadWaker(i) \/ Wake(i))
        /\ WF_vars(Acquire(i))
        /\ WF_vars(TransportEnds(i))
        /\ WF_vars(Receive(i))
    /\ WF_vars(TakeWake) /\ WF_vars(ClearPending) /\ WF_vars(Poll) /\ WF_vars(Rest)
    /\ WF_vars(driver = "connected" /\ Turn)
    /\ WF_vars(AbortAll) /\ WF_vars(Joined)

FairSpec == Spec /\ Fairness
-----------------------------------------------------------------------------
(* Every request asked for is in exactly one place: held for the driver,   *)
(* with a task that owes its reply, answered once in the channel or to the *)
(* owner, or given up. No request is answered twice, and only a cancelled  *)
(* one not at all (FetchCompletion, cancel, resume, fail, the held limit). *)
Places(i) ==
    (IF task[i].at \in Owing \cup {"held", "dropped"} THEN 1 ELSE 0) + replies[i] + taken[i]

OnePlace == owner # "stopped" => \A i \in 1..next : Places(i) = 1

(* A load never waits for a request that nothing will answer: the cancel   *)
(* of one load, an overfull gate or a driver that leaves takes no reply    *)
(* from another load.                                                      *)
NobodyWaitsInVain ==
    owner \notin Teardown =>
        \A i \in wanted : IsHeld(i) \/ task[i].at \in Owing \/ replies[i] > 0 \/ i \in inbox

(* A reply in a window's channel does not lie there unseen: a Wake is on   *)
(* its way, the owner is about to poll, or the task is about to wake it.   *)
ReplyAnnounced ==
    (waker /\ \E i \in Requests : replies[i] > 0) =>
        \/ wakes > 0
        \/ owner \in {"woken", "busy"}
        \/ \E i \in Requests : task[i].at \in {"sent", "waking"}

(* At most FETCH_CONCURRENCY transports of one lane run at once, over all  *)
(* the semaphores that the sweep lets one host have in turn.               *)
LaneLimit == \A k \in Keys : Cardinality({i \in Requests : task[i].at = "wire" /\ task[i].key = k}) <= Permits

(* Aborting the pool gives back permits, and no queued transport starts on *)
(* one of them (close before abort, Drop for Fetcher).                     *)
NoTransportStarts == \A i \in Requests : task[i].at # "wire" => task'[i].at # "wire"
NoStartInTeardown == [][(owner \in {"aborting", "stopped"}) => NoTransportStarts]_vars

(* After a window's shutdown nothing of the pool is left: no task, no      *)
(* reply, and so no wake of a loop that has gone.                          *)
QuietAfterShutdown ==
    (owner = "stopped" /\ driver = "none") =>
        \A i \in Requests : task[i].at \in {"none", "ended", "dropped"} /\ replies[i] = 0

(* A load's request that no driver holds is answered or given up, unless   *)
(* the pool is taken down or a driver's session waits for its next client. *)
Answered ==
    \A i \in Requests :
        (i \in wanted /\ ~IsHeld(i)) ~> (i \notin wanted \/ owner = "stopped" \/ driver = "away")
=============================================================================
