--------------------------- MODULE FetcherProofs ---------------------------
(***************************************************************************)
(* Proofs about Fetcher for every number of requests, hosts and permits.   *)
(* The invariant is built in layers: what the variables hold, where each   *)
(* request's one reply is, what the owner's phases imply, and from those   *)
(* that loads are answered, replies announced and lanes kept to their size. *)
(***************************************************************************)
EXTENDS Fetcher, FiniteSetTheorems, WellFoundedInduction, TLAPS

(* TypeOK before it is known that a request has but one reply.             *)
Typed ==
    /\ next \in Nat /\ next <= MaxRequests
    /\ lanes \in [Hosts -> 0..MaxRequests]
    /\ closed \in BOOLEAN /\ gate \in BOOLEAN /\ waker \in BOOLEAN
    /\ running \subseteq Requests /\ settled \subseteq Requests
    /\ task \in [Requests -> Task]
    /\ replies \in [Requests -> Nat] /\ taken \in [Requests -> Nat]
    /\ owner \in Phases /\ driver \in {"none", "connected", "away"}
    /\ inbox \subseteq Requests /\ wanted \subseteq Requests
    /\ wake_pending \in BOOLEAN /\ wakes \in Nat

LEMMA OverIsTask == \A stage \in Stages : Over(stage) \in Task
BY LimitAssumption DEF Over, Task, Stages, Keys

LEMMA KeyedIsTask ==
    ASSUME NEW stage \in Stages, NEW k \in Keys
    PROVE  [Over(stage) EXCEPT !.key = k] \in Task
BY OverIsTask DEF Task

(* Whatever the sweep does, a launch leaves a lane in the table for its    *)
(* host and a task that has it.                                            *)
LEMMA LaunchTyped ==
    ASSUME Typed, NEW i \in Requests, NEW k \in Keys, Launch(i, k)
    PROVE  /\ lanes' \in [Hosts -> 0..MaxRequests]
           /\ task' \in [Requests -> Task]
           /\ running' \subseteq Requests
<1>1. Swept \in [Hosts -> 0..MaxRequests]
  <2>1. [h \in Hosts |-> IF Shared(lanes[h]) THEN lanes[h] ELSE 0] \in [Hosts -> 0..MaxRequests]
    BY LimitAssumption DEF Typed
  <2> QED BY <2>1 DEF Typed, Swept
<1>2. running' \subseteq Requests
  BY DEF Launch, Typed
<1>3. CASE k = "documents"
  <2>1. [Over("spawned") EXCEPT !.key = k] \in Task
    BY KeyedIsTask DEF Stages
  <2> QED BY <1>2, <1>3, <2>1 DEF Launch, Typed
<1>4. CASE k # "documents"
  <2>1. k \in Hosts
    BY <1>4 DEF Keys
  <2>2. lanes' = [Swept EXCEPT ![k] = IF Swept[k] = 0 THEN i ELSE Swept[k]]
    BY <1>4 DEF Launch
  <2>3. i \in 0..MaxRequests /\ Swept[k] \in 0..MaxRequests
    BY <1>1, <2>1, LimitAssumption DEF Requests
  <2>4. lanes' \in [Hosts -> 0..MaxRequests]
    BY <1>1, <2>2, <2>3
  <2>5. [Over("spawned") EXCEPT !.key = k, !.lane = lanes'[k]] \in Task
    BY <2>1, <2>4 DEF Task, Over, Stages
  <2> QED BY <1>2, <1>4, <2>4, <2>5 DEF Launch, Typed
<1> QED BY <1>3, <1>4

LEMMA InitTyped == Init => Typed
<1> SUFFICES ASSUME Init PROVE Typed
  OBVIOUS
<1>1. waker \in BOOLEAN
  BY Zenon DEF Init
<1>2. task \in [Requests -> Task]
  <2>1. Over("none") \in Task
    BY OverIsTask DEF Stages
  <2> QED BY <2>1 DEF Init
<1>3. driver \in {"none", "connected", "away"}
  BY DEF Init
<1>4. next \in Nat /\ next <= MaxRequests /\ lanes \in [Hosts -> 0..MaxRequests]
  BY LimitAssumption DEF Init
<1>5. /\ closed = FALSE /\ gate = FALSE /\ running = {} /\ settled = {} /\ inbox = {}
      /\ wanted = {} /\ owner = "asleep" /\ wake_pending = FALSE /\ wakes = 0
      /\ replies \in [Requests -> Nat] /\ taken \in [Requests -> Nat]
  BY DEF Init
<1> QED
  BY <1>1, <1>2, <1>3, <1>4, <1>5 DEF Typed, Phases

LEMMA StepTyped == Typed /\ [Next]_vars => Typed'
<1> SUFFICES ASSUME Typed, [Next]_vars PROVE Typed'
  OBVIOUS
<1> USE DEF Idle, Unpolled, vars, poolVars, ownerVars, wakeVars
<1>1. CASE Fetch
  <2>1. PICK k \in Keys : Send(k) \/ Hold(k)
    BY <1>1 DEF Fetch
  <2>2. next + 1 \in Requests
    BY <1>1, LimitAssumption DEF Fetch, Typed, Requests
  <2>5. next' \in Nat /\ next' <= MaxRequests
    BY <1>1, LimitAssumption DEF Fetch, Typed
  <2>6. /\ wanted' \subseteq Requests
        /\ UNCHANGED <<closed, gate, waker, settled, owner, inbox, driver, wakeVars, taken>>
    BY <1>1, <2>2 DEF Fetch, Typed
  <2>3. CASE Send(k)
    <3>1. Launch(next + 1, k) /\ UNCHANGED replies
      BY <2>3 DEF Send
    <3> QED BY <2>5, <2>6, <2>2, <3>1, LaunchTyped DEF Typed
  <2>4. CASE Hold(k)
    <3>1. [Over("held") EXCEPT !.key = k] \in Task
      BY KeyedIsTask DEF Stages
    <3>2. task' \in [Requests -> Task]
      <4>1. Over("ended") \in Task
        BY OverIsTask DEF Stages
      <4> QED BY <2>2, <2>4, <3>1, <4>1 DEF Hold, Typed
    <3>3. replies' \in [Requests -> Nat]
      BY <2>4 DEF Hold, Typed
    <3> QED BY <2>5, <2>6, <2>4, <3>2, <3>3 DEF Hold, Typed
  <2> QED BY <2>1, <2>3, <2>4
<1>2. ASSUME NEW i \in Requests, Cancel(i) PROVE Typed'
  <2>1. task' \in [Requests -> Task]
    <3>1. Over("dropped") \in Task
      BY OverIsTask DEF Stages
    <3>2. [task[i] EXCEPT !.aborted = TRUE] \in Task
      BY DEF Typed, Task
    <3> QED BY <1>2, <3>1, <3>2 DEF Cancel, Typed
  <2> QED BY <1>2, <2>1 DEF Cancel, Typed
<1>3. ASSUME NEW i \in Requests, TaskStep(i) PROVE Typed'
  <2>0. Over("dropped") \in Task /\ Over("ended") \in Task
    BY OverIsTask DEF Stages
  <2>1. CASE FirstPoll(i) BY <2>1 DEF FirstPoll, Typed, Task, Stages
  <2>2. CASE DropUnpolled(i) BY <2>0, <2>2 DEF DropUnpolled, Typed
  <2>3. CASE Acquire(i) BY <2>3 DEF Acquire, Typed, Task, Stages
  <2>4. CASE Finish(i)
    <3>1. [task[i] EXCEPT !.at = "sent"] \in Task
      BY DEF Typed, Task, Stages
    <3> QED BY <2>0, <2>4, <3>1 DEF Finish, Reply, Typed
  <2>5. CASE Unwind(i) BY <2>5 DEF Unwind, Typed, Task, Stages
  <2>6. CASE Panic(i) BY <2>6 DEF Panic, Typed, Task, Stages
  <2>7. CASE Tell(i)
    <3>1. [task[i] EXCEPT !.at = "sent"] \in Task
      BY DEF Typed, Task, Stages
    <3> QED BY <2>0, <2>7, <3>1 DEF Tell, Reply, Typed
  <2>8. CASE ReadWaker(i)
    <3>1. [task[i] EXCEPT !.at = "waking"] \in Task
      BY DEF Typed, Task, Stages
    <3> QED BY <2>0, <2>8, <3>1 DEF ReadWaker, Typed
  <2>9. CASE Wake(i) BY <2>0, <2>9 DEF Wake, Typed
  <2> QED BY <1>3, <2>1, <2>2, <2>3, <2>4, <2>5, <2>6, <2>7, <2>8, <2>9 DEF TaskStep
<1>4. CASE TakeWake BY <1>4 DEF TakeWake, Typed, Phases
<1>5. CASE TimerFallsDue BY <1>5 DEF TimerFallsDue, Typed, Phases
<1>6. CASE ClearPending BY <1>6 DEF ClearPending, Typed, Phases
<1>7. CASE Turn BY <1>7 DEF Turn, Typed, Phases
<1>8. CASE Poll BY <1>8 DEF Poll, Typed, Phases
<1>9. ASSUME NEW i \in Requests, Receive(i) PROVE Typed'
  BY <1>9 DEF Receive, Typed
<1>10. CASE Rest BY <1>10 DEF Rest, Typed, Phases
<1>11. CASE Connect BY <1>11 DEF Connect, Typed
<1>12. CASE SetGate
  <2>1. gate' \in BOOLEAN
    BY <1>12, Zenon DEF SetGate
  <2> QED BY <1>12, <2>1 DEF SetGate, Typed
<1>13. ASSUME NEW i \in Requests, Resume(i) PROVE Typed'
  BY <1>13, LaunchTyped DEF Resume, Typed
<1>14. ASSUME NEW i \in Requests, Answer(i) PROVE Typed'
  BY <1>14, OverIsTask DEF Answer, Typed, Stages
<1>15. CASE Disconnect
  <2>1. Over("ended") \in Task
    BY OverIsTask DEF Stages
  <2>2. task' \in [Requests -> Task]
    BY <1>15, <2>1 DEF Disconnect, Typed
  <2>3. replies' \in [Requests -> Nat]
    BY <1>15 DEF Disconnect, Typed
  <2> QED BY <1>15, <2>2, <2>3 DEF Disconnect, Typed
<1>16. CASE Close BY <1>16 DEF Close, Typed, Phases
<1>17. CASE AbortAll
  <2>1. \A i \in Requests : [task[i] EXCEPT !.aborted = TRUE] \in Task
    BY DEF Typed, Task
  <2> QED BY <1>17, <2>1, OverIsTask DEF AbortAll, Typed, Phases, Stages
<1>18. CASE Joined BY <1>18, OverIsTask DEF Joined, Drained, Typed, Phases, Stages
<1>19. CASE Stopped \/ UNCHANGED vars BY <1>19 DEF Stopped, Typed
<1> QED
  BY <1>1, <1>2, <1>3, <1>4, <1>5, <1>6, <1>7, <1>8, <1>9, <1>10, <1>11, <1>12,
     <1>13, <1>14, <1>15, <1>16, <1>17, <1>18, <1>19 DEF Next, OwnerStep
-----------------------------------------------------------------------------
(* Where the one reply of each request is. What has not been asked for has *)
(* no trace, and the sum of Places needs both of its terms.                *)
OneReply ==
    \A i \in Requests :
        /\ i > next => task[i].at = "none" /\ replies[i] = 0 /\ taken[i] = 0 /\ i \notin wanted
        /\ i <= next => task[i].at # "none"
        /\ replies[i] + taken[i] <= 1
        /\ (owner # "stopped" /\ i <= next) => Places(i) = 1

(* The held limit fails a request that is held.                            *)
LEMMA OldestIsIn ==
    ASSUME NEW S \in SUBSET Nat, S # {}
    PROVE  Oldest(S) \in S
<1>1. PICK m \in S : \A j \in S : ~(<<j, m>> \in OpToRel(<, Nat))
  BY NatLessThanWellFounded, WFMin, Zenon
<1>2. \A j \in S : m <= j
  <2> TAKE j \in S
  <2>1. j \in Nat /\ m \in Nat
    OBVIOUS
  <2>2. ~(j < m)
    BY <1>1, <2>1 DEF OpToRel
  <2> QED BY <2>1, <2>2
<1> QED BY <1>2 DEF Oldest

LEMMA FailedIsHeld ==
    ASSUME Cardinality(HeldNow) >= HeldLimit
    PROVE  Oldest(HeldNow) \in Requests /\ IsHeld(Oldest(HeldNow))
<1>1. HeldNow # {}
  BY FS_EmptySet, LimitAssumption
<1>2. HeldNow \in SUBSET Nat
  BY DEF HeldNow, Requests
<1>3. Oldest(HeldNow) \in HeldNow
  BY <1>1, <1>2, OldestIsIn
<1> QED BY <1>3 DEF HeldNow

(* What a launch does to the tasks: one begins, the others go on.          *)
LEMMA LaunchBegins ==
    ASSUME Typed, NEW i \in Requests, NEW k \in Keys, Launch(i, k)
    PROVE  /\ task' = [task EXCEPT ![i] = task'[i]]
           /\ task'[i].at = "spawned" /\ task'[i].key = k
           /\ task'[i].permit = FALSE /\ task'[i].aborted = FALSE
           /\ task'[i].lane = IF k = "documents" THEN 0 ELSE lanes'[k]
           /\ running' = running \cup {i}
<1>1. CASE k = "documents"
  <2> DEFINE new == [Over("spawned") EXCEPT !.key = k]
  <2>1. task' = [task EXCEPT ![i] = new]
    BY <1>1 DEF Launch
  <2>2. task'[i] = new
    BY <2>1 DEF Typed
  <2> QED BY <1>1, <2>1, <2>2 DEF Launch, Over
<1>2. CASE k # "documents"
  <2> DEFINE new == [Over("spawned") EXCEPT !.key = k, !.lane = lanes'[k]]
  <2>1. task' = [task EXCEPT ![i] = new]
    BY <1>2 DEF Launch
  <2>2. task'[i] = new
    BY <2>1 DEF Typed
  <2> QED BY <1>2, <2>1, <2>2 DEF Launch, Over
<1> QED BY <1>1, <1>2

(* What a step of a task does to its place and its reply.                  *)
LEMMA TaskStepEffect ==
    ASSUME Typed, NEW i \in Requests, TaskStep(i)
    PROVE  /\ UNCHANGED <<next, lanes, closed, running, gate, waker, settled, owner, inbox, wanted, driver, taken>>
           /\ \A j \in Requests : j # i => task'[j] = task[j] /\ replies'[j] = replies[j]
           /\ \/ task[i].at \in Owing /\ task'[i].at \in Owing /\ replies'[i] = replies[i]
              \/ task[i].at = "spawned" /\ task[i].aborted /\ task'[i].at = "dropped" /\ replies'[i] = replies[i]
              \/ /\ task[i].at \in Owing /\ task'[i].at = "sent"
                 /\ owner # "stopped" /\ replies'[i] = replies[i] + 1
              \/ /\ task[i].at \in Owing /\ task'[i].at = "ended"
                 /\ owner = "stopped" /\ replies'[i] = replies[i]
              \/ /\ task[i].at \in {"sent", "waking"} /\ task'[i].at \in {"waking", "ended"}
                 /\ replies'[i] = replies[i]
<1> USE DEF Unpolled, poolVars, ownerVars, Owing
<1>1. CASE FirstPoll(i) BY <1>1 DEF FirstPoll, Typed
<1>2. CASE DropUnpolled(i) BY <1>2 DEF DropUnpolled, Typed, Over
<1>3. CASE Acquire(i) BY <1>3 DEF Acquire, Typed
<1>4. CASE Finish(i) BY <1>4 DEF Finish, Reply, Typed, Over, Task
<1>5. CASE Unwind(i) BY <1>5 DEF Unwind, Unwinds, Typed
<1>6. CASE Panic(i) BY <1>6 DEF Panic, Typed
<1>7. CASE Tell(i) BY <1>7 DEF Tell, Reply, Typed, Over, Task
<1>8. CASE ReadWaker(i) BY <1>8 DEF ReadWaker, Typed, Over, Task
<1>9. CASE Wake(i) BY <1>9 DEF Wake, Typed, Over
<1> QED BY <1>1, <1>2, <1>3, <1>4, <1>5, <1>6, <1>7, <1>8, <1>9 DEF TaskStep

LEMMA InitOneReply == Init => OneReply
BY LimitAssumption DEF Init, OneReply, Over, Requests

LEMMA StepOneReply == Typed /\ OneReply /\ [Next]_vars => OneReply'
<1> SUFFICES ASSUME Typed, OneReply, [Next]_vars PROVE OneReply'
  OBVIOUS
<1> USE DEF Idle, Unpolled, vars, poolVars, ownerVars, wakeVars
<1> USE DEF Places, Owing, IsHeld
<1>0. /\ next \in Nat
      /\ \A i \in Requests : i \in Nat /\ replies[i] \in Nat /\ taken[i] \in Nat
  BY DEF Typed, Requests
<1>1. CASE Fetch
  <2>1. PICK k \in Keys : Send(k) \/ Hold(k)
    BY <1>1 DEF Fetch
  <2>2. next + 1 \in Requests
    BY <1>1, LimitAssumption DEF Fetch, Typed, Requests
  <2>3. /\ next' = next + 1 /\ wanted' = wanted \cup {next + 1} /\ taken' = taken
        /\ owner' = owner /\ owner # "stopped"
    BY <1>1 DEF Fetch
  <2>4. CASE Send(k)
    <3>1. Launch(next + 1, k) /\ replies' = replies
      BY <2>4 DEF Send
    <3>2. /\ task' = [task EXCEPT ![next + 1] = task'[next + 1]]
          /\ task'[next + 1].at = "spawned"
      BY <2>2, <3>1, LaunchBegins
    <3>3. \A i \in Requests : i # next + 1 => task'[i] = task[i]
      BY <2>2, <3>2 DEF Typed
    <3> QED BY <1>0, <2>2, <2>3, <3>1, <3>2, <3>3 DEF OneReply
  <2>5. CASE Hold(k)
    <3> DEFINE oldest == Oldest(HeldNow)
    <3>1. CASE Cardinality(HeldNow) >= HeldLimit
      <4>1. oldest \in Requests /\ task[oldest].at = "held"
        BY <3>1, FailedIsHeld
      <4>2. oldest # next + 1
        BY <1>0, <2>2, <4>1 DEF OneReply
      <4>3. /\ task'[next + 1].at = "held" /\ task'[oldest].at = "ended"
            /\ \A i \in Requests : i \notin {oldest, next + 1} => task'[i] = task[i]
        BY <2>2, <2>5, <3>1, <4>1, <4>2 DEF Hold, Typed, Over
      <4>4. /\ replies'[oldest] = replies[oldest] + 1
            /\ \A i \in Requests : i # oldest => replies'[i] = replies[i]
        BY <2>5, <3>1, <4>1 DEF Hold, Typed
      <4> QED BY <1>0, <2>2, <2>3, <4>1, <4>2, <4>3, <4>4 DEF OneReply
    <3>2. CASE ~(Cardinality(HeldNow) >= HeldLimit)
      <4>1. /\ task'[next + 1].at = "held" /\ replies' = replies
            /\ \A i \in Requests : i # next + 1 => task'[i] = task[i]
        BY <2>2, <2>5, <3>2 DEF Hold, Typed, Over
      <4> QED BY <1>0, <2>2, <2>3, <4>1 DEF OneReply
    <3> QED BY <3>1, <3>2
  <2> QED BY <2>1, <2>4, <2>5
<1>2. ASSUME NEW i \in Requests, Cancel(i) PROVE OneReply'
  <2>1. /\ task[i].at = "held" => task'[i].at = "dropped"
        /\ task[i].at # "held" => task'[i].at = task[i].at
        /\ \A j \in Requests : j # i => task'[j] = task[j]
    BY <1>2 DEF Cancel, Typed, Over, Task
  <2>2. /\ wanted' = wanted \ {i} /\ next' = next /\ replies' = replies /\ taken' = taken
        /\ owner' = owner
    BY <1>2 DEF Cancel
  <2> QED BY <1>0, <2>1, <2>2 DEF OneReply
<1>3. ASSUME NEW i \in Requests, TaskStep(i) PROVE OneReply'
  BY <1>0, <1>3, TaskStepEffect DEF OneReply
<1>4. CASE TakeWake \/ TimerFallsDue \/ ClearPending \/ Turn \/ Rest \/ Connect \/ SetGate \/ Close
  BY <1>0, <1>4 DEF TakeWake, TimerFallsDue, ClearPending, Turn, Rest, Connect, SetGate, Close, OneReply
<1>5. CASE Poll
  <2>1. \A i \in Requests : taken'[i] = taken[i] + replies[i] /\ replies'[i] = 0
    BY <1>5 DEF Poll
  <2>2. task' = task /\ next' = next /\ wanted' = wanted /\ owner # "stopped"
    BY <1>5 DEF Poll
  <2> QED BY <1>0, <2>1, <2>2 DEF OneReply
<1>6. ASSUME NEW i \in Requests, Receive(i) PROVE OneReply'
  BY <1>0, <1>6 DEF Receive, OneReply
<1>7. ASSUME NEW i \in Requests, Resume(i) PROVE OneReply'
  <2>1. PICK k \in Keys : Launch(i, k)
    BY <1>7 DEF Resume
  <2>2. task' = [task EXCEPT ![i] = task'[i]] /\ task'[i].at = "spawned"
    BY <2>1, LaunchBegins
  <2>3. \A j \in Requests : j # i => task'[j] = task[j]
    BY <2>2 DEF Typed
  <2> QED BY <1>0, <1>7, <2>2, <2>3 DEF Resume, OneReply
<1>8. ASSUME NEW i \in Requests, Answer(i) PROVE OneReply'
  <2>1. /\ task'[i].at = "ended" /\ replies'[i] = replies[i] + 1
        /\ \A j \in Requests : j # i => task'[j] = task[j] /\ replies'[j] = replies[j]
    BY <1>8 DEF Answer, Typed, Over
  <2> QED BY <1>0, <1>8, <2>1 DEF Answer, OneReply
<1>9. CASE Disconnect
  <2>1. \A i \in Requests : IF task[i].at = "held"
          THEN task'[i].at = "ended" /\ replies'[i] = replies[i] + 1
          ELSE task'[i] = task[i] /\ replies'[i] = replies[i]
    BY <1>9 DEF Disconnect, Over
  <2> QED BY <1>0, <1>9, <2>1 DEF Disconnect, OneReply
<1>10. CASE AbortAll
  <2>1. \A i \in Requests : task[i].at # "held" => task'[i].at = task[i].at
    BY <1>10 DEF AbortAll, Typed, Task
  <2>2. \A i \in Requests : task[i].at = "held" => task'[i].at \in {"held", "dropped"}
    BY <1>10 DEF AbortAll, Over, Live
  <2>3. \A i \in Requests : replies'[i] = replies[i] \/ (owner' = "stopped" /\ replies'[i] = 0)
    BY <1>10 DEF AbortAll
  <2>4. taken' = taken /\ next' = next /\ wanted' = wanted /\ owner # "stopped"
    BY <1>10 DEF AbortAll
  <2>5. ASSUME NEW i \in Requests, owner' # "stopped"
        PROVE  task'[i].at = task[i].at /\ replies'[i] = replies[i]
    BY <1>10, <2>1, <2>5 DEF AbortAll
  <2> QED BY <1>0, <2>1, <2>2, <2>3, <2>4, <2>5 DEF OneReply
<1>11. CASE Joined
  <2>1. \A i \in Requests : /\ replies'[i] = 0
                            /\ task[i].at # "held" => task'[i] = task[i]
                            /\ task[i].at = "held" => task'[i].at = "dropped"
    BY <1>11 DEF Joined, Drained, Over
  <2>2. taken' = taken /\ next' = next /\ wanted' = wanted /\ owner' = "stopped"
    BY <1>11 DEF Joined, Drained
  <2> QED BY <1>0, <2>1, <2>2 DEF OneReply
<1>12. CASE Stopped \/ UNCHANGED vars BY <1>12 DEF Stopped, OneReply
<1> QED
  BY <1>1, <1>2, <1>3, <1>4, <1>5, <1>6, <1>7, <1>8, <1>9, <1>10, <1>11, <1>12
  DEF Next, OwnerStep

(* Every variable keeps to its values.                                     *)
THEOREM TypeCorrect == Spec => []TypeOK
<1>1. Init => Typed /\ OneReply
  BY InitTyped, InitOneReply
<1>2. Typed /\ OneReply /\ [Next]_vars => (Typed /\ OneReply)'
  BY StepTyped, StepOneReply
<1>3. Typed /\ OneReply => TypeOK
  <2> SUFFICES ASSUME Typed, OneReply PROVE TypeOK
    OBVIOUS
  <2>1. \A i \in Requests : replies[i] \in 0..1 /\ taken[i] \in 0..1
    <3> TAKE i \in Requests
    <3>1. replies[i] \in Nat /\ taken[i] \in Nat /\ replies[i] + taken[i] <= 1
      BY DEF Typed, OneReply
    <3> QED BY <3>1
  <2>2. replies \in [Requests -> 0..1] /\ taken \in [Requests -> 0..1]
    BY <2>1 DEF Typed
  <2>3. next \in 0..MaxRequests
    BY LimitAssumption DEF Typed
  <2> QED BY <2>2, <2>3 DEF Typed, TypeOK
<1> QED BY <1>1, <1>2, <1>3, PTL DEF Spec

(* No request is ever answered twice, and none but a cancelled one not at  *)
(* all.                                                                    *)
THEOREM EachIsInOnePlace == Spec => []OnePlace
<1>1. Init => Typed /\ OneReply
  BY InitTyped, InitOneReply
<1>2. Typed /\ OneReply /\ [Next]_vars => (Typed /\ OneReply)'
  BY StepTyped, StepOneReply
<1>3. Typed /\ OneReply => OnePlace
  <2>1. Typed => \A i \in 1..next : i \in Requests /\ i <= next
    BY LimitAssumption DEF Typed, Requests
  <2> QED BY <2>1 DEF OneReply, OnePlace
<1> QED BY <1>1, <1>2, <1>3, PTL DEF Spec
-----------------------------------------------------------------------------
(* What the owner's phases imply: no waker and closed lanes from the first *)
(* step of the end, nothing but what is over at a window's last.           *)
Phased ==
    /\ owner \in Teardown => ~waker /\ closed
    /\ waker => driver = "none"
    /\ driver = "none" => ~gate
    /\ QuietAfterShutdown

LEMMA InitPhased == Init => Phased
BY DEF Init, Phased, Teardown, QuietAfterShutdown

LEMMA StepPhased == Typed /\ Phased /\ [Next]_vars => Phased'
<1> SUFFICES ASSUME Typed, Phased, [Next]_vars PROVE Phased'
  OBVIOUS
<1> USE DEF Idle, vars, poolVars, ownerVars, wakeVars, Phased, Teardown, QuietAfterShutdown
<1>1. CASE Fetch BY <1>1 DEF Fetch
<1>2. ASSUME NEW i \in Requests, Cancel(i) PROVE Phased'
  BY <1>2 DEF Cancel
<1>3. ASSUME NEW i \in Requests, TaskStep(i) PROVE Phased'
  BY <1>3, TaskStepEffect DEF Owing
<1>4. CASE TakeWake \/ TimerFallsDue \/ ClearPending \/ Turn \/ Poll \/ Rest
  BY <1>4 DEF TakeWake, TimerFallsDue, ClearPending, Turn, Poll, Rest
<1>5. ASSUME NEW i \in Requests, Receive(i) PROVE Phased'
  BY <1>5 DEF Receive
<1>6. CASE Connect BY <1>6 DEF Connect
<1>7. CASE SetGate BY <1>7 DEF SetGate
<1>8. ASSUME NEW i \in Requests, Resume(i) \/ Answer(i) PROVE Phased'
  BY <1>8 DEF Resume, Answer
<1>9. CASE Disconnect BY <1>9 DEF Disconnect
<1>10. CASE Close BY <1>10 DEF Close
<1>11. CASE AbortAll BY <1>11 DEF AbortAll
<1>12. CASE Joined
  <2>1. \A i \in Requests : task'[i].at \in {"none", "ended", "dropped"} /\ replies'[i] = 0
    BY <1>12 DEF Joined, Drained, Typed, Task, Stages, Live, Over, IsHeld
  <2> QED BY <1>12, <2>1 DEF Joined, Drained
<1>13. CASE Stopped \/ UNCHANGED vars BY <1>13 DEF Stopped
<1> QED
  BY <1>1, <1>2, <1>3, <1>4, <1>5, <1>6, <1>7, <1>8, <1>9, <1>10, <1>11, <1>12, <1>13
  DEF Next, OwnerStep

(* A window that has shut its pool down leaves no task, no reply and no    *)
(* wake behind.                                                            *)
THEOREM ShutdownIsQuiet == Spec => []QuietAfterShutdown
<1>1. Init => Typed /\ Phased
  BY InitTyped, InitPhased
<1>2. Typed /\ Phased /\ [Next]_vars => (Typed /\ Phased)'
  BY StepTyped, StepPhased
<1>3. Phased => QuietAfterShutdown
  BY DEF Phased
<1> QED BY <1>1, <1>2, <1>3, PTL DEF Spec

(* Once the owner has begun to abort, no queued transport starts.          *)
THEOREM TeardownStartsNothing == Spec => NoStartInTeardown
<1> DEFINE A == (owner \in {"aborting", "stopped"}) => NoTransportStarts
<1>1. Init => Typed /\ Phased
  BY InitTyped, InitPhased
<1>2. Typed /\ Phased /\ [Next]_vars => (Typed /\ Phased)'
  BY StepTyped, StepPhased
<1>3. Typed /\ Phased /\ [Next]_vars => [A]_vars
  <2> SUFFICES ASSUME Typed, Phased, Next, owner \in {"aborting", "stopped"},
                      NEW i \in Requests, task[i].at # "wire"
               PROVE  task'[i].at # "wire"
    BY DEF NoTransportStarts
  <2> USE DEF vars
  <2>1. closed
    BY DEF Phased, Teardown
  <2>2. ASSUME NEW j \in Requests, TaskStep(j) PROVE task'[i].at # "wire"
    <3> USE DEF Typed, Over, Task
    <3>1. CASE FirstPoll(j) BY <3>1 DEF FirstPoll
    <3>2. CASE DropUnpolled(j) BY <3>2 DEF DropUnpolled
    <3>3. CASE Acquire(j) BY <2>1, <3>3 DEF Acquire
    <3>4. CASE Finish(j) BY <3>4 DEF Finish, Reply
    <3>5. CASE Unwind(j) BY <3>5 DEF Unwind
    <3>6. CASE Panic(j) BY <3>6 DEF Panic
    <3>7. CASE Tell(j) BY <3>7 DEF Tell, Reply
    <3>8. CASE ReadWaker(j) BY <3>8 DEF ReadWaker
    <3>9. CASE Wake(j) BY <3>9 DEF Wake
    <3> QED BY <2>2, <3>1, <3>2, <3>3, <3>4, <3>5, <3>6, <3>7, <3>8, <3>9 DEF TaskStep
  <2>3. CASE Joined BY <2>3 DEF Joined, Drained, Over
  <2>4. CASE Stopped BY <2>4 DEF Stopped
  <2>5. CASE OwnerStep /\ ~Joined
    BY <2>5 DEF OwnerStep, Fetch, Cancel, TakeWake, TimerFallsDue, ClearPending, Turn, Poll,
                Receive, Rest, Connect, SetGate, Resume, Answer, Disconnect, Close, AbortAll
  <2> QED BY <2>2, <2>3, <2>4, <2>5 DEF Next
<1> QED BY <1>1, <1>2, <1>3, PTL DEF Spec, NoStartInTeardown
-----------------------------------------------------------------------------
(* Loads: what is cancelled is wanted no more, and what is wanted is still *)
(* somewhere a reply comes from.                                           *)
Waits ==
    owner \notin Teardown =>
        \A i \in Requests :
            /\ i \in wanted =>
                  /\ ~task[i].aborted
                  /\ IsHeld(i) \/ task[i].at \in Owing \/ replies[i] > 0 \/ i \in inbox
            /\ (owner # "receiving") => i \notin inbox

LEMMA InitWaits == Init => Waits
BY DEF Init, Waits

LEMMA StepWaits == Typed /\ OneReply /\ Waits /\ [Next]_vars => Waits'
<1> SUFFICES ASSUME Typed, OneReply, Waits, [Next]_vars PROVE Waits'
  OBVIOUS
<1> USE DEF Idle, vars, poolVars, ownerVars, wakeVars, Owing, IsHeld
<1>0. /\ next \in Nat
      /\ \A i \in Requests : i \in Nat /\ replies[i] \in Nat
  BY DEF Typed, Requests
<1>1. CASE Fetch
  <2>1. PICK k \in Keys : Send(k) \/ Hold(k)
    BY <1>1 DEF Fetch
  <2>2. next + 1 \in Requests
    BY <1>1, LimitAssumption DEF Fetch, Typed, Requests
  <2>3. /\ wanted' = wanted \cup {next + 1} /\ inbox' = inbox
        /\ owner' = owner /\ owner \notin Teardown
    BY <1>1 DEF Fetch, Teardown
  <2>4. CASE Send(k)
    <3>1. Launch(next + 1, k) /\ replies' = replies
      BY <2>4 DEF Send
    <3>2. /\ task' = [task EXCEPT ![next + 1] = task'[next + 1]]
          /\ task'[next + 1].at = "spawned" /\ task'[next + 1].aborted = FALSE
      BY <2>2, <3>1, LaunchBegins
    <3>3. \A i \in Requests : i # next + 1 => task'[i] = task[i]
      BY <2>2, <3>2 DEF Typed
    <3> QED BY <1>0, <2>2, <2>3, <3>1, <3>2, <3>3 DEF Waits
  <2>5. CASE Hold(k)
    <3> DEFINE oldest == Oldest(HeldNow)
    <3>1. CASE Cardinality(HeldNow) >= HeldLimit
      <4>1. oldest \in Requests /\ task[oldest].at = "held"
        BY <3>1, FailedIsHeld
      <4>2. oldest # next + 1
        BY <1>0, <2>2, <4>1 DEF OneReply
      <4>3. /\ task'[next + 1].at = "held" /\ task'[next + 1].aborted = FALSE
            /\ task'[oldest].aborted = FALSE
            /\ \A i \in Requests : i \notin {oldest, next + 1} => task'[i] = task[i]
        BY <2>2, <2>5, <3>1, <4>1, <4>2 DEF Hold, Typed, Over
      <4>4. /\ replies'[oldest] = replies[oldest] + 1
            /\ \A i \in Requests : i # oldest => replies'[i] = replies[i]
        BY <2>5, <3>1, <4>1 DEF Hold, Typed
      <4> QED BY <1>0, <2>2, <2>3, <4>1, <4>2, <4>3, <4>4 DEF Waits
    <3>2. CASE ~(Cardinality(HeldNow) >= HeldLimit)
      <4>1. /\ task'[next + 1].at = "held" /\ task'[next + 1].aborted = FALSE /\ replies' = replies
            /\ \A i \in Requests : i # next + 1 => task'[i] = task[i]
        BY <2>2, <2>5, <3>2 DEF Hold, Typed, Over
      <4> QED BY <1>0, <2>2, <2>3, <4>1 DEF Waits
    <3> QED BY <3>1, <3>2
  <2> QED BY <2>1, <2>4, <2>5
<1>2. ASSUME NEW i \in Requests, Cancel(i) PROVE Waits'
  <2>1. \A j \in Requests : j # i => task'[j] = task[j]
    BY <1>2 DEF Cancel, Typed
  <2>2. /\ wanted' = wanted \ {i} /\ replies' = replies /\ inbox' = inbox
        /\ owner' = owner /\ owner \notin Teardown
    BY <1>2 DEF Cancel, Teardown
  <2> QED BY <2>1, <2>2 DEF Waits
<1>3. ASSUME NEW i \in Requests, TaskStep(i), owner \notin Teardown PROVE Waits'
  <2>1. i \in wanted => ~task'[i].aborted /\ ~task[i].aborted
    <3> SUFFICES ASSUME i \in wanted PROVE ~task'[i].aborted
      BY <1>3 DEF Waits
    <3>1. ~task[i].aborted
      BY <1>3 DEF Waits
    <3>2. task'[i].aborted = task[i].aborted \/ task'[i].aborted = FALSE
      BY <1>3 DEF TaskStep, FirstPoll, DropUnpolled, Acquire, Finish, Unwind, Panic, Tell, Reply,
                  ReadWaker, Wake, Over, Typed, Task
    <3> QED BY <3>1, <3>2
  <2> QED BY <1>0, <1>3, <2>1, TaskStepEffect DEF Waits, Teardown
<1>4. CASE owner \in Teardown
  <2>1. owner' \in Teardown
    <3>1. ASSUME NEW i \in Requests, TaskStep(i) PROVE owner' = owner
      BY <3>1, TaskStepEffect
    <3> QED
      BY <1>4, <3>1 DEF Teardown, Next, OwnerStep, Fetch, Cancel, TakeWake, TimerFallsDue,
        ClearPending, Turn, Poll, Receive, Rest, Connect, SetGate, Resume, Answer, Disconnect,
        Close, AbortAll, Joined, Drained, Stopped
  <2> QED BY <2>1 DEF Waits
<1>5. CASE TakeWake \/ TimerFallsDue \/ ClearPending \/ Turn \/ Rest \/ Connect \/ SetGate
  BY <1>5 DEF TakeWake, TimerFallsDue, ClearPending, Turn, Rest, Connect, SetGate, Waits, Teardown
<1>6. CASE Poll
  <2>1. /\ inbox' = {i \in Requests : replies[i] > 0}
        /\ task' = task /\ wanted' = wanted /\ owner' = "receiving" /\ owner = "busy"
    BY <1>6 DEF Poll
  <2> QED BY <2>1 DEF Waits, Teardown
<1>7. ASSUME NEW i \in Requests, Receive(i) PROVE Waits'
  BY <1>7 DEF Receive, Waits, Teardown
<1>8. ASSUME NEW i \in Requests, Resume(i) PROVE Waits'
  <2>1. PICK k \in Keys : Launch(i, k)
    BY <1>8 DEF Resume
  <2>2. /\ task' = [task EXCEPT ![i] = task'[i]]
        /\ task'[i].at = "spawned" /\ task'[i].aborted = FALSE
    BY <2>1, LaunchBegins
  <2>3. \A j \in Requests : j # i => task'[j] = task[j]
    BY <2>2 DEF Typed
  <2> QED BY <1>8, <2>2, <2>3 DEF Resume, Waits, Teardown
<1>9. ASSUME NEW i \in Requests, Answer(i) PROVE Waits'
  <2>1. /\ task'[i].aborted = FALSE /\ replies'[i] = replies[i] + 1
        /\ \A j \in Requests : j # i => task'[j] = task[j] /\ replies'[j] = replies[j]
    BY <1>9 DEF Answer, Typed, Over
  <2> QED BY <1>0, <1>9, <2>1 DEF Answer, Waits, Teardown
<1>10. CASE Disconnect
  <2>1. \A i \in Requests : IF task[i].at = "held"
          THEN task'[i].aborted = FALSE /\ replies'[i] = replies[i] + 1
          ELSE task'[i] = task[i] /\ replies'[i] = replies[i]
    BY <1>10 DEF Disconnect, Over
  <2> QED BY <1>0, <1>10, <2>1 DEF Disconnect, Waits, Teardown
<1>11. CASE Close \/ AbortAll \/ Joined
  BY <1>11 DEF Close, AbortAll, Joined, Drained, Waits, Teardown
<1>12. CASE Stopped \/ UNCHANGED vars BY <1>12 DEF Stopped, Waits
<1> QED
  BY <1>1, <1>2, <1>3, <1>4, <1>5, <1>6, <1>7, <1>8, <1>9, <1>10, <1>11, <1>12
  DEF Next, OwnerStep

(* No load waits for a reply that cannot come.                             *)
THEOREM SomethingWillAnswer == Spec => []NobodyWaitsInVain
<1>1. Init => Typed /\ OneReply /\ Waits
  BY InitTyped, InitOneReply, InitWaits
<1>2. Typed /\ OneReply /\ Waits /\ [Next]_vars => (Typed /\ OneReply /\ Waits)'
  BY StepTyped, StepOneReply, StepWaits
<1>3. Typed /\ Waits => NobodyWaitsInVain
  BY DEF Typed, Waits, NobodyWaitsInVain
<1> QED BY <1>1, <1>2, <1>3, PTL DEF Spec
-----------------------------------------------------------------------------
(* Wakes: a set wake_pending stands for a Wake command or an owner that    *)
(* has just taken one, so a task that finds it set may go.                 *)
Announced ==
    /\ ReplyAnnounced
    /\ wake_pending => (wakes > 0 \/ owner = "woken" \/ ~waker)

LEMMA InitAnnounced == Init => Announced
BY DEF Init, Announced, ReplyAnnounced

LEMMA StepAnnounced == Typed /\ OneReply /\ Phased /\ Announced /\ [Next]_vars => Announced'
<1> SUFFICES ASSUME Typed, OneReply, Phased, Announced, [Next]_vars, waker' PROVE Announced'
  BY DEF Announced, ReplyAnnounced
<1> USE DEF Idle, vars, poolVars, ownerVars, wakeVars, Announced, ReplyAnnounced
<1>0. /\ wakes \in Nat /\ wake_pending \in BOOLEAN
      /\ \A i \in Requests : replies[i] \in Nat
  BY DEF Typed
<1>1. ASSUME ~waker PROVE Announced'
  <2>1. ASSUME NEW i \in Requests, TaskStep(i) PROVE waker' = waker
    BY <2>1, TaskStepEffect
  <2>2. waker' = waker \/ waker' = FALSE
    BY <2>1 DEF Next, OwnerStep, Fetch, Cancel, TakeWake, TimerFallsDue, ClearPending, Turn, Poll,
                Receive, Rest, Connect, SetGate, Resume, Answer, Disconnect, Close, AbortAll,
                Joined, Drained, Stopped
  <2> QED BY <1>1, <2>2
<1>2. ASSUME waker PROVE driver = "none" /\ ~gate
  BY <1>2 DEF Phased
<1>3. ASSUME waker, Fetch PROVE Announced'
  <2>1. PICK k \in Keys : Send(k)
    BY <1>2, <1>3 DEF Fetch, Hold
  <2>2. next + 1 \in Requests
    BY <1>3, LimitAssumption DEF Fetch, Typed, Requests
  <2>3. Launch(next + 1, k) /\ replies' = replies
    BY <2>1 DEF Send
  <2>4. task' = [task EXCEPT ![next + 1] = task'[next + 1]]
    BY <2>2, <2>3, LaunchBegins
  <2>5. task[next + 1].at = "none"
    BY <2>2 DEF OneReply, Typed
  <2>6. \A j \in Requests : task[j].at \in {"sent", "waking"} => task'[j] = task[j]
    BY <2>2, <2>4, <2>5 DEF Typed
  <2> QED BY <1>3, <2>3, <2>6 DEF Fetch
<1>4. ASSUME NEW i \in Requests, Cancel(i) PROVE Announced'
  <2>1. \A j \in Requests : task[j].at \in {"sent", "waking"} => task'[j].at = task[j].at
    BY <1>4 DEF Cancel, Typed, IsHeld, Task
  <2> QED BY <1>4, <2>1 DEF Cancel
<1>5. ASSUME NEW i \in Requests, TaskStep(i) PROVE Announced'
  <2>0. owner' = owner /\ waker' = waker /\ waker
    BY <1>5, TaskStepEffect
  <2>1. CASE Finish(i) \/ Tell(i)
    <3>1. owner # "stopped"
      BY <2>0 DEF Phased, Teardown
    <3>2. task'[i].at = "sent"
      BY <2>1, <3>1 DEF Finish, Tell, Reply, Typed, Task
    <3>3. wakes' = wakes /\ wake_pending' = wake_pending
      BY <2>1 DEF Finish, Tell
    <3> QED BY <1>5, <2>0, <3>2, <3>3
  <2>2. CASE ReadWaker(i)
    <3>1. task' = [task EXCEPT ![i] = [task[i] EXCEPT !.at = "waking"]]
      BY <2>0, <2>2 DEF ReadWaker
    <3>2. task'[i].at = "waking"
      BY <3>1 DEF Typed, Task
    <3>3. wakes' = wakes /\ wake_pending' = wake_pending
      BY <2>2 DEF ReadWaker
    <3> QED BY <1>5, <2>0, <3>2, <3>3
  <2>3. CASE Wake(i)
    <3>1. wakes' > 0 \/ owner = "woken"
      <4>1. CASE wake_pending BY <1>0, <2>0, <2>3, <4>1 DEF Wake
      <4>2. CASE ~wake_pending
        <5>1. wakes' = wakes + 1
          BY <2>3, <4>2 DEF Wake
        <5> QED BY <1>0, <5>1
      <4> QED BY <4>1, <4>2
    <3> QED BY <2>0, <3>1
  <2>4. CASE FirstPoll(i) \/ DropUnpolled(i) \/ Acquire(i) \/ Unwind(i) \/ Panic(i)
    <3>1. \A j \in Requests : task[j].at \in {"sent", "waking"} => task'[j] = task[j]
      BY <2>4 DEF FirstPoll, DropUnpolled, Acquire, Unwind, Unwinds, Panic, Typed
    <3>2. replies' = replies /\ wakes' = wakes /\ wake_pending' = wake_pending
      BY <2>4 DEF FirstPoll, DropUnpolled, Acquire, Unwind, Panic
    <3> QED BY <2>0, <3>1, <3>2
  <2> QED BY <1>5, <2>1, <2>2, <2>3, <2>4 DEF TaskStep
<1>6. CASE TakeWake BY <1>6 DEF TakeWake
<1>7. CASE TimerFallsDue BY <1>7 DEF TimerFallsDue
<1>8. CASE ClearPending BY <1>8 DEF ClearPending
<1>9. CASE Turn BY <1>9 DEF Turn
<1>10. CASE Poll BY <1>10 DEF Poll
<1>11. ASSUME NEW i \in Requests, Receive(i) PROVE Announced'
  BY <1>11 DEF Receive
<1>12. CASE Rest BY <1>12 DEF Rest
<1>13. ASSUME waker, Connect \/ SetGate \/ Disconnect \/ (\E i \in Requests : Resume(i) \/ Answer(i))
       PROVE FALSE
  BY <1>2, <1>13 DEF Connect, SetGate, Disconnect, Resume, Answer
<1>14. ASSUME waker, Close \/ AbortAll \/ Joined PROVE FALSE
  BY <1>14 DEF Close, AbortAll, Joined, Phased, Teardown
<1>15. CASE Stopped \/ UNCHANGED vars
  <2>1. UNCHANGED vars
    BY <1>15 DEF Stopped
  <2> QED BY <2>1
<1> QED
  BY <1>1, <1>3, <1>4, <1>5, <1>6, <1>7, <1>8, <1>9, <1>10, <1>11, <1>12, <1>13, <1>14, <1>15
  DEF Next, OwnerStep

(* No reply lies in a window's channel without a Wake on its way.          *)
THEOREM RepliesAreAnnounced == Spec => []ReplyAnnounced
<1> DEFINE I == Typed /\ OneReply /\ Phased /\ Announced
<1>1. Init => I
  BY InitTyped, InitOneReply, InitPhased, InitAnnounced
<1>2. I /\ [Next]_vars => I'
  BY StepTyped, StepOneReply, StepPhased, StepAnnounced
<1>3. I => ReplyAnnounced
  BY DEF Announced
<1> QED BY <1>1, <1>2, <1>3, PTL DEF Spec
-----------------------------------------------------------------------------
(* Lanes: the tasks of a host all wait at the semaphore the table has for  *)
(* it, because the sweep leaves a lane that a task still has; no semaphore *)
(* serves two hosts; and each gave out no more than its permits.           *)
Laned ==
    /\ \A i \in Requests :
        /\ task[i].at = "wire" => task[i].permit
        /\ task[i].permit => task[i].at \in Live
        /\ (task[i].at \in Live /\ task[i].key \in Hosts) =>
              task[i].lane = lanes[task[i].key] /\ task[i].lane # 0
        /\ (task[i].at \in Live /\ task[i].key = "documents") => task[i].lane = 0
    /\ \A g, h \in Hosts : (lanes[g] = lanes[h] /\ lanes[g] # 0) => g = h
    /\ \A h \in Hosts : lanes[h] # 0 => task[lanes[h]].at \notin {"none", "held"}
    /\ \A l \in 0..MaxRequests : Cardinality(Users(l)) <= Permits

(* A step that begins no task and hands out no permit.                     *)
Gentle ==
    /\ lanes' = lanes
    /\ \A i \in Requests :
        /\ task'[i].at \in Live => /\ task[i].at \in Live
                                   /\ task'[i].key = task[i].key /\ task'[i].lane = task[i].lane
        /\ task'[i].permit => task[i].permit /\ task'[i].at \in Live
        /\ task'[i].at = "wire" => task'[i].permit
        /\ task[i].at \notin {"none", "held"} => task'[i].at \notin {"none", "held"}

LEMMA UsersFinite == \A l : IsFiniteSet(Users(l)) /\ Cardinality(Users(l)) \in Nat
<1> TAKE l
<1>1. IsFiniteSet(Requests)
  BY FS_Interval, LimitAssumption DEF Requests
<1>2. IsFiniteSet(Users(l))
  BY <1>1, FS_Subset DEF Users
<1> QED BY <1>2, FS_CardinalityType

LEMMA UsersShrink ==
    ASSUME NEW l,
           \A i \in Requests : (task'[i].permit /\ task'[i].lane = l) => (task[i].permit /\ task[i].lane = l),
           Cardinality(Users(l)) <= Permits
    PROVE  Cardinality(Users(l)') <= Permits
<1>1. Users(l)' \subseteq Users(l)
  BY DEF Users
<1>2. Cardinality(Users(l)') <= Cardinality(Users(l)) /\ Cardinality(Users(l)') \in Nat
  BY <1>1, UsersFinite, FS_Subset, FS_CardinalityType
<1> QED BY <1>2, UsersFinite, LimitAssumption

LEMMA GentleKeepsLanes ==
    ASSUME Typed, Laned, Gentle
    PROVE  Laned'
<1>1. \A h \in Hosts : lanes[h] # 0 => lanes[h] \in Requests
  BY LimitAssumption DEF Typed, Requests
<1>2. ASSUME NEW l \in 0..MaxRequests PROVE Cardinality(Users(l)') <= Permits
  <2>1. Cardinality(Users(l)) <= Permits
    BY DEF Laned
  <2>2. \A i \in Requests : (task'[i].permit /\ task'[i].lane = l) => (task[i].permit /\ task[i].lane = l)
    BY DEF Gentle
  <2> QED BY <2>1, <2>2, UsersShrink
<1>3. \A h \in Hosts : lanes'[h] # 0 => task'[lanes'[h]].at \notin {"none", "held"}
  BY <1>1 DEF Gentle, Laned
<1>4. \A g, h \in Hosts : (lanes'[g] = lanes'[h] /\ lanes'[g] # 0) => g = h
  BY DEF Gentle, Laned
<1>5. \A i \in Requests :
        /\ task'[i].at = "wire" => task'[i].permit
        /\ task'[i].permit => task'[i].at \in Live
        /\ (task'[i].at \in Live /\ task'[i].key \in Hosts) =>
              task'[i].lane = lanes'[task'[i].key] /\ task'[i].lane # 0
        /\ (task'[i].at \in Live /\ task'[i].key = "documents") => task'[i].lane = 0
  BY DEF Gentle, Laned
<1> QED BY <1>2, <1>3, <1>4, <1>5 DEF Laned

(* The lane of another task survives the sweep, and the one a new          *)
(* semaphore is named for had none before.                                 *)
LEMMA LaunchKeepsLanes ==
    ASSUME Typed, Laned, NEW i \in Requests, NEW k \in Keys, Launch(i, k),
           task[i].at \in {"none", "held"}
    PROVE  Laned'
<1>1. /\ task'[i].at = "spawned" /\ task'[i].key = k /\ task'[i].permit = FALSE
      /\ task'[i].lane = IF k = "documents" THEN 0 ELSE lanes'[k]
      /\ \A j \in Requests : j # i => task'[j] = task[j]
  <2>1. /\ task' = [task EXCEPT ![i] = task'[i]]
        /\ task'[i].at = "spawned" /\ task'[i].key = k /\ task'[i].permit = FALSE
        /\ task'[i].lane = IF k = "documents" THEN 0 ELSE lanes'[k]
    BY LaunchBegins
  <2>2. \A j \in Requests : j # i => task'[j] = task[j]
    BY <2>1 DEF Typed
  <2> QED BY <2>1, <2>2
<1>2. \A h \in Hosts : lanes[h] \in 0..MaxRequests /\ (lanes[h] # 0 => lanes[h] \in Requests)
  BY LimitAssumption DEF Typed, Requests
<1>3. i # 0 /\ \A h \in Hosts : lanes[h] # i
  BY <1>2 DEF Laned, Requests
<1>4. \A h \in Hosts : Swept[h] = lanes[h] \/ (Swept[h] = 0 /\ ~Shared(lanes[h]))
  BY DEF Swept
<1>5. \A h \in Hosts : \/ lanes'[h] = lanes[h]
                       \/ lanes'[h] = 0 /\ ~Shared(lanes[h])
                       \/ h = k /\ lanes'[h] = i /\ (~Shared(lanes[h]) \/ lanes[h] = 0)
  <2>1. CASE k = "documents" BY <2>1 DEF Launch
  <2>2. CASE k # "documents"
    <3>1. lanes' = [Swept EXCEPT ![k] = IF Swept[k] = 0 THEN i ELSE Swept[k]]
      BY <2>2 DEF Launch
    <3>2. Swept \in [Hosts -> 0..MaxRequests]
      <4>1. [h \in Hosts |-> IF Shared(lanes[h]) THEN lanes[h] ELSE 0] \in [Hosts -> 0..MaxRequests]
        BY LimitAssumption DEF Typed
      <4> QED BY <4>1 DEF Typed, Swept
    <3>3. \A h \in Hosts : lanes'[h] = IF h = k /\ Swept[h] = 0 THEN i ELSE Swept[h]
      BY <3>1, <3>2
    <3> QED BY <1>4, <3>3
  <2> QED BY <2>1, <2>2
<1>6. k # "documents" => k \in Hosts /\ lanes'[k] # 0
  <2> SUFFICES ASSUME k # "documents" PROVE k \in Hosts /\ lanes'[k] # 0
    OBVIOUS
  <2>1. k \in Hosts
    BY DEF Keys
  <2>2. lanes'[k] = IF Swept[k] = 0 THEN i ELSE Swept[k]
    <3>1. lanes' = [Swept EXCEPT ![k] = IF Swept[k] = 0 THEN i ELSE Swept[k]]
      BY DEF Launch
    <3>2. DOMAIN Swept = Hosts
      BY DEF Swept, Typed
    <3> QED BY <2>1, <3>1, <3>2
  <2> QED BY <1>3, <2>1, <2>2
<1>7. ASSUME NEW j \in Requests, task[j].at \in Live, task[j].key \in Hosts
      PROVE  lanes'[task[j].key] = lanes[task[j].key]
  <2>1. task[j].lane = lanes[task[j].key] /\ task[j].lane # 0
    BY <1>7 DEF Laned
  <2>2. Shared(lanes[task[j].key])
    BY <1>7, <2>1 DEF Shared
  <2> QED BY <1>5, <1>7, <2>1, <2>2
<1>8. ASSUME NEW l \in 0..MaxRequests PROVE Cardinality(Users(l)') <= Permits
  <2>1. Cardinality(Users(l)) <= Permits
    BY DEF Laned
  <2>2. \A j \in Requests : (task'[j].permit /\ task'[j].lane = l) => (task[j].permit /\ task[j].lane = l)
    BY <1>1
  <2> QED BY <2>1, <2>2, UsersShrink
<1>9. \A g, h \in Hosts : (lanes'[g] = lanes'[h] /\ lanes'[g] # 0) => g = h
  BY <1>3, <1>5 DEF Laned
<1>10. \A h \in Hosts : lanes'[h] # 0 => task'[lanes'[h]].at \notin {"none", "held"}
  BY <1>1, <1>2, <1>3, <1>5 DEF Laned
<1>11. ASSUME NEW j \in Requests
       PROVE  /\ task'[j].at = "wire" => task'[j].permit
              /\ task'[j].permit => task'[j].at \in Live
              /\ (task'[j].at \in Live /\ task'[j].key \in Hosts) =>
                    task'[j].lane = lanes'[task'[j].key] /\ task'[j].lane # 0
              /\ (task'[j].at \in Live /\ task'[j].key = "documents") => task'[j].lane = 0
  <2>1. CASE j = i BY <1>1, <1>6, <2>1, LimitAssumption
  <2>2. CASE j # i BY <1>1, <1>7, <2>2 DEF Laned
  <2> QED BY <2>1, <2>2
<1> QED BY <1>8, <1>9, <1>10, <1>11 DEF Laned

LEMMA InitLaned == Init => Laned
<1> SUFFICES ASSUME Init PROVE Laned
  OBVIOUS
<1>1. ASSUME NEW l \in 0..MaxRequests PROVE Cardinality(Users(l)) <= Permits
  <2>1. Users(l) = {}
    BY DEF Init, Users, Over
  <2> QED BY <2>1, FS_EmptySet, LimitAssumption
<1>2. \A i \in Requests : task[i].at \notin Live /\ task[i].at # "wire" /\ ~task[i].permit
  BY DEF Init, Over, Live
<1>3. \A h \in Hosts : lanes[h] = 0
  BY DEF Init
<1> QED BY <1>1, <1>2, <1>3 DEF Laned

(* The one step that hands out a permit has counted them.                  *)
LEMMA AcquireKeepsLanes ==
    ASSUME Typed, Laned, NEW i \in Requests, Acquire(i)
    PROVE  Laned'
<1>1. /\ task[i].at = "queued" /\ task'[i].at = "wire" /\ task'[i].permit
      /\ task'[i].key = task[i].key /\ task'[i].lane = task[i].lane
      /\ \A j \in Requests : j # i => task'[j] = task[j]
      /\ lanes' = lanes
  BY DEF Acquire, Typed, Task, Unpolled, poolVars
<1>2. ASSUME NEW l \in 0..MaxRequests PROVE Cardinality(Users(l)') <= Permits
  <2>1. Cardinality(Users(l)) <= Permits
    BY DEF Laned
  <2>2. CASE l # task[i].lane
    <3>1. \A j \in Requests : (task'[j].permit /\ task'[j].lane = l) => (task[j].permit /\ task[j].lane = l)
      BY <1>1, <2>2
    <3> QED BY <2>1, <3>1, UsersShrink
  <2>3. CASE l = task[i].lane
    <3>1. Users(l)' = Users(l) \cup {i}
      BY <1>1, <2>3 DEF Users
    <3>2. Cardinality(Users(l)') <= Cardinality(Users(l)) + 1
      BY <3>1, UsersFinite, FS_AddElement
    <3>3. Cardinality(Users(l)) < Permits
      BY <2>3 DEF Acquire
    <3>4. Cardinality(Users(l)') \in Nat
      BY <3>1, UsersFinite, FS_AddElement, FS_CardinalityType
    <3> QED BY <3>2, <3>3, <3>4, UsersFinite, LimitAssumption
  <2> QED BY <2>2, <2>3
<1>3. \A j \in Requests :
        /\ task'[j].at = "wire" => task'[j].permit
        /\ task'[j].permit => task'[j].at \in Live
        /\ (task'[j].at \in Live /\ task'[j].key \in Hosts) =>
              task'[j].lane = lanes'[task'[j].key] /\ task'[j].lane # 0
        /\ (task'[j].at \in Live /\ task'[j].key = "documents") => task'[j].lane = 0
  BY <1>1 DEF Laned, Live
<1>4. \A h \in Hosts : lanes'[h] # 0 => task'[lanes'[h]].at \notin {"none", "held"}
  <2> SUFFICES ASSUME NEW h \in Hosts, lanes[h] # 0
               PROVE  task'[lanes[h]].at \notin {"none", "held"}
    BY <1>1
  <2>1. lanes[h] \in Requests
    BY LimitAssumption DEF Typed, Requests
  <2>2. task[lanes[h]].at \notin {"none", "held"}
    BY DEF Laned
  <2> QED BY <1>1, <2>1, <2>2
<1>5. \A g, h \in Hosts : (lanes'[g] = lanes'[h] /\ lanes'[g] # 0) => g = h
  BY <1>1 DEF Laned
<1> QED BY <1>2, <1>3, <1>4, <1>5 DEF Laned

(* A step of a task other than Acquire is gentle.                          *)
LEMMA TaskStepGentle ==
    ASSUME Typed, Laned, NEW i \in Requests, TaskStep(i), ~Acquire(i)
    PROVE  Gentle
<1> DEFINE Onward ==
        /\ lanes' = lanes
        /\ \A j \in Requests : j # i => task'[j] = task[j]
        /\ task[i].at \in Live /\ task'[i].at \notin {"none", "held", "wire"}
        /\ task'[i].at \in Live => task'[i].key = task[i].key /\ task'[i].lane = task[i].lane
        /\ task'[i].permit => task[i].permit /\ task'[i].at \in Live
<1> USE DEF Unpolled, poolVars, Live
<1>1. ASSUME FirstPoll(i) PROVE Onward
  <2>1. task'[i].permit => task[i].permit
    BY <1>1 DEF FirstPoll, Typed, Task
  <2> QED BY <1>1, <2>1 DEF FirstPoll, Typed, Task
<1>2. ASSUME DropUnpolled(i) PROVE Onward BY <1>2 DEF DropUnpolled, Typed, Over
<1>4. ASSUME Finish(i) PROVE Onward BY <1>4 DEF Finish, Reply, Typed, Over, Task
<1>5. ASSUME Unwind(i) PROVE Onward BY <1>5 DEF Unwind, Unwinds, Typed, Task
<1>6. ASSUME Panic(i) PROVE Onward BY <1>6 DEF Panic, Typed, Task
<1>7. ASSUME Tell(i) PROVE Onward BY <1>7 DEF Tell, Reply, Typed, Over, Task
<1>8. ASSUME ReadWaker(i) PROVE Onward BY <1>8 DEF ReadWaker, Typed, Over, Task
<1>9. ASSUME Wake(i) PROVE Onward BY <1>9 DEF Wake, Typed, Over
<1>10. Onward
  BY <1>1, <1>2, <1>4, <1>5, <1>6, <1>7, <1>8, <1>9 DEF TaskStep
<1>11. \A j \in Requests : task[j].at = "wire" => task[j].permit
  BY DEF Laned
<1>12. \A j \in Requests : task[j].permit => task[j].at \in Live
  BY DEF Laned
<1> HIDE DEF Live
<1> QED BY <1>10, <1>11, <1>12 DEF Gentle

(* The owner's steps that begin no task are gentle.                        *)
LEMMA OwnerStepGentle ==
    ASSUME Typed, OneReply, Laned, OwnerStep,
           ~Fetch, \A i \in Requests : ~Resume(i)
    PROVE  Gentle
<1> DEFINE Quiet ==
        /\ lanes' = lanes
        /\ \A j \in Requests :
            \/ task'[j] = task[j]
            \/ /\ task'[j].at \in {"ended", "dropped"} /\ ~task'[j].permit
            \/ /\ task'[j].at = task[j].at /\ task'[j].key = task[j].key
               /\ task'[j].lane = task[j].lane /\ (task'[j].permit => task[j].permit)
               /\ (task[j].at = "wire" => task'[j].permit)
<1> USE DEF Idle, poolVars
<1>9. \A j \in Requests :
        /\ task[j].at = "wire" => task[j].permit
        /\ task[j].permit => task[j].at \in Live
  BY DEF Laned
<1>1. ASSUME NEW i \in Requests, Cancel(i) PROVE Quiet
  <2>1. lanes' = lanes
    BY <1>1 DEF Cancel
  <2>2. \/ task' = [task EXCEPT ![i] = Over("dropped")]
        \/ task' = [task EXCEPT ![i].aborted = TRUE]
        \/ task' = task
    BY <1>1 DEF Cancel
  <2>3. ASSUME task' = [task EXCEPT ![i].aborted = TRUE] PROVE Quiet
    BY <1>9, <2>1, <2>3 DEF Typed, Task
  <2>4. ASSUME task' = [task EXCEPT ![i] = Over("dropped")] PROVE Quiet
    BY <2>1, <2>4 DEF Typed, Over
  <2> QED BY <2>1, <2>2, <2>3, <2>4
<1>2. ASSUME TakeWake \/ TimerFallsDue \/ ClearPending \/ Turn \/ Poll \/ Rest
             \/ Connect \/ SetGate \/ Close
      PROVE  Quiet
  BY <1>2 DEF TakeWake, TimerFallsDue, ClearPending, Turn, Poll, Rest, Connect, SetGate, Close
<1>3. ASSUME NEW i \in Requests, Receive(i) PROVE Quiet
  BY <1>3 DEF Receive
<1>4. ASSUME NEW i \in Requests, Answer(i) PROVE Quiet
  BY <1>4 DEF Answer, Typed, Over
<1>5. ASSUME Disconnect PROVE Quiet BY <1>5 DEF Disconnect, Over
<1>6. ASSUME AbortAll PROVE Quiet
  BY <1>6, <1>9 DEF AbortAll, Over, Typed, Task
<1>7. ASSUME Joined PROVE Quiet BY <1>7 DEF Joined, Drained, Over
<1>8. Quiet
  BY <1>1, <1>2, <1>3, <1>4, <1>5, <1>6, <1>7 DEF OwnerStep
<1> HIDE DEF Quiet
<1>10. lanes' = lanes
  BY <1>8 DEF Quiet
<1>11. ASSUME NEW j \in Requests
       PROVE  /\ task'[j].at \in Live => /\ task[j].at \in Live
                                         /\ task'[j].key = task[j].key /\ task'[j].lane = task[j].lane
              /\ task'[j].permit => task[j].permit /\ task'[j].at \in Live
              /\ task'[j].at = "wire" => task'[j].permit
              /\ task[j].at \notin {"none", "held"} => task'[j].at \notin {"none", "held"}
  <2>1. CASE task'[j] = task[j] BY <1>9, <2>1
  <2>2. CASE task'[j].at \in {"ended", "dropped"} /\ ~task'[j].permit
    BY <2>2 DEF Live
  <2>3. CASE /\ task'[j].at = task[j].at /\ task'[j].key = task[j].key
             /\ task'[j].lane = task[j].lane /\ (task'[j].permit => task[j].permit)
             /\ (task[j].at = "wire" => task'[j].permit)
    BY <1>9, <2>3
  <2> QED BY <1>8, <2>1, <2>2, <2>3 DEF Quiet
<1> QED BY <1>10, <1>11 DEF Gentle

LEMMA StepLaned == Typed /\ OneReply /\ Laned /\ [Next]_vars => Laned'
<1> SUFFICES ASSUME Typed, OneReply, Laned, [Next]_vars PROVE Laned'
  OBVIOUS
<1>1. CASE Fetch
  <2>1. next + 1 \in Requests /\ task[next + 1].at = "none"
    BY <1>1, LimitAssumption DEF Fetch, Typed, Requests, OneReply
  <2>2. PICK k \in Keys : Send(k) \/ Hold(k)
    BY <1>1 DEF Fetch
  <2>3. CASE Send(k)
    BY <2>1, <2>3, LaunchKeepsLanes DEF Send
  <2>4. CASE Hold(k)
    <3>1. lanes' = lanes
      BY <2>4 DEF Hold
    <3>2. \A j \in Requests :
            \/ task'[j] = task[j]
            \/ task'[j].at = "ended" /\ ~task'[j].permit
            \/ j = next + 1 /\ task'[j].at = "held" /\ ~task'[j].permit
      <4> DEFINE new == [Over("held") EXCEPT !.key = k]
      <4> DEFINE held == [task EXCEPT ![next + 1] = new]
      <4>1. new.at = "held" /\ ~new.permit /\ Over("ended").at = "ended" /\ ~Over("ended").permit
        BY DEF Over
      <4>2. task' = held \/ task' = [held EXCEPT ![Oldest(HeldNow)] = Over("ended")]
        BY <2>4 DEF Hold
      <4> HIDE DEF new
      <4> QED BY <4>1, <4>2 DEF Typed
    <3>3. \A j \in Requests :
            /\ task[j].at = "wire" => task[j].permit
            /\ task[j].permit => task[j].at \in Live
      BY DEF Laned
    <3>4. Gentle
      BY <2>1, <3>1, <3>2, <3>3 DEF Gentle, Live
    <3> QED BY <3>4, GentleKeepsLanes
  <2> QED BY <2>2, <2>3, <2>4
<1>2. ASSUME NEW i \in Requests, Resume(i) PROVE Laned'
  BY <1>2, LaunchKeepsLanes DEF Resume, IsHeld
<1>3. ASSUME OwnerStep, ~Fetch, \A i \in Requests : ~Resume(i) PROVE Laned'
  BY <1>3, OwnerStepGentle, GentleKeepsLanes
<1>4. ASSUME NEW i \in Requests, TaskStep(i) PROVE Laned'
  BY <1>4, AcquireKeepsLanes, TaskStepGentle, GentleKeepsLanes
<1>5. CASE Stopped \/ UNCHANGED vars
  <2>1. UNCHANGED vars
    BY <1>5 DEF Stopped
  <2>2. task' = task /\ lanes' = lanes
    BY <2>1 DEF vars, poolVars
  <2> QED BY <2>2 DEF Laned, Users
<1> QED BY <1>1, <1>2, <1>3, <1>4, <1>5 DEF Next

(* All transports of one key hold permits of one semaphore.                *)
LEMMA LanedLimits == Typed /\ Laned => LaneLimit
<1> SUFFICES ASSUME Typed, Laned, NEW k \in Keys
             PROVE  Cardinality({i \in Requests : task[i].at = "wire" /\ task[i].key = k}) <= Permits
  BY DEF LaneLimit
<1> DEFINE lane == IF k = "documents" THEN 0 ELSE lanes[k]
<1> DEFINE Out == {i \in Requests : task[i].at = "wire" /\ task[i].key = k}
<1>1. lane \in 0..MaxRequests
  BY LimitAssumption DEF Typed, Keys
<1>2. Out \subseteq Users(lane)
  BY DEF Laned, Users, Live, Keys
<1>3. Cardinality(Out) <= Cardinality(Users(lane)) /\ Cardinality(Out) \in Nat
  BY <1>2, UsersFinite, FS_Subset, FS_CardinalityType
<1>4. Cardinality(Users(lane)) <= Permits
  BY <1>1 DEF Laned
<1> QED BY <1>3, <1>4, UsersFinite, LimitAssumption

(* No lane has more transports under way than FETCH_CONCURRENCY.           *)
THEOREM LanesKeepToTheirSize == Spec => []LaneLimit
<1> DEFINE I == Typed /\ OneReply /\ Laned
<1>1. Init => I
  BY InitTyped, InitOneReply, InitLaned
<1>2. I /\ [Next]_vars => I'
  BY StepTyped, StepOneReply, StepLaned
<1>3. I => LaneLimit
  BY LanedLimits
<1> QED BY <1>1, <1>2, <1>3, PTL DEF Spec
=============================================================================
