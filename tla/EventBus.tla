------------------------------ MODULE EventBus ------------------------------
(***************************************************************************)
(* The in-process event bus (pkg/core/events).  Senders are the informers  *)
(* and the console; every asynchronous subscriber has a drainer goroutine, *)
(* named after it here, which may send follow-up events itself.  Starting, *)
(* subscribing and the graceful stop run in goroutines of their own.       *)
(***************************************************************************)
EXTENDS Integers, Sequences, FiniteSets

CONSTANTS
  Senders,       \* goroutines that call Send
  Subscribers,   \* subscriberStates, and the drainer goroutine of each
  Kinds,         \* resource kinds
  NoKind,        \* what a subscriber emits that emits nothing
  KindOf,        \* ResourceKind() of a subscriber, or the kind a sender sends
  Emits,         \* the kind of the follow-up event of a subscriber's ProcessEvent
  AsyncEnabled,  \* the subscribers that answer true to AsyncEnabled()
  BufferSize,    \* capacity of a subscriber's channel; 0 makes all synchronous
  MaxEvents      \* bound: events per sender

Threads == Senders \cup Subscribers

ASSUME BusAssumption ==
  /\ Senders \cap Subscribers = {}
  /\ NoKind \notin Kinds
  /\ KindOf \in [Threads -> Kinds]
  /\ Emits \in [Subscribers -> Kinds \cup {NoKind}]
  /\ AsyncEnabled \subseteq Subscribers
  /\ BufferSize \in Nat
  /\ MaxEvents \in Nat

VARIABLES
  starter,   \* Start: "idle", "launching" between its CompareAndSwap and RLock, "done"
  stopper,   \* WaitForDone: "idle", "closing" (Lock called), "waiting" for wg, "done"
  admin,     \* the Subscribe call of each subscriber
  dir,       \* subscriberDir: per kind, in the order of subscribing
  closed,    \* subscribers whose closed flag is set
  chClosed,  \* subscribers whose channel is closed
  launched,  \* subscribers whose drainerStarted flag is set
  ended,     \* subscribers whose drainer has returned
  queue,     \* the channels
  stack,     \* the Send calls each goroutine is in, innermost first
  count,     \* events each goroutine has sent
  last,      \* the last event of each goroutine that a subscriber has processed
  panicked   \* goroutines that sent on a closed channel

vars == <<starter, stopper, admin, dir, closed, chClosed, launched, ended, queue, stack,
          count, last, panicked>>

Event == [kind : Kinds, by : Threads, no : Nat]

\* A call of Send: before the test of stopped, waiting for RLock, or handing the
\* event to the subscribers still to do.
Frame == [event : Event, at : {"check", "lock", "loop"}, todo : Seq(Subscribers)]

AdminSteps == {"new", "subscribe", "appended", "subscribed", "refused"}

TypeOK ==
  /\ starter \in {"idle", "launching", "done"}
  /\ stopper \in {"idle", "closing", "waiting", "done"}
  /\ admin \in [Subscribers -> AdminSteps]
  /\ dir \in [Kinds -> Seq(Subscribers)]
  /\ closed \subseteq Subscribers
  /\ chClosed \subseteq Subscribers
  /\ launched \subseteq Subscribers
  /\ ended \subseteq Subscribers
  /\ queue \in [Subscribers -> Seq(Event)]
  /\ \A s \in Subscribers : Len(queue[s]) <= BufferSize
  /\ stack \in [Threads -> Seq(Frame)]
  /\ count \in [Threads -> Nat]
  /\ last \in [Subscribers -> [Threads -> Nat]]
  /\ panicked \subseteq Threads

Init ==
  /\ starter = "idle"
  /\ stopper = "idle"
  /\ admin = [s \in Subscribers |-> "new"]
  /\ dir = [k \in Kinds |-> <<>>]
  /\ closed = {}
  /\ chClosed = {}
  /\ launched = {}
  /\ ended = {}
  /\ queue = [s \in Subscribers |-> <<>>]
  /\ stack = [t \in Threads |-> <<>>]
  /\ count = [t \in Threads |-> 0]
  /\ last = [s \in Subscribers |-> [t \in Threads |-> 0]]
  /\ panicked = {}

-----------------------------------------------------------------------------
(* State                                                                    *)

started == starter # "idle"

stopped == stopper # "idle"

Async(s) == BufferSize > 0 /\ s \in AsyncEnabled

Directory == UNION {{dir[k][i] : i \in DOMAIN dir[k]} : k \in Kinds}

\* rwMutex.  A writer that has called Lock keeps new readers out.
WriterWaits ==
  \/ stopper = "closing"
  \/ \E s \in Subscribers : admin[s] = "subscribe"

WriterInside == \E s \in Subscribers : admin[s] = "appended"

Reading(t) == \E i \in DOMAIN stack[t] : stack[t][i].at = "loop"

CanRLock == ~WriterWaits /\ ~WriterInside

CanLock == ~WriterInside /\ \A t \in Threads : ~Reading(t)

Step(s, to) == admin' = [admin EXCEPT ![s] = to]

\* Seeded bug: the flag is left alone.
Close_NoFlag(S) == chClosed' = chClosed \cup S /\ UNCHANGED closed

\* close(st.ch) together with the flag that Send looks at.
Close(S) == closed' = closed \cup S /\ chClosed' = chClosed \cup S

-----------------------------------------------------------------------------
(* Start and Subscribe                                                      *)

\* launchDrainer for the subscribers in S.
LaunchDrainer(S) == launched' = IF stopped THEN launched ELSE launched \cup S

BeginStart ==
  /\ starter = "idle"
  /\ starter' = "launching"
  /\ UNCHANGED <<stopper, admin, dir, closed, chClosed, launched, ended, queue, stack, count,
                 last, panicked>>

FinishStart ==
  /\ starter = "launching"
  /\ CanRLock
  /\ LaunchDrainer({s \in Directory : Async(s)})
  /\ starter' = "done"
  /\ UNCHANGED <<stopper, admin, dir, closed, chClosed, ended, queue, stack, count, last,
                 panicked>>

BeginSubscribe(s) ==
  /\ admin[s] = "new"
  /\ Step(s, "subscribe")
  /\ UNCHANGED <<starter, stopper, dir, closed, chClosed, launched, ended, queue, stack, count,
                 last, panicked>>

\* A stopped bus refuses; otherwise the subscriber is appended.
AppendState(s) ==
  /\ admin[s] = "subscribe"
  /\ CanLock
  /\ \/ stopped /\ Step(s, "refused") /\ UNCHANGED dir
     \/ ~stopped /\ Step(s, "appended") /\ dir' = [dir EXCEPT ![KindOf[s]] = Append(@, s)]
  /\ UNCHANGED <<starter, stopper, closed, chClosed, launched, ended, queue, stack, count, last,
                 panicked>>

\* Seeded bug: Subscribe waits for the lock it holds.
Launch_Relock(s) ==
  /\ CanRLock
  /\ admin[s] = "appended"
  /\ Step(s, "subscribed")
  /\ UNCHANGED <<starter, stopper, dir, closed, chClosed, launched, ended, queue, stack, count,
                 last, panicked>>

\* The end of Subscribe, still under the lock.
Launch(s) ==
  /\ admin[s] = "appended"
  /\ IF Async(s) /\ started THEN LaunchDrainer({s}) ELSE UNCHANGED launched
  /\ Step(s, "subscribed")
  /\ UNCHANGED <<starter, stopper, dir, closed, chClosed, ended, queue, stack, count, last,
                 panicked>>

-----------------------------------------------------------------------------
(* Send                                                                     *)

\* Goroutine t calls Send with a new event.
Call(t, kind) ==
  /\ count' = [count EXCEPT ![t] = @ + 1]
  /\ stack' = [stack EXCEPT ![t] =
       <<[event |-> [kind |-> kind, by |-> t, no |-> count[t] + 1],
          at |-> "check", todo |-> <<>>]>> \o @]

InSend(t, at) == stack[t] # <<>> /\ Head(stack[t]).at = at

Return(t) == stack' = [stack EXCEPT ![t] = Tail(@)]

BeginSend(t) ==
  /\ t \in Senders
  /\ stack[t] = <<>>
  /\ count[t] < MaxEvents
  /\ Call(t, KindOf[t])
  /\ UNCHANGED <<starter, stopper, admin, dir, closed, chClosed, launched, ended, queue, last,
                 panicked>>

CheckStopped(t) ==
  /\ InSend(t, "check")
  /\ IF stopped THEN Return(t) ELSE stack' = [stack EXCEPT ![t][1].at = "lock"]
  /\ UNCHANGED <<starter, stopper, admin, dir, closed, chClosed, launched, ended, queue, count,
                 last, panicked>>

\* RLock, then the subscribers of the event's kind in the order they subscribed.
ReadLock(t) ==
  /\ InSend(t, "lock")
  /\ CanRLock
  /\ stack' = [stack EXCEPT ![t][1].at = "loop", ![t][1].todo = dir[Head(stack[t]).event.kind]]
  /\ UNCHANGED <<starter, stopper, admin, dir, closed, chClosed, launched, ended, queue, count,
                 last, panicked>>

\* The select with a default case: a full channel drops the event.
Enqueued(s, e) == IF Len(queue[s]) < BufferSize THEN Append(queue[s], e) ELSE queue[s]

\* The event goes into the channel of an asynchronous subscriber that is not
\* closed; a closed one is passed over.
Enqueue(t) ==
  /\ InSend(t, "loop")
  /\ LET frame == Head(stack[t]) IN
     /\ frame.todo # <<>>
     /\ LET s == Head(frame.todo) IN
        /\ Async(s)
        /\ queue' = IF s \in closed THEN queue ELSE [queue EXCEPT ![s] = Enqueued(s, frame.event)]
        /\ panicked' = IF s \in chClosed \ closed THEN panicked \cup {t} ELSE panicked
     /\ stack' = [stack EXCEPT ![t][1].todo = Tail(@)]
  /\ UNCHANGED <<starter, stopper, admin, dir, closed, chClosed, launched, ended, count, last>>

\* ProcessEvent of s, run by goroutine t on its frames f: it may send one
\* follow-up event, or return an error, which is logged.
Process(s, e, t, f) ==
  /\ last' = [last EXCEPT ![s][e.by] = e.no]
  /\ \/ stack' = [stack EXCEPT ![t] = f] /\ UNCHANGED count
     \/ /\ Emits[s] # NoKind
        /\ count' = [count EXCEPT ![t] = @ + 1]
        /\ stack' = [stack EXCEPT ![t] =
             <<[event |-> [kind |-> Emits[s], by |-> t, no |-> count[t] + 1],
                at |-> "check", todo |-> <<>>]>> \o f]

\* A synchronous subscriber is called inside Send, with the read lock held.
ProcessSync(t) ==
  /\ InSend(t, "loop")
  /\ LET frame == Head(stack[t]) IN
     /\ frame.todo # <<>>
     /\ ~Async(Head(frame.todo))
     /\ Process(Head(frame.todo), frame.event, t,
                [stack[t] EXCEPT ![1].todo = Tail(@)])
  /\ UNCHANGED <<starter, stopper, admin, dir, closed, chClosed, launched, ended, queue,
                 panicked>>

\* All subscribers have been served: RUnlock.
ReturnSend(t) ==
  /\ InSend(t, "loop")
  /\ Head(stack[t]).todo = <<>>
  /\ Return(t)
  /\ UNCHANGED <<starter, stopper, admin, dir, closed, chClosed, launched, ended, queue, count,
                 last, panicked>>

-----------------------------------------------------------------------------
(* Drainers and WaitForDone                                                 *)

Draining(s) == s \in launched \ ended /\ stack[s] = <<>>

\* The next event of the channel.
Drain(s) ==
  /\ Draining(s)
  /\ queue[s] # <<>>
  /\ Process(s, Head(queue[s]), s, <<>>)
  /\ queue' = [queue EXCEPT ![s] = Tail(@)]
  /\ UNCHANGED <<starter, stopper, admin, dir, closed, chClosed, launched, ended, panicked>>

\* The range over a closed and empty channel ends.
EndDrainer(s) ==
  /\ Draining(s)
  /\ s \in chClosed
  /\ queue[s] = <<>>
  /\ ended' = ended \cup {s}
  /\ UNCHANGED <<starter, stopper, admin, dir, closed, chClosed, launched, queue, stack, count,
                 last, panicked>>

BeginStop ==
  /\ stopper = "idle"
  /\ stopper' = "closing"
  /\ UNCHANGED <<starter, admin, dir, closed, chClosed, launched, ended, queue, stack, count,
                 last, panicked>>

CloseChannels ==
  /\ stopper = "closing"
  /\ CanLock
  /\ Close({s \in Directory : Async(s) /\ s \notin closed})
  /\ stopper' = "waiting"
  /\ UNCHANGED <<starter, admin, dir, launched, ended, queue, stack, count, last, panicked>>

\* wg.Wait returns when every launched drainer has.
AllDone == launched = ended

FinishStop ==
  /\ stopper = "waiting"
  /\ AllDone
  /\ stopper' = "done"
  /\ UNCHANGED <<starter, admin, dir, closed, chClosed, launched, ended, queue, stack, count,
                 last, panicked>>

-----------------------------------------------------------------------------
(* Specification                                                            *)

SendStep(t) ==
  BeginSend(t) \/ CheckStopped(t) \/ ReadLock(t) \/ Enqueue(t) \/ ProcessSync(t) \/ ReturnSend(t)

DrainerStep(s) == Drain(s) \/ EndDrainer(s)

SubscribeStep(s) == AppendState(s) \/ Launch(s)

StopStep == CloseChannels \/ FinishStop

Next ==
  \/ BeginStart \/ FinishStart \/ BeginStop \/ StopStep
  \/ \E t \in Threads : SendStep(t)
  \/ \E s \in Subscribers : BeginSubscribe(s) \/ SubscribeStep(s) \/ DrainerStep(s)

Spec == Init /\ [][Next]_vars

\* Goroutines that can run do run, and ProcessEvent returns; that anybody calls
\* Start, Subscribe, Send or WaitForDone is not owed.
FairSpec ==
  /\ Spec
  /\ WF_vars(FinishStart)
  /\ WF_vars(StopStep)
  /\ \A s \in Subscribers : WF_vars(SubscribeStep(s)) /\ WF_vars(DrainerStep(s))
  /\ \A t \in Threads : WF_vars(SendStep(t))

-----------------------------------------------------------------------------
(* Properties                                                               *)

\* Nobody sends on a closed channel, although Send looks at stopped before it
\* has the lock and drainers send while the bus is being stopped.
NobodyPanics == panicked = {}

\* Once Start has returned, every asynchronous subscriber has its drainer,
\* whether it subscribed before, during or after Start.
DrainersLaunched ==
  starter = "done" /\ ~stopped
    => \A s \in Directory : Async(s) /\ admin[s] = "subscribed" => s \in launched

\* When WaitForDone returns, every event that a running drainer's queue accepted
\* has been processed, follow-up events included.
DrainedOnStop ==
  stopper = "done" => \A s \in launched : queue[s] = <<>> /\ stack[s] = <<>>

\* A subscriber sees the events of one goroutine in the order they were sent;
\* a full queue makes gaps, never a swap or a repetition.
InOrder ==
  [][ \A s \in Subscribers, t \in Threads : last'[s][t] >= last[s][t] ]_vars

\* Send always returns: neither subscribing nor the stop can block it for good.
SendsReturn == \A t \in Threads : stack[t] # <<>> ~> stack[t] = <<>>

\* WaitForDone returns.
StopCompletes == stopper = "closing" ~> stopper = "done"

\* The bus delivers: Start, Subscribe, Send and the graceful stop leave no
\* subscriber without its drainer, no accepted event unprocessed, none out of
\* order, and send nothing on a closed channel.
BusDelivers ==
  /\ [](TypeOK /\ NobodyPanics /\ DrainersLaunched /\ DrainedOnStop)
  /\ InOrder

\* Both Send and WaitForDone return.
BusReturns == SendsReturn /\ StopCompletes
=============================================================================
