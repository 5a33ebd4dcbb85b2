--------------------------- MODULE EventBusProofs ---------------------------
(***************************************************************************)
(* The bus can be started, subscribed to, sent to and stopped at the same    *)
(* time, and delivers what it has accepted, each goroutine's events in their  *)
(* order: for any number of goroutines, subscribers and kinds and any buffer. *)
(***************************************************************************)
EXTENDS EventBus, TLAPS

Shapes ==
  /\ admin = [s \in Subscribers |-> admin[s]]
  /\ dir \in [Kinds -> Seq(Subscribers)]
  /\ \A k \in Kinds : \A i \in 1 .. Len(dir[k]) : KindOf[dir[k][i]] = k
  /\ queue = [s \in Subscribers |-> queue[s]]
  /\ stack = [t \in Threads |-> stack[t]]
  /\ launched \subseteq Subscribers

\* close(st.ch) and the flag happen under one lock, so Send never meets one without
\* the other.
FlagTellsChannel == closed = chClosed /\ panicked = {}

\* A drainer ends on a closed and empty channel; nothing is put into it afterwards, and
\* its goroutine is in no Send.
EndedIsEmpty ==
  \A s \in ended : s \in launched /\ s \in chClosed /\ queue[s] = <<>> /\ stack[s] = <<>>

\* wg.Wait has seen every drainer return, and a stopped bus launches no more.
StopWaited == stopper = "done" => launched \subseteq ended

BusInv == Shapes /\ FlagTellsChannel /\ EndedIsEmpty /\ StopWaited /\ DrainersLaunched

\* Who is in the directory.
LEMMA InDirectory ==
  ASSUME Shapes
  PROVE  /\ \A u : u \in Directory <=> \E k \in Kinds : \E i \in 1 .. Len(dir[k]) : dir[k][i] = u
         /\ Directory \subseteq Subscribers
  <1>1. \A k \in Kinds : DOMAIN dir[k] = 1 .. Len(dir[k]) /\ \A i \in 1 .. Len(dir[k]) : dir[k][i] \in Subscribers
    BY DEF Shapes
  <1> QED
    BY <1>1 DEF Directory

\* A new bus has no subscribers and nothing closed.
LEMMA InitBusInv == Init => BusInv
  <1> SUFFICES ASSUME Init PROVE BusInv
    BY Zenon
  <1>1. Shapes
    BY DEF Init, Shapes
  <1> QED
    BY <1>1, Zenon DEF Init, BusInv, FlagTellsChannel, EndedIsEmpty, StopWaited, DrainersLaunched

\* ProcessEvent changes the frames of the goroutine that runs it alone.
LEMMA ProcessIsOwn ==
  ASSUME Shapes, NEW t \in Threads, NEW s, NEW e, NEW f, Process(s, e, t, f)
  PROVE  /\ stack' = [u \in Threads |-> stack'[u]]
         /\ \A u \in Threads \ {t} : stack'[u] = stack[u]
  BY Zenon DEF Shapes, Process

\* A Send of goroutine t, which is in a call if it is not a sender, leaves ended
\* drainers alone: their channels are closed.
LEMMA SendKeepsInv ==
  ASSUME BusInv, NEW t \in Threads, SendStep(t)
  PROVE  BusInv'
  <1> USE DEF BusInv
  <1>0. UNCHANGED <<starter, stopper, admin, dir, closed, chClosed, launched, ended>>
    BY Zenon DEF SendStep, BeginSend, CheckStopped, ReadLock, Enqueue, ProcessSync, ReturnSend
  <1>1. t \notin ended
    <2>1. CASE BeginSend(t)
      BY <2>1, BusAssumption, Zenon DEF BeginSend, EndedIsEmpty, Shapes
    <2>2. CASE ~BeginSend(t)
      BY <2>2, Zenon DEF SendStep, CheckStopped, ReadLock, Enqueue, ProcessSync, ReturnSend, InSend, EndedIsEmpty
    <2> QED
      BY <2>1, <2>2, Zenon
  <1>2. /\ stack' = [u \in Threads |-> stack'[u]]
        /\ \A u \in Threads \ {t} : stack'[u] = stack[u]
    <2>1. CASE ProcessSync(t)
      BY <2>1, ProcessIsOwn, Zenon DEF ProcessSync
    <2>2. CASE ~ProcessSync(t)
      BY <2>2, Zenon DEF SendStep, BeginSend, CheckStopped, ReadLock, Enqueue, ReturnSend, Call, Return, Shapes
    <2> QED
      BY <2>1, <2>2, Zenon
  <1>3. /\ queue' = [s \in Subscribers |-> queue'[s]]
        /\ \A s \in Subscribers : s \in closed => queue'[s] = queue[s]
        /\ panicked' = {}
    <2>1. CASE Enqueue(t)
      BY <2>1, Zenon DEF Enqueue, Shapes, FlagTellsChannel
    <2>2. CASE ~Enqueue(t)
      BY <2>2, Zenon DEF SendStep, BeginSend, CheckStopped, ReadLock, ProcessSync, ReturnSend, Shapes, FlagTellsChannel
    <2> QED
      BY <2>1, <2>2, Zenon
  <1>4. Shapes' /\ FlagTellsChannel'
    BY <1>0, <1>2, <1>3, Zenon DEF Shapes, FlagTellsChannel
  <1>5. EndedIsEmpty'
    BY <1>0, <1>1, <1>2, <1>3, Zenon DEF EndedIsEmpty, FlagTellsChannel, Shapes, Threads
  <1>6. StopWaited' /\ DrainersLaunched'
    BY <1>0 DEF StopWaited, DrainersLaunched, stopped, Directory
  <1> QED
    BY <1>4, <1>5, <1>6, Zenon

\* Subscribing and launching: a subscriber is in the directory from Append on, and has
\* its drainer when it is subscribed and Start is past.
LEMMA SubscribeKeepsInv ==
  ASSUME BusInv, NEW s \in Subscribers, BeginSubscribe(s) \/ SubscribeStep(s)
  PROVE  BusInv'
  <1> USE DEF BusInv
  <1>0. Directory \subseteq Subscribers
    BY InDirectory, Zenon
  <1>1. CASE BeginSubscribe(s)
    <2> USE <1>1 DEF BeginSubscribe, Step
    <2>1. Shapes' /\ FlagTellsChannel' /\ EndedIsEmpty' /\ StopWaited'
      BY Zenon DEF Shapes, FlagTellsChannel, EndedIsEmpty, StopWaited
    <2>2. Directory' = Directory /\ \A u \in Subscribers : admin'[u] = "subscribed" => admin[u] = "subscribed"
      BY DEF Directory, Shapes
    <2>3. DrainersLaunched'
      BY <1>0, <2>2, Zenon DEF DrainersLaunched, stopped, Async
    <2> QED
      BY <2>1, <2>3, Zenon
  <1>2. CASE AppendState(s)
    <2>0. /\ UNCHANGED <<starter, stopper, closed, chClosed, launched, ended, queue, stack, panicked>>
          /\ admin[s] = "subscribe" /\ admin' \in {[admin EXCEPT ![s] = "refused"], [admin EXCEPT ![s] = "appended"]}
          /\ dir' \in {dir, [dir EXCEPT ![KindOf[s]] = Append(@, s)]}
      BY <1>2, Zenon DEF AppendState, Step
    <2>1. KindOf[s] \in Kinds
      BY BusAssumption, Zenon DEF Threads
    <2>2. /\ dir' \in [Kinds -> Seq(Subscribers)]
          /\ \A k \in Kinds : \A i \in 1 .. Len(dir'[k]) :
               \/ dir'[k][i] = s /\ k = KindOf[s]
               \/ i \in 1 .. Len(dir[k]) /\ dir'[k][i] = dir[k][i]
      <3>1. CASE dir' = dir
        BY <3>1, Zenon DEF Shapes
      <3>2. CASE dir' = [dir EXCEPT ![KindOf[s]] = Append(@, s)]
        <4>1. /\ dir[KindOf[s]] \in Seq(Subscribers)
              /\ dir'[KindOf[s]] = Append(dir[KindOf[s]], s)
              /\ \A k \in Kinds \ {KindOf[s]} : dir'[k] = dir[k]
          BY <2>1, <3>2, Zenon DEF Shapes
        <4>2. dir' \in [Kinds -> Seq(Subscribers)]
          BY <2>1, <3>2, <4>1 DEF Shapes
        <4>3. \A i \in 1 .. Len(Append(dir[KindOf[s]], s)) :
                 \/ Append(dir[KindOf[s]], s)[i] = s
                 \/ /\ i \in 1 .. Len(dir[KindOf[s]])
                    /\ Append(dir[KindOf[s]], s)[i] = dir[KindOf[s]][i]
          BY <4>1
        <4> QED
          BY <4>1, <4>2, <4>3, Zenon
      <3> QED
        BY <2>0, <3>1, <3>2, Zenon
    <2>3. Shapes'
      <3>1. admin' = [u \in Subscribers |-> admin'[u]]
        BY <2>0, Zenon DEF Shapes
      <3>2. \A k \in Kinds : \A i \in 1 .. Len(dir'[k]) : KindOf[dir'[k][i]] = k
        <4> SUFFICES ASSUME NEW k \in Kinds, NEW i \in 1 .. Len(dir'[k]) PROVE KindOf[dir'[k][i]] = k
          BY Zenon
        <4> QED
          BY <2>2, SMTT(60) DEF Shapes
      <3> QED
        BY <2>0, <2>2, <3>1, <3>2, Zenon DEF Shapes
    <2>4. DrainersLaunched'
      <3> SUFFICES ASSUME starter = "done", ~stopped,
                          NEW u \in Directory', Async(u), admin'[u] = "subscribed"
                   PROVE  u \in launched
        BY <2>0, Zenon DEF DrainersLaunched, stopped, Async
      <3>1. admin'[s] # "subscribed"
        BY <2>0, Zenon DEF Shapes
      <3>2. PICK k \in Kinds : \E i \in 1 .. Len(dir'[k]) : dir'[k][i] = u
        <4>1. PICK k \in Kinds : u \in {dir'[k][i] : i \in DOMAIN dir'[k]}
          BY Zenon DEF Directory
        <4>2. DOMAIN dir'[k] = 1 .. Len(dir'[k])
          BY <2>2
        <4> QED
          BY <4>1, <4>2, Zenon
      <3>3. u \in Directory /\ u \in Subscribers /\ u # s
        BY <2>2, <3>1, <3>2, InDirectory, Zenon
      <3>4. admin[u] = "subscribed"
        BY <2>0, <3>3, Zenon DEF Shapes
      <3> QED
        BY <3>3, <3>4, Zenon DEF DrainersLaunched
    <2> QED
      BY <2>0, <2>3, <2>4, Zenon DEF FlagTellsChannel, EndedIsEmpty, StopWaited
  <1>3. CASE Launch(s)
    <2> USE <1>3 DEF Launch, Step, LaunchDrainer
    <2>1. Shapes' /\ FlagTellsChannel' /\ EndedIsEmpty' /\ StopWaited'
      BY Zenon DEF Shapes, FlagTellsChannel, EndedIsEmpty, StopWaited, stopped
    <2>2. Directory' = Directory /\ \A u \in Subscribers \ {s} : admin'[u] = admin[u]
      BY DEF Directory, Shapes
    <2>3. starter = "done" /\ ~stopped /\ Async(s) => s \in launched'
      BY Zenon DEF started
    <2>4. DrainersLaunched'
      BY <1>0, <2>2, <2>3, Zenon DEF DrainersLaunched, stopped, Async
    <2> QED
      BY <2>1, <2>4, Zenon
  <1> QED
    BY <1>1, <1>2, <1>3, Zenon DEF SubscribeStep

\* A drainer that takes an event has not ended; one that ends has nothing left.
LEMMA DrainKeepsInv ==
  ASSUME BusInv, NEW s \in Subscribers, DrainerStep(s)
  PROVE  BusInv'
  <1> USE DEF BusInv
  <1>1. CASE Drain(s)
    <2>1. s \in Threads /\ s \notin ended
      BY <1>1, Zenon DEF Drain, Draining, Threads
    <2>2. /\ stack' = [u \in Threads |-> stack'[u]]
          /\ \A u \in Threads \ {s} : stack'[u] = stack[u]
      BY <1>1, <2>1, ProcessIsOwn, Zenon DEF Drain
    <2>3. /\ queue' = [u \in Subscribers |-> queue'[u]]
          /\ \A u \in Subscribers \ {s} : queue'[u] = queue[u]
      BY <1>1, Zenon DEF Drain, Shapes
    <2>4. UNCHANGED <<starter, stopper, admin, dir, closed, chClosed, launched, ended, panicked>>
      BY <1>1, Zenon DEF Drain
    <2>5. Shapes' /\ FlagTellsChannel'
      BY <2>2, <2>3, <2>4, Zenon DEF Shapes, FlagTellsChannel
    <2>6. EndedIsEmpty'
      BY <2>1, <2>2, <2>3, <2>4, Zenon DEF EndedIsEmpty, Shapes, Threads
    <2>7. StopWaited' /\ DrainersLaunched'
      BY <2>4 DEF StopWaited, DrainersLaunched, stopped, Directory
    <2> QED
      BY <2>5, <2>6, <2>7, Zenon
  <1>2. CASE EndDrainer(s)
    <2>1. /\ UNCHANGED <<starter, stopper, admin, dir, closed, chClosed, launched, queue, stack, panicked>>
          /\ ended' = ended \cup {s} /\ s \in launched /\ s \in chClosed /\ queue[s] = <<>> /\ stack[s] = <<>>
      BY <1>2, Zenon DEF EndDrainer, Draining
    <2>2. Shapes' /\ FlagTellsChannel'
      BY <2>1, Zenon DEF Shapes, FlagTellsChannel
    <2>3. EndedIsEmpty' /\ StopWaited'
      BY <2>1, Zenon DEF EndedIsEmpty, StopWaited
    <2>4. DrainersLaunched'
      BY <2>1 DEF DrainersLaunched, stopped, Directory
    <2> QED
      BY <2>2, <2>3, <2>4, Zenon
  <1> QED
    BY <1>1, <1>2, Zenon DEF DrainerStep

\* Start and WaitForDone.  Start reads the directory while no Subscribe is inside the
\* lock: who is not in it yet sees that the bus has started.
LEMMA StartStopKeepsInv ==
  ASSUME BusInv, BeginStart \/ FinishStart \/ BeginStop \/ StopStep
  PROVE  BusInv'
  <1> USE DEF BusInv
  <1>1. CASE BeginStart \/ BeginStop
    BY <1>1, Zenon DEF BeginStart, BeginStop, Shapes, FlagTellsChannel, EndedIsEmpty, StopWaited, DrainersLaunched,
                stopped, Directory
  <1>2. CASE FinishStart
    <2>1. /\ UNCHANGED <<stopper, admin, dir, closed, chClosed, ended, queue, stack, panicked>>
          /\ launched' = IF stopped THEN launched ELSE launched \cup {s \in Directory : Async(s)}
      BY <1>2, Zenon DEF FinishStart, LaunchDrainer
    <2>2. Directory \subseteq Subscribers /\ Directory' = Directory
      BY <2>1, InDirectory DEF Directory
    <2>3. Shapes'
      BY <2>1, <2>2, Zenon DEF Shapes
    <2>4. DrainersLaunched'
      BY <2>1, <2>2, Zenon DEF DrainersLaunched, stopped, Async
    <2> QED
      BY <2>1, <2>3, <2>4, Zenon DEF FlagTellsChannel, EndedIsEmpty, StopWaited, stopped
  <1>3. CASE CloseChannels
    BY <1>3, Zenon DEF CloseChannels, Close, Shapes, FlagTellsChannel, EndedIsEmpty, StopWaited, DrainersLaunched,
                stopped, Directory
  <1>4. CASE FinishStop
    BY <1>4, Zenon DEF FinishStop, AllDone, Shapes, FlagTellsChannel, EndedIsEmpty, StopWaited, DrainersLaunched,
                stopped, Directory
  <1> QED
    BY <1>1, <1>2, <1>3, <1>4, Zenon DEF StopStep

\* One lemma above for each kind of step; no step of the bus is left.
LEMMA StepBusInv == BusInv /\ [Next]_vars => BusInv'
  <1> SUFFICES ASSUME BusInv, [Next]_vars PROVE BusInv'
    BY Zenon
  <1>1. CASE UNCHANGED vars
    <2>1. Shapes' /\ FlagTellsChannel'
      BY <1>1, Zenon DEF vars, BusInv, Shapes, FlagTellsChannel
    <2> QED
      BY <1>1, <2>1 DEF vars, BusInv, EndedIsEmpty, StopWaited, DrainersLaunched, stopped, Directory
  <1> QED
    BY <1>1, SendKeepsInv, SubscribeKeepsInv, DrainKeepsInv, StartStopKeepsInv, Zenon DEF Next
-----------------------------------------------------------------------------
(* The order of events *)

\* The kinds that synchronous subscribers announce lead to no circle: ProcessEvent of a
\* subscriber is not called again inside of itself.
Descends(level) ==
  /\ level \in [Kinds -> Nat]
  /\ \A s \in Subscribers : ~Async(s) /\ Emits[s] # NoKind => level[KindOf[s]] < level[Emits[s]]

TodoIsOfKind(f) == \A j \in 1 .. Len(f.todo) : KindOf[f.todo[j]] = f.event.kind

\* Goroutine t is in the calls st: they are its own, each inside the one after it.
Nests(level, t, st, n) ==
  /\ st \in Seq(Frame)
  /\ \A i \in 1 .. Len(st) : st[i].event.by = t /\ st[i].event.no <= n /\ TodoIsOfKind(st[i])
  /\ \A i, j \in 1 .. Len(st) : i < j => level[st[j].event.kind] < level[st[i].event.kind]

\* The channel q of a subscriber that has processed p, when c have been sent.
QueueIsOrdered(q, c, p) ==
  /\ q \in Seq(Event) /\ p \in [Threads -> Nat]
  /\ \A t \in Threads : p[t] <= c[t]
  /\ \A i \in 1 .. Len(q) : p[q[i].by] <= q[i].no /\ q[i].no <= c[q[i].by]
  /\ \A i, j \in 1 .. Len(q) : i < j /\ q[i].by = q[j].by => q[i].no <= q[j].no

\* A subscriber has nothing newer of goroutine t than event e.
IsNewest(e, t, q, p) ==
  /\ p[t] <= e.no
  /\ \A j \in 1 .. Len(q) : q[j].by = t => q[j].no <= e.no

OrderOK(level, st, q, c, p) ==
  /\ st = [t \in Threads |-> st[t]] /\ q = [s \in Subscribers |-> q[s]]
  /\ p = [s \in Subscribers |-> p[s]] /\ c \in [Threads -> Nat]
  /\ \A t \in Threads : Nests(level, t, st[t], c[t])
  /\ \A s \in Subscribers : QueueIsOrdered(q[s], c, p[s]) /\ (~Async(s) => q[s] = <<>>)
  /\ \A t \in Threads, s \in Subscribers : \A i \in 1 .. Len(st[t]) :
       KindOf[s] = st[t][i].event.kind => IsNewest(st[t][i].event, t, q[s], p[s])

\* The calls f of a goroutine are the calls g it was in, the innermost perhaps further on
\* or returned from.
Continues(f, g) ==
  /\ f \in Seq(Frame)
  /\ \E d \in {0, 1} :
       /\ Len(g) = Len(f) + d
       /\ \A i \in 1 .. Len(f) : f[i].event = g[i + d].event /\ TodoIsOfKind(f[i])

LEMMA NewestOf ==
  ASSUME NEW level, NEW st, NEW q, NEW c, NEW p, OrderOK(level, st, q, c, p),
         NEW t \in Threads, NEW s \in Subscribers, NEW i \in 1 .. Len(st[t]),
         NEW e, e = st[t][i].event, KindOf[s] = e.kind
  PROVE  IsNewest(e, t, q[s], p[s])
  BY Zenon DEF OrderOK

LEMMA ContinuedOrder ==
  ASSUME NEW level, NEW st, NEW q, NEW c, NEW p, OrderOK(level, st, q, c, p),
         NEW t \in Threads, NEW f, Continues(f, st[t])
  PROVE  OrderOK(level, [st EXCEPT ![t] = f], q, c, p)
  <1> DEFINE new == [st EXCEPT ![t] = f]
             g == st[t]
  <1>1. /\ new = [u \in Threads |-> new[u]] /\ new[t] = f
        /\ \A u \in Threads \ {t} : new[u] = st[u]
    BY Zenon DEF OrderOK
  <1>2. PICK d \in {0, 1} : /\ Len(g) = Len(f) + d
                            /\ \A i \in 1 .. Len(f) : f[i].event = g[i + d].event /\ TodoIsOfKind(f[i])
    BY Zenon DEF Continues
  <1>3. f \in Seq(Frame) /\ Len(f) \in Nat /\ g \in Seq(Frame) /\ Nests(level, t, g, c[t])
    BY DEF Continues, OrderOK, Nests
  <1>4. \A i \in 1 .. Len(f) : i + d \in 1 .. Len(g)
    BY <1>2, <1>3
  <1>5. Nests(level, t, f, c[t])
    <2>1. \A i \in 1 .. Len(f) : f[i].event.by = t /\ f[i].event.no <= c[t] /\ TodoIsOfKind(f[i])
      BY <1>2, <1>3, <1>4, Zenon DEF Nests
    <2>2. ASSUME NEW i \in 1 .. Len(f), NEW j \in 1 .. Len(f), i < j
          PROVE  level[f[j].event.kind] < level[f[i].event.kind]
      <3>1. i + d \in 1 .. Len(g) /\ j + d \in 1 .. Len(g) /\ i + d < j + d
        BY <1>3, <1>4, <2>2
      <3>2. level[g[j + d].event.kind] < level[g[i + d].event.kind]
        BY <1>3, <3>1, Zenon DEF Nests
      <3> QED
        BY <1>2, <3>2, Zenon
    <2> QED
      BY <1>3, <2>1, <2>2, Zenon DEF Nests
  <1> HIDE DEF new
  <1>6. \A u \in Threads : Nests(level, u, new[u], c[u])
    BY <1>1, <1>5, Zenon DEF OrderOK
  <1>7. ASSUME NEW u \in Threads, NEW s \in Subscribers, NEW i \in 1 .. Len(new[u]),
               KindOf[s] = new[u][i].event.kind
        PROVE  IsNewest(new[u][i].event, u, q[s], p[s])
    <2>1. CASE u = t
      <3>1. i + d \in 1 .. Len(st[t]) /\ new[u][i].event = st[t][i + d].event
        BY <1>1, <1>2, <1>4, <2>1, Zenon
      <3> QED
        BY <1>7, <2>1, <3>1, NewestOf, Zenon
    <2>2. CASE u # t
      BY <1>1, <1>7, <2>2, Zenon DEF OrderOK
    <2> QED
      BY <2>1, <2>2, Zenon
  <1>8. OrderOK(level, new, q, c, p)
    BY <1>1, <1>6, <1>7, Zenon DEF OrderOK
  <1> QED
    BY <1>8, Zenon DEF new

LEMMA EventParts ==
  ASSUME NEW q \in Seq(Event), NEW i \in 1 .. Len(q)
  PROVE  q[i] \in Event /\ q[i].no \in Nat /\ q[i].by \in Threads
  <1>1. q[i] \in Event
    OBVIOUS
  <1> QED
    BY <1>1, Zenon DEF Event

LEMMA FrameParts ==
  ASSUME NEW f \in Seq(Frame), NEW i \in 1 .. Len(f)
  PROVE  /\ f[i] \in Frame /\ f[i].event \in Event /\ f[i].todo \in Seq(Subscribers)
         /\ f[i].event.no \in Nat /\ f[i].event.by \in Threads /\ f[i].event.kind \in Kinds
  <1>1. f[i] \in Frame
    OBVIOUS
  <1>2. f[i].event \in Event /\ f[i].todo \in Seq(Subscribers)
    BY <1>1, Zenon DEF Frame
  <1> QED
    BY <1>1, <1>2, Zenon DEF Event

\* The call of Send that goroutine t begins: its event is newer than all it has sent.
Begun(t, kind, n) ==
  [event |-> [kind |-> kind, by |-> t, no |-> n + 1], at |-> "check", todo |-> <<>>]

LEMMA BegunOrder ==
  ASSUME NEW level, NEW st, NEW q, NEW c, NEW p, OrderOK(level, st, q, c, p),
         NEW t \in Threads, NEW kind \in Kinds,
         st[t] # <<>> => level[st[t][1].event.kind] < level[kind],
         level \in [Kinds -> Nat]
  PROVE  OrderOK(level, [st EXCEPT ![t] = <<Begun(t, kind, c[t])>> \o @], q, [c EXCEPT ![t] = @ + 1], p)
  <1> DEFINE b == Begun(t, kind, c[t])
             f == <<b>> \o st[t]
             new == [st EXCEPT ![t] = f]
             g == st[t]
             n == [c EXCEPT ![t] = @ + 1]
  <1>0. c \in [Threads -> Nat] /\ c[t] \in Nat /\ Nests(level, t, g, c[t]) /\ g \in Seq(Frame) /\ Len(g) \in Nat
    BY DEF OrderOK, Nests
  <1>1. /\ b \in Frame /\ b.event.by = t /\ b.event.no = c[t] + 1 /\ b.event.kind = kind
        /\ TodoIsOfKind(b)
    <2>1. [kind |-> kind, by |-> t, no |-> c[t] + 1] \in Event /\ <<>> \in Seq(Subscribers)
      BY <1>0 DEF Event
    <2> QED
      BY <2>1 DEF Begun, Frame, TodoIsOfKind
  <1>2. /\ new = [u \in Threads |-> new[u]] /\ new[t] = f
        /\ \A u \in Threads \ {t} : new[u] = st[u]
    BY Zenon DEF OrderOK
  <1>3. n \in [Threads -> Nat] /\ n[t] = c[t] + 1 /\ \A u \in Threads : c[u] <= n[u]
    BY <1>0
  <1> HIDE DEF b
  <1>4. /\ f \in Seq(Frame) /\ Len(f) = Len(g) + 1 /\ f[1] = b
        /\ \A i \in 1 .. Len(f) : i # 1 => i - 1 \in 1 .. Len(g) /\ f[i] = g[i - 1]
    BY <1>0, <1>1
  <1> HIDE DEF f, n, new
  <1>5. Nests(level, t, f, n[t])
    <2>1. \A i \in 1 .. Len(f) : f[i].event.by = t /\ f[i].event.no <= n[t] /\ TodoIsOfKind(f[i])
      <3> SUFFICES ASSUME NEW i \in 1 .. Len(f)
                   PROVE  f[i].event.by = t /\ f[i].event.no <= n[t] /\ TodoIsOfKind(f[i])
        BY Zenon
      <3>1. CASE i = 1
        BY <1>0, <1>1, <1>3, <1>4, <3>1, SMTT(60)
      <3>2. CASE i # 1
        <4>1. i - 1 \in 1 .. Len(g) /\ f[i] = g[i - 1] /\ g[i - 1].event.no \in Nat
          BY <1>0, <1>4, <3>2, FrameParts, Zenon
        <4> QED
          BY <1>0, <1>3, <4>1, SMTT(60) DEF Nests
      <3> QED
        BY <3>1, <3>2, Zenon
    <2>2. \A i \in 1 .. Len(g) : level[g[i].event.kind] < level[kind]
      <3> SUFFICES ASSUME NEW i \in 1 .. Len(g) PROVE level[g[i].event.kind] < level[kind]
        BY Zenon
      <3>1. g # <<>> /\ 1 \in 1 .. Len(g) /\ g[1].event.kind \in Kinds /\ g[i].event.kind \in Kinds
        BY <1>0, FrameParts
      <3>2. i # 1 => level[g[i].event.kind] < level[g[1].event.kind]
        <4>1. i # 1 => 1 < i
          BY <1>0
        <4> QED
          BY <1>0, <3>1, <4>1, Zenon DEF Nests
      <3>3. level[g[1].event.kind] \in Nat /\ level[g[i].event.kind] \in Nat /\ level[kind] \in Nat
        BY <3>1, Zenon
      <3> QED
        BY <3>1, <3>2, <3>3, SMTT(60)
    <2>3. ASSUME NEW i \in 1 .. Len(f), NEW j \in 1 .. Len(f), i < j
          PROVE  level[f[j].event.kind] < level[f[i].event.kind]
      <3>1. j - 1 \in 1 .. Len(g) /\ f[j] = g[j - 1]
        BY <1>0, <1>4, <2>3
      <3>2. CASE i = 1
        BY <1>1, <1>4, <2>2, <3>1, <3>2, Zenon
      <3>3. CASE i # 1
        <4>1. i - 1 \in 1 .. Len(g) /\ f[i] = g[i - 1] /\ i - 1 < j - 1
          BY <1>0, <1>4, <2>3, <3>3
        <4> QED
          BY <1>0, <3>1, <4>1, Zenon DEF Nests
      <3> QED
        BY <3>2, <3>3, Zenon
    <2> QED
      BY <1>4, <2>1, <2>3, Zenon DEF Nests
  <1>6. \A u \in Threads : Nests(level, u, new[u], n[u])
    <2> SUFFICES ASSUME NEW u \in Threads, u # t PROVE Nests(level, u, new[u], n[u])
      BY <1>2, <1>5, Zenon
    <2>1. new[u] = st[u] /\ Nests(level, u, st[u], c[u]) /\ c[u] \in Nat /\ n[u] \in Nat /\ c[u] <= n[u]
      BY <1>0, <1>2, <1>3, Zenon DEF OrderOK
    <2>2. \A i \in 1 .. Len(st[u]) : st[u][i].event.no \in Nat
      BY <2>1, FrameParts, Zenon DEF Nests
    <2> QED
      BY <2>1, <2>2 DEF Nests
  <1>7. ASSUME NEW s \in Subscribers
        PROVE  QueueIsOrdered(q[s], n, p[s])
    <2>1. QueueIsOrdered(q[s], c, p[s])
      BY Zenon DEF OrderOK
    <2>2. \A u \in Threads : p[s][u] \in Nat /\ c[u] \in Nat /\ n[u] \in Nat /\ c[u] <= n[u]
      BY <1>0, <1>3, <2>1, Zenon DEF QueueIsOrdered
    <2>3. \A i \in 1 .. Len(q[s]) : q[s][i].no \in Nat /\ q[s][i].by \in Threads
      BY <2>1, EventParts, Zenon DEF QueueIsOrdered
    <2>4. \A u \in Threads : p[s][u] <= n[u]
      BY <2>1, <2>2, SMTT(60) DEF QueueIsOrdered
    <2>5. ASSUME NEW i \in 1 .. Len(q[s]) PROVE q[s][i].no <= n[q[s][i].by]
      <3>1. q[s][i].no <= c[q[s][i].by]
        BY <2>1, Zenon DEF QueueIsOrdered
      <3> QED
        BY <2>2, <2>3, <3>1
    <2> QED
      BY <2>1, <2>4, <2>5, Zenon DEF QueueIsOrdered
  <1>8. ASSUME NEW u \in Threads, NEW s \in Subscribers, NEW i \in 1 .. Len(new[u]),
               KindOf[s] = new[u][i].event.kind
        PROVE  IsNewest(new[u][i].event, u, q[s], p[s])
    <2>1. CASE u = t /\ i = 1
      <3>1. new[u][i].event.no = c[t] + 1
        BY <1>1, <1>2, <1>4, <2>1, Zenon
      <3>2. QueueIsOrdered(q[s], c, p[s])
        BY Zenon DEF OrderOK
      <3>3. p[s][t] \in Nat /\ p[s][t] <= c[t]
        BY <3>2, Zenon DEF QueueIsOrdered
      <3>4. \A j \in 1 .. Len(q[s]) : q[s][j].by = t => q[s][j].no <= c[t] /\ q[s][j].no \in Nat
        BY <3>2, EventParts, Zenon DEF QueueIsOrdered
      <3> QED
        BY <1>0, <2>1, <3>1, <3>3, <3>4, SMTT(60) DEF IsNewest
    <2>2. CASE u = t /\ i # 1
      <3>1. i - 1 \in 1 .. Len(st[t]) /\ new[u][i] = st[t][i - 1]
        BY <1>2, <1>4, <2>2, Zenon
      <3> QED
        BY <1>8, <2>2, <3>1, NewestOf, Zenon
    <2>3. CASE u # t
      BY <1>2, <1>8, <2>3, Zenon DEF OrderOK
    <2> QED
      BY <2>1, <2>2, <2>3, Zenon
  <1>9. OrderOK(level, new, q, n, p)
    BY <1>2, <1>3, <1>6, <1>7, <1>8, Zenon DEF OrderOK
  <1> QED
    BY <1>9, Zenon DEF new, f, b, n
\* A goroutine is in at most one call of Send of a kind when the innermost is of that kind.
LEMMA InnermostIsAlone ==
  ASSUME NEW level, NEW t, NEW n, NEW f, Nests(level, t, f, n), level \in [Kinds -> Nat],
         NEW i \in 1 .. Len(f), f[i].event.kind = f[1].event.kind
  PROVE  i = 1
  <1> SUFFICES ASSUME i # 1 PROVE FALSE
    BY Zenon
  <1>1. f \in Seq(Frame) /\ Len(f) \in Nat /\ 1 \in 1 .. Len(f) /\ 1 < i
    BY DEF Nests
  <1>2. f[1].event.kind \in Kinds
    BY <1>1, FrameParts, Zenon
  <1>3. level[f[i].event.kind] < level[f[1].event.kind]
    BY <1>1, Zenon DEF Nests
  <1> QED
    BY <1>2, <1>3

\* Subscriber s has processed event e.
IsServed(p, s, e, after) == after = [p EXCEPT ![s][e.by] = e.no]

\* Event e is the one of t's innermost call, and s a synchronous subscriber of its kind.
Serves(t, s, e, st) == st[t] # <<>> /\ e = st[t][1].event /\ KindOf[s] = e.kind /\ ~Async(s)

\* A synchronous subscriber of the kind has processed the event of the innermost call.
LEMMA ServedOrder ==
  ASSUME NEW level, Descends(level), NEW st, NEW q, NEW c, NEW p, OrderOK(level, st, q, c, p),
         NEW t \in Threads, NEW s \in Subscribers, NEW e, Serves(t, s, e, st),
         NEW after, IsServed(p, s, e, after)
  PROVE  /\ OrderOK(level, st, q, c, after)
         /\ e.by = t /\ p[s][t] <= e.no
  <1>0. st[t] # <<>> /\ e = st[t][1].event /\ KindOf[s] = e.kind /\ ~Async(s)
    BY Zenon DEF Serves
  <1> DEFINE r == [p[s] EXCEPT ![t] = e.no]
             new == [p EXCEPT ![s] = r]
  <1>1. /\ Nests(level, t, st[t], c[t]) /\ QueueIsOrdered(q[s], c, p[s]) /\ q[s] = <<>>
        /\ st[t] \in Seq(Frame) /\ 1 \in 1 .. Len(st[t]) /\ c[t] \in Nat
    BY <1>0, SMTT(60) DEF OrderOK, Nests
  <1>2. e.by = t /\ e.no \in Nat /\ e.no <= c[t]
    BY <1>0, <1>1, FrameParts, Zenon DEF Nests
  <1>3. p[s] \in [Threads -> Nat] /\ IsNewest(e, t, q[s], p[s])
    BY <1>0, <1>1, Zenon DEF OrderOK, QueueIsOrdered
  <1>4. /\ new = [x \in Subscribers |-> new[x]] /\ new[s] = r
        /\ \A x \in Subscribers \ {s} : new[x] = p[x]
    BY Zenon DEF OrderOK
  <1>5. r \in [Threads -> Nat] /\ r[t] = e.no /\ \A u \in Threads \ {t} : r[u] = p[s][u]
    BY <1>2, <1>3, Zenon
  <1> HIDE DEF new, r
  <1>6. QueueIsOrdered(q[s], c, r)
    <2>1. \A u \in Threads : r[u] <= c[u]
      BY <1>1, <1>2, <1>5, Zenon DEF QueueIsOrdered
    <2>2. q[s] \in Seq(Event) /\ 1 .. Len(q[s]) = {}
      BY <1>1
    <2> QED
      BY <1>5, <2>1, <2>2, Zenon DEF QueueIsOrdered
  <1>7. ASSUME NEW u \in Threads, NEW x \in Subscribers, NEW i \in 1 .. Len(st[u]),
               KindOf[x] = st[u][i].event.kind
        PROVE  IsNewest(st[u][i].event, u, q[x], new[x])
    <2>1. CASE x # s
      BY <1>4, <1>7, <2>1, Zenon DEF OrderOK
    <2>2. CASE x = s /\ u # t
      <3>1. IsNewest(st[u][i].event, u, q[s], p[s])
        BY <1>7, <2>2, Zenon DEF OrderOK
      <3> QED
        BY <1>4, <1>5, <2>2, <3>1, Zenon DEF IsNewest
    <2>3. CASE x = s /\ u = t
      <3>1. i = 1
        BY <1>0, <1>1, <1>7, <2>3, InnermostIsAlone, Zenon DEF Descends
      <3> QED
        BY <1>0, <1>1, <1>2, <1>4, <1>5, <2>3, <3>1, SMTT(60) DEF IsNewest
    <2> QED
      BY <2>1, <2>2, <2>3, Zenon
  <1>8. \A x \in Subscribers : QueueIsOrdered(q[x], c, new[x])
    BY <1>4, <1>6, Zenon DEF OrderOK
  <1>9. OrderOK(level, st, q, c, new)
    BY <1>4, <1>7, <1>8, Zenon DEF OrderOK
  <1> QED
    BY <1>2, <1>3, <1>9, Zenon DEF new, r, IsNewest, IsServed
\* The drainer of s has processed the first event of its channel.
LEMMA DrainedOrder ==
  ASSUME NEW level, NEW st, NEW q, NEW c, NEW p, OrderOK(level, st, q, c, p),
         NEW s \in Subscribers, q[s] # <<>>, NEW e, e = q[s][1]
  PROVE  /\ OrderOK(level, st, [q EXCEPT ![s] = Tail(@)], c, [p EXCEPT ![s][e.by] = e.no])
         /\ e.by \in Threads /\ p[s] \in [Threads -> Nat] /\ p[s][e.by] <= e.no
  <1> DEFINE b == e.by
             g == q[s]
             f == Tail(g)
             r == [p[s] EXCEPT ![b] = e.no]
             new == [p EXCEPT ![s] = r]
             rest == [q EXCEPT ![s] = f]
  <1>1. QueueIsOrdered(g, c, p[s])
    BY Zenon DEF OrderOK
  <1>2. g \in Seq(Event) /\ 1 \in 1 .. Len(g) /\ Len(g) \in Nat /\ p[s] \in [Threads -> Nat]
    BY <1>1 DEF QueueIsOrdered
  <1>3. /\ f \in Seq(Event) /\ Len(f) \in Nat
        /\ \A i \in 1 .. Len(f) : i + 1 \in 1 .. Len(g) /\ f[i] = g[i + 1]
    BY <1>2
  <1>4. e.no \in Nat /\ b \in Threads /\ p[s][b] <= e.no /\ e.no <= c[b]
    BY <1>1, <1>2, EventParts, Zenon DEF QueueIsOrdered
  <1>5. /\ new = [x \in Subscribers |-> new[x]] /\ new[s] = r
        /\ \A x \in Subscribers \ {s} : new[x] = p[x]
    BY Zenon DEF OrderOK
  <1>6. /\ rest = [x \in Subscribers |-> rest[x]] /\ rest[s] = f
        /\ \A x \in Subscribers \ {s} : rest[x] = q[x]
    BY Zenon DEF OrderOK
  <1>7. r \in [Threads -> Nat] /\ r[b] = e.no /\ \A u \in Threads \ {b} : r[u] = p[s][u]
    BY <1>2, <1>4, Zenon
  <1> HIDE DEF new, r, rest, f, b
  <1>8. QueueIsOrdered(f, c, r)
    <2>1. \A t \in Threads : r[t] <= c[t]
      BY <1>1, <1>4, <1>7, Zenon DEF QueueIsOrdered
    <2>2. ASSUME NEW i \in 1 .. Len(f) PROVE r[f[i].by] <= f[i].no /\ f[i].no <= c[f[i].by]
      <3>1. f[i] = g[i + 1] /\ i + 1 \in 1 .. Len(g) /\ 1 < i + 1 /\ f[i].by \in Threads
        BY <1>2, <1>3, EventParts
      <3>2. p[s][f[i].by] <= f[i].no /\ f[i].no <= c[f[i].by]
        BY <1>1, <3>1, Zenon DEF QueueIsOrdered
      <3>3. f[i].by = b => e.no <= f[i].no
        BY <1>1, <1>2, <3>1, Zenon DEF QueueIsOrdered, b
      <3> QED
        BY <1>7, <3>1, <3>2, <3>3, Zenon
    <2>3. ASSUME NEW i \in 1 .. Len(f), NEW j \in 1 .. Len(f), i < j, f[i].by = f[j].by
          PROVE  f[i].no <= f[j].no
      <3>1. f[i] = g[i + 1] /\ i + 1 \in 1 .. Len(g) /\ f[j] = g[j + 1] /\ j + 1 \in 1 .. Len(g)
            /\ i + 1 < j + 1
        BY <1>3, <2>3, SMTT(60)
      <3> QED
        BY <1>1, <2>3, <3>1, Zenon DEF QueueIsOrdered
    <2> QED
      BY <1>3, <1>7, <2>1, <2>2, <2>3, Zenon DEF QueueIsOrdered
  <1>9. ASSUME NEW u \in Threads, NEW x \in Subscribers, NEW i \in 1 .. Len(st[u]),
               KindOf[x] = st[u][i].event.kind
        PROVE  IsNewest(st[u][i].event, u, rest[x], new[x])
    <2>0. IsNewest(st[u][i].event, u, q[x], p[x])
      BY <1>9, Zenon DEF OrderOK
    <2>1. CASE x # s
      BY <1>5, <1>6, <2>0, <2>1, Zenon
    <2>2. CASE x = s
      <3>1. \A j \in 1 .. Len(f) : f[j].by = u => f[j].no <= st[u][i].event.no
        BY <1>3, <2>0, <2>2, Zenon DEF IsNewest
      <3>2. u = b => e.no <= st[u][i].event.no
        BY <1>2, <2>0, <2>2, Zenon DEF IsNewest, b
      <3> QED
        BY <1>5, <1>6, <1>7, <2>0, <2>2, <3>1, <3>2, Zenon DEF IsNewest
    <2> QED
      BY <2>1, <2>2, Zenon
  <1>10. \A x \in Subscribers : QueueIsOrdered(rest[x], c, new[x]) /\ (~Async(x) => rest[x] = <<>>)
    <2>1. Async(s)
      BY Zenon DEF OrderOK
    <2> QED
      BY <1>5, <1>6, <1>8, <2>1, Zenon DEF OrderOK
  <1>11. OrderOK(level, st, rest, c, new)
    BY <1>5, <1>6, <1>9, <1>10, Zenon DEF OrderOK
  <1> QED
    BY <1>2, <1>4, <1>11, Zenon DEF new, r, rest, f, b

\* The event of the innermost call has gone into the channel of a subscriber of its kind.
LEMMA EnqueuedOrder ==
  ASSUME NEW level \in [Kinds -> Nat], NEW st, NEW q, NEW c, NEW p, OrderOK(level, st, q, c, p),
         NEW t \in Threads, NEW s \in Subscribers, NEW e, st[t] # <<>>, e = st[t][1].event,
         KindOf[s] = e.kind, Async(s)
  PROVE  OrderOK(level, st, [q EXCEPT ![s] = Append(@, e)], c, p)
  <1> DEFINE g == q[s]
             f == Append(g, e)
             new == [q EXCEPT ![s] = f]
  <1>0. Nests(level, t, st[t], c[t]) /\ QueueIsOrdered(g, c, p[s]) /\ c[t] \in Nat
    BY Zenon DEF OrderOK
  <1>1. /\ Nests(level, t, st[t], c[t]) /\ QueueIsOrdered(g, c, p[s])
        /\ st[t] \in Seq(Frame) /\ 1 \in 1 .. Len(st[t]) /\ c[t] \in Nat
        /\ g \in Seq(Event) /\ Len(g) \in Nat
    BY <1>0, SMTT(60) DEF Nests, QueueIsOrdered
  <1>2. e.by = t /\ e.no \in Nat /\ e.no <= c[t] /\ e \in Event
    BY <1>1, FrameParts, Zenon DEF Nests
  <1>3. IsNewest(e, t, g, p[s])
    BY <1>1, Zenon DEF OrderOK
  <1>4. /\ new = [x \in Subscribers |-> new[x]] /\ new[s] = f
        /\ \A x \in Subscribers \ {s} : new[x] = q[x]
    BY Zenon DEF OrderOK
  <1>5. /\ f \in Seq(Event) /\ Len(f) = Len(g) + 1 /\ f[Len(f)] = e
        /\ \A i \in 1 .. Len(f) : i # Len(f) => i \in 1 .. Len(g) /\ f[i] = g[i]
    BY <1>1, <1>2
  <1> HIDE DEF new, f
  <1>6. QueueIsOrdered(f, c, p[s])
    <2>1. ASSUME NEW i \in 1 .. Len(f) PROVE p[s][f[i].by] <= f[i].no /\ f[i].no <= c[f[i].by]
      BY <1>1, <1>2, <1>3, <1>5, Zenon DEF QueueIsOrdered, IsNewest
    <2>2. ASSUME NEW i \in 1 .. Len(f), NEW j \in 1 .. Len(f), i < j, f[i].by = f[j].by
          PROVE  f[i].no <= f[j].no
      <3>1. i \in 1 .. Len(g) /\ f[i] = g[i]
        BY <1>1, <1>5, <2>2, SMTT(60)
      <3>2. CASE j = Len(f)
        BY <1>2, <1>3, <1>5, <2>2, <3>1, <3>2, Zenon DEF IsNewest
      <3>3. CASE j # Len(f)
        BY <1>1, <1>5, <2>2, <3>1, <3>3, Zenon DEF QueueIsOrdered
      <3> QED
        BY <3>2, <3>3, Zenon
    <2> QED
      BY <1>1, <1>5, <2>1, <2>2, Zenon DEF QueueIsOrdered
  <1>7. ASSUME NEW u \in Threads, NEW x \in Subscribers, NEW i \in 1 .. Len(st[u]),
               KindOf[x] = st[u][i].event.kind
        PROVE  IsNewest(st[u][i].event, u, new[x], p[x])
    <2>0. IsNewest(st[u][i].event, u, q[x], p[x])
      BY <1>7, Zenon DEF OrderOK
    <2>1. CASE x # s
      BY <1>4, <2>0, <2>1, Zenon
    <2>2. CASE x = s /\ u # t
      BY <1>2, <1>4, <1>5, <2>0, <2>2, ZenonT(60) DEF IsNewest
    <2>3. CASE x = s /\ u = t
      <3>1. i = 1
        BY <1>1, <1>7, <2>3, InnermostIsAlone, Zenon
      <3> QED
        BY <1>2, <1>4, <1>5, <2>0, <2>3, <3>1, SMTT(60) DEF IsNewest
    <2> QED
      BY <2>1, <2>2, <2>3, Zenon
  <1>8. \A x \in Subscribers : QueueIsOrdered(new[x], c, p[x]) /\ (~Async(x) => new[x] = <<>>)
    BY <1>4, <1>6, Zenon DEF OrderOK
  <1>9. OrderOK(level, st, new, c, p)
    BY <1>4, <1>7, <1>8, Zenon DEF OrderOK
  <1> QED
    BY <1>9, Zenon DEF new, f
\* Send returns, or goes on with the innermost call.
LEMMA TailContinues ==
  ASSUME NEW g \in Seq(Frame), g # <<>>, \A i \in 1 .. Len(g) : TodoIsOfKind(g[i])
  PROVE  Continues(Tail(g), g)
  <1> DEFINE f == Tail(g)
  <1>1. /\ f \in Seq(Frame) /\ Len(g) = Len(f) + 1
        /\ \A i \in 1 .. Len(f) : i + 1 \in 1 .. Len(g) /\ f[i] = g[i + 1]
    OBVIOUS
  <1> HIDE DEF f
  <1>2. \A i \in 1 .. Len(f) : f[i].event = g[i + 1].event /\ TodoIsOfKind(f[i])
    BY <1>1, Zenon
  <1>3. Continues(f, g)
    BY <1>1, <1>2, Zenon DEF Continues
  <1> QED
    BY <1>3, Zenon DEF f

LEMMA HeadContinues ==
  ASSUME NEW g \in Seq(Frame), g # <<>>, \A i \in 1 .. Len(g) : TodoIsOfKind(g[i]),
         NEW h \in Frame, h.event = g[1].event, TodoIsOfKind(h)
  PROVE  Continues([g EXCEPT ![1] = h], g)
  <1> DEFINE f == [g EXCEPT ![1] = h]
  <1>1. /\ f \in Seq(Frame) /\ Len(g) = Len(f) /\ Len(f) \in Nat /\ 1 \in 1 .. Len(g) /\ f[1] = h
        /\ \A i \in 1 .. Len(f) : i # 1 => f[i] = g[i]
    OBVIOUS
  <1> HIDE DEF f
  <1>2. \A i \in 1 .. Len(f) : f[i].event = g[i].event /\ TodoIsOfKind(f[i])
    BY <1>1, Zenon
  <1>3. Len(g) = Len(f) + 0 /\ \A i \in 1 .. Len(f) : i + 0 = i
    BY <1>1
  <1>4. Continues(f, g)
    BY <1>1, <1>2, <1>3, Zenon DEF Continues
  <1> QED
    BY <1>4, Zenon DEF f

\* What Send needs to know of the call it is in.
LEMMA InsideSend ==
  ASSUME NEW level, NEW st, NEW q, NEW c, NEW p, OrderOK(level, st, q, c, p),
         NEW t \in Threads, st[t] # <<>>
  PROVE  /\ st[t] \in Seq(Frame) /\ \A i \in 1 .. Len(st[t]) : TodoIsOfKind(st[t][i])
         /\ Head(st[t]) = st[t][1] /\ st[t][1] \in Frame /\ TodoIsOfKind(st[t][1])
         /\ st[t][1].event \in Event /\ st[t][1].todo \in Seq(Subscribers)
         /\ st[t][1].event.kind \in Kinds /\ st[t][1].event.by = t
  <1>1. Nests(level, t, st[t], c[t])
    BY Zenon DEF OrderOK
  <1>2. st[t] \in Seq(Frame) /\ 1 \in 1 .. Len(st[t])
    BY <1>1 DEF Nests
  <1> QED
    BY <1>1, <1>2, FrameParts DEF Nests

LEMMA ReturnedOrder ==
  ASSUME NEW level, NEW st, NEW q, NEW c, NEW p, OrderOK(level, st, q, c, p),
         NEW t \in Threads, st[t] # <<>>
  PROVE  OrderOK(level, [st EXCEPT ![t] = Tail(@)], q, c, p)
  BY InsideSend, TailContinues, ContinuedOrder, Zenon

LEMMA MovedOrder ==
  ASSUME NEW level, NEW st, NEW q, NEW c, NEW p, OrderOK(level, st, q, c, p),
         NEW t \in Threads, st[t] # <<>>,
         NEW h \in Frame, h.event = st[t][1].event, TodoIsOfKind(h)
  PROVE  OrderOK(level, [st EXCEPT ![t] = [@ EXCEPT ![1] = h]], q, c, p)
  BY InsideSend, HeadContinues, ContinuedOrder, Zenon

Ordered(level) == OrderOK(level, stack, queue, count, last)

NothingGoesBack == \A s \in Subscribers, t \in Threads : last'[s][t] >= last[s][t]

LEMMA NothingProcessed ==
  ASSUME NEW level, Ordered(level), UNCHANGED last
  PROVE  NothingGoesBack
  <1>1. \A s \in Subscribers : last[s] \in [Threads -> Nat]
    BY Zenon DEF Ordered, OrderOK, QueueIsOrdered
  <1> QED
    BY <1>1 DEF NothingGoesBack

LEMMA BeginSendOrder ==
  ASSUME NEW level, Descends(level), Ordered(level), NEW t \in Threads, BeginSend(t)
  PROVE  OrderOK(level, stack', queue', count', last') /\ NothingGoesBack
  <1>1. /\ stack' = [stack EXCEPT ![t] = <<Begun(t, KindOf[t], count[t])>> \o @]
        /\ count' = [count EXCEPT ![t] = @ + 1] /\ queue' = queue /\ last' = last
        /\ stack[t] = <<>> /\ KindOf[t] \in Kinds
    BY BusAssumption, Zenon DEF BeginSend, Call, Begun, Threads
  <1>2. OrderOK(level, stack', queue', count', last')
    BY <1>1, BegunOrder, Zenon DEF Ordered, Descends
  <1> QED
    BY <1>1, <1>2, NothingProcessed, Zenon

LEMMA CheckStoppedOrder ==
  ASSUME NEW level, Ordered(level), NEW t \in Threads, CheckStopped(t)
  PROVE  OrderOK(level, stack', queue', count', last') /\ NothingGoesBack
  <1>1. queue' = queue /\ count' = count /\ last' = last /\ stack[t] # <<>>
    BY Zenon DEF CheckStopped, InSend
  <1>2. CASE stopped
    BY <1>1, <1>2, ReturnedOrder, NothingProcessed DEF CheckStopped, Return, Ordered
  <1>3. CASE ~stopped
    <2> DEFINE h == [stack[t][1] EXCEPT !.at = "lock"]
    <2>1. stack[t][1] \in Frame /\ TodoIsOfKind(stack[t][1])
      BY <1>1, InsideSend, Zenon DEF Ordered
    <2>2. h \in Frame /\ h.event = stack[t][1].event /\ h.todo = stack[t][1].todo
      BY <2>1, Zenon DEF Frame
    <2>3. TodoIsOfKind(h)
      BY <2>1, <2>2, Zenon DEF TodoIsOfKind
    <2>4. stack' = [stack EXCEPT ![t] = [@ EXCEPT ![1] = h]]
      BY <1>3, Zenon DEF CheckStopped
    <2> HIDE DEF h
    <2> QED
      BY <1>1, <2>2, <2>3, <2>4, MovedOrder, NothingProcessed, Zenon DEF Ordered
  <1> QED
    BY <1>2, <1>3, Zenon

LEMMA ReadLockOrder ==
  ASSUME NEW level, Shapes, Ordered(level), NEW t \in Threads, ReadLock(t)
  PROVE  OrderOK(level, stack', queue', count', last') /\ NothingGoesBack
  <1>1. queue' = queue /\ count' = count /\ last' = last /\ stack[t] # <<>>
    BY Zenon DEF ReadLock, InSend
  <1> DEFINE k == stack[t][1].event.kind
             h == [stack[t][1] EXCEPT !.at = "loop", !.todo = dir[k]]
  <1>2. stack[t][1] \in Frame /\ k \in Kinds /\ Head(stack[t]) = stack[t][1] /\ stack[t] \in Seq(Frame)
    BY <1>1, InsideSend DEF Ordered
  <1>3. dir[k] \in Seq(Subscribers) /\ \A i \in 1 .. Len(dir[k]) : KindOf[dir[k][i]] = k
    BY <1>2, Zenon DEF Shapes
  <1>4. h \in Frame /\ h.event = stack[t][1].event /\ h.todo = dir[k]
    BY <1>2, <1>3, Zenon DEF Frame
  <1>5. TodoIsOfKind(h)
    BY <1>3, <1>4, Zenon DEF TodoIsOfKind
  <1>6. stack' = [stack EXCEPT ![t] = [@ EXCEPT ![1] = h]]
    <2>1. stack = [u \in Threads |-> stack[u]] /\ 1 \in DOMAIN stack[t]
      BY <1>1, <1>2 DEF Shapes
    <2>2. stack' = [stack EXCEPT ![t][1].at = "loop", ![t][1].todo = dir[k]]
      BY <1>2, Zenon DEF ReadLock
    <2> QED
      BY <1>2, <2>1, <2>2, Zenon DEF Frame
  <1> HIDE DEF h
  <1> QED
    BY <1>1, <1>4, <1>5, <1>6, MovedOrder, NothingProcessed, Zenon DEF Ordered

LEMMA ReturnSendOrder ==
  ASSUME NEW level, Ordered(level), NEW t \in Threads, ReturnSend(t)
  PROVE  OrderOK(level, stack', queue', count', last') /\ NothingGoesBack
  BY ReturnedOrder, NothingProcessed, Zenon DEF ReturnSend, InSend, Return, Ordered
\* One subscriber fewer is left to serve.
LEMMA ServedFrame ==
  ASSUME NEW level, Ordered(level), NEW t \in Threads, stack[t] # <<>>, Head(stack[t]).todo # <<>>,
         NEW s, s = Head(Head(stack[t]).todo), NEW h, h = [stack[t][1] EXCEPT !.todo = Tail(@)]
  PROVE  /\ Head(stack[t]) = stack[t][1] /\ s \in Subscribers /\ KindOf[s] = stack[t][1].event.kind
         /\ h \in Frame /\ h.event = stack[t][1].event /\ TodoIsOfKind(h)
         /\ stack[t] \in Seq(Frame) /\ 1 \in DOMAIN stack[t]
  <1> DEFINE d == stack[t][1].todo
  <1>1. /\ stack[t][1] \in Frame /\ TodoIsOfKind(stack[t][1]) /\ d \in Seq(Subscribers)
        /\ Head(stack[t]) = stack[t][1] /\ stack[t] \in Seq(Frame)
    BY InsideSend DEF Ordered
  <1>2. d # <<>> /\ s = d[1] /\ 1 \in 1 .. Len(d) /\ s \in Subscribers
    BY <1>1
  <1>3. KindOf[s] = stack[t][1].event.kind
    BY <1>1, <1>2, Zenon DEF TodoIsOfKind
  <1>4. /\ Tail(d) \in Seq(Subscribers)
        /\ \A j \in 1 .. Len(Tail(d)) : j + 1 \in 1 .. Len(d) /\ Tail(d)[j] = d[j + 1]
    BY <1>1, <1>2, SMTT(60)
  <1>5. h \in Frame /\ h.event = stack[t][1].event /\ h.todo = Tail(d)
    BY <1>1, <1>4, Zenon DEF Frame
  <1>6. TodoIsOfKind(h)
    BY <1>1, <1>4, <1>5 DEF TodoIsOfKind
  <1>7. 1 \in DOMAIN stack[t]
    BY <1>1
  <1> QED
    BY <1>1, <1>2, <1>3, <1>5, <1>6, <1>7, Zenon

LEMMA EnqueueOrder ==
  ASSUME NEW level, Descends(level), Ordered(level), NEW t \in Threads, Enqueue(t)
  PROVE  OrderOK(level, stack', queue', count', last') /\ NothingGoesBack
  <1> DEFINE s == Head(Head(stack[t]).todo)
             e == stack[t][1].event
             h == [stack[t][1] EXCEPT !.todo = Tail(@)]
             q == [queue EXCEPT ![s] = Append(@, e)]
  <1>1. /\ count' = count /\ last' = last /\ stack[t] # <<>> /\ Head(stack[t]).todo # <<>>
        /\ Async(s) /\ stack' = [stack EXCEPT ![t][1].todo = Tail(@)]
    BY Zenon DEF Enqueue, InSend
  <1>2. /\ Head(stack[t]) = stack[t][1] /\ s \in Subscribers /\ KindOf[s] = e.kind
        /\ h \in Frame /\ h.event = stack[t][1].event /\ TodoIsOfKind(h)
    BY <1>1, ServedFrame, Zenon
  <1>3. queue' = queue \/ queue' = q
    <2>1. queue = [queue EXCEPT ![s] = queue[s]]
      BY Zenon DEF Ordered, OrderOK
    <2> QED
      BY <1>2, <2>1, Zenon DEF Enqueue, Enqueued
  <1>4. stack' = [stack EXCEPT ![t] = [@ EXCEPT ![1] = h]]
    BY <1>1, Zenon
  <1> HIDE DEF s, h
  <1>5. OrderOK(level, stack, q, count, last)
    BY <1>1, <1>2, EnqueuedOrder, Zenon DEF Ordered, Descends
  <1>6. OrderOK(level, stack, queue', count, last)
    BY <1>3, <1>5, Zenon DEF Ordered
  <1>7. OrderOK(level, [stack EXCEPT ![t] = [@ EXCEPT ![1] = h]], queue', count, last)
    BY <1>1, <1>2, <1>6, MovedOrder, Zenon
  <1> QED
    BY <1>1, <1>4, <1>7, NothingProcessed, Zenon

\* ProcessEvent takes what is left of the channel and the calls f that t is then in, and
\* may announce what the subscriber derives.
LEMMA ProcessOrder ==
  ASSUME NEW level \in [Kinds -> Nat], NEW st, NEW q, NEW p, OrderOK(level, st, q, count, p),
         NEW s \in Subscribers, NEW e, NEW t \in Threads, NEW f, Process(s, e, t, f),
         stack = [u \in Threads |-> stack[u]],
         st = [stack EXCEPT ![t] = f], last' = p, queue' = q,
         f # <<>> /\ Emits[s] # NoKind => level[f[1].event.kind] < level[Emits[s]]
  PROVE  OrderOK(level, stack', queue', count', last')
  <1>1. CASE stack' = st /\ UNCHANGED count
    BY <1>1, Zenon
  <1>2. CASE /\ Emits[s] # NoKind /\ count' = [count EXCEPT ![t] = @ + 1]
             /\ stack' = [stack EXCEPT ![t] = <<Begun(t, Emits[s], count[t])>> \o f]
    <2>1. Emits[s] \in Kinds
      BY <1>2, BusAssumption, Zenon
    <2>2. st[t] = f /\ stack' = [st EXCEPT ![t] = <<Begun(t, Emits[s], count[t])>> \o @]
      BY <1>2, Zenon
    <2>3. OrderOK(level, [st EXCEPT ![t] = <<Begun(t, Emits[s], count[t])>> \o @], q,
                  [count EXCEPT ![t] = @ + 1], p)
      BY <1>2, <2>1, <2>2, BegunOrder, Zenon
    <2> QED
      BY <1>2, <2>2, <2>3, Zenon
  <1> QED
    BY <1>1, <1>2, Zenon DEF Process, Begun

\* What one subscriber processed is all that changes.
LEMMA OneProcessed ==
  ASSUME NEW level, Ordered(level), NEW s \in Subscribers, NEW b \in Threads, NEW n,
         last' = [last EXCEPT ![s][b] = n], last[s][b] <= n, n \in Nat
  PROVE  NothingGoesBack
  <1>1. \A x \in Subscribers : last[x] \in [Threads -> Nat]
    BY Zenon DEF Ordered, OrderOK, QueueIsOrdered
  <1>2. last = [x \in Subscribers |-> last[x]]
    BY Zenon DEF Ordered, OrderOK
  <1>3. \A x \in Subscribers, u \in Threads :
          last'[x][u] = IF x = s /\ u = b THEN n ELSE last[x][u]
    BY <1>1, <1>2, Zenon
  <1> QED
    BY <1>1, <1>3 DEF NothingGoesBack

LEMMA ProcessSyncOrder ==
  ASSUME NEW level, Descends(level), Ordered(level), NEW t \in Threads, ProcessSync(t)
  PROVE  OrderOK(level, stack', queue', count', last') /\ NothingGoesBack
  <1> DEFINE s == Head(Head(stack[t]).todo)
             e == stack[t][1].event
             h == [stack[t][1] EXCEPT !.todo = Tail(@)]
             f == [stack[t] EXCEPT ![1] = h]
             p == [last EXCEPT ![s][e.by] = e.no]
  <1>1. /\ queue' = queue /\ stack[t] # <<>> /\ Head(stack[t]).todo # <<>> /\ ~Async(s)
        /\ Process(s, Head(stack[t]).event, t, [stack[t] EXCEPT ![1].todo = Tail(@)])
    BY Zenon DEF ProcessSync, InSend
  <1>2. /\ Head(stack[t]) = stack[t][1] /\ s \in Subscribers /\ KindOf[s] = e.kind
        /\ h \in Frame /\ h.event = stack[t][1].event /\ TodoIsOfKind(h)
        /\ stack[t] \in Seq(Frame) /\ 1 \in DOMAIN stack[t]
    BY <1>1, ServedFrame, Zenon
  <1>3. Process(s, e, t, f)
    BY <1>1, <1>2, Zenon
  <1>4. last' = p
    BY <1>3, Zenon DEF Process
  <1>5. f[1] = h /\ f # <<>>
    BY <1>2
  <1> HIDE DEF s, h
  <1>6. OrderOK(level, stack, queue, count, p) /\ e.by = t /\ last[s][t] <= e.no
    <2>1. OrderOK(level, stack, queue, count, last)
      BY Zenon DEF Ordered
    <2>2. Serves(t, s, e, stack)
      BY <1>1, <1>2, Zenon DEF Serves
    <2>3. PICK n : n = p
      BY Zenon
    <2>4. PICK x : x = e
      BY Zenon
    <2>5. Serves(t, s, x, stack) /\ IsServed(last, s, x, n) /\ s \in Subscribers
      BY <1>2, <2>2, <2>3, <2>4, Zenon DEF IsServed
    <2> HIDE DEF e, p
    <2>6. OrderOK(level, stack, queue, count, n) /\ x.by = t /\ last[s][t] <= x.no
      BY <2>1, <2>5, ServedOrder
    <2> QED
      BY <2>3, <2>4, <2>6, Zenon
  <1>7. OrderOK(level, [stack EXCEPT ![t] = [@ EXCEPT ![1] = h]], queue, count, p)
    BY <1>1, <1>2, <1>6, MovedOrder, Zenon
  <1>8. Emits[s] # NoKind => level[f[1].event.kind] < level[Emits[s]]
    BY <1>1, <1>2, <1>5, Zenon DEF Descends
  <1>9. level \in [Kinds -> Nat] /\ stack = [u \in Threads |-> stack[u]]
    BY Zenon DEF Descends, Ordered, OrderOK
  <1> HIDE DEF f, p
  <1>10. OrderOK(level, stack', queue', count', last')
    <2>1. OrderOK(level, [stack EXCEPT ![t] = f], queue, count, p)
      BY <1>7, Zenon DEF f
    <2> QED
      BY <1>1, <1>2, <1>3, <1>4, <1>8, <1>9, <2>1, ProcessOrder, Zenon
  <1>11. e.no \in Nat
    BY <1>1, InsideSend, Zenon DEF Ordered, Event
  <1> QED
    BY <1>2, <1>4, <1>6, <1>10, <1>11, OneProcessed, Zenon DEF p

LEMMA DrainOrder ==
  ASSUME NEW level, Descends(level), Ordered(level), NEW s \in Subscribers, Drain(s)
  PROVE  OrderOK(level, stack', queue', count', last') /\ NothingGoesBack
  <1> DEFINE e == queue[s][1]
             q == [queue EXCEPT ![s] = Tail(@)]
             p == [last EXCEPT ![s][e.by] = e.no]
  <1>1. queue' = q /\ queue[s] # <<>> /\ stack[s] = <<>> /\ Process(s, Head(queue[s]), s, <<>>)
    BY Zenon DEF Drain, Draining
  <1>2. queue[s] \in Seq(Event) /\ 1 \in 1 .. Len(queue[s])
    <2>1. QueueIsOrdered(queue[s], count, last[s])
      BY Zenon DEF Ordered, OrderOK
    <2> QED
      BY <1>1, <2>1 DEF QueueIsOrdered
  <1>3. Head(queue[s]) = e /\ e.no \in Nat /\ e.by \in Threads
    BY <1>2, EventParts
  <1>4. Process(s, e, s, <<>>)
    BY <1>1, <1>3, Zenon
  <1>5. last' = p
    BY <1>4, Zenon DEF Process
  <1>6. OrderOK(level, stack, q, count, p) /\ last[s][e.by] <= e.no
    BY <1>1, DrainedOrder, Zenon DEF Ordered
  <1>7. level \in [Kinds -> Nat] /\ stack = [u \in Threads |-> stack[u]] /\ s \in Threads
    BY Zenon DEF Descends, Ordered, OrderOK, Threads
  <1>8. stack = [stack EXCEPT ![s] = <<>>]
    BY <1>1, <1>7, Zenon
  <1> HIDE DEF p, q
  <1>9. OrderOK(level, stack', queue', count', last')
    BY <1>1, <1>4, <1>5, <1>6, <1>7, <1>8, ProcessOrder, Zenon
  <1> QED
    BY <1>3, <1>5, <1>6, <1>9, OneProcessed, Zenon DEF p
\* The steps that neither send nor process leave the order alone.
LEMMA OtherOrder ==
  ASSUME NEW level, Ordered(level), UNCHANGED <<stack, queue, count, last>>
  PROVE  OrderOK(level, stack', queue', count', last') /\ NothingGoesBack
  BY NothingProcessed, Zenon DEF Ordered

LEMMA StepOrder ==
  ASSUME NEW level, Descends(level), Shapes, Ordered(level), [Next]_vars
  PROVE  OrderOK(level, stack', queue', count', last') /\ NothingGoesBack
  <1>1. ASSUME NEW t \in Threads, SendStep(t)
        PROVE  OrderOK(level, stack', queue', count', last') /\ NothingGoesBack
    BY <1>1, BeginSendOrder, CheckStoppedOrder, ReadLockOrder, EnqueueOrder, ProcessSyncOrder,
       ReturnSendOrder, Zenon DEF SendStep
  <1>2. ASSUME NEW s \in Subscribers, BeginSubscribe(s) \/ SubscribeStep(s) \/ DrainerStep(s)
        PROVE  OrderOK(level, stack', queue', count', last') /\ NothingGoesBack
    <2>1. CASE Drain(s)
      BY <2>1, DrainOrder, Zenon
    <2>2. CASE BeginSubscribe(s) \/ SubscribeStep(s) \/ EndDrainer(s)
      <3>1. UNCHANGED <<stack, queue, count, last>>
        BY <2>2, Zenon DEF BeginSubscribe, SubscribeStep, AppendState, Launch, EndDrainer
      <3> QED
        BY <3>1, OtherOrder, Zenon
    <2> QED
      BY <1>2, <2>1, <2>2, Zenon DEF DrainerStep
  <1>3. CASE BeginStart \/ FinishStart \/ BeginStop \/ StopStep \/ UNCHANGED vars
    <2>1. UNCHANGED <<stack, queue, count, last>>
      BY <1>3, Zenon DEF BeginStart, FinishStart, BeginStop, StopStep, CloseChannels, FinishStop, vars
    <2> QED
      BY <2>1, OtherOrder, Zenon
  <1> QED
    BY <1>1, <1>2, <1>3, Zenon DEF Next

LEMMA InitOrder ==
  ASSUME NEW level, Init
  PROVE  Ordered(level)
  <1>1. /\ stack = [t \in Threads |-> stack[t]] /\ queue = [s \in Subscribers |-> queue[s]]
        /\ last = [s \in Subscribers |-> last[s]] /\ count \in [Threads -> Nat]
        /\ \A t \in Threads : stack[t] = <<>> /\ count[t] = 0
        /\ \A s \in Subscribers : queue[s] = <<>> /\ last[s] = [t \in Threads |-> 0]
    BY Zenon DEF Init
  <1>2. <<>> \in Seq(Frame) /\ <<>> \in Seq(Event) /\ Len(<<>>) = 0 /\ 1 .. 0 = {}
    OBVIOUS
  <1>3. \A t \in Threads : Nests(level, t, stack[t], count[t])
    BY <1>1, <1>2, Zenon DEF Nests
  <1>4. \A s \in Subscribers : QueueIsOrdered(queue[s], count, last[s])
    <2> SUFFICES ASSUME NEW s \in Subscribers PROVE QueueIsOrdered(queue[s], count, last[s])
      BY Zenon
    <2>1. queue[s] = <<>> /\ last[s] \in [Threads -> Nat] /\ \A t \in Threads : last[s][t] = 0 /\ count[t] = 0
      BY <1>1
    <2> HIDE DEF Event
    <2> QED
      BY <1>2, <2>1 DEF QueueIsOrdered
  <1> QED
    BY <1>1, <1>2, <1>3, <1>4, Zenon DEF Ordered, OrderOK
-----------------------------------------------------------------------------
(* Types *)

\* What the order of events does not say of the variables' types.
SmallTypes ==
  /\ starter \in {"idle", "launching", "done"}
  /\ stopper \in {"idle", "closing", "waiting", "done"}
  /\ admin \in [Subscribers -> AdminSteps]
  /\ closed \subseteq Subscribers
  /\ ended \subseteq Subscribers
  /\ \A s \in Subscribers : Len(queue[s]) <= BufferSize

LEMMA InitTypes == Init => SmallTypes
  <1> SUFFICES ASSUME Init PROVE SmallTypes
    BY Zenon
  <1>1. \A s \in Subscribers : Len(queue[s]) <= BufferSize
    BY BusAssumption DEF Init
  <1> QED
    BY <1>1, Zenon DEF Init, SmallTypes, AdminSteps

\* Only Send puts anything into a channel, and only while there is room.
LEMMA QueuesAreBounded ==
  ASSUME NEW level, Descends(level), Ordered(level), SmallTypes, NEW t \in Threads, Enqueue(t)
  PROVE  \A s \in Subscribers : Len(queue'[s]) <= BufferSize
  <1> DEFINE s == Head(Head(stack[t]).todo)
             e == Head(stack[t]).event
  <1>1. stack[t] # <<>> /\ Head(stack[t]).todo # <<>>
    BY Zenon DEF Enqueue, InSend
  <1>2. s \in Subscribers
    BY <1>1, ServedFrame, Zenon
  <1>3. queue = [x \in Subscribers |-> queue[x]] /\ \A x \in Subscribers : queue[x] \in Seq(Event)
    BY Zenon DEF Ordered, OrderOK, QueueIsOrdered
  <1>4. queue' = queue \/ queue' = [queue EXCEPT ![s] = Enqueued(s, e)]
    BY Zenon DEF Enqueue
  <1>5. Len(Enqueued(s, e)) <= BufferSize
    <2>1. e \in Event
      BY <1>1, InsideSend DEF Ordered
    <2> HIDE DEF s, e
    <2>2. Len(queue[s]) \in Nat /\ Len(queue[s]) <= BufferSize
      BY <1>2, <1>3 DEF SmallTypes
    <2>3. Len(Append(queue[s], e)) = Len(queue[s]) + 1
      BY <1>2, <1>3, <2>1
    <2> QED
      BY <2>2, <2>3, BusAssumption DEF Enqueued
  <1> HIDE DEF s, e
  <1>6. \A x \in Subscribers : Len(queue[x]) <= BufferSize
    BY Zenon DEF SmallTypes
  <1> QED
    BY <1>2, <1>3, <1>4, <1>5, <1>6, Zenon

LEMMA DrainsAreBounded ==
  ASSUME NEW level, Ordered(level), SmallTypes, NEW s \in Subscribers, Drain(s)
  PROVE  \A x \in Subscribers : Len(queue'[x]) <= BufferSize
  <1>1. queue = [x \in Subscribers |-> queue[x]] /\ \A x \in Subscribers : queue[x] \in Seq(Event)
    BY Zenon DEF Ordered, OrderOK, QueueIsOrdered
  <1>2. queue' = [queue EXCEPT ![s] = Tail(@)] /\ queue[s] # <<>>
    BY Zenon DEF Drain
  <1>3. Len(queue[s]) \in Nat /\ Len(queue[s]) <= BufferSize /\ Len(Tail(queue[s])) = Len(queue[s]) - 1
    BY <1>1, <1>2 DEF SmallTypes
  <1>4. \A x \in Subscribers : Len(queue[x]) <= BufferSize
    BY Zenon DEF SmallTypes
  <1> QED
    BY <1>1, <1>2, <1>3, <1>4, BusAssumption

LEMMA StepTypes ==
  ASSUME NEW level, Descends(level), BusInv, Ordered(level), SmallTypes, [Next]_vars
  PROVE  SmallTypes'
  <1>1. Directory \subseteq Subscribers
    BY InDirectory, Zenon DEF BusInv
  <1>2. starter' \in {"idle", "launching", "done"} /\ stopper' \in {"idle", "closing", "waiting", "done"}
    <2>1. UNCHANGED starter \/ starter' = "launching" \/ starter' = "done"
      BY Zenon DEF Next, vars, BeginStart, FinishStart, BeginStop, StopStep, CloseChannels, FinishStop,
             SendStep, BeginSend, CheckStopped, ReadLock, Enqueue, ProcessSync, ReturnSend,
             BeginSubscribe, SubscribeStep, AppendState, Launch, DrainerStep, Drain, EndDrainer
    <2>2. UNCHANGED stopper \/ stopper' = "closing" \/ stopper' = "waiting" \/ stopper' = "done"
      BY Zenon DEF Next, vars, BeginStart, FinishStart, BeginStop, StopStep, CloseChannels, FinishStop,
             SendStep, BeginSend, CheckStopped, ReadLock, Enqueue, ProcessSync, ReturnSend,
             BeginSubscribe, SubscribeStep, AppendState, Launch, DrainerStep, Drain, EndDrainer
    <2> QED
      BY <2>1, <2>2, Zenon DEF SmallTypes
  <1>3. admin' \in [Subscribers -> AdminSteps]
    <2>1. \/ UNCHANGED admin
          \/ \E s \in Subscribers, a \in AdminSteps : admin' = [admin EXCEPT ![s] = a]
      BY Zenon DEF Next, vars, BeginStart, FinishStart, BeginStop, StopStep, CloseChannels, FinishStop,
             SendStep, BeginSend, CheckStopped, ReadLock, Enqueue, ProcessSync, ReturnSend, AdminSteps, Step,
             BeginSubscribe, SubscribeStep, AppendState, Launch, DrainerStep, Drain, EndDrainer
    <2> QED
      BY <2>1, Zenon DEF SmallTypes
  <1>4. closed' \subseteq Subscribers
    <2>1. UNCHANGED closed \/ closed' = closed \cup {s \in Directory : Async(s) /\ s \notin closed}
      BY Zenon DEF Next, vars, BeginStart, FinishStart, BeginStop, StopStep, CloseChannels, Close, FinishStop,
             SendStep, BeginSend, CheckStopped, ReadLock, Enqueue, ProcessSync, ReturnSend,
             BeginSubscribe, SubscribeStep, AppendState, Launch, DrainerStep, Drain, EndDrainer
    <2> QED
      BY <1>1, <2>1, Zenon DEF SmallTypes
  <1>5. ended' \subseteq Subscribers
    BY Zenon DEF SmallTypes, Next, vars, BeginStart, FinishStart, BeginStop, StopStep, CloseChannels, FinishStop,
           SendStep, BeginSend, CheckStopped, ReadLock, Enqueue, ProcessSync, ReturnSend,
           BeginSubscribe, SubscribeStep, AppendState, Launch, DrainerStep, Drain, EndDrainer
  <1>6. \A s \in Subscribers : Len(queue'[s]) <= BufferSize
    <2>1. \/ UNCHANGED queue
          \/ \E t \in Threads : Enqueue(t)
          \/ \E s \in Subscribers : Drain(s)
      BY Zenon DEF Next, vars, BeginStart, FinishStart, BeginStop, StopStep, CloseChannels, FinishStop,
             SendStep, BeginSend, CheckStopped, ReadLock, ProcessSync, ReturnSend,
             BeginSubscribe, SubscribeStep, AppendState, Launch, DrainerStep, EndDrainer
    <2>2. UNCHANGED queue => \A s \in Subscribers : Len(queue'[s]) <= BufferSize
      BY Zenon DEF SmallTypes
    <2> QED
      BY <2>1, <2>2, QueuesAreBounded, DrainsAreBounded, Zenon
  <1> QED
    BY <1>2, <1>3, <1>4, <1>5, <1>6, Zenon DEF SmallTypes

LEMMA TypesTogether ==
  ASSUME NEW level, BusInv, Ordered(level), SmallTypes
  PROVE  TypeOK
  <1>1. /\ queue \in [Subscribers -> Seq(Event)] /\ last \in [Subscribers -> [Threads -> Nat]]
    <2>1. \A s \in Subscribers : queue[s] \in Seq(Event) /\ last[s] \in [Threads -> Nat]
      BY Zenon DEF Ordered, OrderOK, QueueIsOrdered
    <2>2. queue = [s \in Subscribers |-> queue[s]] /\ last = [s \in Subscribers |-> last[s]]
      BY Zenon DEF Ordered, OrderOK
    <2> QED
      BY <2>1, <2>2, Zenon
  <1>2. stack \in [Threads -> Seq(Frame)] /\ count \in [Threads -> Nat]
    <2>1. \A t \in Threads : stack[t] \in Seq(Frame)
      BY Zenon DEF Ordered, OrderOK, Nests
    <2>2. stack = [t \in Threads |-> stack[t]] /\ count \in [Threads -> Nat]
      BY Zenon DEF Ordered, OrderOK
    <2> QED
      BY <2>1, <2>2, Zenon
  <1>3. dir \in [Kinds -> Seq(Subscribers)] /\ launched \subseteq Subscribers /\ chClosed = closed /\ panicked = {}
    BY Zenon DEF BusInv, Shapes, FlagTellsChannel
  <1> QED
    BY <1>1, <1>2, <1>3, Zenon DEF SmallTypes, TypeOK

\* Whatever goroutines start, subscribe, send, drain and stop at the same time
\* (events/component.go:100-230): nobody sends on a closed channel, every subscriber of a
\* started bus has its drainer, and WaitForDone leaves no accepted event behind.
THEOREM BusStopsCleanly == Spec => [](NobodyPanics /\ DrainersLaunched /\ DrainedOnStop)
  <1>1. BusInv => NobodyPanics /\ DrainersLaunched /\ DrainedOnStop
    BY Zenon DEF BusInv, FlagTellsChannel, EndedIsEmpty, StopWaited, NobodyPanics, DrainedOnStop
  <1> QED
    BY <1>1, InitBusInv, StepBusInv, PTL DEF Spec

\* And when the kinds that synchronous subscribers announce lead to no circle, a subscriber
\* processes the events of one goroutine in the order of their Send, whichever of them a
\* full channel drops, and whether it is called inside Send or by its drainer.
THEOREM BusDeliversInOrder ==
  ASSUME NEW CONSTANT level, Descends(level)
  PROVE  Spec => BusDelivers
  <1> DEFINE IInv == BusInv /\ Ordered(level) /\ SmallTypes
  <1>1. Init => IInv
    BY InitBusInv, InitOrder, InitTypes, Zenon
  <1>2. IInv /\ [Next]_vars => IInv'
    <2> SUFFICES ASSUME IInv, [Next]_vars PROVE IInv'
      BY Zenon
    <2>1. BusInv'
      BY StepBusInv, Zenon
    <2>2. Ordered(level)'
      <3>1. OrderOK(level, stack', queue', count', last')
        BY StepOrder, Zenon DEF BusInv
      <3> QED
        BY <3>1, Zenon DEF Ordered, OrderOK, Nests, TodoIsOfKind, QueueIsOrdered, IsNewest
    <2>3. SmallTypes'
      BY StepTypes, Zenon
    <2> QED
      BY <2>1, <2>2, <2>3, Zenon
  <1>3. IInv => TypeOK /\ NobodyPanics /\ DrainersLaunched /\ DrainedOnStop
    <2> SUFFICES ASSUME IInv PROVE TypeOK /\ NobodyPanics /\ DrainersLaunched /\ DrainedOnStop
      BY Zenon
    <2>1. TypeOK
      BY TypesTogether, Zenon
    <2>2. NobodyPanics /\ DrainersLaunched /\ DrainedOnStop
      BY Zenon DEF BusInv, FlagTellsChannel, EndedIsEmpty, StopWaited, NobodyPanics, DrainedOnStop
    <2> QED
      BY <2>1, <2>2, Zenon
  <1>4. IInv /\ [Next]_vars =>
          [\A s \in Subscribers, t \in Threads : last'[s][t] >= last[s][t]]_vars
    <2> SUFFICES ASSUME IInv, [Next]_vars
                 PROVE  \A s \in Subscribers, t \in Threads : last'[s][t] >= last[s][t]
      BY Zenon
    <2> QED
      BY StepOrder, Zenon DEF BusInv, NothingGoesBack
  <1> HIDE DEF IInv
  <1> QED
    BY <1>1, <1>2, <1>3, <1>4, PTL DEF Spec, BusDelivers, InOrder
=============================================================================
