------------------------ MODULE LeaderGatedComponent ------------------------
(***************************************************************************)
(* A component whose business logic runs only on the elected replica: the  *)
(* discovery and the engine component (pkg/core/discovery/component.go and *)
(* pkg/core/engine/component.go, which share this lifecycle), composed     *)
(* with LeaderElection and with the life of their informers                *)
(* (pkg/core/controller/informer.go).                                      *)
(***************************************************************************)
EXTENDS LeaderElection, FiniteSets

CONSTANTS
  Informers,   \* the informer objects built by Init, one per ListWatcher
  MaxTerms     \* bound: leadership terms of one process

ASSUME TermAssumption == MaxTerms \in Nat \ {0}

VARIABLES
  shutdown,    \* processes whose stop channel is closed
  term,        \* stop channels created so far: the number of the current term
  open,        \* processes whose leaderStopCh is open
  subscribed,  \* processes whose d.subscribed flag is set
  started,     \* <<process, informer>> pairs whose started flag is set
  runs         \* goroutines inside informer.Run

lifecycleVars == <<shutdown, term, open, subscribed, started, runs>>

vars == <<now, skew, lease, isLeader, currentVersion, leading, pc, at, faults,
          shutdown, term, open, subscribed, started, runs>>

\* A goroutine inside Run: about to ask HasStarted, past that check, or in
\* controller.Run with the stop channel of its term.
Run == [informer : Informers, term : 1..MaxTerms, at : {"called", "checked", "running"}]

LifecycleTypeOK ==
  /\ TypeOK
  /\ shutdown \subseteq Holders
  /\ term \in [Holders -> 0..MaxTerms]
  /\ open \subseteq Holders
  /\ subscribed \subseteq Holders
  /\ started \subseteq Holders \X Informers
  /\ runs \in [Holders -> SUBSET Run]

LifecycleInit ==
  /\ Init
  /\ shutdown = {}
  /\ term = [h \in Holders |-> 0]
  /\ open = {}
  /\ subscribed = {}
  /\ started = {}
  /\ runs = [h \in Holders |-> {}]

-----------------------------------------------------------------------------
(* Callbacks of the election                                                *)

\* The goroutines startBusinessLogic spawns, all with the channel of term t.
Spawned(t) == [informer : Informers, term : {t}, at : {"called"}]

\* onStartLeading: a fresh stop channel, then startBusinessLogic.  Subscribing
\* fails only on an event bus that has been shut down; the error is logged and
\* no informer is started.
StartLeading(h) ==
  /\ OnStartLeading(h)
  /\ term[h] < MaxTerms
  /\ term' = [term EXCEPT ![h] = @ + 1]
  /\ open' = open \cup {h}
  /\ \/ /\ subscribed' = subscribed \cup {h}
        /\ runs' = [runs EXCEPT ![h] = @ \cup Spawned(term[h] + 1)]
     \/ /\ h \in shutdown \ subscribed
        /\ UNCHANGED <<subscribed, runs>>
  /\ UNCHANGED <<shutdown, started>>

\* Seeded bug: the channel of the lost term is not closed.
StopLeading_LeftOpen(h) == OnStopLeading(h) /\ UNCHANGED lifecycleVars

\* onStopLeading closes the channel of the term.
StopLeading(h) ==
  /\ OnStopLeading(h)
  /\ open' = open \ {h}
  /\ UNCHANGED <<shutdown, term, subscribed, started, runs>>

-----------------------------------------------------------------------------
(* informer.Run                                                             *)

Move(h, r, to) == [runs EXCEPT ![h] = (@ \ {r}) \cup {[r EXCEPT !.at = to]}]

Return(h, r) == [runs EXCEPT ![h] = @ \ {r}]

HasStarted(h, i) == <<h, i>> \in started

\* HasStarted is asked in a critical section of its own; Run returns with a
\* warning if it says yes.
CheckStarted(h, r) ==
  /\ r.at = "called"
  /\ runs' = IF HasStarted(h, r.informer) THEN Return(h, r) ELSE Move(h, r, "checked")
  /\ UNCHANGED started

\* A second critical section builds the controller and sets started, which
\* nothing ever resets.
StartController(h, r) ==
  /\ r.at = "checked"
  /\ started' = started \cup {<<h, r.informer>>}
  /\ runs' = Move(h, r, "running")

\* Seeded bug: goroutines look at the variable leaderStopCh, not at the channel
\* they were given.
StopChClosed_Variable(h, t) == h \notin open

StopChClosed(h, t) == h \notin open \/ t < term[h]

\* controller.Run returns once its stop channel is closed.
LeaveController(h, r) ==
  /\ r.at = "running"
  /\ StopChClosed(h, r.term)
  /\ runs' = Return(h, r)
  /\ UNCHANGED started

RunStep(h) ==
  /\ \E r \in runs[h] : CheckStarted(h, r) \/ StartController(h, r) \/ LeaveController(h, r)
  /\ UNCHANGED electionVars
  /\ UNCHANGED <<shutdown, term, open, subscribed>>

-----------------------------------------------------------------------------
(* The process                                                              *)

Signal(h) ==
  /\ h \notin shutdown
  /\ pc[h] \notin {"off", "down"}
  /\ shutdown' = shutdown \cup {h}
  /\ UNCHANGED electionVars
  /\ UNCHANGED <<term, open, subscribed, started, runs>>

\* The loop leaves only when its stop channel or context is done.
Leave(h) == h \in shutdown /\ Stop(h) /\ UNCHANGED lifecycleVars

\* A crash takes the informer goroutines with it.
ProcessCrash(h) ==
  /\ Crash(h)
  /\ open' = open \ {h}
  /\ runs' = [runs EXCEPT ![h] = {}]
  /\ UNCHANGED <<shutdown, term, subscribed, started>>

ElectionStep(h) ==
  /\ \/ LoopStep(h)
     \/ StartElection(h)
     \/ TryAcquireFails(h)
     \/ RenewFails(h)
     \/ ReleaseFails(h)
  /\ UNCHANGED lifecycleVars

ComponentStep(h) ==
  \/ ElectionStep(h)
  \/ StartLeading(h)
  \/ StopLeading(h)
  \/ RunStep(h)
  \/ Signal(h)
  \/ Leave(h)
  \/ ProcessCrash(h)

LifecycleNext ==
  \/ Tick /\ UNCHANGED lifecycleVars
  \/ \E h \in Holders : ComponentStep(h)

LifecycleSpec == LifecycleInit /\ [][LifecycleNext]_vars

\* Callbacks and goroutines that can move do move; nothing else is owed.
FairLifecycleSpec ==
  /\ LifecycleSpec
  /\ \A h \in Holders : WF_vars(StopLeading(h)) /\ WF_vars(RunStep(h))

-----------------------------------------------------------------------------
(* Properties                                                               *)

Running(h) == {r \in runs[h] : r.at = "running"}

\* A process never has two controllers of one informer at work on open stop
\* channels: however terms and goroutines overlap, at most one of them will
\* keep feeding the store.
OneLiveRun ==
  \A h \in Holders : \A r, s \in Running(h) :
    r.informer = s.informer /\ ~StopChClosed(h, r.term) /\ ~StopChClosed(h, s.term) => r = s

\* The first term of a process works: unless it is lost or the process is told
\* to stop meanwhile, every informer ends up running.
FirstTermWatches ==
  \A h \in Holders :
    h \in leading /\ term[h] = 1
      ~> h \notin leading \/ h \in shutdown \/ {r.informer : r \in Running(h)} = Informers

\* A replica that lost leadership stops watching, unless it leads again.
LostTermStops ==
  \A h \in Holders : h \notin leading ~> h \in leading \/ runs[h] = {}

\* "startBusinessLogic starts subscribers and informers using the provided
\* stopCh": once the goroutines of a term have been scheduled, a leader with
\* an open channel has every informer running, whichever term it is in.
SettledLeaderWatches ==
  \A h \in Holders :
    h \in leading \cap subscribed /\ pc[h] = "select" /\ Running(h) = runs[h]
      => {r.informer : r \in Running(h)} = Informers

\* What startBusinessLogic and onStopLeading (discovery/component.go:160-208) do
\* never leaves two live runs of one informer.
LifecycleIsSound == LifecycleTypeOK /\ OneLiveRun

\* A first term starts watching and a lost one stops.
TermsTakeEffect == FirstTermWatches /\ LostTermStops
=============================================================================
