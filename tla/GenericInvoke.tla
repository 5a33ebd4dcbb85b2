---------------------------- MODULE GenericInvoke ----------------------------
(***************************************************************************)
(* A generic invocation from the console: one method of one provider        *)
(* instance is called, over its endpoints and serializations in turn, until  *)
(* one answers or the deadline passes.  The instance and its registration    *)
(* are two resources read at two moments; the provider may have run the       *)
(* method although its reply is lost.                                         *)
(***************************************************************************)
EXTENDS Integers, Sequences, FiniteSets

CONSTANTS
  Ports,           \* ports an instance may register, each with the protocol of Protocol
  Protocol,
  Serializations,  \* named by an instance; Blank is a name of white space
  Blank,
  Hessian2,        \* tried when an instance names no serialization
  MaxRegistrations,
  MaxListed,       \* bound: ports, and preferred serializations, of a registration
  None

VARIABLES
  rpc,            \* the registration in the store: [ports, own, preferred], or None
  instance,       \* the merged instance in the store: is it a target of calls?
  registrations,  \* how often the provider has registered
  call,           \* [at, targets, next, answer] of the one call looked at
  late,           \* has the deadline passed?
  tried           \* the attempts in their order: [target, overdue, outcome, ran]

vars == <<rpc, instance, registrations, call, late, tried>>

Lists(S) == UNION {[1 .. n -> S] : n \in 0 .. MaxListed}

(* A provider listens on a port once. *)
Registration ==
  [ports : {s \in Lists(Ports) : \A i, j \in DOMAIN s : i # j => s[i] # s[j]},
   own : Serializations \cup {Blank}, preferred : Lists(Serializations \cup {Blank})]

Init ==
  /\ rpc = None
  /\ instance = FALSE
  /\ registrations = 0
  /\ call = [at |-> "idle", targets |-> <<>>, next |-> 1, answer |-> None]
  /\ late = FALSE
  /\ tried = <<>>

-----------------------------------------------------------------------------
(* The stores: the instance follows the registration by an event *)

Register ==
  /\ registrations < MaxRegistrations
  /\ \E r \in Registration : rpc' = r
  /\ registrations' = registrations + 1
  /\ UNCHANGED <<instance, call, late, tried>>

Deregister ==
  /\ rpc # None
  /\ rpc' = None
  /\ UNCHANGED <<instance, registrations, call, late, tried>>

InstanceMerged ==
  /\ instance # (rpc # None)
  /\ instance' = (rpc # None)
  /\ UNCHANGED <<rpc, registrations, call, late, tried>>

-----------------------------------------------------------------------------
(* The call *)

Answer(a) == call' = [call EXCEPT !.at = "done", !.answer = a]

(* A request without mesh, service, method, signature or instance is refused, and blanks are  *)
(* trimmed from the others.                                                                    *)
Validate ==
  /\ call.at = "idle"
  /\ \/ Answer("invalid")
     \/ call' = [call EXCEPT !.at = "instance"]
  /\ UNCHANGED <<rpc, instance, registrations, late, tried>>

GetGenericInvokeInstance ==
  /\ call.at = "instance"
  /\ \/ instance /\ call' = [call EXCEPT !.at = "method"]
     \/ ~instance /\ Answer("not found")
  /\ UNCHANGED <<rpc, instance, registrations, late, tried>>

(* The method is looked up in the metadata of all providers and the arguments are decoded     *)
(* into its parameter types.                                                                   *)
ResolveMethod ==
  /\ call.at = "method"
  /\ \/ call' = [call EXCEPT !.at = "rpc"]
     \/ Answer("not found")
     \/ Answer("invalid")
  /\ UNCHANGED <<rpc, instance, registrations, late, tried>>

(* The instance's own serialization, then the preferred ones. *)
Candidates(r) == <<r.own>> \o r.preferred

(* appendCandidate passes over blanks and what has been seen. *)
Appended(r) ==
  {i \in DOMAIN Candidates(r) :
     /\ Candidates(r)[i] # Blank
     /\ \A j \in DOMAIN Candidates(r) : j < i => Candidates(r)[j] # Candidates(r)[i]}

Place(S, i) == Cardinality({j \in S : j <= i})

BuildGenericInvokeSerializations(r) ==
  IF Appended(r) = {} THEN <<Hessian2>>
  ELSE [k \in 1 .. Cardinality(Appended(r)) |->
          Candidates(r)[CHOOSE i \in Appended(r) : Place(Appended(r), i) = k]]

(* Every serialization on an endpoint before the next endpoint. *)
TargetsOf(ports, serializations) ==
  LET n == Len(serializations) IN
  [k \in 1 .. Len(ports) * n |-> <<ports[((k - 1) \div n) + 1], serializations[((k - 1) % n) + 1]>>]

BuildGenericInvokeTargets(r) == TargetsOf(r.ports, BuildGenericInvokeSerializations(r))

FindRPCInstanceByInstance ==
  /\ call.at = "rpc"
  /\ \/ /\ rpc # None /\ rpc.ports # <<>>
        /\ call' = [call EXCEPT !.at = "invoke", !.targets = BuildGenericInvokeTargets(rpc)]
     \/ rpc # None /\ rpc.ports = <<>> /\ Answer("not found")
     \/ rpc = None /\ Answer("not found")
  /\ UNCHANGED <<rpc, instance, registrations, late, tried>>

Deadline ==
  /\ call.at = "invoke" /\ ~late
  /\ late' = TRUE
  /\ UNCHANGED <<rpc, instance, registrations, call, tried>>

(* How an attempt may end, and whether the provider ran the method: it answers or raises, it  *)
(* runs the method or not before the connection closes, the reply is lost or the deadline     *)
(* passes.  A protocol that is neither tri nor dubbo fails before anything is sent.            *)
Outcomes(target) ==
  IF Protocol[target[1]] \notin {"tri", "dubbo"} THEN {[outcome |-> "unsupported", ran |-> FALSE]}
  ELSE {[outcome |-> "result", ran |-> TRUE], [outcome |-> "exception", ran |-> TRUE]}
         \cup [outcome : {"closed", "no reply", "deadline"}, ran : BOOLEAN]

(* Seeded bug: every error is tried again. *)
IsRetryableGenericInvokeError_All(outcome) == outcome # "result"

IsRetryableGenericInvokeError(outcome) == outcome \in {"closed", "no reply"}

(* One attempt; the deadline may pass while it runs. *)
InvokeGenericServiceWithTargets ==
  /\ call.at = "invoke"
  /\ \/ late /\ Answer("failed") /\ UNCHANGED <<late, tried>>
     \/ /\ ~late
        /\ \E o \in Outcomes(call.targets[call.next]) :
             /\ tried' = Append(tried, [target |-> call.targets[call.next], overdue |-> late,
                                     outcome |-> o.outcome, ran |-> o.ran])
             /\ late' = (o.outcome = "deadline")
             /\ IF IsRetryableGenericInvokeError(o.outcome) /\ call.next < Len(call.targets)
                THEN call' = [call EXCEPT !.next = @ + 1]
                ELSE Answer(IF o.outcome = "result" THEN "ok" ELSE "failed")
  /\ UNCHANGED <<rpc, instance, registrations>>

Next ==
  \/ Register
  \/ Deregister
  \/ InstanceMerged
  \/ Validate
  \/ GetGenericInvokeInstance
  \/ ResolveMethod
  \/ FindRPCInstanceByInstance
  \/ Deadline
  \/ InvokeGenericServiceWithTargets

Spec == Init /\ [][Next]_vars

-----------------------------------------------------------------------------
(* Properties *)

Attempt == [target : Ports \X (Serializations \cup {Hessian2}), ran : BOOLEAN, overdue : BOOLEAN,
            outcome : {"unsupported", "result", "exception", "closed", "no reply", "deadline"}]

TypeOK ==
  /\ rpc \in Registration \cup {None}
  /\ instance \in BOOLEAN
  /\ registrations \in 0..MaxRegistrations
  /\ call.at \in {"idle", "instance", "method", "rpc", "invoke", "done"}
  /\ call.next \in 1..(Len(call.targets) + 1)
  /\ {tried[i] : i \in DOMAIN tried} \subseteq Attempt
  /\ late \in BOOLEAN

(* The method is not called again once the provider has answered, with a result or with an    *)
(* exception of its own, nor once the deadline has passed (isRetryableGenericInvokeError,      *)
(* service_generic_invoke.go:392-405, and the check of the context at :356): it runs more than  *)
(* once only after replies that were lost.                                                      *)
RunsAgainOnlyAfterLostReply ==
  /\ \A i, j \in DOMAIN tried : i < j => tried[i].outcome \in {"closed", "no reply"}
  /\ \A i \in DOMAIN tried : ~tried[i].overdue
  /\ call.answer = "ok" => tried # <<>> /\ tried[Len(tried)].outcome = "result"

(* Every endpoint is tried with every serialization of the registration as it was read, no    *)
(* pair twice, before the call gives up on lost replies alone (buildGenericInvokeTargets        *)
(* :282-320, invokeGenericServiceWithTargets :348-390).                                         *)
GivesUpHonestly ==
  /\ \A i, j \in DOMAIN tried : i # j => tried[i].target # tried[j].target
  /\ (/\ call.answer = "failed" /\ ~late
      /\ \A i \in DOMAIN tried : tried[i].outcome \in {"closed", "no reply"})
       => {tried[i].target : i \in DOMAIN tried} = {call.targets[i] : i \in DOMAIN call.targets}

(* The method runs again only after a lost reply, and the call gives up on lost replies only   *)
(* after each endpoint was tried with each serialization, none of them twice.                    *)
CallsRepeatOnlyAfterLoss == TypeOK /\ RunsAgainOnlyAfterLostReply /\ GivesUpHonestly
=============================================================================
