---------------------------- MODULE ConsoleProofs ----------------------------
(***************************************************************************)
(* Proofs about what the console does and shows, for every number of ports, *)
(* applications, services, meshes and changes: its generic calls, topology   *)
(* graphs, and the state of the pods of a Kubernetes cluster.                 *)
(***************************************************************************)
EXTENDS GenericInvoke, FiniteSetTheorems, SequenceTheorems, TLAPS

CONSTANTS
  Apps, Services, MaxChanges,      \* Topology
  Meshes, MaxPodSteps, MaxWatch    \* KubernetesPods

VARIABLES
  provides, consumes, changes, query, graph, ever, always,
  pod, watch, rtStore, registration, steps, relabelled

Topo == INSTANCE Topology

K8s == INSTANCE KubernetesPods

-----------------------------------------------------------------------------
(* Generic calls *)

Lost == {"closed", "no reply"}

Named == Serializations \cup {Hessian2}

(* What is assumed of the constants. *)
CallConstants ==
  /\ None \notin {"ok", "failed"}
  /\ MaxRegistrations \in Nat
  /\ MaxListed \in Nat

(* Targets to try, none of them twice. *)
IsTargets(t) ==
  /\ t \in Seq(Ports \X Named)
  /\ \A i, j \in 1 .. Len(t) : i # j => t[i] # t[j]

(* The call is the record the handler keeps. *)
CallShape ==
  call = [at |-> call.at, targets |-> call.targets, next |-> call.next, answer |-> call.answer]

(* Before the loop of invokeGenericServiceWithTargets nothing has been tried, and there is no *)
(* answer before the end of the call.                                                          *)
BeforeLoop ==
  /\ call.at \in {"idle", "instance", "method", "rpc"} => tried = <<>> /\ call.next = 1
  /\ call.at # "done" => call.answer = None

(* In the loop, the targets before the next one were tried and lost their replies. *)
InLoop ==
  call.at = "invoke" =>
    /\ call.next <= Len(call.targets)
    /\ Len(tried) = call.next - 1
    /\ \A i \in 1 .. Len(tried) : tried[i].outcome \in Lost

(* Attempts follow the targets in their order. *)
Follows ==
  /\ tried \in Seq(Attempt)
  /\ Len(tried) <= Len(call.targets)
  /\ \A i \in 1 .. Len(tried) : tried[i].target = call.targets[i]

(* A call fails on the deadline, on an error not tried again, or with the last target. *)
FailsForAReason ==
  call.answer = "failed" =>
    \/ late
    \/ Len(tried) > 0 /\ tried[Len(tried)].outcome \notin Lost
    \/ Len(tried) = Len(call.targets)

CallInv ==
  /\ TypeOK
  /\ CallShape
  /\ IsTargets(call.targets)
  /\ BeforeLoop
  /\ InLoop
  /\ Follows
  /\ FailsForAReason
  /\ RunsAgainOnlyAfterLostReply

(* The invariant gives the property: distinct targets were tried in their order. *)
LEMMA CallInvSuffices ==
  ASSUME CallInv
  PROVE  CallsRepeatOnlyAfterLoss
<1>1. /\ call.targets \in Seq(Ports \X Named) /\ tried \in Seq(Attempt)
      /\ \A i, j \in 1 .. Len(call.targets) : i # j => call.targets[i] # call.targets[j]
      /\ \A i \in 1 .. Len(tried) : tried[i].target = call.targets[i]
      /\ Len(tried) <= Len(call.targets)
  BY Zenon DEF CallInv, IsTargets, Follows
<1>2. /\ DOMAIN tried = 1 .. Len(tried) /\ DOMAIN call.targets = 1 .. Len(call.targets)
      /\ Len(tried) \in Nat /\ Len(call.targets) \in Nat
  BY <1>1
<1>3. \A i, j \in DOMAIN tried : i # j => tried[i].target # tried[j].target
  BY <1>1, <1>2
<1>4. ASSUME call.answer = "failed", ~late,
             \A i \in DOMAIN tried : tried[i].outcome \in {"closed", "no reply"}
      PROVE  {tried[i].target : i \in DOMAIN tried} = {call.targets[i] : i \in DOMAIN call.targets}
  <2>1. Len(tried) = Len(call.targets)
    <3>1. Len(tried) > 0 => Len(tried) \in DOMAIN tried
      BY <1>2
    <3> QED BY <1>4, <3>1, Zenon DEF CallInv, FailsForAReason, Lost
  <2>2. DOMAIN tried = DOMAIN call.targets
    BY <1>2, <2>1, Zenon
  <2>3. \A i \in DOMAIN tried : tried[i].target = call.targets[i]
    BY <1>1, <1>2, Zenon
  <2> QED BY <2>2, <2>3, Zenon
<1> QED BY <1>3, <1>4, Zenon DEF CallInv, CallsRepeatOnlyAfterLoss, GivesUpHonestly

(* The places of the elements of a finite set of positions are 1, 2, and so on. *)
LEMMA PlacesAreTaken ==
  ASSUME NEW S \in SUBSET Nat, IsFiniteSet(S)
  PROVE  /\ Cardinality(S) \in Nat
         /\ \A k \in 1 .. Cardinality(S) : \E i \in S : Place(S, i) = k
<1> DEFINE n == Cardinality(S)
           place == [i \in S |-> Place(S, i)]
<1>1. n \in Nat /\ IsFiniteSet(1 .. n) /\ Cardinality(1 .. n) = n
  BY FS_CardinalityType, FS_Interval
<1>2. ASSUME NEW i \in S PROVE Place(S, i) \in 1 .. n
  <2> DEFINE low == {j \in S : j <= i}
  <2>1. low \subseteq S /\ i \in low
    OBVIOUS
  <2> HIDE DEF low
  <2>2. IsFiniteSet(low) /\ Cardinality(low) <= n
    BY <2>1, FS_Subset, Zenon
  <2>3. Cardinality(low) \in Nat /\ Cardinality(low) # 0
    BY <2>1, <2>2, FS_CardinalityType, FS_EmptySet, Zenon
  <2>4. Cardinality(low) \in 1 .. n
    BY <1>1, <2>2, <2>3
  <2> QED BY <2>4, Zenon DEF Place, low
<1>3. ASSUME NEW k \in S, NEW l \in S, k < l PROVE Place(S, k) < Place(S, l)
  <2> DEFINE low == {j \in S : j <= k}
             high == {j \in S : j <= l}
  <2>1. low \cup {l} \subseteq high /\ l \notin low /\ low \subseteq S /\ high \subseteq S
    <3>1. ~(l <= k) /\ l <= l /\ \A j \in S : j <= k => j <= l
      BY <1>3
    <3> QED BY <3>1, Zenon
  <2>2. Place(S, k) = Cardinality(low) /\ Place(S, l) = Cardinality(high)
    BY Zenon DEF Place
  <2> HIDE DEF low, high
  <2>3. IsFiniteSet(low) /\ IsFiniteSet(high)
    BY <2>1, FS_Subset, Zenon
  <2>4. Cardinality(low \cup {l}) = Cardinality(low) + 1
    BY <2>1, <2>3, FS_AddElement, Zenon
  <2>5. Cardinality(low \cup {l}) <= Cardinality(high)
    BY <2>1, <2>3, FS_Subset, Zenon
  <2>6. Cardinality(low) \in Nat /\ Cardinality(high) \in Nat
    BY <2>3, FS_CardinalityType, Zenon
  <2> QED BY <2>2, <2>4, <2>5, <2>6
<1>4. \A k, l \in S : Place(S, k) = Place(S, l) => k = l
  <2> SUFFICES ASSUME NEW k \in S, NEW l \in S, k # l PROVE Place(S, k) # Place(S, l)
    BY Zenon
  <2>1. k < l \/ l < k
    OBVIOUS
  <2>2. Place(S, k) \in Nat /\ Place(S, l) \in Nat
    BY <1>1, <1>2
  <2> QED BY <1>3, <2>1, <2>2
<1>5. place \in Surjection(S, 1 .. n)
  <2>1. place \in [S -> 1 .. n]
    BY <1>2, Zenon
  <2>2. place \in Injection(S, 1 .. n)
    BY <1>4, <2>1, SMTT(60) DEF Injection, IsInjective
  <2> QED BY <1>1, <2>2, FS_Injection, Zenon
<1>6. \A k \in 1 .. n : \E i \in S : Place(S, i) = k
  BY <1>5, Zenon DEF Surjection
<1> QED BY <1>1, <1>6, Zenon

(* The serializations to try: at least one, and no name twice. *)
LEMMA SerializationsAreDistinct ==
  ASSUME NEW r \in Registration, MaxListed \in Nat
  PROVE  /\ BuildGenericInvokeSerializations(r) \in Seq(Named)
         /\ Len(BuildGenericInvokeSerializations(r)) > 0
         /\ \A k, l \in 1 .. Len(BuildGenericInvokeSerializations(r)) :
              k # l => BuildGenericInvokeSerializations(r)[k] # BuildGenericInvokeSerializations(r)[l]
<1> DEFINE c == Candidates(r)
           A == Appended(r)
           ser == BuildGenericInvokeSerializations(r)
           n == Cardinality(A)
<1>1. c \in Seq(Serializations \cup {Blank})
  <2>1. r.own \in Serializations \cup {Blank} /\ r.preferred \in Lists(Serializations \cup {Blank})
    BY Zenon DEF Registration
  <2>2. PICK m \in 0 .. MaxListed : r.preferred \in [1 .. m -> Serializations \cup {Blank}]
    BY <2>1, Zenon DEF Lists
  <2>3. m \in Nat
    BY <2>2
  <2>4. r.preferred \in Seq(Serializations \cup {Blank})
    BY <2>2, <2>3
  <2> QED BY <2>1, <2>4 DEF Candidates
<1>2. /\ Len(c) \in Nat /\ DOMAIN c = 1 .. Len(c)
      /\ \A i \in 1 .. Len(c) : c[i] \in Serializations \cup {Blank}
  BY <1>1
<1>3. /\ A \subseteq 1 .. Len(c)
      /\ \A i \in A : c[i] \in Serializations
      /\ \A i, j \in A : j < i => c[j] # c[i]
  BY <1>2, Zenon DEF Appended
<1> HIDE DEF c
<1>4. IsFiniteSet(A) /\ A \in SUBSET Nat
  <2>1. IsFiniteSet(1 .. Len(c))
    BY <1>2, FS_Interval
  <2>2. IsFiniteSet(A)
    BY <1>3, <2>1, FS_Subset, Zenon
  <2>3. 1 .. Len(c) \subseteq Nat
    BY <1>2
  <2> QED BY <1>3, <2>2, <2>3, Zenon
<1>5. CASE A = {}
  <2>1. ser = <<Hessian2>>
    BY <1>5, Zenon DEF BuildGenericInvokeSerializations
  <2> HIDE DEF ser
  <2> QED BY <2>1 DEF ser, Named
<1>6. CASE A # {}
  <2> DEFINE at(k) == CHOOSE i \in A : Place(A, i) = k
  <2>1. ser = [k \in 1 .. n |-> c[at(k)]]
    BY <1>6, Zenon DEF BuildGenericInvokeSerializations, c
  <2>2. n \in Nat /\ \A k \in 1 .. n : \E i \in A : Place(A, i) = k
    <3> HIDE DEF A
    <3> QED BY <1>4, PlacesAreTaken, Zenon DEF n
  <2>3. n > 0
    <3>1. n # 0
      BY <1>4, <1>6, FS_EmptySet, Zenon
    <3> QED BY <2>2, <3>1
  <2> HIDE DEF n
  <2>4. \A k \in 1 .. n : at(k) \in A /\ Place(A, at(k)) = k
    BY <2>2, Zenon
  <2> HIDE DEF at, A
  <2>5. \A k, l \in 1 .. n : k # l => c[at(k)] # c[at(l)]
    <3> SUFFICES ASSUME NEW k \in 1 .. n, NEW l \in 1 .. n, k # l PROVE c[at(k)] # c[at(l)]
      BY Zenon
    <3>1. at(k) \in A /\ at(l) \in A /\ at(k) # at(l)
      BY <2>4, Zenon
    <3>2. at(k) < at(l) \/ at(l) < at(k)
      <4>1. PICK a, b \in A : a = at(k) /\ b = at(l) /\ a # b
        BY <3>1, Zenon
      <4>2. a \in Nat /\ b \in Nat
        BY <1>4, Zenon
      <4>3. a < b \/ b < a
        BY <4>1, <4>2
      <4> QED BY <4>1, <4>3, Zenon
    <3> QED BY <1>3, <3>1, <3>2, Zenon
  <2>6. \A k \in 1 .. n : c[at(k)] \in Named
    BY <1>3, <2>4, Zenon DEF Named
  <2> HIDE DEF ser
  <2>7. ser \in [1 .. n -> Named] /\ \A k \in 1 .. n : ser[k] = c[at(k)]
    BY <2>1, <2>6, Zenon
  <2>8. ser \in Seq(Named) /\ Len(ser) = n
    BY <2>2, <2>7
  <2>9. ser \in Seq(Named) /\ Len(ser) > 0 /\ \A k, l \in 1 .. Len(ser) : k # l => ser[k] # ser[l]
    <3>1. \A k, l \in 1 .. n : k # l => ser[k] # ser[l]
      BY <2>5, <2>7, Zenon
    <3> QED BY <2>3, <2>8, <3>1, Zenon
  <2> QED BY <2>9, Zenon DEF ser
<1> QED BY <1>5, <1>6, Zenon

(* Quotient and remainder. *)
LEMMA DivMod ==
  ASSUME NEW n \in Nat, n > 0, NEW a \in Nat
  PROVE  a \div n \in Nat /\ a % n \in 0 .. n - 1 /\ a = n * (a \div n) + (a % n)
<1>1. a % n \in 0 .. n - 1
  BY Z3
<1>2. a \div n \in Int
  BY Z3
<1>3. a = n * (a \div n) + (a % n)
  BY Z3
<1>4. a \div n >= 0
  BY Z3
<1> QED BY <1>1, <1>2, <1>3, <1>4

LEMMA Division ==
  ASSUME NEW n \in Nat, n > 0, NEW m \in Nat, NEW a \in 0 .. m * n - 1
  PROVE  /\ a \div n \in 0 .. m - 1
         /\ a % n \in 0 .. n - 1
         /\ a = n * (a \div n) + (a % n)
<1>1. m * n \in Nat /\ a \in Nat /\ a < n * m
  OBVIOUS
<1>2. a \div n \in Nat /\ a % n \in 0 .. n - 1 /\ a = n * (a \div n) + (a % n)
  BY <1>1, DivMod, Zenon
<1> DEFINE d == a \div n
<1>3. d < m
  <2> HIDE DEF d
  <2> SUFFICES ASSUME d >= m PROVE FALSE
    BY <1>2 DEF d
  <2>1. n * d >= n * m
    BY <1>2 DEF d
  <2>2. n * d <= a
    BY <1>2 DEF d
  <2>3. PICK p, q \in Int : p = n * d /\ q = n * m
    BY <1>2 DEF d
  <2>4. p >= q /\ p <= a /\ a < q
    BY <1>1, <2>1, <2>2, <2>3, Zenon
  <2> QED BY <1>1, <2>3, <2>4
<1> QED BY <1>2, <1>3

(* Every pair of an endpoint and a serialization is one target. *)
LEMMA TargetsAreDistinct ==
  ASSUME NEW p \in Seq(Ports), \A i, j \in 1 .. Len(p) : i # j => p[i] # p[j],
         NEW s \in Seq(Named), Len(s) > 0, \A i, j \in 1 .. Len(s) : i # j => s[i] # s[j]
  PROVE  IsTargets(TargetsOf(p, s)) /\ Len(TargetsOf(p, s)) = Len(p) * Len(s)
<1> DEFINE n == Len(s)
           m == Len(p)
           port(k) == p[((k - 1) \div n) + 1]
           ser(k) == s[((k - 1) % n) + 1]
           t == TargetsOf(p, s)
<1>1. n \in Nat /\ n > 0 /\ m \in Nat /\ m * n \in Nat
  OBVIOUS
<1>2. t = [k \in 1 .. m * n |-> <<port(k), ser(k)>>]
  BY Zenon DEF TargetsOf
<1> HIDE DEF n, m, t
<1>3. ASSUME NEW k \in 1 .. m * n
      PROVE  /\ ((k - 1) \div n) + 1 \in 1 .. m
             /\ ((k - 1) % n) + 1 \in 1 .. n
             /\ k = n * ((k - 1) \div n) + ((k - 1) % n) + 1
  <2>1. k - 1 \in 0 .. m * n - 1
    BY <1>1
  <2>2. PICK a \in 0 .. m * n - 1 : a = k - 1
    BY <2>1, Zenon
  <2>3. a \div n \in 0 .. m - 1 /\ a % n \in 0 .. n - 1 /\ a = n * (a \div n) + (a % n)
    BY <1>1, Division, Zenon
  <2> QED BY <1>1, <2>2, <2>3
<1>4. \A k \in 1 .. m * n : port(k) \in Ports /\ ser(k) \in Named
  <2>1. (\A x \in 1 .. m : p[x] \in Ports) /\ \A y \in 1 .. n : s[y] \in Named
    BY DEF m, n
  <2> QED BY <1>3, <2>1, Zenon
<1>5. \A k \in 1 .. m * n, l \in 1 .. m * n : k # l => port(k) # port(l) \/ ser(k) # ser(l)
  <2> SUFFICES ASSUME NEW k \in 1 .. m * n, NEW l \in 1 .. m * n, port(k) = port(l), ser(k) = ser(l)
               PROVE  k = l
    BY Zenon
  <2>1. PICK a, b \in 1 .. m : a = ((k - 1) \div n) + 1 /\ b = ((l - 1) \div n) + 1
    BY <1>3, Zenon
  <2>2. PICK c, d \in 1 .. n : c = ((k - 1) % n) + 1 /\ d = ((l - 1) % n) + 1
    BY <1>3, Zenon
  <2>3. a = b
    BY <2>1, Zenon DEF m
  <2>4. c = d
    BY <2>2, Zenon DEF n
  <2>5. ((k - 1) \div n) = ((l - 1) \div n)
    <3>1. (k - 1) \div n \in Int /\ (l - 1) \div n \in Int
      BY <1>1
    <3> QED BY <2>1, <2>3, <3>1, SMTT(60)
  <2>6. ((k - 1) % n) = ((l - 1) % n)
    <3>1. (k - 1) % n \in Int /\ (l - 1) % n \in Int
      BY <1>1
    <3> QED BY <2>2, <2>4, <3>1, SMTT(60)
  <2> QED BY <1>3, <2>5, <2>6, Zenon
<1> HIDE DEF port, ser
<1>6. /\ t \in [1 .. m * n -> Ports \X Named]
      /\ \A k \in 1 .. m * n : t[k] = <<port(k), ser(k)>>
  BY <1>2, <1>4, Zenon
<1>7. t \in Seq(Ports \X Named) /\ Len(t) = m * n
  <2>1. PICK x \in Nat : x = m * n
    BY <1>1, Zenon
  <2>2. t \in Seq(Ports \X Named) /\ Len(t) = x
    BY <1>6, <2>1
  <2> QED BY <2>1, <2>2, Zenon
<1>8. \A i, j \in 1 .. Len(t) : i # j => t[i] # t[j]
  BY <1>5, <1>6, <1>7
<1> QED BY <1>7, <1>8, Zenon DEF IsTargets, t, m, n

(* The targets of a registration with endpoints. *)
LEMMA TargetsOfRegistration ==
  ASSUME NEW r \in Registration, MaxListed \in Nat, r.ports # <<>>
  PROVE  IsTargets(BuildGenericInvokeTargets(r)) /\ Len(BuildGenericInvokeTargets(r)) > 0
<1> DEFINE p == r.ports
           s == BuildGenericInvokeSerializations(r)
<1>1. p \in Lists(Ports) /\ \A i, j \in DOMAIN p : i # j => p[i] # p[j]
  BY Zenon DEF Registration
<1>2. PICK m \in 0 .. MaxListed : p \in [1 .. m -> Ports]
  BY <1>1, Zenon DEF Lists
<1>3. m \in Nat
  OBVIOUS
<1>4. p \in Seq(Ports)
  BY <1>2, <1>3
<1>5. DOMAIN p = 1 .. Len(p) /\ Len(p) \in Nat /\ Len(p) > 0
  BY <1>4
<1>6. s \in Seq(Named) /\ Len(s) > 0 /\ \A i, j \in 1 .. Len(s) : i # j => s[i] # s[j]
  BY SerializationsAreDistinct, Zenon
<1> HIDE DEF p, s
<1>7. IsTargets(TargetsOf(p, s)) /\ Len(TargetsOf(p, s)) = Len(p) * Len(s)
  BY <1>1, <1>4, <1>5, <1>6, TargetsAreDistinct, Zenon
<1>8. Len(p) * Len(s) > 0
  <2>0. Len(s) \in Nat
    BY <1>6
  <2>1. PICK a, b \in Nat : a = Len(p) /\ b = Len(s) /\ a > 0 /\ b > 0
    BY <1>5, <1>6, <2>0, Zenon
  <2>2. a * b > 0
    BY <2>1
  <2> QED BY <2>1, <2>2, Zenon
<1> QED BY <1>7, <1>8, Zenon DEF p, s, BuildGenericInvokeTargets

(* An idle call has tried nothing. *)
LEMMA InitCallInv ==
  ASSUME CallConstants, Init
  PROVE  CallInv
<1>1. tried = <<>> /\ call = [at |-> "idle", targets |-> <<>>, next |-> 1, answer |-> None]
  BY Zenon DEF Init
<1>2. TypeOK
  <2>1. 1 \in 1 .. (Len(<<>>) + 1) /\ 0 \in 0 .. MaxRegistrations /\ DOMAIN << >> = {}
    BY DEF CallConstants
  <2>2. call.at = "idle" /\ call.targets = <<>> /\ call.next = 1
    BY <1>1, Zenon
  <2>3. {tried[i] : i \in DOMAIN tried} \subseteq Attempt
    BY <1>1, <2>1, Zenon
  <2>4. /\ rpc = None /\ instance = FALSE /\ registrations = 0 /\ late = FALSE
    BY Zenon DEF Init
  <2> QED BY <2>1, <2>2, <2>3, <2>4, Zenon DEF TypeOK
<1>3. CallShape /\ IsTargets(call.targets) /\ BeforeLoop /\ InLoop
  BY <1>1 DEF CallShape, IsTargets, BeforeLoop, InLoop
<1>4. Follows
  BY <1>1 DEF Follows
<1>5. FailsForAReason /\ RunsAgainOnlyAfterLostReply
  BY <1>1 DEF FailsForAReason, RunsAgainOnlyAfterLostReply, CallConstants
<1> QED BY <1>2, <1>3, <1>4, <1>5, Zenon DEF CallInv

(* The stores change on their own. *)
LEMMA StoresKeepCallInv ==
  ASSUME CallConstants, CallInv, Register \/ Deregister \/ InstanceMerged
  PROVE  CallInv'
<1>1. UNCHANGED <<call, late, tried>>
  BY Zenon DEF Register, Deregister, InstanceMerged
<1>2. /\ rpc' \in Registration \cup {None}
      /\ instance' \in BOOLEAN
      /\ registrations' \in 0 .. MaxRegistrations
  <2>1. /\ rpc \in Registration \cup {None} /\ instance \in BOOLEAN
        /\ registrations \in 0 .. MaxRegistrations
    BY Zenon DEF CallInv, TypeOK
  <2>2. CASE Register
    <3>1. registrations' \in 0 .. MaxRegistrations
      BY <2>1, <2>2 DEF Register, CallConstants
    <3> QED BY <2>1, <2>2, <3>1, Zenon DEF Register
  <2>3. CASE Deregister
    BY <2>1, <2>3, Zenon DEF Deregister
  <2>4. CASE InstanceMerged
    BY <2>1, <2>4, Zenon DEF InstanceMerged
  <2> QED BY <2>2, <2>3, <2>4, Zenon
<1>3. TypeOK'
  BY <1>1, <1>2, Zenon DEF CallInv, TypeOK
<1>4. CallShape' /\ IsTargets(call.targets)' /\ BeforeLoop' /\ InLoop'
  BY <1>1, Zenon DEF CallInv, CallShape, IsTargets, BeforeLoop, InLoop
<1>5. Follows' /\ FailsForAReason' /\ RunsAgainOnlyAfterLostReply'
  BY <1>1, Zenon DEF CallInv, Follows, FailsForAReason, RunsAgainOnlyAfterLostReply
<1> QED BY <1>3, <1>4, <1>5, Zenon DEF CallInv

(* A call that ends without an attempt. *)
LEMMA EndKeepsCallInv ==
  ASSUME CallConstants, CallInv, UNCHANGED <<rpc, instance, registrations, late, tried>>,
         NEW a, a # "ok", a = "failed" => late, Answer(a)
  PROVE  CallInv'
<1>1. call' = [at |-> "done", targets |-> call.targets, next |-> call.next, answer |-> a]
  BY Zenon DEF Answer, CallInv, CallShape
<1>2. call'.at = "done" /\ call'.targets = call.targets /\ call'.next = call.next /\ call'.answer = a
  BY <1>1, Zenon
<1>3. TypeOK'
  BY <1>2, Zenon DEF CallInv, TypeOK
<1>4. CallShape' /\ IsTargets(call.targets)'
  BY <1>1, <1>2, ZenonT(60) DEF CallInv, CallShape, IsTargets
<1>5. BeforeLoop' /\ InLoop'
  BY <1>2, Zenon DEF BeforeLoop, InLoop
<1>6. Follows' /\ FailsForAReason' /\ RunsAgainOnlyAfterLostReply'
  BY <1>2, Zenon DEF CallInv, Follows, FailsForAReason, RunsAgainOnlyAfterLostReply
<1> QED BY <1>3, <1>4, <1>5, <1>6, Zenon DEF CallInv

(* A step towards the loop, with the targets it will try. *)
LEMMA AdvanceKeepsCallInv ==
  ASSUME CallConstants, CallInv, UNCHANGED <<rpc, instance, registrations, late, tried>>,
         call.at \in {"idle", "instance", "method", "rpc"},
         NEW at \in {"instance", "method", "rpc", "invoke"}, NEW t, IsTargets(t),
         at = "invoke" => Len(t) > 0,
         call' = [call EXCEPT !.at = at, !.targets = t]
  PROVE  CallInv'
<1>1. call' = [at |-> at, targets |-> t, next |-> call.next, answer |-> call.answer]
  BY Zenon DEF CallInv, CallShape
<1>2. call'.at = at /\ call'.targets = t /\ call'.next = call.next /\ call'.answer = call.answer
  BY <1>1, Zenon
<1>3. tried = <<>> /\ call.next = 1 /\ call.answer = None
  BY Zenon DEF CallInv, BeforeLoop
<1>4. Len(t) \in Nat
  BY DEF IsTargets
<1>5. TypeOK'
  <2>1. 1 \in 1 .. (Len(t) + 1)
    BY <1>4
  <2> QED BY <1>2, <1>3, <2>1, Zenon DEF CallInv, TypeOK
<1>6. CallShape' /\ IsTargets(call.targets)'
  BY <1>1, <1>2, Zenon DEF CallShape, IsTargets
<1>7. BeforeLoop'
  BY <1>2, <1>3, Zenon DEF BeforeLoop
<1>8. InLoop'
  BY <1>2, <1>3, <1>4 DEF InLoop
<1>9. Follows'
  BY <1>2, <1>3, <1>4 DEF Follows
<1>10. FailsForAReason'
  BY <1>2, <1>3, Zenon DEF FailsForAReason, CallConstants
<1>11. RunsAgainOnlyAfterLostReply'
  BY <1>2, <1>3 DEF RunsAgainOnlyAfterLostReply, CallConstants
<1> QED BY <1>5, <1>6, <1>7, <1>8, <1>9, <1>10, <1>11, Zenon DEF CallInv

(* An attempt on the next target: it is recorded, and either its reply is lost and the next   *)
(* target follows, or the call ends.                                                           *)
LEMMA AttemptKeepsCallInv ==
  ASSUME CallConstants, CallInv, call.at = "invoke", ~late,
         UNCHANGED <<rpc, instance, registrations>>,
         NEW o \in Outcomes(call.targets[call.next]),
         tried' = Append(tried, [target |-> call.targets[call.next], overdue |-> late,
                                 outcome |-> o.outcome, ran |-> o.ran]),
         late' = (o.outcome = "deadline"),
         IF IsRetryableGenericInvokeError(o.outcome) /\ call.next < Len(call.targets)
           THEN call' = [call EXCEPT !.next = @ + 1]
           ELSE Answer(IF o.outcome = "result" THEN "ok" ELSE "failed")
  PROVE  CallInv'
<1> DEFINE e == [target |-> call.targets[call.next], overdue |-> late,
                 outcome |-> o.outcome, ran |-> o.ran]
           n == Len(tried)
<1>1. /\ call.targets \in Seq(Ports \X Named) /\ Len(call.targets) \in Nat
      /\ tried \in Seq(Attempt) /\ n \in Nat
      /\ call.next = n + 1 /\ n + 1 <= Len(call.targets)
  <2>1. call.targets \in Seq(Ports \X Named) /\ tried \in Seq(Attempt)
    BY Zenon DEF CallInv, IsTargets, Follows
  <2>2. call.next \in Int /\ call.next <= Len(call.targets) /\ n = call.next - 1
    <3>1. Len(call.targets) \in Nat
      BY <2>1
    <3> QED BY <3>1 DEF CallInv, TypeOK, InLoop
  <2> QED BY <2>1, <2>2
<1>2. /\ o.outcome \in {"unsupported", "result", "exception", "closed", "no reply", "deadline"}
      /\ o.ran \in BOOLEAN
  <2>1. \/ o = [outcome |-> "unsupported", ran |-> FALSE]
        \/ o = [outcome |-> "result", ran |-> TRUE]
        \/ o = [outcome |-> "exception", ran |-> TRUE]
        \/ o \in [outcome : {"closed", "no reply", "deadline"}, ran : BOOLEAN]
    BY Zenon DEF Outcomes
  <2>2. CASE o = [outcome |-> "unsupported", ran |-> FALSE]
    BY <2>2, Zenon
  <2>3. CASE o = [outcome |-> "result", ran |-> TRUE]
    BY <2>3, Zenon
  <2>4. CASE o = [outcome |-> "exception", ran |-> TRUE]
    BY <2>4, Zenon
  <2>5. CASE o \in [outcome : {"closed", "no reply", "deadline"}, ran : BOOLEAN]
    BY <2>5, Zenon
  <2> QED BY <2>1, <2>2, <2>3, <2>4, <2>5, Zenon
<1>3. call.targets[n + 1] \in Ports \X Named
  BY <1>1
<1>4. e \in Attempt /\ e.target = call.targets[n + 1] /\ e.outcome = o.outcome /\ e.overdue = FALSE
  <2>1. e.target = call.targets[n + 1] /\ e.outcome = o.outcome /\ e.overdue = late /\ e.ran = o.ran
    BY <1>1, Zenon
  <2>2. late = FALSE
    BY Zenon DEF CallInv, TypeOK
  <2>3. e = [target |-> call.targets[n + 1], overdue |-> FALSE, outcome |-> o.outcome, ran |-> o.ran]
    BY <1>1, <2>2, Zenon
  <2>4. PICK x \in Ports \X (Serializations \cup {Hessian2}) : x = call.targets[n + 1]
    BY <1>3, Zenon DEF Named
  <2>5. e \in Attempt
    <3> HIDE DEF e
    <3> QED BY <1>2, <2>3, <2>4, Zenon DEF Attempt
  <2> QED BY <2>1, <2>2, <2>5, Zenon
<1>5. tried' = Append(tried, e)
  BY Zenon
<1> HIDE DEF e
<1>6. /\ tried' \in Seq(Attempt) /\ Len(tried') = n + 1 /\ tried'[n + 1] = e
      /\ \A i \in 1 .. n : tried'[i] = tried[i]
  BY <1>1, <1>4, <1>5
<1>7. /\ DOMAIN tried' = 1 .. (n + 1) /\ DOMAIN tried = 1 .. n
      /\ \A i \in 1 .. (n + 1) : i \in 1 .. n \/ i = n + 1
  BY <1>1, <1>6
<1> HIDE DEF n
<1>8. /\ call'.targets = call.targets
      /\ call'.next \in 1 .. (Len(call.targets) + 1)
      /\ call'.at \in {"invoke", "done"}
      /\ CallShape'
      /\ call'.at = "invoke" => /\ o.outcome \in Lost /\ call'.next = n + 2 /\ n + 2 <= Len(call.targets)
                               /\ call'.answer = None
      /\ call'.answer = "ok" => o.outcome = "result"
      /\ call'.answer = "failed" => o.outcome \notin Lost \/ n + 1 = Len(call.targets)
  <2>1. call.at = "invoke" /\ call.next = n + 1 /\ call.answer = None /\ CallShape
    BY <1>1, Zenon DEF CallInv, BeforeLoop
  <2>2. CASE o.outcome \in Lost /\ n + 1 < Len(call.targets)
    <3>1. call' = [call EXCEPT !.next = @ + 1]
      BY <1>1, <2>2, Zenon DEF IsRetryableGenericInvokeError, Lost
    <3>2. call' = [at |-> "invoke", targets |-> call.targets, next |-> n + 2, answer |-> None]
      <4>1. call' = [at |-> "invoke", targets |-> call.targets, next |-> (n + 1) + 1, answer |-> None]
        <5>1. call' = [at |-> call.at, targets |-> call.targets, next |-> call.next + 1,
                       answer |-> call.answer]
          BY <2>1, <3>1, Zenon DEF CallShape
        <5> QED BY <2>1, <5>1, Zenon
      <4>2. (n + 1) + 1 = n + 2
        BY <1>1
      <4> QED BY <4>1, <4>2, Zenon
    <3>3. n + 2 \in 1 .. (Len(call.targets) + 1) /\ n + 2 <= Len(call.targets)
      BY <1>1, <2>2, SMTT(60)
    <3> QED BY <2>2, <3>2, <3>3, Zenon DEF CallShape, CallConstants
  <2>3. CASE ~(o.outcome \in Lost /\ n + 1 < Len(call.targets))
    <3>1. Answer(IF o.outcome = "result" THEN "ok" ELSE "failed")
      BY <1>1, <2>3, Zenon DEF IsRetryableGenericInvokeError, Lost
    <3>2. PICK a \in {"ok", "failed"} : Answer(a) /\ (a = "ok" => o.outcome = "result")
      BY <3>1, Zenon
    <3>3. call' = [at |-> "done", targets |-> call.targets, next |-> n + 1, answer |-> a]
      <4>1. call' = [at |-> "done", targets |-> call.targets, next |-> call.next, answer |-> a]
        BY <2>1, <3>2, Zenon DEF Answer, CallShape
      <4> QED BY <2>1, <4>1, Zenon
    <3>4. n + 1 \in 1 .. (Len(call.targets) + 1)
      BY <1>1
    <3>5. o.outcome \notin Lost \/ n + 1 = Len(call.targets)
      BY <1>1, <2>3
    <3> QED BY <3>2, <3>3, <3>4, <3>5 DEF CallShape
  <2> QED BY <2>2, <2>3, Zenon
<1>9. TypeOK'
  <2>1. {tried'[i] : i \in DOMAIN tried'} \subseteq Attempt
    BY <1>6
  <2>2. late' \in BOOLEAN
    BY Zenon
  <2> QED BY <1>8, <2>1, <2>2, Zenon DEF CallInv, TypeOK
<1>10. IsTargets(call.targets)'
  BY <1>8, Zenon DEF CallInv, IsTargets
<1>11. BeforeLoop'
  BY <1>8, Zenon DEF BeforeLoop
<1>12. \A i \in 1 .. n : tried[i].outcome \in Lost /\ tried[i].target = call.targets[i] /\ ~tried[i].overdue
  BY <1>7, Zenon DEF CallInv, InLoop, Follows, RunsAgainOnlyAfterLostReply, n
<1>13. InLoop'
  <2> SUFFICES ASSUME call'.at = "invoke"
               PROVE  /\ call'.next <= Len(call'.targets) /\ Len(tried') = call'.next - 1
                      /\ \A i \in 1 .. Len(tried') : tried'[i].outcome \in Lost
    BY Zenon DEF InLoop
  <2>1. call'.next <= Len(call'.targets) /\ Len(tried') = call'.next - 1
    BY <1>1, <1>6, <1>8
  <2> QED BY <1>4, <1>6, <1>7, <1>8, <1>12, <2>1, Zenon
<1>14. Follows'
  BY <1>1, <1>4, <1>6, <1>7, <1>8, <1>12, Zenon DEF Follows
<1>15. FailsForAReason'
  <2>1. n + 1 > 0
    BY <1>1
  <2> QED BY <1>4, <1>6, <1>8, <2>1, Zenon DEF FailsForAReason
<1>16. RunsAgainOnlyAfterLostReply'
  <2>1. \A i, j \in 1 .. (n + 1) : i < j => i \in 1 .. n
    BY <1>1
  <2>2. \A i, j \in DOMAIN tried' : i < j => tried'[i].outcome \in {"closed", "no reply"}
    BY <1>6, <1>7, <1>12, <2>1, Zenon DEF Lost
  <2>3. \A i \in DOMAIN tried' : ~tried'[i].overdue
    BY <1>4, <1>6, <1>7, <1>12, Zenon
  <2>4. tried' # <<>>
    BY <1>1, <1>6
  <2> QED BY <1>4, <1>6, <1>8, <2>2, <2>3, <2>4, ZenonT(60) DEF RunsAgainOnlyAfterLostReply
<1> QED BY <1>8, <1>9, <1>10, <1>11, <1>13, <1>14, <1>15, <1>16, ZenonT(60) DEF CallInv

(* Every step keeps the invariant. *)
LEMMA NextKeepsCallInv ==
  ASSUME CallConstants, CallInv, [Next]_vars
  PROVE  CallInv'
<1>0. IsTargets(call.targets) /\ CallShape
  BY Zenon DEF CallInv
<1>1. CASE Register \/ Deregister \/ InstanceMerged
  BY <1>1, StoresKeepCallInv, Zenon
<1> DEFINE Quiet == UNCHANGED <<rpc, instance, registrations, late, tried>>
<1>2. ASSUME Quiet, call.at \in {"idle", "instance", "method", "rpc"},
             NEW at \in {"instance", "method", "rpc"}, call' = [call EXCEPT !.at = at]
      PROVE  CallInv'
  <2>1. call' = [call EXCEPT !.at = at, !.targets = call.targets]
    BY <1>0, <1>2, Zenon DEF CallShape
  <2>2. at # "invoke"
    BY Zenon
  <2> QED BY <1>0, <1>2, <2>1, <2>2, AdvanceKeepsCallInv, Zenon
<1>3. ASSUME Quiet, NEW a \in {"invalid", "not found"}, Answer(a)
      PROVE  CallInv'
  <2>1. a # "ok" /\ a # "failed"
    BY Zenon
  <2> QED BY <1>3, <2>1, EndKeepsCallInv, Zenon
<1>4. CASE Validate
  BY <1>2, <1>3, <1>4, Zenon DEF Validate
<1>5. CASE GetGenericInvokeInstance
  BY <1>2, <1>3, <1>5, Zenon DEF GetGenericInvokeInstance
<1>6. CASE ResolveMethod
  BY <1>2, <1>3, <1>6, Zenon DEF ResolveMethod
<1>7. CASE FindRPCInstanceByInstance
  <2>1. Quiet /\ call.at = "rpc"
    BY <1>7, Zenon DEF FindRPCInstanceByInstance
  <2>2. CASE /\ rpc # None /\ rpc.ports # <<>>
             /\ call' = [call EXCEPT !.at = "invoke", !.targets = BuildGenericInvokeTargets(rpc)]
    <3>1. rpc \in Registration
      BY <2>2, Zenon DEF CallInv, TypeOK
    <3>2. IsTargets(BuildGenericInvokeTargets(rpc)) /\ Len(BuildGenericInvokeTargets(rpc)) > 0
      BY <2>2, <3>1, TargetsOfRegistration, Zenon DEF CallConstants
    <3> QED BY <2>1, <2>2, <3>2, AdvanceKeepsCallInv, Zenon
  <2>3. CASE Answer("not found")
    BY <1>3, <2>1, <2>3, Zenon
  <2> QED BY <1>7, <2>2, <2>3, Zenon DEF FindRPCInstanceByInstance
<1>8. CASE Deadline
  <2>1. UNCHANGED <<rpc, instance, registrations, call, tried>> /\ late' = TRUE
    BY <1>8, Zenon DEF Deadline
  <2>2. TypeOK' /\ CallShape' /\ IsTargets(call.targets)' /\ BeforeLoop' /\ InLoop'
    BY <2>1, Zenon DEF CallInv, TypeOK, CallShape, IsTargets, BeforeLoop, InLoop
  <2>3. Follows' /\ FailsForAReason' /\ RunsAgainOnlyAfterLostReply'
    BY <2>1, Zenon DEF CallInv, Follows, FailsForAReason, RunsAgainOnlyAfterLostReply
  <2> QED BY <2>2, <2>3, Zenon DEF CallInv
<1>9. CASE InvokeGenericServiceWithTargets
  <2>1. call.at = "invoke" /\ UNCHANGED <<rpc, instance, registrations>>
    BY <1>9, Zenon DEF InvokeGenericServiceWithTargets
  <2>2. CASE late /\ Answer("failed") /\ UNCHANGED <<late, tried>>
    <3>1. "failed" # "ok"
      BY Zenon
    <3> QED BY <2>1, <2>2, <3>1, EndKeepsCallInv, Zenon
  <2>3. CASE ~(late /\ Answer("failed") /\ UNCHANGED <<late, tried>>)
    BY <1>9, <2>1, <2>3, AttemptKeepsCallInv, Zenon DEF InvokeGenericServiceWithTargets
  <2> QED BY <2>2, <2>3, Zenon
<1>10. CASE UNCHANGED vars
  <2>1. UNCHANGED <<rpc, instance, registrations, call, late, tried>>
    BY <1>10, Zenon DEF vars
  <2>2. TypeOK' /\ CallShape' /\ IsTargets(call.targets)' /\ BeforeLoop' /\ InLoop'
    BY <2>1, Zenon DEF CallInv, TypeOK, CallShape, IsTargets, BeforeLoop, InLoop
  <2>3. Follows' /\ FailsForAReason' /\ RunsAgainOnlyAfterLostReply'
    BY <2>1, Zenon DEF CallInv, Follows, FailsForAReason, RunsAgainOnlyAfterLostReply
  <2> QED BY <2>2, <2>3, Zenon DEF CallInv
<1> QED BY <1>1, <1>4, <1>5, <1>6, <1>7, <1>8, <1>9, <1>10, Zenon DEF Next

(* A generic call runs the method again only after a lost reply, and gives up on lost replies  *)
(* only after each endpoint was tried with each serialization, none of them twice               *)
(* (buildGenericInvokeTargets and invokeGenericServiceWithTargets).                              *)
THEOREM GenericCallsRepeatOnlyAfterLoss ==
  ASSUME CallConstants
  PROVE  Spec => []CallsRepeatOnlyAfterLoss
<1>1. Init => CallInv
  BY InitCallInv, Zenon
<1>2. CallInv /\ [Next]_vars => CallInv'
  BY NextKeepsCallInv, Zenon
<1>3. CallInv => CallsRepeatOnlyAfterLoss
  BY CallInvSuffices, Zenon
<1> QED BY <1>1, <1>2, <1>3, PTL DEF Spec

-----------------------------------------------------------------------------
(* Topology graphs *)

Metadata == SUBSET (Apps \X Services)

Nodes == [id : Apps \cup Services, rule : {"", "consumer", "provider"}]

TopologyShapes ==
  /\ provides \in Metadata /\ consumes \in Metadata
  /\ ever \in [p : Metadata, c : Metadata] /\ always \in [p : Metadata, c : Metadata]
  /\ graph \in [nodes : SUBSET Nodes,
                edges : SUBSET ((Apps \cup Services) \X (Apps \cup Services)), partial : BOOLEAN]
  /\ query # None =>
       query \in [of : Apps, at : {"consumed", "services", "done", "failed"},
                  provided : SUBSET Services, consumed : SUBSET Services]
                 \cup [of : Services, at : {"notfound", "consumers", "done", "failed"},
                       provided : {{}}, consumed : {{}}]

(* What the metadata is now lies between what it always and what it ever was. *)
HistoryBrackets ==
  query # None /\ query.at \notin {"done", "failed"} =>
    /\ always.p \subseteq provides /\ provides \subseteq ever.p
    /\ always.c \subseteq consumes /\ consumes \subseteq ever.c

(* An edge of an application's graph comes from a service that it has been seen to provide *)
(* or to consume, and a service still to be looked at has been seen.                         *)
FromApp(e, m) ==
  \E a \in Apps, s \in Services :
    \/ e = <<a, query.of>> /\ <<query.of, s>> \in m.p /\ <<a, s>> \in m.c
    \/ e = <<query.of, a>> /\ <<query.of, s>> \in m.c /\ <<a, s>> \in m.p

AppIsSound ==
  query # None /\ query.of \in Apps =>
    /\ \A e \in graph.edges : FromApp(e, ever)
    /\ \A s \in query.provided : <<query.of, s>> \in ever.p
    /\ \A s \in query.consumed : <<query.of, s>> \in ever.c

(* A service that has always been provided or consumed is still to be looked at, or its       *)
(* edges are there.                                                                            *)
AppIsComplete ==
  query # None /\ query.of \in Apps /\ query.at # "failed" /\ ~graph.partial =>
    \A s \in Services :
      /\ <<query.of, s>> \in always.p =>
           s \in query.provided \/ \A a \in Apps : <<a, s>> \in always.c => <<a, query.of>> \in graph.edges
      /\ <<query.of, s>> \in always.c =>
           \/ query.at = "consumed" \/ s \in query.consumed
           \/ \A a \in Apps : <<a, s>> \in always.p => <<query.of, a>> \in graph.edges

AppIsDone ==
  query # None /\ query.of \in Apps /\ query.at = "done" => query.provided = {} /\ query.consumed = {}

FromService(e, m) ==
  \E a \in Apps :
    \/ e = <<query.of, a>> /\ <<a, query.of>> \in m.p
    \/ e = <<a, query.of>> /\ <<a, query.of>> \in m.c

ServiceIsExact ==
  query # None /\ query.of \in Services =>
    /\ \A e \in graph.edges : FromService(e, ever)
    /\ query.at \in {"consumers", "done"} =>
         \A a \in Apps : <<a, query.of>> \in always.p => <<query.of, a>> \in graph.edges
    /\ query.at = "done" =>
         \A a \in Apps : <<a, query.of>> \in always.c => <<a, query.of>> \in graph.edges

Ids(nodes) == {n.id : n \in nodes}

(* The thing in the middle and the ends of every edge are nodes. *)
EndsAreNodes ==
  query # None /\ query.at # "notfound" =>
    /\ query.of \in Ids(graph.nodes)
    /\ \A e \in graph.edges : e[1] \in Ids(graph.nodes) /\ e[2] \in Ids(graph.nodes)

TopologyInv ==
  /\ TopologyShapes /\ HistoryBrackets
  /\ AppIsSound /\ AppIsComplete /\ AppIsDone /\ ServiceIsExact /\ EndsAreNodes

(* Ids of nodes. *)
LEMMA NodeIds ==
  ASSUME NEW N, NEW x, NEW rule, [id |-> x, rule |-> rule] \in N
  PROVE  x \in Ids(N)
<1> DEFINE n == [id |-> x, rule |-> rule]
<1>1. n \in N /\ n.id = x
  BY Zenon
<1> QED BY <1>1, Zenon DEF Ids

(* No request has been made yet. *)
LEMMA InitTopology == Topo!Init => TopologyInv
<1> SUFFICES ASSUME Topo!Init PROVE TopologyInv
  BY Zenon
<1>1. TopologyShapes
  BY Zenon DEF Topo!Init, Topo!Empty, TopologyShapes, Metadata
<1> QED BY <1>1, Zenon DEF Topo!Init, TopologyInv, HistoryBrackets, AppIsSound, AppIsComplete, AppIsDone,
                     ServiceIsExact, EndsAreNodes
(* The subscribers of the metadata change it while a request is under way. *)
LEMMA MetadataKeepsTopology ==
  ASSUME TopologyInv, NEW pair \in Apps \X Services, Topo!MetadataChanges(pair)
  PROVE  TopologyInv'
<1> USE DEF TopologyInv
<1>1. query' = query /\ graph' = graph /\ query # None /\ query.at \notin {"done", "failed"}
  BY Zenon DEF Topo!MetadataChanges
<1>2. provides' \in Metadata /\ consumes' \in Metadata
  BY Zenon DEF Topo!MetadataChanges, Topo!Toggled, TopologyShapes, Metadata
<1>3. ever' = [p |-> ever.p \cup provides', c |-> ever.c \cup consumes']
  BY Zenon DEF Topo!MetadataChanges
<1>4. always' = [p |-> always.p \cap provides', c |-> always.c \cap consumes']
  BY Zenon DEF Topo!MetadataChanges
<1>5. /\ ever.p \subseteq ever'.p /\ ever.c \subseteq ever'.c
      /\ always'.p \subseteq always.p /\ always'.c \subseteq always.c
  BY <1>3, <1>4, Zenon
<1>6. TopologyShapes'
  <2>1. ever' \in [p : Metadata, c : Metadata]
    BY <1>2, <1>3, Zenon DEF TopologyShapes, Metadata
  <2>2. always' \in [p : Metadata, c : Metadata]
    BY <1>2, <1>4, Zenon DEF TopologyShapes, Metadata
  <2> QED BY <1>1, <1>2, <2>1, <2>2, Zenon DEF TopologyShapes
<1>7. HistoryBrackets'
  BY <1>3, <1>4, Zenon DEF HistoryBrackets
<1>8. AppIsSound' /\ AppIsComplete' /\ AppIsDone' /\ EndsAreNodes'
  <2>1. AppIsSound'
    BY <1>1, <1>5 DEF AppIsSound, FromApp
  <2>2. AppIsComplete'
    BY <1>1, <1>5, Zenon DEF AppIsComplete
  <2> QED BY <1>1, <2>1, <2>2, Zenon DEF AppIsDone, EndsAreNodes
<1>9. ServiceIsExact'
  BY <1>1, <1>5, Zenon DEF ServiceIsExact, FromService
<1> QED BY <1>6, <1>7, <1>8, <1>9, Zenon

(* GraphApplications begins with what the application provides. *)
LEMMA ApplicationKeepsTopology ==
  ASSUME Apps \cap Services = {}, TopologyInv, NEW app \in Apps, Topo!GraphApplications(app)
  PROVE  TopologyInv'
<1> USE DEF TopologyInv
<1> DEFINE found == Topo!ServicesOf(provides, app)
<1>0. found \subseteq Services /\ \A s \in Services : s \in found <=> <<app, s>> \in provides
  BY Zenon DEF Topo!ServicesOf
<1>1. /\ query' = [of |-> app, at |-> "consumed", provided |-> found, consumed |-> {}]
      /\ ever' = [p |-> provides, c |-> consumes] /\ always' = [p |-> provides, c |-> consumes]
      /\ provides' = provides /\ consumes' = consumes
  BY Zenon DEF Topo!GraphApplications, Topo!Request, Topo!metadata
<1>2. graph' = [nodes |-> {[id |-> app, rule |-> ""]}, edges |-> {}, partial |-> FALSE]
  BY Zenon DEF Topo!GraphApplications, Topo!Empty, Topo!Node
<1> HIDE DEF found
<1>3. TopologyShapes'
  <2>1. query' \in [of : Apps, at : {"consumed", "services", "done", "failed"},
                    provided : SUBSET Services, consumed : SUBSET Services]
    BY <1>0, <1>1, Zenon
  <2>2. graph' \in [nodes : SUBSET Nodes,
                    edges : SUBSET ((Apps \cup Services) \X (Apps \cup Services)), partial : BOOLEAN]
    <3>1. [id |-> app, rule |-> ""] \in Nodes
      BY Zenon DEF Nodes
    <3> QED BY <1>2, <3>1, Zenon
  <2> QED BY <1>1, <2>1, <2>2, Zenon DEF TopologyShapes
<1>4. HistoryBrackets'
  BY <1>1, Zenon DEF HistoryBrackets
<1>5. AppIsSound' /\ AppIsComplete' /\ AppIsDone'
  BY <1>0, <1>1, <1>2, Zenon DEF AppIsSound, AppIsComplete, AppIsDone
<1>6. ServiceIsExact' /\ EndsAreNodes'
  BY <1>1, <1>2, Zenon DEF ServiceIsExact, EndsAreNodes, Ids
<1> QED BY <1>3, <1>4, <1>5, <1>6, Zenon

(* GraphServices begins with the providers of the service, if there is one. *)
LEMMA ServiceKeepsTopology ==
  ASSUME Apps \cap Services = {}, TopologyInv, NEW s \in Services, Topo!GraphServices(s)
  PROVE  TopologyInv'
<1> USE DEF TopologyInv
<1> DEFINE found == Topo!AppsOf(provides, s)
<1>0. found \subseteq Apps /\ \A a \in Apps : a \in found <=> <<a, s>> \in provides
  BY Zenon DEF Topo!AppsOf
<1>1. /\ query' = [of |-> s, at |-> IF found = {} THEN "notfound" ELSE "consumers",
                   provided |-> {}, consumed |-> {}]
      /\ ever' = [p |-> provides, c |-> consumes] /\ always' = [p |-> provides, c |-> consumes]
      /\ provides' = provides /\ consumes' = consumes
  BY Zenon DEF Topo!GraphServices, Topo!Request, Topo!metadata
<1>2. CASE found = {}
  <2>1. graph' = [nodes |-> {}, edges |-> {}, partial |-> FALSE]
    BY <1>2, Zenon DEF Topo!GraphServices, Topo!Empty
  <2> HIDE DEF found
  <2>2. TopologyShapes' /\ HistoryBrackets'
    BY <1>1, <1>2, <2>1, Zenon DEF TopologyShapes, HistoryBrackets
  <2> QED BY <1>1, <1>2, <2>1, <2>2, Zenon DEF AppIsSound, AppIsComplete, AppIsDone, ServiceIsExact, EndsAreNodes
<1>3. CASE found # {}
  <2> DEFINE N == {[id |-> a, rule |-> "provider"] : a \in found} \cup {[id |-> s, rule |-> ""]}
             E == {<<s, a>> : a \in found}
  <2>1. graph' = [nodes |-> N, edges |-> E, partial |-> FALSE]
    BY <1>3, Zenon DEF Topo!GraphServices, Topo!Empty, Topo!Node
  <2> HIDE DEF found
  <2>2. N \subseteq Nodes
    <3>1. [id |-> s, rule |-> ""] \in Nodes /\ \A a \in Apps : [id |-> a, rule |-> "provider"] \in Nodes
      BY Zenon DEF Nodes
    <3> QED BY <1>0, <3>1, Zenon
  <2>3. E \subseteq (Apps \cup Services) \X (Apps \cup Services)
    BY <1>0
  <2>4. s \in Ids(N) /\ \A a \in found : a \in Ids(N)
    <3>1. [id |-> s, rule |-> ""] \in N /\ \A a \in found : [id |-> a, rule |-> "provider"] \in N
      BY Zenon
    <3> HIDE DEF N
    <3> QED BY <3>1, NodeIds, Zenon
  <2>5. \A e \in E : \E a \in Apps : e = <<s, a>> /\ <<a, s>> \in provides
    BY <1>0, Zenon
  <2>6. \A a \in Apps : <<a, s>> \in provides => <<s, a>> \in E
    BY <1>0, Zenon
  <2>7. \A e \in E : e[1] \in Ids(N) /\ e[2] \in Ids(N)
    <3> SUFFICES ASSUME NEW e \in E PROVE e[1] \in Ids(N) /\ e[2] \in Ids(N)
      BY Zenon
    <3>1. PICK a \in found : e = <<s, a>>
      BY Zenon
    <3> QED BY <2>4, <3>1, Zenon
  <2> HIDE DEF N, E
  <2>8. TopologyShapes'
    BY <1>1, <1>3, <2>1, <2>2, <2>3, SMTT(60) DEF TopologyShapes
  <2>9. HistoryBrackets' /\ AppIsSound' /\ AppIsComplete' /\ AppIsDone'
    BY <1>1, Zenon DEF HistoryBrackets, AppIsSound, AppIsComplete, AppIsDone
  <2>10. ServiceIsExact'
    <3>1. query'.of = s /\ query'.at = "consumers" /\ ever'.p = provides /\ always'.p = provides /\ graph'.edges = E
      BY <1>1, <1>3, <2>1, Zenon
    <3>2. ASSUME NEW e \in E PROVE FromService(e, ever)'
      <4>1. PICK a \in Apps : e = <<s, a>> /\ <<a, s>> \in provides
        BY <2>5, Zenon
      <4>2. e = <<query'.of, a>> /\ <<a, query'.of>> \in ever'.p
        BY <3>1, <4>1, Zenon
      <4> QED BY <4>2, Zenon DEF FromService
    <3> QED BY <2>6, <3>1, <3>2, Zenon DEF ServiceIsExact
  <2>11. EndsAreNodes'
    BY <1>1, <2>1, <2>4, <2>7, Zenon DEF EndsAreNodes
  <2> QED BY <2>8, <2>9, <2>10, <2>11, Zenon
<1> QED BY <1>2, <1>3
(* A list of the metadata adds nodes and edges to the graph. *), Zenon
Extended(N, E) == graph' = [graph EXCEPT !.nodes = @ \cup N, !.edges = @ \cup E]

LEMMA GraphExtended ==
  ASSUME TopologyShapes, NEW N \in SUBSET Nodes, NEW E \in SUBSET ((Apps \cup Services) \X (Apps \cup Services)),
         Extended(N, E)
  PROVE  /\ graph'.nodes = graph.nodes \cup N /\ graph'.edges = graph.edges \cup E
         /\ graph'.partial = graph.partial
         /\ graph' \in [nodes : SUBSET Nodes, edges : SUBSET ((Apps \cup Services) \X (Apps \cup Services)),
                        partial : BOOLEAN]
  BY Zenon DEF TopologyShapes, Extended

(* Applications found, with their nodes and the edges from or to the thing in the middle. *)
LEMMA FoundNodes ==
  ASSUME NEW found \in SUBSET Apps, NEW x \in Apps \cup Services, NEW rule \in {"consumer", "provider"}
  PROVE  /\ {Topo!Node(a, rule) : a \in found} \in SUBSET Nodes
         /\ \A a \in found : a \in Ids({Topo!Node(b, rule) : b \in found})
         /\ {<<a, x>> : a \in found} \in SUBSET ((Apps \cup Services) \X (Apps \cup Services))
         /\ {<<x, a>> : a \in found} \in SUBSET ((Apps \cup Services) \X (Apps \cup Services))
<1> DEFINE N == {[id |-> a, rule |-> rule] : a \in found}
<1>1. N = {Topo!Node(a, rule) : a \in found}
  BY Zenon DEF Topo!Node
<1>2. \A a \in Apps : [id |-> a, rule |-> rule] \in Nodes
  BY Zenon DEF Nodes
<1>3. N \in SUBSET Nodes
  BY <1>2, Zenon
<1>4. ASSUME NEW a \in found PROVE a \in Ids(N)
  <2>1. [id |-> a, rule |-> rule] \in N
    BY Zenon
  <2> HIDE DEF N
  <2> QED BY <2>1, NodeIds, Zenon
<1> QED BY <1>1, <1>3, <1>4

(* The middle and the ends are still nodes. *)
LEMMA EndsStayNodes ==
  ASSUME TopologyInv, query # None, query.at # "notfound", query'.of = query.of,
         NEW found \in SUBSET Apps, NEW rule \in {"consumer", "provider"}, NEW E,
         E = {<<a, query.of>> : a \in found} \/ E = {<<query.of, a>> : a \in found},
         graph'.nodes = graph.nodes \cup {Topo!Node(a, rule) : a \in found},
         graph'.edges = graph.edges \cup E,
         \A a \in found : a \in Ids({Topo!Node(b, rule) : b \in found})
  PROVE  EndsAreNodes'
<1> DEFINE N == {Topo!Node(a, rule) : a \in found}
<1>1. Ids(graph.nodes) \subseteq Ids(graph'.nodes) /\ Ids(N) \subseteq Ids(graph'.nodes)
  BY Zenon DEF Ids
<1> HIDE DEF N
<1>2. query.of \in Ids(graph'.nodes) /\ \A a \in found : a \in Ids(graph'.nodes)
  BY <1>1, Zenon DEF TopologyInv, EndsAreNodes, N
<1>3. \A e \in E : e[1] \in Ids(graph'.nodes) /\ e[2] \in Ids(graph'.nodes)
  BY <1>2
<1>4. \A e \in graph.edges : e[1] \in Ids(graph'.nodes) /\ e[2] \in Ids(graph'.nodes)
  BY <1>1, Zenon DEF TopologyInv, EndsAreNodes
<1> QED BY <1>2, <1>3, <1>4, Zenon DEF EndsAreNodes

(* A request for an application and one for a service are at steps of their own. *)
LEMMA StepsOfRequests ==
  ASSUME Apps \cap Services = {}, TopologyShapes, query # None
  PROVE  /\ query.at \in {"consumed", "services"} => query.of \in Apps
         /\ query.at \in {"notfound", "consumers"} => query.of \in Services
         /\ query.of \in Apps =>
              query \in [of : Apps, at : {"consumed", "services", "done", "failed"},
                         provided : SUBSET Services, consumed : SUBSET Services]
         /\ query.of \in Services =>
              query \in [of : Services, at : {"notfound", "consumers", "done", "failed"},
                         provided : {{}}, consumed : {{}}]
  BY Zenon DEF TopologyShapes
(* The steps of an application's request that read nothing of the graph. *)
LEMMA ListConsumedKeepsTopology ==
  ASSUME Apps \cap Services = {}, TopologyInv, Topo!ListConsumed
  PROVE  TopologyInv'
<1> USE DEF TopologyInv
<1> DEFINE found == Topo!ServicesOf(consumes, query.of)
<1>0. found \subseteq Services /\ \A s \in Services : s \in found <=> <<query.of, s>> \in consumes
  BY Zenon DEF Topo!ServicesOf
<1>1. /\ query # None /\ query.at = "consumed" /\ query' = [query EXCEPT !.at = "services", !.consumed = found]
      /\ UNCHANGED <<provides, consumes, graph, ever, always>>
  BY Zenon DEF Topo!ListConsumed, Topo!metadata, Topo!history
<1>2. query \in [of : Apps, at : {"consumed", "services", "done", "failed"},
                 provided : SUBSET Services, consumed : SUBSET Services]
  BY <1>1, StepsOfRequests, Zenon
<1> HIDE DEF found
<1>3. /\ query'.of = query.of /\ query'.at = "services" /\ query'.provided = query.provided /\ query'.consumed = found
      /\ query' \in [of : Apps, at : {"consumed", "services", "done", "failed"},
                     provided : SUBSET Services, consumed : SUBSET Services]
  BY <1>0, <1>1, <1>2, Zenon
<1>4. TopologyShapes' /\ HistoryBrackets'
  BY <1>1, <1>3, Zenon DEF TopologyShapes, HistoryBrackets
<1>5. AppIsSound' /\ AppIsComplete' /\ AppIsDone'
  <2>1. consumes \subseteq ever.c /\ always.c \subseteq consumes
    BY <1>1, Zenon DEF HistoryBrackets
  <2>2. AppIsSound'
    BY <1>0, <1>1, <1>2, <1>3, <2>1, Zenon DEF AppIsSound, FromApp
  <2>3. AppIsComplete'
    BY <1>0, <1>1, <1>2, <1>3, <2>1, Zenon DEF AppIsComplete
  <2> QED BY <1>3, <2>2, <2>3, Zenon DEF AppIsDone
<1>6. ServiceIsExact' /\ EndsAreNodes'
  BY <1>1, <1>2, <1>3, Zenon DEF ServiceIsExact, EndsAreNodes
<1> QED BY <1>4, <1>5, <1>6, Zenon

(* The end of a request, and its failure before the loops. *)
LEMMA EndKeepsTopology ==
  ASSUME Apps \cap Services = {}, TopologyInv, Topo!QueryFails \/ Topo!GraphDone
  PROVE  TopologyInv'
<1> USE DEF TopologyInv
<1>1. PICK at \in {"failed", "done"} :
        /\ query # None /\ query' = [query EXCEPT !.at = at]
        /\ query.at \in {"consumed", "consumers", "services"}
        /\ at = "done" => query.at = "services" /\ query.provided = {} /\ query.consumed = {}
  BY Zenon DEF Topo!QueryFails, Topo!GraphDone
<1>2. UNCHANGED <<provides, consumes, graph, ever, always>>
  BY Zenon DEF Topo!QueryFails, Topo!GraphDone, Topo!metadata, Topo!history
<1>3. query.of \in Apps \/ query.of \in Services
  BY <1>1, StepsOfRequests, Zenon
<1>4. /\ query'.of = query.of /\ query'.at = at
      /\ query'.provided = query.provided /\ query'.consumed = query.consumed
      /\ query' \in [of : Apps, at : {"consumed", "services", "done", "failed"},
                     provided : SUBSET Services, consumed : SUBSET Services]
                    \cup [of : Services, at : {"notfound", "consumers", "done", "failed"},
                          provided : {{}}, consumed : {{}}]
  BY <1>1, <1>3, StepsOfRequests, Zenon
<1>5. TopologyShapes' /\ HistoryBrackets'
  BY <1>2, <1>4, Zenon DEF TopologyShapes, HistoryBrackets
<1>6. AppIsSound' /\ AppIsComplete' /\ AppIsDone'
  <2>1. AppIsSound'
    BY <1>1, <1>2, <1>4 DEF AppIsSound, FromApp
  <2>2. AppIsComplete'
    BY <1>1, <1>2, <1>4, Zenon DEF AppIsComplete
  <2> QED BY <1>1, <1>4, <2>1, <2>2, Zenon DEF AppIsDone
<1>7. ServiceIsExact'
  <2>1. at = "done" => query.of \in Apps
    BY <1>1, StepsOfRequests, Zenon
  <2> QED BY <1>1, <1>2, <1>4, <2>1, Zenon DEF ServiceIsExact, FromService
<1>8. EndsAreNodes'
  BY <1>1, <1>2, <1>4, Zenon DEF EndsAreNodes
<1> QED BY <1>5, <1>6, <1>7, <1>8, Zenon

(* A failed query of a loop leaves its service out and marks the graph. *)
LEMMA ListFailsKeepsTopology ==
  ASSUME Apps \cap Services = {}, TopologyInv, NEW s \in Services, Topo!ListFails(s)
  PROVE  TopologyInv'
<1> USE DEF TopologyInv
<1>1. /\ query # None /\ query.at = "services" /\ graph' = [graph EXCEPT !.partial = TRUE]
      /\ query' = [query EXCEPT !.provided = @ \ {s}] \/ query' = [query EXCEPT !.consumed = @ \ {s}]
      /\ UNCHANGED <<provides, consumes, ever, always>>
  BY Zenon DEF Topo!ListFails, Topo!metadata, Topo!history
<1>2. query \in [of : Apps, at : {"consumed", "services", "done", "failed"},
                 provided : SUBSET Services, consumed : SUBSET Services]
  BY <1>1, StepsOfRequests, Zenon
<1>3. /\ query'.of = query.of /\ query'.at = "services"
      /\ query'.provided \subseteq query.provided /\ query'.consumed \subseteq query.consumed
      /\ query' \in [of : Apps, at : {"consumed", "services", "done", "failed"},
                     provided : SUBSET Services, consumed : SUBSET Services]
  BY <1>1, <1>2
<1>4. graph'.nodes = graph.nodes /\ graph'.edges = graph.edges /\ graph'.partial
  BY <1>1, Zenon DEF TopologyShapes
<1>5. graph' \in [nodes : SUBSET Nodes, edges : SUBSET ((Apps \cup Services) \X (Apps \cup Services)),
                  partial : BOOLEAN]
  BY <1>1, Zenon DEF TopologyShapes
<1>6. TopologyShapes' /\ HistoryBrackets'
  BY <1>1, <1>3, <1>5, Zenon DEF TopologyShapes, HistoryBrackets
<1>7. AppIsSound' /\ AppIsComplete' /\ AppIsDone'
  BY <1>1, <1>2, <1>3, <1>4, SMTT(60) DEF AppIsSound, FromApp, AppIsComplete, AppIsDone
<1>8. ServiceIsExact' /\ EndsAreNodes'
  BY <1>1, <1>2, <1>3, <1>4, Zenon DEF ServiceIsExact, EndsAreNodes
<1> QED BY <1>6, <1>7, <1>8
(* The consumers of a provided service. *), Zenon
LEMMA ListConsumersKeepsTopology ==
  ASSUME Apps \cap Services = {}, TopologyInv, NEW s \in Services, Topo!ListConsumers(s)
  PROVE  TopologyInv'
<1> USE DEF TopologyInv
<1> DEFINE found == Topo!AppsOf(consumes, s)
           N == {Topo!Node(a, "consumer") : a \in found}
           E == {<<a, query.of>> : a \in found}
<1>0. found \in SUBSET Apps /\ \A a \in Apps : a \in found <=> <<a, s>> \in consumes
  BY Zenon DEF Topo!AppsOf
<1>1. /\ query # None /\ query.at = "services" /\ s \in query.provided
      /\ query' = [query EXCEPT !.provided = @ \ {s}]
      /\ UNCHANGED <<provides, consumes, ever, always>>
  BY Zenon DEF Topo!ListConsumers, Topo!metadata, Topo!history
<1>2. Extended(N, E)
  BY Zenon DEF Topo!ListConsumers, Extended
<1>3. query \in [of : Apps, at : {"consumed", "services", "done", "failed"},
                 provided : SUBSET Services, consumed : SUBSET Services]
  BY <1>1, StepsOfRequests
<1>4. /\ query'.of = query.of /\ query'.at = "services"
      /\ query'.provided = query.provided \ {s} /\ query'.consumed = query.consumed
      /\ query' \in [of : Apps, at : {"consumed", "services", "done", "failed"},
                     provided : SUBSET Services, consumed : SUBSET Services]
  BY <1>1, <1>3, Zenon
<1> HIDE DEF found
<1>5. /\ N \in SUBSET Nodes /\ E \in SUBSET ((Apps \cup Services) \X (Apps \cup Services))
      /\ \A a \in found : a \in Ids(N)
  BY <1>0, <1>3, FoundNodes, Zenon
<1>6. /\ graph'.nodes = graph.nodes \cup N /\ graph'.edges = graph.edges \cup E /\ graph'.partial = graph.partial
      /\ graph' \in [nodes : SUBSET Nodes, edges : SUBSET ((Apps \cup Services) \X (Apps \cup Services)),
                     partial : BOOLEAN]
  BY <1>2, <1>5, GraphExtended, Zenon
<1>7. TopologyShapes' /\ HistoryBrackets'
  BY <1>1, <1>4, <1>6, Zenon DEF TopologyShapes, HistoryBrackets
<1>8. consumes \subseteq ever.c /\ always.c \subseteq consumes /\ <<query.of, s>> \in ever.p
  BY <1>1, <1>3, Zenon DEF HistoryBrackets, AppIsSound
<1>9. AppIsSound'
  <2>1. ASSUME NEW e \in E PROVE FromApp(e, ever)
    <3>1. PICK a \in found : e = <<a, query.of>>
      BY Zenon
    <3> QED BY <1>0, <1>8, <3>1, Zenon DEF FromApp
  <2>2. \A e \in graph'.edges : FromApp(e, ever)
    BY <1>1, <1>3, <1>6, <2>1, Zenon DEF AppIsSound
  <2> QED BY <1>1, <1>3, <1>4, <2>2, Zenon DEF AppIsSound, FromApp
<1>10. AppIsComplete'
  <2>1. \A a \in Apps : <<a, s>> \in always.c => <<a, query.of>> \in E
    BY <1>0, <1>8, Zenon
  <2> QED BY <1>1, <1>3, <1>4, <1>6, <2>1, Zenon DEF AppIsComplete
<1>11. EndsAreNodes'
  BY <1>0, <1>1, <1>4, <1>5, <1>6, EndsStayNodes, Zenon
<1> QED BY <1>3, <1>4, <1>7, <1>9, <1>10, <1>11, Zenon DEF AppIsDone, ServiceIsExact

(* The providers of a consumed service. *)
LEMMA ListProvidersKeepsTopology ==
  ASSUME Apps \cap Services = {}, TopologyInv, NEW s \in Services, Topo!ListProviders(s)
  PROVE  TopologyInv'
<1> USE DEF TopologyInv
<1> DEFINE found == Topo!AppsOf(provides, s)
           N == {Topo!Node(a, "provider") : a \in found}
           E == {<<query.of, a>> : a \in found}
<1>0. found \in SUBSET Apps /\ \A a \in Apps : a \in found <=> <<a, s>> \in provides
  BY Zenon DEF Topo!AppsOf
<1>1. /\ query # None /\ query.at = "services" /\ s \in query.consumed
      /\ query' = [query EXCEPT !.consumed = @ \ {s}]
      /\ UNCHANGED <<provides, consumes, ever, always>>
  BY Zenon DEF Topo!ListProviders, Topo!metadata, Topo!history
<1>2. Extended(N, E)
  BY Zenon DEF Topo!ListProviders, Extended
<1>3. query \in [of : Apps, at : {"consumed", "services", "done", "failed"},
                 provided : SUBSET Services, consumed : SUBSET Services]
  BY <1>1, StepsOfRequests, Zenon
<1>4. /\ query'.of = query.of /\ query'.at = "services"
      /\ query'.consumed = query.consumed \ {s} /\ query'.provided = query.provided
      /\ query' \in [of : Apps, at : {"consumed", "services", "done", "failed"},
                     provided : SUBSET Services, consumed : SUBSET Services]
  BY <1>1, <1>3, Zenon
<1> HIDE DEF found
<1>5. /\ N \in SUBSET Nodes /\ E \in SUBSET ((Apps \cup Services) \X (Apps \cup Services))
      /\ \A a \in found : a \in Ids(N)
  BY <1>0, <1>3, FoundNodes, Zenon
<1>6. /\ graph'.nodes = graph.nodes \cup N /\ graph'.edges = graph.edges \cup E /\ graph'.partial = graph.partial
      /\ graph' \in [nodes : SUBSET Nodes, edges : SUBSET ((Apps \cup Services) \X (Apps \cup Services)),
                     partial : BOOLEAN]
  BY <1>2, <1>5, GraphExtended, Zenon
<1>7. TopologyShapes' /\ HistoryBrackets'
  BY <1>1, <1>4, <1>6, Zenon DEF TopologyShapes, HistoryBrackets
<1>8. provides \subseteq ever.p /\ always.p \subseteq provides /\ <<query.of, s>> \in ever.c
  BY <1>1, <1>3 DEF HistoryBrackets, AppIsSound
<1>9. AppIsSound'
  <2>1. ASSUME NEW e \in E PROVE FromApp(e, ever)
    <3>1. PICK a \in found : e = <<query.of, a>>
      BY Zenon
    <3> QED BY <1>0, <1>8, <3>1, Zenon DEF FromApp
  <2>2. \A e \in graph'.edges : FromApp(e, ever)
    BY <1>1, <1>3, <1>6, <2>1, Zenon DEF AppIsSound
  <2> QED BY <1>1, <1>3, <1>4, <2>2, Zenon DEF AppIsSound, FromApp
<1>10. AppIsComplete'
  <2>1. \A a \in Apps : <<a, s>> \in always.p => <<query.of, a>> \in E
    BY <1>0, <1>8, Zenon
  <2> QED BY <1>1, <1>3, <1>4, <1>6, <2>1, Zenon DEF AppIsComplete
<1>11. EndsAreNodes'
  BY <1>0, <1>1, <1>4, <1>5, <1>6, EndsStayNodes, Zenon
<1> QED BY <1>3, <1>4, <1>7, <1>9, <1>10, <1>11, Zenon DEF AppIsDone, ServiceIsExact

(* The consumers of the service that was asked for. *)
LEMMA ServiceConsumersKeepsTopology ==
  ASSUME Apps \cap Services = {}, TopologyInv, Topo!ServiceConsumers
  PROVE  TopologyInv'
<1> USE DEF TopologyInv
<1> DEFINE found == Topo!AppsOf(consumes, query.of)
           N == {Topo!Node(a, "consumer") : a \in found}
           E == {<<a, query.of>> : a \in found}
<1>0. found \in SUBSET Apps /\ \A a \in Apps : a \in found <=> <<a, query.of>> \in consumes
  BY Zenon DEF Topo!AppsOf
<1>1. /\ query # None /\ query.at = "consumers" /\ query' = [query EXCEPT !.at = "done"]
      /\ UNCHANGED <<provides, consumes, ever, always>>
  BY Zenon DEF Topo!ServiceConsumers, Topo!metadata, Topo!history
<1>2. Extended(N, E)
  BY Zenon DEF Topo!ServiceConsumers, Extended
<1>3. query \in [of : Services, at : {"notfound", "consumers", "done", "failed"},
                 provided : {{}}, consumed : {{}}]
  BY <1>1, StepsOfRequests, Zenon
<1>4. /\ query'.of = query.of /\ query'.at = "done"
      /\ query' \in [of : Services, at : {"notfound", "consumers", "done", "failed"},
                     provided : {{}}, consumed : {{}}]
  BY <1>1, <1>3, Zenon
<1> HIDE DEF found
<1>5. /\ N \in SUBSET Nodes /\ E \in SUBSET ((Apps \cup Services) \X (Apps \cup Services))
      /\ \A a \in found : a \in Ids(N)
  BY <1>0, <1>3, FoundNodes, Zenon
<1>6. /\ graph'.nodes = graph.nodes \cup N /\ graph'.edges = graph.edges \cup E /\ graph'.partial = graph.partial
      /\ graph' \in [nodes : SUBSET Nodes, edges : SUBSET ((Apps \cup Services) \X (Apps \cup Services)),
                     partial : BOOLEAN]
  BY <1>2, <1>5, GraphExtended, Zenon
<1>7. TopologyShapes' /\ HistoryBrackets'
  BY <1>1, <1>4, <1>6, Zenon DEF TopologyShapes, HistoryBrackets
<1>8. consumes \subseteq ever.c /\ always.c \subseteq consumes
  BY <1>1, <1>3, Zenon DEF HistoryBrackets
<1>9. ServiceIsExact'
  <2>1. ASSUME NEW e \in E PROVE FromService(e, ever)
    <3>1. PICK a \in found : e = <<a, query.of>>
      BY Zenon
    <3> QED BY <1>0, <1>8, <3>1, Zenon DEF FromService
  <2>2. \A e \in graph'.edges : FromService(e, ever)
    BY <1>1, <1>3, <1>6, <2>1, Zenon DEF ServiceIsExact
  <2>3. \A a \in Apps : <<a, query.of>> \in always.c => <<a, query.of>> \in E
    BY <1>0, <1>8, Zenon
  <2>4. \A a \in Apps : <<a, query.of>> \in always.p => <<query.of, a>> \in graph.edges
    BY <1>1, <1>3, Zenon DEF ServiceIsExact
  <2> QED BY <1>1, <1>3, <1>4, <1>6, <2>2, <2>3, <2>4, Zenon DEF ServiceIsExact, FromService
<1>10. EndsAreNodes'
  BY <1>0, <1>1, <1>4, <1>5, <1>6, EndsStayNodes, Zenon
<1> QED BY <1>3, <1>4, <1>7, <1>9, <1>10, Zenon DEF AppIsSound, AppIsComplete, AppIsDone

LEMMA StepTopology ==
  ASSUME Apps \cap Services = {}, TopologyInv, [Topo!Next]_(Topo!vars)
  PROVE  TopologyInv'
<1>1. CASE UNCHANGED Topo!vars
  <2>1. UNCHANGED <<provides, consumes, query, graph, ever, always>>
    BY <1>1, Zenon DEF Topo!vars
  <2> USE <2>1 DEF TopologyInv
  <2>2. TopologyShapes' /\ HistoryBrackets' /\ EndsAreNodes'
    BY Zenon DEF TopologyShapes, HistoryBrackets, EndsAreNodes
  <2>3. AppIsSound' /\ AppIsComplete' /\ AppIsDone'
    BY Zenon DEF AppIsSound, FromApp, AppIsComplete, AppIsDone
  <2>4. ServiceIsExact'
    BY Zenon DEF ServiceIsExact, FromService
  <2> QED BY <2>2, <2>3, <2>4, Zenon
<1> QED BY <1>1, MetadataKeepsTopology, ApplicationKeepsTopology, ServiceKeepsTopology,
           ListConsumedKeepsTopology, EndKeepsTopology, ListFailsKeepsTopology, ListConsumersKeepsTopology,
           ListProvidersKeepsTopology, ServiceConsumersKeepsTopology, Zenon DEF Topo!Next

(* What the invariant says of a request that is done. *)
LEMMA DoneIsTheRelation ==
  ASSUME Apps \cap Services = {}, TopologyInv
  PROVE  Topo!GraphIsTheRelation
<1> USE DEF TopologyInv
<1>1. Topo!TypeOK
  BY Zenon DEF Topo!TypeOK, TopologyShapes, Metadata, Nodes
<1>2. ASSUME query # None, query.at = "done"
      PROVE  /\ graph.edges \subseteq Topo!Around(query.of, ever)
             /\ graph.partial \/ Topo!Around(query.of, always) \subseteq graph.edges
  <2>1. CASE query.of \in Apps
    <3>1. query.of \notin Services /\ query.provided = {} /\ query.consumed = {}
      BY <1>2, <2>1, Zenon DEF AppIsDone
    <3>2. \A e \in graph.edges : FromApp(e, ever)
      BY <1>2, <2>1, Zenon DEF AppIsSound
    <3>3. ASSUME NEW e, FromApp(e, ever) PROVE e \in Topo!Around(query.of, ever)
      <4>1. PICK a \in Apps, s \in Services :
              \/ e = <<a, query.of>> /\ <<query.of, s>> \in ever.p /\ <<a, s>> \in ever.c
              \/ e = <<query.of, a>> /\ <<query.of, s>> \in ever.c /\ <<a, s>> \in ever.p
        BY <3>3, Zenon DEF FromApp
      <4>2. CASE e = <<a, query.of>> /\ <<query.of, s>> \in ever.p /\ <<a, s>> \in ever.c
        BY <3>1, <4>2, SMTT(60) DEF Topo!Around, Topo!AppsOf, Topo!ServicesOf
      <4>3. CASE e = <<query.of, a>> /\ <<query.of, s>> \in ever.c /\ <<a, s>> \in ever.p
        BY <3>1, <4>3, SMTT(60) DEF Topo!Around, Topo!AppsOf, Topo!ServicesOf
      <4> QED BY <4>1, <4>2, <4>3, Zenon
    <3>4. ASSUME NEW e \in Topo!Around(query.of, always) PROVE FromApp(e, always)
      <4>1. CASE \E s \in Services : /\ <<query.of, s>> \in always.p
                                    /\ e \in {<<a, query.of>> : a \in Topo!AppsOf(always.c, s)}
        BY <4>1, Zenon DEF FromApp, Topo!AppsOf
      <4>2. CASE \E s \in Services : /\ <<query.of, s>> \in always.c
                                    /\ e \in {<<query.of, a>> : a \in Topo!AppsOf(always.p, s)}
        BY <4>2, Zenon DEF FromApp, Topo!AppsOf
      <4> QED BY <3>1, <4>1, <4>2, Zenon DEF Topo!Around, Topo!ServicesOf
    <3>5. ASSUME ~graph.partial, NEW e, FromApp(e, always) PROVE e \in graph.edges
      BY <1>2, <2>1, <3>1, <3>5 DEF FromApp, AppIsComplete
    <3> QED BY <3>2, <3>3, <3>4, <3>5, Zenon
  <2>2. CASE query.of \in Services
    <3>1. \A e \in graph.edges : FromService(e, ever)
      BY <1>2, <2>2, Zenon DEF ServiceIsExact
    <3>2. \A e : FromService(e, ever) => e \in Topo!Around(query.of, ever)
      BY <2>2, Zenon DEF FromService, Topo!Around, Topo!AppsOf
    <3>3. ASSUME NEW e \in Topo!Around(query.of, always) PROVE e \in graph.edges
      BY <1>2, <2>2, <3>3, Zenon DEF Topo!Around, Topo!AppsOf, ServiceIsExact
    <3> QED BY <3>1, <3>2, <3>3, Zenon
  <2> QED BY <1>2, <2>1, <2>2, Zenon DEF TopologyShapes
<1>3. ASSUME query # None, query.at = "done", NEW e \in graph.edges
      PROVE  {e[1], e[2]} \subseteq {n.id : n \in graph.nodes}
  BY <1>3, Zenon DEF EndsAreNodes, Ids
<1> QED BY <1>1, <1>2, <1>3, Zenon DEF Topo!GraphIsTheRelation, Topo!EdgesAreTheRelation

(* However the metadata changes while the queries of a topology graph follow one another        *)
(* (GraphApplications, application.go:208-337; GraphServices, service.go:799-906), the graph     *)
(* that is answered has every edge whose metadata was there throughout, unless a query failed,    *)
(* and none whose metadata never was, for any applications and services.  The two kinds of        *)
(* requests are told apart by what they ask for.                                                   *)
THEOREM GraphsAreTheRelation ==
  ASSUME Apps \cap Services = {}
  PROVE  Topo!Spec => []Topo!GraphIsTheRelation
<1>1. TopologyInv /\ [Topo!Next]_(Topo!vars) => TopologyInv'
  BY StepTopology, Zenon
<1>2. TopologyInv => Topo!GraphIsTheRelation
  BY DoneIsTheRelation, Zenon
<1> QED BY <1>1, <1>2, InitTopology, PTL DEF Topo!Spec

-----------------------------------------------------------------------------
(* The pods of a cluster *)

Pods == [mesh : Meshes, deleting : BOOLEAN, status : K8s!Statuses]

Phases == {"Pending", "Running", "Failed", "Succeeded", "Unknown", "Terminating", "Crashing", "Starting"}

RuntimeInstances == [phase : Phases, ready : BOOLEAN]

PodEvents == [type : {"added", "modified", "deleted"}, pod : Pods]

PodShapes ==
  /\ pod \in Pods \cup {None}
  /\ watch \in Seq(PodEvents) /\ Len(watch) <= MaxWatch /\ steps \in 0 .. MaxPodSteps
  /\ rtStore \in [Meshes -> RuntimeInstances \cup {None}]
  /\ registration \in {"never", "registered", "unregistered"}
  /\ relabelled \in BOOLEAN

(* What an event makes of the resource under its key. *)
OutcomeOf(e) == IF e.type = "deleted" THEN None ELSE K8s!Transform(e.pod)

(* A resource under the key of mesh m is as it should be. *)
IsRight(m, rt) ==
  /\ pod # None /\ pod.mesh = m => rt = K8s!Transform(pod)
  /\ rt # None => relabelled \/ (pod # None /\ pod.mesh = m)

(* The last event that is on its way for a mesh leaves the right resource there, and with   *)
(* no event on its way the resource is right.                                                 *)
WatchSettles ==
  \A m \in Meshes :
    /\ (\A j \in 1 .. Len(watch) : watch[j].pod.mesh # m) => IsRight(m, rtStore[m])
    /\ \A i \in 1 .. Len(watch) :
         /\ watch[i].pod.mesh = m
         /\ \A j \in 1 .. Len(watch) : j > i => watch[j].pod.mesh # m
         => IsRight(m, OutcomeOf(watch[i]))

PodInv == PodShapes /\ WatchSettles

NoneIsNoPod ==
  /\ None \notin Pods /\ None \notin RuntimeInstances
  /\ MaxPodSteps \in Nat /\ MaxWatch \in Nat

(* A pod is transformed into a RuntimeInstance. *)
LEMMA TransformType ==
  ASSUME NEW p \in Pods
  PROVE  K8s!Transform(p) \in RuntimeInstances
<1>1. p.status.phase \in {"Pending", "Running", "Failed", "Succeeded", "Unknown"}
  BY Zenon DEF Pods, K8s!Statuses
<1>2. K8s!DerivePodPhase(p) \in Phases
  BY <1>1, Zenon DEF K8s!DerivePodPhase, Phases
<1>3. K8s!IsPodReady(p) \in BOOLEAN
  BY Zenon DEF K8s!IsPodReady
<1> QED BY <1>2, <1>3, Zenon DEF K8s!Transform, RuntimeInstances

LEMMA InitPods ==
  ASSUME NoneIsNoPod, K8s!Init
  PROVE  PodInv
<1>1. PodShapes
  <2>1. watch \in Seq(PodEvents) /\ Len(watch) <= MaxWatch /\ steps \in 0 .. MaxPodSteps
    BY DEF K8s!Init, NoneIsNoPod
  <2> QED BY <2>1, Zenon DEF K8s!Init, PodShapes
<1>2. WatchSettles
  BY DEF K8s!Init, WatchSettles, IsRight
<1> QED BY <1>1, <1>2, Zenon DEF PodInv

(* The next delta is applied. *)
LEMMA HandleDeltasKeepsPods ==
  ASSUME NoneIsNoPod, PodInv, K8s!HandleDeltas
  PROVE  PodInv'
<1> USE DEF PodInv
<1> DEFINE e == watch[1]
<1>1. /\ watch # <<>> /\ watch' = Tail(watch) /\ UNCHANGED <<pod, registration, steps, relabelled>>
      /\ rtStore' = [rtStore EXCEPT ![e.pod.mesh] = OutcomeOf(e)]
  <2>1. watch # <<>> /\ Head(watch) = watch[1]
    BY DEF K8s!HandleDeltas, PodShapes
  <2> QED BY <2>1, Zenon DEF K8s!HandleDeltas, K8s!ResourceKeyFromPod, OutcomeOf
<1>2. /\ watch \in Seq(PodEvents) /\ Len(watch) \in Nat \ {0} /\ e \in PodEvents
      /\ Len(watch') = Len(watch) - 1 /\ watch' \in Seq(PodEvents)
      /\ \A i \in 1 .. Len(watch') : watch'[i] = watch[i + 1]
  BY <1>1 DEF PodShapes
<1>3. OutcomeOf(e) \in RuntimeInstances \cup {None} /\ e.pod.mesh \in Meshes
  BY <1>2, TransformType DEF OutcomeOf, PodEvents, Pods
<1> HIDE DEF e
<1>4. PodShapes'
  <2>1. Len(watch') <= MaxWatch
    BY <1>2, SMTT(60) DEF PodShapes, NoneIsNoPod
  <2>2. rtStore' \in [Meshes -> RuntimeInstances \cup {None}]
    BY <1>1, <1>3, Zenon DEF PodShapes
  <2> QED BY <1>1, <1>2, <2>1, <2>2, Zenon DEF PodShapes
<1>5. \A m \in Meshes : \A rt : IsRight(m, rt)' <=> IsRight(m, rt)
  BY <1>1, Zenon DEF IsRight
<1>6. ASSUME NEW m \in Meshes, \A j \in 1 .. Len(watch') : watch'[j].pod.mesh # m
      PROVE  IsRight(m, rtStore'[m])
  <2>1. \A j \in 1 .. Len(watch) : j > 1 => watch[j].pod.mesh # m
    <3> SUFFICES ASSUME NEW j \in 1 .. Len(watch), j > 1 PROVE watch[j].pod.mesh # m
      BY Zenon
    <3>1. j - 1 \in 1 .. Len(watch') /\ watch'[j - 1] = watch[j]
      BY <1>2
    <3> QED BY <1>6, <3>1, Zenon
  <2>2. CASE e.pod.mesh = m
    <3>1. IsRight(m, OutcomeOf(e))
      BY <1>2, <2>1, <2>2, SMTT(60) DEF WatchSettles, e
    <3> QED BY <1>1, <2>2, <3>1, Zenon DEF PodShapes
  <2>3. CASE e.pod.mesh # m
    <3>1. \A j \in 1 .. Len(watch) : watch[j].pod.mesh # m
      BY <1>2, <2>1, <2>3, SMTT(60) DEF e
    <3> QED BY <1>1, <2>3, <3>1, Zenon DEF WatchSettles, PodShapes
  <2> QED BY <2>2, <2>3, Zenon
<1>7. ASSUME NEW m \in Meshes, NEW i \in 1 .. Len(watch'), watch'[i].pod.mesh = m,
             \A j \in 1 .. Len(watch') : j > i => watch'[j].pod.mesh # m
      PROVE  IsRight(m, OutcomeOf(watch'[i]))
  <2>1. i + 1 \in 1 .. Len(watch) /\ watch'[i] = watch[i + 1]
    BY <1>2
  <2>2. \A j \in 1 .. Len(watch) : j > i + 1 => watch[j].pod.mesh # m
    <3> SUFFICES ASSUME NEW j \in 1 .. Len(watch), j > i + 1 PROVE watch[j].pod.mesh # m
      BY Zenon
    <3>1. j - 1 \in 1 .. Len(watch') /\ j - 1 > i /\ watch'[j - 1] = watch[j]
      BY <1>2, SMTT(60)
    <3> QED BY <1>7, <3>1
  <2> QED BY <1>7, <2>1, <2>2, Zenon DEF WatchSettles
<1>8. WatchSettles'
  BY <1>5, <1>6, <1>7, Zenon DEF WatchSettles, OutcomeOf
<1> QED BY <1>4, <1>8

(* The pods are listed. *)
LEMMA RelistKeepsPods ==
  ASSUME NoneIsNoPod, PodInv, K8s!Relist
  PROVE  PodInv'
<1> USE DEF PodInv
<1>1. /\ watch' = <<>> /\ relabelled' = FALSE /\ UNCHANGED <<pod, registration, steps>>
      /\ rtStore' = [m \in Meshes |-> IF pod # None /\ pod.mesh = m THEN K8s!Transform(pod) ELSE None]
  BY Zenon DEF K8s!Relist, K8s!ResourceKeyFromPod
<1>2. pod # None => K8s!Transform(pod) \in RuntimeInstances
  BY TransformType, Zenon DEF PodShapes
<1>3. PodShapes'
  <2>1. watch' \in Seq(PodEvents) /\ Len(watch') <= MaxWatch
    BY <1>1 DEF NoneIsNoPod
  <2>2. rtStore' \in [Meshes -> RuntimeInstances \cup {None}]
    BY <1>1, <1>2
  <2> QED BY <1>1, <2>1, <2>2, Zenon DEF PodShapes
<1>4. WatchSettles'
  BY <1>1 DEF WatchSettles, IsRight
<1> QED BY <1>3, <1>4

(* A change of the pod sends an event under the key of the pod as it is then; a resource under *)
(* another key is right as long as the pod is not taken away from there unnoticed.              *)
LEMMA ChangeKeepsPods ==
  ASSUME NoneIsNoPod, PodInv, NEW p \in Pods, NEW type \in {"added", "modified", "deleted"},
         K8s!Changed(p, type), relabelled' \in {relabelled, TRUE},
         pod # None /\ pod.mesh # p.mesh => relabelled'
  PROVE  PodInv'
<1> USE DEF PodInv
<1> DEFINE e == [type |-> type, pod |-> p]
           n == Len(watch)
<1>1. /\ steps' = steps + 1 /\ steps < MaxPodSteps /\ n < MaxWatch
      /\ pod' = IF type = "deleted" THEN None ELSE p
      /\ watch' = Append(watch, e) /\ UNCHANGED <<rtStore, registration>>
  BY Zenon DEF K8s!Changed
<1>2. e \in PodEvents /\ e.type = type /\ e.pod = p
  BY Zenon DEF PodEvents
<1>3. p \in Pods /\ p.mesh \in Meshes
  BY Zenon DEF Pods
<1> HIDE DEF e
<1>4. /\ n \in Nat /\ Len(watch') = n + 1 /\ watch' \in Seq(PodEvents) /\ watch'[n + 1] = e
      /\ \A i \in 1 .. n : watch'[i] = watch[i]
  BY <1>1, <1>2, SMTT(60) DEF PodShapes
<1> HIDE DEF n
<1>5. PodShapes'
  <2>1. Len(watch') <= MaxWatch /\ steps' \in 0 .. MaxPodSteps
    BY <1>1, <1>4, SMTT(60) DEF PodShapes, NoneIsNoPod
  <2>2. pod' \in Pods \cup {None}
    BY <1>1, <1>3, Zenon
  <2>3. relabelled' \in BOOLEAN
    BY Zenon DEF PodShapes
  <2> QED BY <1>1, <1>4, <2>1, <2>2, <2>3, Zenon DEF PodShapes
<1>6. ASSUME NEW m \in Meshes, NEW rt, m # p.mesh, IsRight(m, rt)
      PROVE  IsRight(m, rt)'
  BY <1>1, <1>3, <1>6, Zenon DEF IsRight, PodShapes
<1>7. IsRight(p.mesh, OutcomeOf(e))'
  BY <1>1, <1>2, <1>3 DEF IsRight, OutcomeOf, NoneIsNoPod
<1>8. ASSUME NEW m \in Meshes, \A j \in 1 .. Len(watch') : watch'[j].pod.mesh # m
      PROVE  IsRight(m, rtStore[m])'
  <2>1. m # p.mesh /\ \A j \in 1 .. n : watch[j].pod.mesh # m
    BY <1>2, <1>4, <1>8, SMTT(60)
  <2> QED BY <1>1, <1>6, <2>1, Zenon DEF WatchSettles, n
<1>9. ASSUME NEW m \in Meshes, NEW i \in 1 .. Len(watch'), watch'[i].pod.mesh = m,
             \A j \in 1 .. Len(watch') : j > i => watch'[j].pod.mesh # m
      PROVE  IsRight(m, OutcomeOf(watch[i]))'
  <2>1. CASE i = n + 1
    BY <1>2, <1>4, <1>7, <1>9, <2>1, Zenon DEF OutcomeOf
  <2>2. CASE i \in 1 .. n
    <3>1. m # p.mesh /\ watch'[i] = watch[i] /\ \A j \in 1 .. n : j > i => watch[j].pod.mesh # m
      BY <1>2, <1>4, <1>9, <2>2, SMTT(60)
    <3>2. IsRight(m, OutcomeOf(watch[i]))
      BY <1>9, <2>2, <3>1, SMTT(60) DEF WatchSettles, n
    <3> QED BY <1>6, <3>1, <3>2, Zenon DEF OutcomeOf
  <2> QED BY <1>4, <2>1, <2>2, SMTT(60)
<1>10. WatchSettles'
  BY <1>8, <1>9 DEF WatchSettles, OutcomeOf
<1> QED BY <1>5, <1>10, Zenon
LEMMA StepPods ==
  ASSUME NoneIsNoPod, PodInv, [K8s!Next]_(K8s!vars)
  PROVE  PodInv'
<1>0. pod # None => pod \in Pods
  BY Zenon DEF PodInv, PodShapes
<1>1. CASE UNCHANGED K8s!vars
  BY <1>1 DEF K8s!vars, PodInv, PodShapes, WatchSettles, IsRight, OutcomeOf
<1>2. ASSUME NEW m \in Meshes, K8s!PodCreated(m) PROVE PodInv'
  <2>1. PICK s \in K8s!Statuses : K8s!Changed([mesh |-> m, deleting |-> FALSE, status |-> s], "added")
    BY <1>2, Zenon DEF K8s!PodCreated
  <2>2. [mesh |-> m, deleting |-> FALSE, status |-> s] \in Pods
    BY Zenon DEF Pods
  <2>3. pod = None /\ relabelled' = relabelled
    BY <1>2, Zenon DEF K8s!PodCreated
  <2> QED BY <2>1, <2>2, <2>3, ChangeKeepsPods, Zenon
<1>3. ASSUME NEW m \in Meshes, K8s!PodRelabelled(m) PROVE PodInv'
  <2>1. K8s!Changed([pod EXCEPT !.mesh = m], "modified") /\ relabelled' = TRUE /\ pod # None
    BY <1>3, Zenon DEF K8s!PodRelabelled
  <2>2. [pod EXCEPT !.mesh = m] \in Pods
    BY <1>0, <2>1 DEF Pods
  <2> QED BY <2>1, <2>2, ChangeKeepsPods
<1>4. ASSUME NEW s \in K8s!Statuses, K8s!PodUpdated(s) PROVE PodInv'
  <2>1. K8s!Changed([pod EXCEPT !.status = s], "modified") /\ relabelled' = relabelled /\ pod # None
    BY <1>4, Zenon DEF K8s!PodUpdated
  <2>2. [pod EXCEPT !.status = s] \in Pods /\ [pod EXCEPT !.status = s].mesh = pod.mesh
    BY <1>0, <2>1 DEF Pods
  <2> QED BY <2>1, <2>2, ChangeKeepsPods, Zenon
<1>5. CASE K8s!PodDeleting
  <2>1. K8s!Changed([pod EXCEPT !.deleting = TRUE], "modified") /\ relabelled' = relabelled /\ pod # None
    BY <1>5, Zenon DEF K8s!PodDeleting
  <2>2. [pod EXCEPT !.deleting = TRUE] \in Pods /\ [pod EXCEPT !.deleting = TRUE].mesh = pod.mesh
    BY <1>0, <2>1, Zenon DEF Pods
  <2> QED BY <2>1, <2>2, ChangeKeepsPods, Zenon
<1>6. CASE K8s!PodDeleted
  <2>1. K8s!Changed(pod, "deleted") /\ relabelled' = relabelled /\ pod # None
    BY <1>6, Zenon DEF K8s!PodDeleted
  <2> QED BY <1>0, <2>1, ChangeKeepsPods
<1>7. CASE K8s!Registers \/ K8s!Unregisters
  <2>1. /\ UNCHANGED <<pod, watch, rtStore, steps, relabelled>>
        /\ registration' \in {"registered", "unregistered"}
    BY <1>7, Zenon DEF K8s!Registers, K8s!Unregisters
  <2> QED BY <2>1 DEF PodInv, PodShapes, WatchSettles, IsRight, OutcomeOf
<1> QED BY <1>1, <1>2, <1>3, <1>4, <1>5, <1>6, <1>7, HandleDeltasKeepsPods, RelistKeepsPods, Zenon DEF K8s!Next

(* What the store has for the pod and no other event is on its way for decides what is shown. *)
LEMMA StateOfThePod ==
  ASSUME NoneIsNoPod, PodInv, watch = <<>>, pod # None
  PROVE  K8s!ShownStateIsTrue
<1> DEFINE rt == rtStore[pod.mesh]
           s == K8s!Shown(pod.mesh)
           up == K8s!IsPodReady(pod) /\ ~pod.deleting
<1>1. pod \in Pods /\ rt = K8s!Transform(pod) /\ rt \in RuntimeInstances /\ rt # None
  <2>1. pod \in Pods /\ pod.mesh \in Meshes
    BY Zenon DEF PodInv, PodShapes, Pods
  <2>2. rt = K8s!Transform(pod)
    BY <2>1, SMTT(60) DEF PodInv, WatchSettles, IsRight
  <2> QED BY <2>1, <2>2, TransformType, Zenon DEF NoneIsNoPod
<1>2. rt.phase = K8s!DerivePodPhase(pod) /\ rt.ready = K8s!IsPodReady(pod)
  BY <1>1, SMTT(60) DEF K8s!Transform
<1>3. /\ pod.status \in K8s!Statuses /\ pod.deleting \in BOOLEAN
      /\ pod.status.phase \in {"Pending", "Running", "Failed", "Succeeded", "Unknown"}
      /\ pod.status.container \in {"ok", "creating", "crashing", "exited"}
      /\ pod.status.ready \in {"none", "False", "True"}
  BY <1>1, Zenon DEF Pods, K8s!Statuses
<1>4. registration \in {"never", "registered", "unregistered"}
  BY Zenon DEF PodInv, PodShapes
<1>5. s = K8s!DeriveInstanceLifecycleState(registration, K8s!DeriveInstanceDeployState(rt))
  BY Zenon DEF K8s!Shown
<1> HIDE DEF rt, s
<1>6. CASE pod.deleting
  <2>1. rt.phase = "Terminating"
    BY <1>2, <1>6 DEF K8s!DerivePodPhase
  <2>2. K8s!DeriveInstanceDeployState(rt) = "Terminating"
    BY <1>1, <2>1 DEF K8s!DeriveInstanceDeployState
  <2>3. s = "Terminating"
    BY <1>5, <2>2, Zenon DEF K8s!DeriveInstanceLifecycleState
  <2> QED BY <1>6, <2>3, Zenon DEF K8s!ShownStateIsTrue, s
<1>7. CASE ~pod.deleting /\ pod.status.phase = "Running" /\ K8s!IsPodReady(pod)
  <2>1. pod.status.container = "ok"
    BY <1>3, <1>7, Zenon DEF K8s!Statuses, K8s!IsPodReady
  <2>2. rt.phase = "Running" /\ rt.ready
    BY <1>2, <1>7, <2>1, Zenon DEF K8s!DerivePodPhase, K8s!HasCrashingContainerStatus, K8s!IsPodStarting
  <2>3. K8s!DeriveInstanceDeployState(rt) = "Running"
    BY <1>1, <2>2 DEF K8s!DeriveInstanceDeployState
  <2>4. s = IF registration = "registered" THEN "Serving"
            ELSE IF registration = "unregistered" THEN "Draining" ELSE "Starting"
    BY <1>4, <1>5, <2>3, Zenon DEF K8s!DeriveInstanceLifecycleState, K8s!DeriveInstanceRegisterState
  <2> QED BY <1>4, <1>7, <2>4 DEF K8s!ShownStateIsTrue, s
<1>8. CASE ~pod.deleting /\ ~(pod.status.phase = "Running" /\ K8s!IsPodReady(pod))
  <2>1. ~K8s!IsPodReady(pod)
    BY <1>3, <1>8, Zenon DEF K8s!Statuses, K8s!IsPodReady
  <2>2. rt.phase \in Phases /\ (rt.phase = "Unknown" => pod.status.phase = "Unknown")
        /\ rt.phase \notin {"Running", "Terminating"}
    BY <1>2, <1>3, <1>8, <2>1, Zenon DEF K8s!DerivePodPhase, K8s!IsPodStarting, Phases
  <2>3. K8s!DeriveInstanceDeployState(rt) = rt.phase
    BY <1>1, <2>2 DEF K8s!DeriveInstanceDeployState
  <2>4. s # "Draining" /\ (s = "Serving" => registration = "registered" /\ pod.status.phase = "Unknown")
    BY <1>4, <1>5, <2>2, <2>3, Zenon DEF K8s!DeriveInstanceLifecycleState, K8s!DeriveInstanceRegisterState, Phases
  <2> QED BY <1>8, <2>1, <2>4 DEF K8s!ShownStateIsTrue, s
<1> QED BY <1>3, <1>6, <1>7, <1>8, Zenon

(* Whatever happens to a pod and its registration and however far the informer is behind          *)
(* (runtime_instance.go:87-201), once it has caught up the store has the pod as it is, under its   *)
(* mesh alone unless the pod was relabelled since the last list, and the state the console derives  *)
(* (instance.go:243-306) is true of it; for any meshes and any number of changes.                    *)
THEOREM ShownPodsAreTrue ==
  ASSUME NoneIsNoPod
  PROVE  K8s!Spec => []K8s!PodsAreShown
<1>1. PodInv => K8s!PodsAreShown
  <2> SUFFICES ASSUME PodInv PROVE K8s!PodsAreShown
    BY Zenon
  <2>1. K8s!TypeOK
    <3>1. \A m \in Meshes : rtStore[m] = None \/ rtStore[m].ready \in BOOLEAN
      BY Zenon DEF PodInv, PodShapes, RuntimeInstances
    <3> QED BY <3>1 DEF K8s!TypeOK, PodInv, PodShapes, Pods
  <2>2. K8s!StoreMirrorsPods
    BY DEF PodInv, PodShapes, Pods, WatchSettles, IsRight, K8s!StoreMirrorsPods
  <2>3. K8s!ShownStateIsTrue
    BY StateOfThePod, Zenon DEF K8s!ShownStateIsTrue
  <2> QED BY <2>1, <2>2, <2>3 DEF K8s!PodsAreShown
<1>2. PodInv /\ [K8s!Next]_(K8s!vars) => PodInv'
  BY StepPods, Zenon
<1>3. K8s!Init => PodInv
  BY InitPods, Zenon
<1> QED BY <1>1, <1>2, <1>3, PTL DEF K8s!Spec
=============================================================================
