--------------------------- MODULE KubernetesPods ---------------------------
(***************************************************************************)
(* From the pods of a Kubernetes cluster to the states an instance is shown  *)
(* in.  The informer transforms each pod into a RuntimeInstance whose mesh   *)
(* and name come from the pod; the console derives the state of the instance *)
(* from that and from its registration.  How the two are merged is the       *)
(* subject of InstanceSync: here an instance shows both.                      *)
(***************************************************************************)
EXTENDS Integers, Sequences

CONSTANTS
  Meshes,        \* what the label or annotation of a pod may say
  MaxPodSteps,   \* bound: changes of the pod
  MaxWatch,      \* bound: watch events on their way
  None

VARIABLES
  pod,           \* the pod, or None
  watch,         \* events of the watch, in order
  rtStore,       \* per mesh: the RuntimeInstance of the pod's name, or None
  registration,  \* "never", "registered", "unregistered"
  steps,
  relabelled     \* history: the pod has changed its mesh since the last list

vars == <<pod, watch, rtStore, registration, steps, relabelled>>

(* The states of a pod that the code tells apart: its phase, what its worst container is    *)
(* doing, and its Ready condition.                                                            *)
Statuses ==
  {s \in [phase : {"Pending", "Running", "Failed", "Succeeded", "Unknown"},
          container : {"ok", "creating", "crashing", "exited"},
          ready : {"none", "False", "True"}] :
     /\ s.ready = "True" => s.phase = "Running" /\ s.container = "ok"
     /\ s.ready = "none" => s.phase = "Pending"
     /\ s.phase = "Failed" <=> s.container = "exited"
     /\ s.container = "creating" => s.phase = "Pending"
     /\ s.phase \in {"Succeeded", "Unknown"} => s.container = "ok"}

Init ==
  /\ pod = None /\ watch = <<>> /\ rtStore = [m \in Meshes |-> None]
  /\ registration = "never" /\ steps = 0 /\ relabelled = FALSE

-----------------------------------------------------------------------------
(* The informer *)

HasCrashingContainerStatus(p) == p.status.container \in {"crashing", "exited"}

HasStartingContainerStatus(p) == p.status.container = "creating"

(* The first condition of type Ready decides. *)
IsPodReady(p) == p.status.ready = "True"

IsPodStarting(p) ==
  \/ p.status.phase = "Pending" /\ HasStartingContainerStatus(p)
  \/ p.status.phase = "Running" /\ ~IsPodReady(p)

(* Seeded bug: a pod that is being deleted keeps the phase it reports. *)
DerivePodPhase_NoDeletion(p) ==
  IF HasCrashingContainerStatus(p) THEN "Crashing"
  ELSE IF IsPodStarting(p) THEN "Starting"
  ELSE p.status.phase

DerivePodPhase(p) ==
  IF p.deleting THEN "Terminating"
  ELSE IF HasCrashingContainerStatus(p) THEN "Crashing"
  ELSE IF IsPodStarting(p) THEN "Starting"
  ELSE p.status.phase

(* The RuntimeInstance of a pod, and the mesh its key begins with. *)
Transform(p) == [phase |-> DerivePodPhase(p), ready |-> IsPodReady(p)]

ResourceKeyFromPod(p) == p.mesh

(* One delta: the transformed pod is stored under its key, or the key removed. *)
HandleDeltas ==
  /\ watch # <<>>
  /\ LET e == Head(watch)
     IN rtStore' = [rtStore EXCEPT ![ResourceKeyFromPod(e.pod)] =
                      IF e.type = "deleted" THEN None ELSE Transform(e.pod)]
  /\ watch' = Tail(watch)
  /\ UNCHANGED <<pod, registration, steps, relabelled>>

(* The watch has ended and the pods are listed anew: the store is replaced by the list,     *)
(* what the list does not name is deleted.                                                    *)
Relist ==
  /\ watch' = <<>>
  /\ rtStore' = [m \in Meshes |-> IF pod # None /\ ResourceKeyFromPod(pod) = m
                                    THEN Transform(pod) ELSE None]
  /\ relabelled' = FALSE
  /\ UNCHANGED <<pod, registration, steps>>

-----------------------------------------------------------------------------
(* The cluster and the registry *)

Changed(new, type) ==
  /\ steps < MaxPodSteps /\ Len(watch) < MaxWatch
  /\ steps' = steps + 1
  /\ pod' = IF type = "deleted" THEN None ELSE new
  /\ watch' = Append(watch, [type |-> type, pod |-> new])
  /\ UNCHANGED <<rtStore, registration>>

PodCreated(m) ==
  /\ pod = None
  /\ \E s \in Statuses : s.phase = "Pending"
       /\ Changed([mesh |-> m, deleting |-> FALSE, status |-> s], "added")
  /\ UNCHANGED relabelled

PodUpdated(s) ==
  /\ pod # None /\ s # pod.status
  /\ Changed([pod EXCEPT !.status = s], "modified")
  /\ UNCHANGED relabelled

(* A label or annotation is edited: the key of the pod's resource moves. *)
PodRelabelled(m) ==
  /\ pod # None /\ m # pod.mesh
  /\ Changed([pod EXCEPT !.mesh = m], "modified")
  /\ relabelled' = TRUE

PodDeleting ==
  /\ pod # None /\ ~pod.deleting
  /\ Changed([pod EXCEPT !.deleting = TRUE], "modified")
  /\ UNCHANGED relabelled

PodDeleted ==
  /\ pod # None /\ pod.deleting
  /\ Changed(pod, "deleted")
  /\ UNCHANGED relabelled

(* MergeRPCInstanceIntoInstance sets the time of registration and clears the other;          *)
(* ClearRPCInstanceFromInstance does the opposite.                                             *)
Registers ==
  /\ registration # "registered" /\ registration' = "registered"
  /\ UNCHANGED <<pod, watch, rtStore, steps, relabelled>>

Unregisters ==
  /\ registration = "registered" /\ registration' = "unregistered"
  /\ UNCHANGED <<pod, watch, rtStore, steps, relabelled>>

Next ==
  \/ HandleDeltas \/ Relist \/ PodDeleting \/ PodDeleted \/ Registers \/ Unregisters
  \/ \E m \in Meshes : PodCreated(m) \/ PodRelabelled(m)
  \/ \E s \in Statuses : PodUpdated(s)

Spec == Init /\ [][Next]_vars

-----------------------------------------------------------------------------
(* What the console shows of an instance; no runtime part when no engine knows it *)

DeriveInstanceDeployState(rt) ==
  CASE rt = None -> "Unknown"
    [] rt # None /\ rt.phase = "Running" /\ ~rt.ready -> "Starting"
    [] OTHER -> rt.phase

DeriveInstanceRegisterState(reg) == IF reg = "registered" THEN "Registered" ELSE "UnRegistered"

DeriveInstanceLifecycleState(reg, deploy) ==
  LET registered == DeriveInstanceRegisterState(reg) = "Registered" IN
  CASE deploy \in {"Crashing", "Failed", "Succeeded"} -> "Error"
    [] deploy = "Terminating" -> "Terminating"
    [] deploy = "Unknown" -> IF registered THEN "Serving" ELSE "Unknown"
    [] deploy = "Running" /\ registered -> "Serving"
    [] deploy \in {"Pending", "Starting"} /\ registered -> "Error"
    [] deploy = "Running" /\ reg = "unregistered" -> "Draining"
    [] OTHER -> "Starting"

Shown(m) == DeriveInstanceLifecycleState(registration, DeriveInstanceDeployState(rtStore[m]))

-----------------------------------------------------------------------------
(* The pod, the watch and the stored resources keep their shape. *)
TypeOK ==
  /\ pod = None \/ pod \in [mesh : Meshes, deleting : BOOLEAN, status : Statuses]
  /\ Len(watch) <= MaxWatch /\ steps \in 0..MaxPodSteps
  /\ \A m \in Meshes : rtStore[m] = None \/ rtStore[m].ready \in BOOLEAN

(* When the watch has been worked off (runtime_instance.go:87-172, KeyFunc :174-201) the      *)
(* store has the pod under its mesh, as it is, and under no other, except for what a pod left *)
(* behind that changed its mesh: the update carries the new key only, and the old resource   *)
(* stays until the pods are listed again.                                                      *)
StoreMirrorsPods ==
  watch = <<>> =>
    /\ pod # None => rtStore[pod.mesh] = Transform(pod)
    /\ \A m \in Meshes :
         rtStore[m] # None => relabelled \/ (pod # None /\ pod.mesh = m)

(* What the console says of an instance it knows the pod of (instance.go:243-306) is true of  *)
(* the pod once the watch has been worked off: serving means registered, ready and not being  *)
(* deleted, unless Kubernetes itself has lost sight of the pod; draining means that it runs    *)
(* and was registered before; and what is ready and registered is shown as serving.             *)
ShownStateIsTrue ==
  watch = <<>> /\ pod # None =>
    LET s == Shown(pod.mesh)
        up == IsPodReady(pod) /\ ~pod.deleting
    IN /\ s = "Serving" => registration = "registered" /\ (up \/ pod.status.phase = "Unknown")
       /\ s = "Draining" => registration = "unregistered" /\ up
       /\ up /\ registration = "registered" => s = "Serving"
       /\ pod.deleting => s = "Terminating"

(* Once the informer has caught up, the store has the pods and the console shows their states. *)
PodsAreShown == TypeOK /\ StoreMirrorsPods /\ ShownStateIsTrue
=============================================================================
