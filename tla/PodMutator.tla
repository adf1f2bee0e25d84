----------------------------- MODULE PodMutator -----------------------------
(***************************************************************************)
(* The admission webhook for pods: a pod that asks for it by annotation    *)
(* gets a privileged sidecar which mounts the hooked file system over the  *)
(* volume of the pod's first container.                                    *)
(*                                                                         *)
(* Source: pkg/webhook/pod/mutator.go.                                     *)
(***************************************************************************)
EXTENDS Naturals, Sequences

CONSTANTS
    SidecarName,  \* name of the sidecar container
    NoVolume      \* the pod has no chaosblade/inject-volume annotation

\* A pod: the volume its annotation names, whether a sub path is annotated too,
\* and its containers.  A container has mounts and may have the fuse port.
Container(name, mounts, port) == [name |-> name, mounts |-> mounts, port |-> port]

PodRecord ==
    [volume : STRING, subpath : BOOLEAN,
     containers : Seq([name : STRING, port : BOOLEAN,
                       mounts : Seq([volume : STRING, propagation : STRING])])]

Rejected == [volume |-> NoVolume, subpath |-> FALSE, containers |-> <<>>]

Asks(pod) == pod.volume # NoVolume /\ pod.subpath

HasSidecar(pod) == \E k \in DOMAIN pod.containers : pod.containers[k].name = SidecarName

Mounts(pod) == pod.containers[1].mounts

\* The positions of the mounts of the annotated volume in the first container.
Targets(pod) == {k \in DOMAIN Mounts(pod) : Mounts(pod)[k].volume = pod.volume}

Propagates(m) == m.propagation \in {"HostToContainer", "Bidirectional"}

\* Each of them must propagate, and there must be one.
Refuses(pod) == Targets(pod) = {} \/ \E k \in Targets(pod) : ~Propagates(Mounts(pod)[k])

\* The mount the sidecar gets: the last one of the volume.
Target(pod) ==
    [Mounts(pod)[CHOOSE k \in Targets(pod) : \A j \in Targets(pod) : j <= k]
        EXCEPT !.propagation = "Bidirectional"]

Join(pod) ==
    [pod EXCEPT !.containers = <<Container(SidecarName, <<Target(pod)>>, TRUE), pod.containers[1]>>]

\* Mutant: the look for a sidecar is left out.
mutateAgain(pod) ==
    IF ~Asks(pod) THEN pod ELSE IF Refuses(pod) THEN Rejected ELSE Join(pod)

\* The pod as admitted; of several containers only the first is kept.
mutatePodsFn(pod) ==
    IF ~Asks(pod) \/ HasSidecar(pod) THEN pod ELSE IF Refuses(pod) THEN Rejected ELSE Join(pod)

\* getContainerPort: is there a container with the fuse port?
HasPort(pod) == \E k \in DOMAIN pod.containers : pod.containers[k].port

=============================================================================
