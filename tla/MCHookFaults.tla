---------------------------- MODULE MCHookFaults ----------------------------
(***************************************************************************)
(* Instances of HookFaults: "read", "write" and "release" stand for the    *)
(* methods RecoverHandler visits, "open" for the two hooked methods (open  *)
(* and chmod) that its list leaves out.                                    *)
(***************************************************************************)
EXTENDS HookFaults

HookPoints == <<"read", "write", "release">>

WantedOf == [e \in Exps |-> IF e = "e1" THEN <<"read", "open">> ELSE <<"write", "read", "release">>]

AffectedBy == [e \in Exps |-> IF e = "e1" THEN {"in"} ELSE Paths]

\* Pods whose first container mounts the volume with each propagation there is,
\* next to another container; one mounts it twice, one does not ask.
PodWith(volume, mounts) ==
    [volume |-> volume, subpath |-> TRUE,
     containers |-> <<Container("app", mounts, FALSE), Container("log", <<>>, FALSE)>>]

Mount(volume, propagation) == [volume |-> volume, propagation |-> propagation]

PodsHandedIn ==
    {PodWith("data", <<Mount("data", "Bidirectional"), Mount("data", "HostToContainer")>>),
     PodWith("data", <<Mount("data", "HostToContainer"), Mount("data", "None")>>),
     PodWith("data", <<Mount("other", "Bidirectional")>>),
     PodWith(NoVolume, <<Mount("data", "HostToContainer")>>)}

=============================================================================
