--------------------------- MODULE BladeRefinement ---------------------------
(***************************************************************************)
(* The life of a blade implements the contract of BladeContract: the       *)
(* object at the API server gives the phase, the finalizer and the         *)
(* deletion, the faults in the cluster say whether experiments are on.     *)
(***************************************************************************)
EXTENDS BladeLifecycle

Contract == INSTANCE BladeContract WITH
    Absent   <- "Absent",
    phase    <- IF server.live THEN server.phase ELSE "Absent",
    held     <- server.fin,
    deleting <- server.dt,
    on       <- active # {},
    excused  <- trouble # {}

\* Every step of the users, the informer, the reconciler, the clean-up loop and
\* the watchers is a step the contract allows: the phases follow their order,
\* faults are started only under the finalizer, and a blade is ended or given
\* up with faults in effect only after one of Causes has been met.
ImplementsContract == Contract!Spec

=============================================================================
