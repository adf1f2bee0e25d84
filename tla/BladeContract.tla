---------------------------- MODULE BladeContract ----------------------------
(***************************************************************************)
(* What a ChaosBlade resource promises its users, without the machinery    *)
(* that keeps the promise: the order of the phases, the finalizer that     *)
(* holds the resource while its experiments are in effect, and that        *)
(* experiments are in effect only under that protection.                   *)
(*                                                                         *)
(* The phases are those of pkg/apis/chaosblade/v1alpha1/types.go.          *)
(***************************************************************************)

CONSTANT Absent    \* the phase of a resource that does not exist

VARIABLES
    phase,     \* Status.Phase, or Absent
    held,      \* is the operator's finalizer on the resource?
    deleting,  \* has the deletion been asked for?
    on,        \* is some experiment of the resource in effect?
    excused    \* has an accepted cause of divergence been met?

cvars == <<phase, held, deleting, on, excused>>

Init ==
    /\ phase = Absent
    /\ ~held /\ ~deleting /\ ~on /\ ~excused

\* A divergence may be met in any step; it is never taken back.
MayExcuse == excused' \in {excused, TRUE}

Exists == phase # Absent

Gone == phase' = Absent /\ ~held' /\ ~deleting'

Appear ==
    /\ ~Exists
    /\ phase' = "Initial"
    /\ MayExcuse
    /\ UNCHANGED <<held, deleting, on>>

\* The finalizer is set before anything else is done.
Hold ==
    /\ phase = "Initial" /\ ~held
    /\ held' = TRUE
    /\ UNCHANGED <<phase, deleting, on, excused>>

\* The phases a resource goes through while nobody ends it.
Order == {<<"Initial", "Initialized">>,
          <<"Initialized", "Running">>, <<"Initialized", "Error">>,
          <<"Running", "Updating">>, <<"Error", "Updating">>,
          <<"Updating", "Running">>, <<"Updating", "Error">>,
          <<"Running", "Destroying">>, <<"Error", "Destroying">>}

Progress ==
    /\ held \/ excused
    /\ <<phase, phase'>> \in Order
    /\ MayExcuse
    /\ UNCHANGED <<held, deleting, on>>

\* A resource under deletion whose experiments could not all be destroyed.
Struggle ==
    /\ Exists /\ deleting /\ phase # "Destroyed"
    /\ phase' = "Destroying"
    /\ UNCHANGED <<held, deleting, on, excused>>

\* Whoever ends the resource, its experiments are over by then.
End ==
    /\ Exists
    /\ phase' = "Destroyed"
    /\ MayExcuse
    /\ on => excused'
    /\ UNCHANGED <<held, deleting, on>>

Start ==
    /\ held \/ excused
    /\ on' = TRUE
    /\ MayExcuse
    /\ UNCHANGED <<phase, held, deleting>>

Stop ==
    /\ on' = FALSE
    /\ MayExcuse
    /\ UNCHANGED <<phase, held, deleting>>

Diverge ==
    /\ excused' = TRUE
    /\ UNCHANGED <<phase, held, deleting, on>>

\* Without the finalizer a deletion takes the resource away at once.
AskDeletion ==
    /\ Exists /\ ~deleting
    /\ \/ held /\ deleting' = TRUE /\ UNCHANGED <<phase, held>>
       \/ ~held /\ Gone
    /\ UNCHANGED <<on, excused>>

\* The finalizer goes when the resource is over, or when its destruction has
\* failed and it is given up; otherwise, and with experiments in effect, only
\* by divergence.
Release ==
    /\ held
    /\ phase = "Destroyed" \/ (deleting /\ phase = "Destroying") \/ excused'
    /\ MayExcuse
    /\ on => excused'
    /\ \/ deleting /\ Gone
       \/ ~deleting /\ held' = FALSE /\ UNCHANGED <<phase, deleting>>
    /\ UNCHANGED on

Next == \/ Appear \/ Hold \/ Progress \/ Struggle \/ End \/ Start \/ Stop
        \/ Diverge \/ AskDeletion \/ Release

Spec == Init /\ [][Next]_cvars

=============================================================================
