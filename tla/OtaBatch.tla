------------------------------- MODULE OtaBatch -------------------------------
(***************************************************************************)
(* What generate_otas promises: it makes the packages of the types asked   *)
(* for, each type succeeds or fails once as a whole, and what it releases  *)
(* are the packages of exactly the types that succeeded, all at once and   *)
(* only when every type is decided. A run may also give up and release     *)
(* nothing.                                                                *)
(***************************************************************************)
CONSTANT Types   \* the types of packages: full, incremental

VARIABLES
  wanted,     \* the types asked for
  outcome,    \* what became of each of them
  released,   \* the types with released packages
  over        \* nothing is released any more

batchVars == <<wanted, outcome, released, over>>

BatchInit ==
  /\ wanted \in SUBSET Types
  /\ outcome = [t \in Types |-> "open"]
  /\ released = {}
  /\ over = FALSE

Decided == \A t \in wanted : outcome[t] # "open"
Made == {t \in wanted : outcome[t] = "made"}

Decide ==
  \E t \in wanted :
    /\ outcome[t] = "open"
    /\ \E o \in {"made", "failed"} : outcome' = [outcome EXCEPT ![t] = o]
    /\ UNCHANGED <<wanted, released, over>>

Release ==
  /\ ~over
  /\ Decided
  /\ released' = Made
  /\ over' = TRUE
  /\ UNCHANGED <<wanted, outcome>>

GiveUp ==
  /\ ~over
  /\ over' = TRUE
  /\ UNCHANGED <<wanted, outcome, released>>

BatchSpec == BatchInit /\ [][Decide \/ Release \/ GiveUp]_batchVars
=============================================================================
