----------------------------- MODULE MCStorage -----------------------------
(***************************************************************************)
(* Values for the run Storage, in units of 10^-7: -0.0000004 and 0.0000005 *)
(* are printed alike if the half is rounded down, 0.0000016 is printed two *)
(* places higher and exceeds both by more than one.                        *)
(***************************************************************************)
EXTENDS Storage

MCValue == {-4, 5, 16}
=============================================================================
