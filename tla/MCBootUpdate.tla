---------------------------- MODULE MCBootUpdate ----------------------------
(***************************************************************************)
(* BootUpdate on small devices.  The LUNs that have backup images are      *)
(* interchangeable.                                                        *)
(***************************************************************************)
EXTENDS BootUpdateInvariant, TLC

SomeDamage == {"none", "primary_header", "primary_table",
               "secondary_header", "secondary_table"}
NoDamage   == {"none"}

LunSymmetry == Permutations(Backed)
=============================================================================
