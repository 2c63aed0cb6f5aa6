------------------------- MODULE MCBootUpdateCached -------------------------
(***************************************************************************)
(* BootUpdateCached on small devices.  The LUNs that have backup images    *)
(* are interchangeable.                                                    *)
(***************************************************************************)
EXTENDS BootUpdateCached

SomeDamage == {"none", "primary_header", "primary_table",
               "secondary_header", "secondary_table"}
NoDamage   == {"none"}

LunSymmetry == Permutations(Backed)
=============================================================================
