----------------------------- MODULE UpdateList -----------------------------
(***************************************************************************)
(* The first half of prepare_boot_update of gpt-utils.cpp on UFS: which    *)
(* LUNs are prepared, and in which order.  For each name of PTN_SWAP_LIST  *)
(* the link of its backup is followed to a LUN, which is added to a list   *)
(* unless it is there.  BootUpdate takes from here that a call goes        *)
(* through a set of LUNs, each of them once.  A definition X_Word is a     *)
(* plausible mistake in X that a property must catch; nothing uses it.     *)
(***************************************************************************)
EXTENDS PartitionTable, FiniteSets

CONSTANTS LunPaths,    \* the paths of the LUNs: /dev/block/sda and so on
          NoLun,       \* the backup has no link, or one that is not followed
          MAX_LUNS     \* rows of update_data.lun_list

ASSUME LunsAssumption == NoLun \notin LunPaths /\ MAX_LUNS \in Nat \ {0}

\* Where the backup of each listed partition is, as far as it is looked for.
Where == [{ptn \in ToSet(SwapList) : ~Skipped(ptn)} -> LunPaths \cup {NoLun}]

add_lun_to_update_list_LastOnly(lun_list, lun_path) ==
    IF lun_list # <<>> /\ Last(lun_list) = lun_path THEN lun_list
    ELSE Append(lun_list, lun_path)

\* The list is only searched as long as two rows are free.
add_lun_to_update_list(lun_list, lun_path) ==
    IF Len(lun_list) < MAX_LUNS - 1 /\ lun_path \in ToSet(lun_list)
    THEN lun_list
    ELSE Append(lun_list, lun_path)

\* The loop over PTN_SWAP_LIST; after[n] is the list after its first n names.
lun_list(where) ==
    LET after[n \in 0 .. Len(SwapList)] ==
          IF n = 0 THEN <<>>
          ELSE IF Skipped(SwapList[n]) \/ where[SwapList[n]] = NoLun THEN after[n - 1]
          ELSE add_lun_to_update_list(after[n - 1], where[SwapList[n]])
    IN  after[Len(SwapList)]

\* The LUNs that the boot critical images are spread over.
Spread(where) == {where[ptn] : ptn \in DOMAIN where} \ {NoLun}
-----------------------------------------------------------------------------
\* Where the backups may be for a list to miss a LUN, or to have one twice.
Misled == {where \in Where :
              /\ Cardinality(Spread(where)) < MAX_LUNS - 1
              /\ \/ ToSet(lun_list(where)) # Spread(where)
                 \/ Len(lun_list(where)) # Cardinality(Spread(where))}

\* Each LUN that has a backup of a boot critical image is prepared, once, and
\* no other: preparing one twice would take it through the same stage again.
\* The list does this as long as the LUNs leave two rows of it free; it is
\* made before the first swap.
ListsEachLun == (calls = 0 /\ i = 1) => Misled = {}

\* The list never needs more rows than it has.  It may: once all rows but one
\* are taken, LUNs are added without a look at the list or its end.
ListFits == \A where \in Where : Len(lun_list(where)) <= MAX_LUNS
=============================================================================
