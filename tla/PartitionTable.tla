--------------------------- MODULE PartitionTable ---------------------------
(***************************************************************************)
(* gpt_pentry_seek and gpt_boot_chain_swap of gpt-utils.cpp on an entries  *)
(* array.  An entry is named for its partition or for the backup of it     *)
(* (tz, tzbak); the boot loader takes the first one of the two.  The loop  *)
(* over PTN_SWAP_LIST exchanges the two entries of each listed partition.  *)
(* Some listed names are prefixes of others (cmnlib, cmnlib64): a name is  *)
(* a sequence of pieces, which the code compares from the front.           *)
(* BootUpdate takes from here that an array is in one of two states and    *)
(* that a swap leads from each to the other.  A definition X_Word is a     *)
(* plausible mistake in X that a property must catch; nothing uses it.     *)
(***************************************************************************)
EXTENDS Naturals, SequencesExt

CONSTANTS Pieces,            \* what names are made of
          Names,             \* names that entries of an array may have
          SwapList,          \* PTN_SWAP_LIST
          PTN_XBL,           \* "xbl"
          BAK_PTN_NAME_EXT,  \* "bak"
          is_ufs,            \* gpt_utils_is_ufs_device
          MaxEntries,        \* bound on the length of an array
          MaxCalls           \* bound on calls of gpt_boot_chain_swap

ASSUME NamesAssumption ==
    /\ Names \subseteq Seq(Pieces)
    /\ PTN_XBL \in Seq(Pieces)
    /\ BAK_PTN_NAME_EXT \in Seq(Pieces)

\* No name is listed twice, none is the backup's name of another, and a backup
\* that begins with PTN_XBL is one of such a partition.
ASSUME ListAssumption ==
    /\ SwapList \in Seq(Seq(Pieces))
    /\ \A i, j \in 1 .. Len(SwapList) : SwapList[i] = SwapList[j] => i = j
    /\ \A i, j \in 1 .. Len(SwapList) : SwapList[i] # SwapList[j] \o BAK_PTN_NAME_EXT
    /\ \A j \in 1 .. Len(SwapList) :
          IsPrefix(PTN_XBL, SwapList[j] \o BAK_PTN_NAME_EXT)
              => IsPrefix(PTN_XBL, SwapList[j])
ASSUME UfsAssumption == is_ufs \in BOOLEAN
ASSUME BoundsAssumption == MaxEntries \in Nat /\ MaxCalls \in Nat

\* Every name is there once at most.  An entry is moved whole, with its name.
Arrays == UNION {{a \in [1 .. n -> Names] :
                    \A i, j \in 1 .. n : a[i] = a[j] => i = j} :
                 n \in 0 .. MaxEntries}

VARIABLES pentries,          \* the array
          i,                 \* index into PTN_SWAP_LIST
          backup_not_found,  \* what the function is to return
          shipped,           \* the array before the first call
          calls              \* calls that have returned

vars == <<pentries, i, backup_not_found, shipped, calls>>

Places(a) == 1 .. Len(a)

TypeOK ==
    /\ pentries \in Seq(Names) /\ shipped \in Seq(Names)
    /\ Len(pentries) = Len(shipped)
    /\ i \in 1 .. Len(SwapList) + 1
    /\ backup_not_found \in {0, 1}
    /\ calls \in 0 .. MaxCalls

Init ==
    /\ pentries \in Arrays
    /\ shipped = pentries
    /\ i = 1
    /\ backup_not_found = 1
    /\ calls = 0
-----------------------------------------------------------------------------
Matches_PrefixOnly(ptn_name, name8) == IsPrefix(ptn_name, name8)

\* The name begins with ptn_name, after which it ends or "bak" is left.
Matches(ptn_name, name8) ==
    /\ IsPrefix(ptn_name, name8)
    /\ SubSeq(name8, Len(ptn_name) + 1, Len(name8)) \in {<<>>, BAK_PTN_NAME_EXT}

\* The first place from start on of an entry of ptn, under either name: a set
\* of one place, or the empty one for NULL.
gpt_pentry_seek(ptn, start) ==
    {k \in start .. Len(pentries) :
        /\ Matches(ptn, pentries[k])
        /\ \A j \in start .. k - 1 : ~Matches(ptn, pentries[j])}

Skipped_ExactName(ptn) == is_ufs /\ ptn = PTN_XBL

\* xbl is taken care of with the boot LUN; so is what has its name as a prefix.
Skipped(ptn) == is_ufs /\ IsPrefix(PTN_XBL, ptn)

NextName ==
    /\ i <= Len(SwapList)
    /\ i' = i + 1
    /\ UNCHANGED <<shipped, calls>>

Skip ==
    /\ NextName
    /\ Skipped(SwapList[i])
    /\ UNCHANGED <<pentries, backup_not_found>>

NotFound ==
    /\ NextName
    /\ ~Skipped(SwapList[i])
    /\ gpt_pentry_seek(SwapList[i], 1) = {}
    /\ UNCHANGED <<pentries, backup_not_found>>

NotBackedUp ==
    /\ NextName
    /\ ~Skipped(SwapList[i])
    /\ \E k \in gpt_pentry_seek(SwapList[i], 1) :
          gpt_pentry_seek(SwapList[i], k + 1) = {}
    /\ UNCHANGED <<pentries, backup_not_found>>

Swap_OneWay ==
    /\ NextName
    /\ ~Skipped(SwapList[i])
    /\ \E k \in gpt_pentry_seek(SwapList[i], 1) :
          \E b \in gpt_pentry_seek(SwapList[i], k + 1) :
             pentries' = [pentries EXCEPT ![k] = pentries[b]]
    /\ backup_not_found' = 0

Swap ==
    /\ NextName
    /\ ~Skipped(SwapList[i])
    /\ \E k \in gpt_pentry_seek(SwapList[i], 1) :
          \E b \in gpt_pentry_seek(SwapList[i], k + 1) :
             pentries' = [pentries EXCEPT ![k] = pentries[b],
                                          ![b] = pentries[k]]
    /\ backup_not_found' = 0

Returned == i = Len(SwapList) + 1

\* The function is called again, with the array as the last call left it.
CallAgain ==
    /\ Returned
    /\ calls < MaxCalls
    /\ calls' = calls + 1
    /\ i' = 1
    /\ backup_not_found' = 1
    /\ UNCHANGED <<pentries, shipped>>

Next == Skip \/ NotFound \/ NotBackedUp \/ Swap \/ CallAgain

Spec == Init /\ [][Next]_vars
-----------------------------------------------------------------------------
(***************************************************************************)
(* Properties.                                                             *)
(***************************************************************************)
Listed == {SwapList[j] : j \in 1 .. Len(SwapList)}

\* The two entries of a listed partition that is not skipped.
AreTwins(name, other) ==
    \E ptn \in Listed : /\ ~Skipped(ptn)
                        /\ {name, other} = {ptn, ptn \o BAK_PTN_NAME_EXT}

Twins(a) == {t \in Places(a) \X Places(a) : AreTwins(a[t[1]], a[t[2]])}

\* What a swap is meant to do, said without a loop.
SwappedArray(a) ==
    [k \in Places(a) |-> IF \E b \in Places(a) : <<k, b>> \in Twins(a)
                         THEN a[CHOOSE b \in Places(a) : <<k, b>> \in Twins(a)]
                         ELSE a[k]]

\* Every call exchanges all the twins and nothing else, so that the second one
\* undoes the first: gpt2_set_boot_chain for UPDATE_FINALIZE relies on finding
\* in the array of one table the other one's order.
SwapsTheTwins ==
    Returned => pentries = IF calls % 2 = 0 THEN SwappedArray(shipped)
                                            ELSE shipped

\* The caller is told that there is nothing to update safely exactly when the
\* boot loader would find the same images as before.
TellsIfNothingSwapped ==
    Returned => (backup_not_found = 1 <=> Twins(pentries) = {})

\* xbl and its like are where they were whenever the boot LUN is to tell them.
XblStaysPut ==
    is_ufs => \A k \in Places(shipped) :
                 IsPrefix(PTN_XBL, shipped[k]) => pentries[k] = shipped[k]
=============================================================================
