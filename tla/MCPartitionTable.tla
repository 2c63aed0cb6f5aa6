-------------------------- MODULE MCPartitionTable --------------------------
(* PartitionTable with all arrays of up to MaxEntries entries, and the     *)
(* lists of LUNs for all places that the backups may be at.  Two of the    *)
(* listed names begin with another one, and so does an entry that is not   *)
(* listed.                                                                 *)
EXTENDS UpdateList

Xbl == <<"xbl">>
Bak == <<"bak">>
ListOfFive ==
    <<Xbl, <<"xbl", "_config">>, <<"cmnlib">>, <<"cmnlib", "64">>, <<"tz">>>>

\* The listed names and those of their backups, and one more that begins with
\* a listed name and with that of its backup.
AllNames ==
    ToSet(ListOfFive) \cup {ptn \o Bak : ptn \in ToSet(ListOfFive)}
        \cup {<<"cmnlib", "bak", "2">>}
AllPieces == {"xbl", "_config", "cmnlib", "64", "2", "tz", "bak"}
=============================================================================
