------------------------ MODULE BootUpdateInvariant ------------------------
(***************************************************************************)
(* The inductive invariant behind the safety of BootUpdate.  Bootable is   *)
(* not inductive: that the copy in use is whole depends on which LUNs have *)
(* been prepared so far, on what a call has written up to its next write,  *)
(* and on what the caller had written when it asked for the stage.         *)
(***************************************************************************)
EXTENDS BootUpdate

\* The device, or the order in which the caller works, for which the stages
\* are failsafe.  Where xbl is switched with the boot LUN, a caller that
\* starts over can be told that UPDATE_MAIN is already set with the boot LUN
\* switched back.
Covered == HasXbl => Caller = "resume"

(***************************************************************************)
(* What a LUN looks like.                                                  *)
(***************************************************************************)
\* A header that is right, with the CRC of table, over that array or over one
\* that was cut short.
Headed(gpt, table) == /\ gpt.signed /\ gpt.crc /\ gpt.sound
                      /\ gpt.tableCrc = table
                      /\ gpt.table \in {table, Short}

\* UPDATE_MAIN was done: only the secondary can be usable, with backups first.
OnBackup(l) ==
    /\ l \in Backed
    /\ ~primary[l].signed /\ primary[l].crc /\ primary[l].sound
    /\ primary[l].table = NORMAL_BOOT
    /\ Headed(secondary[l], BACKUP_BOOT)

\* UPDATE_BACKUP was done: only the primary is usable.
OnMain(l) ==
    /\ Usable(primary[l])
    /\ ~secondary[l].signed /\ secondary[l].crc

\* UPDATE_FINALIZE was done: the tables agree, or would.
Agreed(l) == Usable(primary[l]) /\ Headed(secondary[l], primary[l].table)

\* The primary was bad to begin with: nothing has been written to the LUN.
BadFromTheStart(l) ==
    /\ primary[l].signed
    /\ ~primary[l].crc \/ primary[l].table = Garbage
    /\ secondary[l] = ShippedGpt

TablesInv ==
    \A l \in Luns :
        /\ primary[l].tableCrc = NORMAL_BOOT
        /\ primary[l].table \notin {BACKUP_BOOT, Short}
        /\ secondary[l].tableCrc \notin {Garbage, Short}
        /\ primary[l].crc => primary[l].sound
        /\ secondary[l].crc => secondary[l].sound
        /\ Usable(primary[l]) \/ OnBackup(l) \/ BadFromTheStart(l)

(***************************************************************************)
(* What a call has written to its LUN when it comes to each access.        *)
(***************************************************************************)
AccessInv ==
    LET p == primary[lun]
        s == secondary[lun]
        BothSigned == p.signed /\ p.crc /\ s.signed /\ s.crc
    IN
    /\ pc = "boot_lun" => /\ HasXbl
                          /\ \/ stage = UPDATE_MAIN /\ BothSigned
                             \/ stage = UPDATE_BACKUP /\ OnBackup(lun)
    /\ pc = "chain_header" => \/ stage = UPDATE_MAIN /\ BothSigned
                              \/ stage = UPDATE_FINALIZE /\ OnMain(lun)
    /\ pc = "chain_table" => \/ /\ stage = UPDATE_MAIN /\ lun \in Backed
                                /\ Usable(p) /\ s.signed /\ s.crc
                                /\ s.tableCrc = BACKUP_BOOT
                             \/ /\ stage = UPDATE_FINALIZE /\ OnMain(lun)
                                /\ s.tableCrc = NORMAL_BOOT
    /\ pc = "set_primary" => \/ /\ stage = UPDATE_MAIN /\ lun \in Backed
                                /\ Usable(p) /\ Headed(s, BACKUP_BOOT)
                             \/ stage = UPDATE_BACKUP /\ OnBackup(lun)
    /\ pc = "set_secondary" => \/ /\ stage = UPDATE_BACKUP
                                  /\ Usable(p) /\ s.crc
                               \/ /\ stage = UPDATE_FINALIZE /\ OnMain(lun)
                                  /\ s.tableCrc = NORMAL_BOOT
                                  /\ s.table \in {NORMAL_BOOT, Short}

(***************************************************************************)
(* What the caller had written when it asked for the stage in progress.    *)
(***************************************************************************)
CallInv ==
    pc # "idle" => /\ reached = stage
                   /\ stage = UPDATE_BACKUP => AllAre("main", "new")
                   /\ stage = UPDATE_FINALIZE => AllAre("bak", "new")

(***************************************************************************)
(* The LUNs that the loop is through with are as the stage wants them,     *)
(* unless an error was noted.                                              *)
(***************************************************************************)
Succeeding == IF pc = "idle" THEN result = "ok" ELSE ~is_error

Visited == IF pc = "idle" THEN Luns
           ELSE Luns \ (todo \cup (IF pc = "next_lun" THEN {} ELSE {lun}))

VisitedInv ==
    Succeeding =>
        \A l \in Visited :
            /\ stage = UPDATE_MAIN /\ l \in Backed => OnBackup(l)
            /\ stage = UPDATE_MAIN /\ HasXbl => bootLun = BOOT_LUN_B_ID
            /\ stage = UPDATE_BACKUP => OnMain(l)
            /\ stage = UPDATE_FINALIZE =>
                  Agreed(l) /\ bootLun = BOOT_LUN_A_ID

(***************************************************************************)
(* Which boot LUN is selected, for a caller that resumes.                  *)
(***************************************************************************)
XblInv ==
    /\ ~HasXbl => bootLun = BOOT_LUN_A_ID
    /\ HasXbl =>
        /\ \A l \in Luns : OnBackup(l) /\ reached \in {0, UPDATE_MAIN}
                               => bootLun = BOOT_LUN_B_ID
        /\ \A l \in Luns : OnMain(l) => /\ bootLun = BOOT_LUN_A_ID
                                        /\ reached \in {2, 3}
        /\ pc \in {"chain_header", "chain_table", "set_primary"}
              /\ stage = UPDATE_MAIN => bootLun = BOOT_LUN_B_ID
        /\ pc \in {"set_primary", "set_secondary"}
              /\ stage = UPDATE_BACKUP => bootLun = BOOT_LUN_A_ID

(***************************************************************************)
(* Where an incomplete copy may be, and that none of a set of LUNs boots   *)
(* it then: here of all the LUNs.                                          *)
(***************************************************************************)
TornOn(set) ==
    \A u \in Units :
        /\ content[u]["main"] = "torn" =>
              /\ \A l \in Backed \cap set : OnBackup(l)
              /\ HasXbl => bootLun = BOOT_LUN_B_ID
        /\ content[u]["bak"] = "torn" =>
              /\ \A l \in set : OnMain(l)
              /\ HasXbl => bootLun = BOOT_LUN_A_ID

TornInv == TornOn(Luns)

\* What holds of the LUNs whatever is written to the copies.
LunInv == /\ TypeOK
          /\ TablesInv
          /\ AccessInv
          /\ CallInv
          /\ VisitedInv
          /\ XblInv

SafeInv == LunInv /\ TornInv
=============================================================================
