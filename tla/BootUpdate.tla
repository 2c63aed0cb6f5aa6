----------------------------- MODULE BootUpdate -----------------------------
(***************************************************************************)
(* gpt-utils/gpt-utils.cpp: prepare_boot_update, the three stages of a     *)
(* failsafe update of the boot images, as the sequence of block writes it  *)
(* is.  Each LUN carries a primary and a secondary GPT.  UPDATE_MAIN makes *)
(* the secondary table name the backup images first and spoils the primary *)
(* signature, so that the boot loader falls back to the secondary and the  *)
(* main images can be written; UPDATE_BACKUP turns this round so that the  *)
(* backup images can be written; UPDATE_FINALIZE makes both tables agree.  *)
(* On UFS the xbl image is not found through a GPT: the boot LUN is        *)
(* switched.  The program may die, or a block access fail, between any two *)
(* writes.  Here a write is on the medium when it returns, which is what a *)
(* medium that keeps the order of writes amounts to; BootUpdateCached      *)
(* drops that assumption.  A definition X_Word is a plausible mistake in X *)
(* that a property must catch; nothing uses it.                            *)
(***************************************************************************)
EXTENDS Naturals

CONSTANTS Luns,        \* the block devices of the update list
          Backed,      \* those whose table has an image with its backup twin
          HasXbl,      \* UFS, with xbl and xblbak present
          Xbl,         \* the unit that xbl and xblbak form
          Damages,     \* what may be wrong with a LUN to begin with
          Caller,      \* how the caller orders its calls
          MaxFaults    \* bound on crashes and failed accesses

ASSUME LunsAssumption   == Backed \subseteq Luns /\ Xbl \notin Luns
ASSUME XblAssumption    == HasXbl \in BOOLEAN
ASSUME CallerAssumption == Caller \in {"any", "resume", "cycle"}
ASSUME FaultsAssumption == MaxFaults \in Nat
ASSUME DamagesAssumption ==
    Damages \subseteq {"none", "primary_header", "primary_table",
                       "secondary_header", "secondary_table"}

UPDATE_MAIN     == 1
UPDATE_BACKUP   == 2
UPDATE_FINALIZE == 3
Stages          == {UPDATE_MAIN, UPDATE_BACKUP, UPDATE_FINALIZE}

BOOT_LUN_A_ID == 1
BOOT_LUN_B_ID == 2

(***************************************************************************)
(* A partition entries array: the entries as shipped (each image before    *)
(* its backup), the entries with each image and its backup swapped, an     *)
(* array that a failed write, a crash or a bad block left, or one that a   *)
(* write left which stopped short and was taken for whole.  A CRC is as    *)
(* good as the array it was computed from, so it is represented by it.     *)
(***************************************************************************)
NORMAL_BOOT == "normal"
BACKUP_BOOT == "backup"
Garbage     == "garbage"
Short       == "short"
Tables      == {NORMAL_BOOT, BACKUP_BOOT, Garbage, Short}

\* One GPT: signed - the signature is right; crc - the header CRC matches the
\* header; sound - the other header fields are those of this disk; tableCrc -
\* the array whose CRC the header holds; table - the array on the medium.
Gpts == [signed : BOOLEAN, crc : BOOLEAN, sound : BOOLEAN,
         tableCrc : Tables, table : Tables]

Copies   == {"main", "bak"}
Contents == {"old", "new", "torn"}
Units    == Backed \cup (IF HasXbl THEN {Xbl} ELSE {})

VARIABLES primary,     \* the primary GPT of each LUN
          secondary,   \* the secondary GPT of each LUN
          bootLun,     \* the UFS attribute that selects the boot LUN
          content,     \* what is in the two copies of each unit of images
          pc,          \* where prepare_boot_update is
          stage,       \* its argument
          todo,        \* the LUNs its loop has still to visit
          lun,         \* the LUN prepare_partitions works on
          is_error,    \* its local of that name
          result,      \* what the last call returned to a living caller
          reached,     \* the caller's note of the stage it last asked for
          faults       \* crashes and failed accesses so far

disk   == <<primary, secondary, bootLun>>
frame  == <<stage, todo, lun, is_error>>
caller == <<content, result, reached>>
vars   == <<primary, secondary, bootLun, content, pc, stage, todo, lun,
            is_error, result, reached, faults>>

AccessPoints == {"get_state", "boot_lun", "chain_header", "chain_table",
                 "set_primary", "set_secondary"}

TypeOK ==
    /\ primary   \in [Luns -> Gpts]
    /\ secondary \in [Luns -> Gpts]
    /\ bootLun   \in {BOOT_LUN_A_ID, BOOT_LUN_B_ID}
    /\ content   \in [Units -> [Copies -> Contents]]
    /\ pc        \in AccessPoints \cup {"idle", "next_lun"}
    /\ stage     \in Stages
    /\ todo      \in SUBSET Luns
    /\ lun       \in Luns
    /\ is_error  \in BOOLEAN
    /\ result    \in {"none", "ok", "failed"}
    /\ reached   \in 0 .. 3
    /\ faults    \in 0 .. MaxFaults
-----------------------------------------------------------------------------
(***************************************************************************)
(* The boot loader, which is not in this repository: it takes the primary  *)
(* GPT if signature, header CRC and array CRC hold, else the secondary,    *)
(* and in the table it took the first entry of an image.                   *)
(***************************************************************************)
Usable(gpt) == /\ gpt.signed /\ gpt.crc /\ gpt.sound
               /\ gpt.tableCrc = gpt.table
               /\ gpt.table \in {NORMAL_BOOT, BACKUP_BOOT}

LiveTable(l) == CASE Usable(primary[l])   -> primary[l].table
                  [] ~Usable(primary[l]) /\ Usable(secondary[l])
                                          -> secondary[l].table
                  [] OTHER                -> Garbage

FirstCopy(table) == CASE table = NORMAL_BOOT -> "main"
                      [] table = BACKUP_BOOT -> "bak"
                      [] OTHER               -> "nothing"

LiveCopy(u) == IF HasXbl /\ u = Xbl
               THEN (IF bootLun = BOOT_LUN_A_ID THEN "main" ELSE "bak")
               ELSE FirstCopy(LiveTable(u))
-----------------------------------------------------------------------------
ShippedGpt == [signed |-> TRUE, crc |-> TRUE, sound |-> TRUE,
               tableCrc |-> NORMAL_BOOT, table |-> NORMAL_BOOT]
BadHeader  == [ShippedGpt EXCEPT !.crc = FALSE, !.sound = FALSE]
BadTable   == [ShippedGpt EXCEPT !.table = Garbage]

\* The primary and the secondary GPT of a LUN with damage d.
FirstPrimary(d)   == CASE d = "primary_header" -> BadHeader
                       [] d = "primary_table"  -> BadTable
                       [] OTHER                -> ShippedGpt
FirstSecondary(d) == CASE d = "secondary_header" -> BadHeader
                       [] d = "secondary_table"  -> BadTable
                       [] OTHER                  -> ShippedGpt

Init ==
    /\ \E damage \in [Luns -> Damages] :
         /\ primary   = [l \in Luns |-> FirstPrimary(damage[l])]
         /\ secondary = [l \in Luns |-> FirstSecondary(damage[l])]
    /\ bootLun  = BOOT_LUN_A_ID
    /\ content  = [u \in Units |-> [c \in Copies |-> "old"]]
    /\ pc       = "idle"
    /\ stage    = UPDATE_MAIN
    /\ todo     = {}
    /\ lun      \in Luns
    /\ is_error = FALSE
    /\ result   = "none"
    /\ reached  = 0
    /\ faults   = 0
-----------------------------------------------------------------------------
(***************************************************************************)
(* prepare_boot_update: the list of LUNs is visited in the order in which  *)
(* their images come in the by-name directory, so in any order; a LUN that *)
(* fails does not stop the loop.                                           *)
(***************************************************************************)
LunDone_LastCounts(failed) ==
    /\ pc'       = "next_lun"
    /\ is_error' = failed
    /\ UNCHANGED <<stage, todo, lun>>

LunDone(failed) ==
    /\ pc'       = "next_lun"
    /\ is_error' = (is_error \/ failed)
    /\ UNCHANGED <<stage, todo, lun>>

NextLun ==
    /\ pc = "next_lun"
    /\ \E l \in todo : lun' = l /\ todo' = todo \ {l}
    /\ pc' = "get_state"
    /\ UNCHANGED <<disk, caller, stage, is_error, faults>>

Return ==
    /\ pc = "next_lun"
    /\ todo = {}
    /\ pc' = "idle"
    /\ result' = IF is_error THEN "failed" ELSE "ok"
    /\ reached' = IF stage = UPDATE_FINALIZE /\ ~is_error THEN 0 ELSE reached
    /\ UNCHANGED <<disk, frame, content, faults>>
-----------------------------------------------------------------------------
GptState_NoCrc(gpt) == IF gpt.signed THEN "GPT_OK" ELSE "GPT_BAD_SIGNATURE"

\* gpt_get_state looks at the header only; a bad CRC outweighs the signature.
GptState(gpt) == CASE ~gpt.crc                -> "GPT_BAD_CRC"
                   [] gpt.crc /\ ~gpt.signed  -> "GPT_BAD_SIGNATURE"
                   [] gpt.crc /\ gpt.signed   -> "GPT_OK"

\* The stage that the two headers say comes next; 0 where the code aborts.
InternalStage(p, s) ==
    CASE p = "GPT_OK" /\ s = "GPT_OK"            -> UPDATE_MAIN
      [] p = "GPT_BAD_SIGNATURE" /\ s = "GPT_OK" -> UPDATE_BACKUP
      [] p = "GPT_OK" /\ s = "GPT_BAD_SIGNATURE" -> UPDATE_FINALIZE
      [] OTHER                                   -> 0

internal_stage == InternalStage(GptState(primary[lun]),
                                GptState(secondary[lun]))

StageAlreadySet_Refused ==
    /\ pc = "get_state"
    /\ internal_stage # 0
    /\ stage = internal_stage - 1
    /\ LunDone(TRUE)
    /\ UNCHANGED <<disk, caller, faults>>

StageAlreadySet ==
    /\ pc = "get_state"
    /\ internal_stage # 0
    /\ stage = internal_stage - 1
    /\ LunDone(FALSE)
    /\ UNCHANGED <<disk, caller, faults>>

RefuseStage ==
    /\ pc = "get_state"
    /\ internal_stage # 0 => stage \notin {internal_stage, internal_stage - 1}
    /\ LunDone(TRUE)
    /\ UNCHANGED <<disk, caller, faults>>

EnterStage_NoBootLun ==
    /\ pc = "get_state"
    /\ stage = internal_stage
    /\ pc' = IF stage = UPDATE_BACKUP THEN "set_primary" ELSE "chain_header"
    /\ UNCHANGED <<disk, frame, caller, faults>>

EnterStage_NoChain ==
    /\ pc = "get_state"
    /\ stage = internal_stage
    /\ pc' = IF stage = UPDATE_FINALIZE THEN "set_secondary" ELSE "set_primary"
    /\ UNCHANGED <<disk, frame, caller, faults>>

EnterStage ==
    /\ pc = "get_state"
    /\ stage = internal_stage
    /\ pc' = CASE stage = UPDATE_MAIN /\ ~HasXbl   -> "chain_header"
               [] stage = UPDATE_BACKUP /\ ~HasXbl -> "set_primary"
               [] stage = UPDATE_FINALIZE          -> "chain_header"
               [] OTHER                            -> "boot_lun"
    /\ UNCHANGED <<disk, frame, caller, faults>>
-----------------------------------------------------------------------------
\* gpt_utils_set_xbl_boot_partition: one query to the UFS controller.
SetBootLun ==
    /\ pc = "boot_lun"
    /\ bootLun' = IF stage = UPDATE_MAIN THEN BOOT_LUN_B_ID ELSE BOOT_LUN_A_ID
    /\ pc' = IF stage = UPDATE_MAIN THEN "chain_header" ELSE "set_primary"
    /\ UNCHANGED <<primary, secondary, frame, caller, faults>>

(***************************************************************************)
(* gpt2_set_boot_chain: the table is the primary one, swapped for          *)
(* BACKUP_BOOT; the secondary header goes out first, the array after it.   *)
(***************************************************************************)
PrimaryTableBad == primary[lun].tableCrc # primary[lun].table
NoBackupFound   == stage = UPDATE_MAIN /\ lun \notin Backed

\* Nothing is written: an error if the primary array does not match its CRC,
\* but success if no image of the LUN has a backup to swap it with.
KeepChain ==
    /\ pc = "chain_header"
    /\ PrimaryTableBad \/ NoBackupFound
    /\ LunDone(PrimaryTableBad)
    /\ UNCHANGED <<disk, caller, faults>>

Swapped(table) == CASE table = NORMAL_BOOT -> BACKUP_BOOT
                    [] table = BACKUP_BOOT -> NORMAL_BOOT
                    [] OTHER               -> table

ChainTable_AlwaysSwapped(l) == Swapped(primary[l].table)

ChainTable(l) == IF stage = UPDATE_MAIN THEN Swapped(primary[l].table)
                                        ELSE primary[l].table

WriteChainHeader_Unchecked ==
    /\ pc = "chain_header"
    /\ ~NoBackupFound
    /\ secondary' = [secondary EXCEPT ![lun].tableCrc = ChainTable(lun),
                                      ![lun].crc = TRUE]
    /\ pc' = "chain_table"
    /\ UNCHANGED <<primary, bootLun, frame, caller, faults>>

WriteChainHeader ==
    /\ pc = "chain_header"
    /\ ~PrimaryTableBad /\ ~NoBackupFound
    /\ secondary' = [secondary EXCEPT ![lun].tableCrc = ChainTable(lun),
                                      ![lun].crc = TRUE]
    /\ pc' = "chain_table"
    /\ UNCHANGED <<primary, bootLun, frame, caller, faults>>

\* The array, as blk_rw left it, after which the stage goes on.
ChainWritten(table) ==
    /\ pc = "chain_table"
    /\ secondary' = [secondary EXCEPT ![lun].table = table]
    /\ pc' = IF stage = UPDATE_MAIN THEN "set_primary" ELSE "set_secondary"
    /\ UNCHANGED <<primary, bootLun, frame, caller>>

WriteChainTable == ChainWritten(ChainTable(lun)) /\ UNCHANGED faults

\* write(2) did less than it was asked to: blk_rw returns 0 for that too.
WriteFallsShort ==
    /\ faults < MaxFaults
    /\ faults' = faults + 1
    /\ ChainWritten(Short)

(***************************************************************************)
(* gpt_set_state: the signature is put right or spoiled and the header CRC *)
(* computed anew, whatever the header held.                                *)
(***************************************************************************)
SetPrimary ==
    /\ pc = "set_primary"
    /\ primary' = [primary EXCEPT ![lun].signed = (stage = UPDATE_BACKUP),
                                  ![lun].crc = TRUE]
    /\ IF stage = UPDATE_MAIN
       THEN LunDone(FALSE)
       ELSE pc' = "set_secondary" /\ UNCHANGED frame
    /\ UNCHANGED <<secondary, bootLun, caller, faults>>

SetSecondary ==
    /\ pc = "set_secondary"
    /\ secondary' = [secondary EXCEPT ![lun].signed = (stage = UPDATE_FINALIZE),
                                      ![lun].crc = TRUE]
    /\ LunDone(FALSE)
    /\ UNCHANGED <<primary, bootLun, caller, faults>>
-----------------------------------------------------------------------------
\* The array spans several blocks: stopped half way, it is neither table.
MaybeTornTable ==
    \/ UNCHANGED secondary
    \/ /\ pc = "chain_table"
       /\ secondary' = [secondary EXCEPT ![lun].table = Garbage]

\* open, ioctl, read or write fails: prepare_partitions leaves with an error.
AccessFails ==
    /\ pc \in AccessPoints
    /\ faults < MaxFaults
    /\ faults' = faults + 1
    /\ MaybeTornTable
    /\ LunDone(TRUE)
    /\ UNCHANGED <<primary, bootLun, caller>>

\* The device loses power or the program is killed; the disk stays as it is.
Crash ==
    /\ faults < MaxFaults
    /\ faults' = faults + 1
    /\ MaybeTornTable
    /\ pc' = "idle"
    /\ todo' = {}
    /\ is_error' = FALSE
    /\ result' = "none"
    /\ UNCHANGED <<primary, bootLun, content, stage, lun, reached>>
-----------------------------------------------------------------------------
(***************************************************************************)
(* The caller, an installer that is not in this repository.  It asks for   *)
(* UPDATE_BACKUP only with every main copy written, for UPDATE_FINALIZE    *)
(* only with every backup copy written, and writes copies only while the   *)
(* last call was the one that prepares for them and returned 0.  Which     *)
(* stage it asks for after a crash or an error is its own affair:          *)
(*   any    - whichever, such as UPDATE_MAIN again from the top;           *)
(*   resume - the stage it had reached or the one after;                   *)
(*   cycle  - in turn, over and over: the next one that it may ask for,    *)
(*            once the writes that the last call allowed are made.         *)
(***************************************************************************)
AllAre(c, what) == \A u \in Units : content[u][c] = what

Permitted(s) == /\ s = UPDATE_BACKUP   => AllAre("main", "new")
                /\ s = UPDATE_FINALIZE => AllAre("bak", "new")

After(s) == (s % 3) + 1

InTurn(s) ==
    CASE Caller = "any"    -> TRUE
      [] Caller = "resume" -> s \in {reached, reached + 1}
      [] Caller = "cycle"  ->
            \/ s = After(reached)
            \/ /\ result # "ok" /\ ~Permitted(After(reached))
               /\ \/ s = After(After(reached))
                  \/ ~Permitted(After(After(reached))) /\ s = reached

Call(s) ==
    /\ pc = "idle"
    /\ Permitted(s)
    /\ InTurn(s)
    /\ pc' = "next_lun"
    /\ stage' = s
    /\ todo' = Luns
    /\ is_error' = FALSE
    /\ result' = "none"
    /\ reached' = s
    /\ UNCHANGED <<disk, lun, content, faults>>

MayWrite(c) == /\ pc = "idle"
               /\ result = "ok"
               /\ \/ stage = UPDATE_MAIN /\ c = "main"
                  \/ stage = UPDATE_BACKUP /\ c = "bak"

StartWrite(u, c) ==
    /\ MayWrite(c)
    /\ content[u][c] = "new" => Caller = "any"
    /\ content' = [content EXCEPT ![u][c] = "torn"]
    /\ UNCHANGED <<disk, pc, frame, result, reached, faults>>

FinishWrite(u, c) ==
    /\ MayWrite(c)
    /\ content[u][c] = "torn"
    /\ content' = [content EXCEPT ![u][c] = "new"]
    /\ UNCHANGED <<disk, pc, frame, result, reached, faults>>

NextPackage ==
    /\ pc = "idle"
    /\ reached = 0
    /\ AllAre("main", "new") /\ AllAre("bak", "new")
    /\ content' = [u \in Units |-> [c \in Copies |-> "old"]]
    /\ UNCHANGED <<disk, pc, frame, result, reached, faults>>
-----------------------------------------------------------------------------
PrepareStep ==
    \/ NextLun \/ Return
    \/ StageAlreadySet \/ RefuseStage \/ EnterStage
    \/ SetBootLun
    \/ KeepChain \/ WriteChainHeader \/ WriteChainTable
    \/ SetPrimary \/ SetSecondary

CallerStep ==
    \/ \E s \in Stages : Call(s)
    \/ \E u \in Units, c \in Copies : StartWrite(u, c) \/ FinishWrite(u, c)
    \/ NextPackage

Next == PrepareStep \/ CallerStep \/ WriteFallsShort \/ AccessFails \/ Crash

Spec == Init /\ [][Next]_vars

(***************************************************************************)
(* Fairness for liveness: a call that was made goes on to its next block   *)
(* access, and an installer with an update under way asks for its next     *)
(* stage or writes its next copy.  Nothing is assumed of faults.           *)
(***************************************************************************)
FairSpec == /\ Spec
            /\ WF_vars(PrepareStep)
            /\ WF_vars(reached # 0 /\ CallerStep)
-----------------------------------------------------------------------------
(***************************************************************************)
(* Properties.                                                             *)
(***************************************************************************)

\* The window that a short write of the array opens: the primary has been
\* spoiled all the same, and the secondary it hands over to is not there.
CutOff(l) == secondary[l].table = Short /\ ~primary[l].signed

\* At every instant, crash or not, the boot loader finds a valid table on
\* every LUN with backed-up images and the copies it then starts are whole:
\* the purpose of prepare_partitions' order of writes.  One fault breaks it, a
\* short write that blk_rw takes for whole; then for that LUN alone, and only
\* until UPDATE_BACKUP puts the primary right.
Bootable ==
    \A u \in Units :
        u = Xbl \/ ~CutOff(u) => /\ LiveCopy(u) \in Copies
                                /\ content[u][LiveCopy(u)] # "torn"

\* A call that returned 0 has the boot loader on the copies the caller is not
\* about to write, also when it returned 0 because a stage was "already set"
\* on some LUN by a call that a crash cut short.
ReadyMeansSwitched ==
    \A c \in Copies : MayWrite(c) => \A u \in Units : LiveCopy(u) # c

\* Putting a CRC on a header or a table never makes one that was damaged look
\* right: the CRC checks before the rewriting calls are there for that.
DamageNeverBlessed ==
    \A l \in Luns : \A gpt \in {primary[l], secondary[l]} :
        /\ gpt.crc => gpt.sound
        /\ gpt.tableCrc \notin {Garbage, Short}

\* When UPDATE_FINALIZE returned 0, every LUN has a valid primary table, the
\* secondary is the same but for an array that was cut short, which its CRC
\* then gives away, and the main xbl is the one that boots.
FinalizeRestores ==
    (pc = "idle" /\ result = "ok" /\ stage = UPDATE_FINALIZE) =>
        /\ \A l \in Luns :
              /\ Usable(primary[l])
              /\ secondary[l] = primary[l]
                 \/ secondary[l] = [primary[l] EXCEPT !.table = Short]
        /\ bootLun = BOOT_LUN_A_ID

\* A step that writes to a LUN leaves its other GPT alone, and that one is
\* valid: whatever becomes of the write, a valid table is still there.  Only
\* beside a secondary array cut short is the primary header written alone.
OneTableAtATime ==
    [][\A l \in Luns :
           \/ primary'[l] = primary[l] /\ Usable(primary[l])
           \/ /\ secondary'[l] = secondary[l]
              /\ \/ Usable(secondary[l])
                 \/ primary'[l] = primary[l]
                 \/ secondary[l].table = Short
      ]_vars

\* An update that was started is finished, if faults stop: with an installer
\* that goes on to the next stage after an error, no interrupted sequence of
\* stages leaves the LUNs in states that refuse each other for ever.
UpdateCompletes == (reached # 0) ~> (reached = 0)

Failsafe == INSTANCE FailsafeUpdate
                WITH live <- [u \in Units |-> LiveCopy(u)],
                     cut  <- {u \in Backed : secondary[u].table = Short}

\* The stages implement the abstract promise.
ImplementsFailsafe == Failsafe!FailsafeSpec
=============================================================================
