-------------------------- MODULE BootUpdate_proofs --------------------------
(***************************************************************************)
(* Theorems about BootUpdate for every set of LUNs, every damage and every *)
(* number of faults.  TLC checks the inductive invariant below on the      *)
(* instances of MCBootUpdate before it is proved here.  The second half is *)
(* about BootUpdateCached with a cache of any size: what a call that       *)
(* returned 0 prepared is on the medium, in whatever order blocks reach    *)
(* it.                                                                     *)
(***************************************************************************)
EXTENDS BootUpdateInvariant, BootUpdateCached, SequenceTheorems, TLAPS

-----------------------------------------------------------------------------
(***************************************************************************)
(* Types.                                                                  *)
(***************************************************************************)
\* Whatever is damaged, a LUN has two GPTs.
LEMMA FirstTypes ==
    \A d : FirstPrimary(d) \in Gpts /\ FirstSecondary(d) \in Gpts
  BY DEF FirstPrimary, FirstSecondary, ShippedGpt, BadHeader, BadTable, Gpts,
         Tables, NORMAL_BOOT, BACKUP_BOOT, Garbage

\* The array that gpt2_set_boot_chain writes is one of the known kinds.
LEMMA ChainTableType ==
    ASSUME TypeOK, NEW l \in Luns PROVE ChainTable(l) \in Tables
  BY DEF TypeOK, ChainTable, Swapped, Gpts, Tables, NORMAL_BOOT, BACKUP_BOOT,
         Garbage

\* A block write leaves every LUN with a GPT.
LEMMA WriteTypes ==
    ASSUME NEW f \in [Luns -> Gpts], NEW l \in Luns
    PROVE  /\ \A t \in Tables :
                /\ [f EXCEPT ![l].table = t] \in [Luns -> Gpts]
                /\ [f EXCEPT ![l].tableCrc = t, ![l].crc = TRUE]
                     \in [Luns -> Gpts]
           /\ \A b \in BOOLEAN :
                [f EXCEPT ![l].signed = b, ![l].crc = TRUE] \in [Luns -> Gpts]
<1>1. \A g \in Gpts : /\ [g EXCEPT !.crc = TRUE] \in Gpts
                      /\ \A t \in Tables : /\ [g EXCEPT !.table = t] \in Gpts
                                           /\ [g EXCEPT !.tableCrc = t] \in Gpts
                      /\ \A b \in BOOLEAN : [g EXCEPT !.signed = b] \in Gpts
  BY DEF Gpts
<1>2. \A h \in [Luns -> Gpts], g \in Gpts : [h EXCEPT ![l] = g] \in [Luns -> Gpts]
  OBVIOUS
<1>. QED
  BY <1>1, <1>2

\* So does a torn one.
LEMMA TornTypes == TypeOK /\ MaybeTornTable => secondary' \in [Luns -> Gpts]
<1>. SUFFICES ASSUME TypeOK, MaybeTornTable PROVE secondary' \in [Luns -> Gpts]
  OBVIOUS
<1>1. Garbage \in Tables
  BY DEF Tables
<1>2. [secondary EXCEPT ![lun].table = Garbage] \in [Luns -> Gpts]
  BY <1>1, WriteTypes DEF TypeOK
<1>. QED
  BY <1>2 DEF MaybeTornTable, TypeOK

\* Every step keeps the types.
LEMMA TypeStep == TypeOK /\ [Next]_vars => TypeOK'
<1>. SUFFICES ASSUME TypeOK, [Next]_vars PROVE TypeOK'
  OBVIOUS
<1>. USE DEF TypeOK, AccessPoints, disk, frame, caller
<1>1. CASE NextLun
  BY <1>1 DEF NextLun
<1>2. CASE Return
  BY <1>2 DEF Return
<1>3. CASE StageAlreadySet
  BY <1>3 DEF StageAlreadySet, LunDone
<1>4. CASE RefuseStage
  BY <1>4 DEF RefuseStage, LunDone
<1>5. CASE EnterStage
  BY <1>5 DEF EnterStage
<1>6. CASE SetBootLun
  BY <1>6 DEF SetBootLun
<1>7. CASE KeepChain
  BY <1>7 DEF KeepChain, LunDone, PrimaryTableBad
<1>8. CASE WriteChainHeader
  BY <1>8, ChainTableType, WriteTypes DEF WriteChainHeader
<1>9. CASE WriteChainTable
  BY <1>9, ChainTableType, WriteTypes DEF WriteChainTable, ChainWritten
<1>10. CASE SetPrimary
  <2>1. primary' \in [Luns -> Gpts]
    BY <1>10, WriteTypes DEF SetPrimary
  <2>. QED
    BY <1>10, <2>1 DEF SetPrimary, LunDone
<1>11. CASE SetSecondary
  <2>1. secondary' \in [Luns -> Gpts]
    BY <1>11, WriteTypes DEF SetSecondary
  <2>. QED
    BY <1>11, <2>1 DEF SetSecondary, LunDone
<1>12. CASE AccessFails
  <2>1. secondary' \in [Luns -> Gpts]
    BY <1>12, TornTypes DEF AccessFails
  <2>2. faults' \in 0 .. MaxFaults
    BY <1>12, FaultsAssumption DEF AccessFails
  <2>. QED
    BY <1>12, <2>1, <2>2 DEF AccessFails, LunDone
<1>13. CASE Crash
  <2>1. secondary' \in [Luns -> Gpts]
    BY <1>13, TornTypes DEF Crash
  <2>2. faults' \in 0 .. MaxFaults
    BY <1>13, FaultsAssumption DEF Crash
  <2>. QED
    BY <1>13, <2>1, <2>2 DEF Crash
<1>14. ASSUME NEW s \in Stages, Call(s) PROVE TypeOK'
  <2>1. reached' \in 0 .. 3
    BY <1>14 DEF Call, Stages, UPDATE_MAIN, UPDATE_BACKUP, UPDATE_FINALIZE
  <2>. QED
    BY <1>14, <2>1 DEF Call
<1>15. ASSUME NEW u \in Units, NEW c \in Copies,
              StartWrite(u, c) \/ FinishWrite(u, c)
       PROVE  TypeOK'
  BY <1>15 DEF StartWrite, FinishWrite, Contents
<1>16. CASE NextPackage
  BY <1>16 DEF NextPackage, Contents
<1>17. CASE WriteFallsShort
  <2>1. Short \in Tables
    BY DEF Tables
  <2>2. faults' \in 0 .. MaxFaults
    BY <1>17, FaultsAssumption DEF WriteFallsShort
  <2>. QED
    BY <1>17, <2>1, <2>2, WriteTypes DEF WriteFallsShort, ChainWritten
<1>18. CASE UNCHANGED vars
  BY <1>18 DEF vars
<1>. QED
  BY <1>1, <1>2, <1>3, <1>4, <1>5, <1>6, <1>7, <1>8, <1>9, <1>10,
     <1>11, <1>12, <1>13, <1>14, <1>15, <1>16, <1>17, <1>18
  DEF Next, PrepareStep, CallerStep

\* Type correctness: every variable keeps its type in every behaviour.
THEOREM TypeCorrect == Spec => []TypeOK
<1>1. Init => TypeOK
  <2>. SUFFICES ASSUME Init PROVE TypeOK
    OBVIOUS
  <2>1. primary \in [Luns -> Gpts] /\ secondary \in [Luns -> Gpts]
    BY FirstTypes DEF Init
  <2>2. reached \in 0 .. 3 /\ faults \in 0 .. MaxFaults
    BY FaultsAssumption DEF Init
  <2>. QED
    BY <2>1, <2>2
    DEF Init, TypeOK, Stages, AccessPoints, Copies, Contents
<1>. QED
  BY <1>1, TypeStep, PTL DEF Spec
-----------------------------------------------------------------------------
(***************************************************************************)
(* What the LUN predicates say of the header states and of what boots.     *)
(***************************************************************************)
\* The stage the headers tell, read back as the shape of the LUN.
LEMMA InternalStageShape ==
    ASSUME TypeOK, TablesInv
    PROVE  /\ internal_stage \in {0} \cup Stages
           /\ internal_stage = UPDATE_MAIN =>
                 /\ primary[lun].signed /\ primary[lun].crc
                 /\ secondary[lun].signed /\ secondary[lun].crc
           /\ internal_stage = UPDATE_BACKUP => OnBackup(lun)
           /\ internal_stage = UPDATE_FINALIZE => OnMain(lun)
<1>1. lun \in Luns /\ primary[lun] \in Gpts /\ secondary[lun] \in Gpts
  BY DEF TypeOK
<1>2. Usable(primary[lun]) \/ OnBackup(lun) \/ BadFromTheStart(lun)
  BY <1>1 DEF TablesInv
<1>3. /\ primary[lun].signed \in BOOLEAN /\ primary[lun].crc \in BOOLEAN
      /\ secondary[lun].signed \in BOOLEAN /\ secondary[lun].crc \in BOOLEAN
  BY <1>1 DEF Gpts
<1>. QED
  BY <1>2, <1>3
  DEF internal_stage, InternalStage, GptState, OnBackup, OnMain,
      BadFromTheStart, Usable, ShippedGpt, Stages, UPDATE_MAIN, UPDATE_BACKUP,
      UPDATE_FINALIZE

\* A LUN that a step does not touch keeps its shape.
LEMMA SameShape ==
    ASSUME NEW l, primary'[l] = primary[l], secondary'[l] = secondary[l]
    PROVE  /\ OnBackup(l)' <=> OnBackup(l)
           /\ OnMain(l)' <=> OnMain(l)
           /\ Agreed(l)' <=> Agreed(l)
           /\ BadFromTheStart(l)' <=> BadFromTheStart(l)
  BY DEF OnBackup, OnMain, Agreed, BadFromTheStart, Usable, Headed

\* The shapes exclude each other.
LEMMA ShapesDiffer ==
    ASSUME NEW l
    PROVE  /\ ~(OnBackup(l) /\ OnMain(l))
           /\ Agreed(l) => ~OnBackup(l) /\ ~OnMain(l)
  BY DEF OnBackup, OnMain, Agreed, Usable, Headed

\* A step that writes to no LUN keeps TablesInv.
LEMMA SameTables ==
    ASSUME TablesInv, UNCHANGED <<primary, secondary>> PROVE TablesInv'
  BY SameShape DEF TablesInv, Usable
-----------------------------------------------------------------------------
(***************************************************************************)
(* The invariant is kept by each action.                                   *)
(***************************************************************************)
Parts == TablesInv /\ AccessInv /\ CallInv /\ VisitedInv /\ XblInv

\* A step leaves a set of LUNs that boot no incomplete copy that way.  That the
\* boot LUN does neither is told from one LUN of the set.
TornKept(set) == (HasXbl => set # {}) /\ TornOn(set) => TornOn(set)'

Kept == Parts' /\ \A set \in SUBSET Luns : TornKept(set)

\* The loop goes to its next LUN.
LEMMA NextLunKeeps == ASSUME LunInv, NextLun PROVE Kept
<1>. USE DEF LunInv, NextLun, disk, frame, caller
<1>1. TablesInv'
  BY SameTables
<1>2. AccessInv'
  BY DEF AccessInv
<1>3. CallInv'
  BY DEF CallInv, AllAre
<1>4. VisitedInv'
  <2>1. Visited' \subseteq Visited
    BY DEF Visited
  <2>2. Succeeding' => Succeeding
    BY DEF Succeeding
  <2>. QED
    BY <2>1, <2>2, SameShape DEF VisitedInv
<1>5. XblInv'
  BY SameShape DEF XblInv
<1>6. \A set \in SUBSET Luns : TornKept(set)
  BY SameShape DEF TornKept, TornOn
<1>. QED
  BY <1>1, <1>2, <1>3, <1>4, <1>5, <1>6 DEF Parts, Kept

\* The call returns to its caller.
LEMMA ReturnKeeps == ASSUME LunInv, Return PROVE Kept
<1>. USE DEF LunInv, Return, disk, frame, caller
<1>1. TablesInv'
  BY SameTables
<1>2. AccessInv'
  BY DEF AccessInv
<1>3. CallInv'
  BY DEF CallInv
<1>4. VisitedInv'
  <2>1. Visited' = Visited
    BY DEF Visited
  <2>2. Succeeding' => Succeeding
    BY DEF Succeeding
  <2>. QED
    BY <2>1, <2>2, SameShape DEF VisitedInv
<1>5. XblInv'
  <2>1. stage = UPDATE_FINALIZE /\ ~is_error => \A l \in Luns : Agreed(l)
    BY DEF VisitedInv, Visited, Succeeding
  <2>2. CASE stage = UPDATE_FINALIZE /\ ~is_error
    BY <2>1, <2>2, SameShape, ShapesDiffer DEF XblInv
  <2>3. CASE ~(stage = UPDATE_FINALIZE /\ ~is_error)
    BY <2>3, SameShape DEF XblInv
  <2>. QED
    BY <2>2, <2>3
<1>6. \A set \in SUBSET Luns : TornKept(set)
  BY SameShape DEF TornKept, TornOn
<1>. QED
  BY <1>1, <1>2, <1>3, <1>4, <1>5, <1>6 DEF Parts, Kept

\* A LUN is found ready and skipped.
LEMMA StageAlreadySetKeeps == ASSUME LunInv, StageAlreadySet PROVE Kept
<1>. USE DEF LunInv, StageAlreadySet, LunDone, disk, frame, caller
<1>1. TablesInv'
  BY SameTables
<1>2. AccessInv'
  BY DEF AccessInv
<1>3. CallInv'
  BY DEF CallInv, AllAre
<1>4. VisitedInv'
  <2>1. Visited' \subseteq Visited \cup {lun}
    BY DEF Visited
  <2>2. Succeeding' => Succeeding
    BY DEF Succeeding
  <2>3. /\ stage = UPDATE_MAIN => OnBackup(lun)
        /\ stage = UPDATE_BACKUP => OnMain(lun)
        /\ stage # UPDATE_FINALIZE
    BY InternalStageShape
    DEF TypeOK, Stages, UPDATE_MAIN, UPDATE_BACKUP, UPDATE_FINALIZE
  <2>4. stage = UPDATE_MAIN /\ HasXbl => bootLun = BOOT_LUN_B_ID
    BY <2>3 DEF XblInv, CallInv, TypeOK
  <2>. QED
    BY <2>1, <2>2, <2>3, <2>4, SameShape DEF VisitedInv
<1>5. XblInv'
  BY SameShape DEF XblInv
<1>6. \A set \in SUBSET Luns : TornKept(set)
  BY SameShape DEF TornKept, TornOn
<1>. QED
  BY <1>1, <1>2, <1>3, <1>4, <1>5, <1>6 DEF Parts, Kept

\* prepare_partitions leaves with an error, having written nothing more.
LEMMA ErrorKeeps ==
    ASSUME LunInv, pc # "idle", LunDone(TRUE), UNCHANGED <<disk, caller>>
    PROVE  Kept
<1>. USE DEF LunInv, LunDone, disk, frame, caller
<1>1. TablesInv'
  BY SameTables
<1>2. AccessInv'
  BY DEF AccessInv
<1>3. CallInv'
  BY DEF CallInv, AllAre
<1>4. VisitedInv'
  BY DEF VisitedInv, Succeeding
<1>5. XblInv'
  BY SameShape DEF XblInv
<1>6. \A set \in SUBSET Luns : TornKept(set)
  BY SameShape DEF TornKept, TornOn
<1>. QED
  BY <1>1, <1>2, <1>3, <1>4, <1>5, <1>6 DEF Parts, Kept

\* prepare_partitions has found its stage.
LEMMA EnterStageKeeps == ASSUME LunInv, EnterStage PROVE Kept
<1>. USE DEF LunInv, EnterStage, disk, frame, caller
<1>1. TablesInv'
  BY SameTables
<1>2. AccessInv'
  <2>1. /\ pc' = "boot_lun" => HasXbl /\ stage \in {UPDATE_MAIN, UPDATE_BACKUP}
        /\ pc' = "chain_header" => stage \in {UPDATE_MAIN, UPDATE_FINALIZE}
        /\ pc' = "set_primary" => stage = UPDATE_BACKUP
        /\ pc' \notin {"chain_table", "set_secondary"}
    BY XblAssumption
    DEF TypeOK, Stages, UPDATE_MAIN, UPDATE_BACKUP, UPDATE_FINALIZE
  <2>2. /\ stage = UPDATE_MAIN =>
             /\ primary[lun].signed /\ primary[lun].crc
             /\ secondary[lun].signed /\ secondary[lun].crc
        /\ stage = UPDATE_BACKUP => OnBackup(lun)
        /\ stage = UPDATE_FINALIZE => OnMain(lun)
    BY InternalStageShape
  <2>. QED
    BY <2>1, <2>2, SameShape DEF AccessInv
<1>3. CallInv'
  BY DEF CallInv, AllAre
<1>4. VisitedInv'
  <2>1. Visited' \subseteq Visited
    BY DEF Visited
  <2>2. Succeeding' => Succeeding
    BY DEF Succeeding
  <2>. QED
    BY <2>1, <2>2, SameShape DEF VisitedInv
<1>5. XblInv'
  BY SameShape, XblAssumption
  DEF XblInv, TypeOK, Stages, UPDATE_MAIN, UPDATE_BACKUP, UPDATE_FINALIZE
<1>6. \A set \in SUBSET Luns : TornKept(set)
  BY SameShape DEF TornKept, TornOn
<1>. QED
  BY <1>1, <1>2, <1>3, <1>4, <1>5, <1>6 DEF Parts, Kept

\* The boot LUN is switched; with an incomplete copy around, to where it is.
LEMMA SetBootLunKeeps == ASSUME LunInv, SetBootLun PROVE Kept
<1>. USE DEF LunInv, SetBootLun, disk, frame, caller
<1>0. /\ lun \in Luns /\ HasXbl /\ reached = stage
      /\ \/ stage = UPDATE_MAIN /\ secondary[lun].signed
         \/ stage = UPDATE_BACKUP /\ OnBackup(lun)
  BY DEF AccessInv, CallInv, TypeOK
<1>1. TablesInv'
  BY SameTables
<1>2. AccessInv'
  BY <1>0, SameShape DEF AccessInv, UPDATE_MAIN, UPDATE_BACKUP
<1>3. CallInv'
  BY DEF CallInv, AllAre
<1>4. VisitedInv'
  <2>1. Visited' = Visited
    BY DEF Visited
  <2>2. Succeeding' => Succeeding
    BY DEF Succeeding
  <2>. QED
    BY <1>0, <2>1, <2>2, SameShape
    DEF VisitedInv, UPDATE_MAIN, UPDATE_BACKUP, UPDATE_FINALIZE
<1>5. XblInv'
  BY <1>0, SameShape DEF XblInv, UPDATE_MAIN, UPDATE_BACKUP
<1>6. \A set \in SUBSET Luns : TornKept(set)
  <2>1. \A l \in Luns : OnMain(l) => stage = UPDATE_BACKUP
    BY <1>0 DEF XblInv, UPDATE_MAIN, UPDATE_BACKUP
  <2>2. stage = UPDATE_BACKUP => \A u \in Units : content[u]["main"] # "torn"
    BY DEF CallInv, AllAre
  <2>3. CASE stage = UPDATE_MAIN
    BY <1>0, <2>1, <2>3, SameShape DEF TornKept, TornOn, UPDATE_MAIN, UPDATE_BACKUP
  <2>4. CASE stage = UPDATE_BACKUP
    BY <1>0, <2>2, <2>4, SameShape DEF TornKept, TornOn, UPDATE_MAIN, UPDATE_BACKUP
  <2>. QED
    BY <1>0, <2>3, <2>4
<1>. QED
  BY <1>1, <1>2, <1>3, <1>4, <1>5, <1>6 DEF Parts, Kept

\* The LUN has no backup images: it is left alone, and counts as prepared.
LEMMA NoBackupFoundKeeps ==
    ASSUME LunInv, KeepChain, ~PrimaryTableBad PROVE Kept
<1>. USE DEF LunInv, KeepChain, NoBackupFound, LunDone, disk, frame, caller
<1>1. TablesInv'
  BY SameTables
<1>2. AccessInv'
  BY DEF AccessInv
<1>3. CallInv'
  BY DEF CallInv, AllAre
<1>4. VisitedInv'
  <2>1. Visited' \subseteq Visited \cup {lun}
    BY DEF Visited
  <2>2. Succeeding' => Succeeding
    BY DEF Succeeding
  <2>3. HasXbl => bootLun = BOOT_LUN_B_ID
    BY DEF XblInv
  <2>. QED
    BY <2>1, <2>2, <2>3, SameShape
    DEF VisitedInv, UPDATE_MAIN, UPDATE_BACKUP, UPDATE_FINALIZE
<1>5. XblInv'
  BY SameShape DEF XblInv
<1>6. \A set \in SUBSET Luns : TornKept(set)
  BY SameShape DEF TornKept, TornOn
<1>. QED
  BY <1>1, <1>2, <1>3, <1>4, <1>5, <1>6 DEF Parts, Kept

\* A step that writes to lun alone keeps the invariant on the other LUNs: what
\* is left to show is what it makes of lun.
LEMMA OtherLunsKeep ==
    ASSUME LunInv,
           \A l \in Luns \ {lun} : /\ primary'[l] = primary[l]
                                   /\ secondary'[l] = secondary[l]
    PROVE  \A l \in Luns \ {lun} :
              /\ OnBackup(l)' <=> OnBackup(l)
              /\ OnMain(l)' <=> OnMain(l)
              /\ Agreed(l)' <=> Agreed(l)
              /\ primary'[l].tableCrc = NORMAL_BOOT
              /\ primary'[l].table \notin {BACKUP_BOOT, Short}
              /\ secondary'[l].tableCrc \notin {Garbage, Short}
              /\ primary'[l].crc => primary'[l].sound
              /\ secondary'[l].crc => secondary'[l].sound
              /\ \/ Usable(primary[l])'
                 \/ OnBackup(l)'
                 \/ BadFromTheStart(l)'
  BY SameShape DEF LunInv, TablesInv, Usable

\* The secondary header is written.
LEMMA WriteChainHeaderKeeps == ASSUME LunInv, WriteChainHeader PROVE Kept
<1>. USE DEF LunInv, disk, frame, caller
<1>. DEFINE p == primary[lun]
            s == secondary[lun]
            t == secondary'[lun]
<1>1. /\ lun \in Luns /\ p \in Gpts /\ s \in Gpts
      /\ lun' = lun /\ stage' = stage /\ pc = "chain_header"
      /\ pc' = "chain_table" /\ primary' = primary /\ bootLun' = bootLun
      /\ content' = content /\ reached' = reached /\ is_error' = is_error
      /\ todo' = todo
  BY DEF TypeOK, WriteChainHeader
<1>2. /\ \A l \in Luns \ {lun} : secondary'[l] = secondary[l]
      /\ t = [s EXCEPT !.tableCrc = ChainTable(lun), !.crc = TRUE]
  BY <1>1 DEF TypeOK, WriteChainHeader
<1>3. /\ t.signed = s.signed /\ t.sound = s.sound /\ t.table = s.table
      /\ t.crc /\ t.tableCrc = ChainTable(lun)
  BY <1>1, <1>2 DEF Gpts
<1>4. \/ /\ stage = UPDATE_MAIN /\ lun \in Backed
         /\ p.signed /\ p.crc /\ s.signed /\ s.crc
      \/ stage = UPDATE_FINALIZE /\ OnMain(lun)
  BY <1>1 DEF AccessInv, WriteChainHeader, NoBackupFound
<1>5. /\ Usable(p) /\ p.table = NORMAL_BOOT /\ s.crc /\ s.sound
  BY <1>1, <1>4
  DEF WriteChainHeader, PrimaryTableBad, TablesInv, OnMain, Usable, OnBackup,
      BadFromTheStart, NORMAL_BOOT, Garbage, Gpts, Tables
<1>6. /\ stage = UPDATE_MAIN => t.tableCrc = BACKUP_BOOT
      /\ stage = UPDATE_FINALIZE => t.tableCrc = NORMAL_BOOT
  BY <1>3, <1>5
  DEF ChainTable, Swapped, NORMAL_BOOT, BACKUP_BOOT, UPDATE_MAIN,
      UPDATE_FINALIZE
<1>7. /\ ~OnBackup(lun) /\ ~OnBackup(lun)'
      /\ OnMain(lun)' <=> OnMain(lun)
  BY <1>1, <1>3, <1>5 DEF OnBackup, OnMain, Usable
<1>8. TablesInv'
  <2>1. /\ primary'[lun].tableCrc = NORMAL_BOOT
        /\ primary'[lun].table \notin {BACKUP_BOOT, Short}
        /\ secondary'[lun].tableCrc \notin {Garbage, Short}
        /\ primary'[lun].crc => primary'[lun].sound
        /\ secondary'[lun].crc => secondary'[lun].sound
        /\ Usable(primary[lun])'
    BY <1>1, <1>3, <1>4, <1>5, <1>6
    DEF TablesInv, Usable, NORMAL_BOOT, BACKUP_BOOT, Garbage, Short
  <2>. QED
    BY <1>1, <1>2, <2>1, OtherLunsKeep DEF TablesInv
<1>9. AccessInv'
  BY <1>1, <1>3, <1>4, <1>5, <1>6, <1>7 DEF AccessInv, Usable
<1>10. CallInv'
  BY <1>1 DEF CallInv, AllAre
<1>11. VisitedInv'
  <2>1. Visited' = Visited /\ lun \notin Visited
    BY <1>1 DEF Visited
  <2>2. Succeeding' <=> Succeeding
    BY <1>1 DEF Succeeding
  <2>3. Visited \subseteq Luns
    BY DEF Visited
  <2>. QED
    BY <1>1, <1>2, <2>1, <2>2, <2>3, OtherLunsKeep DEF VisitedInv
<1>12. XblInv'
  BY <1>1, <1>2, <1>7, OtherLunsKeep DEF XblInv
<1>13. \A set \in SUBSET Luns : TornKept(set)
  <2>1. Backed \subseteq Luns
    BY LunsAssumption
  <2>. QED
    BY <1>1, <1>2, <1>7, <2>1, OtherLunsKeep DEF TornKept, TornOn
<1>. QED
  BY <1>8, <1>9, <1>10, <1>11, <1>12, <1>13 DEF Parts, Kept

\* The secondary array is written, or torn, over a header that awaits it.
LEMMA TableStep ==
    ASSUME LunInv, pc = "chain_table", primary' = primary, lun' = lun,
           NEW table \in Tables,
           secondary' = [secondary EXCEPT ![lun].table = table]
    PROVE  /\ lun \in Luns /\ Usable(primary[lun])
           /\ primary[lun].table = NORMAL_BOOT
           /\ secondary[lun].crc /\ secondary[lun].sound
           /\ \A l \in Luns \ {lun} : secondary'[l] = secondary[l]
           /\ secondary'[lun].signed = secondary[lun].signed
           /\ secondary'[lun].crc = secondary[lun].crc
           /\ secondary'[lun].sound = secondary[lun].sound
           /\ secondary'[lun].tableCrc = secondary[lun].tableCrc
           /\ secondary'[lun].table = table
           /\ ~OnBackup(lun) /\ ~OnBackup(lun)'
           /\ OnMain(lun)' <=> OnMain(lun)
           /\ TablesInv'
<1>. USE DEF LunInv
<1>1. lun \in Luns /\ primary[lun] \in Gpts /\ secondary[lun] \in Gpts
  BY DEF TypeOK
<1>2. /\ \A l \in Luns \ {lun} : secondary'[l] = secondary[l]
      /\ secondary'[lun] = [secondary[lun] EXCEPT !.table = table]
  BY <1>1 DEF TypeOK
<1>3. /\ secondary'[lun].signed = secondary[lun].signed
      /\ secondary'[lun].crc = secondary[lun].crc
      /\ secondary'[lun].sound = secondary[lun].sound
      /\ secondary'[lun].tableCrc = secondary[lun].tableCrc
      /\ secondary'[lun].table = table
  BY <1>1, <1>2 DEF Gpts
<1>4. /\ Usable(primary[lun]) /\ secondary[lun].crc
      /\ primary'[lun] = primary[lun]
  BY DEF AccessInv, OnMain
<1>5. primary[lun].table = NORMAL_BOOT /\ secondary[lun].sound
  BY <1>1, <1>4 DEF TablesInv, Usable
<1>6. /\ ~OnBackup(lun) /\ ~OnBackup(lun)'
      /\ OnMain(lun)' <=> OnMain(lun)
  BY <1>1, <1>3, <1>4 DEF OnBackup, OnMain, Usable
<1>7. TablesInv'
  <2>1. /\ primary'[lun].tableCrc = NORMAL_BOOT
        /\ primary'[lun].table \notin {BACKUP_BOOT, Short}
        /\ secondary'[lun].tableCrc \notin {Garbage, Short}
        /\ primary'[lun].crc => primary'[lun].sound
        /\ secondary'[lun].crc => secondary'[lun].sound
        /\ Usable(primary[lun])'
    BY <1>1, <1>3, <1>4 DEF TablesInv, Usable
  <2>. QED
    BY <1>1, <1>2, <2>1, OtherLunsKeep DEF TablesInv
<1>. QED
  BY <1>1, <1>2, <1>3, <1>4, <1>5, <1>6, <1>7

\* The secondary array is written, whole or so far as write(2) went.
LEMMA WriteChainTableKeeps ==
    ASSUME LunInv, NEW table \in {ChainTable(lun), Short}, ChainWritten(table)
    PROVE  Kept
<1>. USE DEF LunInv, disk, frame, caller
<1>1. /\ lun \in Luns /\ lun' = lun /\ stage' = stage /\ pc = "chain_table"
      /\ pc' = IF stage = UPDATE_MAIN THEN "set_primary" ELSE "set_secondary"
      /\ primary' = primary /\ bootLun' = bootLun
      /\ content' = content /\ reached' = reached /\ is_error' = is_error
      /\ todo' = todo
      /\ secondary' = [secondary EXCEPT ![lun].table = table]
  BY DEF TypeOK, ChainWritten
<1>2. table \in Tables
  BY <1>1, ChainTableType DEF Tables
<1>3. /\ Usable(primary[lun]) /\ primary[lun].table = NORMAL_BOOT
      /\ secondary[lun].crc /\ secondary[lun].sound
      /\ \A l \in Luns \ {lun} : secondary'[l] = secondary[l]
      /\ secondary'[lun].signed = secondary[lun].signed
      /\ secondary'[lun].crc = secondary[lun].crc
      /\ secondary'[lun].sound = secondary[lun].sound
      /\ secondary'[lun].tableCrc = secondary[lun].tableCrc
      /\ secondary'[lun].table = table
      /\ ~OnBackup(lun) /\ ~OnBackup(lun)'
      /\ OnMain(lun)' <=> OnMain(lun)
      /\ TablesInv'
  BY <1>1, <1>2, TableStep
<1>4. \/ /\ stage = UPDATE_MAIN /\ lun \in Backed /\ secondary[lun].signed
         /\ secondary[lun].tableCrc = BACKUP_BOOT
      \/ /\ stage = UPDATE_FINALIZE /\ OnMain(lun)
         /\ secondary[lun].tableCrc = NORMAL_BOOT
  BY <1>1 DEF AccessInv
<1>5. /\ stage = UPDATE_MAIN => table \in {BACKUP_BOOT, Short}
      /\ stage = UPDATE_FINALIZE => table \in {NORMAL_BOOT, Short}
  BY <1>3
  DEF ChainTable, Swapped, NORMAL_BOOT, BACKUP_BOOT, UPDATE_MAIN,
      UPDATE_FINALIZE
<1>6. AccessInv'
  BY <1>1, <1>3, <1>4, <1>5
  DEF AccessInv, Usable, Headed, UPDATE_MAIN, UPDATE_FINALIZE
<1>7. CallInv'
  BY <1>1 DEF CallInv, AllAre
<1>8. VisitedInv'
  <2>1. Visited' = Visited /\ lun \notin Visited
    BY <1>1 DEF Visited
  <2>2. Succeeding' <=> Succeeding
    BY <1>1 DEF Succeeding
  <2>3. Visited \subseteq Luns
    BY DEF Visited
  <2>. QED
    BY <1>1, <1>3, <2>1, <2>2, <2>3, OtherLunsKeep DEF VisitedInv
<1>9. XblInv'
  BY <1>1, <1>3, <1>4, OtherLunsKeep
  DEF XblInv, UPDATE_MAIN, UPDATE_BACKUP, UPDATE_FINALIZE
<1>10. \A set \in SUBSET Luns : TornKept(set)
  BY <1>1, <1>3, OtherLunsKeep, LunsAssumption DEF TornKept, TornOn
<1>. QED
  BY <1>3, <1>6, <1>7, <1>8, <1>9, <1>10 DEF Parts, Kept

\* A crash or a failed access: an array may be torn, no success is reported.
LEMMA FaultKeeps ==
    ASSUME LunInv, MaybeTornTable, UNCHANGED <<primary, bootLun, content>>,
           UNCHANGED <<stage, lun, reached>>,
           pc' \in {"idle", "next_lun"}, ~Succeeding',
           pc' # "idle" => pc # "idle"
    PROVE  Kept
<1>. USE DEF LunInv
<1>0. /\ primary' = primary /\ bootLun' = bootLun /\ content' = content
      /\ stage' = stage /\ lun' = lun /\ reached' = reached
  OBVIOUS
<1>1. /\ TablesInv'
      /\ \A l \in Luns : /\ OnBackup(l)' <=> OnBackup(l)
                         /\ OnMain(l)' <=> OnMain(l)
  <2>1. CASE UNCHANGED secondary
    <3>1. \A l \in Luns : /\ primary'[l] = primary[l]
                          /\ secondary'[l] = secondary[l]
      BY <2>1
    <3>. QED
      BY <2>1, <3>1, SameTables, SameShape
  <2>2. CASE /\ pc = "chain_table"
             /\ secondary' = [secondary EXCEPT ![lun].table = Garbage]
    <3>1. Garbage \in Tables
      BY DEF Tables
    <3>2. /\ TablesInv'
          /\ ~OnBackup(lun) /\ ~OnBackup(lun)'
          /\ OnMain(lun)' <=> OnMain(lun)
          /\ \A l \in Luns \ {lun} : secondary'[l] = secondary[l]
      BY <2>2, <3>1, TableStep
    <3>. QED
      BY <3>2, OtherLunsKeep
  <2>. QED
    BY <2>1, <2>2 DEF MaybeTornTable
<1>2. AccessInv'
  BY DEF AccessInv
<1>3. CallInv'
  BY DEF CallInv, AllAre
<1>4. VisitedInv'
  BY DEF VisitedInv
<1>5. XblInv'
  BY <1>0, <1>1 DEF XblInv
<1>6. \A set \in SUBSET Luns : TornKept(set)
  BY <1>0, <1>1, LunsAssumption DEF TornKept, TornOn
<1>. QED
  BY <1>1, <1>2, <1>3, <1>4, <1>5, <1>6 DEF Parts, Kept

\* The primary signature is spoiled over a good secondary, or put right.
LEMMA SetPrimaryKeeps == ASSUME LunInv, SetPrimary PROVE Kept
<1>. USE DEF LunInv, disk, frame, caller
<1>1. /\ lun \in Luns /\ primary[lun] \in Gpts /\ secondary[lun] \in Gpts
      /\ pc = "set_primary" /\ lun' = lun /\ stage' = stage /\ todo' = todo
      /\ secondary' = secondary /\ bootLun' = bootLun
      /\ content' = content /\ reached' = reached /\ reached = stage
      /\ is_error' = is_error
      /\ pc' = IF stage = UPDATE_MAIN THEN "next_lun" ELSE "set_secondary"
  BY DEF TypeOK, SetPrimary, LunDone, CallInv
<1>2. /\ \A l \in Luns \ {lun} : primary'[l] = primary[l]
      /\ primary'[lun] = [primary[lun] EXCEPT !.signed = (stage = UPDATE_BACKUP),
                                              !.crc = TRUE]
  BY <1>1 DEF TypeOK, SetPrimary
<1>3. /\ primary'[lun].signed <=> (stage = UPDATE_BACKUP)
      /\ primary'[lun].crc
      /\ primary'[lun].sound = primary[lun].sound
      /\ primary'[lun].tableCrc = primary[lun].tableCrc
      /\ primary'[lun].table = primary[lun].table
  BY <1>1, <1>2 DEF Gpts
<1>4. \/ /\ stage = UPDATE_MAIN /\ lun \in Backed
         /\ Usable(primary[lun]) /\ Headed(secondary[lun], BACKUP_BOOT)
      \/ stage = UPDATE_BACKUP /\ OnBackup(lun)
  BY <1>1 DEF AccessInv
<1>5. /\ primary[lun].tableCrc = NORMAL_BOOT /\ primary[lun].table = NORMAL_BOOT
      /\ primary[lun].sound /\ Headed(secondary[lun], BACKUP_BOOT)
      /\ secondary[lun].signed /\ secondary[lun].crc
  BY <1>1, <1>4 DEF TablesInv, OnBackup, Usable, Headed
<1>6. /\ ~OnMain(lun) /\ ~OnMain(lun)' /\ ~Agreed(lun)
      /\ stage = UPDATE_MAIN => OnBackup(lun)'
      /\ stage = UPDATE_BACKUP => Usable(primary[lun])' /\ ~OnBackup(lun)'
  BY <1>1, <1>3, <1>4, <1>5
  DEF OnBackup, OnMain, Agreed, Usable, Headed, UPDATE_MAIN, UPDATE_BACKUP,
      NORMAL_BOOT, BACKUP_BOOT, Garbage
<1>7. TablesInv'
  BY <1>1, <1>2, <1>3, <1>4, <1>5, <1>6, OtherLunsKeep
  DEF TablesInv, Headed, NORMAL_BOOT, BACKUP_BOOT, Garbage, Short
<1>8. AccessInv'
  BY <1>1, <1>4, <1>5, <1>6 DEF AccessInv, UPDATE_MAIN, UPDATE_BACKUP
<1>9. CallInv'
  BY <1>1 DEF CallInv, AllAre
<1>10. VisitedInv'
  <2>1. /\ Visited' \subseteq Visited \cup {lun}
        /\ stage = UPDATE_BACKUP => Visited' = Visited /\ lun \notin Visited
    BY <1>1, <1>4 DEF Visited, UPDATE_MAIN, UPDATE_BACKUP
  <2>2. Succeeding' <=> Succeeding
    BY <1>1 DEF Succeeding
  <2>3. stage = UPDATE_MAIN /\ HasXbl => bootLun = BOOT_LUN_B_ID
    BY <1>1 DEF XblInv
  <2>4. Visited \subseteq Luns
    BY DEF Visited
  <2>5. \A l \in Visited \ {lun} : /\ OnBackup(l)' <=> OnBackup(l)
                                   /\ OnMain(l)' <=> OnMain(l)
    BY <1>1, <1>2, <2>4, OtherLunsKeep
  <2>6. CASE stage = UPDATE_MAIN
    BY <1>1, <1>6, <2>1, <2>2, <2>3, <2>5, <2>6
    DEF VisitedInv, UPDATE_MAIN, UPDATE_BACKUP, UPDATE_FINALIZE
  <2>7. CASE stage = UPDATE_BACKUP
    BY <1>1, <2>1, <2>2, <2>5, <2>7
    DEF VisitedInv, UPDATE_MAIN, UPDATE_BACKUP, UPDATE_FINALIZE
  <2>. QED
    BY <1>4, <2>6, <2>7
<1>11. XblInv'
  BY <1>1, <1>2, <1>4, <1>6, OtherLunsKeep
  DEF XblInv, UPDATE_MAIN, UPDATE_BACKUP
<1>12. \A set \in SUBSET Luns : TornKept(set)
  <2>1. stage = UPDATE_BACKUP => \A u \in Units : content[u]["main"] # "torn"
    BY <1>1 DEF CallInv, AllAre
  <2>. QED
    BY <1>1, <1>2, <1>4, <1>6, <2>1, OtherLunsKeep, LunsAssumption DEF TornKept, TornOn
<1>. QED
  BY <1>7, <1>8, <1>9, <1>10, <1>11, <1>12 DEF Parts, Kept

\* The secondary signature is spoiled over a good primary, or put right.
LEMMA SetSecondaryKeeps == ASSUME LunInv, SetSecondary PROVE Kept
<1>. USE DEF LunInv, disk, frame, caller
<1>1. /\ lun \in Luns /\ primary[lun] \in Gpts /\ secondary[lun] \in Gpts
      /\ secondary'[lun] \in Gpts
      /\ pc = "set_secondary" /\ lun' = lun /\ stage' = stage /\ todo' = todo
      /\ primary' = primary /\ bootLun' = bootLun
      /\ content' = content /\ reached' = reached /\ reached = stage
      /\ is_error' = is_error /\ pc' = "next_lun"
  BY TypeStep DEF TypeOK, SetSecondary, LunDone, CallInv, Next, PrepareStep
<1>2. /\ \A l \in Luns \ {lun} : secondary'[l] = secondary[l]
      /\ secondary'[lun] =
            [secondary[lun] EXCEPT !.signed = (stage = UPDATE_FINALIZE),
                                   !.crc = TRUE]
  BY <1>1 DEF TypeOK, SetSecondary
<1>3. /\ secondary'[lun].signed <=> (stage = UPDATE_FINALIZE)
      /\ secondary'[lun].crc
      /\ secondary'[lun].sound = secondary[lun].sound
      /\ secondary'[lun].tableCrc = secondary[lun].tableCrc
      /\ secondary'[lun].table = secondary[lun].table
  BY <1>1, <1>2 DEF Gpts
<1>4. \/ /\ stage = UPDATE_BACKUP
         /\ Usable(primary[lun]) /\ secondary[lun].crc
      \/ /\ stage = UPDATE_FINALIZE /\ OnMain(lun)
         /\ secondary[lun].tableCrc = NORMAL_BOOT
         /\ secondary[lun].table \in {NORMAL_BOOT, Short}
  BY <1>1 DEF AccessInv
<1>5. /\ Usable(primary[lun]) /\ secondary[lun].sound
      /\ primary[lun].tableCrc = NORMAL_BOOT /\ primary[lun].table = NORMAL_BOOT
      /\ secondary[lun].tableCrc \notin {Garbage, Short}
      /\ ~OnBackup(lun) /\ ~OnBackup(lun)'
  BY <1>1, <1>4 DEF TablesInv, OnBackup, OnMain, Usable
<1>6. /\ stage = UPDATE_BACKUP => OnMain(lun)'
      /\ stage = UPDATE_FINALIZE => Agreed(lun)' /\ ~OnMain(lun)'
  <2>1. stage = UPDATE_BACKUP => OnMain(lun)'
    BY <1>1, <1>3, <1>5 DEF OnMain, UPDATE_BACKUP, UPDATE_FINALIZE
  <2>2. stage = UPDATE_FINALIZE => ~OnMain(lun)'
    BY <1>1, <1>3 DEF OnMain
  <2>3. stage = UPDATE_FINALIZE => Headed(secondary'[lun], primary[lun].table)
    BY <1>1, <1>3, <1>4, <1>5 DEF Headed, UPDATE_BACKUP, UPDATE_FINALIZE
  <2>. QED
    BY <1>1, <1>5, <2>1, <2>2, <2>3 DEF Agreed
<1>7. TablesInv'
  <2>1. Usable(primary[lun])'
    BY <1>1, <1>5
  <2>. QED
    BY <1>1, <1>2, <1>3, <1>5, <2>1, OtherLunsKeep
    DEF TablesInv, NORMAL_BOOT, BACKUP_BOOT, Short
<1>8. AccessInv'
  BY <1>1 DEF AccessInv
<1>9. CallInv'
  BY <1>1 DEF CallInv, AllAre
<1>10. VisitedInv'
  <2>1. Visited' \subseteq Visited \cup {lun} /\ Visited \subseteq Luns
    BY <1>1 DEF Visited
  <2>2. Succeeding' <=> Succeeding
    BY <1>1 DEF Succeeding
  <2>3. \A l \in Visited \ {lun} : /\ OnMain(l)' <=> OnMain(l)
                                   /\ Agreed(l)' <=> Agreed(l)
    BY <1>1, <1>2, <2>1, OtherLunsKeep
  <2>4. stage = UPDATE_FINALIZE => bootLun = BOOT_LUN_A_ID
    BY <1>1, <1>4, XblAssumption DEF XblInv, UPDATE_BACKUP, UPDATE_FINALIZE
  <2>. QED
    BY <1>1, <1>4, <1>6, <2>1, <2>2, <2>3, <2>4
    DEF VisitedInv, UPDATE_MAIN, UPDATE_BACKUP, UPDATE_FINALIZE
<1>11. XblInv'
  BY <1>1, <1>2, <1>4, <1>5, <1>6, OtherLunsKeep
  DEF XblInv, UPDATE_MAIN, UPDATE_BACKUP, UPDATE_FINALIZE
<1>12. \A set \in SUBSET Luns : TornKept(set)
  <2>1. stage = UPDATE_FINALIZE => \A u \in Units : content[u]["bak"] # "torn"
    BY <1>1 DEF CallInv, AllAre
  <2>. QED
    BY <1>1, <1>2, <1>4, <1>5, <1>6, <2>1, OtherLunsKeep, LunsAssumption
    DEF TornKept, TornOn
<1>. QED
  BY <1>7, <1>8, <1>9, <1>10, <1>11, <1>12 DEF Parts, Kept

\* The caller asks for a stage: no LUN is prepared yet for this call.
LEMMA CallKeeps ==
    ASSUME LunInv, Covered, NEW s \in Stages, Call(s) PROVE Kept
<1>. USE DEF LunInv, disk, caller
<1>1. /\ pc = "idle" /\ pc' = "next_lun" /\ stage' = s /\ reached' = s
      /\ todo' = Luns /\ is_error' = FALSE /\ Permitted(s)
      /\ primary' = primary /\ secondary' = secondary /\ bootLun' = bootLun
      /\ content' = content
      /\ HasXbl => s \in {reached, reached + 1}
  BY DEF Call, InTurn, Covered
<1>2. TablesInv'
  BY <1>1, SameTables
<1>3. AccessInv'
  BY <1>1 DEF AccessInv
<1>4. CallInv'
  <2>1. /\ s = UPDATE_BACKUP => AllAre("main", "new")
        /\ s = UPDATE_FINALIZE => AllAre("bak", "new")
    BY <1>1 DEF Permitted
  <2>. QED
    BY <1>1, <2>1 DEF CallInv, AllAre
<1>5. VisitedInv'
  <2>1. Visited' = {}
    BY <1>1 DEF Visited
  <2>. QED
    BY <2>1 DEF VisitedInv
<1>6. XblInv'
  <2>1. ASSUME HasXbl
        PROVE  /\ s \in {0, UPDATE_MAIN} => reached \in {0, UPDATE_MAIN}
               /\ reached \in {2, 3} => s \in {2, 3}
    BY <1>1, <2>1
    DEF TypeOK, Stages, UPDATE_MAIN, UPDATE_BACKUP, UPDATE_FINALIZE
  <2>. QED
    BY <1>1, <2>1, SameShape DEF XblInv
<1>7. \A set \in SUBSET Luns : TornKept(set)
  BY <1>1, SameShape, LunsAssumption DEF TornKept, TornOn
<1>. QED
  BY <1>2, <1>3, <1>4, <1>5, <1>6, <1>7 DEF Parts, Kept

\* Where the caller may write, every LUN is switched to the other copies.
LEMMA ReadyShape ==
    ASSUME LunInv, NEW c, MayWrite(c)
    PROVE  \/ /\ c = "main" /\ stage = UPDATE_MAIN
              /\ \A l \in Backed : OnBackup(l)
              /\ HasXbl => bootLun = BOOT_LUN_B_ID
           \/ /\ c = "bak" /\ stage = UPDATE_BACKUP
              /\ \A l \in Luns : OnMain(l)
              /\ HasXbl => bootLun = BOOT_LUN_A_ID
<1>1. \A l \in Luns :
         /\ stage = UPDATE_MAIN /\ l \in Backed => OnBackup(l)
         /\ stage = UPDATE_MAIN /\ HasXbl => bootLun = BOOT_LUN_B_ID
         /\ stage = UPDATE_BACKUP => OnMain(l)
  BY DEF LunInv, MayWrite, VisitedInv, Visited, Succeeding
<1>2. lun \in Luns
  BY DEF LunInv, TypeOK
<1>3. CASE c = "main" /\ stage = UPDATE_MAIN
  BY <1>1, <1>2, <1>3, LunsAssumption
<1>4. CASE c = "bak" /\ stage = UPDATE_BACKUP
  BY <1>1, <1>2, <1>4 DEF LunInv, XblInv
<1>. QED
  BY <1>3, <1>4 DEF MayWrite

\* The caller writes a copy, or goes on to the next package: nothing that a
\* LUN's shape depends on changes.
LEMMA CallerWritesKeeps ==
    ASSUME LunInv, pc = "idle", UNCHANGED <<disk, pc, frame, result, reached>>,
           content' \in [Units -> [Copies -> Contents]],
           \A u \in Units, c \in Copies :
              content'[u][c] = "torn" => content[u][c] = "torn" \/ MayWrite(c)
    PROVE  Kept
<1>. USE DEF LunInv, disk, frame
<1>1. /\ primary' = primary /\ secondary' = secondary /\ bootLun' = bootLun
      /\ pc' = "idle" /\ stage' = stage /\ lun' = lun /\ result' = result
      /\ reached' = reached /\ todo' = todo /\ is_error' = is_error
  OBVIOUS
<1>2. TablesInv'
  BY <1>1, SameTables
<1>3. AccessInv'
  BY <1>1 DEF AccessInv
<1>4. CallInv'
  BY <1>1 DEF CallInv
<1>5. VisitedInv'
  <2>1. Visited' = Visited /\ (Succeeding' <=> Succeeding)
    BY <1>1 DEF Visited, Succeeding
  <2>. QED
    BY <1>1, <2>1, SameShape DEF VisitedInv
<1>6. XblInv'
  BY <1>1, SameShape DEF XblInv
<1>7. \A set \in SUBSET Luns : TornKept(set)
  <2>1. /\ \A l \in Luns : /\ OnBackup(l)' <=> OnBackup(l)
                           /\ OnMain(l)' <=> OnMain(l)
        /\ Backed \subseteq Luns
    BY <1>1, SameShape, LunsAssumption
  <2>. SUFFICES ASSUME NEW set \in SUBSET Luns, TornOn(set) PROVE TornOn(set)'
    BY DEF TornKept
  <2>2. ASSUME NEW u \in Units, content'[u]["main"] = "torn"
        PROVE  /\ \A l \in Backed \cap set : OnBackup(l)
               /\ HasXbl => bootLun = BOOT_LUN_B_ID
    BY <2>2, ReadyShape DEF TornOn, Copies
  <2>3. ASSUME NEW u \in Units, content'[u]["bak"] = "torn"
        PROVE  /\ \A l \in set : OnMain(l)
               /\ HasXbl => bootLun = BOOT_LUN_A_ID
    BY <2>3, ReadyShape DEF TornOn, Copies
  <2>. QED
    BY <1>1, <2>1, <2>2, <2>3 DEF TornOn
<1>. QED
  BY <1>2, <1>3, <1>4, <1>5, <1>6, <1>7 DEF Parts, Kept

\* Every step of the program, of its caller and of its faults keeps it.
LEMMA PartsStep ==
    Covered /\ LunInv /\ [Next]_vars => Kept
<1>. SUFFICES ASSUME Covered, LunInv, [Next]_vars PROVE Kept
  OBVIOUS
<1>1. CASE NextLun
  BY <1>1, NextLunKeeps
<1>2. CASE Return
  BY <1>2, ReturnKeeps
<1>3. CASE StageAlreadySet
  BY <1>3, StageAlreadySetKeeps
<1>4. CASE RefuseStage \/ (KeepChain /\ PrimaryTableBad)
  BY <1>4, ErrorKeeps DEF RefuseStage, KeepChain
<1>5. CASE EnterStage
  BY <1>5, EnterStageKeeps
<1>6. CASE SetBootLun
  BY <1>6, SetBootLunKeeps
<1>7. CASE KeepChain /\ ~PrimaryTableBad
  BY <1>7, NoBackupFoundKeeps
<1>8. CASE WriteChainHeader
  BY <1>8, WriteChainHeaderKeeps
<1>9. CASE WriteChainTable
  BY <1>9, WriteChainTableKeeps DEF WriteChainTable
<1>10. CASE SetPrimary
  BY <1>10, SetPrimaryKeeps
<1>11. CASE SetSecondary
  BY <1>11, SetSecondaryKeeps
<1>12. CASE AccessFails
  <2>1. pc # "idle" /\ pc' = "next_lun" /\ is_error' = TRUE
    BY <1>12 DEF AccessFails, AccessPoints, LunDone
  <2>2. ~Succeeding'
    BY <2>1 DEF Succeeding
  <2>. QED
    BY <1>12, <2>1, <2>2, FaultKeeps DEF AccessFails, LunDone, caller
<1>13. CASE Crash
  <2>1. pc' = "idle" /\ result' = "none"
    BY <1>13 DEF Crash
  <2>2. ~Succeeding'
    BY <2>1 DEF Succeeding
  <2>. QED
    BY <1>13, <2>1, <2>2, FaultKeeps DEF Crash
<1>14. ASSUME NEW s \in Stages, Call(s) PROVE Kept
  BY <1>14, CallKeeps
<1>15. ASSUME NEW u \in Units, NEW c \in Copies,
              StartWrite(u, c) \/ FinishWrite(u, c)
       PROVE  Kept
  <2>1. /\ pc = "idle" /\ MayWrite(c)
        /\ UNCHANGED <<disk, pc, frame, result, reached>>
        /\ content' = [content EXCEPT ![u][c] = "torn"]
             \/ content' = [content EXCEPT ![u][c] = "new"]
    BY <1>15 DEF StartWrite, FinishWrite, MayWrite
  <2>2. /\ content \in [Units -> [Copies -> Contents]]
        /\ content' \in [Units -> [Copies -> Contents]]
    BY TypeStep DEF LunInv, TypeOK
  <2>3. \A v \in Units, d \in Copies :
           content'[v][d] = "torn" => content[v][d] = "torn" \/ MayWrite(d)
    BY <2>1, <2>2
  <2>. QED
    BY <2>1, <2>2, <2>3, CallerWritesKeeps
<1>16. CASE NextPackage
  <2>1. /\ pc = "idle" /\ UNCHANGED <<disk, pc, frame, result, reached>>
        /\ content' = [u \in Units |-> [c \in Copies |-> "old"]]
    BY <1>16 DEF NextPackage
  <2>2. content' \in [Units -> [Copies -> Contents]]
    BY <2>1 DEF Contents
  <2>. QED
    BY <2>1, <2>2, CallerWritesKeeps
<1>17. CASE WriteFallsShort
  BY <1>17, WriteChainTableKeeps DEF WriteFallsShort
<1>18. CASE UNCHANGED vars
  BY <1>18, SameShape
  DEF vars, LunInv, Parts, Kept, TablesInv, AccessInv, CallInv, VisitedInv, XblInv,
      TornKept, TornOn, Usable, Headed, AllAre, Visited, Succeeding
<1>. QED
  BY <1>1, <1>2, <1>3, <1>4, <1>5, <1>6, <1>7, <1>8, <1>9, <1>10, <1>11,
     <1>12, <1>13, <1>14, <1>15, <1>16, <1>17, <1>18
  DEF Next, PrepareStep, CallerStep

\* It holds of every damage to begin with.
LEMMA PartsInit == Init => Parts /\ TornInv
<1>. SUFFICES ASSUME Init PROVE Parts /\ TornInv
  OBVIOUS
<1>1. /\ pc = "idle" /\ result = "none" /\ reached = 0
      /\ bootLun = BOOT_LUN_A_ID /\ is_error = FALSE
      /\ content = [u \in Units |-> [c \in Copies |-> "old"]]
  BY DEF Init
<1>2. \A l \in Luns :
         \/ primary[l] = ShippedGpt
              /\ secondary[l] \in {ShippedGpt, BadHeader, BadTable}
         \/ primary[l] \in {BadHeader, BadTable} /\ secondary[l] = ShippedGpt
  <2>1. PICK damage \in [Luns -> Damages] :
           /\ primary   = [l \in Luns |-> FirstPrimary(damage[l])]
           /\ secondary = [l \in Luns |-> FirstSecondary(damage[l])]
    BY DEF Init
  <2>. QED
    BY <2>1 DEF FirstPrimary, FirstSecondary
<1>a. /\ ShippedGpt.signed = TRUE /\ ShippedGpt.crc = TRUE
      /\ ShippedGpt.sound = TRUE
      /\ ShippedGpt.tableCrc = NORMAL_BOOT /\ ShippedGpt.table = NORMAL_BOOT
      /\ BadHeader.signed = TRUE /\ BadHeader.crc = FALSE
      /\ BadHeader.tableCrc = NORMAL_BOOT /\ BadHeader.table = NORMAL_BOOT
      /\ BadTable.signed = TRUE /\ BadTable.crc = TRUE /\ BadTable.sound = TRUE
      /\ BadTable.tableCrc = NORMAL_BOOT /\ BadTable.table = Garbage
  BY DEF ShippedGpt, BadHeader, BadTable
<1>3. \A l \in Luns : ~OnBackup(l) /\ ~OnMain(l)
  BY <1>2, <1>a DEF OnBackup, OnMain
<1>4. TablesInv
  BY <1>2, <1>a
  DEF TablesInv, BadFromTheStart, Usable, NORMAL_BOOT, BACKUP_BOOT, Garbage,
      Short
<1>5. AccessInv /\ CallInv
  BY <1>1 DEF AccessInv, CallInv
<1>6. VisitedInv
  BY <1>1 DEF VisitedInv, Succeeding
<1>7. XblInv
  BY <1>1, <1>3 DEF XblInv
<1>8. TornInv
  BY <1>1 DEF TornInv, TornOn, Copies
<1>. QED
  BY <1>4, <1>5, <1>6, <1>7, <1>8 DEF Parts

\* The inductive invariant, for devices and callers the stages are made for.
THEOREM SafeInvHolds == Covered => (Spec => []SafeInv)
<1>. SUFFICES ASSUME Covered PROVE Spec => []SafeInv
  OBVIOUS
<1>1. Init /\ TypeOK => SafeInv
  BY PartsInit DEF Parts, SafeInv, LunInv
<1>2. SafeInv /\ [Next]_vars => SafeInv'
  <2>. SUFFICES ASSUME SafeInv, [Next]_vars PROVE SafeInv'
    OBVIOUS
  <2>1. TypeOK' /\ Kept
    BY PartsStep, TypeStep DEF SafeInv, LunInv
  <2>2. Luns # {}
    BY DEF SafeInv, LunInv, TypeOK
  <2>3. TornInv'
    BY <2>1, <2>2 DEF Kept, TornKept, SafeInv, TornInv
  <2>. QED
    BY <2>1, <2>3 DEF Kept, Parts, SafeInv, LunInv
<1>. QED
  BY <1>1, <1>2, TypeCorrect, PTL DEF Spec
-----------------------------------------------------------------------------
(***************************************************************************)
(* The safety properties.                                                  *)
(***************************************************************************)
\* What a LUN with backed-up images boots, by its shape.
LEMMA LiveByShape ==
    ASSUME LunInv, NEW l \in Luns
    PROVE  LiveCopy(l) = IF ~OnBackup(l) THEN "main"
                         ELSE IF secondary[l].table = Short THEN "nothing"
                                                            ELSE "bak"
<1>1. LiveCopy(l) = FirstCopy(LiveTable(l))
  BY LunsAssumption DEF LiveCopy
<1>2. Usable(primary[l]) \/ OnBackup(l) \/ BadFromTheStart(l)
  BY DEF LunInv, TablesInv
<1>3. CASE Usable(primary[l])
  <2>1. primary[l].table = NORMAL_BOOT /\ ~OnBackup(l)
    BY <1>3 DEF LunInv, TablesInv, Usable, OnBackup
  <2>2. LiveTable(l) = NORMAL_BOOT
    BY <1>3, <2>1 DEF LiveTable
  <2>. QED
    BY <1>1, <2>1, <2>2 DEF FirstCopy, NORMAL_BOOT, BACKUP_BOOT
<1>4. CASE OnBackup(l)
  <2>1. ~Usable(primary[l]) /\ secondary[l].table \in {BACKUP_BOOT, Short}
    BY <1>4 DEF OnBackup, Headed, Usable
  <2>2. CASE secondary[l].table = BACKUP_BOOT
    <3>1. LiveTable(l) = BACKUP_BOOT
      BY <1>4, <2>1, <2>2 DEF LiveTable, OnBackup, Headed, Usable
    <3>. QED
      BY <1>1, <1>4, <2>2, <3>1
      DEF FirstCopy, NORMAL_BOOT, BACKUP_BOOT, Short
  <2>3. CASE secondary[l].table = Short
    <3>1. LiveTable(l) = Garbage
      BY <2>1, <2>3 DEF LiveTable, Usable, NORMAL_BOOT, BACKUP_BOOT, Short
    <3>. QED
      BY <1>1, <1>4, <2>3, <3>1
      DEF FirstCopy, NORMAL_BOOT, BACKUP_BOOT, Garbage
  <2>. QED
    BY <2>1, <2>2, <2>3
<1>5. CASE BadFromTheStart(l)
  <2>1. primary[l].tableCrc = NORMAL_BOOT
    BY DEF LunInv, TablesInv
  <2>2. ~Usable(primary[l]) /\ ~OnBackup(l)
    BY <1>5, <2>1
    DEF BadFromTheStart, Usable, OnBackup, NORMAL_BOOT, BACKUP_BOOT, Garbage
  <2>3. Usable(secondary[l]) /\ secondary[l].table = NORMAL_BOOT
    BY <1>5 DEF BadFromTheStart, Usable, ShippedGpt, NORMAL_BOOT, Garbage
  <2>4. LiveTable(l) = NORMAL_BOOT
    BY <2>2, <2>3 DEF LiveTable
  <2>. QED
    BY <1>1, <2>2, <2>4 DEF FirstCopy, NORMAL_BOOT, BACKUP_BOOT
<1>. QED
  BY <1>2, <1>3, <1>4, <1>5

\* The xbl that boots is the boot LUN's.
LEMMA LiveXbl ==
    HasXbl => LiveCopy(Xbl) = IF bootLun = BOOT_LUN_A_ID THEN "main" ELSE "bak"
  BY DEF LiveCopy

\* The boot loader always finds a table, and a copy that is whole.
LEMMA SafeIsBootable == SafeInv => Bootable
<1>. SUFFICES ASSUME SafeInv, NEW u \in Units, u = Xbl \/ ~CutOff(u)
              PROVE  LiveCopy(u) \in Copies /\ content[u][LiveCopy(u)] # "torn"
  BY DEF Bootable
<1>1. /\ content[u]["main"] = "torn" =>
            /\ \A l \in Backed : OnBackup(l)
            /\ HasXbl => bootLun = BOOT_LUN_B_ID
      /\ content[u]["bak"] = "torn" =>
            /\ \A l \in Luns : OnMain(l)
            /\ HasXbl => bootLun = BOOT_LUN_A_ID
  BY LunsAssumption DEF SafeInv, TornInv, TornOn
<1>2. CASE u \in Backed
  <2>1. OnBackup(u) => secondary[u].table # Short
    BY <1>2, LunsAssumption DEF CutOff, OnBackup
  <2>. QED
    BY <1>1, <1>2, <2>1, LunsAssumption, LiveByShape, ShapesDiffer
    DEF Copies, SafeInv
<1>3. CASE HasXbl /\ u = Xbl
  BY <1>1, <1>3, LiveXbl DEF Copies, BOOT_LUN_A_ID, BOOT_LUN_B_ID
<1>. QED
  BY <1>2, <1>3 DEF Units

\* A call that returned 0 has the boot loader on the other copies.
LEMMA SafeIsSwitched == SafeInv => ReadyMeansSwitched
<1>. SUFFICES ASSUME SafeInv, NEW c \in Copies, MayWrite(c), NEW u \in Units
              PROVE  LiveCopy(u) # c
  BY DEF ReadyMeansSwitched
<1>1. CASE u \in Backed
  BY <1>1, LunsAssumption, LiveByShape, ShapesDiffer, ReadyShape
  DEF SafeInv
<1>2. CASE HasXbl /\ u = Xbl
  BY <1>2, LiveXbl, ReadyShape DEF SafeInv, BOOT_LUN_A_ID, BOOT_LUN_B_ID
<1>. QED
  BY <1>1, <1>2 DEF Units

\* A device that runs prepare_boot_update stays bootable across any sequence
\* of stages, crashes, failed accesses and short writes, a LUN whose secondary
\* table fell short while its primary is spoiled excepted.
THEOREM StaysBootable == Covered => (Spec => []Bootable)
  BY SafeInvHolds, SafeIsBootable, PTL

\* prepare_boot_update does not return 0 with the copies to be written live.
THEOREM StaysSwitched == Covered => (Spec => []ReadyMeansSwitched)
  BY SafeInvHolds, SafeIsSwitched, PTL

\* No CRC is put on a header or a table that was found damaged.
THEOREM NoBlessing == Covered => (Spec => []DamageNeverBlessed)
<1>1. SafeInv => DamageNeverBlessed
  BY DEF SafeInv, LunInv, TablesInv, DamageNeverBlessed, NORMAL_BOOT, Garbage,
         Short
<1>. QED
  BY <1>1, SafeInvHolds, PTL

\* UPDATE_FINALIZE returns 0 with both tables as they were shipped, or with the
\* secondary cut short under a CRC that tells.
THEOREM Restored == Covered => (Spec => []FinalizeRestores)
<1>1. ASSUME NEW g \in Gpts, NEW h \in Gpts, Usable(g), Headed(h, g.table)
      PROVE  h = g \/ h = [g EXCEPT !.table = Short]
  <2>1. /\ h.signed = g.signed /\ h.crc = g.crc /\ h.sound = g.sound
        /\ h.tableCrc = g.tableCrc /\ h.table \in {g.table, Short}
    BY <1>1 DEF Usable, Headed, Gpts
  <2>. QED
    BY <2>1 DEF Gpts
<1>2. SafeInv => FinalizeRestores
  <2>. SUFFICES ASSUME SafeInv, pc = "idle", result = "ok",
                       stage = UPDATE_FINALIZE
                PROVE  /\ \A l \in Luns :
                             /\ Usable(primary[l])
                             /\ \/ secondary[l] = primary[l]
                                \/ secondary[l] = [primary[l] EXCEPT !.table = Short]
                       /\ bootLun = BOOT_LUN_A_ID
    BY DEF FinalizeRestores
  <2>1. \A l \in Luns : Agreed(l) /\ bootLun = BOOT_LUN_A_ID
    BY DEF SafeInv, LunInv, VisitedInv, Visited, Succeeding
  <2>2. /\ lun \in Luns
        /\ \A l \in Luns : primary[l] \in Gpts /\ secondary[l] \in Gpts
    BY DEF SafeInv, LunInv, TypeOK
  <2>. QED
    BY <1>1, <2>1, <2>2 DEF Agreed
<1>. QED
  BY <1>2, SafeInvHolds, PTL
-----------------------------------------------------------------------------
(***************************************************************************)
(* The order of the block writes.                                          *)
(***************************************************************************)
\* A block is written to one GPT of a LUN while the other one is valid: the
\* order in which prepare_partitions makes its calls.
THEOREM WritesInOrder == Covered => (Spec => OneTableAtATime)
<1>. DEFINE Apart(l) ==
        \/ primary'[l] = primary[l] /\ Usable(primary[l])
        \/ /\ secondary'[l] = secondary[l]
           /\ \/ Usable(secondary[l])
              \/ primary'[l] = primary[l]
              \/ secondary[l].table = Short
<1>1. ASSUME SafeInv, Next PROVE \A l \in Luns : Apart(l)
  <2>. SUFFICES ASSUME NEW l \in Luns PROVE Apart(l)
    OBVIOUS
  <2>. USE <1>1 DEF SafeInv, LunInv, disk
  <2>0. /\ lun \in Luns
        /\ primary[lun].tableCrc = NORMAL_BOOT
        /\ Usable(primary[lun]) \/ OnBackup(lun) \/ BadFromTheStart(lun)
    BY DEF TypeOK, TablesInv
  <2>1. CASE WriteChainHeader
    <3>1. /\ primary' = primary /\ pc = "chain_header"
          /\ secondary'[l] = secondary[l] \/ l = lun
          /\ primary[lun].tableCrc = primary[lun].table
      BY <2>1, <2>0 DEF WriteChainHeader, PrimaryTableBad, TypeOK
    <3>2. primary[lun].signed /\ primary[lun].crc
      BY <3>1 DEF AccessInv, OnMain, Usable
    <3>3. Usable(primary[lun])
      BY <2>0, <3>1, <3>2
      DEF OnBackup, BadFromTheStart, NORMAL_BOOT, Garbage
    <3>. QED
      BY <3>1, <3>3
  <2>2. CASE \/ WriteChainTable \/ WriteFallsShort
             \/ pc = "chain_table" /\ (AccessFails \/ Crash)
    <3>1. /\ primary' = primary /\ pc = "chain_table"
          /\ secondary'[l] = secondary[l] \/ l = lun
      BY <2>2, <2>0
      DEF WriteChainTable, WriteFallsShort, ChainWritten, AccessFails, Crash,
          MaybeTornTable, TypeOK
    <3>2. Usable(primary[lun])
      BY <3>1 DEF AccessInv, OnMain
    <3>. QED
      BY <3>1, <3>2
  <2>3. CASE SetPrimary
    <3>1. /\ secondary' = secondary /\ pc = "set_primary"
          /\ primary'[l] = primary[l] \/ l = lun
      BY <2>3, <2>0 DEF SetPrimary, TypeOK
    <3>2. Usable(secondary[lun]) \/ secondary[lun].table = Short
      BY <3>1 DEF AccessInv, OnBackup, Headed, Usable
    <3>. QED
      BY <3>1, <3>2
  <2>4. CASE SetSecondary
    <3>1. /\ primary' = primary /\ pc = "set_secondary"
          /\ secondary'[l] = secondary[l] \/ l = lun
      BY <2>4, <2>0 DEF SetSecondary, TypeOK
    <3>2. Usable(primary[lun])
      BY <3>1 DEF AccessInv, OnMain
    <3>. QED
      BY <3>1, <3>2
  <2>5. CASE pc # "chain_table" /\ (AccessFails \/ Crash)
    BY <2>5 DEF AccessFails, Crash, MaybeTornTable
  <2>6. CASE \/ NextLun \/ Return \/ StageAlreadySet \/ RefuseStage
             \/ EnterStage \/ SetBootLun \/ KeepChain \/ CallerStep
    BY <2>6
    DEF NextLun, Return, StageAlreadySet, RefuseStage, EnterStage, SetBootLun,
        KeepChain, CallerStep, Call, StartWrite,
        FinishWrite, NextPackage
  <2>. QED
    BY <1>1, <2>1, <2>2, <2>3, <2>4, <2>5, <2>6 DEF Next, PrepareStep
<1>2. SafeInv /\ [Next]_vars => [\A l \in Luns : Apart(l)]_vars
  BY <1>1
<1>. QED
  BY <1>2, SafeInvHolds, PTL DEF Spec, OneTableAtATime
-----------------------------------------------------------------------------
(***************************************************************************)
(* The refinement of FailsafeUpdate.                                       *)
(***************************************************************************)
\* Whatever is damaged, the boot loader starts from the main copies.
LEMMA FailsafeInitMaps == Init => Failsafe!FailsafeInit
<1>. SUFFICES ASSUME Init PROVE Failsafe!FailsafeInit
  OBVIOUS
<1>1. TypeOK /\ Parts /\ TornInv
  <2>1. primary \in [Luns -> Gpts] /\ secondary \in [Luns -> Gpts]
    BY FirstTypes DEF Init
  <2>2. reached \in 0 .. 3 /\ faults \in 0 .. MaxFaults
    BY FaultsAssumption DEF Init
  <2>. QED
    BY <2>1, <2>2, PartsInit
    DEF Init, TypeOK, Stages, AccessPoints, Copies, Contents
<1>2. SafeInv
  BY <1>1 DEF SafeInv, LunInv, Parts
<1>3. \A l \in Luns : ~OnBackup(l)
  <2>1. PICK damage \in [Luns -> Damages] :
           primary = [l \in Luns |-> FirstPrimary(damage[l])]
    BY DEF Init
  <2>2. \A d : FirstPrimary(d).signed
    BY DEF FirstPrimary, ShippedGpt, BadHeader, BadTable
  <2>. QED
    BY <2>1, <2>2 DEF OnBackup
<1>4. \A u \in Units : LiveCopy(u) = "main"
  <2>. SUFFICES ASSUME NEW u \in Units PROVE LiveCopy(u) = "main"
    OBVIOUS
  <2>1. CASE u \in Backed
    BY <1>2, <1>3, <2>1, LunsAssumption, LiveByShape DEF SafeInv
  <2>2. CASE HasXbl /\ u = Xbl
    BY <2>2, LiveXbl DEF Init
  <2>. QED
    BY <2>1, <2>2 DEF Units
<1>5. {u \in Backed : secondary[u].table = Short} = {}
  <2>1. PICK damage \in [Luns -> Damages] :
           secondary = [l \in Luns |-> FirstSecondary(damage[l])]
    BY DEF Init
  <2>2. \A d : FirstSecondary(d).table # Short
    BY DEF FirstSecondary, ShippedGpt, BadHeader, BadTable, NORMAL_BOOT, Garbage,
           Short
  <2>. QED
    BY <2>1, <2>2, LunsAssumption
<1>. QED
  BY <1>4, <1>5 DEF Failsafe!FailsafeInit, Failsafe!Copies, Init, Copies

\* The boot loader finds one of the copies or nothing.
LiveShape ==
    /\ \A l \in Luns :
          LiveCopy(l) = IF ~OnBackup(l) THEN "main"
                        ELSE IF secondary[l].table = Short THEN "nothing"
                                                           ELSE "bak"
    /\ HasXbl => LiveCopy(Xbl) \in {"main", "bak"}

LEMMA SafeLiveShape == SafeInv => LiveShape
  BY LiveByShape, LiveXbl DEF SafeInv, LiveShape

\* A step that writes neither a copy nor an array moves the boot loader to
\* whole copies, or off a backup table that was cut short.
LEMMA MoveMaps ==
    ASSUME SafeInv, SafeInv', content' = content,
           \A l \in Luns : secondary'[l].table = secondary[l].table
    PROVE  Failsafe!MoveLive
<1>. USE LunsAssumption
<1>1. Bootable' /\ LiveShape /\ LiveShape'
  BY SafeIsBootable, SafeLiveShape, PTL
<1>a. LunInv'
  BY DEF SafeInv
<1>2. {u \in Backed : secondary[u].table = Short}' =
         {u \in Backed : secondary[u].table = Short}
  OBVIOUS
<1>3. \A u \in Units : LiveCopy(u)' \in {"main", "bak", "nothing"}
  BY <1>1 DEF LiveShape, Units
<1>4. ASSUME NEW u \in Units, LiveCopy(u)' # LiveCopy(u)
      PROVE  IF LiveCopy(u)' = "nothing"
             THEN /\ u \in {v \in Backed : secondary[v].table = Short}
                  /\ LiveCopy(u) = "main"
             ELSE content[u][LiveCopy(u)'] # "torn"
  <2>1. CASE HasXbl /\ u = Xbl
    <3>1. LiveCopy(u)' # "nothing"
      BY <1>1, <2>1 DEF LiveShape
    <3>2. (content[u][LiveCopy(u)] # "torn")'
      BY <1>1, <2>1 DEF Bootable, Units
    <3>. QED
      BY <3>1, <3>2
  <2>2. CASE u \in Backed
    <3>1. /\ LiveCopy(u) = IF ~OnBackup(u) THEN "main"
                           ELSE IF secondary[u].table = Short THEN "nothing"
                                                              ELSE "bak"
          /\ (LiveCopy(u) = IF ~OnBackup(u) THEN "main"
                            ELSE IF secondary[u].table = Short THEN "nothing"
                                                               ELSE "bak")'
      BY <1>1, <2>2 DEF LiveShape
    <3>2. CASE LiveCopy(u)' = "nothing"
      BY <1>4, <2>2, <3>1, <3>2
    <3>3. CASE LiveCopy(u)' # "nothing"
      <4>1. (~CutOff(u))'
        BY <2>2, <3>1, <3>3, <1>a
        DEF CutOff, LunInv, TablesInv, OnBackup, BadFromTheStart, ShippedGpt,
            Usable, NORMAL_BOOT, Short
      <4>2. (content[u][LiveCopy(u)] # "torn")'
        BY <1>1, <2>2, <4>1 DEF Bootable, Units
      <4>. QED
        BY <3>3, <4>2
    <3>. QED
      BY <3>2, <3>3
  <2>. QED
    BY <2>1, <2>2 DEF Units
<1>. QED
  BY <1>2, <1>3, <1>4 DEF Failsafe!MoveLive, Failsafe!Copies, Failsafe!Nothing

\* The secondary array is written beside the primary that is in use.
LEMMA ChainMaps ==
    ASSUME SafeInv, pc = "chain_table", NEW table \in Tables,
           secondary' = [secondary EXCEPT ![lun].table = table],
           UNCHANGED <<primary, bootLun, lun, content>>, NEW l \in Luns, l = lun
    PROVE  \/ Failsafe!WriteTable(l) /\ l \in Units
           \/ UNCHANGED Failsafe!failsafeVars
<1>1. /\ lun \in Luns /\ Usable(primary[lun]) /\ primary[lun].table = NORMAL_BOOT
      /\ \A k \in Luns \ {lun} : secondary'[k] = secondary[k]
  BY TableStep DEF SafeInv
<1>2. \A k \in Luns : LiveTable(k)' = LiveTable(k)
  BY <1>1 DEF LiveTable, Usable
<1>3. \A u \in Units : LiveCopy(u)' = LiveCopy(u)
  BY <1>2, LunsAssumption DEF LiveCopy, Units
<1>4. [u \in Units |-> LiveCopy(u)]' = [u \in Units |-> LiveCopy(u)]
  BY <1>3
<1>. DEFINE cut == {u \in Backed : secondary[u].table = Short}
<1>5. cut' = cut \/ (l \in Backed /\ cut' \in {cut \cup {l}, cut \ {l}})
  <2>1. \A u \in Backed \ {l} : u \in cut' <=> u \in cut
    BY <1>1, LunsAssumption
  <2>2. cut \subseteq Backed /\ cut' \subseteq Backed
    OBVIOUS
  <2>3. CASE l \in Backed
    BY <2>1, <2>2, <2>3, Zenon
  <2>4. CASE l \notin Backed
    BY <2>1, <2>2, <2>4, Zenon
  <2>. QED
    BY <2>3, <2>4
<1>6. l \in Backed => LiveCopy(l) = "main"
  <2>1. ~OnBackup(l)
    BY <1>1 DEF OnBackup, Usable
  <2>. QED
    BY <1>1, <2>1, LiveByShape DEF SafeInv
<1>. HIDE DEF cut
<1>7. CASE cut' = cut
  BY <1>4, <1>7 DEF Failsafe!failsafeVars, cut
<1>8. CASE l \in Backed /\ cut' \in {cut \cup {l}, cut \ {l}}
  BY <1>4, <1>6, <1>8 DEF Failsafe!WriteTable, Units, cut
<1>. QED
  BY <1>5, <1>7, <1>8

\* Every step of BootUpdate is a step of FailsafeUpdate.
LEMMA FailsafeStepMaps ==
    ASSUME SafeInv, SafeInv', [Next]_vars
    PROVE  [Failsafe!FailsafeNext]_Failsafe!failsafeVars
<1>. USE DEF Failsafe!FailsafeNext
<1>0. /\ TypeOK /\ lun \in Luns /\ ReadyMeansSwitched
      /\ secondary \in [Luns -> Gpts] /\ secondary[lun] \in Gpts
  BY SafeIsSwitched DEF SafeInv, LunInv, TypeOK
<1>1. ASSUME \/ pc = "chain_table" /\ (AccessFails \/ Crash)
             \/ WriteChainTable \/ WriteFallsShort
      PROVE  [Failsafe!FailsafeNext]_Failsafe!failsafeVars
  <2>1. /\ pc = "chain_table" /\ primary' = primary /\ bootLun' = bootLun
        /\ lun' = lun /\ content' = content
        /\ \/ \E table \in Tables : secondary' = [secondary EXCEPT ![lun].table = table]
           \/ secondary' = secondary
    <3>1. ChainTable(lun) \in Tables /\ Short \in Tables /\ Garbage \in Tables
      BY <1>0, ChainTableType DEF Tables
    <3>. QED
      BY <1>1, <3>1
      DEF AccessFails, Crash, MaybeTornTable, WriteChainTable, WriteFallsShort,
          ChainWritten, LunDone, frame, caller
  <2>2. CASE secondary' = secondary
    <3>1. Failsafe!MoveLive
      BY <2>1, <2>2, MoveMaps
    <3>. QED
      BY <3>1
  <2>3. ASSUME NEW table \in Tables,
               secondary' = [secondary EXCEPT ![lun].table = table]
        PROVE  [Failsafe!FailsafeNext]_Failsafe!failsafeVars
    <3>1. PICK l \in Luns : l = lun
      BY <1>0
    <3>2. \/ Failsafe!WriteTable(l) /\ l \in Units
          \/ UNCHANGED Failsafe!failsafeVars
      BY <2>1, <2>3, <3>1, ChainMaps
    <3>. QED
      BY <3>2
  <2>. QED
    BY <2>1, <2>2, <2>3
<1>2. ASSUME \/ pc # "chain_table" /\ (AccessFails \/ Crash)
             \/ PrepareStep /\ ~WriteChainTable
             \/ UNCHANGED vars
      PROVE  Failsafe!MoveLive
  <2>1. content' = content
    BY <1>2
    DEF PrepareStep, NextLun, Return, StageAlreadySet, RefuseStage, EnterStage,
        SetBootLun, KeepChain, WriteChainHeader, SetPrimary, SetSecondary,
        AccessFails, Crash, caller, vars
  <2>2. \A l \in Luns : secondary'[l].table = secondary[l].table
    <3>1. CASE secondary' = secondary
      BY <3>1
    <3>2. CASE WriteChainHeader
      BY <1>0, <3>2 DEF WriteChainHeader, Gpts
    <3>3. CASE SetSecondary
      BY <1>0, <3>3 DEF SetSecondary, Gpts
    <3>. QED
      BY <1>2, <3>1, <3>2, <3>3
      DEF PrepareStep, NextLun, Return, StageAlreadySet, RefuseStage, EnterStage,
          SetBootLun, KeepChain, SetPrimary, AccessFails, Crash, MaybeTornTable,
          disk, vars
  <2>. QED
    BY <2>1, <2>2, MoveMaps
<1>3. ASSUME NEW s \in Stages, Call(s) PROVE Failsafe!MoveLive
  BY <1>3, MoveMaps DEF Call, disk
<1>4. ASSUME UNCHANGED disk
      PROVE  /\ [u \in Units |-> LiveCopy(u)]' = [u \in Units |-> LiveCopy(u)]
             /\ {u \in Backed : secondary[u].table = Short}' =
                   {u \in Backed : secondary[u].table = Short}
  BY <1>4 DEF disk, LiveCopy, LiveTable, Usable
<1>5. ASSUME NEW u \in Units, NEW c \in Copies,
             StartWrite(u, c) \/ FinishWrite(u, c)
      PROVE  Failsafe!StartWrite(u, c) \/ Failsafe!FinishWrite(u, c)
  <2>1. LiveCopy(u) # c
    BY <1>0, <1>5 DEF StartWrite, FinishWrite, ReadyMeansSwitched
  <2>2. UNCHANGED disk
    BY <1>5 DEF StartWrite, FinishWrite
  <2>. QED
    BY <1>4, <1>5, <2>1, <2>2
    DEF StartWrite, FinishWrite, Failsafe!StartWrite, Failsafe!FinishWrite
<1>6. ASSUME NextPackage PROVE Failsafe!NextPackage
  BY <1>4, <1>6
  DEF NextPackage, Failsafe!NextPackage, Failsafe!Copies, Copies, AllAre
<1>. QED
  BY <1>1, <1>2, <1>3, <1>5, <1>6 DEF Next, CallerStep, Failsafe!Copies, Copies

\* The three stages implement the abstract promise of a failsafe update.
THEOREM Refinement == Covered => (Spec => ImplementsFailsafe)
  BY FailsafeInitMaps, FailsafeStepMaps, SafeInvHolds, PTL
  DEF Spec, ImplementsFailsafe, Failsafe!FailsafeSpec

-----------------------------------------------------------------------------
(***************************************************************************)
(* What is on the medium and what is in the cache.  A block is the header  *)
(* or the array of one GPT of one LUN.  The cache agrees with the last     *)
(* write of a block that waits, or with the medium if none does; and the   *)
(* LUNs that a call is through with have no write that waits.              *)
(***************************************************************************)
Disks == [primary : [Luns -> Gpts], secondary : [Luns -> Gpts]]

CacheTyped == /\ medium \in Disks
              /\ dirty \in Seq(Writes)
              /\ syncing \in BOOLEAN
              /\ unsynced \subseteq Luns
              /\ crossed \subseteq Luns

Block == [lun : Luns, which : {"primary", "secondary"}, part : {"header", "table"}]

OfBlock(w, b) == w.lun = b.lun /\ w.which = b.which /\ w.part = b.part

\* Two GPTs that have the same header, or the same array.
SamePart(part, g, h) ==
    IF part = "table" THEN g.table = h.table
    ELSE /\ g.signed = h.signed /\ g.crc = h.crc /\ g.sound = h.sound
         /\ g.tableCrc = h.tableCrc

CoherentInv ==
    /\ \A i \in 1 .. Len(dirty) :
          (\A j \in i + 1 .. Len(dirty) : ~OfBlock(dirty[j], dirty[i]))
          => SamePart(dirty[i].part, dirty[i].gpt,
                      Whole[dirty[i].which][dirty[i].lun])
    /\ \A b \in Block :
          (\A i \in 1 .. Len(dirty) : ~OfBlock(dirty[i], b))
          => SamePart(b.part, medium[b.which][b.lun], Whole[b.which][b.lun])

\* No write to the LUN waits.
Clean(l) == \A i \in 1 .. Len(dirty) : dirty[i].lun # l

\* The LUNs that the call still works on, has still to visit, or has lost.
Pending == todo \cup unsynced \cup
           (IF pc = "next_lun" /\ ~syncing THEN {} ELSE {lun})

DurableInv ==
    /\ syncing => pc = "next_lun"
    /\ result = "ok" => pc = "idle"
    /\ pc # "idle" => \A l \in Luns \ Pending : Clean(l)
    /\ pc = "idle" /\ result = "ok" => \A l \in Luns \ unsynced : Clean(l)

CacheInv == TypeOK /\ CacheTyped /\ CoherentInv /\ DurableInv

-----------------------------------------------------------------------------
\* What a write does to its GPT.
LEMMA WrittenIs ==
    ASSUME NEW g \in Gpts, NEW w \in Writes
    PROVE  /\ Written(g, w) \in Gpts
           /\ \A part \in {"header", "table"} :
                 SamePart(part, Written(g, w), IF w.part = part THEN w.gpt ELSE g)
<1>1. CASE w.part = "header"
  BY <1>1 DEF Written, SamePart, Gpts, Writes
<1>2. CASE w.part = "table"
  BY <1>2 DEF Written, SamePart, Gpts, Writes
<1>. QED
  BY <1>1, <1>2 DEF Writes

\* What it does to the disk.
LEMMA OnMediumIs ==
    ASSUME NEW m \in Disks, NEW w \in Writes
    PROVE  /\ OnMedium(m, w) \in Disks
           /\ \A x \in {"primary", "secondary"}, l \in Luns :
                 OnMedium(m, w)[x][l] =
                    IF x = w.which /\ l = w.lun THEN Written(m[x][l], w)
                                                ELSE m[x][l]
<1>0. /\ w.lun \in Luns /\ w.which \in {"primary", "secondary"}
      /\ \A x \in {"primary", "secondary"} : m[x] \in [Luns -> Gpts]
  BY DEF Writes, Disks
<1>1. m[w.which][w.lun] \in Gpts
  BY <1>0
<1>2. Written(m[w.which][w.lun], w) \in Gpts
  BY <1>1, WrittenIs
<1>3. OnMedium(m, w) = [m EXCEPT ![w.which] =
                          [m[w.which] EXCEPT ![w.lun] =
                              Written(m[w.which][w.lun], w)]]
  BY DEF OnMedium
<1> DEFINE f == [m[w.which] EXCEPT ![w.lun] = Written(m[w.which][w.lun], w)]
<1>4. /\ f \in [Luns -> Gpts]
      /\ \A l \in Luns : f[l] = IF l = w.lun THEN Written(m[w.which][w.lun], w)
                                ELSE m[w.which][l]
  BY <1>0, <1>2
<1>5. OnMedium(m, w) = [m EXCEPT ![w.which] = f]
  BY <1>3
<1> HIDE DEF f
<1>6. /\ OnMedium(m, w) \in Disks
      /\ \A x \in {"primary", "secondary"} :
            OnMedium(m, w)[x] = IF x = w.which THEN f ELSE m[x]
  BY <1>0, <1>4, <1>5 DEF Disks
<1>. QED
  BY <1>0, <1>4, <1>6

\* A block that is not written stays.
LEMMA OtherBlocks ==
    ASSUME NEW m \in Disks, NEW w \in Writes, NEW b \in Block
    PROVE  /\ ~OfBlock(w, b) =>
                 SamePart(b.part, OnMedium(m, w)[b.which][b.lun], m[b.which][b.lun])
           /\ OfBlock(w, b) =>
                 SamePart(b.part, OnMedium(m, w)[b.which][b.lun], w.gpt)
<1>1. /\ b.which \in {"primary", "secondary"} /\ b.lun \in Luns
      /\ b.part \in {"header", "table"}
  BY DEF Block
<1>2. m[b.which][b.lun] \in Gpts
  BY <1>1 DEF Disks
<1>3. OnMedium(m, w)[b.which][b.lun] =
         IF b.which = w.which /\ b.lun = w.lun THEN Written(m[b.which][b.lun], w)
                                               ELSE m[b.which][b.lun]
  BY <1>1, OnMediumIs
<1>4. CASE b.which = w.which /\ b.lun = w.lun
  <2>1. SamePart(b.part, Written(m[b.which][b.lun], w),
                 IF w.part = b.part THEN w.gpt ELSE m[b.which][b.lun])
    BY <1>1, <1>2, WrittenIs
  <2>. QED
    BY <1>3, <1>4, <2>1 DEF OfBlock
<1>5. CASE ~(b.which = w.which /\ b.lun = w.lun)
  BY <1>3, <1>5 DEF OfBlock, SamePart
<1>. QED
  BY <1>4, <1>5

\* A write is of a block.
LEMMA WriteBlock ==
    ASSUME NEW w \in Writes
    PROVE  \E b \in Block : /\ b.lun = w.lun /\ b.which = w.which
                            /\ b.part = w.part
<1>1. [lun |-> w.lun, which |-> w.which, part |-> w.part] \in Block
  BY DEF Writes, Block
<1>. QED
  BY <1>1

\* GPTs with the same header and the same array are the same.
LEMMA BothParts ==
    ASSUME NEW g \in Gpts, NEW h \in Gpts,
           SamePart("header", g, h), SamePart("table", g, h)
    PROVE  g = h
  BY DEF SamePart, Gpts

\* What a read returns of a LUN for which no write waits is on the medium.
LEMMA CleanMeansSame ==
    ASSUME TypeOK, CacheTyped, CoherentInv, NEW l \in Luns, Clean(l)
    PROVE  medium.primary[l] = primary[l] /\ medium.secondary[l] = secondary[l]
<1>1. ASSUME NEW x \in {"primary", "secondary"}
      PROVE  medium[x][l] = Whole[x][l]
  <2>1. ASSUME NEW part \in {"header", "table"}
        PROVE  SamePart(part, medium[x][l], Whole[x][l])
    <3> DEFINE b == [lun |-> l, which |-> x, part |-> part]
    <3>1. b \in Block
      BY DEF Block
    <3>2. \A i \in 1 .. Len(dirty) : ~OfBlock(dirty[i], b)
      BY DEF Clean, OfBlock
    <3>3. b.lun = l /\ b.which = x /\ b.part = part
      OBVIOUS
    <3> HIDE DEF b
    <3>4. SamePart(b.part, medium[b.which][b.lun], Whole[b.which][b.lun])
      BY <3>1, <3>2 DEF CoherentInv
    <3>. QED
      BY <3>3, <3>4
  <2>2. medium[x][l] \in Gpts /\ Whole[x][l] \in Gpts
    BY DEF CacheTyped, Disks, TypeOK, Whole
  <2>. QED
    BY <2>1, <2>2, BothParts
<1>2. /\ medium["primary"][l] = Whole["primary"][l]
      /\ medium["secondary"][l] = Whole["secondary"][l]
  BY <1>1
<1>. QED
  BY <1>2 DEF Whole

-----------------------------------------------------------------------------
(***************************************************************************)
(* The steps of BootUpdate as the cache sees them.                         *)
(***************************************************************************)
\* The writes of a step, if it is one GPT that it changes.
LEMMA StepWritesIs ==
    /\ primary'[lun] = primary[lun] /\ secondary'[lun] = secondary[lun] =>
          StepWrites = << >>
    /\ primary'[lun] # primary[lun] /\ secondary'[lun] = secondary[lun] =>
          StepWrites = <<Write("primary", "header", primary'[lun])>>
    /\ primary'[lun] = primary[lun] /\ secondary'[lun] # secondary[lun] =>
          StepWrites = <<Write("secondary",
                               IF pc = "chain_table" THEN "table" ELSE "header",
                               secondary'[lun])>>
<1>1. ASSUME NEW e PROVE <<e>> \o << >> = <<e>> /\ << >> \o <<e>> = <<e>>
  <2>1. <<e>> \in Seq({e})
    OBVIOUS
  <2>. QED
    BY <2>1, ConcatEmptySeq
<1>2. << >> \o << >> = << >>
  BY ConcatEmptySeq, << >> \in Seq({})
<1>. QED
  BY <1>1, <1>2 DEF StepWrites

\* A step writes to lun alone, to one GPT, the header or the array.
LEMMA WritingStep ==
    ASSUME TypeOK, Next, primary' # primary \/ secondary' # secondary
    PROVE  /\ lun \in Luns /\ lun' = lun
           /\ \A l \in Luns \ {lun} : /\ primary'[l] = primary[l]
                                      /\ secondary'[l] = secondary[l]
           /\ pc \in {"chain_header", "chain_table", "set_primary", "set_secondary"}
           /\ pc = "set_primary" => /\ secondary' = secondary
                                    /\ primary'[lun].table = primary[lun].table
           /\ pc # "set_primary" => primary' = primary
           /\ pc \in {"chain_header", "set_secondary"} =>
                 secondary'[lun].table = secondary[lun].table
           /\ pc = "chain_table" =>
                 SamePart("header", secondary'[lun], secondary[lun])
<1>0. /\ lun \in Luns /\ primary \in [Luns -> Gpts] /\ secondary \in [Luns -> Gpts]
      /\ primary[lun] \in Gpts /\ secondary[lun] \in Gpts
  BY DEF TypeOK
<1>1. CASE WriteChainHeader
  BY <1>0, <1>1 DEF WriteChainHeader, frame, Gpts
<1>2. CASE WriteChainTable \/ WriteFallsShort
  BY <1>0, <1>2
  DEF WriteChainTable, WriteFallsShort, ChainWritten, frame, SamePart, Gpts
<1>3. CASE SetPrimary
  BY <1>0, <1>3 DEF SetPrimary, LunDone, frame, Gpts
<1>4. CASE SetSecondary
  BY <1>0, <1>4 DEF SetSecondary, LunDone, Gpts
<1>5. CASE AccessFails \/ Crash
  <2>1. /\ primary' = primary /\ lun' = lun /\ pc = "chain_table"
        /\ secondary' = [secondary EXCEPT ![lun].table = Garbage]
    BY <1>5 DEF AccessFails, Crash, MaybeTornTable, LunDone
  <2>. QED
    BY <1>0, <2>1 DEF SamePart, Gpts
<1>. QED
  BY <1>1, <1>2, <1>3, <1>4, <1>5
  DEF Next, PrepareStep, CallerStep, NextLun, Return, StageAlreadySet,
      RefuseStage, EnterStage, SetBootLun, KeepChain, Call, StartWrite,
      FinishWrite, NextPackage, disk

\* It appends that write to the cache.
LEMMA OneWrite ==
    ASSUME TypeOK, Next, primary' # primary \/ secondary' # secondary
    PROVE  \E w \in Writes :
              /\ StepWrites = <<w>>
              /\ Whole' = OnMedium(Whole, w)
              /\ w.lun = lun
              /\ w.part = "table" => /\ pc = "chain_table"
                                     /\ w.which = "secondary"
              /\ w.gpt = (Whole')[w.which][w.lun]
<1>0. /\ TypeOK' /\ lun \in Luns /\ Whole \in Disks /\ (Whole') \in Disks
      /\ primary' \in [Luns -> Gpts] /\ secondary' \in [Luns -> Gpts]
  BY TypeStep DEF TypeOK, Whole, Disks
<1>1. /\ Whole["primary"] = primary /\ Whole["secondary"] = secondary
      /\ (Whole')["primary"] = primary' /\ (Whole')["secondary"] = secondary'
  BY DEF Whole
<1>2. ASSUME NEW w \in Writes, w.lun = lun,
             Written(Whole[w.which][lun], w) = (Whole')[w.which][lun],
             \A x \in {"primary", "secondary"} \ {w.which} :
                (Whole')[x] = Whole[x]
      PROVE  Whole' = OnMedium(Whole, w)
  <2>1. OnMedium(Whole, w) \in Disks /\ w.which \in {"primary", "secondary"}
    BY <1>0, <1>2, OnMediumIs DEF Writes
  <2>2. \A x \in {"primary", "secondary"}, l \in Luns :
           OnMedium(Whole, w)[x][l] = (Whole')[x][l]
    <3> TAKE x \in {"primary", "secondary"}, l \in Luns
    <3>1. OnMedium(Whole, w)[x][l] =
             IF x = w.which /\ l = w.lun THEN Written(Whole[x][l], w)
                                         ELSE Whole[x][l]
      BY <1>0, OnMediumIs
    <3>2. l # lun => (Whole')[x][l] = Whole[x][l]
      BY <1>1, WritingStep
    <3>. QED
      BY <1>2, <3>1, <3>2
  <2>3. \A x \in {"primary", "secondary"} : OnMedium(Whole, w)[x] = (Whole')[x]
    <3> TAKE x \in {"primary", "secondary"}
    <3>1. OnMedium(Whole, w)[x] \in [Luns -> Gpts] /\ (Whole')[x] \in [Luns -> Gpts]
      BY <1>0, <2>1 DEF Disks
    <3>. QED
      BY <2>2, <3>1
  <2>. QED
    BY <1>0, <2>1, <2>3 DEF Disks
<1>3. CASE pc = "set_primary"
  <2> DEFINE w == Write("primary", "header", primary'[lun])
  <2>1. /\ w \in Writes /\ w.lun = lun /\ w.which = "primary" /\ w.part = "header"
        /\ w.gpt = primary'[lun]
    BY <1>0 DEF Write, Writes
  <2>2. secondary' = secondary /\ primary'[lun].table = primary[lun].table
    BY <1>3, WritingStep
  <2>3. primary'[lun] # primary[lun]
    <3>1. primary' # primary
      BY <2>2
    <3>. QED
      BY <1>0, <3>1, WritingStep DEF TypeOK
  <2>4. StepWrites = <<w>>
    BY <2>2, <2>3, StepWritesIs
  <2> HIDE DEF w
  <2>5. Written(primary[lun], w) = primary'[lun]
    BY <1>0, <2>1, <2>2 DEF Written, Gpts
  <2>6. Whole' = OnMedium(Whole, w)
    BY <1>1, <1>2, <2>1, <2>2, <2>5
  <2>. QED
    BY <1>1, <2>1, <2>4, <2>6
<1>4. CASE pc # "set_primary"
  <2> DEFINE part == IF pc = "chain_table" THEN "table" ELSE "header"
             w == Write("secondary", part, secondary'[lun])
  <2>1. /\ w \in Writes /\ w.lun = lun /\ w.which = "secondary" /\ w.part = part
        /\ w.gpt = secondary'[lun]
    BY <1>0 DEF Write, Writes
  <2>2. /\ primary' = primary
        /\ part = "header" => secondary'[lun].table = secondary[lun].table
        /\ part = "table" => SamePart("header", secondary'[lun], secondary[lun])
    BY <1>4, WritingStep
  <2>3. secondary'[lun] # secondary[lun]
    <3>1. secondary' # secondary
      BY <2>2
    <3>. QED
      BY <1>0, <3>1, WritingStep DEF TypeOK
  <2>4. StepWrites = <<w>>
    BY <2>2, <2>3, StepWritesIs
  <2>5. part \in {"header", "table"} /\ (part = "table" => pc = "chain_table")
    OBVIOUS
  <2> HIDE DEF w, part
  <2>6. Written(secondary[lun], w) = secondary'[lun]
    <3>1. secondary[lun] \in Gpts /\ secondary'[lun] \in Gpts
      BY <1>0 DEF TypeOK
    <3>2. CASE part = "header"
      BY <2>1, <2>2, <3>1, <3>2 DEF Written, Gpts
    <3>3. CASE part = "table"
      BY <2>1, <2>2, <3>1, <3>3 DEF Written, SamePart, Gpts
    <3>. QED
      BY <2>5, <3>2, <3>3
  <2>7. Whole' = OnMedium(Whole, w)
    BY <1>1, <1>2, <2>1, <2>2, <2>6
  <2>. QED
    BY <1>1, <2>1, <2>4, <2>5, <2>7
<1>. QED
  BY <1>3, <1>4

\* Where the call goes in a step.
LEMMA StepShape ==
    ASSUME TypeOK, PrepareStep \/ CallerStep \/ WriteFallsShort \/ AccessFails
    PROVE  \/ /\ pc \in AccessPoints /\ pc' \in AccessPoints \cup {"next_lun"}
              /\ lun' = lun /\ todo' = todo /\ result' = result
           \/ /\ pc = "next_lun" /\ pc' = "get_state" /\ lun' \in todo
              /\ todo' = todo \ {lun'} /\ result' = result
              /\ UNCHANGED <<primary, secondary>>
           \/ /\ pc = "next_lun" /\ todo = {} /\ pc' = "idle"
              /\ UNCHANGED <<primary, secondary>>
           \/ /\ pc = "idle" /\ pc' = "next_lun" /\ todo' = Luns
              /\ result' = "none" /\ UNCHANGED <<primary, secondary>>
           \/ /\ pc = "idle" /\ pc' = "idle" /\ result' = result
              /\ UNCHANGED <<primary, secondary>>
<1>. USE DEF AccessPoints, LunDone, frame, disk, caller
<1>1. CASE NextLun
  BY <1>1 DEF NextLun
<1>2. CASE Return
  BY <1>2 DEF Return
<1>3. CASE StageAlreadySet \/ RefuseStage \/ EnterStage
  BY <1>3 DEF StageAlreadySet, RefuseStage, EnterStage
<1>4. CASE SetBootLun \/ KeepChain
  BY <1>4 DEF SetBootLun, KeepChain
<1>5. CASE WriteChainHeader \/ WriteChainTable \/ WriteFallsShort
  BY <1>5 DEF WriteChainHeader, WriteChainTable, WriteFallsShort, ChainWritten
<1>6. CASE SetPrimary \/ SetSecondary
  BY <1>6 DEF SetPrimary, SetSecondary
<1>7. CASE AccessFails
  BY <1>7 DEF AccessFails
<1>8. CASE CallerStep
  BY <1>8 DEF CallerStep, Call, StartWrite, FinishWrite, NextPackage, MayWrite
<1>. QED
  BY <1>1, <1>2, <1>3, <1>4, <1>5, <1>6, <1>7, <1>8 DEF PrepareStep

-----------------------------------------------------------------------------
(***************************************************************************)
(* Writes enter the cache at its end and leave it from any place.          *)
(***************************************************************************)
\* A step of the program keeps the cache coherent and leaves the LUNs alone
\* that it does not work on.
LEMMA CacheGrows ==
    ASSUME TypeOK, CacheTyped, CoherentInv, Next,
           dirty' = dirty \o StepWrites, medium' = medium
    PROVE  /\ dirty' \in Seq(Writes)
           /\ CoherentInv'
           /\ \A l \in Luns \ {lun} : Clean(l) => Clean(l)'
           /\ UNCHANGED <<primary, secondary>> => dirty' = dirty
<1> DEFINE n == Len(dirty)
<1>a. dirty \in Seq(Writes) /\ n \in Nat /\ medium \in Disks
  BY DEF CacheTyped
<1>b. /\ Whole \in Disks /\ (Whole') \in Disks
  BY TypeStep DEF TypeOK, Whole, Disks
<1>1. CASE UNCHANGED <<primary, secondary>>
  <2>1. dirty' = dirty /\ Whole' = Whole
    BY <1>a, <1>1, StepWritesIs, ConcatEmptySeq DEF Whole
  <2>2. CoherentInv'
    BY <2>1 DEF CoherentInv
  <2>3. \A l \in Luns : Clean(l) => Clean(l)'
    BY <2>1 DEF Clean
  <2>. QED
    BY <1>a, <2>1, <2>2, <2>3
<1>2. CASE primary' # primary \/ secondary' # secondary
  <2>1. PICK w \in Writes : /\ StepWrites = <<w>>
                            /\ Whole' = OnMedium(Whole, w)
                            /\ w.lun = lun
                            /\ w.gpt = (Whole')[w.which][w.lun]
    BY <1>2, OneWrite
  <2>2. /\ dirty' \in Seq(Writes) /\ Len(dirty') = n + 1
        /\ \A i \in 1 .. n : dirty'[i] = dirty[i]
        /\ dirty'[n + 1] = w
    BY <1>a, <2>1
  <2>3. \A i : /\ i \in 1 .. n + 1 <=> i \in 1 .. n \/ i = n + 1
               /\ i \in 1 .. n => n + 1 \in i + 1 .. n + 1
               /\ \A j : i \in 1 .. n /\ j \in i + 1 .. n =>
                            j \in i + 1 .. n + 1 /\ j \in 1 .. n
    BY <1>a
  <2>4. ASSUME NEW i \in 1 .. n + 1,
               \A j \in i + 1 .. n + 1 : ~OfBlock(dirty'[j], dirty'[i])
        PROVE  SamePart(dirty'[i].part, dirty'[i].gpt,
                        (Whole')[dirty'[i].which][dirty'[i].lun])
    <3>1. CASE i = n + 1
      BY <2>1, <2>2, <3>1 DEF SamePart
    <3>2. CASE i \in 1 .. n
      <4>1. dirty[i] \in Writes /\ dirty'[i] = dirty[i]
        BY <1>a, <2>2, <3>2
      <4>2. ~OfBlock(w, dirty[i])
        BY <2>2, <2>3, <2>4, <3>2, <4>1
      <4>3. \A j \in i + 1 .. n : ~OfBlock(dirty[j], dirty[i])
        BY <2>2, <2>3, <2>4, <3>2, <4>1
      <4>4. SamePart(dirty[i].part, dirty[i].gpt,
                     Whole[dirty[i].which][dirty[i].lun])
        BY <3>2, <4>3 DEF CoherentInv
      <4>5. PICK b \in Block : /\ b.lun = dirty[i].lun
                               /\ b.which = dirty[i].which
                               /\ b.part = dirty[i].part
        BY <4>1, WriteBlock
      <4>6. SamePart(b.part, (Whole')[b.which][b.lun], Whole[b.which][b.lun])
        <5>1. ~OfBlock(w, b)
          BY <4>2, <4>5 DEF OfBlock
        <5>2. SamePart(b.part, OnMedium(Whole, w)[b.which][b.lun],
                       Whole[b.which][b.lun])
          BY <1>b, <5>1, OtherBlocks
        <5>. QED
          BY <2>1, <5>2
      <4>. QED
        BY <4>1, <4>4, <4>5, <4>6 DEF SamePart
    <3>. QED
      BY <2>3, <3>1, <3>2
  <2>5. ASSUME NEW b \in Block, \A i \in 1 .. n + 1 : ~OfBlock(dirty'[i], b)
        PROVE  SamePart(b.part, medium[b.which][b.lun], (Whole')[b.which][b.lun])
    <3>1. ~OfBlock(w, b) /\ \A i \in 1 .. n : ~OfBlock(dirty[i], b)
      BY <2>2, <2>3, <2>5
    <3>2. SamePart(b.part, medium[b.which][b.lun], Whole[b.which][b.lun])
      BY <3>1 DEF CoherentInv
    <3>3. SamePart(b.part, OnMedium(Whole, w)[b.which][b.lun],
                   Whole[b.which][b.lun])
      BY <1>b, <3>1, OtherBlocks
    <3>. QED
      BY <2>1, <3>2, <3>3 DEF SamePart
  <2>6. CoherentInv'
    BY <2>2, <2>4, <2>5 DEF CoherentInv
  <2>7. \A l \in Luns \ {lun} : Clean(l) => Clean(l)'
    BY <2>1, <2>2, <2>3 DEF Clean
  <2>. QED
    BY <1>2, <2>2, <2>6, <2>7
<1>. QED
  BY <1>1, <1>2

\* A sequence without its element number i.
LEMMA Removed ==
    ASSUME NEW S, NEW s \in Seq(S), NEW i \in 1 .. Len(s)
    PROVE  /\ RemoveAt(s, i) \in Seq(S)
           /\ Len(RemoveAt(s, i)) = Len(s) - 1
           /\ \A j \in 1 .. i - 1 : RemoveAt(s, i)[j] = s[j]
           /\ \A j \in i .. Len(s) - 1 : RemoveAt(s, i)[j] = s[j + 1]
<1>1. /\ SubSeq(s, 1, i-1) \in Seq(S) /\ Len(SubSeq(s, 1, i-1)) = i - 1
      /\ \A j \in 1 .. i - 1 : SubSeq(s, 1, i-1)[j] = s[j]
  <2>1. \A j \in 1 .. i - 1 : s[j] \in S
    OBVIOUS
  <2>. QED
    BY <2>1, SubSeqProperties
<1>2. /\ SubSeq(s, i+1, Len(s)) \in Seq(S)
      /\ Len(SubSeq(s, i+1, Len(s))) = Len(s) - i
      /\ \A j \in 1 .. Len(s) - i : SubSeq(s, i+1, Len(s))[j] = s[i + j]
  <2>1. \A j \in i + 1 .. Len(s) : s[j] \in S
    OBVIOUS
  <2>. QED
    BY <2>1, SubSeqProperties
<1> DEFINE a == SubSeq(s, 1, i-1)
           b == SubSeq(s, i+1, Len(s))
<1> HIDE DEF a, b
<1>3. /\ a \o b \in Seq(S) /\ Len(a \o b) = Len(a) + Len(b)
      /\ \A j \in 1 .. Len(a) + Len(b) :
            (a \o b)[j] = IF j <= Len(a) THEN a[j] ELSE b[j - Len(a)]
  BY <1>1, <1>2, ConcatProperties DEF a, b
<1>4. RemoveAt(s, i) = a \o b
  BY DEF RemoveAt, a, b
<1>5. /\ Len(a) = i - 1 /\ \A j \in 1 .. i - 1 : a[j] = s[j]
      /\ Len(b) = Len(s) - i /\ \A j \in 1 .. Len(s) - i : b[j] = s[i + j]
  BY <1>1, <1>2 DEF a, b
<1>6. i \in Nat /\ Len(s) \in Nat /\ 1 <= i /\ i <= Len(s)
  OBVIOUS
<1>7. ASSUME NEW j \in 1 .. i - 1 PROVE (a \o b)[j] = s[j]
  BY <1>3, <1>5, <1>6
<1>8. ASSUME NEW j \in i .. Len(s) - 1 PROVE (a \o b)[j] = s[j + 1]
  <2>1. /\ j - (i - 1) \in 1 .. Len(s) - i /\ i + (j - (i - 1)) = j + 1
        /\ j \in 1 .. Len(a) + Len(b) /\ ~(j <= Len(a))
    BY <1>5, <1>6
  <2>2. (a \o b)[j] = b[j - (i - 1)]
    BY <1>3, <1>5, <2>1
  <2>3. b[j - (i - 1)] = s[i + (j - (i - 1))]
    BY <1>5, <2>1
  <2>. QED
    BY <2>1, <2>2, <2>3
<1>9. Len(a) + Len(b) = Len(s) - 1
  BY <1>5, <1>6
<1>. QED
  BY <1>3, <1>4, <1>7, <1>8, <1>9

\* The write that goes out is the oldest of its block.
LEMMA OldestOfBlock ==
    ASSUME CacheTyped, NEW i \in 1 .. Len(dirty), Next2Go(i)
    PROVE  \A j \in 1 .. i - 1 : ~OfBlock(dirty[j], dirty[i])
  BY DEF Next2Go, OfBlock, CacheTyped

\* It crosses on a LUN, if anywhere.
LEMMA CrossingTypes ==
    ASSUME CacheTyped, NEW i \in 1 .. Len(dirty) PROVE Crossing(i) \subseteq Luns
<1>1. \A j \in 1 .. i - 1 : dirty[j] \in Writes
  BY DEF CacheTyped
<1>. QED
  BY <1>1 DEF Crossing, Writes

\* A write that reaches the medium is one that the cache no longer needs.
LEMMA WritebackKeeps ==
    ASSUME TypeOK, CacheTyped, CoherentInv, Writeback
    PROVE  /\ CacheTyped' /\ CoherentInv'
           /\ \A l \in Luns : Clean(l) => Clean(l)'
<1> DEFINE n == Len(dirty)
<1>a. dirty \in Seq(Writes) /\ n \in Nat /\ medium \in Disks /\ DOMAIN dirty = 1 .. n
  BY DEF CacheTyped
<1>1. PICK i \in 1 .. n : /\ Next2Go(i)
                          /\ medium' = OnMedium(medium, dirty[i])
                          /\ dirty' = RemoveAt(dirty, i)
                          /\ crossed' = crossed \cup Crossing(i)
  BY <1>a DEF Writeback
<1>2. /\ dirty[i] \in Writes /\ i \in Nat
      /\ \A j \in 1 .. i - 1 : ~OfBlock(dirty[j], dirty[i])
  BY <1>a, <1>1, OldestOfBlock
<1>3. /\ dirty' \in Seq(Writes)
      /\ Len(dirty') = n - 1
      /\ \A j \in 1 .. i - 1 : dirty'[j] = dirty[j]
      /\ \A j \in i .. n - 1 : dirty'[j] = dirty[j + 1]
  BY <1>a, <1>1, Removed
<1>4. /\ Whole' = Whole /\ syncing' = syncing /\ unsynced' = unsynced
      /\ crossed' = crossed \cup Crossing(i)
  BY <1>1 DEF Writeback, vars, Whole
<1>5. CacheTyped'
  BY <1>a, <1>1, <1>2, <1>3, <1>4, OnMediumIs, CrossingTypes DEF CacheTyped
<1>6. \* where an element of the new cache comes from
      ASSUME NEW j \in 1 .. n - 1
      PROVE  \E k \in 1 .. n : /\ k = IF j < i THEN j ELSE j + 1
                               /\ dirty'[j] = dirty[k] /\ dirty[k] \in Writes
  <2>1. CASE j < i
    <3>1. j \in 1 .. i - 1 /\ j \in 1 .. n
      BY <1>a, <1>1, <2>1
    <3>. QED
      BY <1>a, <1>3, <2>1, <3>1
  <2>2. CASE ~(j < i)
    <3>1. j \in i .. n - 1 /\ j + 1 \in 1 .. n
      BY <1>a, <1>1, <2>2
    <3>. QED
      BY <1>a, <1>3, <2>2, <3>1
  <2>. QED
    BY <2>1, <2>2
<1>7. \* and where one of the old cache goes
      ASSUME NEW k \in 1 .. n, k # i
      PROVE  \E j \in 1 .. n - 1 : /\ j = IF k < i THEN k ELSE k - 1
                                   /\ dirty'[j] = dirty[k]
  <2>1. CASE k < i
    <3>1. k \in 1 .. i - 1 /\ k \in 1 .. n - 1
      BY <1>a, <1>1, <2>1
    <3>. QED
      BY <1>3, <2>1, <3>1
  <2>2. CASE k > i
    <3>1. k - 1 \in i .. n - 1 /\ k - 1 \in 1 .. n - 1 /\ (k - 1) + 1 = k
          /\ ~(k < i)
      BY <1>a, <1>1, <2>2
    <3>2. dirty'[k - 1] = dirty[(k - 1) + 1]
      BY <1>3, <3>1
    <3>. QED
      BY <3>1, <3>2
  <2>. QED
    BY <1>2, <1>7, <2>1, <2>2
<1>8. ASSUME NEW j \in 1 .. n - 1,
             \A m \in j + 1 .. n - 1 : ~OfBlock(dirty'[m], dirty'[j])
      PROVE  SamePart(dirty'[j].part, dirty'[j].gpt,
                      Whole[dirty'[j].which][dirty'[j].lun])
  <2>1. PICK k \in 1 .. n : /\ k = IF j < i THEN j ELSE j + 1
                            /\ dirty'[j] = dirty[k] /\ dirty[k] \in Writes
    BY <1>6
  <2>2. ASSUME NEW m \in k + 1 .. n PROVE ~OfBlock(dirty[m], dirty[k])
    <3>1. CASE m = i
      <4>1. k \in 1 .. i - 1
        BY <1>2, <2>1, <3>1
      <4>2. ~OfBlock(dirty[k], dirty[i])
        BY <1>2, <4>1
      <4>. QED
        BY <3>1, <4>2 DEF OfBlock
    <3>2. CASE m # i
      <4>1. m \in 1 .. n
        BY <1>a, <2>1
      <4>2. PICK x \in 1 .. n - 1 : /\ x = IF m < i THEN m ELSE m - 1
                                    /\ dirty'[x] = dirty[m]
        BY <1>7, <3>2, <4>1
      <4>3. x \in j + 1 .. n - 1
        BY <1>a, <1>2, <2>1, <3>2, <4>2
      <4>. QED
        BY <1>8, <2>1, <4>2, <4>3
    <3>. QED
      BY <3>1, <3>2
  <2>. QED
    BY <2>1, <2>2 DEF CoherentInv
<1>9. ASSUME NEW b \in Block, \A j \in 1 .. n - 1 : ~OfBlock(dirty'[j], b)
      PROVE  SamePart(b.part, (medium')[b.which][b.lun], Whole[b.which][b.lun])
  <2>1. \A k \in 1 .. n : k # i => ~OfBlock(dirty[k], b)
    BY <1>7, <1>9
  <2>2. CASE ~OfBlock(dirty[i], b)
    <3>1. SamePart(b.part, medium[b.which][b.lun], Whole[b.which][b.lun])
      BY <2>1, <2>2 DEF CoherentInv
    <3>2. SamePart(b.part, OnMedium(medium, dirty[i])[b.which][b.lun],
                   medium[b.which][b.lun])
      BY <1>a, <1>2, <2>2, OtherBlocks
    <3>. QED
      BY <1>1, <3>1, <3>2 DEF SamePart
  <2>3. CASE OfBlock(dirty[i], b)
    <3>1. \A k \in i + 1 .. n : ~OfBlock(dirty[k], dirty[i])
      <4> TAKE k \in i + 1 .. n
      <4>1. k \in 1 .. n /\ k # i
        BY <1>a, <1>2
      <4>. QED
        BY <2>1, <2>3, <4>1 DEF OfBlock
    <3>2. SamePart(dirty[i].part, dirty[i].gpt,
                   Whole[dirty[i].which][dirty[i].lun])
      BY <3>1 DEF CoherentInv
    <3>3. SamePart(b.part, OnMedium(medium, dirty[i])[b.which][b.lun],
                   dirty[i].gpt)
      BY <1>a, <1>2, <2>3, OtherBlocks
    <3>4. dirty[i].part = b.part /\ dirty[i].which = b.which /\ dirty[i].lun = b.lun
      BY <2>3 DEF OfBlock
    <3>. QED
      BY <1>1, <3>2, <3>3, <3>4 DEF SamePart
  <2>. QED
    BY <2>2, <2>3
<1>10. CoherentInv'
  BY <1>3, <1>4, <1>8, <1>9 DEF CoherentInv
<1>11. \A l \in Luns : Clean(l) => Clean(l)'
  BY <1>3, <1>6 DEF Clean
<1>. QED
  BY <1>5, <1>10, <1>11

-----------------------------------------------------------------------------
(***************************************************************************)
(* The invariant of the cache, in whatever order blocks reach the medium.  *)
(***************************************************************************)
\* A write that was torn on its way to the medium.
Tears(w) == [w EXCEPT !.gpt.table = Garbage]

LEMMA TearsIs ==
    ASSUME NEW w \in Writes
    PROVE  /\ Tears(w) \in Writes /\ Tears(w).lun = w.lun
           /\ Tears(w).which = w.which /\ Tears(w).part = w.part
           /\ Tears(w).gpt = [w.gpt EXCEPT !.table = Garbage]
<1>1. w.gpt \in Gpts /\ [w.gpt EXCEPT !.table = Garbage] \in Gpts
  BY DEF Writes, Gpts, Tables
<1>. QED
  BY <1>1 DEF Tears, Writes

\* What is left after a loss of power, with a torn array or without.
LEMMA AfterLoss ==
    ASSUME TypeOK, CacheTyped, PowerLoss
    PROVE  /\ medium' \in Disks /\ Whole' = medium' /\ TypeOK'
           /\ crossed' \subseteq Luns
           /\ \/ medium' = medium
              \/ \E i \in 1 .. Len(dirty) :
                    /\ Next2Go(i) /\ dirty[i] \in Writes
                    /\ dirty[i].part = "table"
                    /\ medium' = OnMedium(medium, Tears(dirty[i]))
<1>0. dirty \in Seq(Writes) /\ DOMAIN dirty = 1 .. Len(dirty) /\ medium \in Disks
  BY DEF CacheTyped
<1>1. ASSUME medium' # medium
      PROVE  \E i \in 1 .. Len(dirty) :
                /\ Next2Go(i) /\ dirty[i] \in Writes
                /\ dirty[i].part = "table"
                /\ medium' = OnMedium(medium, Tears(dirty[i]))
  <2>1. PICK i \in DOMAIN dirty :
            /\ Next2Go(i) /\ dirty[i].part = "table"
            /\ medium' = OnMedium(medium, [dirty[i] EXCEPT !.gpt.table = Garbage])
    BY <1>1 DEF PowerLoss, MediumAfterLoss
  <2>2. medium' = OnMedium(medium, Tears(dirty[i]))
    BY <2>1 DEF Tears
  <2>. QED
    BY <1>0, <2>1, <2>2
<1>2. medium' \in Disks
  <2>1. CASE medium' # medium
    <3>1. PICK i \in 1 .. Len(dirty) :
              /\ dirty[i] \in Writes
              /\ medium' = OnMedium(medium, Tears(dirty[i]))
      BY <1>1, <2>1
    <3>2. Tears(dirty[i]) \in Writes
      BY <3>1, TearsIs
    <3>. QED
      BY <1>0, <3>1, <3>2, OnMediumIs
  <2>. QED
    BY <1>0, <2>1
<1>3. Whole' = medium'
  BY <1>2 DEF PowerLoss, Whole, Disks
<1>4. primary' \in [Luns -> Gpts] /\ secondary' \in [Luns -> Gpts]
  BY <1>2 DEF PowerLoss, Disks
<1>5. faults' \in 0 .. MaxFaults
  BY FaultsAssumption DEF PowerLoss, TypeOK
<1>6. TypeOK'
  BY <1>4, <1>5 DEF PowerLoss, TypeOK
<1>7. crossed' \subseteq Luns
  BY <1>0, CrossingTypes DEF PowerLoss, MediumAfterLoss, CacheTyped
<1>. QED
  BY <1>1, <1>2, <1>3, <1>6, <1>7

\* A call leaves no write behind on a LUN that it is through with.
LEMMA CachedStepKeeps ==
    ASSUME CacheInv, CachedStep PROVE CacheInv'
<1>. USE DEF CacheInv
<1>0. /\ PrepareStep \/ CallerStep \/ WriteFallsShort \/ AccessFails
      /\ Next /\ ~syncing /\ medium' = medium /\ unsynced' = unsynced
      /\ crossed' = crossed /\ dirty' = dirty \o StepWrites /\ syncing' = Exits
  BY DEF CachedStep, Next
<1>1. TypeOK'
  BY <1>0, TypeStep
<1>2. /\ dirty' \in Seq(Writes) /\ CoherentInv'
      /\ \A l \in Luns \ {lun} : Clean(l) => Clean(l)'
      /\ UNCHANGED <<primary, secondary>> => dirty' = dirty
  BY <1>0, CacheGrows
<1>3. CacheTyped'
  BY <1>0, <1>2 DEF CacheTyped, Exits
<1>4. UNCHANGED <<primary, secondary>> => \A l \in Luns : Clean(l) => Clean(l)'
  BY <1>2 DEF Clean
<1>5. DurableInv'
  <2>. USE DEF DurableInv, Pending
  <2>1. CASE /\ pc \in AccessPoints /\ pc' \in AccessPoints \cup {"next_lun"}
             /\ lun' = lun /\ todo' = todo /\ result' = result
    <3>1. pc # "idle" /\ pc # "next_lun" /\ pc' # "idle"
      BY <2>1 DEF AccessPoints
    <3>2. pc' = "next_lun" <=> syncing'
      BY <1>0, <2>1 DEF Exits, AccessPoints
    <3>3. \A l \in Luns \ (todo \cup unsynced \cup {lun}) : Clean(l) /\ Clean(l)'
      BY <1>2, <3>1
    <3>. QED
      BY <1>0, <2>1, <3>1, <3>2, <3>3
  <2>2. CASE pc \notin AccessPoints
    <3>1. ~syncing'
      BY <1>0, <2>2 DEF Exits
    <3>2. CASE /\ pc = "next_lun" /\ pc' = "get_state" /\ lun' \in todo
               /\ todo' = todo \ {lun'} /\ result' = result
               /\ UNCHANGED <<primary, secondary>>
      BY <1>0, <1>4, <3>1, <3>2
    <3>3. CASE /\ pc = "next_lun" /\ todo = {} /\ pc' = "idle"
               /\ UNCHANGED <<primary, secondary>>
      BY <1>0, <1>4, <3>1, <3>3
    <3>4. CASE /\ pc = "idle" /\ pc' = "next_lun" /\ todo' = Luns
               /\ result' = "none" /\ UNCHANGED <<primary, secondary>>
      BY <3>1, <3>4
    <3>5. CASE /\ pc = "idle" /\ pc' = "idle" /\ result' = result
               /\ UNCHANGED <<primary, secondary>>
      BY <1>0, <1>4, <3>1, <3>5
    <3>. QED
      BY <1>0, <2>2, <3>2, <3>3, <3>4, <3>5, StepShape
  <2>. QED
    BY <1>0, <2>1, <2>2, StepShape DEF AccessPoints
<1>. QED
  BY <1>1, <1>2, <1>3, <1>5

\* Nor does anything else put one there.
LEMMA CacheInvStep ==
    ASSUME CacheInv, [CachedNext]_cachedVars PROVE CacheInv'
<1>. USE DEF CacheInv
<1>1. CASE CachedStep
  BY <1>1, CachedStepKeeps
<1>2. CASE FsyncReturns
  <2>1. Clean(lun)
    BY <1>2 DEF FsyncReturns, Clean, CacheTyped
  <2>2. UNCHANGED <<vars, medium, dirty, unsynced, crossed>> /\ syncing /\ syncing' = FALSE
    BY <1>2 DEF FsyncReturns
  <2>. USE DEF vars
  <2>3. TypeOK' /\ CacheTyped' /\ CoherentInv'
    BY <2>2 DEF TypeOK, CacheTyped, CoherentInv, Whole
  <2>4. DurableInv'
    BY <2>1, <2>2 DEF DurableInv, Pending, Clean
  <2>. QED
    BY <2>3, <2>4
<1>3. CASE FsyncGivesUp
  <2>0. /\ UNCHANGED <<disk, caller, frame, pc, medium, dirty, crossed>>
        /\ syncing /\ syncing' = FALSE /\ unsynced' = unsynced \cup {lun}
        /\ faults < MaxFaults /\ faults' = faults + 1
    BY <1>3 DEF FsyncGivesUp
  <2>. USE DEF disk, caller, frame
  <2>1. TypeOK'
    <3>1. faults' \in 0 .. MaxFaults
      BY <2>0, FaultsAssumption DEF TypeOK
    <3>. QED
      BY <2>0, <3>1 DEF TypeOK
  <2>2. CacheTyped' /\ CoherentInv'
    BY <2>0 DEF TypeOK, CacheTyped, CoherentInv, Whole
  <2>3. DurableInv'
    BY <2>0 DEF DurableInv, Pending, Clean
  <2>. QED
    BY <2>1, <2>2, <2>3
<1>4. CASE Writeback
  <2>1. UNCHANGED <<vars, syncing, unsynced>>
    BY <1>4 DEF Writeback
  <2>2. CacheTyped' /\ CoherentInv' /\ \A l \in Luns : Clean(l) => Clean(l)'
    BY <1>4, WritebackKeeps
  <2>3. TypeOK'
    BY <2>1 DEF vars, TypeOK
  <2>4. DurableInv'
    BY <2>1, <2>2 DEF vars, DurableInv, Pending
  <2>. QED
    BY <2>2, <2>3, <2>4
<1>5. CASE Killed
  <2>0. /\ Crash /\ Next /\ dirty' = dirty \o StepWrites /\ medium' = medium
        /\ syncing' = FALSE /\ unsynced' = unsynced /\ crossed' = crossed
        /\ pc' = "idle" /\ result' = "none"
    BY <1>5 DEF Killed, Next, Crash
  <2>1. TypeOK'
    BY <2>0, TypeStep
  <2>2. dirty' \in Seq(Writes) /\ CoherentInv'
    BY <2>0, CacheGrows
  <2>3. CacheTyped' /\ DurableInv'
    BY <2>0, <2>2 DEF CacheTyped, DurableInv
  <2>. QED
    BY <2>1, <2>2, <2>3
<1>6. CASE PowerLoss
  <2>0. /\ dirty' = << >> /\ syncing' = FALSE /\ unsynced' = unsynced
        /\ pc' = "idle" /\ result' = "none" /\ Len(dirty') = 0
    BY <1>6 DEF PowerLoss
  <2>1. medium' \in Disks /\ Whole' = medium' /\ TypeOK' /\ crossed' \subseteq Luns
    BY <1>6, AfterLoss
  <2>2. CacheTyped'
    <3>1. << >> \in Seq(Writes)
      OBVIOUS
    <3>. QED
      BY <2>0, <2>1, <3>1 DEF CacheTyped
  <2>4. DurableInv'
    BY <2>0 DEF DurableInv
  <2>3. CoherentInv'
    BY <2>0, <2>1 DEF CoherentInv, SamePart
  <2>. QED
    BY <2>1, <2>2, <2>3, <2>4
<1>7. CASE UNCHANGED cachedVars
  BY <1>7
  DEF cachedVars, vars, TypeOK, CacheTyped, CoherentInv, Whole, DurableInv,
      Pending, Clean
<1>. QED
  BY <1>1, <1>2, <1>3, <1>4, <1>5, <1>6, <1>7 DEF CachedNext

THEOREM CacheInvHolds == CachedSpec => []CacheInv
<1>1. CachedInit => CacheInv
  <2>. SUFFICES ASSUME CachedInit PROVE CacheInv
    OBVIOUS
  <2>0. Init /\ medium = Whole /\ dirty = << >> /\ syncing = FALSE /\ unsynced = {}
        /\ crossed = {}
        /\ Len(dirty) = 0
    BY DEF CachedInit
  <2>1. TypeOK
    <3>1. primary \in [Luns -> Gpts] /\ secondary \in [Luns -> Gpts]
      BY <2>0, FirstTypes DEF Init
    <3>2. reached \in 0 .. 3 /\ faults \in 0 .. MaxFaults
      BY <2>0, FaultsAssumption DEF Init
    <3>. QED
      BY <2>0, <3>1, <3>2
      DEF Init, TypeOK, Stages, AccessPoints, Copies, Contents
  <2>2. Whole \in Disks
    BY <2>1 DEF TypeOK, Whole, Disks
  <2>3. CacheTyped
    <3>1. << >> \in Seq(Writes)
      OBVIOUS
    <3>. QED
      BY <2>0, <2>2, <3>1 DEF CacheTyped
  <2>5. CoherentInv
    BY <2>0, <2>2 DEF CoherentInv, SamePart
  <2>4. DurableInv
    BY <2>0 DEF Init, DurableInv
  <2>. QED
    BY <2>1, <2>3, <2>4, <2>5 DEF CacheInv
<1>. QED
  BY <1>1, CacheInvStep, PTL DEF CachedSpec

\* Every variable keeps its type, however the cache is written back.
THEOREM CachedTypes == CachedSpec => []CachedTypeOK
<1>1. CacheInv => CachedTypeOK
  <2>. SUFFICES ASSUME CacheInv PROVE CachedTypeOK
    OBVIOUS
  <2>1. medium \in [{"primary", "secondary"} -> [Luns -> Gpts]]
    BY DEF CacheInv, CacheTyped, Disks
  <2>. QED
    BY <2>1 DEF CacheInv, CacheTyped, CachedTypeOK
<1>. QED
  BY <1>1, CacheInvHolds, PTL

\* What a call that returned 0 prepared is on the medium of every LUN whose
\* fsync did not fail, in whatever order blocks reach it: whatever calls that
\* were killed had left in the cache, the fsync at the exit of
\* prepare_partitions takes it there.
THEOREM ReadyDurable == CachedSpec => []ReadyIsDurable
<1>1. CacheInv => ReadyIsDurable
  <2>. SUFFICES ASSUME CacheInv, result = "ok", NEW l \in Luns \ unsynced
                PROVE  /\ \A i \in DOMAIN dirty : dirty[i].lun # l
                       /\ medium.primary[l] = primary[l]
                       /\ medium.secondary[l] = secondary[l]
    BY DEF ReadyIsDurable
  <2>1. Clean(l)
    BY DEF CacheInv, DurableInv
  <2>2. \A i \in DOMAIN dirty : dirty[i].lun # l
    BY <2>1 DEF Clean, CacheInv, CacheTyped
  <2>. QED
    BY <2>1, <2>2, CleanMeansSame DEF CacheInv
<1>. QED
  BY <1>1, CacheInvHolds, PTL

=============================================================================
