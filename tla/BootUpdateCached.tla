-------------------------- MODULE BootUpdateCached --------------------------
(***************************************************************************)
(* BootUpdate on a block device with a page cache.  blk_rw is a write(2)   *)
(* to a device that prepare_partitions opened without O_SYNC: the block is *)
(* in the cache when it returns and on the medium only when the kernel     *)
(* writes it back, or when the fsync at the exit of prepare_partitions     *)
(* does.  A program that dies leaves the cache behind; a power loss leaves *)
(* the medium.                                                             *)
(***************************************************************************)
EXTENDS BootUpdate, Sequences, SequencesExt

CONSTANT FsyncFails     \* the device may refuse to write its cache back

ASSUME FsyncAssumption == FsyncFails \in BOOLEAN

\* primary and secondary are what a read returns: the cache over the medium.
VARIABLES medium,       \* the two GPTs of each LUN as they are on the medium
          dirty,        \* the block writes still to reach it, oldest first
          syncing,      \* prepare_partitions is in its fsync
          unsynced,     \* LUNs an fsync of which has failed
          crossed       \* LUNs on which a write to one GPT reached the
                        \* medium ahead of an earlier one to the other

cachedVars == <<vars, medium, dirty, syncing, unsynced, crossed>>

Whole == [primary |-> primary, secondary |-> secondary]

\* A block write: which block of which LUN, and the GPT it was taken from.
Write(which, part, gpt) ==
    [lun |-> lun, which |-> which, part |-> part, gpt |-> gpt]

Writes == [lun : Luns, which : {"primary", "secondary"},
           part : {"header", "table"}, gpt : Gpts]

CachedTypeOK ==
    /\ TypeOK
    /\ medium \in [{"primary", "secondary"} -> [Luns -> Gpts]]
    /\ dirty  \in Seq(Writes)
    /\ syncing \in BOOLEAN
    /\ unsynced \subseteq Luns
    /\ crossed \subseteq Luns

\* A GPT after a block of it was written.
Written(gpt, w) ==
    IF w.part = "header" THEN [w.gpt EXCEPT !.table = gpt.table]
                         ELSE [gpt EXCEPT !.table = w.gpt.table]

OnMedium(m, w) == [m EXCEPT ![w.which][w.lun] = Written(@, w)]

CachedInit ==
    /\ Init
    /\ medium = Whole
    /\ dirty = <<>>
    /\ syncing = FALSE
    /\ unsynced = {}
    /\ crossed = {}
-----------------------------------------------------------------------------
\* The block writes of the current step.
StepWrites ==
    LET header == IF primary'[lun] = primary[lun] THEN <<>>
                  ELSE <<Write("primary", "header", primary'[lun])>>
        other  == IF secondary'[lun] = secondary[lun] THEN <<>>
                  ELSE <<Write("secondary",
                               IF pc = "chain_table" THEN "table" ELSE "header",
                               secondary'[lun])>>
    IN  header \o other

Exits_OnlyAfterWrites ==
    pc \in AccessPoints \ {"get_state"} /\ pc' = "next_lun"

\* EXIT of prepare_partitions, which every path takes: fsync, then close.
Exits == pc \in AccessPoints /\ pc' = "next_lun"

CachedStep ==
    /\ ~syncing
    /\ PrepareStep \/ CallerStep \/ WriteFallsShort \/ AccessFails
    /\ dirty' = dirty \o StepWrites
    /\ syncing' = Exits
    /\ UNCHANGED <<medium, unsynced, crossed>>

\* fsync returns when no write of the device is left in the cache.
FsyncReturns ==
    /\ syncing
    /\ \A i \in DOMAIN dirty : dirty[i].lun # lun
    /\ syncing' = FALSE
    /\ UNCHANGED <<vars, medium, dirty, unsynced, crossed>>

\* fsync fails, and nothing looks at what it returned.
FsyncGivesUp ==
    /\ FsyncFails
    /\ syncing
    /\ faults < MaxFaults
    /\ faults' = faults + 1
    /\ syncing' = FALSE
    /\ unsynced' = unsynced \cup {lun}
    /\ UNCHANGED <<disk, caller, frame, pc, medium, dirty, crossed>>

\* Killed, the program does not wait for the fsync; its writes stay cached.
Killed ==
    /\ Crash
    /\ dirty' = dirty \o StepWrites
    /\ syncing' = FALSE
    /\ UNCHANGED <<medium, unsynced, crossed>>

\* The writes that the kernel may put on the medium next: of each block, the
\* oldest; a disk gets its blocks in no order.
Next2Go(i) ==
    \A j \in 1 .. i - 1 : \/ dirty[j].lun # dirty[i].lun
                          \/ dirty[j].which # dirty[i].which
                          \/ dirty[j].part # dirty[i].part

\* The LUN on which it overtakes an earlier write to the other GPT.
Crossing(i) ==
    {dirty[j].lun : j \in {k \in 1 .. i - 1 :
                              /\ dirty[k].lun = dirty[i].lun
                              /\ dirty[k].which # dirty[i].which}}

Writeback ==
    /\ \E i \in DOMAIN dirty :
          /\ Next2Go(i)
          /\ medium' = OnMedium(medium, dirty[i])
          /\ dirty' = RemoveAt(dirty, i)
          /\ crossed' = crossed \cup Crossing(i)
    /\ UNCHANGED <<vars, syncing, unsynced>>

\* Power goes; an array that was on its way to the medium may be torn.
MediumAfterLoss ==
    \/ UNCHANGED <<medium, crossed>>
    \/ \E i \in DOMAIN dirty :
          /\ Next2Go(i) /\ dirty[i].part = "table"
          /\ medium' = OnMedium(medium, [dirty[i] EXCEPT !.gpt.table = Garbage])
          /\ crossed' = crossed \cup Crossing(i)

PowerLoss ==
    /\ faults < MaxFaults
    /\ faults' = faults + 1
    /\ MediumAfterLoss
    /\ primary' = medium'.primary
    /\ secondary' = medium'.secondary
    /\ dirty' = <<>>
    /\ syncing' = FALSE
    /\ pc' = "idle"
    /\ todo' = {}
    /\ is_error' = FALSE
    /\ result' = "none"
    /\ UNCHANGED <<bootLun, content, stage, lun, reached, unsynced>>

CachedNext == \/ CachedStep \/ FsyncReturns \/ FsyncGivesUp
              \/ Writeback \/ Killed \/ PowerLoss

CachedSpec == CachedInit /\ [][CachedNext]_cachedVars
-----------------------------------------------------------------------------
\* What a call that returned 0 prepared is on the medium, whatever an earlier
\* call that was killed had left in the cache: every path of
\* prepare_partitions, "already set" included, goes through the fsync.  Only a
\* LUN an fsync of which failed is excepted: its result is not looked at.
ReadyIsDurable ==
    result = "ok" =>
        \A l \in Luns \ unsynced :
            /\ \A i \in DOMAIN dirty : dirty[i].lun # l
            /\ medium.primary[l] = primary[l]
            /\ medium.secondary[l] = secondary[l]

\* The table that the boot loader would find on the medium.
MediumTable(l) ==
    CASE Usable(medium.primary[l]) -> medium.primary[l].table
      [] ~Usable(medium.primary[l]) /\ Usable(medium.secondary[l])
                                   -> medium.secondary[l].table
      [] OTHER                     -> Garbage

\* If power went now, a valid table would be found on every LUN with backed-up
\* images, naming first a copy that is whole.  That takes only one order of
\* the blocks, between the two GPTs of a LUN, for which prepare_partitions has
\* no barrier: the header and the array of one GPT, and different LUNs, may
\* come in any.  Excepted are also a LUN whose fsync has failed, after which
\* prepare_partitions returns 0 all the same, and one that is cut off.
BootableAfterPowerLoss ==
    \A l \in Backed \ (unsynced \cup crossed) :
        LET copy == FirstCopy(MediumTable(l)) IN
        \/ copy \in Copies /\ content[l][copy] # "torn"
        \/ medium.secondary[l].table = Short /\ ~medium.primary[l].signed

\* The same, whatever the order: it does not hold.
BootableInAnyOrder ==
    \A l \in Backed : FirstCopy(MediumTable(l)) \in Copies
=============================================================================
