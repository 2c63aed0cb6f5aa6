--------------------------- MODULE GptDiskCached ---------------------------
(***************************************************************************)
(* GptDisk on a block device with a page cache.  gpt_disk_commit opens the *)
(* device without O_SYNC and closes it without fsync, so its writes reach  *)
(* the medium whenever the kernel writes them back: after it returned 0,   *)
(* or never, if power goes first.                                          *)
(***************************************************************************)
EXTENDS GptDisk, Sequences, SequencesExt

CONSTANT MaxCached    \* bound on the writes that wait in the cache

ASSUME CacheAssumption == MaxCached \in Nat

\* primary and secondary are what a read returns: the cache over the medium.
VARIABLES medium,       \* the two GPTs as they are on the medium
          cached,       \* the writes still to reach it, oldest first
          versions,     \* the arrays that the disk has had or was to have
          sound,        \* every commit began on an intact disk
          crossed       \* a write to one GPT reached the medium ahead of an
                        \* earlier one to the other

cachedVars == <<vars, medium, cached, versions, sound, crossed>>

Whole == [primary |-> primary, secondary |-> secondary]

CachedInit ==
    /\ Init
    /\ medium = Whole /\ cached = <<>>
    /\ versions = {primary.table} /\ sound = Intact
    /\ crossed = FALSE
-----------------------------------------------------------------------------
\* The writes of a step of the commit: a header block, or an array.
Part == IF pc \in {"set_hdr", "set_hdr_bak"} THEN "hdr" ELSE "table"

StepWrites ==
    LET by(which) == IF Whole'[which] = Whole[which] THEN <<>>
                     ELSE <<[which |-> which, part |-> Part,
                             value |-> Whole'[which][Part]]>>
    IN  by("primary") \o by("secondary")

OnMedium(m, w) == [m EXCEPT ![w.which][w.part] = w.value]

\* A call of GptDisk; a program that dies leaves its writes in the cache.
CachedStep ==
    /\ Next
    /\ Len(cached) + 2 <= MaxCached
    /\ cached' = cached \o StepWrites
    /\ versions' = versions \cup {begun'.new}
    /\ sound' = (sound /\ (pc = "held" /\ pc' = "set_hdr" => begun'.intact))
    /\ UNCHANGED <<medium, crossed>>

\* The writes that the kernel may put on the medium next: the oldest of each
\* header or array; a disk gets its blocks in no order.
NextToGo(i) == \A j \in 1 .. i - 1 : \/ cached[j].which # cached[i].which
                                     \/ cached[j].part # cached[i].part

\* Whether that write goes ahead of an earlier one to the other GPT.
Crossing(i) == \E j \in 1 .. i - 1 : cached[j].which # cached[i].which

Writeback ==
    /\ \E i \in DOMAIN cached : /\ NextToGo(i)
                                /\ medium' = OnMedium(medium, cached[i])
                                /\ cached' = RemoveAt(cached, i)
                                /\ crossed' = (crossed \/ Crossing(i))
    /\ UNCHANGED <<vars, versions, sound>>

\* Power goes; an array that was on its way to the medium may be torn.  The
\* disk is then what the medium has, and the client and its handle are gone.
MediumAfterLoss ==
    \/ UNCHANGED <<medium, crossed>>
    \/ \E i \in DOMAIN cached :
          /\ NextToGo(i) /\ cached[i].part = "table"
          /\ medium' = [medium EXCEPT ![cached[i].which].table =
                                        Mixed(@, cached[i].value, Torn)]
          /\ crossed' = (crossed \/ Crossing(i))

PowerLoss ==
    /\ faults < MaxFaults
    /\ faults' = faults + 1
    /\ MediumAfterLoss
    /\ primary' = medium'.primary /\ secondary' = medium'.secondary
    /\ cached' = <<>>
    /\ NoHandle
    /\ result' = "none"
    /\ begun' = [begun EXCEPT !.intact = FALSE]
    /\ UNCHANGED <<versions, sound>>

CachedNext == CachedStep \/ Writeback \/ PowerLoss

CachedSpec == CachedInit /\ [][CachedNext]_cachedVars
-----------------------------------------------------------------------------
\* The array that is found if power goes now.
FoundOn(m) == IF Usable(m.primary) THEN m.primary.table
              ELSE IF Usable(m.secondary) THEN m.secondary.table
              ELSE {Torn}

\* Power may go at any moment of a commit or after it: as long as every commit
\* began on an intact disk, the medium has one of the arrays that the disk has
\* had, whole, though nothing is synced.  Two things undo it: a write to one GPT
\* that reaches the medium ahead of an earlier one to the other, which nothing
\* in the code prevents, and a primary array that fell short unnoticed.
PowerLossIsAtomic ==
    sound /\ ~crossed => \/ FoundOn(medium) \in versions
                         \/ Short \in medium.primary.table

\* What a commit that returned 0 wrote outlives a loss of power.  It may not:
\* gpt_disk_commit does not sync.
CommittedIsDurable ==
    result = "ok" => /\ medium.primary.table = begun.new
                     /\ medium.secondary.table = begun.newBak
=============================================================================
