------------------------------ MODULE GptDisk ------------------------------
(***************************************************************************)
(* The gpt_disk functions of gpt-utils.cpp: a client allocates a handle,   *)
(* has both GPTs of a disk read into it (four reads), edits partition      *)
(* entries, has the CRCs computed and commits (four writes).  A read or a  *)
(* write may fail, the client may go on with a handle that a failed read   *)
(* left half new, and it may die between any two accesses.  The header is  *)
(* one block; the entries array spans several, so that a write of it may   *)
(* be torn, or stop short: blk_rw takes any transfer for a whole one.      *)
(* Clients call gpt_disk_update_crc before they commit, as its comment     *)
(* asks, so the CRC that a header has of itself is right, and left out.    *)
(* A definition X_Word is a plausible mistake in X that a property must    *)
(* catch; nothing uses it.                                                 *)
(***************************************************************************)
EXTENDS Naturals

CONSTANTS Edits,      \* the changes of partition entries that clients make
          MaxFaults   \* bound on crashes and failed accesses

ASSUME FaultsAssumption == MaxFaults \in Nat

\* What an entries array holds: the edits made since it was shipped, and a mark
\* if it was cut off by a failure or a crash (Torn), by a write that was taken
\* for whole (Short), or by such a read (Cut).  Its CRC is the array itself.
Torn   == "torn"
Short  == "short"
Cut    == "cut"
Marks  == {Torn, Short, Cut}
Tables == SUBSET (Edits \cup Marks)

\* A NULL array pointer, also what crc32 makes of it; and a NULL header.
NoArray  == {"no array"}
NoHeader == [signed |-> FALSE, tableCrc |-> {"no header"}]

ASSUME EditsAssumption == Edits \cap (Marks \cup {"no array", "no header"}) = {}

Arrays  == Tables \cup {NoArray}
Headers == [signed : BOOLEAN, tableCrc : Arrays]
Gpts    == [hdr : Headers, table : Tables]

VARIABLES primary,     \* the primary GPT on the disk
          secondary,   \* the secondary GPT on the disk
          disk,        \* struct gpt_disk, the client's handle
          dirty,       \* read or edited since the last gpt_disk_update_crc
          pc,          \* where the client is
          result,      \* what its last commit returned
          begun,       \* what the last commit began with: see Begun
          faults       \* crashes and failed accesses so far

vars == <<primary, secondary, disk, dirty, pc, result, begun, faults>>

Usable(gpt) == gpt.hdr.signed /\ gpt.hdr.tableCrc = gpt.table

\* Both tables good and the same: how a disk is shipped.
Intact == Usable(primary) /\ secondary = primary /\ primary.table \subseteq Edits

Begun == [intact : BOOLEAN, old : Tables, new : Arrays, newBak : Arrays]

Reading == {"get_hdr", "get_hdr_bak", "get_arr", "get_arr_bak"}
Writing == {"set_hdr", "set_arr", "set_hdr_bak", "set_arr_bak"}

Handles == [hdr : Headers \cup {NoHeader}, hdr_bak : Headers \cup {NoHeader},
            pentry_arr : Arrays, pentry_arr_bak : Arrays,
            is_initialized : BOOLEAN]

TypeOK ==
    /\ primary \in Gpts /\ secondary \in Gpts
    /\ disk \in Handles
    /\ dirty \in BOOLEAN
    /\ pc \in Reading \cup Writing \cup {"none", "held"}
    /\ result \in {"none", "ok", "failed"}
    /\ begun \in Begun
    /\ faults \in 0 .. MaxFaults

\* A handle as gpt_disk_alloc returns it: all pointers NULL.
Zeroed == [hdr |-> NoHeader, hdr_bak |-> NoHeader, pentry_arr |-> NoArray,
           pentry_arr_bak |-> NoArray, is_initialized |-> FALSE]

Shipped(signed) == [hdr |-> [signed |-> signed, tableCrc |-> {}], table |-> {}]

\* A disk as shipped, or one of whose headers a failsafe update has spoiled.
Init ==
    /\ \E p, s \in BOOLEAN : /\ p \/ s
                             /\ primary = Shipped(p)
                             /\ secondary = Shipped(s)
    /\ disk = Zeroed
    /\ dirty = FALSE
    /\ pc = "none"
    /\ result = "none"
    /\ begun = [intact |-> FALSE, old |-> {}, new |-> {}, newBak |-> {}]
    /\ faults = 0
-----------------------------------------------------------------------------
\* The client has no handle: not yet, or it was freed or died with its client.
NoHandle == pc' = "none" /\ disk' = Zeroed /\ dirty' = FALSE

gpt_disk_alloc ==
    /\ pc = "none"
    /\ pc' = "held"
    /\ disk' = Zeroed
    /\ dirty' = FALSE
    /\ UNCHANGED <<primary, secondary, result, begun, faults>>

gpt_disk_free ==
    /\ pc = "held"
    /\ NoHandle
    /\ UNCHANGED <<primary, secondary, result, begun, faults>>

\* gpt_disk_get_disk_info, for the first time or once more.
gpt_disk_get_disk_info ==
    /\ pc = "held"
    /\ pc' = "get_hdr"
    /\ UNCHANGED <<primary, secondary, disk, dirty, result, begun, faults>>

\* One of its reads, into a field; the last one makes the handle usable.
Get(field, value, next) ==
    /\ disk' = [disk EXCEPT ![field] = value,
                            !.is_initialized = @ \/ next = "held"]
    /\ dirty' = TRUE
    /\ pc' = next
    /\ UNCHANGED <<primary, secondary, result, begun>>

GetHeaders ==
    \/ pc = "get_hdr"     /\ Get("hdr", primary.hdr, "get_hdr_bak")
    \/ pc = "get_hdr_bak" /\ Get("hdr_bak", secondary.hdr, "get_arr")

GetArrays(array, arrayBak) ==
    \/ pc = "get_arr"     /\ Get("pentry_arr", array, "get_arr_bak")
    \/ pc = "get_arr_bak" /\ Get("pentry_arr_bak", arrayBak, "held")

GetWhole == /\ GetHeaders \/ GetArrays(primary.table, secondary.table)
            /\ UNCHANGED faults

\* The read of an array stops short; the rest of the buffer stays zero, and
\* nothing compares the array with its CRC.
GetFallsShort ==
    /\ faults < MaxFaults
    /\ faults' = faults + 1
    /\ GetArrays(primary.table \cup {Cut}, secondary.table \cup {Cut})

FieldAt == [get_hdr |-> "hdr", get_hdr_bak |-> "hdr_bak",
            get_arr |-> "pentry_arr", get_arr_bak |-> "pentry_arr_bak"]

\* A read fails: the pointer is NULL.  The fields not yet read stay as they
\* were, and so does is_initialized: the client may go on with the handle.
GetFails ==
    /\ pc \in Reading
    /\ faults < MaxFaults
    /\ faults' = faults + 1
    /\ disk' = [disk EXCEPT ![FieldAt[pc]] = Zeroed[FieldAt[pc]]]
    /\ pc' = "held"
    /\ UNCHANGED <<primary, secondary, dirty, result, begun>>
-----------------------------------------------------------------------------
\* gpt_disk_get_pentry for both instances, and an edit through its pointers.
gpt_disk_get_pentry(e) ==
    /\ pc = "held"
    /\ disk.is_initialized
    /\ NoArray \notin {disk.pentry_arr, disk.pentry_arr_bak}
    /\ disk' = [disk EXCEPT !.pentry_arr     = @ \cup {e},
                            !.pentry_arr_bak = @ \cup {e}]
    /\ dirty' = TRUE
    /\ UNCHANGED <<primary, secondary, pc, result, begun, faults>>

gpt_disk_update_crc_PrimaryOnly ==
    /\ pc = "held"
    /\ disk.is_initialized
    /\ NoHeader \notin {disk.hdr, disk.hdr_bak}
    /\ disk' = [disk EXCEPT !.hdr.tableCrc = disk.pentry_arr]
    /\ dirty' = FALSE
    /\ UNCHANGED <<primary, secondary, pc, result, begun, faults>>

gpt_disk_update_crc ==
    /\ pc = "held"
    /\ disk.is_initialized
    /\ NoHeader \notin {disk.hdr, disk.hdr_bak}
    /\ disk' = [disk EXCEPT !.hdr.tableCrc     = disk.pentry_arr,
                            !.hdr_bak.tableCrc = disk.pentry_arr_bak]
    /\ dirty' = FALSE
    /\ UNCHANGED <<primary, secondary, pc, result, begun, faults>>

\* Either function, on a handle of which a failed read left a NULL pointer that
\* it follows: the client dies.
FollowsNull ==
    /\ pc = "held"
    /\ disk.is_initialized
    /\ \/ NoArray \in {disk.pentry_arr, disk.pentry_arr_bak}
       \/ NoHeader \in {disk.hdr, disk.hdr_bak}
    /\ NoHandle
    /\ result' = "none"
    /\ UNCHANGED <<primary, secondary, begun, faults>>
-----------------------------------------------------------------------------
\* What was to be committed when it failed is committed again.
Retry == /\ result = "failed"
         /\ begun.new = disk.pentry_arr
         /\ begun.newBak = disk.pentry_arr_bak

\* gpt_disk_commit opens the disk; begun notes what it starts from.
gpt_disk_commit ==
    /\ pc = "held"
    /\ disk.is_initialized
    /\ ~dirty
    /\ pc' = "set_hdr"
    /\ result' = "none"
    /\ begun' = IF Retry THEN begun
                ELSE [intact |-> Intact, old |-> primary.table,
                      new |-> disk.pentry_arr, newBak |-> disk.pentry_arr_bak]
    /\ UNCHANGED <<primary, secondary, disk, dirty, faults>>

Missing_Unchecked == FALSE

\* The next write is refused: its header or its array is NULL.
Missing ==
    \/ pc \in {"set_hdr", "set_arr"} /\ disk.hdr = NoHeader
    \/ pc \in {"set_hdr_bak", "set_arr_bak"} /\ disk.hdr_bak = NoHeader
    \/ pc = "set_arr" /\ disk.pentry_arr = NoArray
    \/ pc = "set_arr_bak" /\ disk.pentry_arr_bak = NoArray

SetHeader_BothFirst ==
    /\ pc = "set_hdr"
    /\ ~Missing
    /\ primary' = [primary EXCEPT !.hdr = disk.hdr]
    /\ secondary' = [secondary EXCEPT !.hdr = disk.hdr_bak]
    /\ pc' = "set_arr"
    /\ UNCHANGED <<disk, dirty, result, begun, faults>>

SetHeader ==
    /\ pc = "set_hdr"
    /\ ~Missing
    /\ primary' = [primary EXCEPT !.hdr = disk.hdr]
    /\ pc' = "set_arr"
    /\ UNCHANGED <<secondary, disk, dirty, result, begun, faults>>

SetHeaderBak_FromPrimary ==
    /\ pc = "set_hdr_bak"
    /\ ~Missing
    /\ secondary' = [secondary EXCEPT !.hdr = disk.hdr]
    /\ pc' = "set_arr_bak"
    /\ UNCHANGED <<primary, disk, dirty, result, begun, faults>>

SetHeaderBak ==
    /\ pc = "set_hdr_bak"
    /\ ~Missing
    /\ secondary' = [secondary EXCEPT !.hdr = disk.hdr_bak]
    /\ pc' = "set_arr_bak"
    /\ UNCHANGED <<primary, disk, dirty, result, begun, faults>>

\* What a write of an array leaves, and where the commit goes from there.
ArrayWritten(array) ==
    /\ pc = "set_arr"
    /\ ~Missing
    /\ primary' = [primary EXCEPT !.table = array]
    /\ pc' = "set_hdr_bak"
    /\ UNCHANGED <<secondary, disk, dirty, result, begun>>

ArrayBakWritten(array) ==
    /\ pc = "set_arr_bak"
    /\ ~Missing
    /\ secondary' = [secondary EXCEPT !.table = array]
    /\ pc' = "held"
    /\ result' = "ok"
    /\ UNCHANGED <<primary, disk, dirty, begun>>

SetArray == /\ \/ ArrayWritten(disk.pentry_arr)
               \/ ArrayBakWritten(disk.pentry_arr_bak)
            /\ UNCHANGED faults

\* What is left of a table if only a part of the array is written over it.
Mixed(table, array, mark) == IF table = array THEN table ELSE table \cup {mark}

\* The write of an array stops short, and blk_rw returns 0.
SetFallsShort ==
    /\ faults < MaxFaults
    /\ faults' = faults + 1
    /\ \/ ArrayWritten(Mixed(primary.table, disk.pentry_arr, Short))
       \/ ArrayBakWritten(Mixed(secondary.table, disk.pentry_arr_bak, Short))

SetRefuses ==
    /\ pc \in Writing
    /\ Missing
    /\ pc' = "held"
    /\ result' = "failed"
    /\ UNCHANGED <<primary, secondary, disk, dirty, begun, faults>>

\* A write that fails, or is cut off, has been done in part or not at all.
TornBy(gpt, array) ==
    IF Missing THEN {gpt}
    ELSE {gpt, [gpt EXCEPT !.table = Mixed(@, array, Torn)]}

MaybeTorn ==
    /\ primary' \in IF pc = "set_arr" THEN TornBy(primary, disk.pentry_arr)
                                      ELSE {primary}
    /\ secondary' \in IF pc = "set_arr_bak"
                      THEN TornBy(secondary, disk.pentry_arr_bak)
                      ELSE {secondary}

SetFails ==
    /\ pc \in Writing
    /\ faults < MaxFaults
    /\ faults' = faults + 1
    /\ MaybeTorn
    /\ pc' = "held"
    /\ result' = "failed"
    /\ UNCHANGED <<disk, dirty, begun>>

Crash ==
    /\ faults < MaxFaults
    /\ faults' = faults + 1
    /\ MaybeTorn
    /\ NoHandle
    /\ result' = "none"
    /\ UNCHANGED begun
-----------------------------------------------------------------------------
Next ==
    \/ gpt_disk_alloc \/ gpt_disk_free
    \/ gpt_disk_get_disk_info
    \/ GetWhole \/ GetFallsShort \/ GetFails
    \/ \E e \in Edits : gpt_disk_get_pentry(e)
    \/ gpt_disk_update_crc
    \/ FollowsNull
    \/ gpt_disk_commit
    \/ SetHeader \/ SetHeaderBak \/ SetArray
    \/ SetFallsShort \/ SetRefuses \/ SetFails
    \/ Crash

Spec == Init /\ [][Next]_vars
-----------------------------------------------------------------------------
(***************************************************************************)
(* Properties.                                                             *)
(***************************************************************************)
\* The array that the boot loader and the kernel go by; none is the torn one.
Found == IF Usable(primary) THEN primary.table
         ELSE IF Usable(secondary) THEN secondary.table
         ELSE {Torn}

\* A commit that starts on an intact disk is atomic, wherever it fails or is cut
\* short and however often it is retried, and whatever a failed read left in the
\* handle: the array found is the old or the new.  One way out remains: the
\* primary array fell short unnoticed, and the commit went on to the secondary.
CommitIsAtomic ==
    begun.intact => \/ Found \in {begun.old, begun.new}
                    \/ Short \in primary.table

\* What a commit that returned 0 wrote is in both tables under right CRCs; an
\* array that fell short is not, and then the CRC in its header tells.
CommittedIsThere ==
    result = "ok" =>
        /\ primary.hdr.tableCrc = begun.new
        /\ secondary.hdr.tableCrc = begun.newBak
        /\ primary.table # begun.new => Short \in primary.table
        /\ secondary.table # begun.newBak => Short \in secondary.table

\* A session between two stages of a failsafe update leaves the signatures as
\* they are, which is where prepare_partitions keeps its stage; not even a
\* handle of which a failed read left part makes it write a header otherwise.
StageIsKept ==
    [][/\ primary'.hdr.signed = primary.hdr.signed
       /\ secondary'.hdr.signed = secondary.hdr.signed]_vars
=============================================================================
