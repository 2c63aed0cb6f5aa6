--------------------------- MODULE GptDisk_proofs ---------------------------
(***************************************************************************)
(* Theorems about GptDisk for any set of edits and any number of faults,   *)
(* handles read again and transfers that fall short included; and about    *)
(* the same clients on a device with a page cache (GptDiskCached), where   *)
(* power may go as well.                                                   *)
(***************************************************************************)
EXTENDS GptDiskCached, SequenceTheorems, TLAPS

-----------------------------------------------------------------------------
(***************************************************************************)
(* The inductive invariant.  That a commit is atomic needs to know that    *)
(* the headers in the handle are those of the disk with the CRC of the     *)
(* arrays in the handle, unless they are missing, and which of the two     *)
(* tables is good as the commit goes on, also when it goes over what an    *)
(* earlier attempt left.                                                   *)
(***************************************************************************)
\* The headers in the handle carry the signatures of the disk.
SignedInv ==
    /\ disk.hdr # NoHeader => disk.hdr.signed = primary.hdr.signed
    /\ disk.hdr_bak # NoHeader => disk.hdr_bak.signed = secondary.hdr.signed

\* Their CRCs of the arrays are those of the arrays in the handle.
CrcInv ==
    /\ ~dirty => /\ disk.hdr # NoHeader => disk.hdr.tableCrc = disk.pentry_arr
                 /\ disk.hdr_bak # NoHeader =>
                       disk.hdr_bak.tableCrc = disk.pentry_arr_bak
    /\ pc \in Reading \ {"get_hdr"} => dirty

\* The secondary table is the old one, and the primary one, if it counts at
\* all, is the old or the new one; or the primary table is the new one; or the
\* primary array has fallen short.
OldIsThere == /\ Usable(secondary)
              /\ secondary.table = begun.old
              /\ Usable(primary) => primary.table \in {begun.old, begun.new}
NewIsThere == /\ Usable(primary)
              /\ primary.table = begun.new

\* How far the commit is.
WritingInv ==
    /\ pc \in Writing => /\ ~dirty /\ result = "none"
                         /\ begun.new = disk.pentry_arr
                         /\ begun.newBak = disk.pentry_arr_bak
    /\ pc \in Writing \ {"set_hdr"} => /\ disk.hdr # NoHeader
                                       /\ primary.hdr = disk.hdr
    /\ pc \in {"set_hdr_bak", "set_arr_bak"} =>
          \/ primary.table = begun.new
          \/ Short \in primary.table
    /\ pc = "set_arr_bak" => /\ disk.hdr_bak # NoHeader
                             /\ secondary.hdr = disk.hdr_bak

CommitInv ==
    begun.intact => /\ primary.hdr.signed
                    /\ OldIsThere \/ NewIsThere \/ Short \in primary.table

\* A commit that returned 0 went through all of its writes.
IInv == TypeOK /\ SignedInv /\ CrcInv /\ WritingInv /\ CommitInv /\ CommittedIsThere

-----------------------------------------------------------------------------
\* What a header is, that is not missing.
LEMMA HeaderIs ==
    /\ NoHeader \notin Headers /\ NoArray \notin Tables
    /\ \A h \in Headers : h.tableCrc \in Arrays /\ h.signed \in BOOLEAN
<1>1. NoArray \notin Tables
  BY EditsAssumption DEF NoArray, Tables, Marks, Torn, Short, Cut
<1>2. {"no header"} \notin Arrays
  BY EditsAssumption DEF Arrays, NoArray, Tables, Marks, Torn, Short, Cut
<1>. QED
  BY <1>1, <1>2 DEF NoHeader, Headers

\* An array that was written in part is an array.
LEMMA MixedIs ==
    ASSUME NEW t \in Tables, NEW a, NEW mark \in Marks
    PROVE  /\ Mixed(t, a, mark) \in Tables
           /\ Mixed(t, a, mark) = a \/ mark \in Mixed(t, a, mark)
           /\ Short \in t => Short \in Mixed(t, a, mark)
  BY DEF Mixed, Tables

\* A table that an interrupted write leaves.
LEMMA MaybeTornIs ==
    ASSUME TypeOK, MaybeTorn
    PROVE  /\ primary' \in Gpts /\ secondary' \in Gpts
           /\ primary'.hdr = primary.hdr /\ secondary'.hdr = secondary.hdr
           /\ primary' # primary =>
                 /\ pc = "set_arr" /\ primary.table # disk.pentry_arr
                 /\ Short \in primary.table => Short \in primary'.table
           /\ secondary' # secondary => pc = "set_arr_bak"
<1>. USE DEF TypeOK
<1>1. \A g \in Gpts, a \in Arrays : \A h \in TornBy(g, a) :
          /\ h \in Gpts /\ h.hdr = g.hdr
          /\ h # g => g.table # a
          /\ Short \in g.table => Short \in h.table
  BY DEF TornBy, Gpts, Mixed, Tables, Marks
<1>2. disk.pentry_arr \in Arrays /\ disk.pentry_arr_bak \in Arrays
  BY DEF Handles
<1>3. CASE pc = "set_arr"
  BY <1>1, <1>2, <1>3 DEF MaybeTorn
<1>4. CASE pc = "set_arr_bak"
  BY <1>1, <1>2, <1>4 DEF MaybeTorn
<1>5. CASE pc \notin {"set_arr", "set_arr_bak"}
  BY <1>5 DEF MaybeTorn
<1>. QED
  BY <1>3, <1>4, <1>5

\* What a write of an array does to the disk.
LEMMA ArrayWriteIs ==
    ASSUME TypeOK, SetArray \/ SetFallsShort
    PROVE  /\ UNCHANGED <<disk, dirty, begun>>
           /\ faults' \in 0 .. MaxFaults
           /\ primary' \in Gpts /\ secondary' \in Gpts
           /\ primary'.hdr = primary.hdr /\ secondary'.hdr = secondary.hdr
           /\ \/ /\ pc = "set_arr" /\ pc' = "set_hdr_bak" /\ ~Missing
                 /\ secondary' = secondary /\ result' = result
                 /\ primary'.table = disk.pentry_arr \/ Short \in primary'.table
              \/ /\ pc = "set_arr_bak" /\ pc' = "held" /\ ~Missing
                 /\ primary' = primary /\ result' = "ok"
                 /\ \/ secondary'.table = disk.pentry_arr_bak
                    \/ Short \in secondary'.table
<1>. USE DEF TypeOK
<1>1. /\ primary.table \in Tables /\ secondary.table \in Tables
      /\ disk.pentry_arr \in Arrays /\ disk.pentry_arr_bak \in Arrays
      /\ Short \in Marks
  BY DEF Gpts, Handles, Marks
<1>2. ASSUME NEW a \in Tables, ArrayWritten(a),
             a = disk.pentry_arr \/ Short \in a
      PROVE  /\ UNCHANGED <<disk, dirty, begun>>
             /\ primary' \in Gpts /\ secondary' \in Gpts
             /\ primary'.hdr = primary.hdr /\ secondary'.hdr = secondary.hdr
             /\ pc = "set_arr" /\ pc' = "set_hdr_bak" /\ ~Missing
             /\ secondary' = secondary /\ result' = result
             /\ primary'.table = disk.pentry_arr \/ Short \in primary'.table
  BY <1>2 DEF ArrayWritten, Gpts
<1>3. ASSUME NEW a \in Tables, ArrayBakWritten(a),
             a = disk.pentry_arr_bak \/ Short \in a
      PROVE  /\ UNCHANGED <<disk, dirty, begun>>
             /\ primary' \in Gpts /\ secondary' \in Gpts
             /\ primary'.hdr = primary.hdr /\ secondary'.hdr = secondary.hdr
             /\ pc = "set_arr_bak" /\ pc' = "held" /\ ~Missing
             /\ primary' = primary /\ result' = "ok"
             /\ \/ secondary'.table = disk.pentry_arr_bak
                \/ Short \in secondary'.table
  BY <1>3 DEF ArrayBakWritten, Gpts
<1>4. CASE SetArray
  <2>1. ArrayWritten(disk.pentry_arr) => disk.pentry_arr \in Tables
    BY <1>1 DEF ArrayWritten, Missing, Arrays
  <2>2. ArrayBakWritten(disk.pentry_arr_bak) => disk.pentry_arr_bak \in Tables
    BY <1>1 DEF ArrayBakWritten, Missing, Arrays
  <2>3. faults' \in 0 .. MaxFaults
    BY <1>4 DEF SetArray
  <2>. QED
    BY <1>2, <1>3, <1>4, <2>1, <2>2, <2>3 DEF SetArray
<1>5. CASE SetFallsShort
  <2>1. /\ Mixed(primary.table, disk.pentry_arr, Short) \in Tables
        /\ \/ Mixed(primary.table, disk.pentry_arr, Short) = disk.pentry_arr
           \/ Short \in Mixed(primary.table, disk.pentry_arr, Short)
    BY <1>1, MixedIs
  <2>2. /\ Mixed(secondary.table, disk.pentry_arr_bak, Short) \in Tables
        /\ \/ Mixed(secondary.table, disk.pentry_arr_bak, Short) = disk.pentry_arr_bak
           \/ Short \in Mixed(secondary.table, disk.pentry_arr_bak, Short)
    BY <1>1, MixedIs
  <2>3. faults' \in 0 .. MaxFaults
    BY <1>5, FaultsAssumption DEF SetFallsShort
  <2>. QED
    BY <1>2, <1>3, <1>5, <2>1, <2>2, <2>3 DEF SetFallsShort
<1>. QED
  BY <1>4, <1>5

\* What a read does to the handle.
LEMMA GetIs ==
    ASSUME TypeOK, GetWhole \/ GetFallsShort
    PROVE  /\ UNCHANGED <<primary, secondary, result, begun>>
           /\ faults' \in 0 .. MaxFaults
           /\ disk' \in Handles /\ dirty'
           /\ pc' \in Reading \cup {"held"}
           /\ disk'.hdr \in {disk.hdr, primary.hdr}
           /\ disk'.hdr_bak \in {disk.hdr_bak, secondary.hdr}
<1>. USE DEF TypeOK, Reading
<1>1. /\ primary.table \cup {Cut} \in Tables /\ secondary.table \cup {Cut} \in Tables
      /\ primary.hdr \in Headers /\ secondary.hdr \in Headers
      /\ primary.table \in Tables /\ secondary.table \in Tables
  BY DEF Gpts, Tables, Marks
<1>2. ASSUME GetHeaders
      PROVE  /\ UNCHANGED <<primary, secondary, result, begun>>
             /\ disk' \in Handles /\ dirty'
             /\ pc' \in Reading \cup {"held"}
             /\ disk'.hdr \in {disk.hdr, primary.hdr}
             /\ disk'.hdr_bak \in {disk.hdr_bak, secondary.hdr}
  BY <1>1, <1>2 DEF GetHeaders, Get, Handles
<1>3. ASSUME NEW a \in Tables, NEW b \in Tables, GetArrays(a, b)
      PROVE  /\ UNCHANGED <<primary, secondary, result, begun>>
             /\ disk' \in Handles /\ dirty'
             /\ pc' \in Reading \cup {"held"}
             /\ disk'.hdr \in {disk.hdr, primary.hdr}
             /\ disk'.hdr_bak \in {disk.hdr_bak, secondary.hdr}
  <2>1. a \in Arrays /\ b \in Arrays
    BY DEF Arrays
  <2>. QED
    BY <1>3, <2>1 DEF GetArrays, Get, Handles
<1>4. faults' \in 0 .. MaxFaults
  BY FaultsAssumption DEF GetWhole, GetFallsShort
<1>. QED
  BY <1>1, <1>2, <1>3, <1>4 DEF GetWhole, GetFallsShort

\* A handle as it was allocated; a read that fails puts a part of it back.
LEMMA ZeroedIs ==
    /\ Zeroed \in Handles
    /\ Zeroed.hdr = NoHeader /\ Zeroed.hdr_bak = NoHeader
    /\ ~Zeroed.is_initialized
    /\ Zeroed.pentry_arr = NoArray /\ Zeroed.pentry_arr_bak = NoArray
  BY DEF Zeroed, Handles, Arrays

LEMMA GetFailsIs ==
    ASSUME TypeOK, GetFails
    PROVE  /\ UNCHANGED <<primary, secondary, dirty, result, begun>>
           /\ faults' \in 0 .. MaxFaults
           /\ disk' \in Handles /\ pc \in Reading /\ pc' = "held"
           /\ disk'.hdr \in {disk.hdr, NoHeader}
           /\ disk'.hdr_bak \in {disk.hdr_bak, NoHeader}
           /\ \/ pc \in {"get_arr", "get_arr_bak"}
              \/ /\ disk'.pentry_arr = disk.pentry_arr
                 /\ disk'.pentry_arr_bak = disk.pentry_arr_bak
<1>. USE DEF TypeOK, Reading
<1>1. /\ UNCHANGED <<primary, secondary, dirty, result, begun>>
      /\ faults' \in 0 .. MaxFaults
      /\ pc \in Reading /\ pc' = "held"
      /\ disk' = [disk EXCEPT ![FieldAt[pc]] = Zeroed[FieldAt[pc]]]
  BY FaultsAssumption DEF GetFails
<1>2. CASE pc = "get_hdr"
  BY <1>1, <1>2, ZeroedIs DEF FieldAt, Handles
<1>3. CASE pc = "get_hdr_bak"
  BY <1>1, <1>3, ZeroedIs DEF FieldAt, Handles
<1>4. CASE pc = "get_arr"
  BY <1>1, <1>4, ZeroedIs DEF FieldAt, Handles
<1>5. CASE pc = "get_arr_bak"
  BY <1>1, <1>5, ZeroedIs DEF FieldAt, Handles
<1>. QED
  BY <1>1, <1>2, <1>3, <1>4, <1>5

-----------------------------------------------------------------------------
\* Every step keeps the types.
LEMMA TypeStep == TypeOK /\ [Next]_vars => TypeOK'
<1>. SUFFICES ASSUME TypeOK, [Next]_vars PROVE TypeOK'
  OBVIOUS
<1>. USE ZeroedIs DEF TypeOK, Reading, Writing
<1>1. CASE gpt_disk_alloc \/ gpt_disk_free \/ gpt_disk_get_disk_info
  BY <1>1 DEF gpt_disk_alloc, gpt_disk_free, gpt_disk_get_disk_info, NoHandle
<1>2. CASE GetWhole \/ GetFallsShort
  <2>1. dirty' \in BOOLEAN
    BY <1>2 DEF GetWhole, GetFallsShort, GetHeaders, GetArrays, Get
  <2>. QED
    BY <1>2, <2>1, GetIs
<1>3. CASE GetFails
  BY <1>3, GetFailsIs
<1>4. ASSUME NEW e \in Edits, gpt_disk_get_pentry(e) PROVE TypeOK'
  <2>1. /\ disk.pentry_arr \in Tables /\ disk.pentry_arr_bak \in Tables
    BY <1>4 DEF gpt_disk_get_pentry, Handles, Arrays
  <2>2. /\ disk.pentry_arr \cup {e} \in Arrays
        /\ disk.pentry_arr_bak \cup {e} \in Arrays
    BY <2>1 DEF Tables, Arrays
  <2>. QED
    BY <1>4, <2>2 DEF gpt_disk_get_pentry, Handles
<1>5. CASE gpt_disk_update_crc
  <2>1. disk.hdr \in Headers /\ disk.hdr_bak \in Headers
    BY <1>5 DEF gpt_disk_update_crc, Handles
  <2>2. /\ [disk.hdr EXCEPT !.tableCrc = disk.pentry_arr] \in Headers
        /\ [disk.hdr_bak EXCEPT !.tableCrc = disk.pentry_arr_bak] \in Headers
    BY <2>1 DEF Handles, Headers
  <2>. QED
    BY <1>5, <2>2 DEF gpt_disk_update_crc, Handles
<1>6. CASE FollowsNull
  BY <1>6 DEF FollowsNull, NoHandle
<1>7. CASE gpt_disk_commit
  BY <1>7 DEF gpt_disk_commit, Begun, Gpts, Handles, Intact, Usable
<1>8. CASE SetHeader \/ SetHeaderBak
  <2>1. /\ pc = "set_hdr" /\ SetHeader => disk.hdr \in Headers
        /\ pc = "set_hdr_bak" /\ SetHeaderBak => disk.hdr_bak \in Headers
    BY DEF SetHeader, SetHeaderBak, Missing, Handles
  <2>. QED
    BY <1>8, <2>1 DEF SetHeader, SetHeaderBak, Gpts
<1>9. CASE SetArray \/ SetFallsShort
  BY <1>9, ArrayWriteIs
<1>10. CASE SetRefuses
  BY <1>10 DEF SetRefuses
<1>11. CASE SetFails \/ Crash
  <2>1. faults' \in 0 .. MaxFaults
    BY <1>11, FaultsAssumption DEF SetFails, Crash
  <2>2. primary' \in Gpts /\ secondary' \in Gpts
    BY <1>11, MaybeTornIs DEF SetFails, Crash
  <2>. QED
    BY <1>11, <2>1, <2>2 DEF SetFails, Crash, NoHandle
<1>12. CASE UNCHANGED vars
  BY <1>12 DEF vars
<1>. QED
  BY <1>1, <1>2, <1>3, <1>4, <1>5, <1>6, <1>7, <1>8, <1>9, <1>10, <1>11, <1>12
  DEF Next

\* No step changes a signature on the disk.
LEMMA SignaturesKept ==
    IInv /\ [Next]_vars => /\ primary'.hdr.signed = primary.hdr.signed
                           /\ secondary'.hdr.signed = secondary.hdr.signed
<1>. SUFFICES ASSUME IInv, [Next]_vars
              PROVE  /\ primary'.hdr.signed = primary.hdr.signed
                     /\ secondary'.hdr.signed = secondary.hdr.signed
  OBVIOUS
<1>0. primary \in Gpts /\ secondary \in Gpts /\ TypeOK
  BY DEF IInv, TypeOK
<1>1. CASE SetHeader
  BY <1>0, <1>1 DEF IInv, SignedInv, SetHeader, Missing, Gpts
<1>2. CASE SetHeaderBak
  BY <1>0, <1>2 DEF IInv, SignedInv, SetHeaderBak, Missing, Gpts
<1>3. CASE SetArray \/ SetFallsShort
  BY <1>0, <1>3, ArrayWriteIs
<1>4. CASE SetFails \/ Crash
  BY <1>0, <1>4, MaybeTornIs DEF SetFails, Crash
<1>5. CASE UNCHANGED <<primary, secondary>>
  BY <1>5
<1>. QED
  BY <1>0, <1>1, <1>2, <1>3, <1>4, <1>5, GetIs, GetFailsIs
  DEF Next, gpt_disk_alloc, gpt_disk_free, gpt_disk_get_disk_info,
      gpt_disk_get_pentry, gpt_disk_update_crc, FollowsNull, gpt_disk_commit,
      SetRefuses, vars

\* What the handle holds of the signatures stays right.
LEMMA SignedStep == IInv /\ [Next]_vars => SignedInv'
<1>. SUFFICES ASSUME IInv, [Next]_vars PROVE SignedInv'
  OBVIOUS
<1>. USE SignaturesKept, ZeroedIs DEF IInv, SignedInv
<1>0. disk \in Handles /\ TypeOK
  BY DEF TypeOK
<1>1. CASE gpt_disk_alloc \/ gpt_disk_free \/ gpt_disk_get_disk_info \/ FollowsNull
  BY <1>1
  DEF gpt_disk_alloc, gpt_disk_free, gpt_disk_get_disk_info, FollowsNull, NoHandle
<1>2. CASE GetWhole \/ GetFallsShort
  BY <1>0, <1>2, GetIs
<1>3. CASE GetFails
  BY <1>0, <1>3, GetFailsIs
<1>4. ASSUME NEW e \in Edits, gpt_disk_get_pentry(e) PROVE SignedInv'
  BY <1>0, <1>4 DEF gpt_disk_get_pentry, Handles
<1>5. CASE gpt_disk_update_crc
  <2>1. /\ disk'.hdr.signed = disk.hdr.signed /\ disk.hdr # NoHeader
        /\ disk'.hdr_bak.signed = disk.hdr_bak.signed /\ disk.hdr_bak # NoHeader
    BY <1>0, <1>5 DEF gpt_disk_update_crc, Handles, Headers
  <2>. QED
    BY <2>1
<1>6. CASE gpt_disk_commit \/ SetHeader \/ SetHeaderBak \/ SetRefuses
  BY <1>6 DEF gpt_disk_commit, SetHeader, SetHeaderBak, SetRefuses
<1>7. CASE SetArray \/ SetFallsShort
  BY <1>0, <1>7, ArrayWriteIs
<1>8. CASE SetFails \/ Crash
  BY <1>8 DEF SetFails, Crash, NoHandle
<1>9. CASE UNCHANGED vars
  BY <1>9 DEF vars
<1>. QED
  BY <1>1, <1>2, <1>3, <1>4, <1>5, <1>6, <1>7, <1>8, <1>9 DEF Next

\* What it holds of the CRCs does too, once gpt_disk_update_crc was called.
LEMMA CrcStep == IInv /\ [Next]_vars => CrcInv'
<1>. SUFFICES ASSUME IInv, [Next]_vars PROVE CrcInv'
  OBVIOUS
<1>. USE ZeroedIs DEF IInv, CrcInv, Reading
<1>0. disk \in Handles /\ TypeOK
  BY DEF TypeOK
<1>1. CASE gpt_disk_alloc \/ gpt_disk_free \/ gpt_disk_get_disk_info \/ FollowsNull
  BY <1>1
  DEF gpt_disk_alloc, gpt_disk_free, gpt_disk_get_disk_info, FollowsNull, NoHandle
<1>2. CASE GetWhole \/ GetFallsShort
  BY <1>0, <1>2, GetIs
<1>3. CASE GetFails
  BY <1>0, <1>3, GetFailsIs
<1>4. ASSUME NEW e \in Edits, gpt_disk_get_pentry(e) PROVE CrcInv'
  BY <1>4 DEF gpt_disk_get_pentry
<1>5. CASE gpt_disk_update_crc
  <2>1. /\ disk.hdr \in Headers /\ disk.hdr_bak \in Headers /\ pc = "held" /\ pc' = pc
    BY <1>0, <1>5 DEF gpt_disk_update_crc, Handles
  <2>2. /\ disk'.hdr.tableCrc = disk.pentry_arr
        /\ disk'.hdr_bak.tableCrc = disk.pentry_arr_bak
        /\ disk'.pentry_arr = disk.pentry_arr
        /\ disk'.pentry_arr_bak = disk.pentry_arr_bak
    BY <1>0, <1>5, <2>1 DEF gpt_disk_update_crc, Handles, Headers
  <2>. QED
    BY <2>1, <2>2
<1>6. CASE gpt_disk_commit \/ SetHeader \/ SetHeaderBak \/ SetRefuses
  BY <1>6 DEF gpt_disk_commit, SetHeader, SetHeaderBak, SetRefuses
<1>7. CASE SetArray \/ SetFallsShort
  BY <1>0, <1>7, ArrayWriteIs
<1>8. CASE SetFails \/ Crash
  BY <1>8 DEF SetFails, Crash, NoHandle
<1>9. CASE UNCHANGED vars
  BY <1>9 DEF vars
<1>. QED
  BY <1>1, <1>2, <1>3, <1>4, <1>5, <1>6, <1>7, <1>8, <1>9 DEF Next

\* The commit goes on; what it returns 0 for is there.
LEMMA WritingStep == IInv /\ [Next]_vars => WritingInv' /\ CommittedIsThere'
<1>. SUFFICES ASSUME IInv, [Next]_vars PROVE WritingInv' /\ CommittedIsThere'
  OBVIOUS
<1>. USE DEF IInv, WritingInv, CommittedIsThere, Writing, Reading
<1>0. TypeOK /\ disk \in Handles /\ primary \in Gpts /\ secondary \in Gpts
  BY DEF TypeOK
<1>1. CASE gpt_disk_alloc \/ gpt_disk_free \/ gpt_disk_get_disk_info \/ FollowsNull
  BY <1>1
  DEF gpt_disk_alloc, gpt_disk_free, gpt_disk_get_disk_info, FollowsNull, NoHandle
<1>2. CASE GetWhole \/ GetFallsShort
  BY <1>0, <1>2, GetIs
<1>3. CASE GetFails
  BY <1>0, <1>3, GetFailsIs
<1>4. ASSUME NEW e \in Edits, gpt_disk_get_pentry(e)
      PROVE  WritingInv' /\ CommittedIsThere'
  BY <1>4 DEF gpt_disk_get_pentry
<1>5. CASE gpt_disk_update_crc
  BY <1>5 DEF gpt_disk_update_crc
<1>6. CASE gpt_disk_commit
  BY <1>6 DEF gpt_disk_commit, Retry
<1>7. CASE SetHeader
  <2>1. primary'.hdr = disk.hdr /\ primary'.table = primary.table
    BY <1>0, <1>7 DEF SetHeader, Gpts
  <2>. QED
    BY <1>7, <2>1 DEF SetHeader, Missing
<1>8. CASE SetHeaderBak
  <2>1. secondary'.hdr = disk.hdr_bak
    BY <1>0, <1>8 DEF SetHeaderBak, Gpts
  <2>. QED
    BY <1>8, <2>1 DEF SetHeaderBak, Missing
<1>9. CASE SetArray \/ SetFallsShort
  <2>1. CASE pc = "set_arr"
    BY <1>0, <1>9, <2>1, ArrayWriteIs
  <2>2. CASE pc = "set_arr_bak"
    <3>1. /\ disk.hdr.tableCrc = begun.new
          /\ disk.hdr_bak.tableCrc = begun.newBak
      BY <2>2 DEF CrcInv
    <3>. QED
      BY <1>0, <1>9, <2>2, <3>1, ArrayWriteIs
  <2>. QED
    BY <1>0, <1>9, <2>1, <2>2, ArrayWriteIs
<1>10. CASE SetRefuses
  BY <1>10 DEF SetRefuses
<1>11. CASE SetFails \/ Crash
  BY <1>0, <1>11 DEF SetFails, Crash, NoHandle
<1>12. CASE UNCHANGED vars
  BY <1>12 DEF vars
<1>. QED
  BY <1>1, <1>2, <1>3, <1>4, <1>5, <1>6, <1>7, <1>8, <1>9, <1>10, <1>11, <1>12
  DEF Next

\* The old array is there until the new one is, or has fallen short.
LEMMA CommitStep == IInv /\ [Next]_vars => CommitInv'
<1>. SUFFICES ASSUME IInv, [Next]_vars PROVE CommitInv'
  OBVIOUS
<1>. USE DEF IInv, CommitInv, OldIsThere, NewIsThere, Usable
<1>0. TypeOK /\ disk \in Handles /\ primary \in Gpts /\ secondary \in Gpts
  BY DEF TypeOK
<1>1. CASE UNCHANGED <<primary, secondary, begun>>
  BY <1>1
<1>2. CASE gpt_disk_commit
  <2>1. CASE Retry
    BY <1>2, <2>1 DEF gpt_disk_commit
  <2>2. CASE ~Retry
    BY <1>2, <2>2 DEF gpt_disk_commit, Intact
  <2>. QED
    BY <2>1, <2>2
<1>3. CASE SetHeader
  <2>1. /\ disk.hdr.tableCrc = begun.new /\ begun' = begun
        /\ disk.hdr.signed = primary.hdr.signed /\ secondary' = secondary
    BY <1>3 DEF SetHeader, Missing, CrcInv, SignedInv, WritingInv, Writing
  <2>2. primary'.hdr = disk.hdr /\ primary'.table = primary.table
    BY <1>0, <1>3 DEF SetHeader, Gpts
  <2>. QED
    BY <2>1, <2>2
<1>4. CASE pc \in {"set_hdr_bak", "set_arr_bak"} /\ primary' = primary /\ begun' = begun
  <2>1. /\ primary.hdr.tableCrc = begun.new
        /\ primary.table = begun.new \/ Short \in primary.table
    BY <1>4 DEF WritingInv, CrcInv, Writing
  <2>. QED
    BY <1>4, <2>1
<1>5. CASE pc = "set_arr" /\ (SetArray \/ SetFallsShort)
  <2>1. /\ primary'.table = begun.new \/ Short \in primary'.table
        /\ primary'.hdr = primary.hdr /\ begun' = begun
    BY <1>0, <1>5, ArrayWriteIs DEF WritingInv, Writing
  <2>2. primary.hdr.tableCrc = begun.new
    BY <1>5 DEF WritingInv, CrcInv, Writing
  <2>. QED
    BY <2>1, <2>2
<1>6. CASE pc = "set_arr" /\ (SetFails \/ Crash)
  <2>1. /\ begun' = begun /\ secondary' = secondary
        /\ primary'.hdr = primary.hdr
        /\ primary' # primary => /\ primary.table # begun.new
                                 /\ Short \in primary.table => Short \in primary'.table
    BY <1>0, <1>6, MaybeTornIs DEF SetFails, Crash, WritingInv, Writing
  <2>2. primary.hdr.tableCrc = begun.new
    BY <1>6 DEF WritingInv, CrcInv, Writing
  <2>3. CASE primary' = primary
    BY <2>1, <2>3
  <2>4. CASE primary' # primary
    BY <2>1, <2>2, <2>4
  <2>. QED
    BY <2>3, <2>4
<1>7. CASE SetHeaderBak
  BY <1>4, <1>7 DEF SetHeaderBak
<1>8. CASE SetArray \/ SetFallsShort
  <2>1. pc = "set_arr" \/ (pc = "set_arr_bak" /\ primary' = primary) 
    BY <1>0, <1>8, ArrayWriteIs
  <2>. QED
    BY <1>0, <1>4, <1>5, <1>8, <2>1, ArrayWriteIs
<1>9. CASE SetFails \/ Crash
  <2>1. begun' = begun
    BY <1>9 DEF SetFails, Crash
  <2>2. CASE pc = "set_arr"
    BY <1>6, <1>9, <2>2
  <2>3. CASE pc = "set_arr_bak"
    BY <1>0, <1>4, <1>9, <2>1, <2>3, MaybeTornIs DEF SetFails, Crash
  <2>4. CASE pc \notin {"set_arr", "set_arr_bak"}
    BY <1>0, <1>1, <1>9, <2>1, <2>4, MaybeTornIs DEF SetFails, Crash
  <2>. QED
    BY <2>2, <2>3, <2>4
<1>. QED
  BY <1>0, <1>1, <1>2, <1>3, <1>7, <1>8, <1>9, GetIs, GetFailsIs
  DEF Next, gpt_disk_alloc, gpt_disk_free, gpt_disk_get_disk_info,
      gpt_disk_get_pentry, gpt_disk_update_crc, FollowsNull, SetRefuses, vars

\* A disk that no client has touched satisfies it.
LEMMA InitIInv == Init => IInv
<1>. SUFFICES ASSUME Init PROVE IInv
  OBVIOUS
<1>1. \A b \in BOOLEAN : Shipped(b) \in Gpts
  BY DEF Shipped, Gpts, Headers, Arrays, Tables
<1>2. begun \in Begun /\ ~begun.intact /\ faults \in 0 .. MaxFaults
  BY FaultsAssumption DEF Init, Begun, Arrays, Tables
<1>. QED
  BY <1>1, <1>2, ZeroedIs
  DEF Init, IInv, TypeOK, SignedInv, CrcInv, WritingInv, CommitInv,
      CommittedIsThere, Reading, Writing

\* The invariant of gpt_disk clients, of handles read again after a read that
\* failed and of transfers that fall short.
THEOREM IInvHolds == Spec => []IInv
<1>1. Init => IInv
  BY InitIInv
<1>2. IInv /\ [Next]_vars => IInv'
  BY TypeStep, SignedStep, CrcStep, WritingStep, CommitStep DEF IInv
<1>. QED
  BY <1>1, <1>2, PTL DEF Spec

LEMMA IInvCommit == IInv => CommitIsAtomic
  BY DEF IInv, CommitInv, CommitIsAtomic, OldIsThere, NewIsThere, Found

\* Wherever a commit on an intact disk stops, the old or the new array counts,
\* unless the primary one has fallen short.
THEOREM CommitAtomic == Spec => []CommitIsAtomic
  BY IInvHolds, IInvCommit, PTL

\* What was committed is there, with right CRCs, in both tables, or a header
\* tells that its array fell short.
THEOREM CommittedThere == Spec => []CommittedIsThere
<1>1. IInv => CommittedIsThere
  BY DEF IInv
<1>. QED
  BY <1>1, IInvHolds, PTL

\* A session leaves the stage of a failsafe update as it is.
THEOREM StageKept == Spec => StageIsKept
<1>1. IInv /\ [Next]_vars =>
        [/\ primary'.hdr.signed = primary.hdr.signed
         /\ secondary'.hdr.signed = secondary.hdr.signed]_vars
  BY SignaturesKept
<1>. QED
  BY <1>1, IInvHolds, PTL DEF Spec, StageIsKept

-----------------------------------------------------------------------------
(***************************************************************************)
(* With a page cache.  Losing power puts the disk back to what the medium  *)
(* has, so the invariant has to be true of that as well: the signatures on *)
(* the medium and in the waiting writes are those of the disk.             *)
(***************************************************************************)
Disks == [primary : Gpts, secondary : Gpts]

CachedWrites == [which : {"primary", "secondary"}, part : {"hdr"}, value : Headers]
                \cup [which : {"primary", "secondary"}, part : {"table"}, value : Tables]

CacheTypeOK == medium \in Disks /\ cached \in Seq(CachedWrites)

SignedOnMedium ==
    /\ medium.primary.hdr.signed = primary.hdr.signed
    /\ medium.secondary.hdr.signed = secondary.hdr.signed
    /\ \A i \in 1 .. Len(cached) : cached[i].part = "hdr" =>
          cached[i].value.signed = Whole[cached[i].which].hdr.signed

CachedInv == IInv /\ CacheTypeOK /\ SignedOnMedium

-----------------------------------------------------------------------------
\* What a block write does to the disk.
LEMMA OnMediumIs ==
    ASSUME NEW m \in Disks, NEW w \in CachedWrites
    PROVE  /\ OnMedium(m, w) \in Disks
           /\ w.which = "primary" =>
                 /\ OnMedium(m, w).secondary = m.secondary
                 /\ w.part = "hdr" => /\ OnMedium(m, w).primary.hdr = w.value
                                      /\ OnMedium(m, w).primary.table = m.primary.table
                 /\ w.part = "table" => /\ OnMedium(m, w).primary.table = w.value
                                        /\ OnMedium(m, w).primary.hdr = m.primary.hdr
           /\ w.which = "secondary" =>
                 /\ OnMedium(m, w).primary = m.primary
                 /\ w.part = "hdr" => /\ OnMedium(m, w).secondary.hdr = w.value
                                      /\ OnMedium(m, w).secondary.table = m.secondary.table
                 /\ w.part = "table" => /\ OnMedium(m, w).secondary.table = w.value
                                        /\ OnMedium(m, w).secondary.hdr = m.secondary.hdr
<1>1. CASE w.which = "primary" /\ w.part = "hdr"
  BY <1>1 DEF OnMedium, Disks, CachedWrites, Gpts
<1>2. CASE w.which = "primary" /\ w.part = "table"
  BY <1>2 DEF OnMedium, Disks, CachedWrites, Gpts
<1>3. CASE w.which = "secondary" /\ w.part = "hdr"
  BY <1>3 DEF OnMedium, Disks, CachedWrites, Gpts
<1>4. CASE w.which = "secondary" /\ w.part = "table"
  BY <1>4 DEF OnMedium, Disks, CachedWrites, Gpts
<1>. QED
  BY <1>1, <1>2, <1>3, <1>4 DEF CachedWrites

\* The writes of a step, if it is one GPT that it changes.
LEMMA StepWritesIs ==
    /\ primary' = primary /\ secondary' = secondary => StepWrites = <<>>
    /\ primary' # primary /\ secondary' = secondary =>
          StepWrites = <<[which |-> "primary", part |-> Part, value |-> primary'[Part]]>>
    /\ primary' = primary /\ secondary' # secondary =>
          StepWrites = <<[which |-> "secondary", part |-> Part, value |-> secondary'[Part]]>>
<1>1. /\ Whole["primary"] = primary /\ Whole["secondary"] = secondary
      /\ (Whole')["primary"] = primary' /\ (Whole')["secondary"] = secondary'
  BY DEF Whole
<1>2. ASSUME NEW e PROVE <<e>> \o << >> = <<e>> /\ << >> \o <<e>> = <<e>>
  <2>1. <<e>> \in Seq({e})
    OBVIOUS
  <2>. QED
    BY <2>1, ConcatEmptySeq
<1>3. << >> \o << >> = << >>
  BY ConcatEmptySeq, << >> \in Seq({})
<1>. QED
  BY <1>1, <1>2, <1>3 DEF StepWrites

\* A step that writes is a write of the commit, to one GPT.
LEMMA WritesOne ==
    ASSUME IInv, Next, primary' # primary \/ secondary' # secondary
    PROVE  /\ pc \in Writing /\ begun' = begun
           /\ pc = "set_hdr" => primary'.table = primary.table
           /\ pc = "set_hdr_bak" => secondary'.table = secondary.table
           /\ pc = "set_arr" => primary'.hdr = primary.hdr
           /\ pc = "set_arr_bak" => secondary'.hdr = secondary.hdr
           /\ pc \in {"set_hdr", "set_arr"} => secondary' = secondary
           /\ pc \in {"set_hdr_bak", "set_arr_bak"} => primary' = primary
<1>. USE DEF Writing
<1>0. TypeOK /\ primary \in Gpts /\ secondary \in Gpts
  BY DEF IInv, TypeOK
<1>1. CASE SetHeader \/ SetHeaderBak
  BY <1>0, <1>1 DEF SetHeader, SetHeaderBak, Gpts
<1>2. CASE SetArray \/ SetFallsShort
  BY <1>0, <1>2, ArrayWriteIs
<1>3. CASE SetFails \/ Crash
  BY <1>0, <1>3, MaybeTornIs DEF SetFails, Crash
<1>. QED
  BY <1>0, <1>1, <1>2, <1>3, GetIs, GetFailsIs
  DEF Next, gpt_disk_alloc, gpt_disk_free, gpt_disk_get_disk_info,
      gpt_disk_get_pentry, gpt_disk_update_crc, FollowsNull, gpt_disk_commit,
      SetRefuses

\* It appends that write to the cache.
LEMMA NewWrite ==
    ASSUME CachedInv, Next, primary' # primary \/ secondary' # secondary
    PROVE  \E w \in CachedWrites :
              /\ StepWrites = <<w>>
              /\ Whole' = OnMedium(Whole, w)
              /\ w.part = "hdr" => w.value.signed = Whole[w.which].hdr.signed
<1>0. IInv /\ Whole \in Disks /\ (Whole') \in Disks
  BY TypeStep DEF CachedInv, IInv, Whole, Disks, TypeOK
<1>1. /\ Whole.primary = primary /\ Whole.secondary = secondary
      /\ (Whole').primary = primary' /\ (Whole').secondary = secondary'
  BY DEF Whole
<1>2. CASE primary' # primary
  <2> DEFINE w == [which |-> "primary", part |-> Part, value |-> primary'[Part]]
  <2>1. pc \in {"set_hdr", "set_arr"} /\ secondary' = secondary
    BY <1>0, <1>2, WritesOne DEF Writing
  <2>2. Part = IF pc = "set_hdr" THEN "hdr" ELSE "table"
    BY <2>1 DEF Part
  <2>3. w \in CachedWrites
    BY <1>0, <1>1, <2>2 DEF CachedWrites, Disks, Gpts
  <2>4. StepWrites = <<w>>
    BY <1>2, <2>1, StepWritesIs
  <2>5. Whole' = OnMedium(Whole, w)
    <3>1. /\ OnMedium(Whole, w) \in Disks
          /\ OnMedium(Whole, w).secondary = secondary'
      BY <1>0, <1>1, <2>1, <2>3, OnMediumIs
    <3>2. OnMedium(Whole, w).primary.hdr = primary'.hdr
      BY <1>0, <1>1, <2>1, <2>2, <2>3, OnMediumIs, WritesOne, <1>2
    <3>3. OnMedium(Whole, w).primary.table = primary'.table
      BY <1>0, <1>1, <2>1, <2>2, <2>3, OnMediumIs, WritesOne, <1>2
    <3>. QED
      BY <1>0, <1>1, <3>1, <3>2, <3>3 DEF Disks, Gpts
  <2>6. w.part = "hdr" => w.value.signed = Whole[w.which].hdr.signed
    BY <1>0, <1>1, SignaturesKept, Zenon
  <2>. QED
    BY <2>3, <2>4, <2>5, <2>6
<1>3. CASE primary' = primary
  <2> DEFINE w == [which |-> "secondary", part |-> Part, value |-> secondary'[Part]]
  <2>1. pc \in {"set_hdr_bak", "set_arr_bak"} /\ secondary' # secondary
    BY <1>0, <1>3, WritesOne DEF Writing
  <2>2. Part = IF pc = "set_hdr_bak" THEN "hdr" ELSE "table"
    BY <2>1 DEF Part
  <2>3. w \in CachedWrites
    BY <1>0, <1>1, <2>2 DEF CachedWrites, Disks, Gpts
  <2>4. StepWrites = <<w>>
    BY <1>3, <2>1, StepWritesIs
  <2>5. Whole' = OnMedium(Whole, w)
    <3>1. /\ OnMedium(Whole, w) \in Disks
          /\ OnMedium(Whole, w).primary = primary'
      BY <1>0, <1>1, <1>3, <2>3, OnMediumIs
    <3>2. OnMedium(Whole, w).secondary.hdr = secondary'.hdr
      BY <1>0, <1>1, <2>1, <2>2, <2>3, OnMediumIs, WritesOne
    <3>3. OnMedium(Whole, w).secondary.table = secondary'.table
      BY <1>0, <1>1, <2>1, <2>2, <2>3, OnMediumIs, WritesOne
    <3>. QED
      BY <1>0, <1>1, <3>1, <3>2, <3>3 DEF Disks, Gpts
  <2>6. w.part = "hdr" => w.value.signed = Whole[w.which].hdr.signed
    BY <1>0, <1>1, SignaturesKept, Zenon
  <2>. QED
    BY <2>3, <2>4, <2>5, <2>6
<1>. QED
  BY <1>2, <1>3

\* The signatures are the same all along.
LEMMA CacheStepKeeps ==
    ASSUME CachedInv, CachedStep PROVE CacheTypeOK' /\ SignedOnMedium'
<1>0. /\ IInv /\ Next /\ medium' = medium /\ cached' = cached \o StepWrites
      /\ cached \in Seq(CachedWrites) /\ medium \in Disks
  BY DEF CachedInv, CachedStep, CacheTypeOK
<1>1. /\ primary'.hdr.signed = primary.hdr.signed
      /\ secondary'.hdr.signed = secondary.hdr.signed
  BY <1>0, SignaturesKept
<1>2. \A i \in 1 .. Len(cached) : cached[i].part = "hdr" =>
          cached[i].value.signed = (Whole')[cached[i].which].hdr.signed
  <2>1. \A x \in {"primary", "secondary"} :
            (Whole')[x].hdr.signed = Whole[x].hdr.signed
    BY <1>1 DEF Whole
  <2>2. \A i \in 1 .. Len(cached) : cached[i].which \in {"primary", "secondary"}
    BY <1>0 DEF CachedWrites
  <2>. QED
    BY <2>1, <2>2 DEF CachedInv, SignedOnMedium
<1>3. CASE primary' = primary /\ secondary' = secondary
  <2>1. cached' = cached
    BY <1>0, <1>3, StepWritesIs, ConcatEmptySeq
  <2>. QED
    BY <1>0, <1>1, <1>2, <2>1 DEF CachedInv, CacheTypeOK, SignedOnMedium
<1>4. CASE primary' # primary \/ secondary' # secondary
  <2>1. PICK w \in CachedWrites :
              /\ StepWrites = <<w>>
              /\ w.part = "hdr" => w.value.signed = Whole[w.which].hdr.signed
    BY <1>0, <1>4, NewWrite
  <2>2. /\ cached' \in Seq(CachedWrites) /\ Len(cached') = Len(cached) + 1
        /\ \A i \in 1 .. Len(cached) : cached'[i] = cached[i]
        /\ cached'[Len(cached) + 1] = w
    BY <1>0, <2>1
  <2>3. w.part = "hdr" => w.value.signed = (Whole')[w.which].hdr.signed
    BY <1>1, <2>1 DEF Whole, CachedWrites
  <2>4. \A i \in 1 .. Len(cached') : cached'[i].part = "hdr" =>
            cached'[i].value.signed = (Whole')[cached'[i].which].hdr.signed
    <3> TAKE i \in 1 .. Len(cached')
    <3>1. CASE i \in 1 .. Len(cached)
      BY <1>2, <2>2, <3>1
    <3>2. CASE i = Len(cached) + 1
      BY <2>2, <2>3, <3>2
    <3>. QED
      BY <1>0, <2>2, <3>1, <3>2
  <2>. QED
    BY <1>0, <1>1, <2>2, <2>4 DEF CachedInv, CacheTypeOK, SignedOnMedium
<1>. QED
  BY <1>3, <1>4

\* Taking a write off the queue leaves the others in their order.
LEMMA Removed ==
    ASSUME NEW S, NEW s \in Seq(S), NEW i \in 1 .. Len(s)
    PROVE  /\ RemoveAt(s, i) \in Seq(S)
           /\ Len(RemoveAt(s, i)) = Len(s) - 1
           /\ \A j \in 1 .. i - 1 : RemoveAt(s, i)[j] = s[j]
           /\ \A j \in i .. Len(s) - 1 : RemoveAt(s, i)[j] = s[j + 1]
<1>1. /\ SubSeq(s, 1, i-1) \in Seq(S) /\ Len(SubSeq(s, 1, i-1)) = i - 1
      /\ \A j \in 1 .. i - 1 : SubSeq(s, 1, i-1)[j] = s[j]
  <2>1. \A j \in 1 .. i - 1 : s[j] \in S
    OBVIOUS
  <2>. QED
    BY <2>1, SubSeqProperties
<1>2. /\ SubSeq(s, i+1, Len(s)) \in Seq(S)
      /\ Len(SubSeq(s, i+1, Len(s))) = Len(s) - i
      /\ \A j \in 1 .. Len(s) - i : SubSeq(s, i+1, Len(s))[j] = s[i + j]
  <2>1. \A j \in i + 1 .. Len(s) : s[j] \in S
    OBVIOUS
  <2>. QED
    BY <2>1, SubSeqProperties
<1> DEFINE a == SubSeq(s, 1, i-1)
           b == SubSeq(s, i+1, Len(s))
<1> HIDE DEF a, b
<1>3. /\ a \o b \in Seq(S) /\ Len(a \o b) = Len(a) + Len(b)
      /\ \A j \in 1 .. Len(a) + Len(b) :
            (a \o b)[j] = IF j <= Len(a) THEN a[j] ELSE b[j - Len(a)]
  BY <1>1, <1>2, ConcatProperties DEF a, b
<1>4. RemoveAt(s, i) = a \o b
  BY DEF RemoveAt, a, b
<1>5. /\ Len(a) = i - 1 /\ \A j \in 1 .. i - 1 : a[j] = s[j]
      /\ Len(b) = Len(s) - i /\ \A j \in 1 .. Len(s) - i : b[j] = s[i + j]
  BY <1>1, <1>2 DEF a, b
<1>6. i \in Nat /\ Len(s) \in Nat /\ 1 <= i /\ i <= Len(s)
  OBVIOUS
<1>7. ASSUME NEW j \in 1 .. i - 1 PROVE (a \o b)[j] = s[j]
  BY <1>3, <1>5, <1>6
<1>8. ASSUME NEW j \in i .. Len(s) - 1 PROVE (a \o b)[j] = s[j + 1]
  <2>1. /\ j - (i - 1) \in 1 .. Len(s) - i /\ i + (j - (i - 1)) = j + 1
        /\ j \in 1 .. Len(a) + Len(b) /\ ~(j <= Len(a))
    BY <1>5, <1>6
  <2>2. (a \o b)[j] = b[j - (i - 1)]
    BY <1>3, <1>5, <2>1
  <2>3. b[j - (i - 1)] = s[i + (j - (i - 1))]
    BY <1>5, <2>1
  <2>. QED
    BY <2>1, <2>2, <2>3
<1>9. Len(a) + Len(b) = Len(s) - 1
  BY <1>5, <1>6
<1>. QED
  BY <1>3, <1>4, <1>7, <1>8, <1>9

\* A write that reaches the medium brings no other signature.
LEMMA WritebackKeeps ==
    ASSUME CachedInv, Writeback PROVE CacheTypeOK' /\ SignedOnMedium'
<1>0. cached \in Seq(CachedWrites) /\ medium \in Disks
  BY DEF CachedInv, CacheTypeOK
<1>1. PICK i \in 1 .. Len(cached) : /\ medium' = OnMedium(medium, cached[i])
                                    /\ cached' = RemoveAt(cached, i)
  BY <1>0 DEF Writeback
<1>2. cached[i] \in CachedWrites
  BY <1>0
<1>3. CacheTypeOK'
  BY <1>0, <1>1, <1>2, OnMediumIs, Removed DEF CacheTypeOK
<1>4. /\ medium'.primary.hdr.signed = primary.hdr.signed
      /\ medium'.secondary.hdr.signed = secondary.hdr.signed
  <2>1. cached[i].part = "hdr" =>
            cached[i].value.signed = Whole[cached[i].which].hdr.signed
    BY DEF CachedInv, SignedOnMedium
  <2>2. Whole["primary"] = primary /\ Whole["secondary"] = secondary
    BY DEF Whole
  <2>3. /\ medium.primary.hdr.signed = primary.hdr.signed
        /\ medium.secondary.hdr.signed = secondary.hdr.signed
    BY DEF CachedInv, SignedOnMedium
  <2>4. /\ cached[i].which \in {"primary", "secondary"}
        /\ cached[i].part \in {"hdr", "table"}
    BY <1>2 DEF CachedWrites
  <2>5. CASE cached[i].part = "hdr"
    BY <1>0, <1>1, <1>2, <2>1, <2>2, <2>3, <2>4, <2>5, OnMediumIs
  <2>6. CASE cached[i].part = "table"
    BY <1>0, <1>1, <1>2, <2>3, <2>4, <2>6, OnMediumIs
  <2>. QED
    BY <2>4, <2>5, <2>6
<1>5. primary' = primary /\ secondary' = secondary /\ Whole' = Whole
  BY DEF Writeback, vars, Whole
<1>6. \A j \in 1 .. Len(cached') : \E k \in 1 .. Len(cached) : cached'[j] = cached[k]
  <2>0. /\ Len(cached') = Len(cached) - 1
        /\ \A j \in 1 .. i - 1 : cached'[j] = cached[j]
        /\ \A j \in i .. Len(cached) - 1 : cached'[j] = cached[j + 1]
    BY <1>0, <1>1, Removed
  <2>. i \in Nat /\ Len(cached) \in Nat
    BY <1>0
  <2> TAKE j \in 1 .. Len(cached')
  <2>1. j \in 1 .. Len(cached) - 1
    BY <2>0
  <2>2. CASE j < i
    <3>1. cached'[j] = cached[j]
      BY <2>0, <2>1, <2>2
    <3>. QED
      BY <1>0, <2>1, <3>1
  <2>3. CASE j >= i
    <3>1. cached'[j] = cached[j + 1] /\ j + 1 \in 1 .. Len(cached)
      BY <2>0, <2>1, <2>3
    <3>. QED
      BY <3>1
  <2>. QED
    BY <1>0, <2>1, <2>2, <2>3
<1>7. \A j \in 1 .. Len(cached') : cached'[j].part = "hdr" =>
          cached'[j].value.signed = (Whole')[cached'[j].which].hdr.signed
  BY <1>5, <1>6 DEF CachedInv, SignedOnMedium
<1>. QED
  BY <1>3, <1>4, <1>5, <1>7 DEF SignedOnMedium

\* What is left after a loss of power, with a torn array or without.
LEMMA AfterLoss ==
    ASSUME CachedInv, PowerLoss
    PROVE  /\ medium' \in Disks
           /\ medium'.primary.hdr = medium.primary.hdr
           /\ medium'.secondary.hdr = medium.secondary.hdr
           /\ medium'.primary.hdr.signed = primary.hdr.signed
           /\ medium'.secondary.hdr.signed = secondary.hdr.signed
           /\ Whole' = medium'
<1>0. cached \in Seq(CachedWrites) /\ medium \in Disks
  BY DEF CachedInv, CacheTypeOK
<1>1. ASSUME NEW i \in DOMAIN cached,
             medium' = [medium EXCEPT ![cached[i].which].table =
                                        Mixed(@, cached[i].value, Torn)]
      PROVE  /\ medium' \in Disks
             /\ medium'.primary.hdr = medium.primary.hdr
             /\ medium'.secondary.hdr = medium.secondary.hdr
  <2>1. cached[i].which \in {"primary", "secondary"}
    BY <1>0 DEF CachedWrites
  <2>2. \A t \in Tables : Mixed(t, cached[i].value, Torn) \in Tables
    BY MixedIs DEF Marks
  <2>3. CASE cached[i].which = "primary"
    BY <1>0, <1>1, <2>2, <2>3 DEF Disks, Gpts
  <2>4. CASE cached[i].which = "secondary"
    BY <1>0, <1>1, <2>2, <2>4 DEF Disks, Gpts
  <2>. QED
    BY <2>1, <2>3, <2>4
<1>2. /\ medium' \in Disks
      /\ medium'.primary.hdr = medium.primary.hdr
      /\ medium'.secondary.hdr = medium.secondary.hdr
  BY <1>0, <1>1 DEF PowerLoss, MediumAfterLoss
<1>3. primary' = medium'.primary /\ secondary' = medium'.secondary
  BY DEF PowerLoss
<1>4. Whole' = medium'
  BY <1>2, <1>3 DEF Whole, Disks
<1>. QED
  BY <1>2, <1>4 DEF CachedInv, SignedOnMedium

\* A loss of power keeps the invariant: the client is gone.
LEMMA LossKeeps == ASSUME CachedInv, PowerLoss PROVE CachedInv'
<1>. USE DEF CachedInv, IInv
<1>1. /\ medium' \in Disks /\ primary' = medium'.primary
      /\ secondary' = medium'.secondary /\ cached' = << >>
      /\ primary'.hdr.signed = primary.hdr.signed
      /\ secondary'.hdr.signed = secondary.hdr.signed
  BY AfterLoss DEF PowerLoss
<1>2. /\ pc' = "none" /\ result' = "none" /\ disk' = Zeroed /\ dirty' = FALSE
      /\ begun' = [begun EXCEPT !.intact = FALSE]
      /\ faults' \in 0 .. MaxFaults
  BY FaultsAssumption DEF PowerLoss, NoHandle, TypeOK
<1>3. begun' \in Begun /\ ~begun'.intact
  BY <1>2 DEF TypeOK, Begun
<1>4. TypeOK'
  BY <1>1, <1>2, <1>3, ZeroedIs DEF TypeOK, Disks
<1>5. SignedInv' /\ CrcInv'
  BY <1>2, ZeroedIs DEF SignedInv, CrcInv, Reading
<1>6. WritingInv' /\ CommitInv' /\ CommittedIsThere'
  BY <1>2, <1>3 DEF WritingInv, CommitInv, CommittedIsThere, Writing
<1>7. CacheTypeOK' /\ SignedOnMedium'
  BY <1>1 DEF CacheTypeOK, SignedOnMedium
<1>. QED
  BY <1>4, <1>5, <1>6, <1>7

\* The same clients with a page cache, power losses included, in whatever
\* order blocks reach the medium: the invariant of GptDisk holds there too.
THEOREM CachedInvHolds == CachedSpec => []CachedInv
<1>1. CachedInit => CachedInv
  <2>. SUFFICES ASSUME CachedInit PROVE CachedInv
    OBVIOUS
  <2>1. IInv
    BY InitIInv DEF CachedInit
  <2>2. Whole \in Disks
    BY <2>1 DEF IInv, TypeOK, Whole, Disks
  <2>3. CacheTypeOK /\ SignedOnMedium
    BY <2>2 DEF CachedInit, CacheTypeOK, SignedOnMedium, Whole
  <2>. QED
    BY <2>1, <2>3 DEF CachedInv
<1>2. CachedInv /\ [CachedNext]_cachedVars => CachedInv'
  <2>. SUFFICES ASSUME CachedInv, [CachedNext]_cachedVars PROVE CachedInv'
    OBVIOUS
  <2>1. [Next]_vars => IInv'
    BY TypeStep, SignedStep, CrcStep, WritingStep, CommitStep DEF CachedInv, IInv
  <2>2. CASE CachedStep
    BY <2>1, <2>2, CacheStepKeeps DEF CachedStep, CachedInv
  <2>3. CASE Writeback
    BY <2>1, <2>3, WritebackKeeps DEF Writeback, CachedInv
  <2>4. CASE PowerLoss
    BY <2>4, LossKeeps
  <2>5. CASE UNCHANGED cachedVars
    <3>1. IInv'
      BY <2>1, <2>5 DEF cachedVars
    <3>2. CacheTypeOK' /\ SignedOnMedium'
      BY <2>5
      DEF cachedVars, vars, CachedInv, CacheTypeOK, SignedOnMedium, Whole
    <3>. QED
      BY <3>1, <3>2 DEF CachedInv
  <2>. QED
    BY <2>2, <2>3, <2>4, <2>5 DEF CachedNext
<1>. QED
  BY <1>1, <1>2, PTL DEF CachedSpec

\* What holds of the clients on a disk without a cache holds with one, through
\* losses of power in whatever order blocks reach the medium.
THEOREM CachedClients ==
    CachedSpec => [](CommitIsAtomic /\ CommittedIsThere) /\ StageIsKept
<1>1. CachedInv => CommitIsAtomic /\ CommittedIsThere
  BY IInvCommit DEF CachedInv, IInv
<1>2. CachedInv /\ [CachedNext]_cachedVars =>
        [/\ primary'.hdr.signed = primary.hdr.signed
         /\ secondary'.hdr.signed = secondary.hdr.signed]_vars
  <2>. SUFFICES ASSUME CachedInv, [CachedNext]_cachedVars
                PROVE  \/ /\ primary'.hdr.signed = primary.hdr.signed
                          /\ secondary'.hdr.signed = secondary.hdr.signed
                       \/ vars' = vars
    OBVIOUS
  <2>1. CASE CachedStep
    BY <2>1, SignaturesKept DEF CachedStep, CachedInv
  <2>2. CASE Writeback \/ UNCHANGED cachedVars
    BY <2>2 DEF Writeback, cachedVars
  <2>3. CASE PowerLoss
    BY <2>3, AfterLoss DEF PowerLoss
  <2>. QED
    BY <2>1, <2>2, <2>3 DEF CachedNext
<1>. QED
  BY <1>1, <1>2, CachedInvHolds, PTL DEF CachedSpec, StageIsKept
=============================================================================
