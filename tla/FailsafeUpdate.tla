--------------------------- MODULE FailsafeUpdate ---------------------------
(***************************************************************************)
(* What the boot update of gpt-utils promises, with no partition table in  *)
(* it: every unit of boot-critical images exists in two copies, the boot   *)
(* loader uses exactly one of them (the live copy), an update only ever    *)
(* writes the other one, and the live copy moves only to a copy that is    *)
(* complete.  A device that obeys this can lose power between any two      *)
(* steps and still start.  The one thing that the device has to do for it  *)
(* is to write a table whole when it says so: while a unit's table is cut  *)
(* short, the main copy may be left for a backup that is not found.        *)
(* BootUpdate is shown to implement this.                                  *)
(***************************************************************************)
CONSTANT Units               \* the units of images that have two copies

Copies   == {"main", "bak"}
Contents == {"old", "new", "torn"}
Nothing  == "nothing"

VARIABLES live,              \* the copy of each unit the boot loader uses
          content,           \* what is in each copy of each unit
          cut                \* the units whose backup table was cut short

failsafeVars == <<live, content, cut>>

FailsafeTypeOK ==
    /\ live    \in [Units -> Copies \cup {Nothing}]
    /\ cut     \subseteq Units
    /\ content \in [Units -> [Copies -> Contents]]

FailsafeInit ==
    /\ live    = [u \in Units |-> "main"]
    /\ content = [u \in Units |-> [c \in Copies |-> "old"]]
    /\ cut     = {}

(***************************************************************************)
(* The live copies of some units move at once (one GPT serves every image  *)
(* of its disk); each one that moves lands on a complete copy.             *)
(***************************************************************************)
MoveLive ==
    /\ live' \in [Units -> Copies \cup {Nothing}]
    /\ \A u \in Units : live'[u] # live[u] =>
          IF live'[u] = Nothing THEN u \in cut /\ live[u] = "main"
                                ELSE content[u][live'[u]] # "torn"
    /\ UNCHANGED <<content, cut>>

(***************************************************************************)
(* A backup table is written, whole or not, while another one is in use.   *)
(***************************************************************************)
WriteTable(u) ==
    /\ live[u] = "main"
    /\ cut' \in {cut \cup {u}, cut \ {u}}
    /\ UNCHANGED <<live, content>>

(***************************************************************************)
(* Writing a copy is not atomic; only a copy that is not live is written.  *)
(***************************************************************************)
StartWrite(u, c) ==
    /\ c # live[u]
    /\ content' = [content EXCEPT ![u][c] = "torn"]
    /\ UNCHANGED <<live, cut>>

FinishWrite(u, c) ==
    /\ content[u][c] = "torn"
    /\ content' = [content EXCEPT ![u][c] = "new"]
    /\ UNCHANGED <<live, cut>>

\* The next package: everything installed so far is what it will replace.
NextPackage ==
    /\ \A u \in Units : \A c \in Copies : content[u][c] = "new"
    /\ content' = [u \in Units |-> [c \in Copies |-> "old"]]
    /\ UNCHANGED <<live, cut>>

FailsafeNext ==
    \/ MoveLive
    \/ \E u \in Units : WriteTable(u)
    \/ \E u \in Units, c \in Copies : StartWrite(u, c) \/ FinishWrite(u, c)
    \/ NextPackage

FailsafeSpec == FailsafeInit /\ [][FailsafeNext]_failsafeVars

(***************************************************************************)
(* The promise itself: the copy that is used to start is never incomplete, *)
(* and there is one unless the unit's table was cut short.                 *)
(***************************************************************************)
LiveIsComplete ==
    \A u \in Units : IF live[u] = Nothing THEN u \in cut
                                        ELSE content[u][live[u]] # "torn"
=============================================================================
