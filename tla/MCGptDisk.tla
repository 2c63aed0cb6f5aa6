----------------------------- MODULE MCGptDisk -----------------------------
(* GptDisk and its page cache on a small disk.                             *)
EXTENDS GptDiskCached
=============================================================================
