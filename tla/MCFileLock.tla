----------------------------- MODULE MCFileLock -----------------------------
(* FileLock for TLC: three runs, one careful operator, inode numbers that   *)
(* are reused after every unlink.                                           *)
EXTENDS FileLock
==============================================================================
