------------------------------- MODULE Device -------------------------------
(***************************************************************************)
(* What a page keeps on the device: the messages of a group (Conversation, *)
(* with a reader, Paging) and the accounts whose data stays                *)
(* (StorageManager).  They share no variable.                              *)
(***************************************************************************)
EXTENDS Paging

CONSTANTS Address, StorageBounds    \* of StorageManager

VARIABLES entries, stored, marked, hashes, prefix, init, scans, now, skipped, excused, storageLeft

storage == <<entries, stored, marked, hashes, prefix, init, scans, now, skipped, excused, storageLeft>>

Storage == INSTANCE StorageManager WITH left <- storageLeft, Bounds <- StorageBounds

-----------------------------------------------------------------------------
\* The data on the device is of accounts that can still be evicted, and that
\* of the account in use stays (StorageManager).
AccountsKept == Storage!AccountsKept
=============================================================================
