---------------------------- MODULE MCBuddyAllocator ----------------------------
(* Small instances of BuddyAllocator: a root block of eight units.          *)
EXTENDS BuddyAllocator
=============================================================================
