------------------------------ MODULE MCEntryCache ------------------------------
(***************************************************************************)
(* EntryCache with two programs, addresses of four bits and entries of     *)
(* three: an address above 3 has the sign bit of an entry set.             *)
(***************************************************************************)
EXTENDS EntryCache

LowCode  == {1, 2, 3}
HighCode == {3, 4}
================================================================================
