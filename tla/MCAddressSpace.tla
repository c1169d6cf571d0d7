--------------------------- MODULE MCAddressSpace ---------------------------
(***************************************************************************)
(* AddressSpace for TLC: ten frames, tables of two entries, two tables of  *)
(* user pages and two of heap pages, a stack of one page, three spawns.    *)
(***************************************************************************)
EXTENDS AddressSpace

(* A program that ends inside its only page, in the page table the stack    *)
(* is in; and one whose text and data are in two tables.                    *)
Programs == {{[vaddr |-> 5, memsz |-> 1]},
             {[vaddr |-> 3, memsz |-> 1], [vaddr |-> 4, memsz |-> 1]}}
=============================================================================
