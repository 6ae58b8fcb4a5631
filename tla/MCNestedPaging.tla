--------------------------- MODULE MCNestedPaging ---------------------------
(* NestedPaging for TLC: tables of two entries, so that four levels map 16 *)
(* frames, and an allocator that returns the first free page.              *)
EXTENDS NestedPaging, FiniteSetsExt

CONSTANTS t1, t2, m1, m2

FirstFree(S) == IF S = {} THEN {} ELSE {Min(S)}

TwoEntrySpan == <<1, 2, 4, 8>>

(* Each process has its own vm.                                            *)
Separate == [m \in Vmms |-> IF m = m1 THEN {t1} ELSE {t2}]

(* Both threads have the file of every vm.                                 *)
Shared == [m \in Vmms |-> Threads]
=============================================================================
