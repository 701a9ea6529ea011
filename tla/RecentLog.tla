----------------------------- MODULE RecentLog ------------------------------
(***************************************************************************)
(* What the query log promises its readers: the last Size queries, the     *)
(* newest first, numbered without a gap.                                   *)
(***************************************************************************)
EXTENDS Integers

CONSTANTS
    Size,       \* how many queries are kept
    Entries     \* what is known of a query

VARIABLES
    recent,     \* the queries kept: a function on 1 .. Kept(total)
    total       \* how many there have been

Kept(t) == IF t < Size THEN t ELSE Size

Init == recent = [i \in 1 .. 0 |-> 0] /\ total = 0

Log(e) ==
    /\ total' = total + 1
    /\ recent' = [i \in 1 .. Kept(total + 1) |->
                    IF i = 1 THEN [seq |-> total + 1, entry |-> e] ELSE recent[i - 1]]

Spec == Init /\ [][\E e \in Entries : Log(e)]_<<recent, total>>
=============================================================================
