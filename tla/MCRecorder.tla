------------------------------ MODULE MCRecorder ------------------------------
(* Recorder for TLC: five requests against queues of one and batches of    *)
(* two.  Three are billed, one of them a check's bill without a usage row. *)
(* Postgres refuses the rows of r1 and b1, and the bills of b2.            *)
EXTENDS Recorder, TLC

CONSTANTS r1, r2, b1, b2, b3

MCEvents    == {r1, r2, b1, b2, b3}
MCBilled    == {b1, b2, b3}
MCBillsOnly == {b3}
MCBadRow    == {r1, b1}
MCBadBills  == {b2}
=============================================================================
