------------------------- MODULE MCPostingSessions -------------------------
(* PostingSessions with two threads and two invoices of one customer. *)
EXTENDS PostingSessions
=============================================================================
