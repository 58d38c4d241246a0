---------------------------- MODULE MCApprovals ----------------------------
(* Approvals with two threads, two users, a sales document and a journal entry. *)
EXTENDS Approvals, TLC

Symmetry == Permutations(Clients) \cup Permutations(Users)
=============================================================================
