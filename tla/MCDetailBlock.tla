---------------------------- MODULE MCDetailBlock ---------------------------
(* saving_block_detail alone: one run, two accounts. *)
EXTENDS DetailRun

MCRecords == {[body |-> 1, items |-> 1]}

MCBlockJob == {[kind |-> "parentless", ids |-> Ids, runs |-> 1, concurrency |-> 2]}
=============================================================================
