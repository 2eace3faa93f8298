------------------------------ MODULE MCBatchQueue -----------------------------
(* A small instance of BatchQueue for TLC: two full batches' worth of       *)
(* requests, numbered, as only their order in the queue matters.            *)
EXTENDS BatchQueue

MCMaxBatch == 2
MCRequests == 1 .. 2 * MCMaxBatch
===============================================================================
