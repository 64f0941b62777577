----------------------------- MODULE MCJobQueue -----------------------------
(* Two threads that push, as the comment on the queue allows.              *)
EXTENDS JobQueue

TwoProducers == {"first", "second"}
=============================================================================
