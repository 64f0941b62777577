----------------------------- MODULE MCLiveFeed -----------------------------
(* A ring of two records; batches of one or two after a first of two.  *)
EXTENDS QtProgram

MCPackets == {"data"}
MCBatches == {1, 2}
=============================================================================
