-------------------------------- MODULE MCPlioTx --------------------------------
(* Two halves, so that a torn word shows, and two control images.              *)
EXTENDS PlioTx

MCHalves == {0, 1}
MCResponses == {None, "Both"}
=============================================================================
