--------------------------- MODULE MCBleTransport ---------------------------
(* An image of four packets through a pool of two buffers. *)
EXTENDS BleTransport

MCIntervals == {0, 2}
=============================================================================
