----------------------------- MODULE MCBootMode -----------------------------
\* The kinds of board: with and without a DFU button, over-the-air by default,
\* and the nRF52832.
EXTENDS BootMode

Kind(nrf52832, default_to_ota, button) ==
  [nrf52832 |-> nrf52832, default_to_ota |-> default_to_ota, button |-> button]

AllBoards == {Kind(FALSE, FALSE, FALSE), Kind(FALSE, FALSE, TRUE),
              Kind(FALSE, TRUE, FALSE), Kind(TRUE, FALSE, TRUE)}
=============================================================================
