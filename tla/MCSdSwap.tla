------------------------------- MODULE MCSdSwap -------------------------------
\* SoftDevices of six and seven pages replaced by smaller, equal and larger ones,
\* with and without pages that both have; and a bootloader alone.
EXTENDS SdSwap

U(installed, received, bl, same) ==
  [installed |-> installed, received |-> received, bl |-> bl, same |-> same]

Shared == {{}, {0, 1}, 3 .. 5, {0, 1, 4, 5, 6}, 0 .. 9}

Moves ==
  {u \in {U(i, r, b, s) : i \in {6, 7}, r \in {0, 4} \cup 6 .. 10, b \in BOOLEAN, s \in Shared} :
     /\ u.received <= u.installed + 3
     /\ u.received # u.installed => InfoPage \notin u.same
     /\ u.received = u.installed + 1 => ~(3 .. 5 \subseteq u.same)}
=============================================================================
