----------------------------- MODULE MCUf2Disk -----------------------------
\* UF2 files for model checking: pages of two blocks, four of which are the
\* application's space; the last page is where a new bootloader is received.
EXTENDS Uf2Disk

At(a)       == [space |-> "app", at |-> a, id |-> "none"]
BootAt(k, id) == [space |-> "boot", at |-> k, id |-> id]
Uicr(id)    == [space |-> "uicr", at |-> 0, id |-> id]
Elsewhere(s) == [space |-> s, at |-> 0, id |-> "none"]

UF2(name, family, targets) ==
  [name |-> name, family |-> family, numBlocks |-> Cardinality(DOMAIN targets),
   target |-> [n \in 0 .. Cardinality(DOMAIN targets) - 1 |-> targets[n + 1]]]

Was   == UF2("was", "app", <<At(0), At(2)>>)
Next1 == UF2("next1", "app", <<At(0), At(1), At(2)>>)
Next2 == UF2("next2", "app", <<Elsewhere("mbr"), At(0), At(3)>>)
Long  == UF2("long", "app", <<At(0), At(1), At(2), At(3)>>)
Stray == UF2("stray", "app", <<At(1), Elsewhere("other")>>)
Boot1 == UF2("boot1", "boot", <<BootAt(0, "none"), BootAt(1, "ours"), Uicr("ours")>>)
Boot2 == UF2("boot2", "boot", <<BootAt(1, "theirs"), BootAt(0, "none"), Uicr("ours")>>)
Boot3 == UF2("boot3", "boot", <<BootAt(0, "ours"), BootAt(1, "none")>>)
Boot4 == UF2("boot4", "boot", <<BootAt(0, "ours"), Uicr("theirs")>>)
Boot5 == UF2("boot5", "boot", <<BootAt(0, "ours"), BootAt(1, "theirs"), Uicr("ours")>>)

AllFiles == {Was, Next1, Next2, Long, Stray, Boot1, Boot2,
             Boot3, Boot4, Boot5}
\* Those whose copy completes or is refused, however often it is tried.
EndingFiles == AllFiles \ {Long, Stray}
=============================================================================
