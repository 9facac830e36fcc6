----------------------------- MODULE MCDfuBank -----------------------------
(* Small instances of DfuBank: a bank of two pages. *)
EXTENDS DfuBank

Image(name, kind, sd, bl, app) ==
  [name |-> name, kind |-> kind, sd |-> sd, bl |-> bl, app |-> app]

OldApp == Image("old", {"app"}, 0, 0, 2)
NewApp == Image("app", {"app"}, 0, 0, 2)
NewSd  == Image("sd", {"sd"}, 2, 0, 0)
NewBl  == Image("bl", {"bl"}, 0, 1, 0)
Both   == Image("sdbl", {"sd", "bl"}, 1, 1, 0)
TooBig == Image("big", {"app"}, 0, 0, 3)
BigBl  == Image("bigbl", {"bl"}, 0, 2, 0)
Mixed  == Image("mixed", {"app", "sd"}, 1, 0, 1)

AllHost   == {NewApp, TooBig, NewSd, NewBl, Both, BigBl, Mixed}
AppHost   == {NewApp, TooBig}
MixedHost == {NewApp, NewSd}

AllImages   == AllHost \cup {OldApp}
AppImages   == AppHost \cup {OldApp}
MixedImages == MixedHost \cup {OldApp}
=============================================================================
