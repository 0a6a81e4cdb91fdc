--------------------------- MODULE MCGpoSnapshot ---------------------------
(***************************************************************************)
(* GPT.INI, a script list that appears and a policy file that grows and    *)
(* goes; directory and GPT.INI are written one after the other and         *)
(* disagree in between.  Halves of one bit, which the last Version does    *)
(* not fit.                                                                *)
(***************************************************************************)
EXTENDS GpoSnapshot, Sequences

From0(s) == [v \in Versions |-> s[v + 1]]

MCContent ==
    [f \in Files |-> From0(
        CASE f = "GPT.INI"      -> <<"one", "two", "four">>
          [] f = "scripts.ini"  -> <<Missing, "logon", "logoff">>
          [] f = "Registry.pol" -> <<"policy", "policies", Missing>>)]

MCLength ==
    [f \in Files |-> From0(IF f = "Registry.pol" THEN <<1, 2, 0>> ELSE <<1, 1, 1>>)]

MCVersionNumber == From0(<<1, 1, 2>>)
MCGptNumber     == From0(<<1, 2, 4>>)

=============================================================================
