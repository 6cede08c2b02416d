--------------------------- MODULE MCTaprootVault ---------------------------
(* Values of the constants of TaprootVault for its runs.                   *)
EXTENDS TaprootVault

VaultPriv == <<"vault", "priv">>
OtherPriv == <<"other", "priv">>
OneSeed == {<<"s1", VaultPriv>>}
OneSeedPerLabel == {<<"s1", VaultPriv>>, <<"s2", OtherPriv>>, <<"empty", VaultPriv>>}
AccountPath == {<< >>, <<86>>}
Leaves == {<<5>>}
AllEnvs == [url : BOOLEAN, jwt : BOOLEAN]
=============================================================================
