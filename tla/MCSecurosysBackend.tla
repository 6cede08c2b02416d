------------------------- MODULE MCSecurosysBackend -------------------------
(* Values of the constants of SecurosysBackend for its runs.               *)
EXTENDS SecurosysBackend, TLC

SymThreads == Permutations(Threads)

VaultPriv == <<"vault", "priv">>

OneSeed == {<<"s1", VaultPriv>>}
TwoSeedsBareLabel == {<<"s1", <<"vault">>>>, <<"s2", <<"vault">>>>}
TwoSeedsOneLabel == {<<"s1", VaultPriv>>, <<"s2", VaultPriv>>}

TwoPaths == {<<48>>, <<49>>}
AccountPath == {<< >>, <<48>>}

Neither == {[url |-> FALSE, jwt |-> FALSE]}
NoPath == {}
Both == {[url |-> TRUE, jwt |-> TRUE]}
AllEnvs == [url : BOOLEAN, jwt : BOOLEAN]
=============================================================================
