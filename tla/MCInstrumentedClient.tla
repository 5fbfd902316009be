------------------------ MODULE MCInstrumentedClient ------------------------
(* A sink with every hook, one with observe_request only and one that also  *)
(* defines on_request_end but no on_request_start; two instrument() blocks  *)
(* that may overlap, at least one of them for the sink with every hook.     *)
EXTENDS InstrumentedClient

MCStatus == {200, 503}
MCOneStatus == {503}

MCInit == Init /\ \E b \in Block : asked[b] \in StartSinks \cap EndSinks
MCSpec == MCInit /\ [][Next]_vars

Symmetry == Permutations(Block)
=============================================================================
