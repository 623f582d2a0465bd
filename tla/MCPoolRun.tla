-------------------------------- MODULE MCPoolRun -------------------------------
(***************************************************************************)
(* PoolRun for TLC: three connections, which is one for each job and one   *)
(* for the statements beside; the calls whose loss makes a difference.     *)
(***************************************************************************)
EXTENDS PoolRun

MCOrder == <<"c1", "c2", "c3">>
MCMarket == <<"market">>
MCUnderlying == <<"token">>
MCKey == RowKey
MCLost == {{"underlying"}, {"markets"}}
=============================================================================
