---------------------------- MODULE MCWithdrawals ----------------------------
(***************************************************************************)
(* Two lots of different sources, of one unit each; a withdrawal that one  *)
(* lot covers and one that needs both.                                     *)
(***************************************************************************)
EXTENDS Withdrawals, TLC

CONSTANTS d1, d2

MCWithdrawalIds == {d1, d2}
MCOriginal == <<1, 1>>
MCSource   == <<"STOREFRONT", "QRIS_API">>
MCAmount   == (d1 :> 1) @@ (d2 :> 2)

WithdrawalSymmetry == Permutations(Goroutines)
=============================================================================
