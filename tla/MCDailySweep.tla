---------------------------- MODULE MCDailySweep ----------------------------
(* A small instance of DailySweep: a declared universe, portfolio-held, two *)
(* coins, and two days.                                                     *)
EXTENDS DailySweep, TLC

CONSTANTS btc, eth, top

(* A configuration that stays, and one whose band is widened and narrowed.  *)
Configured(exits) ==
  { << [name |-> top, band |-> [enter |-> 1, exit |-> exit]] >> : exit \in exits }
OneBand  == Configured({2})
TwoBands == Configured({1, 2})

(* Both coins listed or one of them, and both listed in either order. *)
OneOrBoth   == { btc :> 1 @@ eth :> 2, btc :> 1 }
EitherOrder == { btc :> 1 @@ eth :> 2, btc :> 2 @@ eth :> 1 }
=============================================================================
