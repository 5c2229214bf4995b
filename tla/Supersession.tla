---------------------------- MODULE Supersession ----------------------------
(***************************************************************************)
(* Supersession: one Instrument found to be another, recorded on the loser *)
(* and folded by every read.  Instruments are numbered in mint order.      *)
(***************************************************************************)
EXTENDS Integers

None == 0   \* superseded_by of a survivor

(* Every Instrument to the fixed point of its Supersession chain. *)
Fold(links) ==
  LET end[i \in DOMAIN links] == IF links[i] = None THEN i ELSE end[links[i]]
  IN  end
=============================================================================
