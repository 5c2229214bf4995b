--------------------------- MODULE MCIdentityStore --------------------------
(***************************************************************************)
(* Two coins swept from CoinGecko, and the same coins typed by a person    *)
(* with the FIGI answers, misses and outages that may come with them.      *)
(***************************************************************************)
EXTENDS IdentityStore

CONSTANTS coin, coingecko, figi, cg, shareClass, A, B, noIssuer

MCIdentitySource == coin :> coingecko

Ref(g, v) == [group |-> g, value |-> v]

Coin(symbol, day, refs, outcome) ==
  [kind |-> coin, symbol |-> symbol, at |-> day, source |-> coingecko, issuer |-> noIssuer,
   refs |-> refs, figi |-> outcome]

Listed(symbol, day, v) == Coin(symbol, day, {Ref(cg, v)}, NotAttempted)

MCListings ==
  { <<Listed(A, 1, 1), Listed(B, 1, 2)>>, <<Listed(B, 2, 2), Listed(B, 2, 1)>> }

MCCoinIds == (A :> {1}) @@ (B :> {1, 2})

MCSightings ==
  { Coin(A, 1, {Ref(figi, 1)}, Resolved), Coin(B, 2, {Ref(figi, 2)}, Resolved),
    Coin(A, 1, {}, NotFound), Coin(B, 1, {}, NotAttempted) }

MCFigiAnswers == { {Ref(figi, 1)}, {Ref(figi, 2)} }
=============================================================================
