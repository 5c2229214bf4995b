------------------------ MODULE MCInstrumentRegistry ------------------------
(***************************************************************************)
(* A small market for InstrumentRegistry: coins swept from CoinGecko under *)
(* its own ids, the same coins typed by a person with a FIGI answer, a     *)
(* miss or an outage, and a stock that one FIGI is wrongly claimed for.    *)
(***************************************************************************)
EXTENDS InstrumentRegistry, TLC

CONSTANTS coin, stock, yahoo, coingecko, figi, cg, shareClass, A, B, acme, noIssuer

MCIdentitySource == (coin :> coingecko) @@ (stock :> yahoo)

Ref(g, v) == [group |-> g, value |-> v]

(* A coin on a sweep's listing. *)
Listed(symbol, day, v) ==
  [kind |-> coin, symbol |-> symbol, at |-> day, source |-> coingecko, issuer |-> noIssuer,
   refs |-> {Ref(cg, v)}, figi |-> NotAttempted]

(* A coin a person typed, and what FIGI resolution made of it. *)
Typed(symbol, day, refs, outcome) ==
  [kind |-> coin, symbol |-> symbol, at |-> day, source |-> yahoo, issuer |-> acme,
   refs |-> refs, figi |-> outcome]

(* A typed equity: a composite FIGI beside its share class. *)
Equity(day, v) ==
  [kind |-> stock, symbol |-> A, at |-> day, source |-> yahoo, issuer |-> acme,
   refs |-> {Ref(figi, v), Ref(shareClass, 1)}, figi |-> Resolved]

MCObservations ==
  { Listed(A, 1, 1), Listed(B, 2, 1), Listed(A, 2, 2),
    Typed(A, 1, {Ref(figi, 1)}, Resolved),
    Typed(A, 2, {Ref(figi, 1), Ref(cg, 1)}, Resolved),
    Typed(B, 1, {Ref(figi, 1), Ref(cg, 2)}, Resolved),
    Typed(A, 2, {}, NotFound),
    Typed(B, 2, {Ref(figi, 2), Ref(shareClass, 1)}, Resolved),
    Equity(1, 2), Equity(2, 3) }
=============================================================================
