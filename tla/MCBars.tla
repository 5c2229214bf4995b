------------------------------- MODULE MCBars --------------------------------
(***************************************************************************)
(* The three machines about bars, in one run: each behaviour moves one, and *)
(* leaves the others where they begin.                                      *)
(***************************************************************************)
EXTENDS BarVintages, Backfill, TLC

CONSTANTS yahoo, coingecko, none,
          usd, eur, usd_usd, eur_usd, free, b1, b2

MCFirstQuote == [close |-> 4, volume |-> 2]
MCQuotes == {MCFirstQuote, [close |-> 12, volume |-> none]}

ASSUME QuotesAssumption == QuotesTell /\ QuotesDivide

MCOffset == yahoo :> 0 @@ coingecko :> 1
MCPriceSources == <<yahoo, coingecko>>
MCStays == {[member |-> 2, from |-> 0, to |-> 2], [member |-> 3, from |-> 1, to |-> 9]}

(* Two coins whose prices are one, but for a session; the first Instrument was typed. *)
MCNamed == 1 :> none @@ 2 :> usd @@ 3 :> eur
MCCandidates == 1 :> <<usd_usd>> @@ 2 :> <<usd_usd>> @@ 3 :> <<usd_usd, eur_usd>>
MCCoinClose == usd :> [s \in -1..3 |-> 1] @@ eur :> [s \in -1..3 |-> IF s = 1 THEN 2 ELSE 1]
MCTickerClose == usd_usd :> MCCoinClose[usd] @@ eur_usd :> MCCoinClose[eur]
MCListed == usd_usd :> 0..2 @@ eur_usd :> 1..2
RunSymmetry == Permutations({b1, b2})

VARIABLE part

BarsInit ==
  /\ part \in {"vintages", "history", "backfill"}
  /\ VintagesInit /\ BackfillInit
  /\ part # "vintages" => source = yahoo

InVintages == part = "vintages" /\ UNCHANGED <<part, backfillVars>>
InHistory == part = "history" /\ UNCHANGED <<part, day, coin, pairs, lock, run, vintagesVars>>
InBackfill == part = "backfill" /\ UNCHANGED <<part, vintagesVars>>

BarsNext ==
  \/ InVintages /\ Tick
  \/ \E d \in Dates, q \in Quotes : InVintages /\ Restate(d, q)
  \/ \E missing \in {{}} \cup {{d} : d \in Dates} : InVintages /\ Fetch(missing)
  \/ \E f \in fetches : InVintages /\ Deliver(f)
  \/ \E i \in Instruments, from \in Sources, date \in Days : InHistory /\ PutBar(i, from, date)
  \/ \E i, j \in Instruments : InHistory /\ Supersede(i, j)
  \/ InBackfill /\ NextDay
  \/ \E i, j \in Instruments, named \in BOOLEAN : InBackfill /\ Merge(i, j, named)
  \/ \E priced \in Listings : InBackfill /\ Sweep(priced)
  \/ \E p \in Runs, taken \in kSubset(MaxTargets, Instruments) : InBackfill /\ Begin(p, taken)
  \/ \E p \in Runs : InBackfill /\ Skip(p)
  \/ \E p \in Runs : InBackfill /\ Abandon(p)
  \/ \E p \in Runs, absent \in {{}, Days} : InBackfill /\ Chart(p, absent)
  \/ \E p \in Runs : InBackfill /\ EnterChart(p)
  \/ \E p \in Runs : InBackfill /\ WriteChart(p)
  \/ \E p \in Runs : InBackfill /\ Known(p)
  \/ \E p \in Runs : InBackfill /\ Unpaired(p)
  \/ \E p \in Runs : InBackfill /\ RecordPair(p)
  \/ \E p \in Runs, fails \in BOOLEAN : InBackfill /\ TryPair(p, fails)
  \/ \E p \in Runs : InBackfill /\ EnterYahoo(p)
  \/ \E p \in Runs : InBackfill /\ WriteYahoo(p)

BarsSpec == BarsInit /\ [][BarsNext]_<<part, vintagesVars, backfillVars>>

(* The types of the vintages, the Bar table, the registry and the runs, the lock held *)
(* by the one run that is writing (backfill.py:348, 463). *)
BarsTypeOK == VintagesTypeOK /\ BackfillTypeOK

(* ReadsAgree, asked where rows and Supersessions are free. *)
HistoryReadsAgree == part = "history" => ReadsAgree
=============================================================================
