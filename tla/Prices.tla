-------------------------------- MODULE Prices -------------------------------
(***************************************************************************)
(* What prices.py says of two vintages of one bar, as operators: when a    *)
(* bar is provisional, what splits do to it, and what a re-fetch restated. *)
(* A vintage is a record with a close, a volume that may be missing, and   *)
(* the moment it was fetched.  The other price columns are treated as the  *)
(* close is, and a market cap is never compared.                           *)
(***************************************************************************)
EXTENDS Integers, FiniteSets, FiniteSetsExt

CONSTANTS
  MomentsPerDay,   \* how finely a day is divided
  PointSources,    \* sources whose bar is the price a day begins with: CoinGecko
  NoValue          \* a column the source had nothing to say for

ASSUME PricesAssumption == MomentsPerDay \in Nat \ {0}

DayOf(moment) == moment \div MomentsPerDay

(* The columns detect_restatements compares. *)
Fields == {"close", "volume"}

(* is_provisional: fetched before the session could be known to have closed, or, for *)
(* the price a day begins with, before the day began. *)
IsProvisional(source, date, fetched) ==
  IF source \in PointSources THEN DayOf(fetched) < date ELSE DayOf(fetched) <= date

(* split_factor_after: the splits, a set of dated ratios, strictly after a date. *)
SplitFactorAfter(splits, when) ==
  MapThenFoldSet(LAMBDA x, y : x * y, 1, LAMBDA s : s.ratio, LAMBDA S : CHOOSE s \in S : TRUE,
                 {s \in splits : s.date > when})

(* _unchanged, for a rescale by num / den and without float noise. *)
Unchanged(old, new, num, den) ==
  \/ old = NoValue /\ new = NoValue
  \/ NoValue \notin {old, new} /\ (new = old \/ new * den = old * num)

(* Mutant of Restated: only the prices are compared. *)
RestatedCloses(stored, incoming, factor) ==
  {f \in {"close"} : ~ Unchanged(stored[f], incoming[f], 1, factor)}

(* Mutant of Restated: a split is taken to divide volume as it divides prices. *)
RestatedAsPrices(stored, incoming, factor) ==
  {f \in Fields : ~ Unchanged(stored[f], incoming[f], 1, factor)}

(* detect_restatements: a split divides prices and multiplies volume. *)
Restated(stored, incoming, factor) ==
  {f \in Fields :
     ~ IF f = "volume" THEN Unchanged(stored[f], incoming[f], factor, 1)
                       ELSE Unchanged(stored[f], incoming[f], 1, factor)}

(* Mutant of Replaces: what comes last stands. *)
ReplacesAlways(incoming, stored) == TRUE

(* upsert_bars, of one stored bar: an older vintage is skipped. *)
Replaces(incoming, stored) == incoming.fetched >= stored.fetched
=============================================================================
