----------------------------- MODULE BarVintages -----------------------------
(***************************************************************************)
(* The stored vintage of each bar of one Instrument from one source, the   *)
(* splits on file, and the Restatements (ADR-0009).  Every fetch is one    *)
(* answer of the vendor to upsert_bars, which may get it late, out of      *)
(* order, and more than once.  The vendor rescales its history when it     *)
(* splits, moves a session while it lasts, and now and then rewrites one.  *)
(***************************************************************************)
EXTENDS Prices

CONSTANTS
  Feeds,           \* the sources: Yahoo or CoinGecko
  Dates,
  Ratio,           \* what a split divides prices by
  Quotes,          \* what a session may have closed at, before any split
  FirstQuote,      \* what every session closes at until the vendor says otherwise
  LastMoment, MaxFetches, MaxSplits, MaxRewrites   \* bounds

ASSUME VintagesAssumption ==
  /\ Dates \subseteq Nat /\ Ratio \in Nat \ {0}
  /\ FirstQuote \in Quotes
  /\ \A q \in Quotes : q.close \in Nat /\ q.volume \in Nat \cup {NoValue}
  /\ LastMoment \in Nat /\ MaxSplits \in Nat

VARIABLES
  source,          \* the source the bars are from
  now,
  said,            \* the vendor's account of each session, before any split
  split,           \* the splits the vendor has had
  rewritten,       \* the closed sessions whose account the vendor has changed
  fetches,         \* the answers fetched, each of them delivered or not, or again
  delivered,
  bars,            \* the vintage stored for each date that has one
  filed,           \* the splits on file
  restatements

vendor == <<source, now, said, split, rewritten>>
stored == <<bars, filed, restatements>>
vintagesVars == <<source, now, said, split, rewritten, fetches, delivered, bars, filed, restatements>>

(* Bar, CorporateAction and Restatement; a Bar's account is the vendor's at the time. *)
Bar == [close : Nat, volume : Nat \cup {NoValue}, account : Quotes, fetched : 0..LastMoment]
Splits == [date : Dates, ratio : {Ratio}]
Restatement == [date : Dates, field : Fields, old : Nat \cup {NoValue}, new : Nat \cup {NoValue},
                at : 0..LastMoment]

VintagesTypeOK ==
  /\ source \in Feeds
  /\ now \in 0..LastMoment
  /\ said \in [Dates -> Quotes]
  /\ split \subseteq Splits /\ filed \subseteq split
  /\ rewritten \subseteq Dates
  /\ delivered \subseteq fetches
  /\ DOMAIN bars \subseteq Dates
  /\ \A d \in DOMAIN bars : bars[d] \in Bar /\ bars[d].fetched <= now
  /\ restatements \subseteq Restatement
  /\ \A r \in restatements : r.date \in DOMAIN bars /\ r.at <= now

VintagesInit ==
  /\ source \in Feeds
  /\ now = 0
  /\ said = [d \in Dates |-> FirstQuote]
  /\ split = {} /\ rewritten = {}
  /\ fetches = {} /\ delivered = {}
  /\ bars = <<>> /\ filed = {} /\ restatements = {}

-----------------------------------------------------------------------------
(* The vendor, chosen freely. *)

(* A session's account on the scale of its splits. *)
Rescaled(q, by) ==
  [close |-> q.close \div by,
   volume |-> IF q.volume = NoValue THEN NoValue ELSE q.volume * by,
   account |-> q]

(* What it serves of a session: closes after a split are on another scale. *)
Served(d) == Rescaled(said[d], SplitFactorAfter(split, d))

(* Time passes; a split takes effect as a day begins. *)
Tick ==
  /\ now < LastMoment
  /\ now' = now + 1
  /\ \/ UNCHANGED split
     \/ /\ DayOf(now') > DayOf(now) /\ DayOf(now') \in Dates
        /\ Cardinality(split) < MaxSplits
        /\ split' = split \cup {[date |-> DayOf(now'), ratio |-> Ratio]}
  /\ UNCHANGED <<source, said, rewritten, fetches, delivered>> /\ UNCHANGED stored

(* A session under way moves; a closed one is rewritten. *)
Restate(d, q) ==
  /\ d <= DayOf(now) /\ q # said[d]
  /\ said' = [said EXCEPT ![d] = q]
  /\ IF IsProvisional(source, d, now)
     THEN UNCHANGED rewritten
     ELSE /\ Cardinality(rewritten) < MaxRewrites
          /\ rewritten' = rewritten \cup {d}
  /\ UNCHANGED <<source, now, split, fetches, delivered>> /\ UNCHANGED stored

(* bars_from_yahoo: a session without a close has no bar, and the split in its row goes *)
(* with it. *)
BarsFromFrame(missing) ==
  LET served == {d \in Dates : d <= DayOf(now)} \ missing
  IN [at |-> now,
      rows |-> [d \in served |-> Served(d)],
      splits |-> {s \in split : s.date \in served},
      lost |-> {s \in split : s.date \in missing}]

Fetch(missing) ==
  /\ Cardinality(fetches) < MaxFetches
  /\ fetches' = fetches \cup {BarsFromFrame(missing)}
  /\ UNCHANGED delivered /\ UNCHANGED vendor /\ UNCHANGED stored

-----------------------------------------------------------------------------
(* The splits on file once a fetch's own are written. *)
Explanations(f) == filed \cup f.splits

(* The vintage a fetch brings of a date. *)
Vintage(f, d) ==
  [close |-> f.rows[d].close, volume |-> f.rows[d].volume, account |-> f.rows[d].account,
   fetched |-> f.at]

(* The Restatement filed of one field of a stored bar. *)
Filed(d, field, vintage, at) ==
  [date |-> d, field |-> field, old |-> bars[d][field], new |-> vintage[field], at |-> at]

(* upsert_bars: the splits first, then every bar, in one transaction. *)
Upsert(f) ==
  LET held == DOMAIN f.rows \cap DOMAIN bars
      taken == {d \in held : Replaces(Vintage(f, d), bars[d])}
      compared == {d \in taken : ~ IsProvisional(source, d, bars[d].fetched)}
      changes(d) == Restated(bars[d], Vintage(f, d), SplitFactorAfter(Explanations(f), d))
  IN /\ filed' = Explanations(f)
     /\ bars' = [d \in DOMAIN bars \cup DOMAIN f.rows |->
                   IF d \in taken \cup (DOMAIN f.rows \ held) THEN Vintage(f, d) ELSE bars[d]]
     /\ restatements' = restatements \cup
          UNION {{Filed(d, x, Vintage(f, d), f.at) : x \in changes(d)} : d \in compared}

Deliver(f) ==
  /\ Upsert(f)
  /\ delivered' = delivered \cup {f}
  /\ UNCHANGED fetches /\ UNCHANGED vendor

VintagesNext ==
  \/ Tick
  \/ \E d \in Dates, q \in Quotes : Restate(d, q)
  \/ \E missing \in {{}} \cup {{d} : d \in Dates} : Fetch(missing)
  \/ \E f \in fetches : Deliver(f)

VintagesSpec == VintagesInit /\ [][VintagesNext]_vintagesVars

-----------------------------------------------------------------------------
(* What splits may rescale a session by; that no rescaling passes one account for *)
(* another, and that none is lost to rounding. *)
Rescales ==
  {SplitFactorAfter(S, d) : S \in {S \in SUBSET Splits : Cardinality(S) <= MaxSplits}, d \in Dates}

QuotesTell ==
  \A q, p \in Quotes, m, n, k \in Rescales :
    /\ q.close # p.close => ~ Unchanged(Rescaled(q, m).close, Rescaled(p, n).close, 1, k)
    /\ q.volume # p.volume => ~ Unchanged(Rescaled(q, m).volume, Rescaled(p, n).volume, k, 1)

QuotesDivide ==
  \A q \in Quotes, m \in Rescales :
    /\ Unchanged(Rescaled(q, 1).close, Rescaled(q, m).close, 1, m)
    /\ Unchanged(Rescaled(q, 1).volume, Rescaled(q, m).volume, m, 1)

-----------------------------------------------------------------------------
(* Properties. *)

(* store.py:1826: whatever the order and however often fetches arrive, every date *)
(* holds the newest vintage that came for it, and a date that came once is kept. *)
NewestVintageStands ==
  \A f \in delivered : \A d \in DOMAIN f.rows :
    /\ d \in DOMAIN bars
    /\ bars[d].fetched >= f.at
    /\ \E g \in delivered : /\ d \in DOMAIN g.rows /\ g.at = bars[d].fetched
                            /\ g.rows[d].close = bars[d].close
                            /\ g.rows[d].volume = bars[d].volume

(* prices.py:404: no stored vintage of a closed session gives way to another account *)
(* of it without a Restatement, per column that differs, of what was there and what came. *)
RewritesAreFiled ==
  [][\A d \in DOMAIN bars : ~ IsProvisional(source, d, bars[d].fetched) =>
       \A f \in Fields : bars'[d].account[f] # bars[d].account[f] =>
         \E r \in restatements' :
           /\ r.date = d /\ r.field = f /\ r.at = bars'[d].fetched
           /\ r.old = bars[d][f] /\ r.new = bars'[d][f]]_vintagesVars

(* docs/adr/0009: a split, or a session under way, is no Restatement: the vendor must *)
(* have rewritten a closed session for one to be filed, unless a split was lost with *)
(* its session's close. *)
NothingFiledUnlessRewritten ==
  (\A f \in fetches : f.lost = {}) => \A r \in restatements : r.date \in rewritten
=============================================================================
