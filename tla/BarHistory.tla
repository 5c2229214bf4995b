----------------------------- MODULE BarHistory ------------------------------
(***************************************************************************)
(* The bars of a family of Instruments, as Supersession leaves them, and    *)
(* how they are read: one Instrument at a time (Store.bars_for) and in      *)
(* bulk (Store.resolved_bars, close_pairs), by session or as stamped.       *)
(***************************************************************************)
EXTENDS Supersession, FiniteSets, FiniteSetsExt, SequencesExt

CONSTANTS
  Instruments,     \* 1..n, in mint order
  PriceSources,    \* the coins' Price Sources, preferred first
  Sources,
  Offset,          \* Session Offset: the days a bar's stamp is past its session
  Days,
  Stays,           \* memberships stored for one universe: [member, from, to]
  NoBar,
  MaxRows          \* bound

ASSUME InstrumentsAssumption ==
  IsFiniteSet(Instruments) /\ Instruments = 1..Cardinality(Instruments)

ASSUME SourcesAssumption ==
  /\ PriceSources \in Seq(Sources) /\ PriceSources # <<>> /\ IsInjective(PriceSources)
  /\ "resolved" \notin Sources /\ Offset \in [Sources -> {0, 1}]

ASSUME DaysAssumption == Days \subseteq Nat /\ \E first, last \in Days : Days = first..last

ASSUME StaysAssumption ==
  \A s \in Stays : s.member \in Instruments /\ s.from \in Int /\ s.to \in Int

VARIABLES
  links,           \* Instrument -> the Instrument it is superseded by
  rows             \* the Bar table: at most one row per Instrument, source and date

Resolved == "resolved"   \* no source named: resolve through the Price Sources
Readings == Sources \cup {Resolved}

BarRow == [instrument : Instruments, source : Sources, date : Days, fetched : Days, close : Nat]

ASSUME NoBarAssumption == NoBar \notin BarRow

Survivor(i) == Fold(links)[i]
Survivors == {Survivor(i) : i \in Instruments}
Family(i) == LET end == Fold(links) IN {j \in Instruments : end[j] = end[i]}

SessionOf(source, date) == date - Offset[source]

(* upsert_bars, of bars none of which is older than what it replaces. *)
Upserted(new) ==
  {r \in rows : ~ \E n \in new : <<n.instrument, n.source, n.date>> = <<r.instrument, r.source, r.date>>}
    \cup new

-----------------------------------------------------------------------------
(* bars_for: one Instrument, as a function of the dates it has a bar for. *)

Preference(reading) == IF reading = Resolved THEN PriceSources ELSE <<reading>>

(* Mutant of Lead: the scan stops at the range's last date. *)
NoLead(reading) == 0

(* How much later than the range of sessions the stamps to scan may be. *)
Lead(reading) ==
  IF reading = Resolved THEN Max({Offset[PriceSources[n]] : n \in DOMAIN PriceSources}) ELSE 0

DateOf(reading, r) == IF reading = Resolved THEN SessionOf(r.source, r.date) ELSE r.date

(* precedence: the preferred source, the survivor's own, the earliest minted. *)
Before(survivor, prefer, a, b) ==
  LET rank(r) == CHOOSE n \in DOMAIN prefer : prefer[n] = r.source
      inherited(r) == r.instrument # survivor
  IN \/ rank(a) < rank(b)
     \/ rank(a) = rank(b) /\ ~ inherited(a) /\ inherited(b)
     \/ rank(a) = rank(b) /\ inherited(a) = inherited(b) /\ a.instrument < b.instrument

(* Of the rows read under one date, the one that stands. *)
Preferred(survivor, prefer, S) == CHOOSE r \in S : \A q \in S : q # r => Before(survivor, prefer, r, q)

BarsFor(i, start, end, reading) ==
  LET prefer == Preference(reading)
      family == Family(i)
      candidates == {r \in rows : /\ r.instrument \in family
                                  /\ r.source \in ToSet(prefer)
                                  /\ r.date \in start..(end + Lead(reading))
                                  /\ DateOf(reading, r) \in start..end}
  IN [d \in {DateOf(reading, r) : r \in candidates} |->
        Preferred(Survivor(i), prefer, {r \in candidates : DateOf(reading, r) = d})]

-----------------------------------------------------------------------------
(* The bulk reads: every survivor in one statement, as rows of <<survivor, date>>. *)

(* _fold_cte: the survivor a row is read under. *)
ReadAs(r) == Survivor(r.instrument)

(* _SOURCE_RANK: 0 for a source outside the Price Sources. *)
SourceRank(source) ==
  IF source \in ToSet(PriceSources)
  THEN CHOOSE n \in DOMAIN PriceSources : PriceSources[n] = source ELSE 0

SourceFilter(reading, r) == IF reading = Resolved THEN SourceRank(r.source) > 0 ELSE r.source = reading

(* _picked_cte: the rows of a range, and of those the first of each partition. *)
Picked(start, end, reading) ==
  LET lead == IF reading = Resolved THEN Max({Offset[s] : s \in Sources}) ELSE 0
      held == {r \in rows : /\ SourceFilter(reading, r)
                            /\ r.date >= start /\ r.date <= end + lead
                            /\ DateOf(reading, r) >= start /\ DateOf(reading, r) <= end}
      order(r) == <<SourceRank(r.source), IF r.instrument = ReadAs(r) THEN 0 ELSE 1,
                    r.instrument>>
      less(a, b) == \E n \in 1..3 : /\ order(a)[n] < order(b)[n]
                                    /\ \A m \in 1..(n - 1) : order(a)[m] = order(b)[m]
      partition(r) == <<ReadAs(r), DateOf(reading, r)>>
  IN {r \in held : \A q \in held : partition(q) = partition(r) => ~ less(q, r)}

(* spans and _member_filter: a member on the date, or ever in the range. *)
Spans(start, end) == {s \in Stays : s.from <= end /\ s.to > start}
MemberOn(start, end, i, d) ==
  \E s \in Spans(start, end) : Survivor(s.member) = Survivor(i) /\ s.from <= d /\ s.to > d
EverMember(start, end, i) == \E s \in Spans(start, end) : Survivor(s.member) = Survivor(i)

ResolvedBars(start, end, reading) ==
  {r \in Picked(start, end, reading) : MemberOn(start, end, r.instrument, DateOf(reading, r))}

(* Before any date a bar is read under. *)
Beginning == Min(Days) - Max({Offset[s] : s \in Sources})

(* Of earlier rows, the last. *)
Latest(reading, S) == CHOOSE q \in S : \A x \in S : DateOf(reading, x) <= DateOf(reading, q)

(* close_pairs: a date with the resolved close before it, however far, if one source. *)
ClosePairs(start, end, reading) ==
  LET picked == {r \in Picked(Beginning, end, reading) : EverMember(start, end, r.instrument)}
      date(r) == DateOf(reading, r)
      earlier(r) == {q \in picked : ReadAs(q) = ReadAs(r) /\ date(q) < date(r)}
      previous(r) == Latest(reading, earlier(r))
  IN {<<previous(r), r>> : r \in
        {r \in picked : /\ date(r) >= start /\ earlier(r) # {} /\ previous(r).source = r.source
                        /\ MemberOn(start, end, r.instrument, date(r))}}

(* member_bars: every member of a date, with its bar or none. *)
MemberBars(d, reading) ==
  LET members == {Survivor(s.member) : s \in {s \in Stays : s.from <= d /\ s.to > d}}
  IN [i \in members |-> LET read == BarsFor(i, d, d, reading)
                        IN IF d \in DOMAIN read THEN read[d] ELSE NoBar]

-----------------------------------------------------------------------------
(* Any history of bars, whoever wrote them and whenever two Instruments became one. *)

historyVars == <<links, rows>>

HistoryInit ==
  /\ links = [i \in Instruments |-> None]
  /\ rows = {}

PutBar(i, source, date) ==
  /\ rows' = Upserted({[instrument |-> i, source |-> source, date |-> date, fetched |-> date,
                         close |-> date]})
  /\ Cardinality(rows') <= MaxRows
  /\ UNCHANGED links

Supersede(i, j) ==
  /\ i < j /\ {i, j} \subseteq Survivors
  /\ links' = [links EXCEPT ![j] = i]
  /\ UNCHANGED rows

HistoryNext ==
  \/ \E i \in Instruments, source \in Sources, date \in Days : PutBar(i, source, date)
  \/ \E i, j \in Instruments : Supersede(i, j)

HistorySpec == HistoryInit /\ [][HistoryNext]_historyVars

-----------------------------------------------------------------------------
(* What the reads promise of each other. *)

(* store.py:1900: reading a range, reading its days one by one, and the bulk reads *)
(* behind Datasets and members() give one Instrument the same bars, whichever id it is *)
(* asked for under, and a pair of closes does not depend on where the range begins. *)
ReadsAgree ==
  \A reading \in Readings :
    /\ \A i \in Instruments :
         LET all == BarsFor(i, Min(Days), Max(Days), reading)
         IN \A d \in Days :
              LET point == BarsFor(i, d, d, reading)
              IN /\ DOMAIN point = DOMAIN all \cap {d}
                 /\ d \in DOMAIN point => point[d] = all[d]
    /\ \A d \in Days :
         LET members == MemberBars(d, reading)
         IN ResolvedBars(d, d, reading) = {members[i] : i \in DOMAIN members} \ {NoBar}
    /\ \A start \in Days :
         ClosePairs(start, Max(Days), reading) =
           {p \in ClosePairs(Min(Days), Max(Days), reading) : DateOf(reading, p[2]) >= start}
=============================================================================
