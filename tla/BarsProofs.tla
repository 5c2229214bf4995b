------------------------------ MODULE BarsProofs ------------------------------
(***************************************************************************)
(* Bars.  Every way of reading them gives the same bars, for every history  *)
(* of rows and Supersessions; a backfill fills gaps only, and no two coins   *)
(* are left with one Yahoo pair, for every number of backfills, whatever is  *)
(* swept and merged beside them; the newest vintage stands, in whatever      *)
(* order, however often and however late fetches arrive.                     *)
(***************************************************************************)
EXTENDS MCBars, SupersessionFacts, FiniteSetTheorems

Linked == WellLinked(links, Cardinality(Instruments)) /\ DOMAIN links = Instruments

(* A table of bars: no two rows of one Instrument, source and date. *)
Keyed(S) ==
  /\ S \subseteq BarRow
  /\ \A a, b \in S : a.instrument = b.instrument /\ a.source = b.source /\ a.date = b.date => a = b

(* What reads need of the store. *)
Readable == Linked /\ Keyed(rows)

(* The rows of a family that are read under a date. *)
At(i, reading, d) ==
  {r \in rows : /\ r.instrument \in Family(i) /\ r.source \in ToSet(Preference(reading))
                /\ DateOf(reading, r) = d}

-----------------------------------------------------------------------------
(* Days, sources and survivors. *)

LEMMA DaysAre ==
  ASSUME DaysAssumption
  PROVE  /\ Min(Days) \in Days /\ Max(Days) \in Days /\ Days = Min(Days)..Max(Days)
         /\ Min(Days) \in Nat /\ Max(Days) \in Nat
<1>1. PICK first \in Days, last \in Days : Days = first..last
  BY DEF DaysAssumption
<1>2. Days \subseteq Nat
  BY DEF DaysAssumption
<1>3. Min(Days) = first
  BY <1>1, <1>2 DEF Min
<1>4. Max(Days) = last
  BY <1>1, <1>2 DEF Max
<1> QED BY <1>1, <1>2, <1>3, <1>4

LEMMA SurvivorsSurvive ==
  ASSUME InstrumentsAssumption, Linked
  PROVE  \A i \in Instruments : /\ Survivor(i) \in Instruments /\ Survivor(Survivor(i)) = Survivor(i)
                                /\ i \in Family(i) /\ Survivor(i) <= i
<1> DEFINE n == Cardinality(Instruments)
<1>1. n \in Nat /\ Instruments = 1..n /\ WellLinked(links, n)
  BY FS_CardinalityType DEF InstrumentsAssumption, Linked
<1> HIDE DEF n
<1> SUFFICES ASSUME NEW i \in Instruments
             PROVE  /\ Survivor(i) \in Instruments /\ Survivor(Survivor(i)) = Survivor(i)
                    /\ i \in Family(i) /\ Survivor(i) <= i
  OBVIOUS
<1>2. Fold(links)[i] \in 1..i /\ links[Fold(links)[i]] = None
  BY <1>1, FoldEnds
<1>3. Fold(links)[i] \in 1..n
  BY <1>1, <1>2
<1>4. Fold(links)[Fold(links)[i]] = Fold(links)[i]
  BY <1>1, <1>2, <1>3, FoldFixed
<1> QED BY <1>1, <1>2, <1>3, <1>4 DEF Survivor, Family

LEMMA Preferences ==
  ASSUME SourcesAssumption, NEW reading \in Readings
  PROVE  /\ Preference(reading) \in Seq(Sources)
         /\ \A m, n \in DOMAIN Preference(reading) :
              Preference(reading)[m] = Preference(reading)[n] => m = n
         /\ reading # Resolved => ToSet(Preference(reading)) = {reading}
         /\ reading = Resolved => ToSet(Preference(reading)) = ToSet(PriceSources)
<1>1. CASE reading = Resolved
  <2>1. Preference(reading) = PriceSources /\ PriceSources \in Seq(Sources)
    BY <1>1 DEF Preference, SourcesAssumption
  <2>2. \A m, n \in DOMAIN PriceSources : PriceSources[m] = PriceSources[n] => m = n
    BY DEF SourcesAssumption, IsInjective
  <2> QED BY <1>1, <2>1, <2>2
<1>2. CASE reading # Resolved
  <2>1. Preference(reading) = <<reading>> /\ reading \in Sources
    BY <1>2 DEF Preference, Readings
  <2>2. DOMAIN <<reading>> = {1} /\ <<reading>>[1] = reading
    OBVIOUS
  <2>3. ToSet(<<reading>>) = {reading}
    BY <2>2 DEF ToSet
  <2>4. <<reading>> \in Seq(Sources)
    BY <2>1
  <2> QED BY <1>2, <2>1, <2>2, <2>3, <2>4
<1> QED BY <1>1, <1>2

(* Every offset of a set of sources is at most the greatest. *)
LEMMA Leads ==
  ASSUME SourcesAssumption, NEW S \in SUBSET Sources, S # {}
  PROVE  /\ Max({Offset[s] : s \in S}) \in {0, 1}
         /\ \A s \in S : Offset[s] <= Max({Offset[t] : t \in S})
<1> DEFINE T == {Offset[s] : s \in S}
<1>1. T \subseteq {0, 1} /\ T # {}
  BY DEF SourcesAssumption
<1> HIDE DEF T
<1>2. \E x \in T : \A y \in T : x >= y
  <2>1. CASE 1 \in T
    BY <1>1, <2>1
  <2>2. CASE 1 \notin T
    <3>1. T = {0}
      BY <1>1, <2>2
    <3> QED BY <3>1
  <2> QED BY <2>1, <2>2
<1>3. Max(T) \in T /\ \A y \in T : Max(T) >= y
  BY <1>2 DEF Max
<1>4. Max(T) \in {0, 1} /\ \A s \in S : Offset[s] \in T /\ Offset[s] \in {0, 1}
  BY <1>1, <1>3 DEF T, SourcesAssumption
<1>5. \A s \in S : Offset[s] <= Max(T)
  BY <1>3, <1>4
<1> QED BY <1>4, <1>5 DEF T

LEMMA LeadIs ==
  ASSUME SourcesAssumption, NEW reading \in Readings
  PROVE  /\ Lead(reading) \in {0, 1}
         /\ reading = Resolved => \A s \in ToSet(PriceSources) : s \in Sources /\ Offset[s] <= Lead(reading)
<1>1. CASE reading = Resolved
  <2>1. ToSet(PriceSources) \subseteq Sources /\ ToSet(PriceSources) # {}
    <3>1. PriceSources \in Seq(Sources) /\ PriceSources # <<>>
      BY DEF SourcesAssumption
    <3>2. \A n \in DOMAIN PriceSources : PriceSources[n] \in Sources
      BY <3>1
    <3>3. 1 \in DOMAIN PriceSources
      BY <3>1
    <3> QED BY <3>2, <3>3 DEF ToSet
  <2>2. {Offset[PriceSources[n]] : n \in DOMAIN PriceSources} = {Offset[s] : s \in ToSet(PriceSources)}
    BY DEF ToSet
  <2> QED BY <1>1, <2>1, <2>2, Leads DEF Lead
<1>2. CASE reading # Resolved
  BY <1>2 DEF Lead
<1> QED BY <1>1, <1>2

LEMMA DatesAre ==
  ASSUME SourcesAssumption, DaysAssumption, NEW reading, NEW r \in BarRow
  PROVE  /\ r.date \in Days /\ r.date \in Nat /\ DateOf(reading, r) \in Int
         /\ reading # Resolved => DateOf(reading, r) = r.date
         /\ reading = Resolved => DateOf(reading, r) = r.date - Offset[r.source]
         /\ Offset[r.source] \in {0, 1} /\ r.instrument \in Instruments /\ r.source \in Sources
<1>1. r.date \in Days /\ r.source \in Sources /\ r.instrument \in Instruments
  BY DEF BarRow
<1>2. r.date \in Nat /\ Offset[r.source] \in {0, 1}
  BY <1>1 DEF DaysAssumption, SourcesAssumption
<1> QED BY <1>1, <1>2 DEF DateOf, SessionOf

-----------------------------------------------------------------------------
(* What bars_for reads. *)

(* The bars of a range are those of its dates. *)
LEMMA BarsForIs ==
  ASSUME SourcesAssumption, DaysAssumption, Readable,
         NEW i \in Instruments, NEW reading \in Readings, NEW start \in Int, NEW end \in Int
  PROVE  /\ DOMAIN BarsFor(i, start, end, reading) = {d \in start..end : At(i, reading, d) # {}}
         /\ \A d \in DOMAIN BarsFor(i, start, end, reading) :
              BarsFor(i, start, end, reading)[d] =
                Preferred(Survivor(i), Preference(reading), At(i, reading, d))
<1> DEFINE prefer == Preference(reading)
           candidates == {r \in rows : /\ r.instrument \in Family(i)
                                       /\ r.source \in ToSet(prefer)
                                       /\ r.date \in start..(end + Lead(reading))
                                       /\ DateOf(reading, r) \in start..end}
           held == BarsFor(i, start, end, reading)
<1>1. held = [d \in {DateOf(reading, r) : r \in candidates} |->
                Preferred(Survivor(i), prefer, {r \in candidates : DateOf(reading, r) = d})]
  BY Zenon DEF BarsFor
<1>2. ASSUME NEW r \in rows, r.source \in ToSet(prefer), DateOf(reading, r) \in start..end
      PROVE  r.date \in start..(end + Lead(reading))
  <2>1. r \in BarRow
    BY DEF Readable, Keyed
  <2>2. /\ r.date \in Nat /\ Offset[r.source] \in {0, 1} /\ Lead(reading) \in {0, 1}
        /\ reading # Resolved => DateOf(reading, r) = r.date
        /\ reading = Resolved => DateOf(reading, r) = r.date - Offset[r.source]
    BY <2>1, DatesAre, LeadIs
  <2>3. reading = Resolved => Offset[r.source] <= Lead(reading)
    BY <1>2, LeadIs, Preferences
  <2> QED BY <1>2, <2>2, <2>3
<1>3. \A r : r \in candidates <=> /\ r \in rows /\ r.instrument \in Family(i)
                                  /\ r.source \in ToSet(prefer) /\ DateOf(reading, r) \in start..end
  BY <1>2
<1>4. ASSUME NEW d \in start..end
      PROVE  {r \in candidates : DateOf(reading, r) = d} = At(i, reading, d)
  BY <1>3 DEF At
<1> HIDE DEF candidates
<1>5. {DateOf(reading, r) : r \in candidates} = {d \in start..end : At(i, reading, d) # {}}
  <2>1. \A r \in candidates : DateOf(reading, r) \in start..end /\ r \in At(i, reading, DateOf(reading, r))
    BY <1>3, <1>4
  <2>2. \A d \in start..end : \A r \in At(i, reading, d) : r \in candidates /\ DateOf(reading, r) = d
    BY <1>4
  <2> QED BY <2>1, <2>2
<1> HIDE DEF prefer
<1>6. DOMAIN held = {d \in start..end : At(i, reading, d) # {}}
  BY <1>1, <1>5
<1>7. \A d \in DOMAIN held : held[d] = Preferred(Survivor(i), prefer, At(i, reading, d))
  BY <1>1, <1>4, <1>5, <1>6
<1> QED BY <1>6, <1>7 DEF prefer

-----------------------------------------------------------------------------
(* The order the rows of one date are read in. *)

Rank(prefer, r) == CHOOSE n \in DOMAIN prefer : prefer[n] = r.source

LEMMA Ranks ==
  ASSUME SourcesAssumption, NEW reading \in Readings, NEW r, r.source \in ToSet(Preference(reading))
  PROVE  /\ Rank(Preference(reading), r) \in DOMAIN Preference(reading)
         /\ Rank(Preference(reading), r) \in Nat
         /\ Preference(reading)[Rank(Preference(reading), r)] = r.source
         /\ \A n \in DOMAIN Preference(reading) :
              Preference(reading)[n] = r.source => n = Rank(Preference(reading), r)
<1> DEFINE prefer == Preference(reading)
<1>1. \E n \in DOMAIN prefer : prefer[n] = r.source
  BY DEF ToSet
<1>2. Rank(prefer, r) \in DOMAIN prefer /\ prefer[Rank(prefer, r)] = r.source
  BY <1>1 DEF Rank
<1>3. prefer \in Seq(Sources) /\ \A m, n \in DOMAIN prefer : prefer[m] = prefer[n] => m = n
  BY Preferences
<1> HIDE DEF prefer
<1>4. DOMAIN prefer \subseteq Nat
  BY <1>3
<1> QED BY <1>2, <1>3, <1>4 DEF prefer

LEMMA BeforeIs ==
  ASSUME NEW survivor, NEW prefer, NEW a, NEW b
  PROVE  Before(survivor, prefer, a, b) <=>
           \/ Rank(prefer, a) < Rank(prefer, b)
           \/ Rank(prefer, a) = Rank(prefer, b) /\ a.instrument = survivor /\ b.instrument # survivor
           \/ /\ Rank(prefer, a) = Rank(prefer, b)
              /\ (a.instrument # survivor) = (b.instrument # survivor)
              /\ a.instrument < b.instrument
BY Zenon DEF Before, Rank

(* Two rows read under one date are of different sources or Instruments, so one comes first. *)
LEMMA BeforeTotal ==
  ASSUME SourcesAssumption, DaysAssumption, InstrumentsAssumption, Readable, NEW i \in Instruments,
         NEW reading \in Readings,
         NEW d, NEW a \in At(i, reading, d), NEW b \in At(i, reading, d), NEW survivor
  PROVE  /\ a # b => \/ Before(survivor, Preference(reading), a, b)
                     \/ Before(survivor, Preference(reading), b, a)
         /\ ~ (Before(survivor, Preference(reading), a, b) /\ Before(survivor, Preference(reading), b, a))
<1> DEFINE prefer == Preference(reading)
<1>1. /\ a \in BarRow /\ b \in BarRow /\ a.source \in ToSet(prefer) /\ b.source \in ToSet(prefer)
      /\ DateOf(reading, a) = d /\ DateOf(reading, b) = d /\ a \in rows /\ b \in rows
  BY DEF At, Readable, Keyed
<1>2. /\ Rank(prefer, a) \in Nat /\ Rank(prefer, b) \in Nat
      /\ prefer[Rank(prefer, a)] = a.source /\ prefer[Rank(prefer, b)] = b.source
  BY <1>1, Ranks
<1>3. a.instrument \in Nat /\ b.instrument \in Nat
  <2>1. a.instrument \in Instruments /\ b.instrument \in Instruments
    BY <1>1, DatesAre
  <2>2. Instruments \subseteq Nat
    BY FS_CardinalityType DEF InstrumentsAssumption
  <2> QED BY <2>1, <2>2
<1>4. Rank(prefer, a) = Rank(prefer, b) /\ a.instrument = b.instrument => a = b
  <2> SUFFICES ASSUME Rank(prefer, a) = Rank(prefer, b), a.instrument = b.instrument
               PROVE  a = b
    OBVIOUS
  <2>1. a.source = b.source
    BY <1>2
  <2>2. a.date = b.date
    <3>1. /\ a.date \in Nat /\ b.date \in Nat /\ Offset[a.source] \in {0, 1}
          /\ reading # Resolved => d = a.date /\ d = b.date
          /\ reading = Resolved => d = a.date - Offset[a.source] /\ d = b.date - Offset[b.source]
      BY <1>1, DatesAre
    <3> QED BY <2>1, <3>1
  <2> QED BY <1>1, <2>1, <2>2 DEF Readable, Keyed
<1> HIDE DEF prefer
<1>5. a # b => Before(survivor, prefer, a, b) \/ Before(survivor, prefer, b, a)
  BY <1>2, <1>3, <1>4, BeforeIs
<1>6. ~ (Before(survivor, prefer, a, b) /\ Before(survivor, prefer, b, a))
  BY <1>2, <1>3, BeforeIs
<1> QED BY <1>5, <1>6 DEF prefer

(* Of the rows of one date, one comes before every other. *)
LEMMA FirstExists ==
  ASSUME SourcesAssumption, DaysAssumption, InstrumentsAssumption, Readable, NEW i \in Instruments,
         NEW reading \in Readings, NEW d, At(i, reading, d) # {}, NEW survivor
  PROVE  \E r \in At(i, reading, d) : \A q \in At(i, reading, d) :
           q # r => Before(survivor, Preference(reading), r, q)
<1> DEFINE prefer == Preference(reading)
           S == At(i, reading, d)
           Ranked == {Rank(prefer, r) : r \in S}
<1>1. \A r \in S : Rank(prefer, r) \in Nat /\ r.instrument \in Nat
  <2>1. \A r \in S : r \in BarRow /\ r.source \in ToSet(prefer)
    BY DEF At, Readable, Keyed
  <2>2. Instruments \subseteq Nat
    BY FS_CardinalityType DEF InstrumentsAssumption
  <2>3. \A r \in S : r.instrument \in Instruments
    BY <2>1, DatesAre
  <2> QED BY <2>1, <2>2, <2>3, Ranks
<1> DEFINE total(a, b) == Before(survivor, prefer, a, b)
<1>2. \A a, b \in S : a # b => total(a, b) \/ total(b, a)
  BY BeforeTotal
<1>3. PICK n \in Ranked : \A m \in Ranked : n <= m
  <2>1. Ranked \in SUBSET Nat /\ Ranked # {}
    BY <1>1
  <2> HIDE DEF Ranked, S
  <2> QED BY <2>1, LeastNat
<1> DEFINE best == {r \in S : Rank(prefer, r) = n}
           own == {r \in best : r.instrument = survivor}
           last == IF own # {} THEN own ELSE best
           Minted == {r.instrument : r \in last}
<1>4. best # {}
  BY <1>3
<1>5. last # {} /\ last \subseteq best
  BY <1>4
<1>6. /\ \A y, z \in last : y.instrument = survivor <=> z.instrument = survivor
      /\ \A y \in last, z \in best \ last : y.instrument = survivor /\ z.instrument # survivor
  <2>1. CASE own # {}
    <3>1. \A y \in last : y.instrument = survivor
      BY <2>1
    <3>2. \A z \in best \ last : z.instrument # survivor
      BY <2>1
    <3> QED BY <3>1, <3>2
  <2>2. CASE own = {}
    <3>1. last = best
      BY <2>2
    <3>2. \A z \in best : z.instrument # survivor
      BY <2>2
    <3> QED BY <3>1, <3>2
  <2> QED BY <2>1, <2>2
<1>7. PICK x \in last : \A y \in last : x.instrument <= y.instrument
  <2>1. Minted \in SUBSET Nat /\ Minted # {}
    BY <1>1, <1>5
  <2>2. PICK m \in Minted : \A k \in Minted : m <= k
    <3> HIDE DEF Minted
    <3> QED BY <2>1, LeastNat
  <2> QED BY <2>2
<1>8. ASSUME NEW q \in S, q # x
      PROVE  Before(survivor, prefer, x, q)
  <2>1. x \in S /\ Rank(prefer, x) = n
    BY <1>5, <1>7
  <2>2. n <= Rank(prefer, q) /\ n \in Nat /\ Rank(prefer, q) \in Nat
    BY <1>1, <1>3
  <2>3. x.instrument \in Nat /\ q.instrument \in Nat
    BY <1>1, <2>1
  <2>4. ~ Before(survivor, prefer, q, x)
    <3>1. CASE Rank(prefer, q) # n
      BY <2>1, <2>2, <3>1, BeforeIs
    <3>2. CASE Rank(prefer, q) = n /\ q \in last
      <4>1. x.instrument <= q.instrument /\ (x.instrument = survivor <=> q.instrument = survivor)
        BY <1>6, <1>7, <3>2
      <4> QED BY <2>1, <2>2, <2>3, <3>2, <4>1, BeforeIs
    <3>3. CASE Rank(prefer, q) = n /\ q \notin last
      <4>1. x.instrument = survivor /\ q.instrument # survivor
        BY <1>6, <1>7, <3>3
      <4> QED BY <2>1, <2>2, <2>3, <3>3, <4>1, BeforeIs
    <3> QED BY <3>1, <3>2, <3>3
  <2> QED BY <1>2, <1>8, <2>1, <2>4
<1> QED BY <1>5, <1>7, <1>8

LEMMA PreferredIs ==
  ASSUME SourcesAssumption, DaysAssumption, InstrumentsAssumption, Readable, NEW i \in Instruments,
         NEW reading \in Readings, NEW d, At(i, reading, d) # {}
  PROVE  LET first == Preferred(Survivor(i), Preference(reading), At(i, reading, d))
         IN /\ first \in At(i, reading, d)
            /\ \A r \in At(i, reading, d) :
                 r = first <=> \A q \in At(i, reading, d) :
                                 ~ Before(Survivor(i), Preference(reading), q, r)
<1> DEFINE S == At(i, reading, d)
           prefer == Preference(reading)
           first == Preferred(Survivor(i), prefer, S)
<1>1. \E r \in S : \A q \in S : q # r => Before(Survivor(i), prefer, r, q)
  BY FirstExists
<1>2. first \in S /\ \A q \in S : q # first => Before(Survivor(i), prefer, first, q)
  BY <1>1 DEF Preferred
<1>3. \A a, b \in S : /\ a # b => Before(Survivor(i), prefer, a, b) \/ Before(Survivor(i), prefer, b, a)
                      /\ ~ (Before(Survivor(i), prefer, a, b) /\ Before(Survivor(i), prefer, b, a))
  BY BeforeTotal
<1> HIDE DEF S, prefer, first
<1>4. \A r \in S : r = first <=> \A q \in S : ~ Before(Survivor(i), prefer, q, r)
  BY <1>2, <1>3
<1> QED BY <1>2, <1>4 DEF S, prefer, first

-----------------------------------------------------------------------------
(* What the bulk reads pick. *)

LEMMA TriplesInOrder ==
  ASSUME NEW a1 \in Nat, NEW a2 \in Nat, NEW a3 \in Nat, NEW b1_ \in Nat, NEW b2_ \in Nat, NEW b3_ \in Nat
  PROVE  (\E n \in 1..3 : /\ <<a1, a2, a3>>[n] < <<b1_, b2_, b3_>>[n]
                          /\ \A m \in 1..(n - 1) : <<a1, a2, a3>>[m] = <<b1_, b2_, b3_>>[m])
         <=> \/ a1 < b1_
             \/ a1 = b1_ /\ a2 < b2_
             \/ a1 = b1_ /\ a2 = b2_ /\ a3 < b3_
<1> DEFINE a == <<a1, a2, a3>>
           b == <<b1_, b2_, b3_>>
           smaller(n) == a[n] < b[n] /\ \A m \in 1..(n - 1) : a[m] = b[m]
<1>1. /\ a[1] = a1 /\ a[2] = a2 /\ a[3] = a3
      /\ b[1] = b1_ /\ b[2] = b2_ /\ b[3] = b3_
  OBVIOUS
<1> HIDE DEF a, b
<1>2. smaller(1) <=> a1 < b1_
  BY <1>1
<1>3. smaller(2) <=> a1 = b1_ /\ a2 < b2_
  <2>1. \A m : m \in 1..(2 - 1) <=> m = 1
    OBVIOUS
  <2> QED BY <1>1, <2>1
<1>4. smaller(3) <=> a1 = b1_ /\ a2 = b2_ /\ a3 < b3_
  <2>1. \A m : m \in 1..(3 - 1) <=> m = 1 \/ m = 2
    OBVIOUS
  <2> QED BY <1>1, <2>1
<1>5. \A n : n \in 1..3 <=> n = 1 \/ n = 2 \/ n = 3
  OBVIOUS
<1> HIDE DEF smaller
<1>6. (\E n \in 1..3 : smaller(n)) <=> smaller(1) \/ smaller(2) \/ smaller(3)
  BY <1>5
<1> QED BY <1>2, <1>3, <1>4, <1>6 DEF smaller, a, b

LEMMA SourceRankIs ==
  ASSUME SourcesAssumption, NEW reading \in Readings, NEW r, r.source \in Sources
  PROVE  /\ SourceRank(r.source) \in Nat
         /\ SourceFilter(reading, r) <=> r.source \in ToSet(Preference(reading))
         /\ reading = Resolved /\ r.source \in ToSet(PriceSources) =>
              SourceRank(r.source) = Rank(Preference(reading), r)
         /\ reading # Resolved /\ SourceFilter(reading, r) => r.source = reading
<1>1. Resolved \in Readings
  BY DEF Readings
<1>2. Preference(Resolved) = PriceSources
  BY DEF Preference
<1>3. CASE r.source \in ToSet(PriceSources)
  <2>1. /\ Rank(PriceSources, r) \in DOMAIN PriceSources
    BY <1>1, <1>2, <1>3, Ranks
  <2>2. PriceSources \in Seq(Sources)
    BY DEF SourcesAssumption
  <2>3. Rank(PriceSources, r) \in Nat /\ Rank(PriceSources, r) > 0
    BY <2>1, <2>2
  <2>4. SourceRank(r.source) = Rank(PriceSources, r)
    BY <1>3 DEF SourceRank, Rank
  <2> QED BY <1>2, <1>3, <2>3, <2>4, Preferences DEF SourceFilter
<1>4. CASE r.source \notin ToSet(PriceSources)
  <2>1. SourceRank(r.source) = 0
    BY <1>4 DEF SourceRank
  <2> QED BY <1>2, <1>4, <2>1, Preferences DEF SourceFilter
<1> QED BY <1>3, <1>4

(* The first of a partition is the bar bars_for prefers. *)
LEMMA PickedIs ==
  ASSUME SourcesAssumption, DaysAssumption, InstrumentsAssumption, Readable,
         NEW reading \in Readings, NEW start \in Int, NEW end \in Int, NEW r
  PROVE  r \in Picked(start, end, reading) <=>
           /\ r \in rows /\ DateOf(reading, r) \in start..end
           /\ r \in At(ReadAs(r), reading, DateOf(reading, r))
           /\ r = Preferred(ReadAs(r), Preference(reading), At(ReadAs(r), reading, DateOf(reading, r)))
<1> DEFINE lead == IF reading = Resolved THEN Max({Offset[s] : s \in Sources}) ELSE 0
           held == {q \in rows : /\ SourceFilter(reading, q)
                                 /\ q.date >= start /\ q.date <= end + lead
                                 /\ DateOf(reading, q) >= start /\ DateOf(reading, q) <= end}
           order(q) == <<SourceRank(q.source), IF q.instrument = ReadAs(q) THEN 0 ELSE 1,
                         q.instrument>>
           less(a, b) == \E n \in 1..3 : /\ order(a)[n] < order(b)[n]
                                         /\ \A m \in 1..(n - 1) : order(a)[m] = order(b)[m]
           partition(q) == <<ReadAs(q), DateOf(reading, q)>>
<1>1. Picked(start, end, reading) = {x \in held : \A q \in held : partition(q) = partition(x) => ~ less(q, x)}
  BY Zenon DEF Picked
<1>2. lead \in {0, 1} /\ (reading = Resolved => \A s \in Sources : Offset[s] <= lead)
  <2>1. Sources # {}
    BY DEF SourcesAssumption
  <2> QED BY <2>1, Leads
<1> HIDE DEF lead
<1>3. \A q \in rows : /\ q.date \in Nat /\ DateOf(reading, q) \in Int /\ q.source \in Sources
                      /\ q.instrument \in Instruments /\ q.instrument \in Nat
                      /\ q.date >= DateOf(reading, q) /\ q.date <= DateOf(reading, q) + lead
  <2> TAKE q \in rows
  <2>1. q \in BarRow /\ Instruments \subseteq Nat
    BY FS_CardinalityType DEF Readable, Keyed, InstrumentsAssumption
  <2>2. /\ q.date \in Nat /\ DateOf(reading, q) \in Int /\ Offset[q.source] \in {0, 1}
        /\ reading # Resolved => DateOf(reading, q) = q.date
        /\ reading = Resolved => DateOf(reading, q) = q.date - Offset[q.source]
        /\ q.instrument \in Instruments /\ q.source \in Sources
    BY <2>1, DatesAre
  <2>3. q.date >= DateOf(reading, q)
    BY <2>2
  <2>4. q.date <= DateOf(reading, q) + lead
    <3>1. reading = Resolved => Offset[q.source] <= lead
      BY <1>2, <2>2
    <3> QED BY <1>2, <2>2, <3>1
  <2>5. q.instrument \in Nat
    BY <2>1, <2>2
  <2> QED BY <2>2, <2>3, <2>4, <2>5
<1>4. \A q : q \in held <=> /\ q \in rows /\ q.source \in ToSet(Preference(reading))
                            /\ DateOf(reading, q) \in start..end
  <2>1. \A q \in rows : SourceFilter(reading, q) <=> q.source \in ToSet(Preference(reading))
    BY <1>3, SourceRankIs
  <2>2. \A q \in rows : DateOf(reading, q) \in start..end =>
          q.date >= start /\ q.date <= end + lead
    BY <1>2, <1>3
  <2>3. \A q \in rows : DateOf(reading, q) \in start..end <=>
                          DateOf(reading, q) >= start /\ DateOf(reading, q) <= end
    BY <1>3
  <2> QED BY <2>1, <2>2, <2>3
<1> HIDE DEF held
<1> SUFFICES ASSUME r \in held
             PROVE  /\ r \in At(ReadAs(r), reading, DateOf(reading, r))
                    /\ (\A q \in held : partition(q) = partition(r) => ~ less(q, r)) <=>
                         r = Preferred(ReadAs(r), Preference(reading),
                                       At(ReadAs(r), reading, DateOf(reading, r)))
  BY <1>1, <1>4 DEF At
<1> DEFINE i == ReadAs(r)
           d == DateOf(reading, r)
           S == At(i, reading, d)
<1>5. r \in rows /\ r.instrument \in Instruments /\ d \in start..end
  BY <1>3, <1>4
<1>6. i \in Instruments /\ Survivor(i) = i /\ i \in Nat
  <2>1. i \in Instruments /\ Survivor(i) = i
    BY <1>5, SurvivorsSurvive DEF ReadAs, Readable
  <2> QED BY <2>1, FS_CardinalityType DEF InstrumentsAssumption
<1>7. \A j \in Instruments : j \in Family(i) <=> Survivor(j) = i
  BY <1>6 DEF Family, Survivor
<1>8. \A q : q \in S <=> q \in held /\ partition(q) = partition(r)
  <2>1. \A q : partition(q) = partition(r) <=> ReadAs(q) = i /\ DateOf(reading, q) = d
    OBVIOUS
  <2>2. \A q : q \in S <=> /\ q \in rows /\ q.instrument \in Family(i)
                           /\ q.source \in ToSet(Preference(reading)) /\ DateOf(reading, q) = d
    BY DEF At
  <2>3. \A q \in rows : q.instrument \in Family(i) <=> ReadAs(q) = i
    BY <1>3, <1>7 DEF ReadAs
  <2> HIDE DEF S, i, partition, d
  <2> QED BY <1>4, <1>5, <2>1, <2>2, <2>3
<1>9. r \in S
  BY <1>8
<1>10. \A q \in S : less(q, r) <=> Before(Survivor(i), Preference(reading), q, r)
  <2> TAKE q \in S
  <2>1. /\ q \in rows /\ ReadAs(q) = i /\ q.source \in Sources /\ r.source \in Sources
        /\ q.source \in ToSet(Preference(reading)) /\ r.source \in ToSet(Preference(reading))
    BY <1>3, <1>4, <1>5, <1>8
  <2>2. /\ SourceRank(q.source) \in Nat /\ SourceRank(r.source) \in Nat
        /\ q.instrument \in Nat /\ r.instrument \in Nat
    BY <1>3, <1>5, <2>1, SourceRankIs
  <2> DEFINE own(x) == IF x.instrument = ReadAs(x) THEN 0 ELSE 1
  <2>3. own(q) \in Nat /\ own(r) \in Nat
    OBVIOUS
  <2>4. less(q, r) <=>
          \/ SourceRank(q.source) < SourceRank(r.source)
          \/ SourceRank(q.source) = SourceRank(r.source) /\ own(q) < own(r)
          \/ SourceRank(q.source) = SourceRank(r.source) /\ own(q) = own(r) /\ q.instrument < r.instrument
    <3>1. less(q, r) <=>
            \E n \in 1..3 :
              /\ <<SourceRank(q.source), own(q), q.instrument>>[n]
                   < <<SourceRank(r.source), own(r), r.instrument>>[n]
              /\ \A m \in 1..(n - 1) : <<SourceRank(q.source), own(q), q.instrument>>[m]
                                         = <<SourceRank(r.source), own(r), r.instrument>>[m]
      OBVIOUS
    <3> HIDE DEF less, own
    <3> QED BY <2>2, <2>3, <3>1, TriplesInOrder
  <2>5. /\ own(q) < own(r) <=> q.instrument = i /\ r.instrument # i
        /\ own(q) = own(r) <=> ((q.instrument # i) = (r.instrument # i))
    BY <2>1
  <2>6. /\ SourceRank(q.source) < SourceRank(r.source) <=>
             Rank(Preference(reading), q) < Rank(Preference(reading), r)
        /\ SourceRank(q.source) = SourceRank(r.source) <=>
             Rank(Preference(reading), q) = Rank(Preference(reading), r)
    <3>1. CASE reading = Resolved
      BY <2>1, <3>1, Preferences, SourceRankIs
    <3>2. CASE reading # Resolved
      <4>1. q.source = r.source
        BY <2>1, <3>2, Preferences
      <4>2. Rank(Preference(reading), q) = Rank(Preference(reading), r) /\ Rank(Preference(reading), q) \in Nat
        BY <2>1, <4>1, Ranks
      <4> QED BY <2>2, <4>1, <4>2
    <3> QED BY <3>1, <3>2
  <2> HIDE DEF less, own
  <2> QED BY <1>6, <2>4, <2>5, <2>6, BeforeIs
<1>11. r = Preferred(Survivor(i), Preference(reading), S) <=>
         \A q \in S : ~ Before(Survivor(i), Preference(reading), q, r)
  BY <1>6, <1>9, PreferredIs
<1> HIDE DEF S, less, partition
<1>12. r = Preferred(i, Preference(reading), S) <=>
         \A q \in held : partition(q) = partition(r) => ~ less(q, r)
  BY <1>6, <1>8, <1>10, <1>11
<1> QED BY <1>9, <1>12 DEF S

-----------------------------------------------------------------------------
(* The reads agree. *)

ReadsAssumption ==
  /\ SourcesAssumption /\ DaysAssumption /\ InstrumentsAssumption /\ StaysAssumption
  /\ NoBarAssumption

(* A day read alone is the day read in a range. *)
LEMMA PointIsRange ==
  ASSUME ReadsAssumption, Readable, NEW reading \in Readings, NEW i \in Instruments, NEW d \in Days
  PROVE  LET all == BarsFor(i, Min(Days), Max(Days), reading)
             point == BarsFor(i, d, d, reading)
         IN /\ DOMAIN point = DOMAIN all \cap {d}
            /\ d \in DOMAIN point => point[d] = all[d]
<1> DEFINE all == BarsFor(i, Min(Days), Max(Days), reading)
           point == BarsFor(i, d, d, reading)
<1>1. /\ d \in Int /\ Min(Days) \in Int /\ Max(Days) \in Int /\ d \in Min(Days)..Max(Days)
      /\ d..d = {d}
  <2>1. Days = Min(Days)..Max(Days) /\ Min(Days) \in Nat /\ Max(Days) \in Nat
    BY DaysAre DEF ReadsAssumption
  <2>2. d \in Min(Days)..Max(Days)
    BY <2>1
  <2> QED BY <2>1, <2>2
<1>2. /\ DOMAIN all = {e \in Min(Days)..Max(Days) : At(i, reading, e) # {}}
      /\ \A e \in DOMAIN all : all[e] = Preferred(Survivor(i), Preference(reading), At(i, reading, e))
  BY <1>1, BarsForIs DEF ReadsAssumption
<1>3. /\ DOMAIN point = {e \in d..d : At(i, reading, e) # {}}
      /\ \A e \in DOMAIN point : point[e] = Preferred(Survivor(i), Preference(reading), At(i, reading, e))
  BY <1>1, BarsForIs DEF ReadsAssumption
<1> HIDE DEF all, point
<1>4. DOMAIN point = DOMAIN all \cap {d}
  BY <1>1, <1>2, <1>3
<1>5. d \in DOMAIN point => point[d] = all[d]
  BY <1>2, <1>3, <1>4
<1> QED BY <1>4, <1>5 DEF all, point

(* The bulk read of a day is the bars of its members. *)
LEMMA ResolvedAreMembers ==
  ASSUME ReadsAssumption, Readable, NEW reading \in Readings, NEW d \in Days
  PROVE  LET members == MemberBars(d, reading)
         IN ResolvedBars(d, d, reading) = {members[i] : i \in DOMAIN members} \ {NoBar}
<1> DEFINE stay == {s \in Stays : s.from <= d /\ s.to > d}
           members == {Survivor(s.member) : s \in stay}
           bars_ == MemberBars(d, reading)
           bar(i) == IF d \in DOMAIN BarsFor(i, d, d, reading) THEN BarsFor(i, d, d, reading)[d] ELSE NoBar
           best(i) == Preferred(Survivor(i), Preference(reading), At(i, reading, d))
<1>1. bars_ = [i \in members |-> bar(i)]
  BY Zenon DEF MemberBars
<1>2. d \in Int /\ d..d = {d}
  BY DaysAre DEF ReadsAssumption, DaysAssumption
<1>3. \A i \in members : i \in Instruments /\ Survivor(i) = i
  BY SurvivorsSurvive DEF ReadsAssumption, Readable, StaysAssumption
<1>4. \A i \in members : bar(i) = IF At(i, reading, d) # {} THEN best(i) ELSE NoBar
  <2> TAKE i \in members
  <2>1. /\ DOMAIN BarsFor(i, d, d, reading) = {e \in d..d : At(i, reading, e) # {}}
        /\ \A e \in DOMAIN BarsFor(i, d, d, reading) :
             BarsFor(i, d, d, reading)[e] = Preferred(Survivor(i), Preference(reading), At(i, reading, e))
    BY <1>2, <1>3, BarsForIs DEF ReadsAssumption
  <2> QED BY <1>2, <2>1
<1>5. \A i \in members : At(i, reading, d) # {} =>
        /\ best(i) \in At(i, reading, d) /\ ReadAs(best(i)) = i /\ best(i) # NoBar
        /\ best(i) \in rows /\ DateOf(reading, best(i)) = d
  <2> SUFFICES ASSUME NEW i \in members, At(i, reading, d) # {}
               PROVE  /\ best(i) \in At(i, reading, d) /\ ReadAs(best(i)) = i /\ best(i) # NoBar
                      /\ best(i) \in rows /\ DateOf(reading, best(i)) = d
    OBVIOUS
  <2>1. best(i) \in At(i, reading, d)
    BY <1>3, PreferredIs DEF ReadsAssumption
  <2> HIDE DEF best
  <2>2. best(i) \in rows /\ best(i).instrument \in Family(i) /\ DateOf(reading, best(i)) = d
    BY <2>1 DEF At
  <2>3. ReadAs(best(i)) = i
    BY <1>3, <2>2 DEF ReadAs, Family, Survivor
  <2>4. best(i) # NoBar
    BY <2>2 DEF Readable, Keyed, ReadsAssumption, NoBarAssumption
  <2> QED BY <2>1, <2>2, <2>3, <2>4
<1>6. \A r \in rows : MemberOn(d, d, r.instrument, d) <=> ReadAs(r) \in members
  <2>1. \A s \in Stays : s \in Spans(d, d) /\ s.from <= d /\ s.to > d <=> s \in stay
    BY DEF Spans
  <2> HIDE DEF stay
  <2>2. \A r \in rows : MemberOn(d, d, r.instrument, d) <=>
                          \E s \in stay : Survivor(s.member) = Survivor(r.instrument)
    BY <2>1 DEF MemberOn, Spans, stay
  <2> QED BY <2>2 DEF ReadAs
<1>7. \A r : r \in Picked(d, d, reading) <=>
               /\ r \in rows /\ DateOf(reading, r) = d /\ r \in At(ReadAs(r), reading, d)
               /\ r = Preferred(ReadAs(r), Preference(reading), At(ReadAs(r), reading, d))
  <2> TAKE r
  <2>1. DateOf(reading, r) \in d..d <=> DateOf(reading, r) = d
    BY <1>2
  <2>2. r \in Picked(d, d, reading) <=>
           /\ r \in rows /\ DateOf(reading, r) \in d..d
           /\ r \in At(ReadAs(r), reading, DateOf(reading, r))
           /\ r = Preferred(ReadAs(r), Preference(reading), At(ReadAs(r), reading, DateOf(reading, r)))
    BY <1>2, PickedIs DEF ReadsAssumption
  <2> QED BY <2>1, <2>2
<1> HIDE DEF members, bar
<1>8. \A r : r \in ResolvedBars(d, d, reading) <=>
               \E i \in members : At(i, reading, d) # {} /\ r = best(i)
  <2> TAKE r
  <2>1. r \in ResolvedBars(d, d, reading) <=>
          /\ r \in Picked(d, d, reading) /\ MemberOn(d, d, r.instrument, DateOf(reading, r))
    BY DEF ResolvedBars
  <2>2. r \in ResolvedBars(d, d, reading) <=> r \in Picked(d, d, reading) /\ ReadAs(r) \in members
    BY <1>6, <1>7, <2>1
  <2>3. ASSUME r \in Picked(d, d, reading), ReadAs(r) \in members
        PROVE  At(ReadAs(r), reading, d) # {} /\ r = best(ReadAs(r))
    BY <1>3, <1>7, <2>3
  <2>4. ASSUME NEW i \in members, At(i, reading, d) # {}, r = best(i)
        PROVE  r \in Picked(d, d, reading) /\ ReadAs(r) \in members
    <3>1. /\ r \in At(i, reading, d) /\ ReadAs(r) = i /\ r \in rows /\ DateOf(reading, r) = d
      BY <1>5, <2>4
    <3> QED BY <1>3, <1>7, <2>4, <3>1
  <2> HIDE DEF best
  <2> QED BY <2>2, <2>3, <2>4
<1> HIDE DEF best
<1>9. \A r : r \in {bars_[i] : i \in DOMAIN bars_} \ {NoBar} <=>
               \E i \in members : At(i, reading, d) # {} /\ r = best(i)
  <2>1. {bars_[i] : i \in DOMAIN bars_} = {bar(i) : i \in members}
    BY <1>1
  <2> QED BY <1>4, <1>5, <2>1
<1> HIDE DEF bars_
<1>10. ResolvedBars(d, d, reading) = {bars_[i] : i \in DOMAIN bars_} \ {NoBar}
  BY <1>8, <1>9
<1> QED BY <1>10 DEF bars_

(* A row, its predecessor among all of its survivor's, and a membership on its date. *)
Paired(end, reading, r, p) ==
  LET prior == {q \in Picked(Beginning, end, reading) :
                  ReadAs(q) = ReadAs(r) /\ DateOf(reading, q) < DateOf(reading, r)}
  IN /\ prior # {} /\ Latest(reading, prior).source = r.source
     /\ \E s \in Stays : /\ s.from <= end /\ Survivor(s.member) = ReadAs(r)
                         /\ s.from <= DateOf(reading, r) /\ s.to > DateOf(reading, r)
     /\ p = <<Latest(reading, prior), r>>

(* A close pair does not depend on where its range begins. *)
LEMMA PairsOfRange ==
  ASSUME ReadsAssumption, Readable, NEW reading \in Readings, NEW start \in Days,
         NEW end \in Int
  PROVE  \A p : p \in ClosePairs(start, end, reading) <=>
           \E r \in Picked(Beginning, end, reading) :
             DateOf(reading, r) >= start /\ Paired(end, reading, r, p)
<1> DEFINE P == Picked(Beginning, end, reading)
           date(r) == DateOf(reading, r)
           prior(r) == {q \in P : ReadAs(q) = ReadAs(r) /\ date(q) < date(r)}
           picked == {r \in P : EverMember(start, end, r.instrument)}
           earlier(r) == {q \in picked : ReadAs(q) = ReadAs(r) /\ date(q) < date(r)}
           previous(r) == Latest(reading, earlier(r))
           paired(r) == /\ date(r) >= start /\ earlier(r) # {} /\ previous(r).source = r.source
                        /\ MemberOn(start, end, r.instrument, date(r))
           stays(r) == \E s \in Stays : /\ s.from <= end /\ Survivor(s.member) = ReadAs(r)
                                        /\ s.from <= date(r) /\ s.to > date(r)
<1>1. ClosePairs(start, end, reading) = {<<previous(r), r>> : r \in {r \in picked : paired(r)}}
  BY Zenon DEF ClosePairs
<1>2. \A r \in P : date(r) \in Int
  <2>1. \A r \in P : r \in rows
    BY Zenon DEF Picked
  <2> QED BY <2>1, DatesAre DEF Readable, Keyed, ReadsAssumption
<1>3. \A r \in P : date(r) >= start => (MemberOn(start, end, r.instrument, date(r)) <=> stays(r))
  <2> SUFFICES ASSUME NEW r \in P, date(r) >= start
               PROVE  MemberOn(start, end, r.instrument, date(r)) <=> stays(r)
    OBVIOUS
  <2>1. \A s \in Stays : s.from \in Int /\ s.to \in Int
    BY DEF ReadsAssumption, StaysAssumption
  <2>2. start \in Int /\ date(r) \in Int
    BY <1>2 DEF ReadsAssumption, DaysAssumption
  <2>3. \A s \in Stays : s.to > date(r) => s.to > start
    BY <2>1, <2>2
  <2> QED BY <2>3, Zenon DEF MemberOn, Spans, ReadAs
<1>4. \A r \in P : MemberOn(start, end, r.instrument, date(r)) => r \in picked
  BY Zenon DEF MemberOn, EverMember
<1>5. \A r \in picked : earlier(r) = prior(r)
  <2>1. \A q, r \in P : ReadAs(q) = ReadAs(r) =>
          (EverMember(start, end, q.instrument) <=> EverMember(start, end, r.instrument))
    BY Zenon DEF EverMember, ReadAs
  <2> QED BY <2>1
<1>6. picked \subseteq P
  OBVIOUS
<1> DEFINE wanted(r) == /\ date(r) >= start /\ prior(r) # {}
                        /\ Latest(reading, prior(r)).source = r.source
                        /\ stays(r)
<1>7. \A r : r \in picked /\ paired(r) <=> r \in P /\ wanted(r)
  <2> TAKE r
  <2>1. ASSUME r \in picked, paired(r)
        PROVE  r \in P /\ wanted(r)
    <3>1. /\ date(r) >= start /\ earlier(r) # {} /\ Latest(reading, earlier(r)).source = r.source
          /\ MemberOn(start, end, r.instrument, date(r))
      BY <2>1
    <3>2. earlier(r) = prior(r) /\ r \in P
      BY <1>5, <1>6, <2>1
    <3>3. stays(r)
      BY <1>3, <3>1, <3>2
    <3> HIDE DEF earlier, prior, stays, P
    <3> QED BY <3>1, <3>2, <3>3
  <2>2. ASSUME r \in P, wanted(r)
        PROVE  r \in picked /\ paired(r)
    <3>1. /\ date(r) >= start /\ prior(r) # {} /\ Latest(reading, prior(r)).source = r.source
          /\ stays(r)
      BY <2>2
    <3>2. MemberOn(start, end, r.instrument, date(r))
      BY <1>3, <2>2, <3>1
    <3>3. r \in picked
      BY <1>4, <2>2, <3>2
    <3>4. earlier(r) = prior(r)
      BY <1>5, <3>3
    <3> HIDE DEF earlier, prior, stays, picked
    <3> QED BY <3>1, <3>2, <3>3, <3>4
  <2> QED BY <2>1, <2>2
<1>8. \A r \in picked : previous(r) = Latest(reading, prior(r))
  BY <1>5
<1> HIDE DEF picked, paired, wanted, previous
<1>9. \A p : p \in ClosePairs(start, end, reading) <=>
               \E r \in P : wanted(r) /\ p = <<Latest(reading, prior(r)), r>>
  BY <1>1, <1>7, <1>8
<1> QED BY <1>9 DEF wanted, Paired

LEMMA PairsAgree ==
  ASSUME ReadsAssumption, Readable, NEW reading \in Readings, NEW start \in Days
  PROVE  ClosePairs(start, Max(Days), reading) =
           {p \in ClosePairs(Min(Days), Max(Days), reading) : DateOf(reading, p[2]) >= start}
<1> DEFINE P == Picked(Beginning, Max(Days), reading)
           pair(r, p) == Paired(Max(Days), reading, r, p)
<1>1. /\ Min(Days) \in Days /\ Max(Days) \in Int /\ Min(Days) \in Int /\ start \in Int
      /\ Min(Days) <= start
  <2>1. /\ Min(Days) \in Days /\ Days = Min(Days)..Max(Days)
        /\ Min(Days) \in Nat /\ Max(Days) \in Nat
    BY DaysAre DEF ReadsAssumption
  <2>2. start \in Min(Days)..Max(Days)
    BY <2>1
  <2> QED BY <2>1, <2>2
<1>2. \A r \in P : DateOf(reading, r) \in Int
  <2>1. \A r \in P : r \in rows
    BY Zenon DEF Picked
  <2> QED BY <2>1, DatesAre DEF Readable, Keyed, ReadsAssumption
<1>3. \A p : p \in ClosePairs(start, Max(Days), reading) <=>
               \E r \in P : DateOf(reading, r) >= start /\ pair(r, p)
  BY Zenon, <1>1, PairsOfRange
<1>4. \A p : p \in ClosePairs(Min(Days), Max(Days), reading) <=>
               \E r \in P : DateOf(reading, r) >= Min(Days) /\ pair(r, p)
  BY Zenon, <1>1, PairsOfRange
<1>5. \A p : \A r \in P : pair(r, p) => p[2] = r
  BY DEF Paired
<1> HIDE DEF P, pair
<1>6. \A p : p \in ClosePairs(start, Max(Days), reading) <=>
               p \in ClosePairs(Min(Days), Max(Days), reading) /\ DateOf(reading, p[2]) >= start
  <2> TAKE p
  <2>1. ASSUME NEW r \in P, DateOf(reading, r) >= start, pair(r, p)
        PROVE  DateOf(reading, r) >= Min(Days) /\ DateOf(reading, p[2]) >= start
    BY <1>1, <1>2, <1>5, <2>1
  <2>2. ASSUME NEW r \in P, DateOf(reading, p[2]) >= start, pair(r, p)
        PROVE  DateOf(reading, r) >= start
    BY <1>5, <2>2
  <2> QED BY <1>3, <1>4, <2>1, <2>2
<1> QED BY <1>6

(* store.py:1900, of one state: any table of bars and any Supersession of survivors.       *)
LEMMA ReadableReadsAgree == ReadsAssumption /\ Readable => ReadsAgree
<1> SUFFICES ASSUME ReadsAssumption, Readable, NEW reading \in Readings
             PROVE  /\ \A i \in Instruments :
                         LET all == BarsFor(i, Min(Days), Max(Days), reading)
                         IN \A d \in Days :
                              LET point == BarsFor(i, d, d, reading)
                              IN /\ DOMAIN point = DOMAIN all \cap {d}
                                 /\ d \in DOMAIN point => point[d] = all[d]
                    /\ \A d \in Days :
                         LET members == MemberBars(d, reading)
                         IN ResolvedBars(d, d, reading) = {members[i] : i \in DOMAIN members} \ {NoBar}
                    /\ \A start \in Days :
                         ClosePairs(start, Max(Days), reading) =
                           {p \in ClosePairs(Min(Days), Max(Days), reading) : DateOf(reading, p[2]) >= start}
  BY Zenon DEF ReadsAgree
<1>1. ASSUME NEW i \in Instruments, NEW d \in Days
      PROVE  LET all == BarsFor(i, Min(Days), Max(Days), reading)
                 point == BarsFor(i, d, d, reading)
             IN /\ DOMAIN point = DOMAIN all \cap {d}
                /\ d \in DOMAIN point => point[d] = all[d]
  BY PointIsRange
<1>2. \A d \in Days :
        LET members == MemberBars(d, reading)
        IN ResolvedBars(d, d, reading) = {members[i] : i \in DOMAIN members} \ {NoBar}
  BY ResolvedAreMembers
<1>3. \A start \in Days :
        ClosePairs(start, Max(Days), reading) =
          {p \in ClosePairs(Min(Days), Max(Days), reading) : DateOf(reading, p[2]) >= start}
  BY PairsAgree
<1> QED BY <1>1, <1>2, <1>3

-----------------------------------------------------------------------------
(* Backfills: what holds between two steps. *)

Stage == {"idle", "target", "charted", "charting", "find", "pairing", "frame", "writing", "done"}
Holding == {"charting", "writing"}   \* the stages at which a run has the sweep lock

AnyRun == [stage : Stage, left : SUBSET Instruments, today : Nat,
           coin : [Instruments -> Coins \cup {NoCoin}], pairs : [Instruments -> SUBSET Tickers],
           tickers : Seq(Tickers), dates : SUBSET Days, held : SUBSET Days,
           family : SUBSET Instruments]

(* What a run has in hand at each of its stages. *)
Orderly(r) ==
  /\ r.stage \notin {"idle", "done"} => r.today \in Days /\ r.left # {}
  /\ r.stage \notin {"idle", "target", "done"} => r.coin[Min(r.left)] # NoCoin
  /\ r.stage \in {"charted", "charting", "pairing", "frame", "writing"} => r.dates # {}
  /\ r.stage \in {"pairing", "frame", "writing"} =>
       r.tickers # <<>> /\ r.dates \subseteq Listed[Head(r.tickers)]

SourceAt(stage) == IF stage = "charting" THEN CoinGecko ELSE Yahoo

(* What a run that holds the lock knows of the rows: the dates its family held when it    *)
(* looked it still holds, and those it lacked none of that family holds.                  *)
LookedIn(r, table, end) ==
  r.stage \in Holding =>
    /\ Min(r.left) \in r.family
    /\ \A j \in r.family : end[j] = end[Min(r.left)]
    /\ \A d \in r.dates, b \in table :
         b.source = SourceAt(r.stage) /\ b.date = d /\ b.instrument \in r.family => d \in r.held
    /\ \A d \in r.dates \cap r.held :
         \E b \in table : b.source = SourceAt(r.stage) /\ b.date = d /\ b.instrument \in r.family

Looked(r) == LookedIn(r, rows, Fold(links))

(* The Instruments that carry one ticker are one family, and each carries one. *)
OneFamilyPerPair ==
  \A i, j \in Instruments : pairs[i] \cap pairs[j] # {} => Survivor(i) = Survivor(j)

OnePairEach == \A i \in Instruments : \A s, t \in pairs[i] : s = t

RegistryTrue ==
  /\ coin \in [Instruments -> Coins \cup {NoCoin}] /\ pairs \in [Instruments -> SUBSET Tickers]
  /\ OneFamilyPerPair /\ OnePairEach

RunsTrue ==
  /\ lock \in Runs \cup {Free}
  /\ run \in [Runs -> AnyRun]
  /\ \A p \in Runs : /\ Orderly(run[p]) /\ Looked(run[p])
                     /\ lock = p <=> run[p].stage \in Holding

BackfillInv == Readable /\ day \in Days /\ RegistryTrue /\ RunsTrue

BackfillAssumptions ==
  /\ InstrumentsAssumption /\ SourcesAssumption /\ DaysAssumption /\ BackfillAssumption

LEMMA InstrumentsAre ==
  ASSUME InstrumentsAssumption
  PROVE  /\ Instruments \subseteq Nat
         /\ \A S \in SUBSET Instruments : S # {} => Min(S) \in S
<1>1. Instruments \subseteq Nat
  BY FS_CardinalityType DEF InstrumentsAssumption
<1> QED BY <1>1, MinIsMember

LEMMA SpanOfDays ==
  ASSUME DaysAssumption, NEW S \in SUBSET Days, S # {}
  PROVE  /\ Min(S) \in Int /\ Max(S) \in Int
         /\ \A d \in S : d \in Min(S)..Max(S)
<1>1. PICK last \in Days : \A d \in Days : d <= last
  BY DEF DaysAssumption
<1>2. S \in SUBSET Nat /\ last \in Nat
  BY <1>1 DEF DaysAssumption
<1>3. Min(S) \in S /\ \A d \in S : Min(S) <= d
  BY <1>2, MinIsMember
<1>4. Max(S) \in S /\ \A d \in S : d <= Max(S)
  BY <1>1, <1>2, MaxIsMember
<1>5. \A d \in S : d \in Nat
  BY <1>2
<1>6. Min(S) \in Nat /\ Max(S) \in Nat
  BY <1>3, <1>4, <1>5
<1> QED BY <1>3, <1>4, <1>5, <1>6

(* The dates _stamped finds: those a row of the family has, from the first to the last. *)
LEMMA StampedIs ==
  ASSUME BackfillAssumptions, Readable, NEW i \in Instruments, NEW source_ \in Sources,
         NEW dates \in SUBSET Days, dates # {}
  PROVE  /\ Stamped(i, source_, dates) \subseteq Days
         /\ \A d \in dates : d \in Stamped(i, source_, dates) <=>
              \E b \in rows : b.source = source_ /\ b.date = d /\ b.instrument \in Family(i)
<1>1. SourcesAssumption /\ DaysAssumption
  BY DEF BackfillAssumptions
<1>2. /\ Min(dates) \in Int /\ Max(dates) \in Int
      /\ \A d \in dates : d \in Min(dates)..Max(dates)
  BY <1>1, SpanOfDays
<1>3. source_ \in Readings /\ source_ # Resolved
  BY <1>1 DEF Readings, Resolved, SourcesAssumption
<1>4. Stamped(i, source_, dates) = {d \in Min(dates)..Max(dates) : At(i, source_, d) # {}}
  <2>1. ASSUME NEW a \in Int, NEW b \in Int
        PROVE  /\ DOMAIN BarsFor(i, a, b, source_) = {d \in a..b : At(i, source_, d) # {}}
               /\ \A d \in DOMAIN BarsFor(i, a, b, source_) :
                    BarsFor(i, a, b, source_)[d] =
                      Preferred(Survivor(i), Preference(source_), At(i, source_, d))
    BY <1>1, <1>3, BarsForIs
  <2> QED BY <1>2, <2>1 DEF Stamped
<1>5. \A b \in rows : DateOf(source_, b) = b.date /\ b.date \in Days
  BY <1>1, <1>3, DatesAre DEF Readable, Keyed
<1>6. ToSet(Preference(source_)) = {source_}
  BY <1>1, <1>3, Preferences
<1>7. \A d : At(i, source_, d) # {} <=>
               \E b \in rows : b.source = source_ /\ b.date = d /\ b.instrument \in Family(i)
  BY <1>5, <1>6 DEF At
<1> QED BY <1>2, <1>4, <1>5, <1>7

-----------------------------------------------------------------------------
(* One run takes a step. *)

(* A run moves and may write; the others keep what they had in hand. *)
LEMMA RunMoves ==
  ASSUME BackfillInv, NEW p \in Runs, NEW r \in AnyRun, run' = [run EXCEPT ![p] = r],
         UNCHANGED <<links, day>>, Keyed(rows'), RegistryTrue',
         lock' \in Runs \cup {Free}, Orderly(r), LookedIn(r, rows', Fold(links)),
         lock' = p <=> r.stage \in Holding,
         \A q \in Runs \ {p} : lock' = q <=> lock = q,
         rows' = rows \/ \A q \in Runs \ {p} : lock # q
  PROVE  BackfillInv'
<1>1. run \in [Runs -> AnyRun]
  BY DEF BackfillInv, RunsTrue
<1>2. run' \in [Runs -> AnyRun] /\ \A q \in Runs : run'[q] = IF q = p THEN r ELSE run[q]
  BY <1>1
<1>3. \A q \in Runs \ {p} : LookedIn(run[q], rows', Fold(links))
  <2>1. CASE rows' = rows
    BY <2>1 DEF BackfillInv, RunsTrue, Looked
  <2>2. CASE \A q \in Runs \ {p} : lock # q
    BY <2>2 DEF BackfillInv, RunsTrue, LookedIn
  <2> QED BY <2>1, <2>2
<1>4. \A q \in Runs : LookedIn(run'[q], rows', Fold(links))
  BY <1>2, <1>3
<1>5. \A q \in Runs : Orderly(run'[q]) /\ (lock' = q <=> run'[q].stage \in Holding)
  BY <1>2 DEF BackfillInv, RunsTrue
<1>6. (\A q \in Runs : Looked(run[q]))'
  BY <1>4 DEF Looked
<1>7. RunsTrue'
  BY <1>2, <1>5, <1>6 DEF RunsTrue
<1>8. Readable' /\ (day \in Days)'
  BY DEF BackfillInv, Readable, Linked
<1> QED BY <1>7, <1>8 DEF BackfillInv

(* A run that has no lock before or after, and writes nothing. *)
LEMMA RunGoesOn ==
  ASSUME BackfillInv, NEW p \in Runs, NEW r \in AnyRun, run' = [run EXCEPT ![p] = r],
         UNCHANGED <<rows, day, lock>>, UNCHANGED registryVars,
         Orderly(r), run[p].stage \notin Holding, r.stage \notin Holding
  PROVE  BackfillInv'
<1>1. lock # p /\ lock \in Runs \cup {Free}
  BY DEF BackfillInv, RunsTrue
<1>2. LookedIn(r, rows', Fold(links))
  BY DEF LookedIn
<1>3. RegistryTrue' /\ Keyed(rows')
  BY DEF BackfillInv, Readable, RegistryTrue, OneFamilyPerPair, OnePairEach, Survivor, registryVars
<1> QED BY <1>1, <1>2, <1>3, RunMoves DEF registryVars

(* The run of one process, and what Set, Leave and the next target make of it. *)
LEMMA RunIs ==
  ASSUME BackfillInv, NEW p \in Runs
  PROVE  /\ run[p] \in AnyRun /\ Orderly(run[p]) /\ LookedIn(run[p], rows, Fold(links))
         /\ lock = p <=> run[p].stage \in Holding
         /\ \A q \in Runs : lock = q <=> run[q].stage \in Holding
         /\ lock \in Runs \cup {Free}
BY DEF BackfillInv, RunsTrue, Looked

LEMMA TargetIs ==
  ASSUME BackfillInv, InstrumentsAssumption, NEW p \in Runs, run[p].stage \notin {"idle", "done"}
  PROVE  /\ Target(p) = Min(run[p].left) /\ Target(p) \in run[p].left
         /\ Target(p) \in Instruments /\ run[p].today \in Days /\ run[p].today \in Nat
<1>1. run[p] \in AnyRun /\ Orderly(run[p])
  BY RunIs
<1>2. run[p].left \in SUBSET Instruments /\ run[p].left # {} /\ run[p].today \in Days /\ run[p].today \in Nat
  BY <1>1 DEF AnyRun, Orderly
<1>3. Min(run[p].left) \in run[p].left
  BY <1>2, InstrumentsAre
<1> QED BY <1>2, <1>3 DEF Target

LEMMA LeaveKeeps ==
  ASSUME BackfillInv, InstrumentsAssumption, NEW p \in Runs, Leave(p),
         run[p].stage \notin {"idle", "done"}
  PROVE  \E r \in AnyRun : /\ run' = [run EXCEPT ![p] = r] /\ Orderly(r)
                           /\ r.stage \notin Holding
<1> DEFINE s == [run[p] EXCEPT !.left = run[p].left \ {Target(p)}, !.tickers = <<>>, !.dates = {},
                               !.held = {}, !.family = {}]
           r == [s EXCEPT !.stage = IF s.left = {} THEN "done" ELSE "target"]
<1>1. run' = [run EXCEPT ![p] = r]
  BY DEF Leave, Set
<1>2. run[p] \in AnyRun /\ run[p].today \in Days
  BY RunIs, TargetIs
<1>3. s \in AnyRun /\ s.today = run[p].today /\ s.left = run[p].left \ {Target(p)}
  <2>1. <<>> \in Seq(Tickers)
    OBVIOUS
  <2> QED BY <1>2, <2>1 DEF AnyRun
<1> HIDE DEF s
<1>4. /\ r \in AnyRun /\ r.left = s.left /\ r.today = s.today
      /\ r.stage = IF s.left = {} THEN "done" ELSE "target"
  BY <1>3 DEF AnyRun, Stage
<1> HIDE DEF r
<1>5. Orderly(r) /\ r.stage \notin Holding
  BY <1>2, <1>3, <1>4 DEF Orderly, Holding
<1> QED BY <1>1, <1>4, <1>5

LEMMA RegistryStays == RegistryTrue /\ UNCHANGED registryVars => RegistryTrue'
BY DEF RegistryTrue, OneFamilyPerPair, OnePairEach, Survivor, registryVars

LEMMA IdleIs == BackfillAssumptions => Idle \in AnyRun /\ Idle.stage = "idle"
<1>1. BackfillAssumptions => NamedCoin \in [Instruments -> Coins \cup {NoCoin}]
  BY DEF BackfillAssumptions, BackfillAssumption
<1>2. <<>> \in Seq(Tickers)
  OBVIOUS
<1> QED BY <1>1, <1>2 DEF Idle, AnyRun, Stage

LEMMA BackfillInitially == BackfillAssumptions /\ BackfillInit => BackfillInv
<1> SUFFICES ASSUME BackfillAssumptions, BackfillInit PROVE BackfillInv
  OBVIOUS
<1>1. InstrumentsAssumption /\ BackfillAssumption /\ DaysAssumption
  BY DEF BackfillAssumptions
<1>2. Cardinality(Instruments) \in Nat
  BY <1>1, FS_CardinalityType DEF InstrumentsAssumption
<1>3. links = [i \in Instruments |-> 0] /\ pairs = [i \in Instruments |-> {}] /\ rows = {}
      /\ coin = NamedCoin /\ lock = Free /\ day = FirstDay /\ run = [p \in Runs |-> Idle]
  BY DEF BackfillInit, None
<1>4. Linked
  BY <1>1, <1>2, <1>3 DEF Linked, WellLinked, InstrumentsAssumption
<1>5. Readable /\ day \in Days
  BY <1>1, <1>3, <1>4 DEF Readable, Keyed, BackfillAssumption
<1>6. RegistryTrue
  <2>1. coin \in [Instruments -> Coins \cup {NoCoin}]
    BY <1>1, <1>3 DEF BackfillAssumption
  <2>2. pairs \in [Instruments -> SUBSET Tickers] /\ \A i \in Instruments : pairs[i] = {}
    BY <1>3
  <2> QED BY <2>1, <2>2 DEF RegistryTrue, OneFamilyPerPair, OnePairEach
<1>7. Idle \in AnyRun /\ Idle.stage = "idle"
  BY IdleIs
<1>8. \A p \in Runs : run[p] = Idle
  BY <1>3
<1>9. RunsTrue
  <2>1. run \in [Runs -> AnyRun]
    BY <1>3, <1>7
  <2>2. \A p \in Runs : Orderly(run[p]) /\ Looked(run[p]) /\ run[p].stage \notin Holding
    BY <1>7, <1>8 DEF Orderly, Looked, LookedIn, Holding
  <2>3. \A p \in Runs : lock # p
    BY <1>1, <1>3 DEF BackfillAssumption
  <2> QED BY <1>3, <2>1, <2>2, <2>3 DEF RunsTrue
<1> QED BY <1>5, <1>6, <1>9 DEF BackfillInv

(* One survivor superseded by an earlier one. *)
LEMMA FoldAfterOne ==
  ASSUME NEW chain, NEW n, WellLinked(chain, n), NEW i \in 1..n, NEW j \in 1..n, i < j,
         chain[i] = None, chain[j] = None
  PROVE  \A merged : merged = [k \in 1..n |-> IF k \in {j} THEN i ELSE chain[k]] =>
           /\ WellLinked(merged, n)
           /\ \A k \in 1..n : Fold(merged)[k] = IF Fold(chain)[k] \in {j} THEN i ELSE Fold(chain)[k]
<1>1. ASSUME NEW losers \in SUBSET (1..n), \A l \in losers : chain[l] = None /\ i < l,
             NEW moved, moved = [k \in 1..n |-> IF k \in losers THEN i ELSE chain[k]]
      PROVE  /\ WellLinked(moved, n)
             /\ \A k \in 1..n : Fold(moved)[k] = IF Fold(chain)[k] \in losers THEN i ELSE Fold(chain)[k]
  BY <1>1, FoldAfterMerge
<1>2. {j} \in SUBSET (1..n) /\ \A l \in {j} : chain[l] = None /\ i < l
  OBVIOUS
<1> QED BY <1>1, <1>2

(* A merge moves the loser's family, its pairs with it, to the winner. *)
LEMMA MergeFolds ==
  ASSUME InstrumentsAssumption, Linked, NEW i \in Instruments, NEW j \in Instruments, i < j,
         {i, j} \subseteq Survivors, links' = [links EXCEPT ![j] = i]
  PROVE  /\ Linked'
         /\ \A k, l \in Instruments : Survivor(k) = Survivor(l) => (Survivor(k) = Survivor(l))'
<1> DEFINE n == Cardinality(Instruments)
<1>1. n \in Nat /\ Instruments = 1..n
  BY FS_CardinalityType DEF InstrumentsAssumption
<1>2. WellLinked(links, n)
  BY DEF Linked
<1>3. links[i] = None /\ links[j] = None
  <2>1. PICK k \in Instruments : i = Fold(links)[k]
    BY DEF Survivors, Survivor
  <2>2. PICK l \in Instruments : j = Fold(links)[l]
    BY DEF Survivors, Survivor
  <2> HIDE DEF n
  <2> QED BY <1>1, <1>2, <2>1, <2>2, FoldEnds
<1>4. links' = [k \in 1..n |-> IF k \in {j} THEN i ELSE links[k]]
  BY <1>1, <1>2 DEF WellLinked
<1>5. /\ WellLinked(links', n)
      /\ \A k \in 1..n : Fold(links')[k] = IF Fold(links)[k] \in {j} THEN i ELSE Fold(links)[k]
  <2>1. i \in 1..n /\ j \in 1..n /\ i < j
    BY <1>1
  <2> HIDE DEF n
  <2>2. \A merged : merged = [k \in 1..n |-> IF k \in {j} THEN i ELSE links[k]] =>
          /\ WellLinked(merged, n)
          /\ \A k \in 1..n : Fold(merged)[k] = IF Fold(links)[k] \in {j} THEN i ELSE Fold(links)[k]
    BY <1>2, <1>3, <2>1, FoldAfterOne
  <2> QED BY <1>4, <2>2
<1>6. Linked'
  BY <1>1, <1>4, <1>5 DEF Linked
<1> HIDE DEF n
<1> QED BY <1>1, <1>5, <1>6 DEF Survivor

LEMMA MergeKeeps ==
  ASSUME BackfillAssumptions, BackfillInv, NEW i \in Instruments, NEW j \in Instruments,
         NEW named \in BOOLEAN, Merge(i, j, named)
  PROVE  BackfillInv'
<1>1. InstrumentsAssumption /\ i < j /\ {i, j} \subseteq Survivors /\ links' = [links EXCEPT ![j] = i]
      /\ UNCHANGED <<rows, day, pairs, lock, run>>
  BY DEF Merge, BackfillAssumptions
<1>2. Linked
  BY DEF BackfillInv, Readable
<1>3. /\ Linked'
      /\ \A k, l \in Instruments : Survivor(k) = Survivor(l) => (Survivor(k) = Survivor(l))'
  BY <1>1, <1>2, MergeFolds
<1>4. Readable' /\ (day \in Days)'
  BY <1>1, <1>3 DEF BackfillInv, Readable
<1>5. RegistryTrue'
  <2>1. coin' \in [Instruments -> Coins \cup {NoCoin}]
    BY DEF Merge, BackfillInv, RegistryTrue
  <2> QED BY <1>1, <1>3, <2>1 DEF BackfillInv, RegistryTrue, OneFamilyPerPair, OnePairEach
<1>6. ASSUME NEW p \in Runs PROVE Looked(run[p])'
  <2>1. run[p] \in AnyRun /\ Orderly(run[p]) /\ LookedIn(run[p], rows, Fold(links))
    BY RunIs
  <2>2. run[p].stage \in Holding => Min(run[p].left) \in Instruments /\ run[p].family \subseteq Instruments
    <3>1. run[p].left \in SUBSET Instruments /\ run[p].family \in SUBSET Instruments
      BY <2>1 DEF AnyRun
    <3>2. run[p].stage \in Holding => run[p].left # {}
      BY <2>1 DEF Orderly, Holding
    <3> QED BY <1>1, <3>1, <3>2, InstrumentsAre
  <2>3. \A k, l \in Instruments : Fold(links)[k] = Fold(links)[l] => Fold(links')[k] = Fold(links')[l]
    BY <1>3 DEF Survivor
  <2>4. LookedIn(run[p], rows, Fold(links'))
    BY <2>1, <2>2, <2>3 DEF LookedIn
  <2> QED BY <1>1, <2>4 DEF Looked
<1>7. RunsTrue'
  BY <1>1, <1>6 DEF BackfillInv, RunsTrue
<1> QED BY <1>4, <1>5, <1>7 DEF BackfillInv

-----------------------------------------------------------------------------
(* Every step of the backfills, and of what happens beside them. *)

(* New bars, none of which replaces another, leave the table keyed. *)
LEMMA UpsertedKeyed ==
  ASSUME Keyed(rows), NEW new, Keyed(new)
  PROVE  Keyed(Upserted(new)) /\ new \subseteq Upserted(new)
BY DEF Keyed, Upserted

LEMMA SweepKeeps ==
  ASSUME BackfillAssumptions, BackfillInv, NEW priced \in Listings, Sweep(priced)
  PROVE  BackfillInv'
<1> DEFINE identified == {i \in Instruments : \E c \in priced : Holders(c) = {i}}
           chosen(i) == CHOOSE c \in priced : Holders(c) = {i}
           bar(i) == [instrument |-> i, source |-> CoinGecko, date |-> day, fetched |-> day,
                      close |-> CoinClose[chosen(i)][SessionOf(CoinGecko, day)]]
           new == {bar(i) : i \in identified \ WithBars(CoinGecko, day)}
<1>1. /\ lock = Free /\ UNCHANGED <<links, day, pairs, lock, run>>
      /\ rows' = Upserted(new)
      /\ coin' = [i \in Instruments |-> IF i \in identified /\ coin[i] = NoCoin THEN chosen(i) ELSE coin[i]]
  BY Zenon DEF Sweep
<1>2. BackfillAssumption
  BY DEF BackfillAssumptions
<1>3. /\ priced \subseteq Coins /\ CoinGecko \in Sources /\ day \in Days
      /\ \A c \in Coins, d \in Days : CoinClose[c][SessionOf(CoinGecko, d)] \in Nat
  BY <1>2 DEF BackfillAssumption, BackfillInv
<1>4. \A i \in identified : chosen(i) \in priced
  OBVIOUS
<1> HIDE DEF chosen, identified
<1>5. Keyed(new)
  <2>1. \A i \in identified : i \in Instruments
    BY DEF identified
  <2>2. \A i \in identified : bar(i) \in BarRow
    BY <1>3, <1>4, <2>1 DEF BarRow
  <2>3. \A i \in identified : bar(i).instrument = i
    OBVIOUS
  <2> HIDE DEF bar
  <2> QED BY <2>2, <2>3 DEF Keyed
<1> HIDE DEF new
<1>6. Keyed(rows')
  BY <1>1, <1>5, UpsertedKeyed DEF BackfillInv, Readable
<1>7. coin' \in [Instruments -> Coins \cup {NoCoin}]
  BY <1>1, <1>3, <1>4 DEF BackfillInv, RegistryTrue
<1>8. RegistryTrue'
  BY <1>1, <1>7 DEF BackfillInv, RegistryTrue, OneFamilyPerPair, OnePairEach, Survivor
<1>9. RunsTrue'
  <2>1. \A p \in Runs : run[p].stage \notin Holding
    BY <1>1, <1>2 DEF BackfillInv, RunsTrue, BackfillAssumption
  <2>2. (\A p \in Runs : Looked(run[p]))'
    BY <1>1, <2>1 DEF Looked, LookedIn
  <2> QED BY <1>1, <2>2 DEF BackfillInv, RunsTrue
<1> QED BY <1>1, <1>6, <1>8, <1>9 DEF BackfillInv, Readable, Linked

LEMMA BeginKeeps ==
  ASSUME BackfillAssumptions, BackfillInv, NEW p \in Runs,
         NEW taken \in kSubset(MaxTargets, Instruments), Begin(p, taken)
  PROVE  BackfillInv'
<1> DEFINE r == [Idle EXCEPT !.stage = "target", !.today = day, !.coin = coin, !.pairs = pairs,
                             !.left = taken]
<1>1. /\ run[p].stage = "idle" /\ run' = [run EXCEPT ![p] = r]
      /\ UNCHANGED <<rows, day, lock>> /\ UNCHANGED registryVars
  BY DEF Begin
<1>2. taken \subseteq Instruments /\ taken # {}
  <2>1. taken \in SUBSET Instruments /\ Cardinality(taken) = MaxTargets
    BY DEF kSubset
  <2>2. MaxTargets \in Nat \ {0}
    BY DEF BackfillAssumptions, BackfillAssumption
  <2> QED BY <2>1, <2>2, FS_EmptySet
<1>3. /\ coin \in [Instruments -> Coins \cup {NoCoin}] /\ pairs \in [Instruments -> SUBSET Tickers]
      /\ day \in Days
  BY DEF BackfillInv, RegistryTrue
<1>4. Days \subseteq Nat
  BY DEF BackfillAssumptions, DaysAssumption
<1>5. Idle \in AnyRun
  BY IdleIs
<1>6. /\ r \in AnyRun /\ r.stage = "target" /\ r.left = taken /\ r.today = day
  BY <1>2, <1>3, <1>4, <1>5 DEF AnyRun, Stage
<1> HIDE DEF r
<1>7. Orderly(r) /\ r.stage \notin Holding /\ run[p].stage \notin Holding
  BY <1>1, <1>2, <1>3, <1>6 DEF Orderly, Holding
<1> QED BY <1>1, <1>6, <1>7, RunGoesOn

LEMMA SkipKeeps ==
  ASSUME BackfillAssumptions, BackfillInv, NEW p \in Runs, Skip(p) \/ Unpaired(p)
  PROVE  BackfillInv'
<1>1. /\ run[p].stage \in {"target", "find"} /\ Leave(p)
      /\ UNCHANGED <<rows, day, lock>> /\ UNCHANGED registryVars
  BY DEF Skip, Unpaired
<1>2. InstrumentsAssumption /\ run[p].stage \notin {"idle", "done"} /\ run[p].stage \notin Holding
  BY <1>1 DEF BackfillAssumptions, Holding
<1>3. PICK r \in AnyRun : /\ run' = [run EXCEPT ![p] = r] /\ Orderly(r) /\ r.stage \notin Holding
  BY <1>1, <1>2, LeaveKeeps
<1> QED BY <1>1, <1>2, <1>3, RunGoesOn

LEMMA ChartKeeps ==
  ASSUME BackfillAssumptions, BackfillInv, NEW p \in Runs, NEW absent, Chart(p, absent)
  PROVE  BackfillInv'
<1> DEFINE s == [run[p] EXCEPT !.dates = Midnights(absent), !.tickers = Candidates[Target(p)]]
           r == [s EXCEPT !.stage = IF Midnights(absent) = {} THEN "find" ELSE "charted"]
<1>1. /\ run[p].stage = "target" /\ run[p].coin[Target(p)] # NoCoin /\ run' = [run EXCEPT ![p] = r]
      /\ UNCHANGED <<rows, day, lock>> /\ UNCHANGED registryVars
  BY DEF Chart, Set
<1>2. /\ run[p] \in AnyRun /\ Orderly(run[p]) /\ Target(p) \in Instruments
      /\ Target(p) = Min(run[p].left)
  BY <1>1, RunIs, TargetIs DEF BackfillAssumptions
<1>3. Candidates[Target(p)] \in Seq(Tickers)
  BY <1>2 DEF BackfillAssumptions, BackfillAssumption
<1>4. Midnights(absent) \in SUBSET Days
  BY DEF Midnights
<1>5. /\ r \in AnyRun /\ r.stage = (IF Midnights(absent) = {} THEN "find" ELSE "charted")
      /\ r.left = run[p].left /\ r.today = run[p].today /\ r.coin = run[p].coin
      /\ r.dates = Midnights(absent)
  BY <1>2, <1>3, <1>4 DEF AnyRun, Stage
<1> HIDE DEF r, s
<1>6. Orderly(r)
  BY <1>1, <1>2, <1>5 DEF Orderly
<1>7. r.stage \notin Holding /\ run[p].stage \notin Holding
  BY <1>1, <1>5 DEF Holding
<1> QED BY <1>1, <1>5, <1>6, <1>7, RunGoesOn

(* The lock taken, and the dates the family holds read, before a write. *)
LEMMA EnterKeeps ==
  ASSUME BackfillAssumptions, BackfillInv, NEW p \in Runs, EnterChart(p) \/ EnterYahoo(p)
  PROVE  BackfillInv'
<1>1. PICK from \in {"charted", "frame"}, to \in Holding, source_ \in {CoinGecko, Yahoo} :
        /\ Enter(p, from, to, source_) /\ source_ = SourceAt(to)
        /\ from = "frame" <=> to = "writing"
  BY DEF EnterChart, EnterYahoo, Holding, SourceAt
<1> DEFINE i == Target(p)
           dates == run[p].dates
           s == [run[p] EXCEPT !.held = Stamped(i, source_, dates), !.family = Family(i)]
           r == [s EXCEPT !.stage = to]
<1>2. /\ run[p].stage = from /\ lock = Free /\ lock' = p /\ run' = [run EXCEPT ![p] = r]
      /\ UNCHANGED <<rows, day>> /\ UNCHANGED registryVars
  BY <1>1 DEF Enter, Set
<1>3. BackfillAssumption /\ InstrumentsAssumption
  BY DEF BackfillAssumptions
<1>4. /\ run[p] \in AnyRun /\ Orderly(run[p]) /\ i \in Instruments /\ i = Min(run[p].left)
      /\ dates \in SUBSET Days /\ dates # {}
  <2>1. run[p] \in AnyRun /\ Orderly(run[p]) /\ i \in Instruments /\ i = Min(run[p].left)
    BY <1>1, <1>2, <1>3, RunIs, TargetIs
  <2> HIDE DEF i
  <2> QED BY <1>1, <1>2, <2>1 DEF AnyRun, Orderly
<1>5. source_ \in Sources /\ source_ = SourceAt(to)
  BY <1>1, <1>3 DEF BackfillAssumption
<1>6. /\ Stamped(i, source_, dates) \subseteq Days
      /\ \A d \in dates : d \in Stamped(i, source_, dates) <=>
           \E b \in rows : b.source = source_ /\ b.date = d /\ b.instrument \in Family(i)
  <2>1. Readable
    BY DEF BackfillInv
  <2> HIDE DEF i, dates
  <2> QED BY <1>4, <1>5, <2>1, StampedIs
<1>7. Family(i) \in SUBSET Instruments /\ i \in Family(i) /\ \A j \in Family(i) : Fold(links)[j] = Fold(links)[i]
  BY <1>4, Zenon DEF Family
<1>8. /\ r \in AnyRun /\ r.stage = to /\ r.left = run[p].left /\ r.today = run[p].today
      /\ r.coin = run[p].coin /\ r.dates = dates /\ r.tickers = run[p].tickers
      /\ r.held = Stamped(i, source_, dates) /\ r.family = Family(i)
  <2>1. to \in Stage
    BY <1>1 DEF Holding, Stage
  <2> HIDE DEF i
  <2> QED BY <1>4, <1>6, <1>7, <2>1 DEF AnyRun
<1> HIDE DEF r, s
<1>9. Orderly(r)
  BY <1>1, <1>2, <1>4, <1>8 DEF Orderly, Holding
<1>10. LookedIn(r, rows', Fold(links))
  <2> HIDE DEF i
  <2> QED BY <1>2, <1>4, <1>5, <1>6, <1>7, <1>8 DEF LookedIn
<1>11. Keyed(rows') /\ RegistryTrue'
  BY <1>2, RegistryStays DEF BackfillInv, Readable
<1>12. /\ lock' \in Runs \cup {Free} /\ (lock' = p <=> r.stage \in Holding)
       /\ \A q \in Runs \ {p} : lock' = q <=> lock = q
  BY <1>1, <1>2, <1>3, <1>8 DEF BackfillAssumption
<1> QED BY <1>2, <1>8, <1>9, <1>10, <1>11, <1>12, RunMoves DEF registryVars

(* The lock let go, whatever was written. *)
LEMMA WriteMoves ==
  ASSUME BackfillAssumptions, BackfillInv, NEW p \in Runs, run[p].stage \in Holding, lock' = Free,
         NEW r \in AnyRun, run' = [run EXCEPT ![p] = r], Orderly(r), r.stage \notin Holding,
         UNCHANGED day, UNCHANGED registryVars, Keyed(rows')
  PROVE  BackfillInv'
<1>1. lock = p /\ Free \notin Runs
  BY DEF BackfillInv, RunsTrue, BackfillAssumptions, BackfillAssumption
<1>2. LookedIn(r, rows', Fold(links))
  BY DEF LookedIn
<1>3. RegistryTrue'
  BY RegistryStays DEF BackfillInv
<1> QED BY <1>1, <1>2, <1>3, RunMoves DEF registryVars

LEMMA WriteChartKeeps ==
  ASSUME BackfillAssumptions, BackfillInv, NEW p \in Runs, WriteChart(p)
  PROVE  BackfillInv' /\ rows \subseteq rows'
<1> DEFINE i == Target(p)
           bar(d) == [instrument |-> i, source |-> CoinGecko, date |-> d, fetched |-> run[p].today,
                      close |-> CoinClose[run[p].coin[i]][SessionOf(CoinGecko, d)]]
           new == {bar(d) : d \in run[p].dates \ run[p].held}
           s == [run[p] EXCEPT !.dates = {}, !.held = {}, !.family = {}]
           r == [s EXCEPT !.stage = "find"]
<1>1. /\ run[p].stage = "charting" /\ rows' = Upserted(new) /\ lock' = Free
      /\ run' = [run EXCEPT ![p] = r] /\ UNCHANGED day /\ UNCHANGED registryVars
  BY Zenon DEF WriteChart, Set
<1>2. BackfillAssumption /\ InstrumentsAssumption
  BY DEF BackfillAssumptions
<1>3. /\ run[p] \in AnyRun /\ Orderly(run[p]) /\ LookedIn(run[p], rows, Fold(links))
      /\ i \in Instruments /\ i = Min(run[p].left) /\ run[p].today \in Days
  BY <1>1, <1>2, RunIs, TargetIs
<1> HIDE DEF i
<1>4. run[p].dates \subseteq Days /\ run[p].coin[i] \in Coins
  BY <1>1, <1>3 DEF AnyRun, Orderly
<1>5. \A d \in run[p].dates : bar(d) \in BarRow /\ bar(d).date = d /\ bar(d).instrument = i
                              /\ bar(d).source = CoinGecko
  BY <1>2, <1>3, <1>4 DEF BarRow, BackfillAssumption
<1> HIDE DEF bar
<1>6. Keyed(new) /\ Keyed(rows)
  BY <1>5 DEF Keyed, BackfillInv, Readable
<1>7. Keyed(rows')
  BY <1>1, <1>6, UpsertedKeyed
<1>8. /\ r \in AnyRun /\ r.stage = "find" /\ r.left = run[p].left /\ r.today = run[p].today
      /\ r.coin = run[p].coin
  BY <1>3 DEF AnyRun, Stage
<1>9. rows \subseteq rows'
  <2>1. SourceAt("charting") = CoinGecko
    BY DEF SourceAt
  <2>2. ASSUME NEW b \in rows, NEW d \in run[p].dates \ run[p].held, b.source = CoinGecko, b.date = d
        PROVE  b.instrument # i
    BY <1>1, <1>3, <2>1, <2>2 DEF LookedIn, Holding
  <2>3. \A b \in rows : ~ \E n \in new : n.instrument = b.instrument /\ n.source = b.source /\ n.date = b.date
    BY <1>5, <2>2
  <2> HIDE DEF new
  <2> QED BY <1>1, <2>3 DEF Upserted
<1> HIDE DEF r, s, new
<1>10. Orderly(r) /\ r.stage \notin Holding /\ run[p].stage \in Holding
  BY <1>1, <1>3, <1>8 DEF Orderly, Holding
<1> QED BY <1>1, <1>7, <1>8, <1>9, <1>10, WriteMoves

LEMMA WriteYahooKeeps ==
  ASSUME BackfillAssumptions, BackfillInv, NEW p \in Runs, WriteYahoo(p)
  PROVE  BackfillInv' /\ rows \subseteq rows'
<1> DEFINE t == Head(run[p].tickers)
           i == Target(p)
           bar(d) == [instrument |-> i, source |-> Yahoo, date |-> d, close |-> TickerClose[t][d],
                      fetched |-> run[p].today]
           new == {bar(d) : d \in run[p].dates \ run[p].held}
<1>1. /\ run[p].stage = "writing" /\ rows' = Upserted(new) /\ lock' = Free
      /\ Leave(p) /\ UNCHANGED day /\ UNCHANGED registryVars
  BY Zenon DEF WriteYahoo
<1>2. BackfillAssumption /\ InstrumentsAssumption
  BY DEF BackfillAssumptions
<1>3. /\ run[p] \in AnyRun /\ Orderly(run[p]) /\ LookedIn(run[p], rows, Fold(links))
      /\ i \in Instruments /\ i = Min(run[p].left) /\ run[p].today \in Days
  BY <1>1, <1>2, RunIs, TargetIs
<1> HIDE DEF i
<1>4. /\ run[p].dates \subseteq Days /\ run[p].tickers \in Seq(Tickers) /\ run[p].tickers # <<>>
      /\ run[p].dates \subseteq Listed[t]
  BY <1>1, <1>3 DEF AnyRun, Orderly
<1>5. t \in Tickers
  BY <1>4
<1> HIDE DEF t
<1>6. \A d \in run[p].dates : bar(d) \in BarRow /\ bar(d).date = d /\ bar(d).instrument = i
                              /\ bar(d).source = Yahoo
  BY <1>2, <1>3, <1>4, <1>5 DEF BarRow, BackfillAssumption
<1> HIDE DEF bar
<1>7. Keyed(new) /\ Keyed(rows)
  BY <1>6 DEF Keyed, BackfillInv, Readable
<1>8. Keyed(rows')
  BY <1>1, <1>7, UpsertedKeyed
<1>9. rows \subseteq rows'
  <2>1. SourceAt("writing") = Yahoo
    BY DEF SourceAt
  <2>2. ASSUME NEW b \in rows, NEW d \in run[p].dates \ run[p].held, b.source = Yahoo, b.date = d
        PROVE  b.instrument # i
    BY <1>1, <1>3, <2>1, <2>2 DEF LookedIn, Holding
  <2>3. \A b \in rows : ~ \E n \in new : n.instrument = b.instrument /\ n.source = b.source /\ n.date = b.date
    BY <1>6, <2>2
  <2> HIDE DEF new
  <2> QED BY <1>1, <2>3 DEF Upserted
<1>10. PICK r \in AnyRun : /\ run' = [run EXCEPT ![p] = r] /\ Orderly(r) /\ r.stage \notin Holding
  BY <1>1, <1>2, LeaveKeeps
<1> QED BY <1>1, <1>8, <1>9, <1>10, WriteMoves DEF Holding

(* A frame of a pair the run knew of when it began. *)
LEMMA KnownKeeps ==
  ASSUME BackfillAssumptions, BackfillInv, NEW p \in Runs, Known(p)
  PROVE  BackfillInv'
<1>1. /\ run[p].stage = "find" /\ UNCHANGED <<rows, day, lock>> /\ UNCHANGED registryVars
      /\ run[p].stage \notin {"idle", "done"} /\ run[p].stage \notin Holding
  BY DEF Known, Holding
<1>2. InstrumentsAssumption
  BY DEF BackfillAssumptions
<1>3. CASE Leave(p)
  <2>1. PICK r \in AnyRun : /\ run' = [run EXCEPT ![p] = r] /\ Orderly(r) /\ r.stage \notin Holding
    BY <1>1, <1>2, <1>3, LeaveKeeps
  <2> QED BY <1>1, <2>1, RunGoesOn
<1>4. ASSUME NEW t \in run[p].pairs[Target(p)], Settled(p, t) # {},
             Set(p, "frame", [run[p] EXCEPT !.tickers = <<t>>, !.dates = Settled(p, t)])
      PROVE  BackfillInv'
  <2> DEFINE s == [run[p] EXCEPT !.tickers = <<t>>, !.dates = Settled(p, t)]
             r == [s EXCEPT !.stage = "frame"]
  <2>1. run' = [run EXCEPT ![p] = r]
    BY <1>4 DEF Set
  <2>2. run[p] \in AnyRun /\ Orderly(run[p]) /\ Target(p) \in Instruments
    BY <1>1, <1>2, RunIs, TargetIs
  <2>3. t \in Tickers
    BY <2>2 DEF AnyRun
  <2>4. Settled(p, t) \subseteq Listed[t] /\ Listed[t] \subseteq Days
    BY <2>3 DEF Settled, BackfillAssumptions, BackfillAssumption
  <2>5. <<t>> \in Seq(Tickers) /\ <<t>> # <<>> /\ Head(<<t>>) = t
    BY <2>3
  <2>6. /\ r \in AnyRun /\ r.stage = "frame" /\ r.left = run[p].left /\ r.today = run[p].today
        /\ r.coin = run[p].coin /\ r.tickers = <<t>> /\ r.dates = Settled(p, t)
    BY <2>2, <2>4, <2>5 DEF AnyRun, Stage
  <2> HIDE DEF r, s
  <2>7. Orderly(r) /\ r.stage \notin Holding
    BY <1>1, <1>4, <2>2, <2>4, <2>5, <2>6 DEF Orderly, Holding
  <2> QED BY <1>1, <2>1, <2>6, <2>7, RunGoesOn
<1> QED BY <1>3, <1>4 DEF Known

(* A ticker that agrees has sessions. *)
LEMMA AgreesOnSome ==
  ASSUME BackfillAssumptions, NEW i, NEW t, NEW sessions, Agrees(i, t, sessions)
  PROVE  sessions # {}
<1> DEFINE held == BarsFor(i, Min(Days), Max(Days), CoinGecko)
           close == [s \in {SessionOf(CoinGecko, d) : d \in DOMAIN held} |-> held[s + Offset[CoinGecko]].close]
           both == DOMAIN close \cap sessions
           last == {s \in both : Cardinality({x \in both : x >= s}) <= PairSessions}
<1>1. Cardinality(last) = PairSessions
  BY Zenon DEF Agrees
<1>2. PairSessions # 0
  BY DEF BackfillAssumptions, BackfillAssumption
<1>3. last # {}
  <2> HIDE DEF last
  <2> QED BY <1>1, <1>2, FS_EmptySet
<1> QED BY <1>3

LEMMA TryPairKeeps ==
  ASSUME BackfillAssumptions, BackfillInv, NEW p \in Runs, NEW fails \in BOOLEAN, TryPair(p, fails)
  PROVE  BackfillInv'
<1> DEFINE t == Head(run[p].tickers)
           found == [run[p] EXCEPT !.dates = Settled(p, t)]
           next == [run[p] EXCEPT !.tickers = Tail(run[p].tickers)]
<1>1. /\ run[p].stage = "find" /\ run[p].tickers # <<>>
      /\ UNCHANGED <<rows, day, lock>> /\ UNCHANGED registryVars
      /\ run[p].stage \notin {"idle", "done"} /\ run[p].stage \notin Holding
  BY DEF TryPair, Holding
<1>2. \/ /\ Agrees(Target(p), t, Settled(p, t))
         /\ run' = [run EXCEPT ![p] = [found EXCEPT !.stage = "pairing"]]
      \/ run' = [run EXCEPT ![p] = [next EXCEPT !.stage = "find"]]
  BY DEF TryPair, Set
<1>3. InstrumentsAssumption
  BY DEF BackfillAssumptions
<1>4. run[p] \in AnyRun /\ Orderly(run[p])
  BY <1>1, RunIs
<1>5. run[p].tickers \in Seq(Tickers)
  BY <1>4 DEF AnyRun
<1>6. t \in Tickers /\ Tail(run[p].tickers) \in Seq(Tickers)
  BY <1>1, <1>5
<1> HIDE DEF t
<1>7. CASE /\ Agrees(Target(p), t, Settled(p, t))
           /\ run' = [run EXCEPT ![p] = [found EXCEPT !.stage = "pairing"]]
  <2> DEFINE r == [found EXCEPT !.stage = "pairing"]
  <2>1. Settled(p, t) # {}
    BY <1>7, AgreesOnSome
  <2>2. Settled(p, t) \subseteq Listed[t] /\ Listed[t] \subseteq Days
    BY <1>6 DEF Settled, BackfillAssumptions, BackfillAssumption
  <2>3. /\ r \in AnyRun /\ r.stage = "pairing" /\ r.left = run[p].left /\ r.today = run[p].today
        /\ r.coin = run[p].coin /\ r.tickers = run[p].tickers /\ r.dates = Settled(p, t)
    BY <1>4, <2>2 DEF AnyRun, Stage
  <2>4. run' = [run EXCEPT ![p] = r]
    BY <1>7
  <2> HIDE DEF r
  <2>5. Orderly(r) /\ r.stage \notin Holding
    BY <1>1, <1>4, <2>1, <2>2, <2>3 DEF Orderly, Holding, t
  <2> QED BY <1>1, <2>3, <2>4, <2>5, RunGoesOn
<1>8. CASE run' = [run EXCEPT ![p] = [next EXCEPT !.stage = "find"]]
  <2> DEFINE r == [next EXCEPT !.stage = "find"]
  <2>1. /\ r \in AnyRun /\ r.stage = "find" /\ r.left = run[p].left /\ r.today = run[p].today
        /\ r.coin = run[p].coin
    BY <1>4, <1>6 DEF AnyRun, Stage
  <2>2. run' = [run EXCEPT ![p] = r]
    BY <1>8
  <2> HIDE DEF r
  <2>3. Orderly(r) /\ r.stage \notin Holding
    BY <1>1, <1>4, <2>1 DEF Orderly, Holding
  <2> QED BY <1>1, <2>1, <2>2, <2>3, RunGoesOn
<1> QED BY <1>2, <1>7, <1>8

(* A pair is recorded only while nobody holds it, for an Instrument that has no other. *)
LEMMA PairRecorded ==
  ASSUME RegistryTrue, NEW i \in Instruments, NEW c \in Coins, NEW t \in Tickers, HeldBy(pairs, t) = {},
         Matched(pairs, i, c, t), coin' = [coin EXCEPT ![i] = c],
         pairs' = [pairs EXCEPT ![i] = pairs[i] \cup {t}], UNCHANGED links
  PROVE  RegistryTrue'
<1>1. \A k \in Instruments : t \notin pairs[k]
  BY DEF HeldBy
<1>2. pairs[i] \subseteq {t}
  BY DEF Matched
<1>3. /\ pairs' \in [Instruments -> SUBSET Tickers] /\ coin' \in [Instruments -> Coins \cup {NoCoin}]
      /\ \A k \in Instruments : pairs'[k] = IF k = i THEN {t} ELSE pairs[k]
  BY <1>2 DEF RegistryTrue
<1>4. OnePairEach'
  BY <1>3 DEF RegistryTrue, OnePairEach
<1>5. OneFamilyPerPair'
  BY <1>1, <1>3 DEF RegistryTrue, OneFamilyPerPair, Survivor
<1> QED BY <1>3, <1>4, <1>5 DEF RegistryTrue

LEMMA RecordPairKeeps ==
  ASSUME BackfillAssumptions, BackfillInv, NEW p \in Runs, RecordPair(p)
  PROVE  BackfillInv'
<1> DEFINE t == Head(run[p].tickers)
           c == run[p].coin[Target(p)]
           i == Survivor(Target(p))
           next == [run[p] EXCEPT !.tickers = Tail(run[p].tickers), !.dates = {}]
<1>1. /\ run[p].stage = "pairing" /\ lock = Free /\ UNCHANGED <<rows, day, lock, links>>
      /\ run[p].stage \notin {"idle", "done"} /\ run[p].stage \notin Holding
  BY DEF RecordPair, Holding
<1>2. \/ /\ UNCHANGED <<coin, pairs>> /\ run' = [run EXCEPT ![p] = [run[p] EXCEPT !.stage = "frame"]]
      \/ /\ UNCHANGED <<coin, pairs>> /\ run' = [run EXCEPT ![p] = [next EXCEPT !.stage = "find"]]
      \/ /\ run' = [run EXCEPT ![p] = [run[p] EXCEPT !.stage = "frame"]]
         /\ HeldBy(pairs, t) = {} /\ Matched(pairs, i, c, t)
         /\ coin' = [coin EXCEPT ![i] = c] /\ pairs' = [pairs EXCEPT ![i] = pairs[i] \cup {t}]
  BY DEF RecordPair, Registry, Set
<1>3. InstrumentsAssumption
  BY DEF BackfillAssumptions
<1>4. /\ run[p] \in AnyRun /\ Orderly(run[p]) /\ Target(p) \in Instruments
      /\ Target(p) = Min(run[p].left)
  BY <1>1, <1>3, RunIs, TargetIs
<1>5. run[p].tickers \in Seq(Tickers) /\ run[p].tickers # <<>> /\ c \in Coins
  BY <1>1, <1>4 DEF AnyRun, Orderly
<1>6. t \in Tickers /\ Tail(run[p].tickers) \in Seq(Tickers) /\ i \in Instruments
  <2>1. i \in Instruments
    BY <1>3, <1>4, SurvivorsSurvive DEF BackfillInv, Readable
  <2> QED BY <1>5, <2>1
<1> HIDE DEF t, c, i
<1>7. RegistryTrue'
  <2>1. CASE UNCHANGED <<coin, pairs>>
    BY <1>1, <2>1, RegistryStays DEF BackfillInv, registryVars
  <2>2. CASE /\ HeldBy(pairs, t) = {} /\ Matched(pairs, i, c, t)
             /\ coin' = [coin EXCEPT ![i] = c] /\ pairs' = [pairs EXCEPT ![i] = pairs[i] \cup {t}]
    BY <1>1, <1>5, <1>6, <2>2, PairRecorded DEF BackfillInv
  <2> QED BY <1>2, <2>1, <2>2
<1>8. \E r \in AnyRun : run' = [run EXCEPT ![p] = r] /\ Orderly(r) /\ r.stage \notin Holding
  <2>1. CASE run' = [run EXCEPT ![p] = [run[p] EXCEPT !.stage = "frame"]]
    <3> DEFINE r == [run[p] EXCEPT !.stage = "frame"]
    <3>1. /\ r \in AnyRun /\ r.stage = "frame" /\ r.left = run[p].left /\ r.today = run[p].today
          /\ r.coin = run[p].coin /\ r.tickers = run[p].tickers /\ r.dates = run[p].dates
      BY <1>4 DEF AnyRun, Stage
    <3> HIDE DEF r
    <3>2. Orderly(r) /\ r.stage \notin Holding
      BY <1>1, <1>4, <3>1 DEF Orderly, Holding
    <3> QED BY <2>1, <3>1, <3>2 DEF r
  <2>2. CASE run' = [run EXCEPT ![p] = [next EXCEPT !.stage = "find"]]
    <3> DEFINE r == [next EXCEPT !.stage = "find"]
    <3>1. /\ r \in AnyRun /\ r.stage = "find" /\ r.left = run[p].left /\ r.today = run[p].today
          /\ r.coin = run[p].coin
      BY <1>4, <1>6 DEF AnyRun, Stage
    <3> HIDE DEF r
    <3>2. Orderly(r) /\ r.stage \notin Holding
      BY <1>1, <1>4, <3>1 DEF Orderly, Holding
    <3> QED BY <2>2, <3>1, <3>2 DEF r
  <2> QED BY <1>2, <2>1, <2>2
<1>9. PICK r \in AnyRun : run' = [run EXCEPT ![p] = r] /\ Orderly(r) /\ r.stage \notin Holding
  BY <1>8
<1>10. LookedIn(r, rows', Fold(links)) /\ lock # p /\ lock \in Runs \cup {Free} /\ Keyed(rows')
  BY <1>1, <1>9, RunIs DEF LookedIn, BackfillInv, Readable
<1> QED BY <1>1, <1>7, <1>9, <1>10, RunMoves

(* A failure, or a crash: the lock is let go. *)
LEMMA AbandonKeeps ==
  ASSUME BackfillAssumptions, BackfillInv, NEW p \in Runs, Abandon(p)
  PROVE  BackfillInv'
<1> DEFINE r == [Idle EXCEPT !.stage = "done"]
<1>1. /\ run' = [run EXCEPT ![p] = r] /\ lock' = (IF lock = p THEN Free ELSE lock)
      /\ UNCHANGED <<rows, day>> /\ UNCHANGED registryVars
  BY DEF Abandon, LockAfter
<1>2. r \in AnyRun /\ r.stage = "done"
  <2>1. Idle \in AnyRun
    BY IdleIs
  <2> QED BY <2>1 DEF AnyRun, Stage
<1> HIDE DEF r
<1>3. Orderly(r) /\ LookedIn(r, rows', Fold(links)) /\ r.stage \notin Holding
  BY <1>2 DEF Orderly, LookedIn, Holding
<1>4. lock \in Runs \cup {Free} /\ Free \notin Runs
  BY RunIs DEF BackfillAssumptions, BackfillAssumption
<1>5. /\ lock' \in Runs \cup {Free} /\ (lock' = p <=> r.stage \in Holding)
      /\ \A q \in Runs \ {p} : lock' = q <=> lock = q
  BY <1>1, <1>3, <1>4
<1>6. RegistryTrue' /\ Keyed(rows')
  BY <1>1, RegistryStays DEF BackfillInv, Readable
<1> QED BY <1>1, <1>2, <1>3, <1>5, <1>6, RunMoves DEF registryVars

LEMMA BackfillStays == BackfillInv /\ UNCHANGED backfillVars => BackfillInv'
BY DEF BackfillInv, Readable, Linked, Keyed, RegistryTrue, OneFamilyPerPair, OnePairEach, Survivor,
       RunsTrue, Looked, backfillVars

LEMMA NextDayKeeps ==
  ASSUME BackfillAssumptions, BackfillInv, NextDay
  PROVE  BackfillInv'
<1>1. day' = day + 1 /\ day < Max(Days) /\ UNCHANGED <<rows, lock, run>> /\ UNCHANGED registryVars
  BY DEF NextDay
<1>2. day' \in Days
  <2>1. Days = Min(Days)..Max(Days) /\ Min(Days) \in Nat /\ Max(Days) \in Nat
    BY DaysAre DEF BackfillAssumptions
  <2>2. day \in Min(Days)..Max(Days)
    BY <2>1 DEF BackfillInv
  <2> QED BY <1>1, <2>1, <2>2
<1>3. RegistryTrue' /\ Readable'
  BY <1>1, RegistryStays DEF BackfillInv, Readable, Linked, registryVars
<1>4. RunsTrue'
  BY <1>1 DEF BackfillInv, RunsTrue, Looked, registryVars
<1> QED BY <1>2, <1>3, <1>4 DEF BackfillInv

LEMMA BackfillKept ==
  BackfillAssumptions /\ BackfillInv /\ [BackfillNext]_backfillVars => BackfillInv'
<1> SUFFICES ASSUME BackfillAssumptions, BackfillInv, [BackfillNext]_backfillVars PROVE BackfillInv'
  OBVIOUS
<1>1. CASE NextDay
  BY <1>1, NextDayKeeps
<1>2. CASE \E i, j \in Instruments, named \in BOOLEAN : Merge(i, j, named)
  BY <1>2, MergeKeeps
<1>3. CASE \E priced \in Listings : Sweep(priced)
  BY <1>3, SweepKeeps
<1>4. CASE \E p \in Runs, taken \in kSubset(MaxTargets, Instruments) : Begin(p, taken)
  BY <1>4, BeginKeeps
<1>5. CASE \E p \in Runs : Skip(p) \/ Unpaired(p)
  BY <1>5, SkipKeeps
<1>6. CASE \E p \in Runs : Abandon(p)
  BY <1>6, AbandonKeeps
<1>7. CASE \E p \in Runs, absent \in {{}, Days} : Chart(p, absent)
  BY <1>7, ChartKeeps
<1>8. CASE \E p \in Runs : EnterChart(p) \/ EnterYahoo(p)
  BY <1>8, EnterKeeps
<1>9. CASE \E p \in Runs : WriteChart(p) \/ WriteYahoo(p)
  BY <1>9, WriteChartKeeps, WriteYahooKeeps
<1>10. CASE \E p \in Runs : Known(p)
  BY <1>10, KnownKeeps
<1>11. CASE \E p \in Runs, fails \in BOOLEAN : TryPair(p, fails)
  BY <1>11, TryPairKeeps
<1>12. CASE \E p \in Runs : RecordPair(p)
  BY <1>12, RecordPairKeeps
<1>13. CASE UNCHANGED backfillVars
  BY <1>13, BackfillStays
<1> QED
  BY <1>1, <1>2, <1>3, <1>4, <1>5, <1>6, <1>7, <1>8, <1>9, <1>10, <1>11, <1>12, <1>13 DEF BackfillNext

-----------------------------------------------------------------------------
(* What a backfill writes. *)

(* Every bar of an Instrument, in a form that may be asked of the state after a step. *)
LEMMA HistoryIs ==
  SourcesAssumption /\ DaysAssumption /\ Readable =>
    \A i \in Instruments, reading \in Readings :
      /\ DOMAIN BarsFor(i, Min(Days), Max(Days), reading) = {d \in Days : At(i, reading, d) # {}}
      /\ \A d \in DOMAIN BarsFor(i, Min(Days), Max(Days), reading) :
           BarsFor(i, Min(Days), Max(Days), reading)[d] =
             Preferred(Survivor(i), Preference(reading), At(i, reading, d))
<1> SUFFICES ASSUME SourcesAssumption, DaysAssumption, Readable PROVE \A i \in Instruments, reading \in Readings :
          /\ DOMAIN BarsFor(i, Min(Days), Max(Days), reading) = {d \in Days : At(i, reading, d) # {}}
          /\ \A d \in DOMAIN BarsFor(i, Min(Days), Max(Days), reading) :
               BarsFor(i, Min(Days), Max(Days), reading)[d] =
                 Preferred(Survivor(i), Preference(reading), At(i, reading, d))
  OBVIOUS
<1>1. Days = Min(Days)..Max(Days) /\ Min(Days) \in Nat /\ Max(Days) \in Nat
  BY DaysAre
<1>2. Min(Days) \in Int /\ Max(Days) \in Int
  BY <1>1
<1> TAKE i \in Instruments, reading \in Readings
<1>3. /\ DOMAIN BarsFor(i, Min(Days), Max(Days), reading) = {d \in Min(Days)..Max(Days) : At(i, reading, d) # {}}
      /\ \A d \in DOMAIN BarsFor(i, Min(Days), Max(Days), reading) :
           BarsFor(i, Min(Days), Max(Days), reading)[d] =
             Preferred(Survivor(i), Preference(reading), At(i, reading, d))
  BY <1>2, BarsForIs
<1> QED BY <1>1, <1>3, Zenon

LEMMA HistoryIsNext ==
  (SourcesAssumption /\ DaysAssumption /\ Readable =>
    \A i \in Instruments, reading \in Readings :
      /\ DOMAIN BarsFor(i, Min(Days), Max(Days), reading) = {d \in Days : At(i, reading, d) # {}}
      /\ \A d \in DOMAIN BarsFor(i, Min(Days), Max(Days), reading) :
           BarsFor(i, Min(Days), Max(Days), reading)[d] =
             Preferred(Survivor(i), Preference(reading), At(i, reading, d)))'
BY HistoryIs, PTL

(* A write adds a bar for each date its run found no bar of the family for, and no other. *)
LEMMA Written ==
  ASSUME BackfillAssumptions, BackfillInv, NEW p \in Runs, NEW source_ \in {CoinGecko, Yahoo},
         IF source_ = Yahoo THEN WriteYahoo(p) ELSE WriteChart(p)
  PROVE  /\ run[p].stage \in Holding /\ SourceAt(run[p].stage) = source_
         /\ UNCHANGED links /\ rows \subseteq rows'
         /\ \A b \in rows' \ rows : /\ b.instrument = Target(p) /\ b.source = source_
                                    /\ b.date \in run[p].dates \ run[p].held
         /\ \A d \in run[p].dates \ run[p].held :
              \E b \in rows' : b.instrument = Target(p) /\ b.source = source_ /\ b.date = d
<1>1. CoinGecko # Yahoo
  BY DEF BackfillAssumptions, BackfillAssumption
<1> DEFINE i == Target(p)
           missing == run[p].dates \ run[p].held
<1>2. CASE source_ = Yahoo
  <2> DEFINE bar(d) == [instrument |-> i, source |-> Yahoo, date |-> d,
                        close |-> TickerClose[Head(run[p].tickers)][d], fetched |-> run[p].today]
             new == {bar(d) : d \in missing}
  <2>1. WriteYahoo(p)
    BY <1>2
  <2>2. run[p].stage = "writing" /\ rows' = Upserted(new) /\ UNCHANGED links
    BY Zenon, <2>1 DEF WriteYahoo, registryVars
  <2>3. rows \subseteq rows'
    BY <2>1, WriteYahooKeeps
  <2>4. \A d \in missing : bar(d) \in new /\ bar(d).instrument = i /\ bar(d).source = Yahoo /\ bar(d).date = d
    OBVIOUS
  <2> HIDE DEF bar, missing, i
  <2>5. \A b \in rows' \ rows : \E d \in missing : b = bar(d)
    BY <2>2 DEF Upserted
  <2>6. \A d \in missing : bar(d) \in rows'
    BY <2>2, <2>4 DEF Upserted
  <2> QED BY <1>1, <1>2, <2>2, <2>3, <2>4, <2>5, <2>6 DEF Holding, SourceAt, missing, i
<1>3. CASE source_ # Yahoo
  <2> DEFINE bar(d) == [instrument |-> i, source |-> CoinGecko, date |-> d, fetched |-> run[p].today,
                        close |-> CoinClose[run[p].coin[i]][SessionOf(CoinGecko, d)]]
             new == {bar(d) : d \in missing}
  <2>1. WriteChart(p) /\ source_ = CoinGecko
    BY <1>3
  <2>2. run[p].stage = "charting" /\ rows' = Upserted(new) /\ UNCHANGED links
    BY Zenon, <2>1 DEF WriteChart, registryVars
  <2>3. rows \subseteq rows'
    BY <2>1, WriteChartKeeps
  <2>4. \A d \in missing : bar(d) \in new /\ bar(d).instrument = i /\ bar(d).source = CoinGecko /\ bar(d).date = d
    OBVIOUS
  <2> HIDE DEF bar, missing, i
  <2>5. \A b \in rows' \ rows : \E d \in missing : b = bar(d)
    BY <2>2 DEF Upserted
  <2>6. \A d \in missing : bar(d) \in rows'
    BY <2>2, <2>4 DEF Upserted
  <2> QED BY <1>1, <2>1, <2>2, <2>3, <2>4, <2>5, <2>6 DEF Holding, SourceAt, missing, i
<1> QED BY <1>2, <1>3

(* backfill.py:278, of one step. *)
LEMMA WriteFillsGaps ==
  ASSUME BackfillAssumptions, BackfillInv, BackfillInv', NEW p \in Runs, NEW source_ \in {CoinGecko, Yahoo}
  PROVE  GapsFilled(p, source_)
<1> SUFFICES ASSUME IF source_ = Yahoo THEN WriteYahoo(p) ELSE WriteChart(p),
                    NEW i \in {Target(p)}
             PROVE  LET before == BarsFor(i, Min(Days), Max(Days), source_)
                        after == BarsFor(i, Min(Days), Max(Days), source_)'
                    IN /\ rows \subseteq rows'
                       /\ run[p].dates \subseteq DOMAIN after
                       /\ Family(i) = run[p].family => \A d \in DOMAIN before : after[d] = before[d]
  BY Zenon DEF GapsFilled
<1> DEFINE r == run[p]
<1>1. /\ r.stage \in Holding /\ SourceAt(r.stage) = source_ /\ UNCHANGED links /\ rows \subseteq rows'
      /\ \A b \in rows' \ rows : b.instrument = i /\ b.source = source_ /\ b.date \in r.dates \ r.held
      /\ \A d \in r.dates \ r.held :
           \E b \in rows' : b.instrument = i /\ b.source = source_ /\ b.date = d
  BY Written
<1>2. /\ InstrumentsAssumption /\ SourcesAssumption /\ DaysAssumption
      /\ source_ \in Sources
  BY DEF BackfillAssumptions, BackfillAssumption
<1>3. Readable /\ Readable'
  BY DEF BackfillInv
<1>4. /\ r \in AnyRun /\ LookedIn(r, rows, Fold(links)) /\ i \in Instruments /\ i = Min(r.left)
  BY <1>1, <1>2, RunIs, TargetIs DEF Holding
<1>5. source_ \in Readings /\ source_ # Resolved /\ ToSet(Preference(source_)) = {source_}
  <2>1. source_ \in Readings /\ source_ # Resolved
    BY <1>2 DEF Readings, Resolved, SourcesAssumption
  <2> QED BY <1>2, <2>1, Preferences
<1>7. \A b \in rows' : DateOf(source_, b) = b.date
  BY <1>2, <1>3, <1>5, DatesAre DEF Readable, Keyed
<1>8. \A j : j \in Family(i) <=> j \in Instruments /\ Fold(links)[j] = Fold(links)[i]
  BY Zenon DEF Family
<1>9. Survivor(i)' = Survivor(i) /\ Family(i)' = Family(i)
  BY <1>1 DEF Survivor, Family
<1> HIDE DEF r
<1>10. /\ \A d, b : b \in At(i, source_, d) <=>
            b \in rows /\ b.instrument \in Family(i) /\ b.source = source_ /\ b.date = d
       /\ \A d, b : b \in At(i, source_, d)' <=>
            b \in rows' /\ b.instrument \in Family(i) /\ b.source = source_ /\ b.date = d
  BY <1>1, <1>5, <1>7, <1>9 DEF At
<1> DEFINE before == BarsFor(i, Min(Days), Max(Days), source_)
           after == BarsFor(i, Min(Days), Max(Days), source_)'
<1>11. /\ DOMAIN before = {d \in Days : At(i, source_, d) # {}}
       /\ \A d \in DOMAIN before :
            before[d] = Preferred(Survivor(i), Preference(source_), At(i, source_, d))
  BY <1>2, <1>3, <1>4, <1>5, HistoryIs
<1>12. /\ DOMAIN after = {d \in Days : At(i, source_, d)' # {}}
       /\ \A d \in DOMAIN after :
            after[d] = Preferred(Survivor(i)', Preference(source_), At(i, source_, d)')
  BY <1>2, <1>3, <1>4, <1>5, HistoryIsNext
<1> HIDE DEF before, after
<1>13. r.dates \subseteq DOMAIN after
  <2> SUFFICES ASSUME NEW d \in r.dates PROVE At(i, source_, d)' # {}
    BY <1>4, <1>12 DEF AnyRun
  <2>1. r.family \subseteq Instruments /\ \A j \in r.family : Fold(links)[j] = Fold(links)[i]
    BY <1>1, <1>4 DEF AnyRun, LookedIn
  <2>2. CASE d \notin r.held
    BY <1>1, <1>4, <1>8, <1>10, <2>2
  <2>3. CASE d \in r.held
    <3>1. PICK b \in rows : b.source = source_ /\ b.date = d /\ b.instrument \in r.family
      BY <1>1, <1>4, <2>3 DEF LookedIn
    <3> QED BY <1>1, <1>8, <1>10, <2>1, <3>1
  <2> QED BY <2>2, <2>3
<1>14. ASSUME Family(i) = r.family, NEW d \in DOMAIN before
       PROVE  after[d] = before[d]
  <2>1. \A b \in rows' \ rows : b.date # d
    <3> SUFFICES ASSUME NEW b \in rows' \ rows, b.date = d PROVE FALSE
      OBVIOUS
    <3>1. d \in r.dates \ r.held
      BY <1>1
    <3>2. PICK c \in At(i, source_, d) : TRUE
      BY <1>11, <1>14
    <3> QED BY <1>1, <1>4, <1>10, <1>14, <3>1, <3>2 DEF LookedIn
  <2>2. \A b : b \in rows' /\ b.date = d <=> b \in rows /\ b.date = d
    <3>1. rows \subseteq rows'
      BY <1>1
    <3> QED BY <2>1, <3>1
  <2>3. \A b : b \in At(i, source_, d)' <=> b \in At(i, source_, d)
    BY ONLY <1>10, <2>2
  <2>4. At(i, source_, d)' = At(i, source_, d)
    BY ONLY <2>3
  <2> QED BY <1>9, <1>11, <1>12, <2>4
<1> QED BY <1>1, <1>13, <1>14 DEF before, after, r

-----------------------------------------------------------------------------
(* Vintages: the factors of splits. *)

(* The recursive equation of a product of ratios, for the subsets of at most n members. *)
Multiplies(f, S, n) ==
  /\ f = [s \in SUBSET S |-> f[s]]
  /\ \A s \in SUBSET S : Cardinality(s) <= n =>
       f[s] = IF s = {} THEN 1 ELSE (CHOOSE x \in s : TRUE).ratio * f[s \ {CHOOSE x \in s : TRUE}]

LEMMA OneLess ==
  ASSUME NEW S, IsFiniteSet(S), NEW s \in SUBSET S, s # {}
  PROVE  LET x == CHOOSE x \in s : TRUE
         IN /\ x \in s /\ s \ {x} \in SUBSET S
            /\ Cardinality(s) \in Nat /\ Cardinality(s \ {x}) = Cardinality(s) - 1
<1> DEFINE x == CHOOSE x \in s : TRUE
<1>1. x \in s
  OBVIOUS
<1> HIDE DEF x
<1>2. IsFiniteSet(s)
  BY FS_Subset
<1>3. Cardinality(s) \in Nat /\ Cardinality(s \ {x}) = Cardinality(s) - 1
  BY <1>1, <1>2, FS_RemoveElement, FS_CardinalityType
<1> QED BY <1>1, <1>3 DEF x

LEMMA ProductsExist ==
  ASSUME NEW S, IsFiniteSet(S)
  PROVE  \A n \in Nat : \E f : Multiplies(f, S, n)
<1> DEFINE Bad == {n \in Nat : ~ \E f : Multiplies(f, S, n)}
<1> SUFFICES ASSUME Bad # {} PROVE FALSE
  OBVIOUS
<1>1. PICK n \in Bad : \A k \in Bad : n <= k
  <2>1. Bad \in SUBSET Nat
    OBVIOUS
  <2> HIDE DEF Bad
  <2> QED BY <2>1, LeastNat
<1> DEFINE next(f) == [s \in SUBSET S |->
                         IF s = {} THEN 1
                         ELSE (CHOOSE x \in s : TRUE).ratio * f[s \ {CHOOSE x \in s : TRUE}]]
<1>2. PICK f : n # 0 => Multiplies(f, S, n - 1)
  <2>1. n # 0 => n - 1 \in Nat /\ n - 1 \notin Bad
    BY <1>1
  <2> QED BY <2>1
<1>3. \A s \in SUBSET S : s # {} /\ Cardinality(s) <= n =>
        next(f)[s \ {CHOOSE x \in s : TRUE}] = f[s \ {CHOOSE x \in s : TRUE}]
  <2> SUFFICES ASSUME NEW s \in SUBSET S, s # {}, Cardinality(s) <= n
               PROVE  next(f)[s \ {CHOOSE x \in s : TRUE}] = f[s \ {CHOOSE x \in s : TRUE}]
    OBVIOUS
  <2> DEFINE t == s \ {CHOOSE x \in s : TRUE}
  <2>1. t \in SUBSET S /\ Cardinality(s) \in Nat /\ Cardinality(t) = Cardinality(s) - 1
    BY OneLess
  <2>2. n \in Nat
    BY <1>1
  <2>3. n # 0 /\ Cardinality(t) <= n - 1
    <3>1. Cardinality(t) \in Nat
      BY <2>1, FS_Subset, FS_CardinalityType
    <3> HIDE DEF t
    <3> QED BY <2>1, <2>2, <3>1
  <2> HIDE DEF t
  <2>4. f[t] = next(f)[t]
    BY <1>2, <2>1, <2>3 DEF Multiplies
  <2> QED BY <2>4 DEF t
<1>4. Multiplies(next(f), S, n)
  <2>1. next(f) = [s \in SUBSET S |-> next(f)[s]]
    OBVIOUS
  <2>2. \A s \in SUBSET S : Cardinality(s) <= n =>
          next(f)[s] = IF s = {} THEN 1
                       ELSE (CHOOSE x \in s : TRUE).ratio * next(f)[s \ {CHOOSE x \in s : TRUE}]
    <3>1. \A s \in SUBSET S :
            next(f)[s] = IF s = {} THEN 1
                         ELSE (CHOOSE x \in s : TRUE).ratio * f[s \ {CHOOSE x \in s : TRUE}]
      OBVIOUS
    <3> HIDE DEF next
    <3> QED BY <1>3, <3>1
  <2> QED BY <2>1, <2>2 DEF Multiplies
<1> QED BY <1>1, <1>4

(* A factor is a number to divide by, and that of no splits is 1. *)
LEMMA FactorIs ==
  ASSUME NEW splits, IsFiniteSet(splits), \A s \in splits : s.ratio \in Nat \ {0}, NEW when
  PROVE  /\ SplitFactorAfter(splits, when) \in Nat \ {0}
         /\ splits = {} => SplitFactorAfter(splits, when) = 1
<1> DEFINE S == {s \in splits : s.date > when}
           E(f) == [s \in SUBSET S |-> IF s = {} THEN 1
                       ELSE (CHOOSE x \in s : TRUE).ratio * f[s \ {CHOOSE x \in s : TRUE}]]
           factor == CHOOSE f : f = E(f)
<1>1. IsFiniteSet(S) /\ S \subseteq splits
  BY FS_Subset
<1>2. SplitFactorAfter(splits, when) = factor[S]
  BY DEF SplitFactorAfter, MapThenFoldSet
<1> HIDE DEF S
<1>3. \E f : f = E(f)
  <2>1. Cardinality(S) \in Nat /\ \A s \in SUBSET S : Cardinality(s) <= Cardinality(S)
    BY <1>1, FS_CardinalityType, FS_Subset
  <2>2. PICK f : Multiplies(f, S, Cardinality(S))
    BY <1>1, <2>1, ProductsExist
  <2>3. f = E(f)
    BY <2>1, <2>2 DEF Multiplies
  <2> QED BY <2>3
<1>4. factor = E(factor)
  BY <1>3
<1> HIDE DEF factor
<1>5. \A s \in SUBSET S :
        factor[s] = IF s = {} THEN 1
                    ELSE (CHOOSE x \in s : TRUE).ratio * factor[s \ {CHOOSE x \in s : TRUE}]
  BY <1>4
<1> HIDE DEF E
<1> DEFINE Bad == {n \in Nat : \E s \in SUBSET S : Cardinality(s) = n /\ factor[s] \notin Nat \ {0}}
<1>6. Bad = {}
  <2> SUFFICES ASSUME Bad # {} PROVE FALSE
    OBVIOUS
  <2>1. PICK n \in Bad : \A k \in Bad : n <= k
    <3>1. Bad \in SUBSET Nat
      OBVIOUS
    <3> HIDE DEF Bad
    <3> QED BY <3>1, LeastNat
  <2>2. PICK s \in SUBSET S : Cardinality(s) = n /\ factor[s] \notin Nat \ {0}
    BY <2>1
  <2>3. s # {}
    BY <1>5, <2>2
  <2> DEFINE x == CHOOSE x \in s : TRUE
             t == s \ {x}
  <2>4. x \in s /\ t \in SUBSET S /\ Cardinality(t) = n - 1 /\ n \in Nat
    BY <1>1, <2>2, <2>3, OneLess
  <2>5. factor[s] = x.ratio * factor[t]
    BY <1>5, <2>3
  <2> HIDE DEF x, t
  <2>6. Cardinality(t) \in Nat /\ Cardinality(t) \notin Bad
    <3>1. Cardinality(t) \in Nat
      BY <1>1, <2>4, FS_Subset, FS_CardinalityType
    <3> QED BY <2>1, <2>4, <3>1
  <2>7. factor[t] \in Nat \ {0} /\ x.ratio \in Nat \ {0}
    BY <1>1, <2>4, <2>6
  <2> QED BY <2>2, <2>5, <2>7
<1>7. factor[S] \in Nat \ {0}
  <2>1. Cardinality(S) \in Nat
    BY <1>1, FS_CardinalityType
  <2> QED BY <1>6, <2>1
<1>8. splits = {} => factor[S] = 1
  BY <1>1, <1>5
<1> QED BY <1>2, <1>7, <1>8
LEMMA DayMonotone ==
  ASSUME PricesAssumption, NEW a \in Nat, NEW b \in Nat, a <= b
  PROVE  DayOf(a) \in Nat /\ DayOf(b) \in Nat /\ DayOf(a) <= DayOf(b)
<1> MomentsPerDay \in Nat \ {0}
  BY DEF PricesAssumption
<1> QED BY DEF DayOf

LEMMA StillClosed ==
  ASSUME PricesAssumption, NEW a \in Nat, NEW b \in Nat, a <= b, NEW feed, NEW d \in Nat,
         ~ IsProvisional(feed, d, a)
  PROVE  ~ IsProvisional(feed, d, b)
<1>1. DayOf(a) \in Nat /\ DayOf(b) \in Nat /\ DayOf(a) <= DayOf(b)
  BY DayMonotone
<1> QED BY <1>1 DEF IsProvisional

LEMMA RescaledIs ==
  ASSUME VintagesAssumption, NEW q \in Quotes, NEW by \in Nat \ {0}
  PROVE  /\ Rescaled(q, by).close \in Nat /\ Rescaled(q, by).volume \in Nat \cup {NoValue}
         /\ Rescaled(q, by).account = q
<1>1. q.close \in Nat /\ q.volume \in Nat \cup {NoValue}
  BY DEF VintagesAssumption
<1>2. q.close \div by \in Nat
  BY <1>1
<1>3. q.volume # NoValue => q.volume * by \in Nat
  BY <1>1
<1> QED BY <1>2, <1>3 DEF Rescaled

-----------------------------------------------------------------------------
(* Vintages: what holds between two steps. *)

(* The splits that had taken effect by a moment. *)
SplitBy(moment) == {s \in split : s.date <= DayOf(moment)}

VendorTrue ==
  /\ source \in Feeds /\ now \in 0..LastMoment /\ said \in [Dates -> Quotes]
  /\ split \subseteq Splits /\ IsFiniteSet(split) /\ Cardinality(split) <= MaxSplits
  /\ \A s \in split : s.date <= DayOf(now)
  /\ rewritten \subseteq Dates

(* An answer has all splits until then, on file or lost with their sessions, and each     *)
(* session on their scale; a session it gives as closed stands unless rewritten since.    *)
FetchTrue(f) ==
  /\ f.at \in 0..now
  /\ f.splits \cup f.lost = SplitBy(f.at)
  /\ DOMAIN f.rows \subseteq Dates
  /\ \A d \in DOMAIN f.rows :
       /\ f.rows[d].account \in Quotes
       /\ f.rows[d] = Rescaled(f.rows[d].account, SplitFactorAfter(SplitBy(f.at), d))
       /\ d \notin rewritten /\ ~ IsProvisional(source, d, f.at) => f.rows[d].account = said[d]

(* Every vintage came with an answer, and is none older than any that came for its date. *)
Sourced == \A d \in DOMAIN bars : \E g \in delivered : d \in DOMAIN g.rows /\ bars[d] = Vintage(g, d)

Newest ==
  \A f \in delivered : \A d \in DOMAIN f.rows : d \in DOMAIN bars /\ bars[d].fetched >= f.at

StoredTrue ==
  /\ delivered \subseteq fetches /\ filed \subseteq split
  /\ Sourced /\ Newest
  /\ restatements \subseteq Restatement
  /\ \A r \in restatements : r.date \in DOMAIN bars /\ r.at <= now

VintagesInv == VendorTrue /\ (\A f \in fetches : FetchTrue(f)) /\ StoredTrue

VintagesAssumptions == PricesAssumption /\ VintagesAssumption

LEMMA VintagesInitially == VintagesAssumptions /\ VintagesInit => VintagesInv
<1> SUFFICES ASSUME VintagesAssumptions, VintagesInit PROVE VintagesInv
  OBVIOUS
<1>1. FirstQuote \in Quotes /\ LastMoment \in Nat /\ MaxSplits \in Nat
  BY DEF VintagesAssumptions, VintagesAssumption
<1>2. IsFiniteSet({}) /\ Cardinality({}) = 0
  BY FS_EmptySet
<1>3. VendorTrue
  BY <1>1, <1>2 DEF VintagesInit, VendorTrue
<1>4. StoredTrue /\ fetches = {}
  BY DEF VintagesInit, StoredTrue, Sourced, Newest
<1> QED BY <1>3, <1>4 DEF VintagesInv

(* Rescales of the splits there are. *)
LEMMA FactorOf ==
  ASSUME VintagesAssumptions, VendorTrue, NEW S \in SUBSET split, NEW d \in Dates
  PROVE  /\ SplitFactorAfter(S, d) \in Nat \ {0} /\ SplitFactorAfter(S, d) \in Rescales
         /\ S = {} => SplitFactorAfter(S, d) = 1
<1>1. IsFiniteSet(S) /\ Cardinality(S) <= Cardinality(split) /\ Cardinality(S) \in Nat
  BY FS_Subset, FS_CardinalityType DEF VendorTrue
<1>2. \A s \in S : s.ratio \in Nat \ {0}
  <2>1. Ratio \in Nat \ {0}
    BY DEF VintagesAssumptions, VintagesAssumption
  <2> QED BY <2>1 DEF VendorTrue, Splits
<1>3. S \in SUBSET Splits /\ Cardinality(S) <= MaxSplits
  <2>1. Cardinality(split) <= MaxSplits /\ MaxSplits \in Nat /\ Cardinality(split) \in Nat
    BY FS_CardinalityType DEF VendorTrue, VintagesAssumptions, VintagesAssumption
  <2> QED BY <1>1, <2>1 DEF VendorTrue
<1>4. SplitFactorAfter(S, d) \in Rescales
  BY <1>3 DEF Rescales
<1> QED BY <1>1, <1>2, <1>4, FactorIs

(* The vintage an answer brings. *)
LEMMA VintageIs ==
  ASSUME VintagesAssumptions, VendorTrue, NEW f, FetchTrue(f), NEW d \in DOMAIN f.rows
  PROVE  /\ Vintage(f, d) \in Bar /\ Vintage(f, d).fetched = f.at
         /\ f.at \in Nat /\ f.at <= now /\ d \in Dates
         /\ Vintage(f, d).account = f.rows[d].account
         /\ \A x \in Fields : Vintage(f, d)[x] = f.rows[d][x]
<1>1. SplitBy(f.at) \in SUBSET split /\ d \in Dates
  BY DEF SplitBy, FetchTrue
<1>2. SplitFactorAfter(SplitBy(f.at), d) \in Nat \ {0}
  BY <1>1, FactorOf
<1>3. f.rows[d].account \in Quotes /\ f.rows[d] = Rescaled(f.rows[d].account, SplitFactorAfter(SplitBy(f.at), d))
  BY DEF FetchTrue
<1>4. f.rows[d].close \in Nat /\ f.rows[d].volume \in Nat \cup {NoValue}
  BY <1>2, <1>3, RescaledIs DEF VintagesAssumptions
<1>5. f.at \in 0..now /\ now \in 0..LastMoment /\ LastMoment \in Nat
  BY DEF FetchTrue, VendorTrue, VintagesAssumptions, VintagesAssumption
<1>6. f.at \in 0..LastMoment /\ f.at \in Nat /\ f.at <= now
  BY <1>5
<1> QED BY <1>1, <1>3, <1>4, <1>6 DEF Vintage, Bar, Fields

LEMMA StoredStays ==
  ASSUME VintagesInv, UNCHANGED <<delivered, bars, filed, restatements>>, fetches \subseteq fetches',
         split \subseteq split', now' >= now, now \in Nat, now' \in Nat
  PROVE  StoredTrue'
<1>1. \A r \in restatements : r.at \in Int
  BY DEF VintagesInv, StoredTrue, Restatement
<1> QED BY <1>1 DEF VintagesInv, StoredTrue, Sourced, Newest

LEMMA TickKeeps ==
  ASSUME VintagesAssumptions, VintagesInv, Tick
  PROVE  VintagesInv'
<1>1. /\ now < LastMoment /\ now' = now + 1 /\ UNCHANGED <<source, said, rewritten, fetches, delivered>>
      /\ UNCHANGED stored
      /\ \/ UNCHANGED split
         \/ /\ DayOf(now') > DayOf(now) /\ DayOf(now') \in Dates /\ Cardinality(split) < MaxSplits
            /\ split' = split \cup {[date |-> DayOf(now'), ratio |-> Ratio]}
  BY DEF Tick
<1>2. /\ now \in 0..LastMoment /\ LastMoment \in Nat /\ MaxSplits \in Nat
      /\ split \subseteq Splits /\ IsFiniteSet(split) /\ Cardinality(split) <= MaxSplits
      /\ \A s \in split : s.date <= DayOf(now)
  BY DEF VintagesInv, VendorTrue, VintagesAssumptions, VintagesAssumption
<1>3. now \in Nat /\ now' \in Nat /\ now <= now' /\ now' \in 0..LastMoment
  BY <1>1, <1>2
<1>4. DayOf(now) \in Nat /\ DayOf(now') \in Nat /\ DayOf(now) <= DayOf(now')
  BY <1>3, DayMonotone DEF VintagesAssumptions
<1>5. \A s \in split : s.date \in Nat
  BY <1>2 DEF Splits, VintagesAssumptions, VintagesAssumption
<1>6. /\ split \subseteq split' /\ split' \subseteq Splits /\ IsFiniteSet(split') /\ Cardinality(split') <= MaxSplits
      /\ \A s \in split' : s \in split \/ (s.date = DayOf(now') /\ s.date > DayOf(now))
  <2>1. CASE UNCHANGED split
    BY <1>2, <2>1
  <2>2. CASE /\ DayOf(now') > DayOf(now) /\ DayOf(now') \in Dates /\ Cardinality(split) < MaxSplits
             /\ split' = split \cup {[date |-> DayOf(now'), ratio |-> Ratio]}
    <3> DEFINE new == [date |-> DayOf(now'), ratio |-> Ratio]
    <3>1. new \in Splits /\ new.date = DayOf(now')
      BY <2>2 DEF Splits
    <3> HIDE DEF new
    <3>2. split' = split \cup {new}
      BY <2>2 DEF new
    <3>3. /\ IsFiniteSet(split') /\ Cardinality(split) \in Nat
          /\ Cardinality(split') <= Cardinality(split) + 1
      <4>1. /\ IsFiniteSet(split \cup {new})
            /\ Cardinality(split \cup {new}) = Cardinality(split)
               \/ Cardinality(split \cup {new}) = Cardinality(split) + 1
        BY <1>2, FS_AddElement
      <4>2. Cardinality(split) \in Nat
        BY <1>2, FS_CardinalityType
      <4> QED BY <3>2, <4>1, <4>2
    <3>4. Cardinality(split') \in Nat
      BY <3>3, FS_CardinalityType
    <3> QED BY <1>2, <2>2, <3>1, <3>2, <3>3, <3>4
  <2> QED BY <1>1, <2>1, <2>2
<1>7. VendorTrue'
  <2>1. \A s \in split' : s.date <= DayOf(now')
    BY <1>2, <1>4, <1>5, <1>6
  <2> QED BY <1>1, <1>3, <1>6, <2>1 DEF VintagesInv, VendorTrue
<1>8. ASSUME NEW f \in fetches PROVE FetchTrue(f)'
  <2>1. FetchTrue(f) /\ f.at \in Nat /\ f.at <= now
    BY <1>3 DEF VintagesInv, FetchTrue
  <2>2. DayOf(f.at) \in Nat /\ DayOf(f.at) <= DayOf(now)
    BY <1>3, <2>1, DayMonotone DEF VintagesAssumptions
  <2>3. SplitBy(f.at)' = SplitBy(f.at)
    BY <1>4, <1>6, <2>2 DEF SplitBy
  <2>4. f.at \in 0..now'
    BY <1>3, <2>1
  <2> QED BY <1>1, <2>1, <2>3, <2>4 DEF FetchTrue
<1>9. StoredTrue'
  BY <1>1, <1>3, <1>6, StoredStays DEF stored
<1> QED BY <1>1, <1>7, <1>8, <1>9 DEF VintagesInv

LEMMA RestateKeeps ==
  ASSUME VintagesAssumptions, VintagesInv, NEW d \in Dates, NEW q \in Quotes, Restate(d, q)
  PROVE  VintagesInv'
<1>1. /\ said' = [said EXCEPT ![d] = q] /\ UNCHANGED <<source, now, split, fetches, delivered>>
      /\ UNCHANGED stored
      /\ IF IsProvisional(source, d, now) THEN UNCHANGED rewritten ELSE rewritten' = rewritten \cup {d}
  BY DEF Restate
<1>2. now \in Nat /\ said \in [Dates -> Quotes]
  BY DEF VintagesInv, VendorTrue
<1>3. VendorTrue'
  BY <1>1 DEF VintagesInv, VendorTrue
<1>4. ASSUME NEW f \in fetches PROVE FetchTrue(f)'
  <2>1. FetchTrue(f) /\ f.at \in Nat /\ f.at <= now
    BY <1>2 DEF VintagesInv, FetchTrue
  <2>2. SplitBy(f.at)' = SplitBy(f.at)
    BY <1>1 DEF SplitBy
  <2>3. ASSUME NEW e \in DOMAIN f.rows, e \notin rewritten', ~ IsProvisional(source, e, f.at)
        PROVE  f.rows[e].account = said'[e]
    <3>1. e \in Nat
      BY <2>1 DEF FetchTrue, VintagesAssumptions, VintagesAssumption
    <3>2. ~ IsProvisional(source, e, now)
      BY <1>2, <2>1, <2>3, <3>1, StillClosed DEF VintagesAssumptions
    <3>3. e # d /\ e \notin rewritten
      BY <1>1, <2>3, <3>2
    <3>4. f.rows[e].account = said[e]
      BY <2>1, <2>3, <3>3 DEF FetchTrue
    <3> QED BY <1>1, <1>2, <3>3, <3>4
  <2> QED BY <1>1, <2>1, <2>2, <2>3 DEF FetchTrue
<1>5. StoredTrue'
  BY <1>1, <1>2, StoredStays DEF stored
<1> QED BY <1>1, <1>3, <1>4, <1>5 DEF VintagesInv

LEMMA FetchKeeps ==
  ASSUME VintagesAssumptions, VintagesInv, NEW missing, Fetch(missing)
  PROVE  VintagesInv'
<1> DEFINE f == BarsFromFrame(missing)
           served == {d \in Dates : d <= DayOf(now)} \ missing
<1>1. fetches' = fetches \cup {f} /\ UNCHANGED delivered /\ UNCHANGED vendor /\ UNCHANGED stored
  BY DEF Fetch
<1>2. /\ f.at = now /\ f.rows = [d \in served |-> Served(d)]
      /\ f.splits = {s \in split : s.date \in served} /\ f.lost = {s \in split : s.date \in missing}
  BY DEF BarsFromFrame
<1>3. /\ now \in Nat /\ said \in [Dates -> Quotes] /\ split \subseteq Splits
      /\ \A s \in split : s.date <= DayOf(now)
  BY DEF VintagesInv, VendorTrue
<1> HIDE DEF f
<1>4. SplitBy(now) = split
  BY <1>3 DEF SplitBy
<1>5. FetchTrue(f)
  <2>1. f.splits \cup f.lost = split
    BY <1>2, <1>3 DEF Splits
  <2>2. \A d \in DOMAIN f.rows : d \in Dates /\ f.rows[d] = Rescaled(said[d], SplitFactorAfter(split, d))
    BY <1>2 DEF Served
  <2>3. \A q, by : Rescaled(q, by).account = q
    BY DEF Rescaled
  <2>4. \A d \in DOMAIN f.rows : f.rows[d].account = said[d] /\ said[d] \in Quotes
    BY <1>3, <2>2, <2>3
  <2> QED BY <1>2, <1>3, <1>4, <2>1, <2>2, <2>4 DEF FetchTrue
<1>6. VendorTrue'
  BY <1>1 DEF vendor, VintagesInv, VendorTrue
<1>7. \A g \in fetches' : FetchTrue(g)'
  BY <1>1, <1>5 DEF vendor, VintagesInv, FetchTrue, SplitBy
<1>8. StoredTrue'
  BY <1>1, <1>3, StoredStays DEF vendor, stored
<1> QED BY <1>6, <1>7, <1>8 DEF VintagesInv

(* The vintages upsert_bars leaves, and the Restatements it files. *)
LEMMA UpsertIs ==
  ASSUME NEW f \in fetches, Upsert(f)
  PROVE  /\ DOMAIN bars' = DOMAIN bars \cup DOMAIN f.rows /\ filed' = Explanations(f)
         /\ \A d \in DOMAIN bars' :
              \/ /\ d \in DOMAIN f.rows /\ bars'[d] = Vintage(f, d)
                 /\ d \in DOMAIN bars => f.at >= bars[d].fetched
              \/ /\ d \in DOMAIN bars /\ bars'[d] = bars[d]
                 /\ d \in DOMAIN f.rows => ~ (f.at >= bars[d].fetched)
         /\ \A r : r \in restatements' <=>
              \/ r \in restatements
              \/ \E d \in DOMAIN f.rows \cap DOMAIN bars :
                   /\ f.at >= bars[d].fetched /\ ~ IsProvisional(source, d, bars[d].fetched)
                   /\ \E x \in Restated(bars[d], Vintage(f, d), SplitFactorAfter(Explanations(f), d)) :
                        r = Filed(d, x, Vintage(f, d), f.at)
<1> DEFINE held == DOMAIN f.rows \cap DOMAIN bars
           taken == {d \in held : Replaces(Vintage(f, d), bars[d])}
           compared == {d \in taken : ~ IsProvisional(source, d, bars[d].fetched)}
           changes(d) == Restated(bars[d], Vintage(f, d), SplitFactorAfter(Explanations(f), d))
<1>1. /\ filed' = Explanations(f)
      /\ bars' = [d \in DOMAIN bars \cup DOMAIN f.rows |->
                   IF d \in taken \cup (DOMAIN f.rows \ held) THEN Vintage(f, d) ELSE bars[d]]
      /\ restatements' = restatements \cup
           UNION {{Filed(d, x, Vintage(f, d), f.at) : x \in changes(d)} : d \in compared}
  BY Zenon DEF Upsert
<1>2. \A d : Vintage(f, d).fetched = f.at
  BY DEF Vintage
<1>3. \A d \in held : d \in taken <=> f.at >= bars[d].fetched
  BY <1>2 DEF Replaces
<1>4. \A d : d \in compared <=> d \in held /\ f.at >= bars[d].fetched /\ ~ IsProvisional(source, d, bars[d].fetched)
  BY <1>3
<1>5. taken \subseteq held
  OBVIOUS
<1> HIDE DEF taken, compared
<1>6. DOMAIN bars' = DOMAIN bars \cup DOMAIN f.rows
  BY <1>1
<1>7. ASSUME NEW d \in DOMAIN bars'
      PROVE  \/ /\ d \in DOMAIN f.rows /\ bars'[d] = Vintage(f, d)
                /\ d \in DOMAIN bars => f.at >= bars[d].fetched
             \/ /\ d \in DOMAIN bars /\ bars'[d] = bars[d]
                /\ d \in DOMAIN f.rows => ~ (f.at >= bars[d].fetched)
  <2>1. CASE d \in taken \cup (DOMAIN f.rows \ held)
    BY <1>1, <1>3, <1>5, <1>6, <2>1
  <2>2. CASE d \notin taken \cup (DOMAIN f.rows \ held)
    BY <1>1, <1>3, <1>6, <2>2
  <2> QED BY <2>1, <2>2
<1>8. \A r : r \in restatements' <=>
        r \in restatements \/ \E d \in compared : \E x \in changes(d) : r = Filed(d, x, Vintage(f, d), f.at)
  BY <1>1
<1> HIDE DEF changes
<1>9. \A r : r \in restatements' <=>
        \/ r \in restatements
        \/ \E d \in held : /\ f.at >= bars[d].fetched /\ ~ IsProvisional(source, d, bars[d].fetched)
                           /\ \E x \in changes(d) : r = Filed(d, x, Vintage(f, d), f.at)
  BY <1>4, <1>8
<1> QED BY <1>1, <1>6, <1>7, <1>9 DEF changes

(* The vintage stored for a date. *)
LEMMA StoredIs ==
  ASSUME VintagesAssumptions, VintagesInv, NEW d \in DOMAIN bars
  PROVE  /\ \E g \in fetches : g \in delivered /\ d \in DOMAIN g.rows /\ bars[d] = Vintage(g, d)
                               /\ FetchTrue(g)
         /\ bars[d] \in Bar /\ bars[d].fetched \in Nat /\ bars[d].fetched <= now /\ d \in Dates
<1>1. PICK g \in delivered : d \in DOMAIN g.rows /\ bars[d] = Vintage(g, d)
  BY DEF VintagesInv, StoredTrue, Sourced
<1>2. g \in fetches /\ FetchTrue(g) /\ VendorTrue
  BY <1>1 DEF VintagesInv, StoredTrue
<1> QED BY <1>1, <1>2, VintageIs

LEMMA DeliverKeeps ==
  ASSUME VintagesAssumptions, VintagesInv, NEW f \in fetches, Deliver(f)
  PROVE  VintagesInv'
<1>1. delivered' = delivered \cup {f} /\ UNCHANGED fetches /\ UNCHANGED vendor /\ Upsert(f)
  BY DEF Deliver
<1>2. VendorTrue /\ FetchTrue(f) /\ filed \subseteq split
  BY DEF VintagesInv, StoredTrue
<1>3. /\ DOMAIN bars' = DOMAIN bars \cup DOMAIN f.rows /\ filed' = Explanations(f)
      /\ \A d \in DOMAIN bars' :
           \/ /\ d \in DOMAIN f.rows /\ bars'[d] = Vintage(f, d)
              /\ d \in DOMAIN bars => f.at >= bars[d].fetched
           \/ /\ d \in DOMAIN bars /\ bars'[d] = bars[d]
              /\ d \in DOMAIN f.rows => ~ (f.at >= bars[d].fetched)
      /\ \A r : r \in restatements' <=>
           \/ r \in restatements
           \/ \E d \in DOMAIN f.rows \cap DOMAIN bars :
                /\ f.at >= bars[d].fetched /\ ~ IsProvisional(source, d, bars[d].fetched)
                /\ \E x \in Restated(bars[d], Vintage(f, d), SplitFactorAfter(Explanations(f), d)) :
                     r = Filed(d, x, Vintage(f, d), f.at)
  BY <1>1, UpsertIs
<1>4. \A d \in DOMAIN f.rows : /\ Vintage(f, d) \in Bar /\ Vintage(f, d).fetched = f.at
                               /\ f.at \in Nat /\ f.at <= now /\ d \in Dates
  BY <1>2, VintageIs
<1>5. VendorTrue' /\ \A g \in fetches' : FetchTrue(g)'
  BY <1>1 DEF vendor, VintagesInv, VendorTrue, FetchTrue, SplitBy
<1>6. filed' \subseteq split'
  BY <1>1, <1>2, <1>3 DEF vendor, Explanations, FetchTrue, SplitBy
<1>7. Sourced'
  <2> SUFFICES ASSUME NEW d \in DOMAIN bars'
               PROVE  \E g \in delivered' : d \in DOMAIN g.rows /\ bars'[d] = Vintage(g, d)
    BY DEF Sourced, Vintage
  <2>1. CASE d \in DOMAIN f.rows /\ bars'[d] = Vintage(f, d)
    BY <1>1, <2>1
  <2>2. CASE d \in DOMAIN bars /\ bars'[d] = bars[d]
    BY <1>1, <2>2 DEF VintagesInv, StoredTrue, Sourced
  <2> QED BY <1>3, <2>1, <2>2
<1>8. Newest'
  <2> SUFFICES ASSUME NEW g \in delivered', NEW d \in DOMAIN g.rows
               PROVE  d \in DOMAIN bars' /\ bars'[d].fetched >= g.at
    BY DEF Newest
  <2>1. (g \in delivered \/ g = f) /\ g \in fetches
    BY <1>1 DEF VintagesInv, StoredTrue
  <2>2. g.at \in Nat
    BY <2>1 DEF VintagesInv, FetchTrue
  <2>3. g \in delivered => d \in DOMAIN bars /\ bars[d].fetched >= g.at
    BY DEF VintagesInv, StoredTrue, Newest
  <2>4. d \in DOMAIN bars'
    BY <1>3, <2>1, <2>3
  <2>5. d \in DOMAIN bars => bars[d].fetched \in Nat
    BY StoredIs
  <2>6. f.at \in Nat
    BY <1>2 DEF FetchTrue
  <2> QED BY <1>3, <1>4, <2>1, <2>2, <2>3, <2>4, <2>5, <2>6
<1>9. ASSUME NEW r \in restatements'
      PROVE  r \in Restatement /\ r.date \in DOMAIN bars' /\ r.at <= now'
  <2>1. CASE r \in restatements
    BY <1>1, <1>3, <2>1 DEF VintagesInv, StoredTrue, vendor
  <2>2. ASSUME NEW d \in DOMAIN f.rows \cap DOMAIN bars,
               NEW x \in Restated(bars[d], Vintage(f, d), SplitFactorAfter(Explanations(f), d)),
               r = Filed(d, x, Vintage(f, d), f.at)
        PROVE  r \in Restatement /\ r.date \in DOMAIN bars' /\ r.at <= now'
    <3>1. x \in Fields
      BY DEF Restated
    <3>2. Vintage(f, d) \in Bar /\ bars[d] \in Bar /\ d \in Dates /\ f.at <= now
      BY <1>4, StoredIs
    <3>3. f.at \in 0..LastMoment
      BY <1>4, <3>2 DEF Bar
    <3>4. bars[d][x] \in Nat \cup {NoValue} /\ Vintage(f, d)[x] \in Nat \cup {NoValue}
      BY <3>1, <3>2 DEF Fields, Bar
    <3> QED BY <1>1, <1>3, <2>2, <3>1, <3>2, <3>3, <3>4 DEF Filed, Restatement, vendor
  <2> QED BY <1>3, <2>1, <2>2
<1>10. StoredTrue'
  <2>1. delivered' \subseteq fetches'
    BY <1>1 DEF VintagesInv, StoredTrue
  <2> QED BY <1>6, <1>7, <1>8, <1>9, <2>1 DEF StoredTrue
<1> QED BY <1>5, <1>10 DEF VintagesInv

LEMMA VintagesKept ==
  VintagesAssumptions /\ VintagesInv /\ [VintagesNext]_vintagesVars => VintagesInv'
<1> SUFFICES ASSUME VintagesAssumptions, VintagesInv, [VintagesNext]_vintagesVars PROVE VintagesInv'
  OBVIOUS
<1>1. CASE Tick
  BY <1>1, TickKeeps
<1>2. CASE \E d \in Dates, q \in Quotes : Restate(d, q)
  BY <1>2, RestateKeeps
<1>3. ASSUME NEW missing, Fetch(missing)
      PROVE  VintagesInv'
  BY <1>3, FetchKeeps
<1>4. CASE \E f \in fetches : Deliver(f)
  BY <1>4, DeliverKeeps
<1>5. CASE UNCHANGED vintagesVars
  BY <1>5 DEF vintagesVars, VintagesInv, VendorTrue, FetchTrue, SplitBy, StoredTrue, Sourced, Newest
<1> QED BY <1>1, <1>2, <1>3, <1>4, <1>5 DEF VintagesNext

LEMMA VintagesTyped == VintagesAssumptions /\ VintagesInv => VintagesTypeOK
<1> SUFFICES ASSUME VintagesAssumptions, VintagesInv PROVE VintagesTypeOK
  OBVIOUS
<1>1. \A d \in DOMAIN bars : bars[d] \in Bar /\ bars[d].fetched <= now /\ d \in Dates
  BY StoredIs
<1> QED BY <1>1 DEF VintagesTypeOK, VintagesInv, VendorTrue, StoredTrue

LEMMA VintagesNewest == VintagesAssumptions /\ VintagesInv => NewestVintageStands
<1> SUFFICES ASSUME VintagesAssumptions, VintagesInv PROVE NewestVintageStands
  OBVIOUS
<1>1. \A d \in DOMAIN bars : \E g \in delivered :
        /\ d \in DOMAIN g.rows /\ g.at = bars[d].fetched
        /\ g.rows[d].close = bars[d].close /\ g.rows[d].volume = bars[d].volume
  BY DEF VintagesInv, StoredTrue, Sourced, Vintage
<1> QED BY <1>1 DEF VintagesInv, StoredTrue, Newest, NewestVintageStands

-----------------------------------------------------------------------------
(* Restatements. *)

(* detect_restatements looks at the columns only. *)
LEMMA RestatedOf ==
  ASSUME NEW a, NEW b, NEW c, NEW e, NEW k, \A x \in Fields : a[x] = c[x] /\ b[x] = e[x]
  PROVE  Restated(a, b, k) = Restated(c, e, k)
<1>1. \A x \in Fields : (x = "volume" <=> x # "close") /\ a[x] = c[x] /\ b[x] = e[x]
  BY DEF Fields
<1> QED BY <1>1 DEF Restated, Unchanged

(* What is compared with a stored vintage, and by which factor. *)
LEMMA ComparedIs ==
  ASSUME VintagesAssumptions, VintagesInv, NEW f \in fetches, NEW d \in DOMAIN f.rows \cap DOMAIN bars
  PROVE  \E g \in fetches :
           /\ d \in DOMAIN g.rows /\ d \in Dates /\ bars[d].fetched = g.at /\ FetchTrue(g) /\ FetchTrue(f)
           /\ bars[d].account = g.rows[d].account /\ Vintage(f, d).account = f.rows[d].account
           /\ g.rows[d].account \in Quotes /\ f.rows[d].account \in Quotes
           /\ \A k : Restated(bars[d], Vintage(f, d), k) =
                Restated(Rescaled(g.rows[d].account, SplitFactorAfter(SplitBy(g.at), d)),
                         Rescaled(f.rows[d].account, SplitFactorAfter(SplitBy(f.at), d)), k)
<1>1. VendorTrue /\ FetchTrue(f)
  BY DEF VintagesInv
<1>2. PICK g \in fetches : d \in DOMAIN g.rows /\ bars[d] = Vintage(g, d) /\ FetchTrue(g)
  BY StoredIs
<1>3. /\ Vintage(g, d).fetched = g.at /\ Vintage(g, d).account = g.rows[d].account
      /\ \A x \in Fields : Vintage(g, d)[x] = g.rows[d][x]
  BY <1>1, <1>2, VintageIs
<1>4. /\ Vintage(f, d).account = f.rows[d].account /\ d \in Dates
      /\ \A x \in Fields : Vintage(f, d)[x] = f.rows[d][x]
  BY <1>1, VintageIs
<1>5. \A k : Restated(bars[d], Vintage(f, d), k) = Restated(g.rows[d], f.rows[d], k)
  BY <1>2, <1>3, <1>4, RestatedOf
<1>6. /\ g.rows[d].account \in Quotes
      /\ g.rows[d] = Rescaled(g.rows[d].account, SplitFactorAfter(SplitBy(g.at), d))
  BY <1>2 DEF FetchTrue
<1>7. /\ f.rows[d].account \in Quotes
      /\ f.rows[d] = Rescaled(f.rows[d].account, SplitFactorAfter(SplitBy(f.at), d))
  BY <1>1 DEF FetchTrue
<1>8. \A k : Restated(bars[d], Vintage(f, d), k) =
                Restated(Rescaled(g.rows[d].account, SplitFactorAfter(SplitBy(g.at), d)),
                         Rescaled(f.rows[d].account, SplitFactorAfter(SplitBy(f.at), d)), k)
  BY <1>5, <1>6, <1>7
<1> QED BY <1>1, <1>2, <1>3, <1>4, <1>6, <1>7, <1>8

LEMMA RewriteFiled ==
  ASSUME VintagesAssumptions, QuotesTell, VintagesInv, [VintagesNext]_vintagesVars,
         NEW d \in DOMAIN bars, ~ IsProvisional(source, d, bars[d].fetched),
         NEW x \in Fields, bars'[d].account[x] # bars[d].account[x]
  PROVE  \E r \in restatements' :
           /\ r.date = d /\ r.field = x /\ r.at = bars'[d].fetched
           /\ r.old = bars[d][x] /\ r.new = bars'[d][x]
<1>1. bars' # bars
  OBVIOUS
<1>2. PICK f \in fetches : Deliver(f)
  BY <1>1 DEF VintagesNext, vintagesVars, Tick, Restate, Fetch, stored
<1>3. /\ \A e \in DOMAIN bars' :
           \/ /\ e \in DOMAIN f.rows /\ bars'[e] = Vintage(f, e)
              /\ e \in DOMAIN bars => f.at >= bars[e].fetched
           \/ /\ e \in DOMAIN bars /\ bars'[e] = bars[e]
              /\ e \in DOMAIN f.rows => ~ (f.at >= bars[e].fetched)
      /\ DOMAIN bars' = DOMAIN bars \cup DOMAIN f.rows /\ filed' = Explanations(f)
      /\ \A r : r \in restatements' <=>
           \/ r \in restatements
           \/ \E e \in DOMAIN f.rows \cap DOMAIN bars :
                /\ f.at >= bars[e].fetched /\ ~ IsProvisional(source, e, bars[e].fetched)
                /\ \E y \in Restated(bars[e], Vintage(f, e), SplitFactorAfter(Explanations(f), e)) :
                     r = Filed(e, y, Vintage(f, e), f.at)
  BY <1>2, UpsertIs DEF Deliver
<1>4. d \in DOMAIN f.rows /\ bars'[d] = Vintage(f, d) /\ f.at >= bars[d].fetched
  BY <1>3
<1>5. PICK g \in fetches :
           /\ d \in DOMAIN g.rows /\ d \in Dates /\ bars[d].fetched = g.at /\ FetchTrue(g) /\ FetchTrue(f)
           /\ bars[d].account = g.rows[d].account /\ Vintage(f, d).account = f.rows[d].account
           /\ g.rows[d].account \in Quotes /\ f.rows[d].account \in Quotes
           /\ \A k : Restated(bars[d], Vintage(f, d), k) =
                Restated(Rescaled(g.rows[d].account, SplitFactorAfter(SplitBy(g.at), d)),
                         Rescaled(f.rows[d].account, SplitFactorAfter(SplitBy(f.at), d)), k)
  BY <1>4, ComparedIs
<1> DEFINE k == SplitFactorAfter(Explanations(f), d)
<1>6. /\ SplitFactorAfter(SplitBy(g.at), d) \in Rescales /\ SplitFactorAfter(SplitBy(f.at), d) \in Rescales
      /\ k \in Rescales
  <2>1. VendorTrue /\ SplitBy(g.at) \in SUBSET split /\ SplitBy(f.at) \in SUBSET split
    BY DEF VintagesInv, SplitBy
  <2>2. Explanations(f) \in SUBSET split
    BY <1>5, <2>1 DEF VintagesInv, StoredTrue, Explanations, FetchTrue
  <2> QED BY <1>5, <2>1, <2>2, FactorOf
<1>7. x \in Restated(bars[d], Vintage(f, d), k)
  <2>1. g.rows[d].account[x] # f.rows[d].account[x]
    BY <1>4, <1>5
  <2> HIDE DEF k
  <2>2. \A a, b : k \in Rescales /\ a \in Rescales /\ b \in Rescales =>
          x \in Restated(Rescaled(g.rows[d].account, a), Rescaled(f.rows[d].account, b), k)
    BY <1>5, <2>1 DEF QuotesTell, Restated, Fields
  <2> QED BY <1>5, <1>6, <2>2
<1>8. Filed(d, x, Vintage(f, d), f.at) \in restatements'
  BY <1>3, <1>4, <1>7
<1>9. Vintage(f, d).fetched = f.at
  BY DEF Vintage
<1> QED BY <1>4, <1>8, <1>9 DEF Filed

(* One split explains what it does to a session, and one that was there explains nothing. *)
LEMMA OneSplitExplains ==
  ASSUME VintagesAssumptions, QuotesDivide, MaxSplits <= 1, VendorTrue, NEW d \in Dates, NEW q \in Quotes,
         NEW S, NEW T, NEW E, S \subseteq T, T \subseteq E, E \subseteq split
  PROVE  Restated(Rescaled(q, SplitFactorAfter(S, d)), Rescaled(q, SplitFactorAfter(T, d)),
                  SplitFactorAfter(E, d)) = {}
<1>1. \A s, t \in split : s = t
  <2>1. IsFiniteSet(split) /\ Cardinality(split) \in Nat /\ Cardinality(split) <= 1
    BY FS_CardinalityType DEF VendorTrue, VintagesAssumptions, VintagesAssumption
  <2>2. CASE Cardinality(split) = 0
    BY <2>1, <2>2, FS_EmptySet
  <2>3. CASE Cardinality(split) = 1
    BY <2>1, <2>3, FS_Singleton
  <2> QED BY <2>1, <2>2, <2>3
<1>2. CASE S = T
  <2>1. \A a, k : Restated(a, a, k) = {}
    BY DEF Restated, Unchanged
  <2> QED BY <1>2, <2>1
<1>3. CASE S # T
  <2>1. S = {} /\ T = E
    BY <1>1, <1>3
  <2>2. /\ SplitFactorAfter(S, d) = 1 /\ SplitFactorAfter(T, d) \in Rescales
        /\ SplitFactorAfter(E, d) = SplitFactorAfter(T, d)
    BY <2>1, FactorOf
  <2> QED BY <2>2 DEF QuotesDivide, Restated, Fields
<1> QED BY <1>2, <1>3

(* A step files nothing of a session that stands. *)
LEMMA FiledOfRewritten ==
  ASSUME VintagesAssumptions, QuotesDivide, MaxSplits <= 1, VintagesInv, [VintagesNext]_vintagesVars,
         \A f \in fetches : f.lost = {}, NEW r \in restatements'
  PROVE  r \in restatements \/ r.date \in rewritten'
<1> SUFFICES ASSUME r \notin restatements PROVE r.date \in rewritten'
  OBVIOUS
<1>1. PICK f \in fetches : Deliver(f)
  BY DEF VintagesNext, vintagesVars, Tick, Restate, Fetch, stored
<1>2. UNCHANGED rewritten
  BY <1>1 DEF Deliver, vendor
<1>3. PICK d \in DOMAIN f.rows \cap DOMAIN bars :
        /\ f.at >= bars[d].fetched /\ ~ IsProvisional(source, d, bars[d].fetched)
        /\ \E x \in Restated(bars[d], Vintage(f, d), SplitFactorAfter(Explanations(f), d)) :
             r = Filed(d, x, Vintage(f, d), f.at)
  <2>1. \A s : s \in restatements' <=>
           \/ s \in restatements
           \/ \E d \in DOMAIN f.rows \cap DOMAIN bars :
                /\ f.at >= bars[d].fetched /\ ~ IsProvisional(source, d, bars[d].fetched)
                /\ \E x \in Restated(bars[d], Vintage(f, d), SplitFactorAfter(Explanations(f), d)) :
                     s = Filed(d, x, Vintage(f, d), f.at)
    BY <1>1, UpsertIs DEF Deliver
  <2> QED BY <2>1, Zenon
<1>4. r.date = d
  BY <1>3 DEF Filed
<1> SUFFICES ASSUME d \notin rewritten PROVE FALSE
  BY <1>2, <1>4
<1>5. PICK g \in fetches :
           /\ d \in DOMAIN g.rows /\ d \in Dates /\ bars[d].fetched = g.at /\ FetchTrue(g) /\ FetchTrue(f)
           /\ bars[d].account = g.rows[d].account /\ Vintage(f, d).account = f.rows[d].account
           /\ g.rows[d].account \in Quotes /\ f.rows[d].account \in Quotes
           /\ \A k : Restated(bars[d], Vintage(f, d), k) =
                Restated(Rescaled(g.rows[d].account, SplitFactorAfter(SplitBy(g.at), d)),
                         Rescaled(f.rows[d].account, SplitFactorAfter(SplitBy(f.at), d)), k)
  BY ComparedIs
<1>6. g.at \in Nat /\ f.at \in Nat /\ g.at <= f.at /\ d \in Nat
  <2>1. g.at \in 0..now /\ f.at \in 0..now
    BY <1>5 DEF FetchTrue
  <2>2. d \in Nat
    BY <1>5 DEF VintagesAssumptions, VintagesAssumption
  <2> QED BY <1>3, <1>5, <2>1, <2>2
<1>7. g.rows[d].account = said[d] /\ f.rows[d].account = said[d]
  <2>1. ~ IsProvisional(source, d, f.at)
    BY <1>3, <1>5, <1>6, StillClosed DEF VintagesAssumptions
  <2> QED BY <1>3, <1>5, <2>1 DEF FetchTrue
<1>8. VendorTrue /\ filed \subseteq split
  BY DEF VintagesInv, StoredTrue
<1>9. SplitBy(g.at) \subseteq SplitBy(f.at) /\ SplitBy(f.at) \subseteq Explanations(f) /\ Explanations(f) \subseteq split
  <2>1. DayOf(g.at) \in Nat /\ DayOf(f.at) \in Nat /\ DayOf(g.at) <= DayOf(f.at)
    BY <1>6, DayMonotone DEF VintagesAssumptions
  <2>2. \A s \in split : s.date \in Nat
    BY <1>8 DEF VendorTrue, Splits, VintagesAssumptions, VintagesAssumption
  <2>3. f.splits = SplitBy(f.at)
    BY <1>5 DEF FetchTrue
  <2> QED BY <1>8, <2>1, <2>2, <2>3 DEF SplitBy, Explanations
<1>10. Restated(bars[d], Vintage(f, d), SplitFactorAfter(Explanations(f), d)) = {}
  BY <1>5, <1>7, <1>8, <1>9, OneSplitExplains
<1> QED BY <1>3, <1>10

LEMMA RewrittenKept ==
  ASSUME VintagesInv, [VintagesNext]_vintagesVars
  PROVE  rewritten \subseteq rewritten' /\ fetches \subseteq fetches'
BY DEF VintagesNext, vintagesVars, Tick, Restate, Fetch, Deliver, stored, vendor

-----------------------------------------------------------------------------
(* The machines, each by itself and as the run composes them. *)

Assumptions ==
  /\ VintagesAssumptions /\ BackfillAssumptions /\ ReadsAssumption

LEMMA AssumptionsHold == Assumptions
BY PricesAssumption, VintagesAssumption, InstrumentsAssumption, SourcesAssumption, DaysAssumption,
   StaysAssumption, NoBarAssumption, BackfillAssumption
   DEF Assumptions, VintagesAssumptions, BackfillAssumptions, ReadsAssumption

LEMMA VintagesStay == VintagesSpec => []VintagesInv
<1>1. VintagesInit => VintagesInv
  BY AssumptionsHold, VintagesInitially DEF Assumptions
<1>2. VintagesInv /\ [VintagesNext]_vintagesVars => VintagesInv'
  BY AssumptionsHold, VintagesKept DEF Assumptions
<1> QED BY <1>1, <1>2, PTL DEF VintagesSpec

(* store.py:1826: whatever the order and however often fetches arrive, every date holds   *)
(* the newest vintage that came for it, and a date that came once is kept.                *)
THEOREM NewestStands == VintagesSpec => []NewestVintageStands
<1>1. VintagesInv => NewestVintageStands
  BY AssumptionsHold, VintagesNewest DEF Assumptions
<1> QED BY <1>1, VintagesStay, PTL

(* prices.py:404, wherever no rescaling by splits passes one account of a session for     *)
(* another: a closed session that the vendor rewrites is never overwritten in silence,    *)
(* whatever splits came with it and in whatever order the answers arrive.                 *)
THEOREM RewritesFiled == QuotesTell => (VintagesSpec => RewritesAreFiled)
<1> SUFFICES ASSUME QuotesTell PROVE VintagesSpec => RewritesAreFiled
  OBVIOUS
<1>1. VintagesInv /\ [VintagesNext]_vintagesVars =>
        [\A d \in DOMAIN bars : ~ IsProvisional(source, d, bars[d].fetched) =>
           \A f \in Fields : bars'[d].account[f] # bars[d].account[f] =>
             \E r \in restatements' :
               /\ r.date = d /\ r.field = f /\ r.at = bars'[d].fetched
               /\ r.old = bars[d][f] /\ r.new = bars'[d][f]]_vintagesVars
  BY AssumptionsHold, RewriteFiled DEF Assumptions
<1> QED BY <1>1, VintagesStay, PTL DEF VintagesSpec, RewritesAreFiled

(* docs/adr/0009, with one split at most, where rounding loses nothing of it: neither a   *)
(* split nor a session under way is ever filed as a Restatement.                          *)
THEOREM SplitsAreNoRestatements ==
  QuotesDivide /\ MaxSplits <= 1 => (VintagesSpec => []NothingFiledUnlessRewritten)
<1> SUFFICES ASSUME QuotesDivide, MaxSplits <= 1 PROVE VintagesSpec => []NothingFiledUnlessRewritten
  OBVIOUS
<1>1. VintagesInit => NothingFiledUnlessRewritten
  BY DEF VintagesInit, NothingFiledUnlessRewritten
<1>2. VintagesInv /\ NothingFiledUnlessRewritten /\ [VintagesNext]_vintagesVars =>
        NothingFiledUnlessRewritten'
  <2> SUFFICES ASSUME VintagesInv, NothingFiledUnlessRewritten, [VintagesNext]_vintagesVars,
                      \A f \in fetches' : f.lost = {}, NEW r \in restatements'
               PROVE  r.date \in rewritten'
    BY DEF NothingFiledUnlessRewritten
  <2>1. rewritten \subseteq rewritten' /\ fetches \subseteq fetches'
    BY RewrittenKept
  <2>2. r \in restatements \/ r.date \in rewritten'
    BY <2>1, AssumptionsHold, FiledOfRewritten DEF Assumptions
  <2> QED BY <2>1, <2>2 DEF NothingFiledUnlessRewritten
<1> QED BY <1>1, <1>2, VintagesStay, PTL DEF VintagesSpec

LEMMA BackfillsStay == BackfillSpec => []BackfillInv
<1>1. BackfillInit => BackfillInv
  BY AssumptionsHold, BackfillInitially DEF Assumptions
<1>2. BackfillInv /\ [BackfillNext]_backfillVars => BackfillInv'
  BY AssumptionsHold, BackfillKept DEF Assumptions
<1> QED BY <1>1, <1>2, PTL DEF BackfillSpec

LEMMA AtMostOne ==
  ASSUME NEW S, \A x, y \in S : x = y
  PROVE  Cardinality(S) <= 1
<1>1. CASE S = {}
  BY <1>1, FS_EmptySet
<1>2. CASE S # {}
  <2>1. PICK x \in S : TRUE
    BY <1>2
  <2>2. S = {x}
    BY <2>1
  <2> QED BY <2>2, FS_Singleton
<1> QED BY <1>1, <1>2

(* backfill.py:431: whatever was compared, however long ago, and whatever merged in       *)
(* between, no Yahoo ticker is the pair of two Instruments, nor has an Instrument two.    *)
THEOREM PairsStayApart == BackfillSpec => []PairsNameOneCoin
<1>1. BackfillInv => PairsNameOneCoin
  <2> SUFFICES ASSUME BackfillInv PROVE PairsNameOneCoin
    OBVIOUS
  <2>1. ASSUME NEW t \in Tickers PROVE Cardinality(HeldBy(pairs, t)) <= 1
    <3>1. \A x, y \in HeldBy(pairs, t) : x = y
      BY DEF HeldBy, BackfillInv, RegistryTrue, OneFamilyPerPair
    <3> QED BY <3>1, AtMostOne
  <2>2. ASSUME NEW i \in Instruments PROVE Cardinality(pairs[i]) <= 1
    BY AtMostOne DEF BackfillInv, RegistryTrue, OnePairEach
  <2> QED BY <2>1, <2>2 DEF PairsNameOneCoin
<1> QED BY <1>1, BackfillsStay, PTL

(* backfill.py:278: a write takes no row away, leaves every date it fetched readable, and *)
(* unless a merge came between its look at the store and itself leaves every date of the  *)
(* family as it read, for every number of runs and whatever is swept and merged.          *)
THEOREM GapsAreFilled == BackfillSpec => FillsGapsOnly
<1>1. BackfillInv /\ BackfillInv' =>
        \A p \in Runs, from \in {CoinGecko, Yahoo} : GapsFilled(p, from)
  BY AssumptionsHold, WriteFillsGaps DEF Assumptions
<1> QED BY <1>1, BackfillsStay, PTL DEF BackfillSpec, FillsGapsOnly

(* store.py:1900, beside backfills, sweeps and merges. *)
THEOREM BackfilledReadsAgree == BackfillSpec => []ReadsAgree
<1>1. BackfillInv => ReadsAgree
  BY AssumptionsHold, ReadableReadsAgree DEF Assumptions, BackfillInv
<1> QED BY <1>1, BackfillsStay, PTL

LEMMA BackfillTyped == BackfillAssumptions /\ BackfillInv => BackfillTypeOK
<1> SUFFICES ASSUME BackfillAssumptions, BackfillInv PROVE BackfillTypeOK
  OBVIOUS
<1>1. links \in [Instruments -> {None} \cup Instruments]
  <2>1. /\ Cardinality(Instruments) \in Nat /\ Instruments = 1..Cardinality(Instruments)
        /\ WellLinked(links, Cardinality(Instruments))
    BY FS_CardinalityType DEF BackfillAssumptions, InstrumentsAssumption, BackfillInv, Readable, Linked
  <2> DEFINE n == Cardinality(Instruments)
  <2>2. \A i \in 1..n : links[i] \in 0..n
    <3> HIDE DEF n
    <3> QED BY <2>1 DEF WellLinked, n
  <2>3. links \in [Instruments -> Nat]
    BY <2>1 DEF WellLinked
  <2>4. \A i \in Instruments : links[i] \in {None} \cup Instruments
    <3> HIDE DEF n
    <3> QED BY <2>1, <2>2 DEF None, n
  <2> QED BY <2>3, <2>4
<1>2. /\ rows \subseteq BarRow
      /\ \A a, b \in rows : <<a.instrument, a.source, a.date>> = <<b.instrument, b.source, b.date>> => a = b
  BY DEF BackfillInv, Readable, Keyed
<1>3. ASSUME NEW p \in Runs
      PROVE  /\ run[p].stage \in {"idle", "target", "charted", "charting", "find", "pairing",
                                  "frame", "writing", "done"}
             /\ (lock = p) <=> (run[p].stage \in {"charting", "writing"})
             /\ run[p].stage \notin {"idle", "target", "done"} => run[p].left # {}
  BY RunIs DEF AnyRun, Stage, Holding, Orderly
<1> QED BY <1>1, <1>2, <1>3 DEF BackfillTypeOK, BackfillInv, RegistryTrue, RunsTrue

(* Outside the backfills' part no run has begun and no pair is recorded. *)
BarsInv ==
  /\ VintagesInv /\ BackfillInv
  /\ part # "backfill" => /\ \A i \in Instruments : pairs[i] = {}
                          /\ \A p \in Runs : run[p].stage = "idle"

LEMMA PartsStep ==
  ASSUME [BarsNext]_<<part, vintagesVars, backfillVars>>
  PROVE  \/ [VintagesNext]_vintagesVars /\ UNCHANGED <<part, backfillVars>>
         \/ /\ part = "history" /\ UNCHANGED <<part, day, coin, pairs, lock, run, vintagesVars>>
            /\ \/ \E i \in Instruments, from \in Sources, date \in Days : PutBar(i, from, date)
               \/ \E i, j \in Instruments : Supersede(i, j)
         \/ part = "backfill" /\ [BackfillNext]_backfillVars /\ UNCHANGED <<part, vintagesVars>>
BY DEF BarsNext, InVintages, InHistory, InBackfill, VintagesNext, BackfillNext

LEMMA HistoryMoves ==
  ASSUME BarsInv, part = "history", UNCHANGED <<day, coin, pairs, lock, run>>, Readable'
  PROVE  BackfillInv'
<1>1. (\A i \in Instruments : pairs[i] = {}) /\ \A p \in Runs : run[p].stage = "idle"
  BY DEF BarsInv
<1>2. RegistryTrue'
  BY <1>1 DEF BarsInv, BackfillInv, RegistryTrue, OneFamilyPerPair, OnePairEach
<1>3. RunsTrue'
  BY <1>1 DEF BarsInv, BackfillInv, RunsTrue, Looked, LookedIn, Holding
<1> QED BY <1>2, <1>3 DEF BarsInv, BackfillInv

LEMMA HistoryKeeps ==
  ASSUME Assumptions, BarsInv, part = "history", UNCHANGED <<part, day, coin, pairs, lock, run, vintagesVars>>,
         \/ \E i \in Instruments, from \in Sources, date \in Days : PutBar(i, from, date)
         \/ \E i, j \in Instruments : Supersede(i, j)
  PROVE  BackfillInv'
<1>1. InstrumentsAssumption /\ Readable /\ Days \subseteq Nat
  BY DEF Assumptions, BackfillAssumptions, DaysAssumption, BarsInv, BackfillInv
<1>2. CASE \E i \in Instruments, from \in Sources, date \in Days : PutBar(i, from, date)
  <2>1. PICK i \in Instruments, from \in Sources, date \in Days : PutBar(i, from, date)
    BY <1>2
  <2> DEFINE bar == [instrument |-> i, source |-> from, date |-> date, fetched |-> date, close |-> date]
  <2>2. rows' = Upserted({bar}) /\ UNCHANGED links
    BY <2>1 DEF PutBar
  <2>3. bar \in BarRow
    BY <1>1 DEF BarRow
  <2> HIDE DEF bar
  <2>4. Keyed({bar})
    BY <2>3 DEF Keyed
  <2>5. Readable'
    BY <1>1, <2>2, <2>4, UpsertedKeyed DEF Readable, Linked
  <2> QED BY <2>5, HistoryMoves
<1>3. CASE \E i, j \in Instruments : Supersede(i, j)
  <2>1. PICK i \in Instruments, j \in Instruments : Supersede(i, j)
    BY <1>3
  <2>2. Linked'
    BY <1>1, <2>1, MergeFolds DEF Supersede, Readable
  <2>3. Readable'
    BY <1>1, <2>1, <2>2 DEF Supersede, Readable
  <2> QED BY <2>3, HistoryMoves
<1> QED BY <1>2, <1>3

LEMMA BarsInitially == Assumptions /\ BarsInit => BarsInv
<1> SUFFICES ASSUME Assumptions, BarsInit PROVE BarsInv
  OBVIOUS
<1>1. VintagesInv /\ BackfillInv
  BY VintagesInitially, BackfillInitially DEF BarsInit, Assumptions
<1>2. (\A i \in Instruments : pairs[i] = {}) /\ \A p \in Runs : run[p].stage = "idle"
  <2>1. Idle.stage = "idle"
    BY DEF Idle
  <2> QED BY <2>1 DEF BarsInit, BackfillInit
<1> QED BY <1>1, <1>2 DEF BarsInv

LEMMA BarsKept == Assumptions /\ BarsInv /\ [BarsNext]_<<part, vintagesVars, backfillVars>> => BarsInv'
<1> SUFFICES ASSUME Assumptions, BarsInv, [BarsNext]_<<part, vintagesVars, backfillVars>> PROVE BarsInv'
  OBVIOUS
<1>1. CASE [VintagesNext]_vintagesVars /\ UNCHANGED <<part, backfillVars>>
  <2>1. VintagesInv'
    BY <1>1, VintagesKept DEF Assumptions, BarsInv
  <2>2. BackfillInv'
    BY <1>1, BackfillStays DEF BarsInv
  <2> QED BY <1>1, <2>1, <2>2 DEF BarsInv, backfillVars
<1>2. CASE /\ part = "history" /\ UNCHANGED <<part, day, coin, pairs, lock, run, vintagesVars>>
           /\ \/ \E i \in Instruments, from \in Sources, date \in Days : PutBar(i, from, date)
              \/ \E i, j \in Instruments : Supersede(i, j)
  <2>1. VintagesInv'
    BY <1>2, VintagesKept DEF Assumptions, BarsInv
  <2>2. BackfillInv'
    BY <1>2, HistoryKeeps
  <2> QED BY <1>2, <2>1, <2>2 DEF BarsInv
<1>3. CASE part = "backfill" /\ [BackfillNext]_backfillVars /\ UNCHANGED <<part, vintagesVars>>
  <2>1. VintagesInv'
    BY <1>3, VintagesKept DEF Assumptions, BarsInv
  <2>2. BackfillInv'
    BY <1>3, BackfillKept DEF Assumptions, BarsInv
  <2> QED BY <1>3, <2>1, <2>2 DEF BarsInv
<1> QED BY <1>1, <1>2, <1>3, PartsStep

LEMMA BarsStay == BarsSpec => []BarsInv
<1>1. BarsInit => BarsInv
  BY AssumptionsHold, BarsInitially
<1>2. BarsInv /\ [BarsNext]_<<part, vintagesVars, backfillVars>> => BarsInv'
  BY AssumptionsHold, BarsKept
<1> QED BY <1>1, <1>2, PTL DEF BarsSpec

(* The types of the vintages, the Bar table, the registry and the runs; the lock is held  *)
(* by a run exactly while it writes (backfill.py:348, 463).                               *)
THEOREM BarsAreTyped == BarsSpec => []BarsTypeOK
<1>1. BarsInv => BarsTypeOK
  <2> SUFFICES ASSUME BarsInv PROVE BarsTypeOK
    OBVIOUS
  <2>1. VintagesTypeOK
    BY AssumptionsHold, VintagesTyped DEF Assumptions, BarsInv
  <2>2. BackfillTypeOK
    BY AssumptionsHold, BackfillTyped DEF Assumptions, BarsInv
  <2> QED BY <2>1, <2>2 DEF BarsTypeOK
<1> QED BY <1>1, BarsStay, PTL

(* store.py:1900, whoever wrote the bars and whenever two Instruments became one: a range  *)
(* of bars, its days one by one, the bulk reads and the pairs of closes give one           *)
(* Instrument the same bars, under whichever id it is asked for.                           *)
THEOREM ReadsAlwaysAgree == BarsSpec => []HistoryReadsAgree
<1>1. BarsInv => HistoryReadsAgree
  BY AssumptionsHold, ReadableReadsAgree DEF Assumptions, BarsInv, BackfillInv, HistoryReadsAgree
<1> QED BY <1>1, BarsStay, PTL
=============================================================================
