--------------------------- MODULE IdentityFacts ----------------------------
(***************************************************************************)
(* Lemmas about the operators of Identity, for any registry value: that    *)
(* the Instrument Id a mint finds is free, what an Observation does to a   *)
(* registry (it joins, is minted, or is flagged), and which facts joins    *)
(* and mints keep.  InstrumentRegistryProofs and IdentityStoreProofs use   *)
(* them, the one for the registry in memory, the other for the table.      *)
(***************************************************************************)
EXTENDS Identity, SupersessionFacts, FiniteSetTheorems

(* The least element of a set of numbers is its Min. *)
LEMMA MinIsLeast ==
  ASSUME NEW T \in SUBSET Nat, T # {}
  PROVE  Min(T) \in T /\ \A y \in T : Min(T) <= y
BY LeastNat DEF Min

(***************************************************************************)
(* Minting and absorbing                                                   *)
(***************************************************************************)

(* The numbers searched always hold a free one: there are more of them than *)
(* Instruments.                                                             *)
LEMMA SomeNumberIsFree ==
  ASSUME NEW reg \in Seq(Instrument), NEW obs
  PROVE  \E n \in 2 .. Len(reg) + 2 : IdOf(obs, ByNumber(n)) \notin Taken(reg)
<1> DEFINE N == 2 .. Len(reg) + 2
<1> SUFFICES ASSUME \A n \in N : IdOf(obs, ByNumber(n)) \in Taken(reg)
             PROVE  FALSE
  OBVIOUS
<1>1. \A n \in N : \E i \in 1 .. Len(reg) : reg[i].id = IdOf(obs, ByNumber(n))
  BY DEF Taken
<1> DEFINE f == [n \in N |-> CHOOSE i \in 1 .. Len(reg) : reg[i].id = IdOf(obs, ByNumber(n))]
<1>2. \A n \in N : f[n] \in 1 .. Len(reg) /\ reg[f[n]].id = IdOf(obs, ByNumber(n))
  BY <1>1
<1>3. f \in [N -> 1 .. Len(reg)]
  BY <1>2
<1>4. Len(reg) \in Nat
  OBVIOUS
<1>5. /\ IsFiniteSet(N) /\ Cardinality(N) = Len(reg) + 1
      /\ IsFiniteSet(1 .. Len(reg)) /\ Cardinality(1 .. Len(reg)) = Len(reg)
  <2>1. /\ IsFiniteSet(N)
        /\ Cardinality(N) = IF 2 > Len(reg) + 2 THEN 0 ELSE (Len(reg) + 2) - 2 + 1
    BY <1>4, FS_Interval
  <2>2. /\ IsFiniteSet(1 .. Len(reg))
        /\ Cardinality(1 .. Len(reg)) = IF 1 > Len(reg) THEN 0 ELSE Len(reg) - 1 + 1
    BY <1>4, FS_Interval
  <2> QED BY <1>4, <2>1, <2>2
<1>6. \E x, y \in N : x # y /\ f[x] = f[y]
  <2>1. Cardinality(1 .. Len(reg)) < Cardinality(N)
    BY <1>4, <1>5
  <2> HIDE DEF N, f
  <2> QED BY <1>3, <1>5, <2>1, FS_PigeonHole
<1>7. \A x, y \in N : IdOf(obs, ByNumber(x)) = IdOf(obs, ByNumber(y)) => x = y
  BY DEF IdOf, ByNumber
<1> HIDE DEF f
<1> QED BY <1>2, <1>6, <1>7

(* The Instrument Id a mint is given is one no Instrument holds. *)
LEMMA MintedIdIsFree ==
  ASSUME NEW reg \in Seq(Instrument), NEW obs \in Observation
  PROVE  MintId(reg, obs) \in InstrumentId /\ MintId(reg, obs) \notin Taken(reg)
<1> DEFINE Free == { n \in 2 .. Len(reg) + 2 : IdOf(obs, ByNumber(n)) \notin Taken(reg) }
<1>1. obs.kind \in Kinds /\ obs.symbol \in Symbols /\ obs.issuer \in Issuers \cup {NoIssuer}
  BY DEF Observation
<1>2. \A q \in Qualifier : IdOf(obs, q) \in InstrumentId
  BY <1>1 DEF IdOf, InstrumentId
<1>3. /\ Bare \in Qualifier
      /\ \A n \in Nat : ByNumber(n) \in Qualifier
      /\ obs.issuer # NoIssuer => ByIssuer(obs.issuer) \in Qualifier
  BY <1>1 DEF Qualifier, Bare, ByNumber, ByIssuer
<1>4. /\ FreeNumber(reg, obs) \in Nat
      /\ IdOf(obs, ByNumber(FreeNumber(reg, obs))) \notin Taken(reg)
  <2>1. Free # {} /\ Free \in SUBSET Nat
    BY SomeNumberIsFree
  <2>2. FreeNumber(reg, obs) = Min(Free)
    BY DEF FreeNumber
  <2>3. Min(Free) \in Free
    <3> HIDE DEF Free
    <3> QED BY <2>1, MinIsLeast
  <2> QED BY <2>1, <2>2, <2>3
<1>5. CASE IdOf(obs, Bare) \notin Taken(reg)
  BY <1>2, <1>3, <1>5 DEF MintId
<1>6. CASE /\ IdOf(obs, Bare) \in Taken(reg)
           /\ obs.issuer # NoIssuer
           /\ IdOf(obs, ByIssuer(obs.issuer)) \notin Taken(reg)
  BY <1>2, <1>3, <1>6 DEF MintId
<1>7. CASE /\ IdOf(obs, Bare) \in Taken(reg)
           /\ ~ (obs.issuer # NoIssuer /\ IdOf(obs, ByIssuer(obs.issuer)) \notin Taken(reg))
  <2>1. MintId(reg, obs) = IdOf(obs, ByNumber(FreeNumber(reg, obs)))
    BY <1>7 DEF MintId
  <2> QED BY <1>2, <1>3, <1>4, <2>1
<1> QED BY <1>5, <1>6, <1>7

(* A chain with one more record is a chain of records. *)
LEMMA RecordedType ==
  ASSUME NEW chain \in Seq(TickerRecord), NEW obs \in Observation
  PROVE  Recorded(chain, obs) \in Seq(TickerRecord)
<1> DEFINE opened == [symbol |-> obs.symbol, from |-> obs.at, to |-> Open]
           closed == [chain EXCEPT ![Len(chain)].to = obs.at]
<1>1. obs.symbol \in Symbols /\ obs.at \in Dates
  BY DEF Observation
<1>2. opened \in TickerRecord
  BY <1>1 DEF TickerRecord
<1>3. CASE chain = <<>>
  BY <1>2, <1>3 DEF Recorded
<1>4. CASE chain # <<>>
  <2>1. Len(chain) \in 1 .. Len(chain)
    BY <1>4
  <2>2. closed \in Seq(TickerRecord)
    <3> DEFINE last == chain[Len(chain)]
    <3>1. last \in TickerRecord
      BY <2>1
    <3>2. [last EXCEPT !.to = obs.at] \in TickerRecord
      <4> HIDE DEF last
      <4> QED BY <1>1, <3>1 DEF TickerRecord
    <3> QED BY <2>1, <3>2
  <2>3. Recorded(chain, obs) = Append(closed, opened)
    BY <1>4 DEF Recorded
  <2> HIDE DEF closed, opened
  <2> QED BY <1>2, <2>2, <2>3
<1> QED BY <1>3, <1>4

(* What absorbing an Observation does to an Instrument, field by field. *)
LEMMA AbsorbType ==
  ASSUME NEW inst \in Instrument, NEW obs \in Observation
  PROVE  /\ Absorb(inst, obs) \in Instrument
         /\ Absorb(inst, obs).id = inst.id
         /\ Absorb(inst, obs).kind = inst.kind
         /\ Absorb(inst, obs).refs = inst.refs \cup obs.refs
         /\ Absorb(inst, obs).superseded_by = inst.superseded_by
         /\ Absorb(inst, obs).figi = AbsorbedFigi(inst, obs)
         /\ \A s \in Sources : Absorb(inst, obs).ticker_history[s] =
              IF s = obs.source /\ Renames(inst.ticker_history[s], obs)
              THEN Recorded(inst.ticker_history[s], obs) ELSE inst.ticker_history[s]
<1> DEFINE chain == inst.ticker_history[obs.source]
           next  == IF Renames(chain, obs) THEN Recorded(chain, obs) ELSE chain
<1>1. /\ obs.symbol \in Symbols /\ obs.source \in Sources
      /\ obs.refs \in SUBSET Reference /\ obs.figi \in FigiResolution
  BY DEF Observation
<1>2. chain \in Seq(TickerRecord)
  BY <1>1 DEF Instrument
<1>3. next \in Seq(TickerRecord)
  BY <1>2, RecordedType
<1>4. AbsorbedFigi(inst, obs) \in FigiResolution
  BY <1>1 DEF AbsorbedFigi, Instrument
<1>5. AbsorbedRefs(inst, obs) = inst.refs \cup obs.refs
  BY DEF AbsorbedRefs
<1> DEFINE symbol == IF Renames(chain, obs) /\ obs.source = IdentitySource[inst.kind]
                      THEN obs.symbol ELSE inst.symbol
           history == [inst.ticker_history EXCEPT ![obs.source] = next]
<1>6. Absorb(inst, obs) =
        [inst EXCEPT !.refs = AbsorbedRefs(inst, obs), !.figi = AbsorbedFigi(inst, obs),
                     !.symbol = symbol, !.ticker_history = history]
  BY DEF Absorb, Instrument
<1>7. symbol \in Symbols /\ history \in [Sources -> Seq(TickerRecord)]
  BY <1>1, <1>3 DEF Instrument
<1>8. inst.refs \cup obs.refs \in SUBSET Reference
  BY <1>1 DEF Instrument
<1>10. \A s \in Sources : history[s] =
         IF s = obs.source /\ Renames(inst.ticker_history[s], obs)
         THEN Recorded(inst.ticker_history[s], obs) ELSE inst.ticker_history[s]
  BY DEF Instrument
<1> HIDE DEF symbol, history, chain, next
<1>9. Absorb(inst, obs) =
        [ id |-> inst.id, kind |-> inst.kind, symbol |-> symbol,
          refs |-> inst.refs \cup obs.refs, figi |-> AbsorbedFigi(inst, obs),
          superseded_by |-> inst.superseded_by, ticker_history |-> history ]
  BY <1>5, <1>6 DEF Instrument
<1> QED BY <1>4, <1>7, <1>8, <1>9, <1>10 DEF Instrument

(* What is minted is a well-formed Instrument. *)
LEMMA MintedType ==
  ASSUME NEW reg \in Seq(Instrument), NEW obs \in Observation
  PROVE  Minted(reg, obs) \in Instrument
<1>1. /\ obs.symbol \in Symbols /\ obs.source \in Sources /\ obs.kind \in Kinds
      /\ obs.refs \in SUBSET Reference /\ obs.figi \in FigiResolution
  BY DEF Observation
<1>2. Recorded(<<>>, obs) \in Seq(TickerRecord) /\ <<>> \in Seq(TickerRecord)
  <2>1. <<>> \in Seq(TickerRecord)
    OBVIOUS
  <2> QED BY <2>1, RecordedType
<1>3. [s \in Sources |-> IF s = obs.source THEN Recorded(<<>>, obs) ELSE <<>>]
        \in [Sources -> Seq(TickerRecord)]
  BY <1>2
<1> QED BY <1>1, <1>3, MintedIdIsFree DEF Minted, Instrument, None

(***************************************************************************)
(* Registries                                                              *)
(***************************************************************************)

(* Well-formed Instruments, each superseded by an earlier mint or by none. *)
Chained(reg) ==
  /\ reg \in Seq(Instrument)
  /\ \A i \in DOMAIN reg : reg[i].superseded_by < i

(* The superseded_by column is a forest that leads to earlier mints. *)
LEMMA LinksAreWellLinked ==
  ASSUME NEW reg, Chained(reg)
  PROVE  WellLinked(Links(reg), Len(reg))
<1>1. \A i \in DOMAIN reg : reg[i] \in Instrument
  BY DEF Chained
<1> QED BY <1>1 DEF Chained, WellLinked, Links, Instrument

(* The Instrument a loser yielded to is in the registry. *)
LEMMA SupersederIsMinted ==
  ASSUME NEW reg, Chained(reg), NEW i \in DOMAIN reg, reg[i].superseded_by # None
  PROVE  reg[i].superseded_by \in DOMAIN reg
<1>1. reg[i] \in Instrument
  BY DEF Chained
<1>2. reg[i].superseded_by \in Nat
  BY <1>1 DEF Instrument
<1>3. reg[i].superseded_by < i
  BY DEF Chained
<1>4. DOMAIN reg = 1 .. Len(reg) /\ Len(reg) \in Nat
  BY DEF Chained
<1> QED BY <1>2, <1>3, <1>4 DEF None

(* A survivor is an Instrument that no other supersedes. *)
LEMMA SurvivorIsAlive ==
  ASSUME NEW reg, Chained(reg), NEW i \in DOMAIN reg
  PROVE  /\ Survivor(reg, i) \in DOMAIN reg
         /\ Survivor(reg, i) <= i
         /\ reg[Survivor(reg, i)].superseded_by = None
         /\ reg[i].superseded_by = None => Survivor(reg, i) = i
<1>1. WellLinked(Links(reg), Len(reg)) /\ DOMAIN reg = 1 .. Len(reg)
  BY LinksAreWellLinked DEF Chained
<1>2. Fold(Links(reg))[i] \in 1 .. i /\ Links(reg)[Fold(Links(reg))[i]] = None
  BY <1>1, FoldEnds
<1>3. Links(reg)[i] = None => Fold(Links(reg))[i] = i
  BY <1>1, FoldFixed
<1>4. \A k \in DOMAIN reg : Links(reg)[k] = reg[k].superseded_by
  BY DEF Links
<1>5. 1 .. i \subseteq 1 .. Len(reg)
  BY <1>1 DEF Chained
<1> QED BY <1>1, <1>2, <1>3, <1>4, <1>5 DEF Survivor

(* The earliest survivor a match reaches, and the ones it supersedes.       *)
LEMMA MatchFacts ==
  ASSUME NEW reg, Chained(reg), NEW obs, Matched(reg, obs) # {}
  PROVE  LET t      == MatchTarget(reg, obs)
             losers == Losers(reg, obs)
         IN  /\ t \in DOMAIN reg /\ reg[t].superseded_by = None
             /\ Survivor(reg, t) = t
             /\ losers \subseteq DOMAIN reg
             /\ \A l \in losers : reg[l].superseded_by = None /\ t < l
             /\ AliveMatches(reg, obs) = {t} \cup losers
             /\ t \notin losers
<1> DEFINE Alive == AliveMatches(reg, obs)
           t     == MatchTarget(reg, obs)
<1>1. \A i \in Matched(reg, obs) : i \in DOMAIN reg
  BY DEF Matched
<1>2. DOMAIN reg \subseteq Nat
  BY DEF Chained
<1>3. \A a \in Alive : /\ a \in DOMAIN reg
                       /\ reg[a].superseded_by = None
                       /\ Survivor(reg, a) = a
  BY <1>1, SurvivorIsAlive DEF AliveMatches
<1>4. Alive # {} /\ Alive \in SUBSET Nat
  BY <1>2, <1>3 DEF AliveMatches
<1>5. t \in Alive /\ \A a \in Alive : t <= a
  BY <1>4, MinIsLeast DEF MatchTarget
<1>6. Losers(reg, obs) = { a \in Alive : t < a }
  BY <1>4, <1>5 DEF Losers
<1> HIDE DEF Alive, t
<1>7. Alive = {t} \cup { a \in Alive : t < a }
  <2>1. \A a \in Alive : a = t \/ t < a
    BY <1>4, <1>5
  <2> QED BY <1>5, <2>1
<1>8. t \notin { a \in Alive : t < a }
  BY <1>4, <1>5
<1> QED BY <1>3, <1>5, <1>6, <1>7, <1>8 DEF Alive, t

(***************************************************************************)
(* What an Observation does to a registry.  Whatever tier identifies it,   *)
(* it joins one survivor, which may supersede others; or it is minted; or  *)
(* it is flagged and changes nothing.                                      *)
(***************************************************************************)

Joining(reg, new, t, losers, obs) ==
  /\ obs \in Observation
  /\ t \in DOMAIN reg /\ reg[t].superseded_by = None
  /\ losers \subseteq Matched(reg, obs)
  /\ \A l \in losers : reg[l].superseded_by = None /\ t < l
  /\ \A m \in Matched(reg, obs) : Survivor(reg, m) \in {t} \cup losers
  /\ ~ Conflict(obs.refs, reg[t].refs)
  /\ new = [i \in DOMAIN reg |->
              IF i = t THEN Absorb(reg[i], obs)
              ELSE IF i \in losers THEN [reg[i] EXCEPT !.superseded_by = t]
              ELSE reg[i]]

Minting(reg, new, obs) ==
  /\ obs \in Observation
  /\ Matched(reg, obs) = {}
  /\ new = Append(reg, Minted(reg, obs))

(* What a join changes, field by field, and the families it moves. *)
FieldsJoined(reg, new, t, losers, obs) ==
  /\ DOMAIN new = DOMAIN reg
  /\ \A i \in DOMAIN reg :
       /\ new[i].id = reg[i].id
       /\ new[i].refs = IF i = t THEN reg[i].refs \cup obs.refs ELSE reg[i].refs
       /\ new[i].figi = IF i = t THEN AbsorbedFigi(reg[i], obs) ELSE reg[i].figi
       /\ new[i].superseded_by = IF i \in losers THEN t ELSE reg[i].superseded_by

FamiliesJoined(reg, new, t, losers) ==
  \A i \in DOMAIN reg :
    Survivor(new, i) = IF Survivor(reg, i) \in losers THEN t ELSE Survivor(reg, i)

(* What a mint adds. *)
FieldsMinted(reg, new, obs) ==
  /\ DOMAIN new = 1 .. Len(reg) + 1
  /\ \A i \in DOMAIN reg : new[i] = reg[i]
  /\ new[Len(reg) + 1] = Minted(reg, obs)

FamiliesMinted(reg, new) == \A i \in DOMAIN reg : Survivor(new, i) = Survivor(reg, i)

(* Acting on a reference match is a join. *)
LEMMA ReferenceMatchJoins ==
  ASSUME NEW reg, Chained(reg), NEW obs \in Observation,
         Matched(reg, obs) # {}, ~ MatchNeedsReview(reg, obs)
  PROVE  Joining(reg, JoinByReference(reg, obs), MatchTarget(reg, obs), Losers(reg, obs), obs)
<1> DEFINE t      == MatchTarget(reg, obs)
           losers == Losers(reg, obs)
<1>2. /\ t \in DOMAIN reg /\ reg[t].superseded_by = None
      /\ \A l \in losers : reg[l].superseded_by = None /\ t < l
      /\ AliveMatches(reg, obs) = {t} \cup losers
  BY MatchFacts
<1>3. ~ Conflict(obs.refs, reg[t].refs)
  BY DEF MatchNeedsReview
<1>4. losers \subseteq Matched(reg, obs)
  <2>1. losers # {} => \A m \in Matched(reg, obs) : reg[m].superseded_by = None
    BY DEF MatchNeedsReview
  <2>2. ASSUME NEW l \in losers
        PROVE  l \in Matched(reg, obs)
    <3>1. PICK m \in Matched(reg, obs) : l = Survivor(reg, m)
      BY <1>2 DEF AliveMatches
    <3>2. m \in DOMAIN reg /\ reg[m].superseded_by = None
      BY <2>1 DEF Matched
    <3> QED BY <3>1, <3>2, SurvivorIsAlive
  <2> QED BY <2>2
<1>5. \A m \in Matched(reg, obs) : Survivor(reg, m) \in {t} \cup losers
  BY <1>2 DEF AliveMatches
<1>6. JoinByReference(reg, obs) = [i \in DOMAIN reg |->
                       IF i = t THEN Absorb(reg[i], obs)
                       ELSE IF i \in losers THEN [reg[i] EXCEPT !.superseded_by = t]
                       ELSE reg[i]]
  BY DEF JoinByReference
<1> HIDE DEF t, losers
<1> QED BY <1>2, <1>3, <1>4, <1>5, <1>6 DEF Joining, t, losers

(* Joining by symbol and anchoring supersede nobody. *)
LEMMA AbsorbAtJoins ==
  ASSUME NEW reg, NEW obs \in Observation, NEW t \in DOMAIN reg,
         reg[t].superseded_by = None,
         ~ Conflict(obs.refs, reg[t].refs),
         AliveMatches(reg, obs) \ {t} = {}
  PROVE  Joining(reg, AbsorbAt(reg, t, obs), t, {}, obs)
BY DEF Joining, AliveMatches, AbsorbAt

(* observe: an Observation joins, is minted, or changes nothing. *)
LEMMA ObservedJoinsOrMints ==
  ASSUME NEW reg, Chained(reg), NEW obs \in Observation
  PROVE  \/ Observed(reg, obs) = reg
         \/ Minting(reg, Observed(reg, obs), obs)
         \/ \E t, losers : Joining(reg, Observed(reg, obs), t, losers, obs)
<1>1. CASE Matched(reg, obs) # {} /\ ~ MatchNeedsReview(reg, obs)
  <2>1. Observed(reg, obs) = JoinByReference(reg, obs)
    BY <1>1 DEF Observed
  <2> QED BY <1>1, <2>1, ReferenceMatchJoins
<1>2. CASE Matched(reg, obs) = {} /\ Cardinality(SymbolMatches(reg, obs)) = 1
  <2> DEFINE absorbed == [i \in DOMAIN reg |->
                            IF i \in SymbolMatches(reg, obs) THEN Absorb(reg[i], obs) ELSE reg[i]]
  <2>1. Observed(reg, obs) = absorbed
    <3>1. Observed(reg, obs) =
            CASE Matched(reg, obs) # {} /\ ~ MatchNeedsReview(reg, obs) -> JoinByReference(reg, obs)
              [] Matched(reg, obs) = {} /\ Cardinality(SymbolMatches(reg, obs)) = 1 -> absorbed
              [] Matched(reg, obs) = {} /\ SymbolMatches(reg, obs) = {} ->
                   Append(reg, Minted(reg, obs))
              [] OTHER -> reg
      BY DEF Observed
    <3>2. SymbolMatches(reg, obs) # {}
      BY <1>2, FS_EmptySet
    <3> HIDE DEF absorbed
    <3> QED BY <1>2, <3>1, <3>2
  <2>2. PICK t : SymbolMatches(reg, obs) = {t}
    <3>1. IsFiniteSet(SymbolMatches(reg, obs))
      <4>1. Len(reg) \in Nat /\ DOMAIN reg = 1 .. Len(reg)
        BY DEF Chained
      <4>2. IsFiniteSet(1 .. Len(reg))
        BY <4>1, FS_Interval
      <4>3. SymbolMatches(reg, obs) \subseteq 1 .. Len(reg)
        BY <4>1 DEF SymbolMatches
      <4> QED BY <4>2, <4>3, FS_Subset
    <3> QED BY <1>2, <3>1, FS_Singleton
  <2>3. /\ t \in DOMAIN reg /\ reg[t].superseded_by = None
        /\ ~ Conflict(obs.refs, reg[t].refs)
    BY <2>2 DEF SymbolMatches
  <2>4. AliveMatches(reg, obs) \ {t} = {}
    BY <1>2 DEF AliveMatches
  <2>5. Observed(reg, obs) = AbsorbAt(reg, t, obs)
    BY <2>1, <2>2, <2>3 DEF AbsorbAt
  <2>6. Joining(reg, AbsorbAt(reg, t, obs), t, {}, obs)
    BY <2>3, <2>4, AbsorbAtJoins
  <2> QED BY <2>5, <2>6
<1>3. CASE Matched(reg, obs) = {} /\ SymbolMatches(reg, obs) = {}
  <2>1. Cardinality(SymbolMatches(reg, obs)) # 1
    BY <1>3, FS_EmptySet
  <2>2. Observed(reg, obs) = Append(reg, Minted(reg, obs))
    BY <1>3, <2>1 DEF Observed
  <2> QED BY <1>3, <2>2 DEF Minting
<1>4. CASE /\ ~ (Matched(reg, obs) # {} /\ ~ MatchNeedsReview(reg, obs))
           /\ ~ (Matched(reg, obs) = {} /\ Cardinality(SymbolMatches(reg, obs)) = 1)
           /\ ~ (Matched(reg, obs) = {} /\ SymbolMatches(reg, obs) = {})
  BY <1>4 DEF Observed
<1> QED BY <1>1, <1>2, <1>3, <1>4

(* anchor: a FIGI answer joins the Instrument named, or changes nothing. *)
LEMMA AnchoredJoins ==
  ASSUME NEW reg, NEW t \in DOMAIN reg, NEW obs \in Observation, ~ AnchorNeedsReview(reg, t, obs)
  PROVE  Joining(reg, Anchored(reg, t, obs), t, {}, obs)
<1>1. /\ reg[t].superseded_by = None
      /\ ~ Conflict(obs.refs, reg[t].refs)
      /\ AliveMatches(reg, obs) \ {t} = {}
      /\ Anchored(reg, t, obs) = AbsorbAt(reg, t, obs)
  BY DEF AnchorNeedsReview, Anchored
<1> QED BY <1>1, AbsorbAtJoins

(* What joining changes, field by field. *)
LEMMA JoinEffect ==
  ASSUME NEW reg, Chained(reg), NEW new, NEW t, NEW losers, NEW obs,
         Joining(reg, new, t, losers, obs)
  PROVE  /\ new \in Seq(Instrument)
         /\ FieldsJoined(reg, new, t, losers, obs)
<1>1. \A i \in DOMAIN reg : reg[i] \in Instrument
  BY DEF Chained
<1>2. obs \in Observation /\ t \in DOMAIN reg /\ t \in Nat /\ t \notin losers
  BY DEF Joining, Chained
<1>3. DOMAIN reg = 1 .. Len(reg) /\ Len(reg) \in Nat
  BY DEF Chained
<1>4. ASSUME NEW i \in DOMAIN reg
      PROVE  /\ new[i] \in Instrument
             /\ new[i].id = reg[i].id
             /\ new[i].refs =
                  IF i = t THEN reg[i].refs \cup obs.refs ELSE reg[i].refs
             /\ new[i].figi =
                  IF i = t THEN AbsorbedFigi(reg[i], obs) ELSE reg[i].figi
             /\ new[i].superseded_by =
                  IF i \in losers THEN t ELSE reg[i].superseded_by
  <2>1. CASE i = t
    <3>1. new[i] = Absorb(reg[i], obs)
      BY <2>1 DEF Joining
    <3> QED BY <1>1, <1>2, <2>1, <3>1, AbsorbType
  <2>2. CASE i # t /\ i \in losers
    <3>1. new[i] = [reg[i] EXCEPT !.superseded_by = t]
      BY <2>2 DEF Joining
    <3> QED BY <1>1, <1>2, <2>2, <3>1 DEF Instrument
  <2>3. CASE i # t /\ i \notin losers
    <3>1. new[i] = reg[i]
      BY <2>3 DEF Joining
    <3> QED BY <1>1, <2>3, <3>1
  <2> QED BY <2>1, <2>2, <2>3
<1>5. new = [i \in 1 .. Len(reg) |-> new[i]]
  BY <1>3 DEF Joining
<1>6. new \in Seq(Instrument)
  <2>1. new \in [1 .. Len(reg) -> Instrument]
    BY <1>3, <1>4, <1>5
  <2> QED BY <1>3, <2>1
<1>7. DOMAIN new = DOMAIN reg
  BY <1>3, <1>5
<1> QED BY <1>4, <1>6, <1>7 DEF FieldsJoined

(* What minting changes. *)
LEMMA MintEffect ==
  ASSUME NEW reg, Chained(reg), NEW new, NEW obs, Minting(reg, new, obs)
  PROVE  new \in Seq(Instrument) /\ FieldsMinted(reg, new, obs)
<1>1. obs \in Observation
  BY DEF Minting
<1>2. Minted(reg, obs) \in Instrument
  BY <1>1, MintedType DEF Chained
<1> QED BY <1>2 DEF Minting, Chained, FieldsMinted

(* Joining moves the families of the superseded, and only those, to t. *)
LEMMA JoinSurvivors ==
  ASSUME NEW reg, Chained(reg), NEW new, NEW t, NEW losers, NEW obs,
         Joining(reg, new, t, losers, obs)
  PROVE  Chained(new) /\ FamiliesJoined(reg, new, t, losers)
<1> DEFINE n     == Len(reg)
           links == Links(reg)
<1>1. WellLinked(links, n) /\ DOMAIN reg = 1 .. n
  BY LinksAreWellLinked DEF Chained
<1>2. /\ t \in 1 .. n /\ links[t] = None
      /\ losers \in SUBSET (1 .. n)
      /\ \A l \in losers : links[l] = None /\ t < l
  BY <1>1 DEF Joining, Links, Matched
<1>3. Links(new) = [i \in 1 .. n |-> IF i \in losers THEN t ELSE links[i]]
  <2>1. FieldsJoined(reg, new, t, losers, obs)
    BY JoinEffect
  <2> QED BY <1>1, <2>1 DEF Links, FieldsJoined
<1> HIDE DEF links, n
<1>4. /\ WellLinked(Links(new), n)
      /\ \A i \in 1 .. n : Fold(Links(new))[i] =
           IF Fold(links)[i] \in losers THEN t ELSE Fold(links)[i]
  <2>1. ASSUME NEW moved, moved = [i \in 1 .. n |-> IF i \in losers THEN t ELSE links[i]]
        PROVE  /\ WellLinked(moved, n)
               /\ \A i \in 1 .. n :
                    Fold(moved)[i] = IF Fold(links)[i] \in losers THEN t ELSE Fold(links)[i]
    BY <1>1, <1>2, <2>1, FoldAfterMerge
  <2> QED BY <1>3, <2>1
<1>5. Chained(new)
  <2>1. new \in Seq(Instrument) /\ DOMAIN new = 1 .. n
    BY <1>1, JoinEffect DEF FieldsJoined
  <2> QED BY <1>4, <2>1 DEF Chained, WellLinked, Links
<1> QED BY <1>1, <1>4, <1>5 DEF Survivor, links, FamiliesJoined

(* Minting leaves every family as it was and starts one of its own. *)
LEMMA MintSurvivors ==
  ASSUME NEW reg, Chained(reg), NEW new, NEW obs, Minting(reg, new, obs)
  PROVE  Chained(new) /\ FamiliesMinted(reg, new)
<1> DEFINE n     == Len(reg)
           links == Links(reg)
<1>1. WellLinked(links, n) /\ DOMAIN reg = 1 .. n
  BY LinksAreWellLinked DEF Chained
<1>2. Links(new) = [i \in 1 .. n + 1 |-> IF i = n + 1 THEN None ELSE links[i]]
  <2>1. /\ DOMAIN new = 1 .. n + 1
        /\ \A i \in DOMAIN reg : new[i] = reg[i]
        /\ new[n + 1] = Minted(reg, obs)
    BY MintEffect DEF FieldsMinted
  <2>2. new[n + 1].superseded_by = None
    BY <2>1 DEF Minted
  <2>3. \A i \in 1 .. n + 1 : i \in 1 .. n \/ i = n + 1
    BY <1>1 DEF WellLinked
  <2>4. \A i \in 1 .. n : i # n + 1
    BY <1>1 DEF WellLinked
  <2> QED BY <1>1, <2>1, <2>3, <2>4, <2>2 DEF Links
<1> HIDE DEF links, n
<1>3. /\ WellLinked(Links(new), n + 1)
      /\ \A i \in 1 .. n : Fold(Links(new))[i] = Fold(links)[i]
  BY <1>1, <1>2, FoldAfterMint
<1>4. Chained(new)
  <2>1. new \in Seq(Instrument) /\ DOMAIN new = 1 .. n + 1
    BY MintEffect DEF n, FieldsMinted
  <2> QED BY <1>3, <2>1 DEF Chained, WellLinked, Links
<1> QED BY <1>1, <1>3, <1>4 DEF Survivor, links, FamiliesMinted

(***************************************************************************)
(* What joins and mints keep                                               *)
(***************************************************************************)

DistinctIds(reg) == \A i, j \in DOMAIN reg : reg[i].id = reg[j].id => i = j

(* Who yielded shares a reference with the one it yielded to. *)
Evident(reg) ==
  \A i \in DOMAIN reg :
    LET s == reg[i].superseded_by
    IN  s # None => MatchKeys(reg[i].refs) \cap MatchKeys(reg[s].refs) # {}

(* The holders of one reference fold to one survivor. *)
OneFamily(reg) ==
  \A i, j \in DOMAIN reg :
    MatchKeys(reg[i].refs) \cap MatchKeys(reg[j].refs) # {} => Survivor(reg, i) = Survivor(reg, j)

(* Two sightings that share a reference match each other. *)
LEMMA SharingIsMatching ==
  ASSUME NEW reg, NEW obs, NEW i \in DOMAIN reg,
         MatchKeys(reg[i].refs) \cap MatchKeys(obs.refs) # {}
  PROVE  i \in Matched(reg, obs)
BY DEF Matched

(* The comparable references of a union are those of its parts. *)
LEMMA MatchKeysOfUnion ==
  ASSUME NEW R, NEW S
  PROVE  MatchKeys(R \cup S) = MatchKeys(R) \cup MatchKeys(S)
BY DEF MatchKeys

(* The comparable references after a join. *)
KeysJoined(reg, new, t, obs) ==
  \A i \in DOMAIN reg :
    MatchKeys(new[i].refs) = MatchKeys(reg[i].refs) \cup (IF i = t THEN MatchKeys(obs.refs) ELSE {})

LEMMA JoinedKeys ==
  ASSUME NEW reg, Chained(reg), NEW new, NEW t, NEW losers, NEW obs,
         Joining(reg, new, t, losers, obs)
  PROVE  KeysJoined(reg, new, t, obs)
<1> SUFFICES ASSUME NEW i \in DOMAIN reg
             PROVE  MatchKeys(new[i].refs) =
                      MatchKeys(reg[i].refs) \cup (IF i = t THEN MatchKeys(obs.refs) ELSE {})
  BY DEF KeysJoined
<1>1. new[i].refs = IF i = t THEN reg[i].refs \cup obs.refs ELSE reg[i].refs
  <2>1. FieldsJoined(reg, new, t, losers, obs)
    BY JoinEffect
  <2> QED BY <2>1 DEF FieldsJoined
<1>2. MatchKeys(reg[i].refs \cup obs.refs) = MatchKeys(reg[i].refs) \cup MatchKeys(obs.refs)
  BY MatchKeysOfUnion
<1>3. CASE i = t
  BY <1>1, <1>2, <1>3
<1>4. CASE i # t
  BY <1>1, <1>4
<1> QED BY <1>3, <1>4

(* A join keeps each reference in one family: the survivors of all who held *)
(* one of the sighting's fold to its target.                                *)
LEMMA JoinKeepsFamilies ==
  ASSUME NEW reg, Chained(reg), OneFamily(reg), NEW new, NEW t, NEW losers, NEW obs,
         Joining(reg, new, t, losers, obs)
  PROVE  OneFamily(new)
<1> DEFINE keys(i)  == MatchKeys(reg[i].refs)
           keysn(i) == MatchKeys(new[i].refs)
<1>1. /\ DOMAIN new = DOMAIN reg
      /\ \A i \in DOMAIN reg :
           Survivor(new, i) = IF Survivor(reg, i) \in losers THEN t ELSE Survivor(reg, i)
      /\ \A i \in DOMAIN reg :
           keysn(i) = keys(i) \cup (IF i = t THEN MatchKeys(obs.refs) ELSE {})
  <2>1. /\ FieldsJoined(reg, new, t, losers, obs) /\ FamiliesJoined(reg, new, t, losers)
        /\ KeysJoined(reg, new, t, obs)
    BY JoinEffect, JoinSurvivors, JoinedKeys
  <2> QED BY <2>1 DEF FieldsJoined, FamiliesJoined, KeysJoined
<1>2. t \in DOMAIN reg /\ Survivor(reg, t) = t /\ t \notin losers
  BY SurvivorIsAlive DEF Joining, Chained
<1>3. Survivor(new, t) = t
  BY <1>1, <1>2
<1>4. ASSUME NEW j \in DOMAIN reg, keys(j) \cap MatchKeys(obs.refs) # {}
      PROVE  Survivor(new, j) = t
  <2>1. Survivor(reg, j) \in {t} \cup losers
    BY <1>4, SharingIsMatching DEF Joining
  <2> QED BY <1>1, <2>1
<1>5. ASSUME NEW i \in DOMAIN reg, NEW j \in DOMAIN reg, keysn(i) \cap keysn(j) # {}
      PROVE  Survivor(new, i) = Survivor(new, j)
  <2>1. /\ keysn(i) = keys(i) \cup (IF i = t THEN MatchKeys(obs.refs) ELSE {})
        /\ keysn(j) = keys(j) \cup (IF j = t THEN MatchKeys(obs.refs) ELSE {})
        /\ keysn(i) \cap keysn(j) # {}
    BY <1>1, <1>5
  <2>2. CASE keys(i) \cap keys(j) # {}
    <3>1. Survivor(reg, i) = Survivor(reg, j)
      BY <2>2 DEF OneFamily
    <3> QED BY <1>1, <3>1
  <2>3. CASE i = t /\ j # t /\ keys(j) \cap MatchKeys(obs.refs) # {}
    BY <1>3, <1>4, <2>3
  <2>4. CASE j = t /\ i # t /\ keys(i) \cap MatchKeys(obs.refs) # {}
    BY <1>3, <1>4, <2>4
  <2>5. CASE i = j
    BY <2>5
  <2> HIDE DEF keys, keysn
  <2> QED BY <2>1, <2>2, <2>3, <2>4, <2>5
<1> QED BY <1>1, <1>5 DEF OneFamily

(* So does a mint: nobody held a reference of the sighting. *)
LEMMA MintKeepsFamilies ==
  ASSUME NEW reg, Chained(reg), OneFamily(reg), NEW new, NEW obs, Minting(reg, new, obs)
  PROVE  OneFamily(new)
<1> DEFINE n == Len(reg)
<1>1. /\ DOMAIN reg = 1 .. n /\ n \in Nat
      /\ DOMAIN new = 1 .. n + 1
      /\ \A i \in 1 .. n : new[i] = reg[i] /\ Survivor(new, i) = Survivor(reg, i)
      /\ new[n + 1].refs = obs.refs
  <2>1. FieldsMinted(reg, new, obs) /\ FamiliesMinted(reg, new)
    BY MintEffect, MintSurvivors
  <2> QED BY <2>1 DEF Chained, Minted, FieldsMinted, FamiliesMinted
<1>2. \A i \in 1 .. n : MatchKeys(reg[i].refs) \cap MatchKeys(obs.refs) = {}
  BY <1>1, SharingIsMatching DEF Minting
<1>3. \A i \in DOMAIN new : i \in 1 .. n \/ i = n + 1
  BY <1>1
<1> HIDE DEF n
<1> QED BY <1>1, <1>2, <1>3 DEF OneFamily

(* A join merges on evidence: losers share the sighting's references. *)
LEMMA JoinKeepsEvidence ==
  ASSUME NEW reg, Chained(reg), Evident(reg), NEW new, NEW t, NEW losers, NEW obs,
         Joining(reg, new, t, losers, obs)
  PROVE  Evident(new)
<1> DEFINE keys(i)  == MatchKeys(reg[i].refs)
           keysn(i) == MatchKeys(new[i].refs)
<1>1. /\ DOMAIN new = DOMAIN reg
      /\ \A i \in DOMAIN reg : new[i].superseded_by = IF i \in losers THEN t ELSE reg[i].superseded_by
      /\ \A i \in DOMAIN reg :
           keysn(i) = keys(i) \cup (IF i = t THEN MatchKeys(obs.refs) ELSE {})
      /\ t \in DOMAIN reg
  <2>1. FieldsJoined(reg, new, t, losers, obs) /\ KeysJoined(reg, new, t, obs)
    BY JoinEffect, JoinedKeys
  <2> QED BY <2>1 DEF Joining, FieldsJoined, KeysJoined
<1>2. ASSUME NEW i \in DOMAIN reg, new[i].superseded_by # None
      PROVE  keysn(i) \cap keysn(new[i].superseded_by) # {}
  <2>1. keys(i) \subseteq keysn(i) /\ MatchKeys(obs.refs) \subseteq keysn(t)
    BY <1>1
  <2>2. CASE i \in losers
    <3>1. keys(i) \cap MatchKeys(obs.refs) # {}
      BY <2>2 DEF Joining, Matched
    <3>2. new[i].superseded_by = t
      BY <1>1, <2>2
    <3> QED BY <2>1, <3>1, <3>2
  <2>3. CASE i \notin losers
    <3> DEFINE s == reg[i].superseded_by
    <3>1. new[i].superseded_by = s /\ s # None
      BY <1>1, <1>2, <2>3
    <3>2. s \in DOMAIN reg
      BY <3>1, SupersederIsMinted
    <3>3. keys(i) \cap keys(s) # {}
      BY <3>1 DEF Evident
    <3>4. keys(s) \subseteq keysn(s)
      BY <1>1, <3>2
    <3> QED BY <2>1, <3>1, <3>3, <3>4
  <2> QED BY <2>2, <2>3
<1> QED BY <1>1, <1>2 DEF Evident

LEMMA MintKeepsEvidence ==
  ASSUME NEW reg, Chained(reg), Evident(reg), NEW new, NEW obs, Minting(reg, new, obs)
  PROVE  Evident(new)
<1> DEFINE n == Len(reg)
<1>1. /\ DOMAIN reg = 1 .. n /\ n \in Nat
      /\ DOMAIN new = 1 .. n + 1
      /\ \A i \in 1 .. n : new[i] = reg[i]
      /\ new[n + 1].superseded_by = None
  <2>1. FieldsMinted(reg, new, obs)
    BY MintEffect
  <2> QED BY <2>1 DEF Chained, Minted, FieldsMinted
<1>2. \A i \in 1 .. n : reg[i].superseded_by # None => reg[i].superseded_by \in 1 .. n
  BY <1>1, SupersederIsMinted
<1>3. \A i \in DOMAIN new : i \in 1 .. n \/ i = n + 1
  BY <1>1
<1> HIDE DEF n
<1> QED BY <1>1, <1>2, <1>3 DEF Evident

(* A join mints no id, a mint one that is free. *)
LEMMA JoinKeepsIds ==
  ASSUME NEW reg, Chained(reg), DistinctIds(reg), NEW new, NEW t, NEW losers, NEW obs,
         Joining(reg, new, t, losers, obs)
  PROVE  DistinctIds(new)
<1>1. FieldsJoined(reg, new, t, losers, obs)
  BY JoinEffect
<1> QED BY <1>1 DEF DistinctIds, FieldsJoined

LEMMA MintKeepsIds ==
  ASSUME NEW reg, Chained(reg), DistinctIds(reg), NEW new, NEW obs, Minting(reg, new, obs)
  PROVE  DistinctIds(new)
<1> DEFINE n == Len(reg)
<1>1. /\ DOMAIN reg = 1 .. n /\ n \in Nat
      /\ DOMAIN new = 1 .. n + 1
      /\ \A i \in 1 .. n : new[i] = reg[i]
      /\ new[n + 1].id = MintId(reg, obs)
  <2>1. FieldsMinted(reg, new, obs)
    BY MintEffect
  <2> QED BY <2>1 DEF Chained, Minted, FieldsMinted
<1>2. MintId(reg, obs) \notin Taken(reg)
  BY MintedIdIsFree DEF Chained, Minting
<1>3. \A i \in 1 .. n : reg[i].id # MintId(reg, obs)
  BY <1>1, <1>2 DEF Taken
<1>4. \A i \in DOMAIN new : i \in 1 .. n \/ i = n + 1
  BY <1>1
<1> HIDE DEF n
<1> QED BY <1>1, <1>3, <1>4 DEF DistinctIds
=============================================================================
