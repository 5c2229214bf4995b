---------------------- MODULE InstrumentRegistryProofs ----------------------
(***************************************************************************)
(* What InstrumentRegistry guarantees for every value of its constants:    *)
(* any Observations, in any order, any number of times.                    *)
(***************************************************************************)
EXTENDS InstrumentRegistry, IdentityFacts

Linked == TypeOK /\ EarlierSurvives

(* The registry as one whose joins and mints IdentityFacts describes. *)
LEMMA LinkedIsChained == Linked <=> Chained(instruments)
BY DEF Linked, TypeOK, EarlierSurvives, Chained

(***************************************************************************)
(* What a step does.  Whatever tier identifies an Observation, it joins    *)
(* one survivor, which may supersede others; or it is minted.              *)
(***************************************************************************)

Joins(t, losers, obs) ==
  obs \in Observations /\ Joining(instruments, instruments', t, losers, obs)

Mints(obs) ==
  obs \in Observations /\ Minting(instruments, instruments', obs)

(* Every step of the registry is a join or a mint. *)
LEMMA NextJoinsOrMints ==
  ASSUME Linked, Next
  PROVE  \E obs \in Observations :
           Mints(obs) \/ \E t, losers : Joins(t, losers, obs)
<1>1. PICK obs \in Observations :
        Observe(obs) \/ \E t \in DOMAIN instruments : Anchor(t, obs)
  BY DEF Next
<1>2. obs \in Observation /\ Chained(instruments)
  BY RegistryAssumption, LinkedIsChained
<1>3. CASE MatchByReference(obs) \/ Supersede(obs)
  <2>1. /\ Matched(instruments, obs) # {}
        /\ ~ MatchNeedsReview(instruments, obs)
        /\ instruments' = JoinByReference(instruments, obs)
    BY <1>3 DEF MatchByReference, Supersede
  <2> QED BY <1>2, <2>1, ReferenceMatchJoins DEF Joins
<1>4. CASE MatchBySymbol(obs)
  <2>1. PICK i \in SymbolMatches(instruments, obs) :
          instruments' = AbsorbAt(instruments, i, obs)
    BY <1>4 DEF MatchBySymbol
  <2>2. /\ i \in DOMAIN instruments /\ instruments[i].superseded_by = None
        /\ ~ Conflict(obs.refs, instruments[i].refs)
    BY DEF SymbolMatches
  <2>3. AliveMatches(instruments, obs) \ {i} = {}
    BY <1>4 DEF MatchBySymbol, AliveMatches
  <2>4. Joins(i, {}, obs)
    BY <1>2, <2>1, <2>2, <2>3, AbsorbAtJoins DEF Joins
  <2> QED BY <2>4
<1>5. CASE Mint(obs)
  BY <1>2, <1>5 DEF Mint, Mints, Minting
<1>6. ASSUME NEW t \in DOMAIN instruments, Anchor(t, obs)
      PROVE  Joins(t, {}, obs)
  <2>1. /\ instruments[t].superseded_by = None
        /\ ~ Conflict(obs.refs, instruments[t].refs)
        /\ AliveMatches(instruments, obs) \ {t} = {}
        /\ instruments' = AbsorbAt(instruments, t, obs)
    BY <1>6 DEF Anchor, AnchorNeedsReview
  <2> QED BY <1>2, <2>1, AbsorbAtJoins DEF Joins
<1> QED BY <1>1, <1>3, <1>4, <1>5, <1>6 DEF Observe

(* A join only adds references. *)
LEMMA JoinKeepsReferences ==
  ASSUME Linked, NEW t, NEW losers, NEW obs, Joins(t, losers, obs)
  PROVE  \A i \in DOMAIN instruments :
           /\ instruments[i].refs \subseteq instruments'[i].refs
           /\ instruments[i].id = instruments'[i].id
<1>1. FieldsJoined(instruments, instruments', t, losers, obs)
  BY LinkedIsChained, JoinEffect DEF Joins
<1> QED BY <1>1 DEF FieldsJoined

(* A join moves one chain at most: the target's at the sighting's source.  *)
LEMMA JoinHistories ==
  ASSUME Linked, NEW t, NEW losers, NEW obs, Joins(t, losers, obs)
  PROVE  \A i \in DOMAIN instruments, s \in Sources :
           LET chain == instruments[i].ticker_history[s]
           IN  instruments'[i].ticker_history[s] =
                 IF i = t /\ s = obs.source /\ Renames(chain, obs)
                 THEN Recorded(chain, obs) ELSE chain
<1> SUFFICES ASSUME NEW i \in DOMAIN instruments, NEW s \in Sources
             PROVE  LET chain == instruments[i].ticker_history[s]
                    IN  instruments'[i].ticker_history[s] =
                          IF i = t /\ s = obs.source /\ Renames(chain, obs)
                          THEN Recorded(chain, obs) ELSE chain
  OBVIOUS
<1>1. instruments[i] \in Instrument /\ obs \in Observation
  BY RegistryAssumption DEF Joins, Joining, Linked, TypeOK
<1>2. CASE i = t
  <2>1. instruments'[i] = Absorb(instruments[i], obs)
    BY <1>2 DEF Joins, Joining
  <2> QED BY <1>1, <1>2, <2>1, AbsorbType
<1>3. CASE i # t /\ i \in losers
  <2>1. instruments'[i] = [instruments[i] EXCEPT !.superseded_by = t]
    BY <1>3 DEF Joins, Joining
  <2> QED BY <1>1, <1>3, <2>1 DEF Instrument
<1>4. CASE i # t /\ i \notin losers
  <2>1. instruments'[i] = instruments[i]
    BY <1>4 DEF Joins, Joining
  <2> QED BY <1>4, <2>1
<1> QED BY <1>2, <1>3, <1>4

-----------------------------------------------------------------------------
(***************************************************************************)
(* The inductive invariant                                                 *)
(***************************************************************************)

Inv ==
  /\ Linked
  /\ IdsAreUnique
  /\ OneFamilyPerReference
  /\ MergedOnEvidence
  /\ OneValuePerGroup
  /\ ResolvedMeansAnchored
  /\ HistoryIsAChain

(* Recording a rename closes the current record where the new one opens. *)
LEMMA RecordedAdjoins ==
  ASSUME NEW chain \in Seq(TickerRecord), NEW obs \in Observation,
         Adjoining(chain), Renames(chain, obs)
  PROVE  Adjoining(Recorded(chain, obs))
<1> DEFINE n      == Len(chain)
           opened == [symbol |-> obs.symbol, from |-> obs.at, to |-> Open]
           closed == [chain EXCEPT ![n].to = obs.at]
<1>1. CASE chain = <<>>
  <2>1. Recorded(chain, obs) = <<opened>>
    BY <1>1 DEF Recorded
  <2> QED BY <2>1 DEF Adjoining
<1>2. CASE chain # <<>>
  <2>1. n \in Nat \ {0} /\ DOMAIN chain = 1 .. n
    BY <1>2
  <2>2. /\ closed \in Seq([symbol : Symbols, from : Dates, to : Dates \cup {Open}])
        /\ Len(closed) = n
        /\ \A k \in 1 .. n : closed[k].from = chain[k].from
        /\ \A k \in 1 .. n : k # n => closed[k].to = chain[k].to
        /\ closed[n].to = obs.at
    <3>1. obs.at \in Dates
      BY DEF Observation
    <3>2. \A k \in 1 .. n : chain[k] \in TickerRecord
      BY <2>1
    <3>3. [chain[n] EXCEPT !.to = obs.at] \in TickerRecord
      BY <2>1, <3>1, <3>2 DEF TickerRecord
    <3>4. closed \in Seq(TickerRecord)
      BY <2>1, <3>3
    <3> QED BY <2>1, <3>2, <3>4 DEF TickerRecord
  <2>3. Recorded(chain, obs) = Append(closed, opened)
    BY <1>2 DEF Recorded
  <2> HIDE DEF closed
  <2>4. /\ DOMAIN Append(closed, opened) = 1 .. n + 1
        /\ Len(Append(closed, opened)) = n + 1
        /\ \A k \in 1 .. n : Append(closed, opened)[k] = closed[k]
        /\ Append(closed, opened)[n + 1] = opened
    <3> DEFINE T == [symbol : Symbols, from : Dates, to : Dates \cup {Open}]
    <3>1. opened \in T
      BY DEF Observation
    <3>2. closed \in Seq(T) /\ Len(closed) = n /\ n \in Nat
      BY <2>1, <2>2
    <3> HIDE DEF T, n, opened
    <3> QED BY <3>1, <3>2
  <2>5. \A k \in 1 .. n : k # n => /\ chain[k].to = chain[k + 1].from
                                 /\ chain[k].from <= chain[k].to
    BY <2>1 DEF Adjoining
  <2>6. chain[n].from <= obs.at
    BY <1>2 DEF Renames
  <2> HIDE DEF n
  <2>7. ASSUME NEW k \in 1 .. n + 1, k # n + 1
        PROVE  LET c == Append(closed, opened)
               IN  c[k].to = c[k + 1].from /\ c[k].from <= c[k].to
    <3>1. k \in 1 .. n /\ (k # n => k + 1 \in 1 .. n)
      BY <2>1, <2>7
    <3>2. CASE k = n
      BY <2>2, <2>4, <2>6, <3>1, <3>2
    <3>3. CASE k # n
      BY <2>2, <2>4, <2>5, <3>1, <3>3
    <3> QED BY <3>2, <3>3
  <2> QED BY <2>3, <2>4, <2>7 DEF Adjoining
<1> QED BY <1>1, <1>2

(* The empty registry satisfies the invariant. *)
LEMMA InitInv == Init => Inv
<1> SUFFICES ASSUME Init PROVE Inv
  OBVIOUS
<1>1. instruments = <<>> /\ DOMAIN instruments = {}
  BY DEF Init
<1>2. TypeOK
  BY <1>1 DEF TypeOK
<1> QED BY <1>1, <1>2 DEF Inv, Linked, EarlierSurvives, IdsAreUnique, OneFamilyPerReference,
      MergedOnEvidence, OneValuePerGroup, ResolvedMeansAnchored, HistoryIsAChain

(* Joining keeps two values of a group apart: what the sighting adds the    *)
(* target either held or held nothing like.                                 *)
LEMMA UnionHasOneValueEach ==
  ASSUME NEW R, NEW S, OneValueEach(R), OneValueEach(S), ~ Conflict(S, R)
  PROVE  OneValueEach(R \cup S)
<1> SUFFICES ASSUME NEW r \in MatchKeys(R \cup S), NEW s \in MatchKeys(R \cup S),
                    r.group = s.group
             PROVE  r.value = s.value
  BY DEF OneValueEach
<1>1. ASSUME NEW x \in MatchKeys(R), NEW y \in MatchKeys(S), x.group = y.group
      PROVE  x.value = y.value
  <2>1. y.group \in MatchGroups /\ x.group \in MatchGroups /\ x \in R /\ y \in S
    BY DEF MatchKeys
  <2>2. y.value \in GroupValues(S, y.group) /\ x.value \in GroupValues(R, y.group)
    BY <1>1, <2>1 DEF GroupValues
  <2>3. x.value \in GroupValues(S, y.group)
    BY <2>1, <2>2 DEF Conflict
  <2>4. PICK z \in S : z.group = y.group /\ z.value = x.value
    BY <2>3 DEF GroupValues
  <2>5. z \in MatchKeys(S)
    BY <2>1, <2>4 DEF MatchKeys
  <2> QED BY <2>4, <2>5 DEF OneValueEach
<1>2. \A x, y \in MatchKeys(R) : x.group = y.group => x.value = y.value
  BY DEF OneValueEach
<1>3. \A x, y \in MatchKeys(S) : x.group = y.group => x.value = y.value
  BY DEF OneValueEach
<1> QED BY <1>1, <1>2, <1>3, MatchKeysOfUnion

(* Absorbing keeps the FIGI outcome in step with the references. *)
LEMMA AbsorbedResolutionAgrees ==
  ASSUME NEW inst \in Instrument, NEW obs \in Observation,
         ResolutionAgrees(inst.refs, inst.figi)
  PROVE  ResolutionAgrees(inst.refs \cup obs.refs, AbsorbedFigi(inst, obs))
<1>1. ResolutionAgrees(obs.refs, obs.figi)
  BY DEF Observation
<1> QED BY <1>1 DEF ResolutionAgrees, AbsorbedFigi, Resolved, NotAttempted

(* A join, with or without a Supersession, keeps the invariant. *)
LEMMA JoinKeepsInv ==
  ASSUME Inv, NEW t, NEW losers, NEW obs, Joins(t, losers, obs)
  PROVE  Inv'
<1> DEFINE refs(i)  == instruments[i].refs
           refsn(i) == instruments'[i].refs
<1>1. /\ Linked /\ Chained(instruments) /\ t \in DOMAIN instruments
      /\ Joining(instruments, instruments', t, losers, obs)
  BY LinkedIsChained DEF Inv, Joins, Joining
<1>2. Chained(instruments') /\ Linked'
  <2>1. Chained(instruments')
    BY <1>1, JoinSurvivors
  <2> QED BY <2>1 DEF Chained, Linked, TypeOK, EarlierSurvives
<1>3. /\ DOMAIN instruments' = DOMAIN instruments
      /\ \A i \in DOMAIN instruments :
           /\ refsn(i) = IF i = t THEN refs(i) \cup obs.refs ELSE refs(i)
           /\ instruments'[i].figi =
                IF i = t THEN AbsorbedFigi(instruments[i], obs) ELSE instruments[i].figi
  <2>1. FieldsJoined(instruments, instruments', t, losers, obs)
    BY <1>1, JoinEffect
  <2> QED BY <2>1 DEF FieldsJoined
<1>4. IdsAreUnique'
  BY <1>1, JoinKeepsIds DEF Inv, IdsAreUnique, DistinctIds
<1>5. OneFamilyPerReference'
  BY <1>1, JoinKeepsFamilies DEF Inv, OneFamilyPerReference, OneFamily
<1>6. MergedOnEvidence'
  BY <1>1, JoinKeepsEvidence DEF Inv, MergedOnEvidence, Evident
<1>7. OneValuePerGroup'
  <2>1. OneValueEach(obs.refs) /\ ~ Conflict(obs.refs, refs(t))
    BY <1>1, RegistryAssumption DEF Joins, Joining
  <2>2. \A i \in DOMAIN instruments : OneValueEach(refs(i))
    BY DEF Inv, OneValuePerGroup
  <2>3. OneValueEach(refs(t) \cup obs.refs)
    BY <1>1, <2>1, <2>2, UnionHasOneValueEach
  <2> QED BY <1>3, <2>2, <2>3 DEF OneValuePerGroup
<1>8. ResolvedMeansAnchored'
  <2>1. /\ obs \in Observation /\ instruments[t] \in Instrument
        /\ ResolutionAgrees(refs(t), instruments[t].figi)
    BY <1>1, RegistryAssumption DEF Joins, Joining, Linked, TypeOK, Inv, ResolvedMeansAnchored
  <2>2. ResolutionAgrees(refs(t) \cup obs.refs, AbsorbedFigi(instruments[t], obs))
    BY <2>1, AbsorbedResolutionAgrees
  <2> QED BY <1>3, <2>2 DEF Inv, ResolvedMeansAnchored
<1>9. HistoryIsAChain'
  <2>1. ASSUME NEW i \in DOMAIN instruments, NEW s \in Sources
        PROVE  Adjoining(instruments'[i].ticker_history[s])
    <3> DEFINE chain == instruments[i].ticker_history[s]
    <3>1. instruments[i] \in Instrument /\ obs \in Observation
      BY <1>1, RegistryAssumption DEF Joins, Joining, Linked, TypeOK
    <3>2. chain \in Seq(TickerRecord)
      BY <3>1 DEF Instrument
    <3>3. Adjoining(chain)
      BY DEF Inv, HistoryIsAChain
    <3>4. \/ instruments'[i].ticker_history[s] = chain
          \/ /\ Renames(chain, obs)
             /\ instruments'[i].ticker_history[s] = Recorded(chain, obs)
      BY <1>1, JoinHistories
    <3> HIDE DEF chain
    <3> QED BY <3>1, <3>2, <3>3, <3>4, RecordedAdjoins
  <2> QED BY <1>3, <2>1 DEF HistoryIsAChain
<1> QED BY <1>2, <1>4, <1>5, <1>6, <1>7, <1>8, <1>9 DEF Inv, Linked

(* A mint keeps the invariant. *)
LEMMA MintKeepsInv ==
  ASSUME Inv, NEW obs, Mints(obs)
  PROVE  Inv'
<1> DEFINE n      == Len(instruments)
           minted == Minted(instruments, obs)
<1>1. /\ Linked /\ Chained(instruments) /\ DOMAIN instruments = 1 .. n /\ n \in Nat
      /\ obs \in Observation /\ Minting(instruments, instruments', obs)
  BY LinkedIsChained DEF Inv, Linked, TypeOK, Mints, Minting
<1>2. Chained(instruments') /\ Linked'
  <2>1. Chained(instruments')
    BY <1>1, MintSurvivors
  <2> QED BY <2>1 DEF Chained, Linked, TypeOK, EarlierSurvives
<1>3. /\ DOMAIN instruments' = 1 .. n + 1
      /\ \A i \in 1 .. n : instruments'[i] = instruments[i]
      /\ instruments'[n + 1] = minted
  <2>1. FieldsMinted(instruments, instruments', obs)
    BY <1>1, MintEffect
  <2> QED BY <1>1, <2>1 DEF FieldsMinted
<1>4. minted.refs = obs.refs /\ minted.figi = obs.figi
  BY DEF Minted
<1>5. \A i \in DOMAIN instruments' : i \in 1 .. n \/ i = n + 1
  BY <1>1, <1>3
<1> HIDE DEF n, minted
<1>6. IdsAreUnique'
  BY <1>1, MintKeepsIds DEF Inv, IdsAreUnique, DistinctIds
<1>7. OneFamilyPerReference'
  BY <1>1, MintKeepsFamilies DEF Inv, OneFamilyPerReference, OneFamily
<1>8. MergedOnEvidence'
  BY <1>1, MintKeepsEvidence DEF Inv, MergedOnEvidence, Evident
<1>9. OneValuePerGroup'
  <2>1. OneValueEach(obs.refs)
    BY RegistryAssumption DEF Mints
  <2> QED BY <1>1, <1>3, <1>4, <1>5, <2>1 DEF Inv, OneValuePerGroup
<1>10. ResolvedMeansAnchored'
  <2>1. ResolutionAgrees(obs.refs, obs.figi)
    BY <1>1 DEF Observation
  <2> QED BY <1>1, <1>3, <1>4, <1>5, <2>1 DEF Inv, ResolvedMeansAnchored
<1>11. HistoryIsAChain'
  <2>1. Adjoining(<<>>) /\ <<>> \in Seq(TickerRecord)
    BY DEF Adjoining
  <2>2. Adjoining(Recorded(<<>>, obs))
    BY <1>1, <2>1, RecordedAdjoins DEF Renames
  <2>3. \A s \in Sources : Adjoining(minted.ticker_history[s])
    BY <2>1, <2>2 DEF minted, Minted
  <2> QED BY <1>1, <1>3, <1>5, <2>3 DEF Inv, HistoryIsAChain
<1> QED BY <1>2, <1>6, <1>7, <1>8, <1>9, <1>10, <1>11 DEF Inv, Linked

(* So does every step, a stutter included. *)
LEMMA NextInv == Inv /\ [Next]_vars => Inv'
<1> SUFFICES ASSUME Inv, [Next]_vars PROVE Inv'
  OBVIOUS
<1>1. CASE Next
  <2>1. PICK obs \in Observations : Mints(obs) \/ \E t, losers : Joins(t, losers, obs)
    BY <1>1, NextJoinsOrMints DEF Inv
  <2> QED BY <2>1, JoinKeepsInv, MintKeepsInv
<1>2. CASE UNCHANGED vars
  <2>1. instruments' = instruments
    BY <1>2 DEF vars
  <2>2. Linked' /\ IdsAreUnique' /\ OneValuePerGroup' /\ ResolvedMeansAnchored'
    BY <2>1 DEF Inv, Linked, TypeOK, EarlierSurvives, IdsAreUnique, OneValuePerGroup,
        ResolvedMeansAnchored
  <2>3. OneFamilyPerReference'
    BY <2>1 DEF Inv, OneFamilyPerReference
  <2>4. MergedOnEvidence'
    BY <2>1 DEF Inv, MergedOnEvidence
  <2>5. HistoryIsAChain'
    BY <2>1 DEF Inv, HistoryIsAChain
  <2> QED BY <2>2, <2>3, <2>4, <2>5 DEF Inv
<1> QED BY <1>1, <1>2

-----------------------------------------------------------------------------
(***************************************************************************)
(* Theorems                                                                *)
(***************************************************************************)

(* The invariant holds of every registry the code can reach. *)
THEOREM Invariance == Spec => []Inv
BY InitInv, NextInv, PTL DEF Spec

(* Every Instrument the registry holds is well formed. *)
THEOREM TypeCorrect == Spec => []TypeOK
<1>1. Inv => TypeOK
  BY DEF Inv, Linked
<1> QED BY <1>1, Invariance, PTL

(* SupersessionCycle is never raised: whatever arrives, a Supersession      *)
(* points to an Instrument minted earlier.                                  *)
THEOREM ChainsEnd == Spec => []EarlierSurvives
<1>1. Inv => EarlierSurvives
  BY DEF Inv, Linked
<1> QED BY <1>1, Invariance, PTL

(* _mint_id never hands out an id twice, whoever was superseded since. *)
THEOREM IdsStayUnique == Spec => []IdsAreUnique
<1>1. Inv => IdsAreUnique
  BY DEF Inv
<1> QED BY <1>1, Invariance, PTL

(* However sightings are interleaved, the holders of one reference fold to  *)
(* one survivor.                                                            *)
THEOREM ReferencesNameOneFamily == Spec => []OneFamilyPerReference
<1>1. Inv => OneFamilyPerReference
  BY DEF Inv
<1> QED BY <1>1, Invariance, PTL

(* A symbol alone never merges two Instruments. *)
THEOREM MergesRestOnEvidence == Spec => []MergedOnEvidence
<1>1. Inv => MergedOnEvidence
  BY DEF Inv
<1> QED BY <1>1, Invariance, PTL

(* The conflict checks of observe and anchor together keep contradicting    *)
(* references apart.                                                        *)
THEOREM EvidenceIsConsistent == Spec => []OneValuePerGroup
<1>1. Inv => OneValuePerGroup
  BY DEF Inv
<1> QED BY <1>1, Invariance, PTL

(* The unresolved queue is exactly the survivors without an anchor FIGI. *)
THEOREM ResolutionIsAnchored == Spec => []ResolvedMeansAnchored
<1>1. Inv => ResolvedMeansAnchored
  BY DEF Inv
<1> QED BY <1>1, Invariance, PTL

(* However sightings are reordered, what a source reported of an Instrument *)
(* is one chain of adjoining stretches.                                     *)
THEOREM HistoryStaysAChain == Spec => []HistoryIsAChain
<1>1. Inv => HistoryIsAChain
  BY DEF Inv
<1> QED BY <1>1, Invariance, PTL

(* Nothing the registry learns later separates what it has identified. *)
THEOREM FamiliesNeverSplit == Spec => FamiliesOnlyGrow
<1> DEFINE Grows ==
      \A i, j \in DOMAIN instruments :
        /\ Survivor(instruments, i) = Survivor(instruments, j)
             => Survivor(instruments', i) = Survivor(instruments', j)
        /\ instruments[i].refs \subseteq instruments'[i].refs
        /\ instruments[i].id = instruments'[i].id
<1>1. ASSUME Inv, Next
      PROVE  Grows
  <2>1. Linked
    BY <1>1 DEF Inv
  <2>2. PICK obs \in Observations : Mints(obs) \/ \E t, losers : Joins(t, losers, obs)
    BY <1>1, <2>1, NextJoinsOrMints
  <2>3. CASE Mints(obs)
    <3>1. FieldsMinted(instruments, instruments', obs) /\ FamiliesMinted(instruments, instruments')
      BY <2>1, <2>3, LinkedIsChained, MintEffect, MintSurvivors DEF Mints
    <3> QED BY <3>1 DEF FieldsMinted, FamiliesMinted
  <2>4. ASSUME NEW t, NEW losers, Joins(t, losers, obs)
        PROVE  Grows
    <3>1. \A i \in DOMAIN instruments : /\ instruments[i].refs \subseteq instruments'[i].refs
                                           /\ instruments[i].id = instruments'[i].id
      BY <2>1, <2>4, JoinKeepsReferences
    <3>2. \A i \in DOMAIN instruments :
            Survivor(instruments', i) =
              IF Survivor(instruments, i) \in losers THEN t ELSE Survivor(instruments, i)
      BY <2>1, <2>4, LinkedIsChained, JoinSurvivors DEF Joins, FamiliesJoined
    <3> QED BY <3>1, <3>2
  <2> QED BY <2>2, <2>3, <2>4
<1>2. Inv /\ [Next]_vars => [Grows]_vars
  BY <1>1
<1> QED BY <1>2, Invariance, PTL DEF Spec, FamiliesOnlyGrow
=============================================================================
