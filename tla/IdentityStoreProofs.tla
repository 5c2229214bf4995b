------------------------ MODULE IdentityStoreProofs ------------------------
(***************************************************************************)
(* What the stored registry guarantees for every value of its constants:   *)
(* any Sightings, Listings and answers, any number of Instruments, and a   *)
(* process that may die between any two commits.                           *)
(***************************************************************************)
EXTENDS MCIdentityParts, IdentityFacts

(***************************************************************************)
(* What identifying keeps                                                  *)
(***************************************************************************)

(* The registry only learns: of the Instruments it held, each is the one it *)
(* was, with no reference, Supersession or FIGI answer less.                *)
Follows(reg, new) ==
  /\ Len(reg) <= Len(new)
  /\ \A i \in DOMAIN reg :
       /\ new[i].id = reg[i].id
       /\ reg[i].refs \subseteq new[i].refs
       /\ reg[i].superseded_by # None => new[i].superseded_by = reg[i].superseded_by
       /\ reg[i].figi = Resolved => new[i].figi = Resolved

Keeps(reg, new) ==
  /\ Chained(new) /\ DistinctIds(new) /\ Follows(reg, new)
  /\ Evident(reg) => Evident(new)
  /\ OneFamily(reg) => OneFamily(new)

LEMMA StaysKeeps ==
  ASSUME NEW reg, Chained(reg), DistinctIds(reg)
  PROVE  Keeps(reg, reg)
BY DEF Keeps, Follows, Chained

LEMMA KeepsAfterKeeps ==
  ASSUME NEW reg, NEW mid, NEW new, Chained(reg), Keeps(reg, mid), Keeps(mid, new)
  PROVE  Keeps(reg, new)
<1>1. /\ DOMAIN reg = 1 .. Len(reg) /\ Len(reg) \in Nat
      /\ DOMAIN mid = 1 .. Len(mid) /\ Len(mid) \in Nat /\ Len(new) \in Nat
  BY DEF Keeps, Chained
<1>2. DOMAIN reg \subseteq DOMAIN mid
  BY <1>1 DEF Keeps, Follows
<1>3. Follows(reg, new)
  BY <1>1, <1>2 DEF Keeps, Follows
<1> QED BY <1>3 DEF Keeps

LEMMA JoinKeeps ==
  ASSUME NEW reg, Chained(reg), DistinctIds(reg), NEW new, NEW t, NEW losers, NEW obs,
         Joining(reg, new, t, losers, obs)
  PROVE  Keeps(reg, new)
<1>1. /\ FieldsJoined(reg, new, t, losers, obs)
      /\ Chained(new) /\ DistinctIds(new)
      /\ Evident(reg) => Evident(new)
      /\ OneFamily(reg) => OneFamily(new)
  BY JoinEffect, JoinSurvivors, JoinKeepsIds, JoinKeepsEvidence, JoinKeepsFamilies
<1>2. Len(reg) <= Len(new)
  BY <1>1 DEF FieldsJoined, Chained
<1>3. \A i \in DOMAIN reg : reg[i].superseded_by # None => i \notin losers
  BY DEF Joining
<1>4. Follows(reg, new)
  BY <1>1, <1>2, <1>3 DEF Follows, FieldsJoined, AbsorbedFigi, Resolved, NotAttempted
<1> QED BY <1>1, <1>4 DEF Keeps

LEMMA MintKeeps ==
  ASSUME NEW reg, Chained(reg), DistinctIds(reg), NEW new, NEW obs, Minting(reg, new, obs)
  PROVE  Keeps(reg, new)
<1>1. /\ FieldsMinted(reg, new, obs)
      /\ Chained(new) /\ DistinctIds(new)
      /\ Evident(reg) => Evident(new)
      /\ OneFamily(reg) => OneFamily(new)
  BY MintEffect, MintSurvivors, MintKeepsIds, MintKeepsEvidence, MintKeepsFamilies
<1>2. Follows(reg, new)
  BY <1>1 DEF Follows, FieldsMinted, Chained
<1> QED BY <1>1, <1>2 DEF Keeps

(* observe *)
LEMMA ObservedKeeps ==
  ASSUME NEW reg, Chained(reg), DistinctIds(reg), NEW obs \in Observation
  PROVE  Keeps(reg, Observed(reg, obs))
BY ObservedJoinsOrMints, StaysKeeps, JoinKeeps, MintKeeps

(* anchor *)
LEMMA AnchoredKeeps ==
  ASSUME NEW reg, Chained(reg), DistinctIds(reg), NEW t \in DOMAIN reg, NEW obs \in Observation
  PROVE  Keeps(reg, Anchored(reg, t, obs))
<1>1. CASE AnchorNeedsReview(reg, t, obs)
  <2>1. Anchored(reg, t, obs) = reg
    BY <1>1 DEF Anchored
  <2> QED BY <2>1, StaysKeeps
<1>2. CASE ~ AnchorNeedsReview(reg, t, obs)
  <2>1. Joining(reg, Anchored(reg, t, obs), t, {}, obs)
    BY <1>2, AnchoredJoins
  <2> QED BY <2>1, JoinKeeps
<1> QED BY <1>1, <1>2

LEMMA IdentifiedKeeps ==
  ASSUME NEW reg, Chained(reg), DistinctIds(reg), NEW obs \in Observation
  PROVE  Keeps(reg, Identified(reg, obs))
<1>1. CASE WaitingHolder(reg, obs) = {}
  <2>1. Identified(reg, obs) = Observed(reg, obs)
    BY <1>1 DEF Identified
  <2> QED BY <2>1, ObservedKeeps
<1>2. CASE WaitingHolder(reg, obs) # {}
  <2>1. PICK w \in WaitingHolder(reg, obs) : Identified(reg, obs) = Anchored(reg, w, obs)
    BY <1>2 DEF Identified
  <2>2. w \in DOMAIN reg
    BY <2>1, SurvivorIsAlive DEF WaitingHolder, Holders
  <2> QED BY <2>1, <2>2, AnchoredKeeps
<1> QED BY <1>1, <1>2

(* A coin id is of another group than the anchor FIGI, so it agrees with    *)
(* whatever the FIGI lookup brought.                                        *)
LEMMA CoinIdType ==
  ASSUME StoreAssumption, NEW obs \in Observation, NEW sighting \in WithCoinId(obs)
  PROVE  sighting \in Observation
<1>1. CASE sighting = obs
  BY <1>1
<1>2. ASSUME NEW v, obs.source = CoinSource, v \in CoinIds[obs.symbol],
             sighting = [obs EXCEPT !.refs = @ \cup {[group |-> CoinGroup, value |-> v]}]
      PROVE  sighting \in Observation
  <2> DEFINE ref == [group |-> CoinGroup, value |-> v]
  <2>1. ref \in Reference /\ ref.group # AnchorGroup
    BY <1>2 DEF StoreAssumption, Observation, Reference
  <2> HIDE DEF ref
  <2>2. sighting = [obs EXCEPT !.refs = obs.refs \cup {ref}]
    BY <1>2 DEF ref, Observation
  <2>3. ResolutionAgrees(obs.refs \cup {ref}, obs.figi)
    BY <2>1 DEF Observation, ResolutionAgrees
  <2> QED BY <2>1, <2>2, <2>3 DEF Observation
<1> QED BY <1>1, <1>2 DEF WithCoinId

(***************************************************************************)
(* A listing: the fold of observe over its Observations                    *)
(***************************************************************************)

(* The recursive equation of the fold, on the sets of at most n positions. *)
Registers(f, reg, listing, n) ==
  /\ f = [s \in SUBSET DOMAIN listing |-> f[s]]
  /\ \A s \in SUBSET DOMAIN listing : Cardinality(s) <= n =>
       f[s] = IF s = {} THEN reg ELSE Observed(f[s \ {Max(s)}], listing[Max(s)])

LEMMA LastApart ==
  ASSUME NEW listing \in Seq(Observation), NEW s \in SUBSET DOMAIN listing, s # {}
  PROVE  /\ Max(s) \in s /\ s \ {Max(s)} \in SUBSET DOMAIN listing
         /\ Cardinality(s) \in Nat /\ Cardinality(s \ {Max(s)}) \in Nat
         /\ Cardinality(s \ {Max(s)}) = Cardinality(s) - 1
<1>1. DOMAIN listing = 1 .. Len(listing) /\ Len(listing) \in Nat
  OBVIOUS
<1>2. s \in SUBSET Nat /\ \A k \in s : k <= Len(listing)
  BY <1>1
<1>3. Max(s) \in s
  BY <1>1, <1>2, MaxIsMember
<1>4. IsFiniteSet(1 .. Len(listing))
  BY <1>1, FS_Interval
<1>5. IsFiniteSet(s)
  BY <1>1, <1>4, FS_Subset
<1>6. Cardinality(s \ {Max(s)}) = Cardinality(s) - 1 /\ IsFiniteSet(s \ {Max(s)})
  BY <1>3, <1>5, FS_RemoveElement
<1> QED BY <1>3, <1>5, <1>6, FS_CardinalityType

LEMMA RegistersExist ==
  ASSUME NEW reg, NEW listing \in Seq(Observation)
  PROVE  \A n \in Nat : \E f : Registers(f, reg, listing, n)
<1> DEFINE Bad == {n \in Nat : ~ \E f : Registers(f, reg, listing, n)}
           next(f) == [s \in SUBSET DOMAIN listing |->
                         IF s = {} THEN reg ELSE Observed(f[s \ {Max(s)}], listing[Max(s)])]
<1> SUFFICES ASSUME Bad # {} PROVE FALSE
  OBVIOUS
<1>1. PICK n \in Bad : \A k \in Bad : n <= k
  <2>1. Bad \in SUBSET Nat
    OBVIOUS
  <2> HIDE DEF Bad
  <2> QED BY <2>1, LeastNat
<1>2. PICK f : n # 0 => Registers(f, reg, listing, n - 1)
  <2>1. n # 0 => n - 1 \in Nat /\ n - 1 \notin Bad
    BY <1>1
  <2> QED BY <2>1
<1>3. \A s \in SUBSET DOMAIN listing : s # {} /\ Cardinality(s) <= n =>
        next(f)[s \ {Max(s)}] = f[s \ {Max(s)}]
  <2> SUFFICES ASSUME NEW s \in SUBSET DOMAIN listing, s # {}, Cardinality(s) <= n
               PROVE  next(f)[s \ {Max(s)}] = f[s \ {Max(s)}]
    OBVIOUS
  <2> DEFINE t == s \ {Max(s)}
  <2>1. /\ t \in SUBSET DOMAIN listing /\ Cardinality(s) \in Nat /\ Cardinality(t) \in Nat
        /\ Cardinality(t) = Cardinality(s) - 1
    BY LastApart
  <2>2. n \in Nat
    BY <1>1
  <2> HIDE DEF t
  <2>3. n # 0 /\ Cardinality(t) <= n - 1
    BY <2>1, <2>2
  <2>4. f[t] = next(f)[t]
    BY <1>2, <2>1, <2>3 DEF Registers
  <2> QED BY <2>4 DEF t
<1>4. Registers(next(f), reg, listing, n)
  <2>1. /\ next(f) = [s \in SUBSET DOMAIN listing |-> next(f)[s]]
        /\ \A s \in SUBSET DOMAIN listing :
             next(f)[s] = IF s = {} THEN reg ELSE Observed(f[s \ {Max(s)}], listing[Max(s)])
    OBVIOUS
  <2> HIDE DEF next
  <2> QED BY <1>3, <2>1 DEF Registers
<1> QED BY <1>1, <1>4

(* _identify_listing keeps what each of its sightings keeps. *)
LEMMA ListingKeeps ==
  ASSUME NEW reg, Chained(reg), DistinctIds(reg), NEW listing \in Seq(Observation)
  PROVE  Keeps(reg, FoldLeft(Observed, reg, listing))
<1> DEFINE E(f) == [s \in SUBSET DOMAIN listing |->
                      IF s = {} THEN reg ELSE Observed(f[s \ {Max(s)}], listing[Max(s)])]
           after == CHOOSE f : f = E(f)
           n     == Cardinality(DOMAIN listing)
<1>1. FoldLeft(Observed, reg, listing) = after[DOMAIN listing]
  BY DEF FoldLeft, MapThenFoldSet
<1>2. n \in Nat /\ \A s \in SUBSET DOMAIN listing : Cardinality(s) \in Nat /\ Cardinality(s) <= n
  <2>1. DOMAIN listing = 1 .. Len(listing) /\ Len(listing) \in Nat
    OBVIOUS
  <2>2. IsFiniteSet(DOMAIN listing)
    BY <2>1, FS_Interval
  <2> QED BY <2>2, FS_Subset, FS_CardinalityType
<1> HIDE DEF n
<1>3. \E f : f = E(f)
  <2>1. PICK f : Registers(f, reg, listing, n)
    BY <1>2, RegistersExist
  <2>2. f = E(f)
    BY <1>2, <2>1 DEF Registers
  <2> QED BY <2>2
<1>4. after = E(after)
  BY <1>3
<1> HIDE DEF after
<1>5. \A s \in SUBSET DOMAIN listing :
        after[s] = IF s = {} THEN reg ELSE Observed(after[s \ {Max(s)}], listing[Max(s)])
  BY <1>4
<1> HIDE DEF E
<1> DEFINE Bad == {m \in Nat : \E s \in SUBSET DOMAIN listing :
                                 Cardinality(s) = m /\ ~ Keeps(reg, after[s])}
<1>6. Bad = {}
  <2> SUFFICES ASSUME Bad # {} PROVE FALSE
    OBVIOUS
  <2>1. PICK m \in Bad : \A k \in Bad : m <= k
    <3>1. Bad \in SUBSET Nat
      OBVIOUS
    <3> HIDE DEF Bad
    <3> QED BY <3>1, LeastNat
  <2>2. PICK s \in SUBSET DOMAIN listing : Cardinality(s) = m /\ ~ Keeps(reg, after[s])
    BY <2>1
  <2>3. s # {}
    BY <1>5, <2>2, StaysKeeps
  <2> DEFINE t == s \ {Max(s)}
  <2>4. /\ Max(s) \in s /\ t \in SUBSET DOMAIN listing
        /\ m \in Nat /\ Cardinality(t) \in Nat /\ Cardinality(t) = m - 1
    BY <2>2, <2>3, LastApart
  <2>5. after[s] = Observed(after[t], listing[Max(s)])
    BY <1>5, <2>3
  <2>6. listing[Max(s)] \in Observation
    BY <2>4
  <2> HIDE DEF t
  <2>7. Keeps(reg, after[t])
    <3>1. Cardinality(t) \notin Bad
      BY <2>1, <2>4
    <3> QED BY <2>4, <3>1
  <2>8. Keeps(after[t], after[s])
    BY <2>5, <2>6, <2>7, ObservedKeeps DEF Keeps
  <2> QED BY <2>2, <2>7, <2>8, KeepsAfterKeeps
<1> QED BY <1>1, <1>2, <1>6

-----------------------------------------------------------------------------
(***************************************************************************)
(* The inductive invariant                                                 *)
(***************************************************************************)

PartsAssumptions == IdentityAssumption /\ StoreAssumption

SameIds(reg, new) == \A i \in DOMAIN reg \cap DOMAIN new : reg[i].id = new[i].id

Shaped ==
  /\ lookups \in [Typists -> Observation \cup {NoLookup}]
  /\ retries \in [Retriers -> [target : Nat, registry : Seq(Instrument)]]
  /\ torn \in BOOLEAN

(* The table and the registry it is written from are registries, and speak  *)
(* of the same Instruments.                                                 *)
StoreTrue ==
  /\ Chained(rows) /\ DistinctIds(rows)
  /\ Chained(writing) /\ DistinctIds(writing)
  /\ SameIds(rows, writing)

(* What is left to commit: every Instrument the table has not, and no row   *)
(* whose FIGI answer would be lost.                                         *)
WorkList ==
  /\ unsaved = {} => writing = <<>>
  /\ unsaved \subseteq DOMAIN writing
  /\ (Len(rows) + 1) .. Len(writing) \subseteq unsaved
  /\ \A i \in unsaved \cap DOMAIN rows : rows[i].figi = Resolved => writing[i].figi = Resolved

(* What is left to commit drops nothing the table holds, unless it is of a  *)
(* retry that was overtaken.                                                *)
DropsNothing ==
  ~ overtaken =>
    \A i \in unsaved \cap DOMAIN rows :
      /\ rows[i].refs \subseteq writing[i].refs
      /\ rows[i].superseded_by # None => writing[i].superseded_by = rows[i].superseded_by

(* The registry a retry loaded is an earlier one. *)
Loaded(reg) ==
  Chained(reg) /\ DistinctIds(reg) /\ SameIds(reg, rows) /\ Len(reg) <= Len(rows)

RetriesTrue ==
  \A t \in Retriers :
    retries[t] # NoRetry =>
      Loaded(retries[t].registry) /\ retries[t].target \in DOMAIN retries[t].registry

(* Where nothing is saved from a stale registry, the rows committed so far  *)
(* are those of the registry they are written from, and the others are      *)
(* behind it.                                                               *)
Behind ==
  /\ Len(rows) <= Len(writing)
  /\ Evident(writing)
  /\ ~ torn => OneFamily(writing)
  /\ \A i \in DOMAIN rows \ unsaved : rows[i] = writing[i]
  /\ \A i \in DOMAIN rows \cap unsaved :
       /\ rows[i].refs \subseteq writing[i].refs
       /\ rows[i].superseded_by \in {None, writing[i].superseded_by}

LookupsTrue ==
  /\ Evident(rows)
  /\ unsaved = {} /\ ~ torn => OneFamily(rows)
  /\ unsaved # {} => Behind

PartsInv ==
  /\ Shaped /\ StoreTrue /\ WorkList /\ DropsNothing /\ RetriesTrue
  /\ part = "lookups" => LookupsTrue

LEMMA EmptyIsChained == Chained(<<>>) /\ DistinctIds(<<>>) /\ Evident(<<>>) /\ OneFamily(<<>>)
<1>1. DOMAIN <<>> = {}
  OBVIOUS
<1> QED BY <1>1 DEF Chained, DistinctIds, Evident, OneFamily

LEMMA NoRetryType == NoRetry \in [target : Nat, registry : Seq(Instrument)]
<1>1. <<>> \in Seq(Instrument) /\ None \in Nat
  BY DEF None
<1> QED BY <1>1 DEF NoRetry

LEMMA InitParts == PartsInit => PartsInv
<1> SUFFICES ASSUME PartsInit PROVE PartsInv
  OBVIOUS
<1>1. rows = <<>> /\ writing = <<>> /\ unsaved = {} /\ torn = FALSE
      /\ lookups = [t \in Typists |-> NoLookup] /\ retries = [t \in Retriers |-> NoRetry]
  BY DEF PartsInit, Init
<1>2. Shaped
  BY <1>1, NoRetryType DEF Shaped
<1>3. StoreTrue /\ WorkList /\ DropsNothing /\ LookupsTrue
  BY <1>1, EmptyIsChained DEF StoreTrue, WorkList, DropsNothing, SameIds, LookupsTrue
<1>4. RetriesTrue
  BY <1>1 DEF RetriesTrue
<1> QED BY <1>2, <1>3, <1>4 DEF PartsInv

-----------------------------------------------------------------------------
(***************************************************************************)
(* Identifying against the rows as they are                                *)
(***************************************************************************)

(* What is saved of a registry the rows were brought forward to. *)
LEMMA SaveKeeps ==
  ASSUME PartsInv, unsaved = {}, NEW reg, Keeps(rows, reg), SaveChanges(reg)
  PROVE  StoreTrue' /\ WorkList' /\ DropsNothing' /\ (part = "lookups" => LookupsTrue')
<1>1. /\ rows' = rows /\ torn' = torn
      /\ unsaved' = Changed(reg) /\ writing' = IF Changed(reg) = {} THEN <<>> ELSE reg
  BY DEF SaveChanges, Save
<1>2. /\ DOMAIN rows = 1 .. Len(rows) /\ Len(rows) \in Nat
      /\ DOMAIN reg = 1 .. Len(reg) /\ Len(reg) \in Nat
      /\ Chained(reg) /\ DistinctIds(reg) /\ Follows(rows, reg)
      /\ Chained(rows) /\ DistinctIds(rows)
  BY DEF PartsInv, StoreTrue, Chained, Keeps
<1>3. CASE Changed(reg) = {}
  <2>1. DOMAIN <<>> = {} /\ Len(<<>>) = 0 /\ (Len(rows) + 1) .. 0 = {}
    BY <1>2
  <2>2. StoreTrue' /\ WorkList'
    BY <1>1, <1>2, <1>3, <2>1, EmptyIsChained DEF StoreTrue, WorkList, SameIds
  <2> QED BY <1>1, <1>3, <2>2 DEF PartsInv, DropsNothing, LookupsTrue
<1>4. CASE Changed(reg) # {}
  <2>1. writing' = reg /\ unsaved' # {}
    BY <1>1, <1>4
  <2>2. StoreTrue'
    BY <1>1, <1>2, <2>1 DEF StoreTrue, SameIds, Follows
  <2>3. WorkList'
    <3>1. Changed(reg) \subseteq DOMAIN reg /\ (Len(rows) + 1) .. Len(reg) \subseteq Changed(reg)
      BY <1>2 DEF Changed
    <3> QED BY <1>1, <1>2, <2>1, <3>1 DEF WorkList, Follows
  <2>4. DropsNothing'
    BY <1>1, <1>2, <2>1 DEF DropsNothing, Follows
  <2>5. ASSUME part = "lookups" PROVE LookupsTrue'
    <3>1. Evident(rows) /\ (~ torn => OneFamily(rows))
      BY <2>5 DEF PartsInv, LookupsTrue
    <3>2. Evident(reg) /\ (~ torn => OneFamily(reg))
      BY <3>1 DEF Keeps
    <3>3. /\ \A i \in DOMAIN rows \ Changed(reg) : rows[i] = reg[i]
          /\ \A i \in DOMAIN rows \cap Changed(reg) :
               /\ rows[i].refs \subseteq reg[i].refs
               /\ rows[i].superseded_by \in {None, reg[i].superseded_by}
      BY <1>2 DEF Changed, Follows
    <3>4. Behind'
      BY <1>1, <1>2, <2>1, <3>2, <3>3 DEF Behind, Follows
    <3> QED BY <1>1, <2>1, <3>1, <3>4 DEF LookupsTrue
  <2> QED BY <2>2, <2>3, <2>4, <2>5
<1> QED BY <1>3, <1>4

LEMMA IdentifyTypedKeeps ==
  ASSUME PartsAssumptions, PartsInv, IdentifyTyped, UNCHANGED part
  PROVE  PartsInv'
<1>1. PICK obs \in Sightings : \E sighting \in WithCoinId(obs) : SaveChanges(Identified(rows, sighting))
  BY DEF IdentifyTyped
<1>2. PICK sighting \in WithCoinId(obs) : SaveChanges(Identified(rows, sighting))
  BY <1>1
<1>3. sighting \in Observation
  BY CoinIdType DEF PartsAssumptions, StoreAssumption
<1>4. Keeps(rows, Identified(rows, sighting))
  BY <1>3, IdentifiedKeeps DEF PartsInv, StoreTrue
<1>5. StoreTrue' /\ WorkList' /\ DropsNothing' /\ (part = "lookups" => LookupsTrue')
  BY <1>2, <1>4, SaveKeeps DEF IdentifyTyped
<1>6. UNCHANGED <<rows, lookups, retries, torn>>
  BY <1>2 DEF IdentifyTyped, SaveChanges, Save
<1> QED BY <1>5, <1>6 DEF PartsInv, Shaped, RetriesTrue, Loaded

LEMMA IdentifyListingKeeps ==
  ASSUME PartsAssumptions, PartsInv, IdentifyListing, UNCHANGED part
  PROVE  PartsInv'
<1>1. PICK listing \in Listings : SaveChanges(FoldLeft(Observed, rows, listing))
  BY DEF IdentifyListing
<1>2. listing \in Seq(Observation)
  BY DEF PartsAssumptions, StoreAssumption
<1>3. Keeps(rows, FoldLeft(Observed, rows, listing))
  BY <1>2, ListingKeeps DEF PartsInv, StoreTrue
<1>4. StoreTrue' /\ WorkList' /\ DropsNothing' /\ (part = "lookups" => LookupsTrue')
  BY <1>1, <1>3, SaveKeeps DEF IdentifyListing
<1>5. UNCHANGED <<rows, lookups, retries, torn>>
  BY <1>1 DEF IdentifyListing, SaveChanges, Save
<1> QED BY <1>4, <1>5 DEF PartsInv, Shaped, RetriesTrue, Loaded

LEMMA AskForCoinKeeps ==
  ASSUME PartsAssumptions, PartsInv, NEW t \in Typists, AskForCoin(t), UNCHANGED part
  PROVE  PartsInv'
<1>1. PICK obs \in Sightings : lookups' = [lookups EXCEPT ![t] = obs]
  BY DEF AskForCoin
<1>2. UNCHANGED <<rows, writing, unsaved, retries, torn>> /\ unsaved = {}
  BY DEF AskForCoin
<1>3. Shaped'
  BY <1>1, <1>2 DEF PartsInv, Shaped, PartsAssumptions, StoreAssumption
<1>4. StoreTrue' /\ WorkList' /\ DropsNothing' /\ RetriesTrue'
  BY <1>2 DEF PartsInv, StoreTrue, WorkList, DropsNothing, RetriesTrue, Loaded
<1>5. part = "lookups" => LookupsTrue'
  BY <1>2 DEF PartsInv, LookupsTrue, Behind
<1> QED BY <1>3, <1>4, <1>5 DEF PartsInv

LEMMA CoinAnsweredKeeps ==
  ASSUME PartsAssumptions, PartsInv, NEW t \in Typists, CoinAnswered(t), UNCHANGED part
  PROVE  PartsInv'
<1>1. PICK sighting \in WithCoinId(lookups[t]) : SaveChanges(Identified(rows, sighting))
  BY DEF CoinAnswered
<1>2. lookups[t] \in Observation
  BY DEF CoinAnswered, PartsInv, Shaped
<1>3. sighting \in Observation
  BY <1>2, CoinIdType DEF PartsAssumptions
<1>4. Keeps(rows, Identified(rows, sighting))
  BY <1>3, IdentifiedKeeps DEF PartsInv, StoreTrue
<1>5. StoreTrue' /\ WorkList' /\ DropsNothing' /\ (part = "lookups" => LookupsTrue')
  BY <1>1, <1>4, SaveKeeps DEF CoinAnswered
<1>6. UNCHANGED <<rows, retries, torn>> /\ lookups' = [lookups EXCEPT ![t] = NoLookup]
  BY <1>1 DEF CoinAnswered, SaveChanges, Save
<1>7. Shaped'
  BY <1>6 DEF PartsInv, Shaped
<1> QED BY <1>5, <1>6, <1>7 DEF PartsInv, RetriesTrue, Loaded

-----------------------------------------------------------------------------
(***************************************************************************)
(* Retries                                                                 *)
(***************************************************************************)

LEMMA StartRetryKeeps ==
  ASSUME PartsInv, NEW t \in Retriers, StartRetry(t), UNCHANGED part
  PROVE  PartsInv'
<1>1. PICK i \in DOMAIN rows : retries' = [retries EXCEPT ![t] = [target |-> i, registry |-> rows]]
  BY DEF StartRetry
<1>2. UNCHANGED <<rows, writing, unsaved, lookups, torn>> /\ unsaved = {}
  BY DEF StartRetry
<1>3. Chained(rows) /\ DistinctIds(rows) /\ i \in Nat /\ rows \in Seq(Instrument)
  BY DEF PartsInv, StoreTrue, Chained
<1>4. Shaped'
  BY <1>1, <1>2, <1>3 DEF PartsInv, Shaped
<1>5. StoreTrue' /\ WorkList' /\ DropsNothing' /\ (part = "lookups" => LookupsTrue')
  BY <1>2 DEF PartsInv, StoreTrue, WorkList, DropsNothing, LookupsTrue, Behind
<1>6. RetriesTrue'
  <2>1. Loaded(rows)
    BY <1>3 DEF Loaded, SameIds
  <2>2. ASSUME NEW u \in Retriers, retries'[u] # NoRetry
        PROVE  (Loaded(retries[u].registry) /\ retries[u].target \in DOMAIN retries[u].registry)'
    <3>1. CASE u = t
      <4>1. retries'[u] = [target |-> i, registry |-> rows]
        BY <1>1, <3>1 DEF PartsInv, Shaped
      <4> QED BY <1>2, <2>1, <4>1 DEF Loaded
    <3>2. CASE u # t
      <4>1. retries'[u] = retries[u]
        BY <1>1, <3>2 DEF PartsInv, Shaped
      <4> QED BY <1>2, <2>2, <4>1 DEF PartsInv, RetriesTrue, Loaded
    <3> QED BY <3>1, <3>2
  <2> QED BY <1>2, <2>2 DEF RetriesTrue, Loaded
<1> QED BY <1>4, <1>5, <1>6 DEF PartsInv

LEMMA MissRetryKeeps ==
  ASSUME PartsInv, NEW t \in Retriers, MissRetry(t), UNCHANGED part
  PROVE  PartsInv'
<1>1. /\ UNCHANGED <<rows, writing, unsaved, lookups, torn>> /\ unsaved = {}
      /\ retries' = [retries EXCEPT ![t] = NoRetry]
  BY DEF MissRetry
<1>2. NoRetry \in [target : Nat, registry : Seq(Instrument)]
  BY NoRetryType
<1>3. Shaped' /\ RetriesTrue'
  BY <1>1, <1>2 DEF PartsInv, Shaped, RetriesTrue, Loaded
<1>4. StoreTrue' /\ WorkList' /\ DropsNothing' /\ (part = "lookups" => LookupsTrue')
  BY <1>1 DEF PartsInv, StoreTrue, WorkList, DropsNothing, LookupsTrue, Behind
<1> QED BY <1>3, <1>4 DEF PartsInv

(* A hit on the registry as it was loaded: the target's row is saved, its   *)
(* FIGI answer in it, whatever else the registry has missed since; and if   *)
(* the row is as it was loaded, it only gains.                              *)
LEMMA AnswerRetryKeeps ==
  ASSUME PartsAssumptions, PartsInv, NEW t \in Retriers, AnswerRetry(t),
         part = "retries", UNCHANGED part, overtaken' = Overtaken(t)
  PROVE  PartsInv'
<1> DEFINE reg    == retries[t].registry
           target == retries[t].target
<1>1. PICK refs \in FigiAnswers, day \in Dates :
        LET obs == RetryObservation(reg[target], day, refs)
        IN  Save(Anchored(reg, target, obs), IF AnchorNeedsReview(reg, target, obs) THEN {} ELSE {target})
  BY DEF AnswerRetry
<1> DEFINE obs == RetryObservation(reg[target], day, refs)
           new == Anchored(reg, target, obs)
<1>2. Loaded(reg) /\ target \in DOMAIN reg
  BY DEF AnswerRetry, PartsInv, RetriesTrue
<1>3. reg[target] \in Instrument
  BY <1>2 DEF Loaded, Chained
<1>4. ~ overtaken' => rows[target] = reg[target]
  BY DEF Overtaken
<1> HIDE DEF reg, target
<1>5. obs \in Observation /\ obs.figi = Resolved
  <2>1. refs \in SUBSET Reference /\ ResolutionAgrees(refs, Resolved)
    BY DEF PartsAssumptions, StoreAssumption
  <2>2. /\ reg[target].kind \in Kinds /\ reg[target].symbol \in Symbols
        /\ IdentitySource[reg[target].kind] \in Sources
    BY <1>3 DEF Instrument, PartsAssumptions, IdentityAssumption
  <2> QED BY <2>1, <2>2 DEF RetryObservation, Observation, FigiResolution
<1>6. Keeps(reg, new)
  BY <1>2, <1>5, AnchoredKeeps DEF Loaded
<1>7. Len(new) = Len(reg) /\ DOMAIN new = DOMAIN reg /\ Chained(new)
  <2>1. DOMAIN new = DOMAIN reg
    BY DEF Anchored, AbsorbAt
  <2>2. Chained(reg) /\ Chained(new)
    BY <1>2, <1>6 DEF Keeps, Loaded
  <2>3. /\ DOMAIN reg = 1 .. Len(reg) /\ Len(reg) \in Nat
        /\ DOMAIN new = 1 .. Len(new) /\ Len(new) \in Nat
    BY <2>2 DEF Chained
  <2> HIDE DEF new
  <2> QED BY <2>1, <2>2, <2>3
<1>8. ~ AnchorNeedsReview(reg, target, obs) => new[target].figi = Resolved
  <2> SUFFICES ASSUME ~ AnchorNeedsReview(reg, target, obs)
               PROVE  new[target].figi = Resolved
    OBVIOUS
  <2>1. Joining(reg, new, target, {}, obs)
    BY <1>2, <1>5, AnchoredJoins
  <2>2. FieldsJoined(reg, new, target, {}, obs)
    BY <1>2, <2>1, JoinEffect DEF Loaded
  <2> QED BY <1>2, <1>5, <2>2 DEF FieldsJoined, AbsorbedFigi
<1>9. \/ unsaved' = {} /\ writing' = <<>>
      \/ unsaved' = {target} /\ writing' = new /\ new[target].figi = Resolved
  BY <1>1, <1>8 DEF Save
<1>10. rows' = rows /\ torn' = torn /\ lookups' = lookups /\ retries' = [retries EXCEPT ![t] = NoRetry]
  BY <1>1 DEF AnswerRetry, Save
<1> HIDE DEF new, obs
<1>11. Chained(rows) /\ DistinctIds(rows) /\ Len(rows) \in Nat /\ Len(reg) \in Nat
  BY <1>2 DEF PartsInv, StoreTrue, Loaded, Chained
<1>12. SameIds(rows, new)
  BY <1>2, <1>6, <1>7 DEF Keeps, Follows, Loaded, SameIds
<1>13. StoreTrue' /\ WorkList'
  <2>1. CASE unsaved' = {} /\ writing' = <<>>
    <3>1. DOMAIN <<>> = {} /\ Len(<<>>) = 0 /\ (Len(rows) + 1) .. 0 = {}
      BY <1>11
    <3> QED BY <1>10, <1>11, <2>1, <3>1, EmptyIsChained DEF StoreTrue, WorkList, SameIds
  <2>2. CASE unsaved' = {target} /\ writing' = new /\ new[target].figi = Resolved
    <3>1. (Len(rows) + 1) .. Len(new) = {}
      BY <1>2, <1>7, <1>11 DEF Loaded
    <3>2. StoreTrue'
      BY <1>6, <1>10, <1>11, <1>12, <2>2 DEF StoreTrue, Keeps, SameIds
    <3> QED BY <1>2, <1>7, <1>10, <2>2, <3>1, <3>2 DEF WorkList
  <2> QED BY <1>9, <2>1, <2>2
<1>14. DropsNothing'
  BY <1>2, <1>4, <1>6, <1>9, <1>10 DEF DropsNothing, Keeps, Follows
<1>15. Shaped' /\ RetriesTrue'
  BY <1>10, NoRetryType DEF PartsInv, Shaped, RetriesTrue, Loaded
<1> QED BY <1>10, <1>13, <1>14, <1>15 DEF PartsInv

-----------------------------------------------------------------------------
(***************************************************************************)
(* Commits and crashes                                                     *)
(***************************************************************************)

(* The row committed next is of the registry being saved, and of no         *)
(* Instrument whose elder is still to be stored.                            *)
Committing(i) ==
  /\ i \in unsaved /\ \A k \in unsaved : i <= k
  /\ i \in DOMAIN writing /\ i \in Nat \ {0} /\ i <= Len(rows) + 1
  /\ i \notin DOMAIN rows => i = Len(rows) + 1
  /\ unsaved' = unsaved \ {i}
  /\ writing' = IF unsaved' = {} THEN <<>> ELSE writing
  /\ rows' \in Seq(Instrument)
  /\ Len(rows') = IF i \in DOMAIN rows THEN Len(rows) ELSE Len(rows) + 1
  /\ DOMAIN rows' = DOMAIN rows \cup {i}
  /\ \A k \in DOMAIN rows' : rows'[k] = IF k = i THEN writing[i] ELSE rows[k]

LEMMA CommitIs ==
  ASSUME PartsInv, Commit
  PROVE  Committing(NextSaved)
<1> DEFINE i == NextSaved
<1>1. /\ DOMAIN writing = 1 .. Len(writing) /\ Len(writing) \in Nat
      /\ DOMAIN rows = 1 .. Len(rows) /\ Len(rows) \in Nat
      /\ rows \in Seq(Instrument) /\ writing \in Seq(Instrument)
  BY DEF PartsInv, StoreTrue, Chained
<1>2. /\ unsaved \subseteq DOMAIN writing /\ (Len(rows) + 1) .. Len(writing) \subseteq unsaved
      /\ unsaved # {}
  BY DEF PartsInv, WorkList, Commit
<1>3. i \in unsaved /\ \A k \in unsaved : i <= k
  BY <1>1, <1>2, MinIsMember DEF NextSaved
<1>4. /\ rows' = IF i \in DOMAIN rows THEN [rows EXCEPT ![i] = writing[i]]
                 ELSE Append(rows, writing[i])
      /\ unsaved' = unsaved \ {i}
      /\ writing' = IF unsaved' = {} THEN <<>> ELSE writing
  BY DEF Commit
<1> HIDE DEF i
<1>5. i \in DOMAIN writing /\ i \in Nat \ {0} /\ writing[i] \in Instrument
  BY <1>1, <1>2, <1>3
<1>6. i \notin DOMAIN rows => i = Len(rows) + 1
  <2> SUFFICES ASSUME i \notin DOMAIN rows PROVE i = Len(rows) + 1
    OBVIOUS
  <2>1. Len(rows) + 1 <= i /\ i <= Len(writing)
    BY <1>1, <1>5
  <2>2. Len(rows) + 1 \in unsaved
    <3>1. Len(rows) + 1 \in (Len(rows) + 1) .. Len(writing)
      BY <1>1, <1>5, <2>1
    <3> QED BY <1>2, <3>1
  <2> QED BY <1>1, <1>3, <1>5, <2>1, <2>2
<1>7. CASE i \in DOMAIN rows
  <2>1. rows' = [rows EXCEPT ![i] = writing[i]]
    BY <1>4, <1>7
  <2>2. rows' \in Seq(Instrument) /\ Len(rows') = Len(rows) /\ DOMAIN rows' = DOMAIN rows
    BY <1>1, <1>5, <1>7, <2>1
  <2>3. \A k \in DOMAIN rows' : rows'[k] = IF k = i THEN writing[i] ELSE rows[k]
    BY <1>7, <2>1
  <2> QED BY <1>1, <1>3, <1>4, <1>5, <1>7, <2>2, <2>3 DEF Committing, i
<1>8. CASE i \notin DOMAIN rows
  <2>1. rows' = Append(rows, writing[i]) /\ i = Len(rows) + 1
    BY <1>4, <1>6, <1>8
  <2>2. rows' \in Seq(Instrument) /\ Len(rows') = Len(rows) + 1
    BY <1>1, <1>5, <2>1
  <2>3. DOMAIN rows' = DOMAIN rows \cup {i}
    BY <1>1, <2>1, <2>2
  <2>4. \A k \in DOMAIN rows' : rows'[k] = IF k = i THEN writing[i] ELSE rows[k]
    BY <1>1, <1>5, <2>1, <2>3
  <2> QED BY <1>1, <1>3, <1>4, <1>5, <1>6, <1>8, <2>2, <2>3, <2>4 DEF Committing, i
<1> QED BY <1>7, <1>8

LEMMA CommitKeepsStore ==
  ASSUME PartsInv, Commit
  PROVE  /\ Chained(rows') /\ DistinctIds(rows') /\ SameIds(rows', writing) /\ SameIds(rows, rows')
         /\ StoreTrue' /\ WorkList'
<1> DEFINE i == NextSaved
<1>1. Committing(i)
  BY CommitIs
<1> HIDE DEF i
<1>2. /\ Chained(rows) /\ DistinctIds(rows) /\ Chained(writing) /\ DistinctIds(writing)
      /\ SameIds(rows, writing)
      /\ DOMAIN writing = 1 .. Len(writing) /\ Len(writing) \in Nat
      /\ DOMAIN rows = 1 .. Len(rows) /\ Len(rows) \in Nat
  BY DEF PartsInv, StoreTrue, Chained
<1>3. DOMAIN rows' = 1 .. Len(rows') /\ Len(rows') \in Nat
  BY <1>1 DEF Committing
<1>4. Chained(rows')
  BY <1>1, <1>2 DEF Committing, Chained
<1>5. SameIds(rows', writing) /\ SameIds(rows, rows')
  BY <1>1, <1>2 DEF Committing, SameIds
<1>6. DistinctIds(rows')
  <2>1. ASSUME NEW k \in DOMAIN rows', k # i, rows'[k].id = writing[i].id
        PROVE  FALSE
    <3>1. k \in DOMAIN rows /\ rows'[k] = rows[k] /\ i \in DOMAIN writing
      BY <1>1, <2>1 DEF Committing
    <3>2. CASE k \in DOMAIN writing
      <4>1. writing[k].id = writing[i].id
        BY <1>2, <2>1, <3>1, <3>2 DEF SameIds
      <4> QED BY <1>2, <2>1, <3>1, <3>2, <4>1 DEF DistinctIds
    <3>3. CASE k \notin DOMAIN writing
      <4>1. i \in DOMAIN rows
        BY <1>1, <1>2, <3>1, <3>3
      <4>2. rows[k].id = rows[i].id
        BY <1>2, <2>1, <3>1, <4>1 DEF SameIds
      <4> QED BY <1>2, <2>1, <3>1, <4>1, <4>2 DEF DistinctIds
    <3> QED BY <3>2, <3>3
  <2>2. /\ \A k \in DOMAIN rows' : rows'[k] = IF k = i THEN writing[i] ELSE rows[k]
        /\ DOMAIN rows' = DOMAIN rows \cup {i}
    BY <1>1 DEF Committing
  <2> QED BY <1>2, <2>1, <2>2 DEF DistinctIds
<1>7. DOMAIN <<>> = {} /\ Len(<<>>) = 0 /\ (Len(rows') + 1) .. 0 = {}
  BY <1>3
<1>8. StoreTrue'
  BY <1>1, <1>2, <1>4, <1>5, <1>6, <1>7, EmptyIsChained DEF Committing, StoreTrue, SameIds
<1>9. WorkList'
  <2>1. (Len(rows') + 1) .. Len(writing) \subseteq unsaved'
    <3>1. \A k \in (Len(rows') + 1) .. Len(writing) : k \in (Len(rows) + 1) .. Len(writing) /\ k # i
      BY <1>1, <1>2, <1>3 DEF Committing
    <3> QED BY <1>1, <3>1 DEF Committing, PartsInv, WorkList
  <2>2. unsaved' \subseteq DOMAIN writing
    BY <1>1 DEF Committing, PartsInv, WorkList
  <2>3. \A k \in unsaved' \cap DOMAIN rows' : rows'[k].figi = Resolved => writing[k].figi = Resolved
    BY <1>1 DEF Committing, PartsInv, WorkList
  <2> QED BY <1>1, <1>7, <2>1, <2>2, <2>3 DEF Committing, WorkList
<1> QED BY <1>4, <1>5, <1>6, <1>8, <1>9

(* A loser's survivor is committed before it, so evidence is never ahead of *)
(* the rows; and the last commit leaves the registry that was saved.        *)
LEMMA CommitKeepsLookups ==
  ASSUME PartsInv, Commit, LookupsTrue
  PROVE  LookupsTrue'
<1> DEFINE i == NextSaved
<1>1. Committing(i) /\ torn' = torn
  BY CommitIs DEF Commit
<1> HIDE DEF i
<1>2. /\ Chained(rows) /\ Chained(writing) /\ Chained(rows')
      /\ DOMAIN writing = 1 .. Len(writing) /\ Len(writing) \in Nat
      /\ DOMAIN rows = 1 .. Len(rows) /\ Len(rows) \in Nat
      /\ DOMAIN rows' = 1 .. Len(rows') /\ Len(rows') \in Nat
  BY CommitKeepsStore DEF PartsInv, StoreTrue, Chained
<1>3. Behind /\ Evident(rows)
  BY <1>1 DEF Committing, LookupsTrue
<1>4. \A k \in DOMAIN writing : k \notin unsaved => k \in DOMAIN rows /\ rows[k] = writing[k]
  <2>1. (Len(rows) + 1) .. Len(writing) \subseteq unsaved
    BY DEF PartsInv, WorkList
  <2>2. \A k \in DOMAIN writing : k \notin unsaved => k \in DOMAIN rows
    BY <1>2, <2>1
  <2> QED BY <1>3, <2>2 DEF Behind
<1>5. \A k \in DOMAIN rows : rows[k].refs \subseteq rows'[k].refs
  BY <1>1, <1>3 DEF Committing, Behind
<1>6. Evident(rows')
  <2> SUFFICES ASSUME NEW k \in DOMAIN rows', rows'[k].superseded_by # None
               PROVE  MatchKeys(rows'[k].refs)
                        \cap MatchKeys(rows'[rows'[k].superseded_by].refs) # {}
    BY DEF Evident
  <2> DEFINE s == rows'[k].superseded_by
  <2>1. s \in DOMAIN rows' /\ s < k
    BY <1>2, SupersederIsMinted DEF Chained
  <2>2. CASE k = i
    <3>1. rows'[k] = writing[i] /\ i \in DOMAIN writing
      BY <1>1, <2>2 DEF Committing
    <3>2. s \in DOMAIN writing /\ MatchKeys(writing[i].refs) \cap MatchKeys(writing[s].refs) # {}
      BY <1>2, <1>3, <3>1, SupersederIsMinted DEF Behind, Evident
    <3>3. s \notin unsaved /\ s # i
      BY <1>1, <1>2, <2>1, <2>2, <3>2 DEF Committing
    <3>4. rows'[s] = writing[s]
      BY <1>1, <1>4, <2>1, <3>2, <3>3 DEF Committing
    <3> QED BY <3>1, <3>2, <3>4
  <2>3. CASE k # i
    <3>1. k \in DOMAIN rows /\ rows'[k] = rows[k]
      BY <1>1, <2>3 DEF Committing
    <3>2. s \in DOMAIN rows /\ MatchKeys(rows[k].refs) \cap MatchKeys(rows[s].refs) # {}
      BY <1>2, <1>3, <3>1, SupersederIsMinted DEF Evident
    <3>3. MatchKeys(rows[s].refs) \subseteq MatchKeys(rows'[s].refs)
      BY <1>5, <3>2 DEF MatchKeys
    <3> QED BY <3>1, <3>2, <3>3
  <2> QED BY <2>2, <2>3
<1>7. CASE unsaved' = {}
  <2>1. unsaved = {i}
    BY <1>1, <1>7 DEF Committing
  <2>2. DOMAIN rows' = DOMAIN writing
    <3>1. \A k \in DOMAIN writing : k \in DOMAIN rows'
      BY <1>1, <1>4, <2>1 DEF Committing
    <3>2. \A k \in DOMAIN rows' : k \in DOMAIN writing
      BY <1>1, <1>2, <1>3 DEF Committing, Behind
    <3> QED BY <3>1, <3>2
  <2>3. \A k \in DOMAIN writing : rows'[k] = writing[k]
    BY <1>1, <1>4, <2>1, <2>2 DEF Committing
  <2>4. rows' = writing
    <3>1. /\ rows' = [k \in DOMAIN rows' |-> rows'[k]]
          /\ writing = [k \in DOMAIN writing |-> writing[k]]
      BY <1>2 DEF Chained
    <3> QED BY <2>2, <2>3, <3>1
  <2> QED BY <1>1, <1>3, <1>6, <1>7, <2>4 DEF LookupsTrue, Behind
<1>8. CASE unsaved' # {}
  <2>1. writing' = writing
    BY <1>1, <1>8 DEF Committing
  <2>2. Len(rows') <= Len(writing)
    BY <1>1, <1>2, <1>3 DEF Committing, Behind
  <2>3. \A k \in DOMAIN rows' \ unsaved' : rows'[k] = writing[k]
    BY <1>1, <1>3 DEF Committing, Behind
  <2>4. \A k \in DOMAIN rows' \cap unsaved' :
          /\ rows'[k].refs \subseteq writing[k].refs
          /\ rows'[k].superseded_by \in {None, writing[k].superseded_by}
    BY <1>1, <1>3 DEF Committing, Behind
  <2>5. Behind'
    BY <1>1, <1>3, <2>1, <2>2, <2>3, <2>4 DEF Behind
  <2> QED BY <1>6, <1>8, <2>5 DEF LookupsTrue
<1> QED BY <1>7, <1>8

LEMMA CommitKeepsLength ==
  ASSUME PartsInv, Commit
  PROVE  /\ DOMAIN rows \subseteq DOMAIN rows'
         /\ \A reg : Loaded(reg) => Len(reg) <= Len(rows') /\ DOMAIN reg \subseteq DOMAIN rows
<1>1. /\ DOMAIN rows = 1 .. Len(rows) /\ Len(rows) \in Nat
      /\ DOMAIN rows' = 1 .. Len(rows') /\ Len(rows') \in Nat
  BY CommitKeepsStore DEF PartsInv, StoreTrue, Chained
<1>2. Len(rows') = Len(rows) \/ Len(rows') = Len(rows) + 1
  BY CommitIs DEF Committing
<1>3. Len(rows) <= Len(rows')
  <2>1. ASSUME NEW m \in Nat, NEW n \in Nat, n = m \/ n = m + 1
        PROVE  m <= n
    BY <2>1
  <2> QED BY <1>1, <1>2, <2>1
<1> QED BY <1>1, <1>3 DEF Loaded, Chained

LEMMA CommitKeeps ==
  ASSUME PartsInv, Commit, UNCHANGED part, ~ overtaken' => ~ overtaken \/ unsaved' = {}
  PROVE  PartsInv'
<1>1. StoreTrue' /\ WorkList' /\ SameIds(rows, rows') /\ Chained(rows) /\ Chained(rows')
  BY CommitKeepsStore DEF PartsInv, StoreTrue
<1>2. UNCHANGED <<lookups, retries, torn>>
  BY DEF Commit
<1>3. Shaped'
  BY <1>2 DEF PartsInv, Shaped
<1>4. part = "lookups" => LookupsTrue'
  BY CommitKeepsLookups DEF PartsInv
<1>5. RetriesTrue'
  <2>1. DOMAIN rows \subseteq DOMAIN rows'
    BY CommitKeepsLength
  <2>2. ASSUME NEW reg, Loaded(reg) PROVE Loaded(reg)'
    <3>1. Len(reg) <= Len(rows')
      BY <2>2, CommitKeepsLength
    <3>2. SameIds(reg, rows')
      BY <1>1, <2>1, <2>2, CommitKeepsLength DEF SameIds, Loaded
    <3> QED BY <2>2, <3>1, <3>2 DEF Loaded
  <2>3. ASSUME NEW t \in Retriers, retries[t] # NoRetry
        PROVE  Loaded(retries[t].registry)' /\ retries[t].target \in DOMAIN retries[t].registry
    BY <1>2, <2>2, <2>3 DEF PartsInv, RetriesTrue
  <2> QED BY <1>2, <2>3 DEF RetriesTrue
<1>6. DropsNothing'
  <2>1. ASSUME ~ overtaken', NEW k \in unsaved' \cap DOMAIN rows'
        PROVE  /\ rows'[k].refs \subseteq writing'[k].refs
               /\ rows'[k].superseded_by # None
                    => writing'[k].superseded_by = rows'[k].superseded_by
    <3>1. ~ overtaken
      BY <2>1
    <3>2. k \in unsaved /\ k \in DOMAIN rows /\ rows'[k] = rows[k] /\ writing' = writing
      BY <2>1, CommitIs DEF Committing
    <3> QED BY <3>1, <3>2 DEF PartsInv, DropsNothing
  <2> QED BY <2>1 DEF DropsNothing
<1> QED BY <1>1, <1>2, <1>3, <1>4, <1>5, <1>6 DEF PartsInv

(* A crash that leaves no merge half written leaves the families of the     *)
(* registry that was being saved, as far as it was stored.                  *)
LEMMA CrashKeepsFamilies ==
  ASSUME PartsInv, Behind, ~ \E i \in unsaved : writing[i].superseded_by # None, OneFamily(writing)
  PROVE  OneFamily(rows)
<1>1. /\ Chained(rows) /\ Chained(writing)
      /\ DOMAIN writing = 1 .. Len(writing) /\ Len(writing) \in Nat
      /\ DOMAIN rows = 1 .. Len(rows) /\ Len(rows) \in Nat
      /\ DOMAIN rows \subseteq DOMAIN writing
  BY DEF PartsInv, StoreTrue, Chained, Behind
<1>2. \A k \in DOMAIN rows : /\ rows[k].superseded_by = writing[k].superseded_by
                             /\ rows[k].refs \subseteq writing[k].refs
  BY DEF Behind
<1>3. \A k \in DOMAIN rows : Survivor(rows, k) = Survivor(writing, k)
  <2> DEFINE n == Len(rows)
             g == [k \in 1 .. n |-> Fold(Links(writing))[k]]
  <2>1. WellLinked(Links(rows), n) /\ WellLinked(Links(writing), Len(writing))
    BY <1>1, LinksAreWellLinked
  <2>2. IsFold(Fold(Links(writing)), Links(writing), Len(writing))
    BY <2>1, FoldEquation
  <2>3. \A k \in 1 .. n : Links(rows)[k] = Links(writing)[k] /\ k \in 1 .. Len(writing)
    BY <1>1, <1>2 DEF Links
  <2>4. IsFold(g, Links(rows), n)
    <3>1. ASSUME NEW k \in 1 .. n, Links(rows)[k] # None
          PROVE  Links(rows)[k] \in 1 .. n
      BY <1>1, <2>1, <3>1 DEF WellLinked, None
    <3>2. \A k \in 1 .. n : g[k] = Fold(Links(writing))[k]
      OBVIOUS
    <3> HIDE DEF g
    <3> QED BY <2>2, <2>3, <3>1, <3>2 DEF IsFold
  <2> HIDE DEF g
  <2>5. \A k \in 1 .. n : Fold(Links(rows))[k] = g[k]
    BY <2>1, <2>4, FoldUnique
  <2> QED BY <1>1, <2>5 DEF g, Survivor
<1>4. \A k \in DOMAIN rows : MatchKeys(rows[k].refs) \subseteq MatchKeys(writing[k].refs)
  BY <1>2 DEF MatchKeys
<1> QED BY <1>1, <1>3, <1>4 DEF OneFamily

LEMMA CrashKeeps ==
  ASSUME PartsInv, Crash, UNCHANGED part
  PROVE  PartsInv'
<1>1. /\ rows' = rows /\ writing' = <<>> /\ unsaved' = {}
      /\ lookups' = [t \in Typists |-> NoLookup] /\ retries' = [t \in Retriers |-> NoRetry]
      /\ torn' = (torn \/ \E i \in unsaved : writing[i].superseded_by # None)
      /\ unsaved # {}
  BY DEF Crash
<1>2. Shaped' /\ RetriesTrue'
  BY <1>1, NoRetryType DEF PartsInv, Shaped, RetriesTrue
<1>3. StoreTrue' /\ WorkList' /\ DropsNothing'
  <2>1. DOMAIN <<>> = {} /\ Len(<<>>) = 0 /\ (Len(rows) + 1) .. 0 = {}
    BY DEF PartsInv, StoreTrue, Chained
  <2> QED BY <1>1, <2>1, EmptyIsChained DEF PartsInv, StoreTrue, WorkList, DropsNothing, SameIds
<1>4. ASSUME part = "lookups" PROVE LookupsTrue'
  <2>1. Evident(rows) /\ Behind
    BY <1>1, <1>4 DEF PartsInv, LookupsTrue
  <2>2. ASSUME ~ torn' PROVE OneFamily(rows)
    BY <1>1, <2>1, <2>2, CrashKeepsFamilies DEF Behind
  <2> QED BY <1>1, <2>1, <2>2 DEF LookupsTrue
<1> QED BY <1>1, <1>2, <1>3, <1>4 DEF PartsInv

-----------------------------------------------------------------------------
(***************************************************************************)
(* Every step                                                              *)
(***************************************************************************)

LEMMA PartsStutter ==
  ASSUME PartsInv, UNCHANGED partsVars
  PROVE  PartsInv'
<1>1. UNCHANGED <<rows, writing, unsaved, lookups, retries, torn, part, overtaken>>
  BY DEF partsVars, vars
<1>2. Shaped' /\ StoreTrue' /\ WorkList' /\ DropsNothing' /\ RetriesTrue'
  BY <1>1 DEF PartsInv, Shaped, StoreTrue, WorkList, DropsNothing, RetriesTrue, Loaded
<1>3. part = "lookups" => LookupsTrue'
  BY <1>1 DEF PartsInv, LookupsTrue, Behind
<1> QED BY <1>1, <1>2, <1>3 DEF PartsInv

LEMMA NextParts ==
  ASSUME PartsAssumptions, PartsInv, [PartsNext]_partsVars
  PROVE  PartsInv'
<1>1. CASE Commit /\ UNCHANGED part /\ overtaken' = (overtaken /\ unsaved' # {})
  BY <1>1, CommitKeeps
<1>2. CASE Crash /\ UNCHANGED part
  BY <1>2, CrashKeeps
<1>3. CASE IdentifyTyped /\ UNCHANGED part
  BY <1>3, IdentifyTypedKeeps
<1>4. CASE IdentifyListing /\ UNCHANGED part
  BY <1>4, IdentifyListingKeeps
<1>5. ASSUME NEW t \in Typists, Awaits("lookups"), AskForCoin(t) \/ CoinAnswered(t)
      PROVE  PartsInv'
  BY <1>5, AskForCoinKeeps, CoinAnsweredKeeps DEF Awaits
<1>6. ASSUME NEW t \in Retriers, Awaits("retries"), StartRetry(t) \/ MissRetry(t)
      PROVE  PartsInv'
  BY <1>6, StartRetryKeeps, MissRetryKeeps DEF Awaits
<1>7. ASSUME NEW t \in Retriers, Awaits("retries"), AnswerRetry(t), overtaken' = Overtaken(t)
      PROVE  PartsInv'
  BY <1>7, AnswerRetryKeeps DEF Awaits
<1>8. CASE UNCHANGED partsVars
  BY <1>8, PartsStutter
<1> QED BY <1>1, <1>2, <1>3, <1>4, <1>5, <1>6, <1>7, <1>8 DEF PartsNext, InOrderNext

(* A step writes no row but the one it commits. *)
LEMMA RowsChangeByCommit ==
  ASSUME [PartsNext]_partsVars
  PROVE  (Commit /\ part' = part) \/ rows' = rows
<1>1. ASSUME NEW t \in Typists, AskForCoin(t) \/ CoinAnswered(t)
      PROVE  rows' = rows
  BY <1>1 DEF AskForCoin, CoinAnswered, SaveChanges, Save
<1>2. ASSUME NEW t \in Retriers, StartRetry(t) \/ AnswerRetry(t) \/ MissRetry(t)
      PROVE  rows' = rows
  BY <1>2 DEF StartRetry, AnswerRetry, MissRetry, Save
<1> QED BY <1>1, <1>2 DEF PartsNext, InOrderNext, Crash, IdentifyTyped, IdentifyListing,
                          SaveChanges, Save, partsVars, vars

-----------------------------------------------------------------------------
(***************************************************************************)
(* Theorems                                                                *)
(***************************************************************************)

(* The invariant holds of every table the code can leave behind. *)
LEMMA PartsInvariance == PartsAssumptions => (PartsSpec => []PartsInv)
<1> SUFFICES ASSUME PartsAssumptions PROVE PartsSpec => []PartsInv
  OBVIOUS
<1>1. PartsInv /\ [PartsNext]_partsVars => PartsInv'
  BY NextParts
<1> QED BY <1>1, InitParts, PTL DEF PartsSpec

LEMMA PartsAssumed == PartsAssumptions
BY IdentityAssumption, StoreAssumption DEF PartsAssumptions

(* Instrument Ids stay the key of the table, and the table a registry,      *)
(* whatever a crash left behind and however stale the registry a retry      *)
(* saved from.                                                              *)
THEOREM TableStaysTyped == PartsSpec => []TypeOK
<1>1. ASSUME PartsInv PROVE TypeOK
  <2>1. /\ rows \in Seq(Instrument) /\ writing \in Seq(Instrument) /\ unsaved \subseteq DOMAIN writing
        /\ \A i, j \in DOMAIN rows : rows[i].id = rows[j].id => i = j
    BY <1>1 DEF PartsInv, StoreTrue, WorkList, Chained, DistinctIds
  <2>2. /\ \A t \in Typists : lookups[t] \in Observation \/ lookups[t] = NoLookup
        /\ torn \in BOOLEAN
    BY <1>1 DEF PartsInv, Shaped
  <2>3. ASSUME NEW t \in Retriers
        PROVE  /\ retries[t].registry \in Seq(Instrument)
               /\ retries[t].target \in 0 .. Len(retries[t].registry)
    <3>1. retries[t] \in [target : Nat, registry : Seq(Instrument)]
      BY <1>1 DEF PartsInv, Shaped
    <3>2. CASE retries[t] = NoRetry
      <4>1. retries[t].target = 0 /\ Len(retries[t].registry) = 0
        BY <3>2 DEF NoRetry, None
      <4> QED BY <3>1, <4>1
    <3>3. CASE retries[t] # NoRetry
      BY <1>1, <3>1, <3>3 DEF PartsInv, RetriesTrue
    <3> QED BY <3>2, <3>3
  <2> QED BY <2>1, <2>2, <2>3 DEF TypeOK
<1>2. PartsInv => TypeOK
  BY <1>1
<1> QED BY <1>2, PartsAssumed, PartsInvariance, PTL

(* However a merge is cut short, no chain of stored Supersessions cycles,   *)
(* dangles or merges without evidence.                                      *)
THEOREM StoredSupersessionsFold == PartsSpec => []LookupsFold
<1>1. PartsInv => LookupsFold
  BY DEF PartsInv, StoreTrue, Chained, LookupsTrue, Evident, LookupsFold, SupersessionsFold
<1> QED BY <1>1, PartsAssumed, PartsInvariance, PTL

(* Between operations one reference names one surviving Instrument, however *)
(* many crashes cut a listing or a mint short.                              *)
THEOREM StoredFamiliesStayWhole == PartsSpec => []LookupsKeepFamilies
<1>1. PartsInv => LookupsKeepFamilies
  BY DEF PartsInv, LookupsTrue, OneFamily, LookupsKeepFamilies, OneFamilyUnlessTorn
<1> QED BY <1>1, PartsAssumed, PartsInvariance, PTL

(* What one step may do to the rows that are stored. *)
Stands ==
  \A i \in DOMAIN rows :
    /\ rows[i].figi = Resolved => rows'[i].figi = Resolved
    /\ ~ overtaken =>
         /\ rows[i].refs \subseteq rows'[i].refs
         /\ rows[i].superseded_by # None => rows'[i].superseded_by = rows[i].superseded_by

LEMMA StepStands ==
  ASSUME PartsInv, [PartsNext]_partsVars
  PROVE  Stands
<1>1. CASE rows' = rows
  BY <1>1 DEF Stands
<1>2. CASE Commit
  <2>1. Committing(NextSaved)
    BY <1>2, CommitIs
  <2>2. \A i \in DOMAIN rows : rows[i].figi = Resolved => rows'[i].figi = Resolved
    BY <2>1 DEF Committing, PartsInv, WorkList
  <2>3. ASSUME ~ overtaken
        PROVE  \A i \in DOMAIN rows :
                 /\ rows[i].refs \subseteq rows'[i].refs
                 /\ rows[i].superseded_by # None => rows'[i].superseded_by = rows[i].superseded_by
    BY <2>1, <2>3 DEF Committing, PartsInv, DropsNothing
  <2> QED BY <2>2, <2>3 DEF Stands
<1> QED BY <1>1, <1>2, RowsChangeByCommit

(* No miss, outage, crash, sighting or retry takes a reference, an answered *)
(* FIGI or a Supersession of a stored Instrument back, but for the one save *)
(* of a retry whose target's row changed while it awaited: that one keeps   *)
(* the resolution alone.                                                    *)
THEOREM AnswersStand == PartsSpec => StoredAnswersStand
<1>1. PartsInv /\ [PartsNext]_partsVars => [Stands]_partsVars
  BY StepStands
<1> QED BY <1>1, PartsAssumed, PartsInvariance, PTL DEF PartsSpec, StoredAnswersStand, Stands
=============================================================================
