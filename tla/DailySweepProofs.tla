-------------------------- MODULE DailySweepProofs --------------------------
(***************************************************************************)
(* What DailySweep guarantees for any number of universes, coins, sweeps   *)
(* and edits: the order of the Runs, their band and their prices, and what *)
(* of it no step takes back.                                               *)
(***************************************************************************)
EXTENDS DailySweep, TLAPS

Phases == {"at rest", "waiting", "listing", "evaluating"}
Roles  == {Inclusion, Exclusion}

Row ==
  [ role : Roles, symbol : Instruments, instrument : Instruments \cup {Unresolved},
    added_in_revision : Nat \ {0} ]

Run ==
  [ day : Nat, late : BOOLEAN, revision : Nat, ranks : Listings, members : SUBSET Instruments ]

Bar == [instrument : Instruments, day : Nat, fetched_at : Nat]

Loaded ==
  [ name : Universes, revision : Nat, band : Band,
    inclusions : SUBSET Instruments, exclusions : SUBSET Instruments ]

Sweep ==
  [ phase : Phases, force : BOOLEAN, at : Nat, loaded : Seq(Loaded), done : Nat,
    ranks : Listings \cup {<<>>}, coins : SUBSET Instruments ]

Pin ==
  [ name : HandPinned, revision : Nat \ {0}, band : Band, role : Roles, symbol : Instruments ]

Types ==
  /\ clock \in 0 .. LastMoment
  /\ revisions \in [Universes -> Seq(Band)]
  /\ members \in [Universes -> SUBSET Row]
  /\ runs \in [Universes -> Seq(Run)]
  /\ bars \in SUBSET Bar
  /\ lock \in Sweepers \cup {NoOne}
  /\ sweep \in [Sweepers -> Sweep]
  /\ pin \in [Pinners -> Pin \cup {NoOne}]

-----------------------------------------------------------------------------
(* What the operators of an edit return. *)

LEMMA BandsAreBands ==
  /\ \A d \in Declared : d.name \in Universes \ {PortfolioHeld} /\ d.band \in Band
  /\ PortfolioHeld \in Universes
  /\ NoRule \in Band
BY SweepAssumption DEF Universes, NoRule, Band

(* A sequence of declarations holds declarations. *)
LEMMA DeclaredOf ==
  ASSUME NEW declared \in Declarations
  PROVE  /\ declared \in Seq(Declared)
         /\ Range(declared) \subseteq Declared
BY SweepAssumption DEF Declared, Range

(* A day is a number, and no earlier moment has a later one. *)
LEMMA DaysInOrder ==
  ASSUME NEW a \in Nat, NEW b \in Nat
  PROVE  /\ Day(a) \in Nat
         /\ a <= b => Day(a) <= Day(b)
         /\ Late(a) \in BOOLEAN
BY DEF Day, Late

(* Revisions are added at the end. *)
Extends(longer, shorter) ==
  /\ Len(shorter) <= Len(longer)
  /\ \A r \in DOMAIN shorter : longer[r] = shorter[r]

LEMMA AppendExtends ==
  ASSUME NEW s \in Seq(Band), NEW band \in Band
  PROVE  /\ Append(s, band) \in Seq(Band) /\ Extends(Append(s, band), s)
         /\ Append(s, band) # <<>>
         /\ Len(Append(s, band)) = Len(s) + 1
<1>1. Append(s, band) \in Seq(Band) /\ Len(Append(s, band)) = Len(s) + 1
  OBVIOUS
<1>2. \A r \in DOMAIN s : Append(s, band)[r] = s[r]
  OBVIOUS
<1>3. Append(s, band) # <<>>
  <2>1. Len(s) \in Nat /\ Len(<<>>) = 0
    OBVIOUS
  <2> QED BY <1>1, <2>1
<1> QED BY <1>1, <1>2, <1>3 DEF Extends

(* Reconciling a configuration adds a revision at most, gives every declared*)
(* universe one, and leaves portfolio-held alone.                           *)
LEMMA EnsuredExtends ==
  ASSUME Types, NEW declared \in Declarations
  PROVE  /\ Ensured(declared) \in [Universes -> Seq(Band)]
         /\ \A u \in Universes : Extends(Ensured(declared)[u], revisions[u])
         /\ \A d \in Range(declared) : Ensured(declared)[d.name] # <<>>
         /\ Ensured(declared)[PortfolioHeld] = revisions[PortfolioHeld]
<1>1. \A d \in Range(declared) : d.name \in Universes \ {PortfolioHeld} /\ d.band \in Band
  BY BandsAreBands, DeclaredOf
<1> DEFINE Missing(u) == \E d \in Range(declared) :
                            d.name = u /\ (Stored(u) => Last(revisions[u]) # d.band)
           Chosen(u) == (CHOOSE d \in Range(declared) : d.name = u).band
<1>2. \A u \in Universes : Missing(u) => Chosen(u) \in Band
  BY <1>1
<1> HIDE DEF Chosen
<1>3. \A u \in Universes :
        Ensured(declared)[u] = IF Missing(u) THEN Append(revisions[u], Chosen(u)) ELSE revisions[u]
  BY DEF Ensured, Chosen
<1>4. \A u \in Universes : revisions[u] \in Seq(Band)
  BY DEF Types
<1>5. \A u \in Universes :
        Ensured(declared)[u] \in Seq(Band) /\ Extends(Ensured(declared)[u], revisions[u])
  <2> SUFFICES ASSUME NEW u \in Universes
               PROVE  Ensured(declared)[u] \in Seq(Band) /\ Extends(Ensured(declared)[u], revisions[u])
    OBVIOUS
  <2>1. CASE Missing(u)
    BY <1>2, <1>3, <1>4, <2>1, AppendExtends, ZenonT(40)
  <2>2. CASE ~ Missing(u)
    BY <1>3, <1>4, <2>2 DEF Extends
  <2> QED BY <2>1, <2>2
<1>6. \A d \in Range(declared) : Ensured(declared)[d.name] # <<>>
  <2> SUFFICES ASSUME NEW d \in Range(declared) PROVE Ensured(declared)[d.name] # <<>>
    OBVIOUS
  <2>1. CASE Missing(d.name)
    BY <1>1, <1>2, <1>3, <1>4, <2>1, AppendExtends, ZenonT(40)
  <2>2. CASE ~ Missing(d.name)
    BY <1>1, <1>3, <2>2 DEF Stored
  <2> QED BY <2>1, <2>2
<1>7. ~ Missing(PortfolioHeld)
  BY <1>1
<1>8. Ensured(declared)[PortfolioHeld] = revisions[PortfolioHeld]
  BY <1>3, <1>7, BandsAreBands
<1>9. Ensured(declared) = [u \in Universes |-> Ensured(declared)[u]]
  BY DEF Ensured
<1> QED BY <1>5, <1>6, <1>8, <1>9

LEMMA SavedRevisionExtends ==
  ASSUME Types, NEW u \in Universes, NEW revision \in Nat, NEW band \in Band
  PROVE  /\ SavedRevision(u, revision, band) \in [Universes -> Seq(Band)]
         /\ \A v \in Universes : Extends(SavedRevision(u, revision, band)[v], revisions[v])
         /\ \A v \in Universes \ {u} : SavedRevision(u, revision, band)[v] = revisions[v]
         /\ revision <= Len(revisions[u]) + 1 =>
              revision <= Len(SavedRevision(u, revision, band)[u])
<1>1. \A v \in Universes : revisions[v] \in Seq(Band)
  BY DEF Types
<1>2. CASE revision <= Len(revisions[u])
  BY <1>1, <1>2 DEF SavedRevision, Extends, Types
<1>3. CASE ~ revision <= Len(revisions[u])
  <2>1. SavedRevision(u, revision, band) = [revisions EXCEPT ![u] = Append(@, band)]
    BY <1>3 DEF SavedRevision
  <2>2. /\ SavedRevision(u, revision, band)[u] = Append(revisions[u], band)
        /\ \A v \in Universes \ {u} : SavedRevision(u, revision, band)[v] = revisions[v]
        /\ SavedRevision(u, revision, band) \in [Universes -> Seq(Band)]
    BY <1>1, <2>1 DEF Types
  <2>3. \A v \in Universes : Extends(SavedRevision(u, revision, band)[v], revisions[v])
    <3>1. \A v \in Universes : Extends(revisions[v], revisions[v])
      BY <1>1 DEF Extends
    <3> QED BY <1>1, <2>2, <3>1, AppendExtends
  <2>4. Len(SavedRevision(u, revision, band)[u]) = Len(revisions[u]) + 1
    BY <1>1, <2>2, AppendExtends
  <2> QED BY <1>1, <2>2, <2>3, <2>4
<1> QED BY <1>2, <1>3

(* Who stands in a role is an Instrument, of a member typed as it. *)
LEMMA StandingInstruments ==
  ASSUME Types, NEW u \in Universes, NEW role, NEW revision
  PROVE  Standing(u, role, revision) \in SUBSET Instruments
BY DEF Types, Standing, Row

(* The Definitions a sweep loads. *)
LoadedFrom(declared) ==
  [k \in DOMAIN Names(declared) |-> Definition(Names(declared)[k], Ensured(declared))]

LEMMA NamesAreStored ==
  ASSUME Types, NEW declared \in Declarations
  PROVE  /\ Names(declared) \in Seq(Universes)
         /\ \A k \in DOMAIN Names(declared) : Ensured(declared)[Names(declared)[k]] # <<>>
<1> DEFINE head == [k \in DOMAIN declared |-> declared[k].name]
           tail == IF Stored(PortfolioHeld) THEN <<PortfolioHeld>> ELSE <<>>
<1>1. declared \in Seq(Declared) /\ \A k \in DOMAIN declared : declared[k] \in Range(declared)
  BY DeclaredOf DEF Range
<1>2. head \in Seq(Universes) /\ DOMAIN head = DOMAIN declared
  BY <1>1, BandsAreBands
<1>3. \A k \in DOMAIN head : Ensured(declared)[head[k]] # <<>>
  BY <1>1, EnsuredExtends
<1>4. tail \in Seq(Universes)
  BY BandsAreBands
<1>5. \A k \in DOMAIN tail : Ensured(declared)[tail[k]] # <<>>
  BY EnsuredExtends DEF Stored
<1> HIDE DEF head, tail
<1>6. Names(declared) = head \o tail
  BY DEF Names, head, tail
<1>7. \A k \in DOMAIN (head \o tail) :
        \/ k \in DOMAIN head /\ (head \o tail)[k] = head[k]
        \/ k - Len(head) \in DOMAIN tail /\ (head \o tail)[k] = tail[k - Len(head)]
  BY <1>2, <1>4
<1> QED BY <1>2, <1>3, <1>4, <1>5, <1>6, <1>7

LEMMA LoadedIsTyped ==
  ASSUME Types, NEW declared \in Declarations
  PROVE  /\ LoadedFrom(declared) \in Seq(Loaded)
         /\ \A k \in DOMAIN LoadedFrom(declared) :
              LET d == LoadedFrom(declared)[k]
              IN  /\ d.revision \in DOMAIN Ensured(declared)[d.name]
                  /\ d.band = Ensured(declared)[d.name][d.revision]
                  /\ \E r : /\ d.inclusions = Standing(d.name, Inclusion, r)
                            /\ d.exclusions = Standing(d.name, Exclusion, r)
<1> DEFINE names == Names(declared)
           bands == Ensured(declared)
           loaded == LoadedFrom(declared)
<1>1. names \in Seq(Universes) /\ \A k \in DOMAIN names : bands[names[k]] # <<>>
  BY NamesAreStored
<1>2. \A u \in Universes : bands[u] \in Seq(Band)
  BY EnsuredExtends
<1>3. DOMAIN loaded = DOMAIN names /\ \A k \in DOMAIN names : loaded[k] = Definition(names[k], bands)
  BY DEF LoadedFrom
<1> HIDE DEF names, bands, loaded
<1>4. ASSUME NEW u \in Universes, bands[u] # <<>>
      PROVE  /\ Definition(u, bands) \in Loaded
             /\ Definition(u, bands).name = u
             /\ Definition(u, bands).revision \in DOMAIN bands[u]
             /\ Definition(u, bands).band = bands[u][Definition(u, bands).revision]
             /\ Definition(u, bands).inclusions = Standing(u, Inclusion, Len(bands[u]))
             /\ Definition(u, bands).exclusions = Standing(u, Exclusion, Len(bands[u]))
  <2>1. /\ Len(bands[u]) \in DOMAIN bands[u] /\ Len(bands[u]) \in Nat
        /\ Last(bands[u]) = bands[u][Len(bands[u])] /\ Last(bands[u]) \in Band
    BY <1>2, <1>4 DEF Last
  <2>2. /\ Standing(u, Inclusion, Len(bands[u])) \in SUBSET Instruments
        /\ Standing(u, Exclusion, Len(bands[u])) \in SUBSET Instruments
    BY StandingInstruments
  <2> QED BY <2>1, <2>2 DEF Definition, Loaded
<1>5. loaded \in Seq(Loaded)
  <2>1. Len(names) \in Nat /\ DOMAIN names = 1 .. Len(names)
    BY <1>1
  <2>2. \A k \in 1 .. Len(names) : loaded[k] \in Loaded
    BY <1>1, <1>3, <1>4, <2>1
  <2>3. loaded = [k \in 1 .. Len(names) |-> loaded[k]]
    BY <2>1 DEF LoadedFrom, loaded, names
  <2>4. [k \in 1 .. Len(names) |-> loaded[k]] \in Seq(Loaded)
    BY <2>1, <2>2
  <2> QED BY <2>3, <2>4
<1>6. \A k \in DOMAIN loaded :
        /\ loaded[k].revision \in DOMAIN bands[loaded[k].name]
        /\ loaded[k].band = bands[loaded[k].name][loaded[k].revision]
        /\ loaded[k].inclusions = Standing(loaded[k].name, Inclusion, Len(bands[loaded[k].name]))
        /\ loaded[k].exclusions = Standing(loaded[k].name, Exclusion, Len(bands[loaded[k].name]))
  BY <1>1, <1>3, <1>4
<1> QED BY <1>5, <1>6 DEF loaded, bands

-----------------------------------------------------------------------------
(* Every action keeps the types. *)

(* What an edit may do to a Definition: revisions are added, and members    *)
(* stay typed as they were.                                                 *)
Grows ==
  \A u \in Universes :
    /\ Extends(revisions'[u], revisions[u])
    /\ { m.symbol : m \in members[u] } \subseteq { m.symbol : m \in members'[u] }

LEMMA SavedMemberGrows ==
  ASSUME Types, NEW u \in Universes, NEW row \in Row
  PROVE  /\ SavedMember(u, row) \in [Universes -> SUBSET Row]
         /\ \A v \in Universes \ {u} : SavedMember(u, row)[v] = members[v]
         /\ row \in SavedMember(u, row)[u]
         /\ \A m \in SavedMember(u, row)[u] : m = row \/ m \in members[u]
         /\ \A m \in members[u] :
              m \in SavedMember(u, row)[u]
                \/ (m.symbol = row.symbol /\ m.added_in_revision = row.added_in_revision)
<1> DEFINE kept == { m \in members[u] : [m EXCEPT !.instrument = Unresolved]
                                          # [row EXCEPT !.instrument = Unresolved] }
<1>1. members[u] \in SUBSET Row
  BY DEF Types
<1>2. SavedMember(u, row) = [members EXCEPT ![u] = kept \cup {row}]
  BY DEF SavedMember, Types
<1>3. kept \subseteq members[u]
  OBVIOUS
<1>4. \A m \in members[u] :
        m \in kept \/ (m.symbol = row.symbol /\ m.added_in_revision = row.added_in_revision)
  <2> SUFFICES ASSUME NEW m \in members[u],
                      [m EXCEPT !.instrument = Unresolved] = [row EXCEPT !.instrument = Unresolved]
               PROVE  m.symbol = row.symbol /\ m.added_in_revision = row.added_in_revision
    OBVIOUS
  <2>1. /\ [m EXCEPT !.instrument = Unresolved].symbol = m.symbol
        /\ [row EXCEPT !.instrument = Unresolved].symbol = row.symbol
        /\ [m EXCEPT !.instrument = Unresolved].added_in_revision = m.added_in_revision
        /\ [row EXCEPT !.instrument = Unresolved].added_in_revision = row.added_in_revision
    BY <1>1 DEF Row
  <2> QED BY <2>1
<1> HIDE DEF kept
<1> QED BY <1>1, <1>2, <1>3, <1>4 DEF Types

LEMMA InitInstanceKeepsTypes ==
  ASSUME Types, NEW declared \in Declarations, InitInstance(declared)
  PROVE  Types' /\ Grows
<1>1. revisions' \in [Universes -> Seq(Band)] /\ \A u \in Universes : Extends(revisions'[u], revisions[u])
  BY EnsuredExtends DEF InitInstance
<1> QED BY <1>1 DEF InitInstance, Types, Grows, definitions

LEMMA PinTypedKeepsTypes ==
  ASSUME Types, NEW t \in Pinners, NEW u \in HandPinned, NEW role \in Roles,
         NEW i \in Instruments, PinTyped(t, u, role, i)
  PROVE  Types'
<1>1. u \in Universes
  BY SweepAssumption
<1>2. revisions[u] \in Seq(Band) /\ revisions[u] # <<>>
  BY <1>1 DEF Types, PinTyped, Stored
<1>3. Last(revisions[u]) \in Band /\ Len(revisions[u]) + 1 \in Nat \ {0}
  BY <1>2 DEF Last
<1>4. [ name |-> u, revision |-> Len(revisions[u]) + 1,
        band |-> Last(revisions[u]), role |-> role, symbol |-> i ] \in Pin
  BY <1>3 DEF Pin
<1> QED BY <1>4 DEF Types, PinTyped, definitions

LEMMA SavePinKeepsTypes ==
  ASSUME Types, NEW t \in Pinners, NEW resolved \in Instruments \cup {Unresolved},
         SavePin(t, resolved)
  PROVE  /\ Types'
         /\ pin[t] \in Pin
         /\ \A u \in Universes : Extends(revisions'[u], revisions[u])
<1>1. pin[t] \in Pin
  BY DEF Types, SavePin
<1>2. pin[t].name \in Universes
  BY <1>1, SweepAssumption DEF Pin
<1>3. /\ revisions' \in [Universes -> Seq(Band)]
      /\ \A u \in Universes : Extends(revisions'[u], revisions[u])
  BY <1>1, <1>2, SavedRevisionExtends DEF SavePin, Pin
<1>4. [ role |-> pin[t].role, symbol |-> pin[t].symbol, instrument |-> resolved,
        added_in_revision |-> pin[t].revision ] \in Row
  BY <1>1 DEF Pin, Row, Roles
<1>5. members' \in [Universes -> SUBSET Row]
  BY <1>2, <1>4, SavedMemberGrows DEF SavePin
<1> QED BY <1>1, <1>3, <1>5 DEF Types, SavePin

LEMMA HoldTradedKeepsTypes ==
  ASSUME Types, NEW i \in Traded, HoldTraded(i)
  PROVE  /\ Types'
         /\ \A u \in Universes : Extends(revisions'[u], revisions[u])
<1> DEFINE held == PortfolioHeld
           next == Len(revisions[held]) + 1
           row  == [ role |-> Inclusion, symbol |-> i, instrument |-> i,
                     added_in_revision |-> next ]
<1>1. CASE Included(i)
  <2>1. \A u \in Universes : Extends(revisions[u], revisions[u])
    BY DEF Types, Extends
  <2> QED BY <1>1, <2>1 DEF HoldTraded, Held, Types, definitions
<1>2. CASE ~ Included(i)
  <2>1. held \in Universes /\ revisions[held] \in Seq(Band) /\ next \in Nat \ {0}
    BY BandsAreBands DEF Types
  <2>2. row \in Row
    BY <2>1, SweepAssumption DEF Row, Roles
  <2>3. revisions' = SavedRevision(held, next, NoRule) /\ members' = SavedMember(held, row)
    BY <1>2 DEF HoldTraded, Held
  <2> HIDE DEF held, next, row
  <2>4. /\ revisions' \in [Universes -> Seq(Band)]
        /\ \A u \in Universes : Extends(revisions'[u], revisions[u])
    BY <2>1, <2>3, BandsAreBands, SavedRevisionExtends
  <2>5. members' \in [Universes -> SUBSET Row]
    BY <2>1, <2>2, <2>3, SavedMemberGrows
  <2> QED BY <2>4, <2>5 DEF HoldTraded, Types
<1> QED BY <1>1, <1>2

(* A sweep that has started over, moved on or gone to rest is a Sweep. *)
LEMMA AtRestIsTyped == AtRest \in Sweep
BY DEF AtRest, Sweep, Phases

LEMMA BeginSweepKeepsTypes ==
  ASSUME Types, NEW p \in Sweepers, NEW declared \in Declarations, BeginSweep(p, declared)
  PROVE  /\ Types'
         /\ sweep' = [sweep EXCEPT ![p] = [ AtRest EXCEPT !.phase = "listing", !.at = clock,
                                              !.loaded = LoadedFrom(declared) ]]
         /\ revisions' = Ensured(declared)
<1>1. revisions' = Ensured(declared) /\ Ensured(declared) \in [Universes -> Seq(Band)]
  BY EnsuredExtends DEF BeginSweep, Reconciled
<1>2. sweep' = [sweep EXCEPT ![p] = [ AtRest EXCEPT !.phase = "listing", !.at = clock,
                                        !.loaded = LoadedFrom(declared) ]]
  BY DEF BeginSweep, LoadedFrom
<1>3. clock \in Nat
  BY SweepAssumption DEF Types
<1>4. [ AtRest EXCEPT !.phase = "listing", !.at = clock, !.loaded = LoadedFrom(declared) ] \in Sweep
  BY <1>3, LoadedIsTyped, AtRestIsTyped DEF Sweep, Phases
<1>5. lock' \in Sweepers \cup {NoOne}
  BY DEF BeginSweep
<1>6. sweep' \in [Sweepers -> Sweep]
  BY <1>2, <1>4 DEF Types
<1>7. UNCHANGED <<clock, members, runs, bars, pin>>
  BY DEF BeginSweep
<1> QED BY <1>1, <1>2, <1>5, <1>6, <1>7 DEF Types

(* The coins a sweep prices are Instruments. *)
LEMMA IdentifyKeepsTypes ==
  ASSUME Types, NEW p \in Sweepers, NEW listing \in Listings, Identify(p, listing)
  PROVE  Types'
<1> DEFINE coins == DOMAIN listing \cup Unlisted(sweep[p].loaded, listing)
<1>1. sweep[p] \in Sweep /\ sweep[p].loaded \in Seq(Loaded)
  BY DEF Types, Sweep
<1>2. \A k \in DOMAIN sweep[p].loaded : sweep[p].loaded[k].inclusions \in SUBSET Instruments
  <2>1. \A k \in DOMAIN sweep[p].loaded : sweep[p].loaded[k] \in Loaded
    BY <1>1
  <2> QED BY <2>1 DEF Loaded
<1>3. coins \in SUBSET Instruments
  BY <1>2, SweepAssumption DEF Unlisted
<1>4. sweep' = [sweep EXCEPT ![p] = [sweep[p] EXCEPT !.phase = "evaluating", !.ranks = listing,
                                                       !.coins = coins]]
  BY DEF Identify, Types
<1> HIDE DEF coins
<1>5. [sweep[p] EXCEPT !.phase = "evaluating", !.ranks = listing, !.coins = coins] \in Sweep
  BY <1>1, <1>3 DEF Sweep, Phases
<1> QED BY <1>4, <1>5, ZenonT(40) DEF Identify, Types, definitions

(* The Definition a sweep evaluates next, and the Run it makes of it. *)
Current(p) == sweep[p].loaded[sweep[p].done + 1]

RunOf(p) ==
  [ day |-> Day(sweep[p].at), late |-> Late(sweep[p].at), revision |-> Current(p).revision,
    ranks |-> sweep[p].ranks,
    members |-> Evaluated(Current(p), sweep[p].ranks, InForce(Current(p).name)) ]

Recorded(p) ==
  /\ ~ RunOn(Current(p).name, Day(sweep[p].at))
  /\ ~ Refused(Current(p).name, Day(sweep[p].at))

LEMMA CurrentIsLoaded ==
  ASSUME Types, NEW p \in Sweepers, sweep[p].done < Len(sweep[p].loaded)
  PROVE  /\ sweep[p].done + 1 \in DOMAIN sweep[p].loaded
         /\ Current(p) \in Loaded
         /\ Current(p).name \in Universes
<1>1. sweep[p].loaded \in Seq(Loaded) /\ sweep[p].done \in Nat
  BY DEF Types, Sweep
<1>2. sweep[p].done + 1 \in DOMAIN sweep[p].loaded /\ Current(p) \in Loaded
  BY <1>1 DEF Current
<1> QED BY <1>2 DEF Loaded

(* An evaluation appends its Run, unless the day has one. *)
LEMMA EvaluateAppends ==
  ASSUME Types, NEW p \in Sweepers, sweep[p].ranks \in Listings, Evaluate(p)
  PROVE  /\ RunOf(p) \in Run
         /\ Recorded(p) =>
              runs' = [runs EXCEPT ![Current(p).name] = Append(runs[Current(p).name], RunOf(p))]
         /\ ~ Recorded(p) => runs' = runs
         /\ runs' \in [Universes -> Seq(Run)]
<1>1. Current(p) \in Loaded /\ Current(p).name \in Universes
  BY CurrentIsLoaded DEF Evaluate
<1>2. sweep[p].at \in Nat /\ sweep[p].ranks \in Listings
  BY DEF Types, Sweep
<1>3. Evaluated(Current(p), sweep[p].ranks, InForce(Current(p).name)) \in SUBSET Instruments
  BY <1>1, <1>2, SweepAssumption DEF Evaluated, Loaded
<1>4. RunOf(p) \in Run
  BY <1>1, <1>2, <1>3, DaysInOrder DEF RunOf, Run, Loaded
<1>5. /\ Recorded(p) =>
           runs' = [runs EXCEPT ![Current(p).name] = Append(runs[Current(p).name], RunOf(p))]
      /\ ~ Recorded(p) => runs' = runs
  BY <1>1 DEF Evaluate, Recorded, RunOf, Current, OnceADay, Types
<1>6. runs' \in [Universes -> Seq(Run)]
  <2>1. runs \in [Universes -> Seq(Run)]
    BY DEF Types
  <2>2. Append(runs[Current(p).name], RunOf(p)) \in Seq(Run)
    BY <1>1, <1>4, <2>1
  <2> QED BY <1>1, <1>5, <2>1, <2>2
<1> QED BY <1>4, <1>5, <1>6

LEMMA EvaluateKeepsTypes ==
  ASSUME Types, NEW p \in Sweepers, sweep[p].ranks \in Listings, Evaluate(p)
  PROVE  Types'
<1>1. runs' \in [Universes -> Seq(Run)]
  BY EvaluateAppends
<1>2. sweep' = [sweep EXCEPT ![p] = [sweep[p] EXCEPT !.done = sweep[p].done + 1]]
  BY DEF Evaluate, Types
<1>3. [sweep[p] EXCEPT !.done = sweep[p].done + 1] \in Sweep
  <2>1. sweep[p] \in Sweep
    BY DEF Types
  <2>2. sweep[p].done + 1 \in Nat
    BY <2>1 DEF Sweep
  <2> QED BY <2>1, <2>2 DEF Sweep
<1> QED BY <1>1, <1>2, <1>3, ZenonT(40) DEF Evaluate, Types, definitions

(* A bar that is written has the day's moment, and no bar stored is lost.   *)
LEMMA UpsertedKeeps ==
  ASSUME Types, NEW p \in Sweepers
  PROVE  /\ Upserted(NewBars(p)) \in SUBSET Bar
         /\ bars \subseteq Upserted(NewBars(p))
         /\ \A bar \in Upserted(NewBars(p)) : bar \in bars \/ bar.fetched_at = sweep[p].at
         /\ \A i \in sweep[p].coins : \E bar \in Upserted(NewBars(p)) :
              bar.instrument = i /\ bar.day = Day(sweep[p].at)
<1> DEFINE bar(i) == [instrument |-> i, day |-> Day(sweep[p].at), fetched_at |-> sweep[p].at]
<1>1. sweep[p].at \in Nat /\ sweep[p].coins \in SUBSET Instruments
  BY DEF Types, Sweep
<1>2. \A i \in sweep[p].coins : /\ bar(i) \in Bar /\ bar(i).instrument = i
                                /\ bar(i).day = Day(sweep[p].at)
                                /\ bar(i).fetched_at = sweep[p].at
  BY <1>1, DaysInOrder DEF Bar
<1> HIDE DEF bar
<1>3. NewBars(p) = { b \in { bar(i) : i \in sweep[p].coins } :
                       \A held \in bars : held.instrument = b.instrument => held.day # b.day }
  BY DEF NewBars, bar
<1>4. bars \in SUBSET Bar
  BY DEF Types
<1>5. \A i \in sweep[p].coins : \E b \in Upserted(NewBars(p)) :
        b.instrument = i /\ b.day = Day(sweep[p].at)
  <2> SUFFICES ASSUME NEW i \in sweep[p].coins
               PROVE  \E b \in Upserted(NewBars(p)) : b.instrument = i /\ b.day = Day(sweep[p].at)
    OBVIOUS
  <2>1. CASE \E held \in bars : held.instrument = i /\ held.day = Day(sweep[p].at)
    BY <1>3, <2>1 DEF Upserted
  <2>2. CASE ~ \E held \in bars : held.instrument = i /\ held.day = Day(sweep[p].at)
    <3>1. bar(i) \in NewBars(p)
      BY <1>2, <1>3, <2>2
    <3> QED BY <1>2, <3>1 DEF Upserted
  <2> QED BY <2>1, <2>2
<1> QED BY <1>2, <1>3, <1>4, <1>5 DEF Upserted

LEMMA RestKeepsTypes ==
  ASSUME Types, NEW p \in Sweepers,
         \/ \E force \in BOOLEAN : Fire(p, force)
         \/ GiveUp(p)
         \/ \E declared \in Declarations : FindSwept(p, declared)
         \/ WriteBars(p)
         \/ Fail(p)
  PROVE  Types'
<1>1. ASSUME NEW force \in BOOLEAN, Fire(p, force) PROVE Types'
  <2>1. sweep' = [sweep EXCEPT ![p] = [sweep[p] EXCEPT !.phase = "waiting", !.force = force]]
    BY <1>1 DEF Fire, Types
  <2>2. [sweep[p] EXCEPT !.phase = "waiting", !.force = force] \in Sweep
    BY DEF Types, Sweep, Phases
  <2> QED BY <1>1, <2>1, <2>2 DEF Fire, Types, definitions
<1>2. CASE GiveUp(p)
  BY <1>2, AtRestIsTyped DEF GiveUp, Types, definitions
<1>3. ASSUME NEW declared \in Declarations, FindSwept(p, declared) PROVE Types'
  <2>1. revisions' \in [Universes -> Seq(Band)]
    BY <1>3, EnsuredExtends DEF FindSwept, Reconciled
  <2> QED BY <1>3, <2>1, AtRestIsTyped DEF FindSwept, Types
<1>4. CASE WriteBars(p)
  <2>1. bars' \in SUBSET Bar
    BY <1>4, UpsertedKeeps DEF WriteBars, Types
  <2> QED BY <1>4, <2>1, AtRestIsTyped DEF WriteBars, Types, definitions
<1>5. CASE Fail(p)
  BY <1>5, AtRestIsTyped DEF Fail, Types, definitions
<1> QED BY <1>1, <1>2, <1>3, <1>4, <1>5

-----------------------------------------------------------------------------
(* The inductive invariant, in parts. *)

Active(p) == sweep[p].phase \in {"listing", "evaluating"}

(* A member was added in a stored revision, and resolves to what was typed. *)
MembersKnown ==
  \A u \in Universes : \A m \in members[u] :
    m.added_in_revision \in DOMAIN revisions[u] /\ m.instrument \in {m.symbol, Unresolved}

(* A task that awaits a resolution holds the next revision's number at most.*)
PinsKnown ==
  \A t \in Pinners : pin[t] # NoOne => pin[t].revision <= Len(revisions[pin[t].name]) + 1

(* What a sweep has loaded is a revision that stands, its members typed ones*)
Faithful(d, bands, rows) ==
  /\ d.revision \in DOMAIN bands[d.name]
  /\ d.band = bands[d.name][d.revision]
  /\ d.inclusions \cup d.exclusions \subseteq { m.symbol : m \in rows[d.name] }

LoadedKnown ==
  \A p \in Sweepers : \A k \in DOMAIN sweep[p].loaded : Faithful(sweep[p].loaded[k], revisions, members)

(* A Run is stamped with a revision that stands. *)
RunsKnown == \A u \in Universes : \A k \in DOMAIN runs[u] : runs[u][k].revision \in DOMAIN revisions[u]

(* The sweep under way holds the lock and has a listing to evaluate; its    *)
(* moment is past, and no Run has a later day.                              *)
Ordered ==
  /\ \A p \in Sweepers : Active(p) => lock = p /\ sweep[p].at <= clock
  /\ \A p \in Sweepers : sweep[p].phase = "evaluating" => sweep[p].ranks \in Listings
  /\ \A u \in Universes : \A k \in DOMAIN runs[u] :
       /\ runs[u][k].day <= Day(clock)
       /\ \A p \in Sweepers : Active(p) => runs[u][k].day <= Day(sweep[p].at)
  /\ OneRunPerDay

(* The coins a sweep will price are all it may make members. *)
CoinsKnown ==
  \A p \in Sweepers : sweep[p].phase = "evaluating" =>
    /\ DOMAIN sweep[p].ranks \subseteq sweep[p].coins
    /\ \A k \in DOMAIN sweep[p].loaded : sweep[p].loaded[k].inclusions \subseteq sweep[p].coins

(* A Run's members have their bars, or the sweep that made it is yet to     *)
(* write them.                                                              *)
Priced(run) == \A i \in run.members : \E bar \in bars : bar.instrument = i /\ bar.day = run.day

ToBePriced(run, p) ==
  /\ lock = p
  /\ sweep[p].phase = "evaluating"
  /\ sweep[p].done > 0
  /\ Day(sweep[p].at) = run.day
  /\ ~ Late(sweep[p].at)
  /\ run.members \subseteq sweep[p].coins

PricedOrToBe ==
  \A u \in Universes : \A k \in DOMAIN runs[u] :
    LET run == runs[u][k]
    IN  (~ run.late /\ run.day \notin torn) =>
          Priced(run) \/ \E p \in Sweepers : ToBePriced(run, p)

BarsInWindow == \A bar \in bars : ~ Late(bar.fetched_at)

Inv ==
  /\ Types
  /\ MembersKnown
  /\ PinsKnown
  /\ LoadedKnown
  /\ RunsKnown
  /\ Ordered
  /\ RuleFollowsBand
  /\ CoinsKnown
  /\ PricedOrToBe
  /\ BarsInWindow

(* What a step may do to each variable. *)
LEMMA WhatChanges ==
  ASSUME [Next]_vars
  PROVE  /\ \/ UNCHANGED revisions
            \/ \E declared \in Declarations : revisions' = Ensured(declared)
            \/ \E t \in Pinners, resolved \in Instruments \cup {Unresolved} : SavePin(t, resolved)
            \/ \E i \in Traded : HoldTraded(i)
         /\ \/ UNCHANGED members
            \/ \E t \in Pinners, resolved \in Instruments \cup {Unresolved} : SavePin(t, resolved)
            \/ \E i \in Traded : HoldTraded(i)
         /\ UNCHANGED runs \/ \E p \in Sweepers : Evaluate(p)
         /\ UNCHANGED bars \/ \E p \in Sweepers : WriteBars(p)
         /\ UNCHANGED <<lock, sweep, torn>> \/ \E p \in Sweepers : SweepStep(p)
         /\ UNCHANGED clock \/ Tick
         /\ \/ UNCHANGED pin
            \/ \E t \in Pinners, u \in HandPinned, role \in Roles, i \in Instruments :
                 PinTyped(t, u, role, i)
            \/ \E t \in Pinners, resolved \in Instruments \cup {Unresolved} : SavePin(t, resolved)
<1>1. CASE UNCHANGED vars
  BY <1>1 DEF vars, definitions
<1>2. CASE Tick
  BY <1>2 DEF Tick, definitions
<1>3. CASE Edit
  BY <1>3 DEF Edit, Roles, InitInstance, PinTyped, SavePin, HoldTraded, RecordTrade, definitions
<1>4. ASSUME NEW p \in Sweepers, SweepStep(p)
      PROVE  /\ UNCHANGED revisions \/ \E declared \in Declarations : revisions' = Ensured(declared)
             /\ UNCHANGED <<members, clock, pin>>
             /\ UNCHANGED runs \/ Evaluate(p)
             /\ UNCHANGED bars \/ WriteBars(p)
  BY <1>4 DEF SweepStep, Poll, Proceed, Fire, GiveUp, FindSwept, BeginSweep, Reconciled,
              Identify, Evaluate, WriteBars, Fail, definitions
<1> QED BY <1>1, <1>2, <1>3, <1>4 DEF Next

(* The rows that pin_member and hold save. *)
PinRow(t, resolved) ==
  [ role |-> pin[t].role, symbol |-> pin[t].symbol, instrument |-> resolved,
    added_in_revision |-> pin[t].revision ]

HoldRow(i) ==
  [ role |-> Inclusion, symbol |-> i, instrument |-> i,
    added_in_revision |-> Len(revisions[PortfolioHeld]) + 1 ]

LEMMA SavePinSaves ==
  ASSUME Types, PinsKnown, NEW t \in Pinners, NEW resolved \in Instruments \cup {Unresolved},
         SavePin(t, resolved)
  PROVE  /\ pin[t] \in Pin /\ pin[t].name \in Universes
         /\ PinRow(t, resolved) \in Row
         /\ members' = SavedMember(pin[t].name, PinRow(t, resolved))
         /\ \A u \in Universes : Extends(revisions'[u], revisions[u])
         /\ \A u \in Universes \ {pin[t].name} : revisions'[u] = revisions[u]
         /\ PinRow(t, resolved).added_in_revision \in DOMAIN revisions'[pin[t].name]
         /\ PinRow(t, resolved).instrument \in {PinRow(t, resolved).symbol, Unresolved}
<1>1. pin[t] \in Pin /\ pin[t] # NoOne
  BY DEF Types, SavePin
<1>2. pin[t].name \in Universes /\ pin[t].revision \in Nat \ {0} /\ pin[t].band \in Band
  BY <1>1, SweepAssumption DEF Pin
<1>3. PinRow(t, resolved) \in Row
  BY <1>1 DEF Pin, Row, Roles, PinRow
<1>4. members' = SavedMember(pin[t].name, PinRow(t, resolved))
  BY DEF SavePin, PinRow
<1>5. revisions' = SavedRevision(pin[t].name, pin[t].revision, pin[t].band)
  BY DEF SavePin
<1>6. pin[t].revision <= Len(revisions[pin[t].name]) + 1
  BY <1>1 DEF PinsKnown
<1>7. /\ \A u \in Universes : Extends(revisions'[u], revisions[u])
      /\ \A u \in Universes \ {pin[t].name} : revisions'[u] = revisions[u]
      /\ pin[t].revision <= Len(revisions'[pin[t].name])
      /\ revisions'[pin[t].name] \in Seq(Band)
  BY <1>2, <1>5, <1>6, SavedRevisionExtends
<1>8. pin[t].revision \in DOMAIN revisions'[pin[t].name]
  BY <1>2, <1>7
<1>9. resolved \in {pin[t].symbol, Unresolved}
  BY DEF SavePin
<1> QED BY <1>1, <1>2, <1>3, <1>4, <1>7, <1>8, <1>9 DEF PinRow

LEMMA HoldTradedSaves ==
  ASSUME Types, NEW i \in Traded, HoldTraded(i), ~ Included(i)
  PROVE  /\ HoldRow(i) \in Row
         /\ members' = SavedMember(PortfolioHeld, HoldRow(i))
         /\ \A u \in Universes : Extends(revisions'[u], revisions[u])
         /\ \A u \in Universes \ {PortfolioHeld} : revisions'[u] = revisions[u]
         /\ HoldRow(i).added_in_revision = Len(revisions[PortfolioHeld]) + 1
         /\ HoldRow(i).added_in_revision \in DOMAIN revisions'[PortfolioHeld]
<1> DEFINE next == Len(revisions[PortfolioHeld]) + 1
<1>1. revisions[PortfolioHeld] \in Seq(Band) /\ next \in Nat \ {0}
  BY BandsAreBands DEF Types
<1>2. HoldRow(i) \in Row /\ HoldRow(i).added_in_revision = next
  BY <1>1, SweepAssumption DEF Row, Roles, HoldRow
<1>3. revisions' = SavedRevision(PortfolioHeld, next, NoRule)
  BY DEF HoldTraded, Held
<1>4. members' = SavedMember(PortfolioHeld, HoldRow(i))
  BY DEF HoldTraded, Held, HoldRow
<1> HIDE DEF next
<1>5. /\ \A u \in Universes : Extends(revisions'[u], revisions[u])
      /\ \A u \in Universes \ {PortfolioHeld} : revisions'[u] = revisions[u]
      /\ next <= Len(revisions[PortfolioHeld]) + 1 => next <= Len(revisions'[PortfolioHeld])
      /\ revisions'[PortfolioHeld] \in Seq(Band)
  <2>1. PortfolioHeld \in Universes /\ NoRule \in Band /\ next \in Nat
    BY <1>1, BandsAreBands
  <2> QED BY <1>3, <2>1, SavedRevisionExtends
<1>6. next <= Len(revisions[PortfolioHeld]) + 1
  BY <1>1 DEF next
<1>7. next \in DOMAIN revisions'[PortfolioHeld]
  BY <1>1, <1>5, <1>6
<1> QED BY <1>2, <1>4, <1>5, <1>7 DEF next

(* No edit takes a revision or a typed member back. *)
LEMMA EditsGrow ==
  ASSUME Types, PinsKnown, [Next]_vars
  PROVE  Grows
<1>1. \A u \in Universes : Extends(revisions[u], revisions[u])
  BY DEF Types, Extends
<1>2. \A u \in Universes : Extends(revisions'[u], revisions[u])
  <2>1. ASSUME NEW i \in Traded, HoldTraded(i) PROVE \A u \in Universes : Extends(revisions'[u], revisions[u])
    BY <2>1, HoldTradedKeepsTypes
  <2>2. ASSUME NEW declared \in Declarations, revisions' = Ensured(declared)
        PROVE  \A u \in Universes : Extends(revisions'[u], revisions[u])
    BY <2>2, EnsuredExtends
  <2> QED BY <1>1, <2>1, <2>2, WhatChanges, SavePinSaves
<1> DEFINE Typed(rows) == { m.symbol : m \in rows }
<1>3. ASSUME NEW v \in Universes, NEW row \in Row, members' = SavedMember(v, row)
      PROVE  \A u \in Universes : Typed(members[u]) \subseteq Typed(members'[u])
  <2> SUFFICES ASSUME NEW u \in Universes, NEW m \in members[u]
               PROVE  \E n \in members'[u] : n.symbol = m.symbol
    OBVIOUS
  <2>1. CASE u # v
    BY <1>3, <2>1, SavedMemberGrows
  <2>2. CASE u = v
    BY <1>3, <2>2, SavedMemberGrows
  <2> QED BY <2>1, <2>2
<1>4. \A u \in Universes : Typed(members[u]) \subseteq Typed(members'[u])
  <2>1. ASSUME NEW t \in Pinners, NEW resolved \in Instruments \cup {Unresolved},
               SavePin(t, resolved)
        PROVE  \A u \in Universes : Typed(members[u]) \subseteq Typed(members'[u])
    BY <1>3, <2>1, SavePinSaves
  <2>2. ASSUME NEW i \in Traded, HoldTraded(i)
        PROVE  \A u \in Universes : Typed(members[u]) \subseteq Typed(members'[u])
    <3>1. CASE Included(i)
      BY <2>2, <3>1 DEF HoldTraded, Held, definitions
    <3>2. CASE ~ Included(i)
      BY <1>3, <2>2, <3>2, HoldTradedSaves, BandsAreBands
    <3> QED BY <3>1, <3>2
  <2>3. CASE UNCHANGED members
    BY <2>3
  <2> QED BY <2>1, <2>2, <2>3, WhatChanges
<1> QED BY <1>2, <1>4 DEF Grows

LEMMA TypesStay ==
  ASSUME Inv, [Next]_vars
  PROVE  Types'
<1> USE DEF Inv
<1>1. CASE UNCHANGED vars
  BY <1>1 DEF vars, definitions, Types
<1>2. CASE Tick
  BY <1>2, SweepAssumption DEF Tick, definitions, Types
<1>3. CASE Edit
  <2>1. ASSUME NEW t \in Pinners, NEW u \in HandPinned, NEW role \in {Inclusion, Exclusion},
               NEW i \in Instruments, PinTyped(t, u, role, i)
        PROVE  Types'
    BY <2>1, PinTypedKeepsTypes DEF Roles
  <2>2. ASSUME NEW i \in Traded, RecordTrade(i) PROVE Types'
    BY <2>2 DEF RecordTrade, Types, definitions
  <2> QED BY <1>3, <2>1, <2>2, InitInstanceKeepsTypes, SavePinKeepsTypes, HoldTradedKeepsTypes
          DEF Edit
<1>4. ASSUME NEW p \in Sweepers, SweepStep(p) PROVE Types'
  <2>1. ASSUME Evaluate(p) PROVE Types'
    BY <2>1, EvaluateKeepsTypes DEF Ordered, Evaluate
  <2> QED BY <1>4, <2>1, RestKeepsTypes, BeginSweepKeepsTypes, IdentifyKeepsTypes, ZenonT(40)
          DEF SweepStep, Poll, Proceed
<1> QED BY <1>1, <1>2, <1>3, <1>4 DEF Next

LEMMA MembersKnownStays ==
  ASSUME Inv, [Next]_vars
  PROVE  MembersKnown'
<1> USE DEF Inv
<1>1. Grows /\ Types'
  BY EditsGrow, TypesStay
<1>2. ASSUME NEW u \in Universes, NEW r \in DOMAIN revisions[u] PROVE r \in DOMAIN revisions'[u]
  BY <1>1, <1>2 DEF Grows, Extends, Types
<1>3. CASE UNCHANGED members
  BY <1>2, <1>3 DEF MembersKnown
<1>4. ASSUME NEW v \in Universes, NEW row \in Row, members' = SavedMember(v, row),
             row.added_in_revision \in DOMAIN revisions'[v],
             row.instrument \in {row.symbol, Unresolved}
      PROVE  MembersKnown'
  <2> SUFFICES ASSUME NEW u \in Universes, NEW m \in members'[u]
               PROVE  m.added_in_revision \in DOMAIN revisions'[u] /\ m.instrument \in {m.symbol, Unresolved}
    BY DEF MembersKnown
  <2>1. m \in members[u] \/ (u = v /\ m = row)
    BY <1>4, SavedMemberGrows
  <2> QED BY <1>2, <1>4, <2>1 DEF MembersKnown
<1>5. ASSUME NEW i \in Traded, HoldTraded(i) PROVE MembersKnown'
  <2>1. CASE Included(i)
    BY <1>3, <1>5, <2>1 DEF HoldTraded, Held, definitions
  <2>2. CASE ~ Included(i)
    <3>1. HoldRow(i).instrument = HoldRow(i).symbol
      BY DEF HoldRow
    <3> QED BY <1>4, <1>5, <2>2, <3>1, HoldTradedSaves, BandsAreBands
  <2> QED BY <2>1, <2>2
<1>6. ASSUME NEW t \in Pinners, NEW resolved \in Instruments \cup {Unresolved}, SavePin(t, resolved)
      PROVE  MembersKnown'
  BY <1>4, <1>6, SavePinSaves
<1> QED BY <1>3, <1>5, <1>6, WhatChanges

LEMMA PinsKnownStays ==
  ASSUME Inv, [Next]_vars
  PROVE  PinsKnown'
<1> USE DEF Inv
<1>1. \A u \in Universes : Len(revisions[u]) <= Len(revisions'[u]) /\ Len(revisions[u]) \in Nat /\ Len(revisions'[u]) \in Nat
  BY EditsGrow, TypesStay DEF Grows, Extends, Types
<1>2. \A t \in Pinners : pin[t] # NoOne => pin[t] \in Pin /\ pin[t].name \in Universes /\ pin[t].revision \in Nat
  BY SweepAssumption DEF Types, Pin
<1>3. ASSUME NEW t \in Pinners, pin'[t] = pin[t], pin[t] # NoOne
      PROVE  pin'[t].revision <= Len(revisions'[pin'[t].name]) + 1
  BY <1>1, <1>2, <1>3 DEF PinsKnown
<1>4. CASE UNCHANGED pin
  BY <1>3, <1>4 DEF PinsKnown
<1>5. ASSUME NEW t \in Pinners, NEW u \in HandPinned, NEW role \in Roles, NEW i \in Instruments,
             PinTyped(t, u, role, i)
      PROVE  PinsKnown'
  <2>1. u \in Universes
    BY SweepAssumption
  <2>2. /\ pin'[t].name = u /\ pin'[t].revision = Len(revisions[u]) + 1
        /\ \A s \in Pinners \ {t} : pin'[s] = pin[s]
    BY <1>5 DEF PinTyped, Types
  <2> QED BY <1>1, <1>3, <2>1, <2>2 DEF PinsKnown
<1>6. ASSUME NEW t \in Pinners, NEW resolved \in Instruments \cup {Unresolved}, SavePin(t, resolved)
      PROVE  PinsKnown'
  <2>1. pin'[t] = NoOne /\ \A s \in Pinners \ {t} : pin'[s] = pin[s]
    BY <1>6 DEF SavePin, Types
  <2> QED BY <1>3, <2>1 DEF PinsKnown
<1> QED BY <1>4, <1>5, <1>6, WhatChanges

(* A Definition loaded stays faithful, whatever edits follow. *)
LEMMA FaithfulStays ==
  ASSUME Inv, [Next]_vars, NEW d, d.name \in Universes, Faithful(d, revisions, members)
  PROVE  Faithful(d, revisions', members')
<1>1. Grows /\ Types /\ Types'
  BY EditsGrow, TypesStay DEF Inv
<1>2. /\ d.revision \in DOMAIN revisions'[d.name]
      /\ revisions'[d.name][d.revision] = revisions[d.name][d.revision]
  <2>1. d.revision \in DOMAIN revisions[d.name]
    BY DEF Faithful
  <2> QED BY <1>1, <2>1 DEF Grows, Extends, Types
<1>3. { m.symbol : m \in members[d.name] } \subseteq { m.symbol : m \in members'[d.name] }
  BY <1>1 DEF Grows
<1> QED BY <1>2, <1>3 DEF Faithful

LEMMA AtRestHolds == AtRest.phase = "at rest" /\ AtRest.loaded = <<>> /\ AtRest.done = 0
BY DEF AtRest

(* What a step may do to a sweep. *)
Began(p, declared) ==
  /\ BeginSweep(p, declared)
  /\ sweep'[p].phase = "listing"
  /\ sweep'[p].at = clock
  /\ sweep'[p].loaded = LoadedFrom(declared)

Identified(p, listing) ==
  /\ Identify(p, listing)
  /\ sweep'[p].phase = "evaluating"
  /\ sweep'[p].at = sweep[p].at
  /\ sweep'[p].loaded = sweep[p].loaded
  /\ sweep'[p].ranks = listing
  /\ sweep'[p].coins = DOMAIN listing \cup Unlisted(sweep[p].loaded, listing)

WentOn(p) ==
  /\ Evaluate(p)
  /\ sweep'[p].phase = sweep[p].phase
  /\ sweep'[p].at = sweep[p].at
  /\ sweep'[p].loaded = sweep[p].loaded
  /\ sweep'[p].done = sweep[p].done + 1
  /\ sweep'[p].ranks = sweep[p].ranks
  /\ sweep'[p].coins = sweep[p].coins

LEMMA EvaluateWentOn ==
  ASSUME Types, NEW p \in Sweepers, Evaluate(p)
  PROVE  WentOn(p)
<1>1. sweep[p] \in Sweep
  BY DEF Types
<1>2. sweep'[p] = [sweep[p] EXCEPT !.done = sweep[p].done + 1]
  BY DEF Evaluate, Types
<1> QED BY <1>1, <1>2 DEF Sweep, WentOn

LEMMA SweepAfter ==
  ASSUME Inv, [Next]_vars, NEW p \in Sweepers
  PROVE  \/ sweep'[p] = sweep[p]
         \/ /\ sweep'[p].phase \in {"at rest", "waiting"}
            /\ sweep'[p].loaded \in {sweep[p].loaded, <<>>}
         \/ \E declared \in Declarations : Began(p, declared)
         \/ \E listing \in Listings : Identified(p, listing)
         \/ WentOn(p)
<1>1. sweep \in [Sweepers -> Sweep] /\ sweep[p] \in Sweep
  BY DEF Inv, Types
<1>2. ASSUME NEW q \in Sweepers, SweepStep(q), q # p PROVE sweep'[p] = sweep[p]
  BY <1>1, <1>2 DEF SweepStep, Poll, Proceed, Fire, GiveUp, FindSwept, BeginSweep, Identify,
                    Evaluate, WriteBars, Fail
<1>3. ASSUME NEW force \in BOOLEAN, Fire(p, force)
      PROVE  sweep'[p].phase = "waiting" /\ sweep'[p].loaded = sweep[p].loaded
  <2>1. sweep'[p] = [sweep[p] EXCEPT !.phase = "waiting", !.force = force]
    BY <1>1, <1>3 DEF Fire
  <2> QED BY <1>1, <2>1 DEF Sweep
<1>4. ASSUME GiveUp(p) \/ WriteBars(p) \/ Fail(p) \/ \E declared \in Declarations : FindSwept(p, declared)
      PROVE  sweep'[p].phase = "at rest" /\ sweep'[p].loaded = <<>>
  <2>1. sweep'[p] = AtRest
    BY <1>1, <1>4 DEF GiveUp, WriteBars, Fail, FindSwept
  <2> QED BY <2>1, AtRestHolds
<1>5. ASSUME NEW declared \in Declarations, BeginSweep(p, declared)
      PROVE  Began(p, declared)
  <2>1. sweep' = [sweep EXCEPT ![p] = [ AtRest EXCEPT !.phase = "listing", !.at = clock,
                                          !.loaded = LoadedFrom(declared) ]]
    BY <1>5, BeginSweepKeepsTypes DEF Inv
  <2>2. sweep'[p] = [ AtRest EXCEPT !.phase = "listing", !.at = clock, !.loaded = LoadedFrom(declared) ]
    BY <1>1, <2>1
  <2> QED BY <1>5, <2>2 DEF AtRest, Began
<1>6. ASSUME NEW listing \in Listings, Identify(p, listing) PROVE Identified(p, listing)
  <2> DEFINE coins == DOMAIN listing \cup Unlisted(sweep[p].loaded, listing)
  <2>1. sweep'[p] = [sweep[p] EXCEPT !.phase = "evaluating", !.ranks = listing, !.coins = coins]
    BY <1>1, <1>6 DEF Identify
  <2> HIDE DEF coins
  <2>2. /\ sweep'[p].phase = "evaluating" /\ sweep'[p].at = sweep[p].at
        /\ sweep'[p].loaded = sweep[p].loaded
        /\ sweep'[p].ranks = listing /\ sweep'[p].coins = coins
    BY <1>1, <2>1 DEF Sweep
  <2> QED BY <1>6, <2>2 DEF Identified, coins
<1>7. ASSUME Evaluate(p) PROVE WentOn(p)
  BY <1>7, EvaluateWentOn DEF Inv
<1>8. CASE UNCHANGED sweep
  BY <1>8
<1>9. CASE SweepStep(p)
  BY <1>3, <1>4, <1>5, <1>6, <1>7, <1>9 DEF SweepStep, Poll, Proceed
<1> QED BY <1>2, <1>8, <1>9, WhatChanges

LEMMA LoadedKnownStays ==
  ASSUME Inv, [Next]_vars
  PROVE  LoadedKnown'
<1> SUFFICES ASSUME NEW p \in Sweepers, NEW k \in DOMAIN sweep'[p].loaded
             PROVE  Faithful(sweep'[p].loaded[k], revisions', members')
  BY DEF LoadedKnown
<1>1. CASE sweep'[p].loaded = sweep[p].loaded
  <2>1. Faithful(sweep[p].loaded[k], revisions, members)
    BY <1>1 DEF Inv, LoadedKnown
  <2>2. sweep[p].loaded[k] \in Loaded
    BY <1>1 DEF Inv, Types, Sweep
  <2>3. sweep[p].loaded[k].name \in Universes
    BY <2>2 DEF Loaded
  <2> QED BY <1>1, <2>1, <2>3, FaithfulStays
<1>2. CASE sweep'[p].loaded = <<>>
  BY <1>2
<1>3. ASSUME NEW declared \in Declarations, BeginSweep(p, declared),
             sweep'[p].loaded = LoadedFrom(declared)
      PROVE  Faithful(sweep'[p].loaded[k], revisions', members')
  <2> DEFINE d == LoadedFrom(declared)[k]
  <2>1. k \in DOMAIN LoadedFrom(declared)
    BY <1>3
  <2>2. /\ d.revision \in DOMAIN Ensured(declared)[d.name]
        /\ d.band = Ensured(declared)[d.name][d.revision]
        /\ \E r : /\ d.inclusions = Standing(d.name, Inclusion, r)
                  /\ d.exclusions = Standing(d.name, Exclusion, r)
    BY <2>1, LoadedIsTyped DEF Inv
  <2>3. d.name \in Universes
    <3>1. d \in Loaded
      BY <2>1, LoadedIsTyped DEF Inv
    <3> QED BY <3>1 DEF Loaded
  <2>4. revisions' = Ensured(declared) /\ members' = members
    BY <1>3 DEF BeginSweep, Reconciled
  <2>5. \A role, r : Standing(d.name, role, r) \subseteq { m.symbol : m \in members[d.name] }
    BY <2>3 DEF Standing, Inv, MembersKnown
  <2> QED BY <1>3, <2>2, <2>4, <2>5 DEF Faithful
<1> QED BY <1>1, <1>2, <1>3, SweepAfter DEF Began, Identified, WentOn

(* What a step may do to the Runs: one is appended, by the sweep that has   *)
(* the lock, under a Definition it loaded.                                  *)
Appended(p) ==
  /\ WentOn(p)
  /\ lock = p
  /\ sweep[p].phase = "evaluating"
  /\ sweep[p].ranks \in Listings
  /\ sweep[p].at \in Nat
  /\ Current(p) \in Loaded
  /\ \E k \in DOMAIN sweep[p].loaded : Current(p) = sweep[p].loaded[k]
  /\ Recorded(p)
  /\ RunOf(p) \in Run
  /\ \A u \in Universes :
       /\ \A k \in DOMAIN runs[u] : k \in DOMAIN runs'[u] /\ runs'[u][k] = runs[u][k]
       /\ \A k \in DOMAIN runs'[u] :
            k \in DOMAIN runs[u]
              \/ (u = Current(p).name /\ k = Len(runs[u]) + 1 /\ runs'[u][k] = RunOf(p))

LEMMA RunsAfter ==
  ASSUME Inv, [Next]_vars
  PROVE  UNCHANGED runs \/ \E p \in Sweepers : Appended(p)
<1> SUFFICES ASSUME NEW p \in Sweepers, Evaluate(p), ~ UNCHANGED runs PROVE Appended(p)
  BY WhatChanges
<1>1. sweep[p].phase = "evaluating" /\ lock = p /\ sweep[p].ranks \in Listings
  BY ZenonT(40) DEF Inv, Ordered, Active, Evaluate
<1>2. /\ sweep[p].done + 1 \in DOMAIN sweep[p].loaded
      /\ Current(p) \in Loaded /\ Current(p).name \in Universes
  BY CurrentIsLoaded DEF Inv, Evaluate
<1>3. RunOf(p) \in Run
  BY <1>1, EvaluateAppends DEF Inv
<1>4. Recorded(p) /\ runs' = [runs EXCEPT ![Current(p).name] = Append(runs[Current(p).name], RunOf(p))]
  BY <1>1, EvaluateAppends DEF Inv
<1>5. sweep[p] \in Sweep /\ sweep[p].at \in Nat
  BY DEF Inv, Types, Sweep
<1>6. WentOn(p)
  BY EvaluateWentOn DEF Inv
<1>7. ASSUME NEW u \in Universes
      PROVE  /\ \A k \in DOMAIN runs[u] : k \in DOMAIN runs'[u] /\ runs'[u][k] = runs[u][k]
             /\ \A k \in DOMAIN runs'[u] :
                  k \in DOMAIN runs[u]
                    \/ (u = Current(p).name /\ k = Len(runs[u]) + 1 /\ runs'[u][k] = RunOf(p))
  <2>1. runs \in [Universes -> Seq(Run)] /\ runs[u] \in Seq(Run)
    BY DEF Inv, Types
  <2>2. CASE u # Current(p).name
    BY <1>4, <2>1, <2>2
  <2>3. CASE u = Current(p).name
    <3>1. runs'[u] = Append(runs[u], RunOf(p))
      BY <1>4, <2>1, <2>3
    <3> QED BY <1>3, <2>1, <2>3, <3>1
  <2> QED BY <2>2, <2>3
<1> QED BY <1>1, <1>2, <1>3, <1>4, <1>5, <1>6, <1>7 DEF Appended, Current

(* No step takes a Run back, or the revision it is stamped with. *)
LEMMA RunsKnownStays ==
  ASSUME Inv, [Next]_vars
  PROVE  RunsKnown'
<1>1. ASSUME NEW u \in Universes, NEW r \in DOMAIN revisions[u] PROVE r \in DOMAIN revisions'[u]
  BY <1>1, EditsGrow, TypesStay DEF Grows, Extends, Types, Inv
<1>2. CASE UNCHANGED runs
  BY <1>1, <1>2 DEF Inv, RunsKnown
<1>3. ASSUME NEW p \in Sweepers, Appended(p) PROVE RunsKnown'
  <2>1. Current(p).revision \in DOMAIN revisions[Current(p).name]
    BY <1>3 DEF Appended, Inv, LoadedKnown, Faithful
  <2>2. Current(p).name \in Universes
    BY <1>3 DEF Appended, Loaded
  <2>3. RunOf(p).revision = Current(p).revision
    BY DEF RunOf
  <2> SUFFICES ASSUME NEW u \in Universes, NEW k \in DOMAIN runs'[u]
               PROVE  runs'[u][k].revision \in DOMAIN revisions'[u]
    BY DEF RunsKnown
  <2>4. CASE k \in DOMAIN runs[u]
    BY <1>1, <1>3, <2>4 DEF Appended, Inv, RunsKnown
  <2>5. CASE k \notin DOMAIN runs[u]
    BY <1>1, <1>3, <2>1, <2>2, <2>3, <2>5 DEF Appended
  <2> QED BY <2>4, <2>5
<1> QED BY <1>2, <1>3, RunsAfter

(* The band, for one Run and one coin. *)
FollowsBand(run, band, previous, typed, i) ==
  (i \in run.members) # (i \in DOMAIN run.ranks /\ InBand(band, run.ranks[i], i \in previous))
    => i \in typed

Before(series, k) == IF k > 1 THEN series[k - 1].members ELSE {}

LEMMA RuleAsFollowsBand ==
  RuleFollowsBand <=>
    \A u \in Universes : \A k \in DOMAIN runs[u] : \A i \in Instruments :
      FollowsBand(runs[u][k], revisions[u][runs[u][k].revision], Before(runs[u], k),
                  { m.symbol : m \in members[u] }, i)
BY DEF RuleFollowsBand, FollowsBand, Before, Pinned, InBand

(* An evaluation follows the band it loaded, by the last Run. *)
LEMMA EvaluationFollowsBand ==
  ASSUME Inv, NEW p \in Sweepers, Appended(p), NEW i \in Instruments
  PROVE  LET u == Current(p).name
         IN  FollowsBand(RunOf(p), revisions[u][RunOf(p).revision], Before(runs[u], Len(runs[u]) + 1),
                         { m.symbol : m \in members[u] }, i)
<1> DEFINE u     == Current(p).name
           typed == { m.symbol : m \in members[u] }
<1>1. u \in Universes /\ runs[u] \in Seq(Run)
  BY DEF Appended, Loaded, Inv, Types
<1>2. Faithful(Current(p), revisions, members)
  BY DEF Appended, Inv, LoadedKnown
<1>3. Before(runs[u], Len(runs[u]) + 1) = InForce(u)
  <2>1. CASE runs[u] = <<>>
    BY <2>1 DEF Before, InForce
  <2>2. CASE runs[u] # <<>>
    <3>1. Len(runs[u]) \in Nat \ {0}
      BY <1>1, <2>2
    <3> QED BY <2>2, <3>1 DEF Before, InForce, Last
  <2> QED BY <2>1, <2>2
<1>4. Current(p).inclusions \cup Current(p).exclusions \subseteq typed
  BY <1>2 DEF Faithful
<1>5. revisions[u][RunOf(p).revision] = Current(p).band
  BY <1>2 DEF Faithful, RunOf
<1>6. i \notin typed =>
        (i \in RunOf(p).members <=>
           i \in DOMAIN RunOf(p).ranks /\ InBand(Current(p).band, RunOf(p).ranks[i], i \in InForce(u)))
  BY <1>4 DEF RunOf, Evaluated
<1> HIDE DEF u, typed
<1>7. FollowsBand(RunOf(p), revisions[u][RunOf(p).revision], Before(runs[u], Len(runs[u]) + 1), typed, i)
  BY <1>3, <1>5, <1>6 DEF FollowsBand
<1> QED BY <1>7 DEF u, typed

LEMMA RuleFollowsBandStays ==
  ASSUME Inv, [Next]_vars
  PROVE  RuleFollowsBand'
<1> SUFFICES ASSUME NEW u \in Universes, NEW k \in DOMAIN runs'[u], NEW i \in Instruments
             PROVE  FollowsBand(runs'[u][k], revisions'[u][runs'[u][k].revision],
                                Before(runs'[u], k), { m.symbol : m \in members'[u] }, i)
  BY DEF RuleFollowsBand, FollowsBand, Before, Pinned, InBand
<1>1. /\ Extends(revisions'[u], revisions[u])
      /\ { m.symbol : m \in members[u] } \subseteq { m.symbol : m \in members'[u] }
  BY EditsGrow DEF Grows, Inv
<1>2. ASSUME k \in DOMAIN runs[u], runs'[u][k] = runs[u][k],
             k > 1 => runs'[u][k - 1] = runs[u][k - 1]
      PROVE  FollowsBand(runs'[u][k], revisions'[u][runs'[u][k].revision],
                         Before(runs'[u], k), { m.symbol : m \in members'[u] }, i)
  <2>1. revisions'[u][runs[u][k].revision] = revisions[u][runs[u][k].revision]
    BY <1>1, <1>2 DEF Extends, Inv, RunsKnown
  <2>2. FollowsBand(runs[u][k], revisions[u][runs[u][k].revision], Before(runs[u], k),
                    { m.symbol : m \in members[u] }, i)
    BY <1>2, RuleAsFollowsBand DEF Inv
  <2>3. Before(runs'[u], k) = Before(runs[u], k)
    BY <1>2 DEF Before
  <2> QED BY <1>1, <1>2, <2>1, <2>2, <2>3 DEF FollowsBand
<1>3. CASE UNCHANGED runs
  BY <1>2, <1>3
<1>4. ASSUME NEW p \in Sweepers, Appended(p)
      PROVE  FollowsBand(runs'[u][k], revisions'[u][runs'[u][k].revision],
                         Before(runs'[u], k), { m.symbol : m \in members'[u] }, i)
  <2>1. runs[u] \in Seq(Run)
    BY DEF Inv, Types
  <2>2. CASE k \in DOMAIN runs[u]
    <3>1. k > 1 => k - 1 \in DOMAIN runs[u]
      BY <2>1, <2>2
    <3> QED BY <1>2, <1>4, <2>2, <3>1 DEF Appended
  <2>3. CASE k \notin DOMAIN runs[u]
    <3>1. u = Current(p).name /\ k = Len(runs[u]) + 1 /\ runs'[u][k] = RunOf(p)
      BY <1>4, <2>3 DEF Appended
    <3>2. k > 1 => runs'[u][k - 1] = runs[u][k - 1]
      <4>1. k > 1 => k - 1 \in DOMAIN runs[u]
        BY <2>1, <3>1
      <4> QED BY <1>4, <4>1 DEF Appended
    <3>3. Before(runs'[u], k) = Before(runs[u], k)
      BY <3>2 DEF Before
    <3>4. FollowsBand(RunOf(p), revisions[u][RunOf(p).revision], Before(runs[u], k),
                      { m.symbol : m \in members[u] }, i)
      BY <1>4, <3>1, EvaluationFollowsBand
    <3>5. RunOf(p).revision \in DOMAIN revisions[u]
      BY <1>4, <3>1, ZenonT(40) DEF Appended, Inv, LoadedKnown, Faithful, RunOf
    <3>6. revisions'[u][RunOf(p).revision] = revisions[u][RunOf(p).revision]
      BY <1>1, <3>5 DEF Extends
    <3> QED BY <1>1, <3>1, <3>3, <3>4, <3>6 DEF FollowsBand
  <2> QED BY <2>2, <2>3
<1> QED BY <1>3, <1>4, RunsAfter

LEMMA CoinsKnownStays ==
  ASSUME Inv, [Next]_vars
  PROVE  CoinsKnown'
<1> SUFFICES ASSUME NEW p \in Sweepers, sweep'[p].phase = "evaluating"
             PROVE  /\ DOMAIN sweep'[p].ranks \subseteq sweep'[p].coins
                    /\ \A k \in DOMAIN sweep'[p].loaded :
                         sweep'[p].loaded[k].inclusions \subseteq sweep'[p].coins
  BY DEF CoinsKnown
<1>1. CASE sweep'[p] = sweep[p] \/ WentOn(p)
  BY <1>1 DEF WentOn, Inv, CoinsKnown
<1>2. ASSUME NEW listing \in Listings, Identified(p, listing)
      PROVE  /\ DOMAIN sweep'[p].ranks \subseteq sweep'[p].coins
             /\ \A k \in DOMAIN sweep'[p].loaded :
                  sweep'[p].loaded[k].inclusions \subseteq sweep'[p].coins
  BY <1>2 DEF Identified, Unlisted
<1> QED BY <1>1, <1>2, SweepAfter DEF Began

LEMMA BarsStay ==
  ASSUME Inv, [Next]_vars
  PROVE  bars \subseteq bars' /\ BarsInWindow'
<1>1. CASE UNCHANGED bars
  BY <1>1 DEF Inv, BarsInWindow
<1>2. ASSUME NEW p \in Sweepers, WriteBars(p) PROVE bars \subseteq bars' /\ BarsInWindow'
  <2>1. CASE Late(sweep[p].at)
    BY <1>2, <2>1 DEF WriteBars, Inv, BarsInWindow
  <2>2. CASE ~ Late(sweep[p].at)
    <3>1. bars' = Upserted(NewBars(p))
      BY <1>2, <2>2 DEF WriteBars
    <3>2. bars \subseteq bars' /\ \A bar \in bars' : bar \in bars \/ bar.fetched_at = sweep[p].at
      BY <3>1, UpsertedKeeps DEF Inv
    <3> QED BY <2>2, <3>2 DEF Inv, BarsInWindow
  <2> QED BY <2>1, <2>2
<1> QED BY <1>1, <1>2, WhatChanges

-----------------------------------------------------------------------------
(* The lock, the clock and the order of the Runs. *)

(* Only the sweep that begins takes the lock, and only its holder lets go.  *)
LEMMA LockAfter ==
  ASSUME Inv, [Next]_vars
  PROVE  /\ \A p \in Sweepers : Active(p)' => lock' = p
         /\ lock' = lock \/ lock' = NoOne \/ lock = NoOne
<1>1. \A p \in Sweepers : Active(p) => lock = p
  BY DEF Inv, Ordered
<1>2. sweep \in [Sweepers -> Sweep]
  BY DEF Inv, Types
<1>3. CASE UNCHANGED <<lock, sweep, torn>>
  BY <1>1, <1>3 DEF Active
<1>4. ASSUME NEW q \in Sweepers, SweepStep(q)
      PROVE  /\ \A p \in Sweepers : Active(p)' => lock' = p
             /\ lock' = lock \/ lock' = NoOne \/ lock = NoOne
  <2>1. \A p \in Sweepers \ {q} : sweep'[p] = sweep[p]
    BY <1>2, <1>4, ZenonT(40) DEF SweepStep, Poll, Proceed, Fire, GiveUp, FindSwept, BeginSweep, Identify,
                      Evaluate, WriteBars, Fail
  <2>2. CASE \E force \in BOOLEAN : Fire(q, force)
    <3>1. sweep'[q].phase \notin {"listing", "evaluating"}
      BY <2>2, SweepAfter DEF Fire, Began, Identified, WentOn, BeginSweep, Reconciled, Identify, Evaluate
    <3> QED BY <1>1, <2>1, <2>2, <3>1 DEF Fire, Active
  <2>3. CASE GiveUp(q) \/ \E declared \in Declarations : FindSwept(q, declared)
    <3>1. sweep'[q].phase = "at rest" /\ lock' = lock
      BY <1>2, <2>3, AtRestHolds DEF GiveUp, FindSwept
    <3> QED BY <1>1, <2>1, <3>1 DEF Active
  <2>4. CASE \E declared \in Declarations : BeginSweep(q, declared)
    BY <1>1, <2>1, <2>4, SweepAssumption DEF BeginSweep, Reconciled, LockIsFree, Active
  <2>5. CASE (\E listing \in Listings : Identify(q, listing)) \/ Evaluate(q)
    <3>1. lock' = lock /\ Active(q)
      BY <2>5 DEF Identify, Evaluate, Active
    <3> QED BY <1>1, <2>1, <3>1 DEF Active
  <2>6. CASE WriteBars(q) \/ Fail(q)
    <3>1. sweep'[q].phase = "at rest" /\ lock' = NoOne /\ lock = q
      BY <1>1, <1>2, <2>6, AtRestHolds DEF WriteBars, Fail, Active
    <3> QED BY <1>1, <2>1, <3>1 DEF Active
  <2> QED BY <1>4, <2>2, <2>3, <2>4, <2>5, <2>6 DEF SweepStep, Poll, Proceed
<1> QED BY <1>3, <1>4, WhatChanges

(* The clock does not go back, and a sweep's moment stays as it was read.   *)
LEMMA ClockAfter ==
  ASSUME Inv, [Next]_vars
  PROVE  /\ clock \in Nat /\ clock' \in Nat /\ clock <= clock'
         /\ Day(clock) \in Nat /\ Day(clock') \in Nat /\ Day(clock) <= Day(clock')
<1>1. clock \in Nat /\ clock' \in Nat
  BY TypesStay, SweepAssumption DEF Inv, Types
<1>2. clock <= clock'
  BY <1>1, WhatChanges DEF Tick
<1> QED BY <1>1, <1>2, DaysInOrder

LEMMA MomentAfter ==
  ASSUME Inv, [Next]_vars, NEW p \in Sweepers, Active(p)'
  PROVE  \/ Active(p) /\ sweep'[p].at = sweep[p].at
         \/ sweep'[p].at = clock /\ UNCHANGED runs
<1>1. CASE sweep'[p] = sweep[p]
  BY <1>1 DEF Active
<1>2. CASE \E declared \in Declarations : Began(p, declared)
  BY <1>2 DEF Began, BeginSweep
<1>3. CASE (\E listing \in Listings : Identified(p, listing)) \/ WentOn(p)
  BY <1>3 DEF Identified, WentOn, Identify, Evaluate, Active
<1> QED BY <1>1, <1>2, <1>3, SweepAfter DEF Active

LEMMA OrderedStays ==
  ASSUME Inv, [Next]_vars
  PROVE  Ordered'
<1>1. \A p \in Sweepers : Active(p)' => lock' = p
  BY LockAfter
<1>2. ASSUME NEW p \in Sweepers, Active(p)'
      PROVE  sweep'[p].at <= clock' /\ sweep'[p].at \in Nat
  <2>1. sweep'[p].at \in Nat
    BY TypesStay DEF Types, Sweep
  <2>2. Active(p) => sweep[p].at <= clock
    BY DEF Inv, Ordered
  <2> QED BY <1>2, <2>1, <2>2, MomentAfter, ClockAfter
<1>3. \A p \in Sweepers : sweep'[p].phase = "evaluating" => sweep'[p].ranks \in Listings
  <2> SUFFICES ASSUME NEW p \in Sweepers, sweep'[p].phase = "evaluating"
               PROVE  sweep'[p].ranks \in Listings
    OBVIOUS
  <2>1. sweep[p].phase = "evaluating" => sweep[p].ranks \in Listings
    BY DEF Inv, Ordered
  <2> QED BY <2>1, SweepAfter DEF Began, Identified, WentOn
<1>4. \A u \in Universes : \A k \in DOMAIN runs[u] :
        /\ runs[u][k].day \in Nat /\ runs[u][k].day <= Day(clock)
        /\ \A p \in Sweepers : Active(p) => runs[u][k].day <= Day(sweep[p].at)
  <2>1. \A u \in Universes : runs[u] \in Seq(Run)
    BY DEF Inv, Types
  <2>2. \A u \in Universes : \A k \in DOMAIN runs[u] : runs[u][k] \in Run
    BY <2>1
  <2> QED BY <2>2 DEF Inv, Ordered, Run
<1>5. ASSUME NEW p \in Sweepers, Appended(p), NEW u \in Universes, NEW k \in DOMAIN runs[u],
             u = Current(p).name
      PROVE  runs[u][k].day < RunOf(p).day
  <2>1. Active(p)
    BY <1>5 DEF Appended, Active
  <2>2. runs[u][k].day # Day(sweep[p].at)
    BY <1>5 DEF Appended, Recorded, RunOn
  <2>3. Day(sweep[p].at) \in Nat
    BY <1>5, DaysInOrder DEF Appended
  <2> QED BY <1>4, <2>1, <2>2, <2>3 DEF RunOf
<1>6. ASSUME NEW u \in Universes, NEW k \in DOMAIN runs'[u]
      PROVE  /\ runs'[u][k].day <= Day(clock')
             /\ \A p \in Sweepers : Active(p)' => runs'[u][k].day <= Day(sweep'[p].at)
  <2>1. CASE k \in DOMAIN runs[u] /\ runs'[u][k] = runs[u][k]
    <3>1. runs[u][k].day <= Day(clock')
      BY <1>4, <2>1, ClockAfter
    <3>2. ASSUME NEW p \in Sweepers, Active(p)' PROVE runs[u][k].day <= Day(sweep'[p].at)
      BY <1>4, <2>1, <3>2, MomentAfter
    <3> QED BY <2>1, <3>1, <3>2
  <2>2. CASE ~ (k \in DOMAIN runs[u] /\ runs'[u][k] = runs[u][k])
    <3>1. PICK p \in Sweepers : Appended(p)
      BY <2>2, RunsAfter
    <3>2. runs'[u][k] = RunOf(p) /\ RunOf(p).day = Day(sweep[p].at)
      BY <2>2, <3>1 DEF Appended, RunOf
    <3>3. Active(p) /\ sweep[p].at <= clock /\ lock = p /\ sweep[p].at \in Nat
      BY <3>1 DEF Appended, Inv, Ordered, Active
    <3>4. Day(sweep[p].at) <= Day(clock) /\ Day(sweep[p].at) \in Nat
      BY <3>3, ClockAfter, DaysInOrder
    <3>5. sweep'[p].at = sweep[p].at /\ lock' = p
      BY <3>1, <3>3 DEF Appended, WentOn, Evaluate
    <3>6. \A q \in Sweepers : Active(q)' => q = p
      BY <1>1, <3>5
    <3> QED BY <3>2, <3>4, <3>5, <3>6, ClockAfter
  <2> QED BY <2>1, <2>2
<1>7. OneRunPerDay'
  <2> SUFFICES ASSUME NEW u \in Universes, NEW j \in DOMAIN runs'[u], NEW k \in DOMAIN runs'[u], j < k
               PROVE  runs'[u][j].day < runs'[u][k].day
    BY DEF OneRunPerDay
  <2>1. \A l, m \in DOMAIN runs[u] : l < m => runs[u][l].day < runs[u][m].day
    BY DEF Inv, Ordered, OneRunPerDay
  <2>2. CASE UNCHANGED runs
    BY <2>1, <2>2
  <2>3. ASSUME NEW p \in Sweepers, Appended(p) PROVE runs'[u][j].day < runs'[u][k].day
    <3>1. runs[u] \in Seq(Run) /\ runs'[u] \in Seq(Run)
      BY TypesStay DEF Inv, Types
    <3>2. CASE k \in DOMAIN runs[u]
      <4>1. j \in DOMAIN runs[u]
        BY <3>1, <3>2
      <4> QED BY <2>1, <2>3, <3>2, <4>1 DEF Appended
    <3>3. CASE k \notin DOMAIN runs[u]
      <4>1. u = Current(p).name /\ k = Len(runs[u]) + 1 /\ runs'[u][k] = RunOf(p)
        BY <2>3, <3>3 DEF Appended
      <4>2. j \in DOMAIN runs[u]
        BY <3>1, <4>1
      <4> QED BY <1>5, <2>3, <4>1, <4>2 DEF Appended
    <3> QED BY <3>2, <3>3
  <2> QED BY <2>2, <2>3, RunsAfter
<1> QED BY <1>1, <1>2, <1>3, <1>6, <1>7 DEF Ordered

-----------------------------------------------------------------------------
(* The prices *)

(* The sweep that is to price a Run still is, has, or is torn. *)
LEMMA ToBePricedAfter ==
  ASSUME Inv, [Next]_vars, NEW run, run.day \notin torn', NEW p \in Sweepers, ToBePriced(run, p)
  PROVE  Priced(run)' \/ ToBePriced(run, p)'
<1>1. sweep \in [Sweepers -> Sweep] /\ sweep[p].done \in Nat
  BY DEF Inv, Types, Sweep
<1>2. lock = p /\ p # NoOne /\ sweep[p].phase = "evaluating"
  BY SweepAssumption DEF ToBePriced
<1>3. CASE UNCHANGED <<lock, sweep, torn>>
  BY <1>3 DEF ToBePriced
<1>4. ASSUME NEW q \in Sweepers, SweepStep(q), q # p PROVE ToBePriced(run, p)'
  <2>1. ~ Active(q) /\ lock # q
    BY <1>2, <1>4 DEF Inv, Ordered
  <2>2. lock' = lock /\ sweep'[p] = sweep[p]
    BY <1>1, <1>2, <1>4, <2>1 DEF SweepStep, Poll, Proceed, Fire, GiveUp, FindSwept, BeginSweep,
         Reconciled, LockIsFree, Identify, Evaluate, WriteBars, Fail, Active
  <2> QED BY <2>2 DEF ToBePriced
<1>5. ASSUME Evaluate(p) PROVE ToBePriced(run, p)'
  <2>1. WentOn(p)
    BY <1>5, EvaluateWentOn DEF Inv
  <2>2. lock' = lock
    BY <1>5 DEF Evaluate
  <2>3. sweep'[p].done > 0
    BY <1>1, <2>1 DEF WentOn
  <2> QED BY <2>1, <2>2, <2>3 DEF WentOn, ToBePriced
<1>6. ASSUME WriteBars(p) PROVE Priced(run)'
  <2>1. bars' = Upserted(NewBars(p))
    BY <1>6 DEF WriteBars, ToBePriced
  <2>2. \A i \in sweep[p].coins : \E bar \in bars' :
          bar.instrument = i /\ bar.day = Day(sweep[p].at)
    BY <2>1, UpsertedKeeps DEF Inv
  <2> QED BY <2>2 DEF ToBePriced, Priced
<1>7. ASSUME Fail(p) PROVE FALSE
  BY <1>7 DEF Fail, ToBePriced
<1>8. ASSUME SweepStep(p) PROVE Evaluate(p) \/ WriteBars(p) \/ Fail(p)
  BY <1>2, <1>8 DEF SweepStep, Poll, Proceed, Fire, GiveUp, FindSwept, BeginSweep, Reconciled,
       Identify
<1> QED BY <1>3, <1>4, <1>5, <1>6, <1>7, <1>8, WhatChanges

LEMMA PricedOrToBeStays ==
  ASSUME Inv, [Next]_vars
  PROVE  PricedOrToBe'
<1> SUFFICES ASSUME NEW u \in Universes, NEW k \in DOMAIN runs'[u], NEW run, run = runs'[u][k],
                    ~ run.late, run.day \notin torn'
             PROVE  Priced(run)' \/ \E p \in Sweepers : ToBePriced(run, p)'
  BY DEF PricedOrToBe, Priced, ToBePriced
<1>1. torn \subseteq torn'
  BY WhatChanges DEF SweepStep, Poll, Proceed, Fire, GiveUp, FindSwept, BeginSweep, Identify,
       Evaluate, WriteBars, Fail
<1>2. CASE k \in DOMAIN runs[u] /\ run = runs[u][k]
  <2>1. Priced(run) \/ \E p \in Sweepers : ToBePriced(run, p)
    BY <1>1, <1>2 DEF Inv, PricedOrToBe
  <2>2. Priced(run) => Priced(run)'
    BY BarsStay DEF Priced
  <2> QED BY <2>1, <2>2, ToBePricedAfter
<1>3. CASE ~ (k \in DOMAIN runs[u] /\ run = runs[u][k])
  <2>1. PICK p \in Sweepers : Appended(p)
    BY <1>3, RunsAfter
  <2>2. run = RunOf(p)
    BY <1>3, <2>1 DEF Appended
  <2>3. RunOf(p).members \subseteq sweep[p].coins
    BY <2>1 DEF Appended, Inv, CoinsKnown, RunOf, Evaluated
  <2>4. sweep[p].done \in Nat
    BY DEF Inv, Types, Sweep
  <2>5. lock' = p
    BY <2>1 DEF Appended, WentOn, Evaluate
  <2>6. ToBePriced(run, p)'
    BY <2>1, <2>2, <2>3, <2>4, <2>5 DEF Appended, WentOn, ToBePriced, RunOf
  <2> QED BY <2>6
<1> QED BY <1>2, <1>3

-----------------------------------------------------------------------------
(* The theorems *)

LEMMA InvAtInit == Init => Inv
<1> SUFFICES ASSUME Init PROVE Inv
  OBVIOUS
<1>1. Types
  BY AtRestIsTyped, SweepAssumption DEF Init, Types
<1>2. \A p \in Sweepers : sweep[p].phase = "at rest" /\ DOMAIN sweep[p].loaded = {}
  <2>1. \A p \in Sweepers : sweep[p] = AtRest
    BY DEF Init
  <2>2. DOMAIN <<>> = {}
    OBVIOUS
  <2> QED BY <2>1, <2>2, AtRestHolds
<1>3. \A u \in Universes : DOMAIN runs[u] = {}
  BY DEF Init
<1>4. MembersKnown /\ PinsKnown /\ RunsKnown /\ RuleFollowsBand /\ PricedOrToBe /\ BarsInWindow
  BY DEF Init, MembersKnown, PinsKnown, RunsKnown, RuleFollowsBand, PricedOrToBe, BarsInWindow
<1>5. LoadedKnown /\ CoinsKnown
  BY <1>2 DEF LoadedKnown, CoinsKnown
<1>6. Ordered
  BY <1>2, <1>3 DEF Ordered, Active, OneRunPerDay
<1> QED BY <1>1, <1>4, <1>5, <1>6 DEF Inv

LEMMA InvStays == Inv /\ [Next]_vars => Inv'
<1> SUFFICES ASSUME Inv, [Next]_vars PROVE Inv'
  OBVIOUS
<1>1. Types' /\ MembersKnown' /\ PinsKnown' /\ LoadedKnown'
  BY TypesStay, MembersKnownStays, PinsKnownStays, LoadedKnownStays
<1>2. RunsKnown' /\ Ordered' /\ RuleFollowsBand'
  BY RunsKnownStays, OrderedStays, RuleFollowsBandStays
<1>3. CoinsKnown' /\ PricedOrToBe' /\ BarsInWindow'
  BY CoinsKnownStays, PricedOrToBeStays, BarsStay
<1> QED BY <1>1, <1>2, <1>3 DEF Inv

(* The inductive invariant holds throughout. *)
THEOREM SweepInvariant == Spec => []Inv
BY InvAtInit, InvStays, PTL DEF Spec

(* Rows stay what their columns admit: the stamps of members and Runs are   *)
(* revisions that stand, in save_universe and record_membership alike.      *)
THEOREM TypesHold == Spec => []TypeOK
<1>1. Inv => TypeOK
  <2> SUFFICES ASSUME Inv PROVE TypeOK
    OBVIOUS
  <2>1. Types /\ MembersKnown /\ RunsKnown /\ BarsInWindow
    BY DEF Inv
  <2>2. \A u \in Universes : members[u] \subseteq Member(u)
    <3> SUFFICES ASSUME NEW u \in Universes, NEW m \in members[u] PROVE m \in Member(u)
      OBVIOUS
    <3>1. m \in Row /\ m.added_in_revision \in DOMAIN revisions[u]
      BY <2>1 DEF Types, MembersKnown
    <3> QED BY <3>1 DEF Row, Member, Roles
  <2>3. \A u \in Universes : \A k \in DOMAIN runs[u] : runs[u][k].members \subseteq Instruments
    <3> SUFFICES ASSUME NEW u \in Universes, NEW k \in DOMAIN runs[u]
                 PROVE  runs[u][k].members \subseteq Instruments
      OBVIOUS
    <3>1. runs[u] \in Seq(Run)
      BY <2>1 DEF Types
    <3>2. runs[u][k] \in Run
      BY <3>1
    <3> QED BY <3>2 DEF Run
  <2>4. \A bar \in bars : bar.instrument \in Instruments /\ ~ Late(bar.fetched_at)
    BY <2>1 DEF Types, Bar, BarsInWindow
  <2> QED BY <2>1, <2>2, <2>3, <2>4 DEF TypeOK, Types, RunsKnown
<1> QED BY <1>1, SweepInvariant, PTL

(* However many sweeps fire, are forced, retried or die, a universe has one *)
(* Run a day, in date order (_evaluate_once_a_day behind the sweep lock).   *)
THEOREM RunsAreOrdered == Spec => []OneRunPerDay
<1>1. Inv => OneRunPerDay
  BY DEF Inv, Ordered
<1> QED BY <1>1, SweepInvariant, PTL

(* record_membership refuses no evaluation of a sweep that holds the lock.  *)
THEOREM NoneIsRefused == Spec => []NeverRefused
<1>1. Inv => NeverRefused
  <2> SUFFICES ASSUME Inv, NEW p \in Sweepers, NEW u \in Universes,
                      sweep[p].phase = "evaluating", runs[u] # <<>>
               PROVE  ~ Day(sweep[p].at) < Last(runs[u]).day
    BY DEF NeverRefused, Refused
  <2>1. runs[u] \in Seq(Run) /\ sweep[p].at \in Nat
    BY DEF Inv, Types, Sweep
  <2>2. Len(runs[u]) \in DOMAIN runs[u] /\ Last(runs[u]) = runs[u][Len(runs[u])]
    BY <2>1 DEF Last
  <2>3. Last(runs[u]) \in Run
    BY <2>1, <2>2
  <2>4. Last(runs[u]).day <= Day(sweep[p].at)
    BY <2>2 DEF Inv, Ordered, Active
  <2>5. Day(sweep[p].at) \in Nat /\ Last(runs[u]).day \in Nat
    BY <2>1, <2>3, DaysInOrder DEF Run
  <2> QED BY <2>4, <2>5
<1> QED BY <1>1, SweepInvariant, PTL

(* Evaluation under any edits, retries and interleavings keeps the band's   *)
(* hysteresis, at the revision its Run is stamped with (evaluate, sweep).   *)
THEOREM RuleIsFollowed == Spec => []RuleFollowsBand
<1>1. Inv => RuleFollowsBand
  BY DEF Inv
<1> QED BY <1>1, SweepInvariant, PTL

(* What a finished day evaluated is priced, whichever sweep of the day did  *)
(* which part (sweep, _unlisted_inclusions).                                *)
THEOREM MembersGetPrices == Spec => []MembersArePriced
<1>1. Inv => MembersArePriced
  BY SweepAssumption DEF Inv, PricedOrToBe, Priced, ToBePriced, MembersArePriced
<1> QED BY <1>1, SweepInvariant, PTL

(* No step loses or rewrites a bar of a day (upsert_bars behind the filter  *)
(* of sweep).                                                               *)
THEOREM BarsAreKept == Spec => DayBarsStand
<1>1. Inv /\ [Next]_vars => [bars \subseteq bars']_vars
  BY BarsStay
<1> QED BY <1>1, SweepInvariant, PTL DEF Spec, DayBarsStand

-----------------------------------------------------------------------------
(* Trades.  Nothing but hold edits portfolio-held: a member pinned into it  *)
(* by hand could replace the Inclusion of the same ticker and revision.     *)

LEMMA HeldMembersStay ==
  ASSUME PortfolioHeld \notin HandPinned, Inv, [Next]_vars
  PROVE  members[PortfolioHeld] \subseteq members'[PortfolioHeld]
<1>1. PortfolioHeld \in Universes
  BY BandsAreBands
<1>2. CASE UNCHANGED members
  BY <1>2
<1>3. ASSUME NEW t \in Pinners, NEW resolved \in Instruments \cup {Unresolved}, SavePin(t, resolved)
      PROVE  members[PortfolioHeld] \subseteq members'[PortfolioHeld]
  <2>1. pin[t].name # PortfolioHeld
    BY <1>3, SavePinSaves DEF Inv, Pin
  <2> QED BY <1>1, <1>3, <2>1, SavePinSaves, SavedMemberGrows DEF Inv
<1>4. ASSUME NEW i \in Traded, HoldTraded(i)
      PROVE  members[PortfolioHeld] \subseteq members'[PortfolioHeld]
  <2>1. CASE Included(i)
    BY <1>4, <2>1 DEF HoldTraded, Held, definitions
  <2>2. CASE ~ Included(i)
    <3> SUFFICES ASSUME NEW m \in members[PortfolioHeld] PROVE m \in members'[PortfolioHeld]
      OBVIOUS
    <3>1. /\ m.added_in_revision \in DOMAIN revisions[PortfolioHeld]
          /\ revisions[PortfolioHeld] \in Seq(Band)
      BY <1>1 DEF Inv, MembersKnown, Types
    <3>2. m.added_in_revision # Len(revisions[PortfolioHeld]) + 1
      BY <3>1
    <3>3. HoldRow(i) \in Row /\ members' = SavedMember(PortfolioHeld, HoldRow(i))
      BY <1>4, <2>2, HoldTradedSaves DEF Inv
    <3>4. HoldRow(i).added_in_revision = Len(revisions[PortfolioHeld]) + 1
      BY <1>4, <2>2, HoldTradedSaves DEF Inv
    <3> QED BY <1>1, <3>2, <3>3, <3>4, SavedMemberGrows DEF Inv
  <2> QED BY <2>1, <2>2
<1> QED BY <1>2, <1>3, <1>4, WhatChanges

LEMMA IncludedStays ==
  ASSUME PortfolioHeld \notin HandPinned, Inv, [Next]_vars, NEW i, Included(i)
  PROVE  Included(i)'
<1>1. PICK m \in members[PortfolioHeld] :
        /\ m.instrument = i /\ m.role = Inclusion /\ m.instrument # Unresolved
        /\ m.added_in_revision <= Len(revisions[PortfolioHeld])
  BY DEF Included, Standing
<1>2. m \in members'[PortfolioHeld]
  BY HeldMembersStay
<1>3. m.added_in_revision \in Nat
  BY BandsAreBands DEF Inv, Types, Row
<1>4. /\ Len(revisions[PortfolioHeld]) <= Len(revisions'[PortfolioHeld])
      /\ Len(revisions[PortfolioHeld]) \in Nat /\ Len(revisions'[PortfolioHeld]) \in Nat
  BY BandsAreBands, EditsGrow, TypesStay DEF Inv, Grows, Extends, Types
<1>5. m.added_in_revision <= Len(revisions'[PortfolioHeld])
  BY <1>1, <1>3, <1>4
<1> QED BY <1>1, <1>2, <1>5 DEF Included, Standing

LEMMA HoldIncludes ==
  ASSUME PortfolioHeld \notin HandPinned, Inv, [Next]_vars, NEW i \in Traded, HoldTraded(i)
  PROVE  Included(i)'
<1>1. CASE Included(i)
  BY <1>1, IncludedStays
<1>2. CASE ~ Included(i)
  <2>1. PortfolioHeld \in Universes
    BY BandsAreBands
  <2>2. HoldRow(i) \in members'[PortfolioHeld]
    BY <1>2, <2>1, HoldTradedSaves, SavedMemberGrows DEF Inv
  <2>3. /\ HoldRow(i).added_in_revision \in DOMAIN revisions'[PortfolioHeld]
        /\ revisions'[PortfolioHeld] \in Seq(Band)
    BY <1>2, <2>1, HoldTradedSaves, TypesStay DEF Inv, Types
  <2>4. HoldRow(i).added_in_revision <= Len(revisions'[PortfolioHeld])
    BY <2>3
  <2>5. HoldRow(i).role = Inclusion /\ HoldRow(i).instrument = i /\ i # Unresolved
    BY SweepAssumption DEF HoldRow
  <2> QED BY <2>2, <2>4, <2>5 DEF Included, Standing
<1> QED BY <1>1, <1>2

TradesHeld == \A i \in trades \cup pending : Included(i)

(* No Trade is stored before its Instrument is included, and no edit of the *)
(* Definition takes the Inclusion away again (add_trade, hold).             *)
THEOREM TradesAreIncluded ==
  ASSUME PortfolioHeld \notin HandPinned
  PROVE  Spec => []TradedIsIncluded
<1>1. Init => TradesHeld
  BY DEF Init, TradesHeld
<1>2. Inv /\ TradesHeld /\ [Next]_vars => TradesHeld'
  <2> SUFFICES ASSUME Inv, TradesHeld, [Next]_vars, NEW i \in trades' \cup pending'
               PROVE  Included(i)'
    BY DEF TradesHeld
  <2>1. i \in trades \cup pending \/ (i \in Traded /\ HoldTraded(i))
    BY ZenonT(40) DEF Next, vars, Tick, Edit, InitInstance, PinTyped, SavePin, HoldTraded, RecordTrade,
           SweepStep, Poll, Proceed, Fire, GiveUp, FindSwept, BeginSweep, Identify, Evaluate,
           WriteBars, Fail
  <2> QED BY <2>1, IncludedStays, HoldIncludes DEF TradesHeld
<1>3. TradesHeld => TradedIsIncluded
  BY DEF TradesHeld, TradedIsIncluded
<1> QED BY <1>1, <1>2, <1>3, SweepInvariant, PTL DEF Spec

=============================================================================
