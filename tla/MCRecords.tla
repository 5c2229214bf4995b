------------------------------ MODULE MCRecords ------------------------------
(***************************************************************************)
(* Trades, Series and the file they are kept in, in one run: each behaviour *)
(* moves one of them, and leaves the others where they begin.               *)
(***************************************************************************)
EXTENDS TradeLedger, SeriesStore, StoreOpen, TLC

CONSTANTS none, ann, bob, main, p1, p2, r1, r2, m1, m2, o1, o2

(* Two Instruments that may prove to be one: bought, sold, covered and bought again. *)
MCFills == {[instrument |-> 1, at |-> 0, quantity |-> 2, cost |-> 4],
            [instrument |-> 2, at |-> 1, quantity |-> 1, cost |-> 4],
            [instrument |-> 1, at |-> 1, quantity |-> -1, cost |-> none],
            [instrument |-> 1, at |-> 2, quantity |-> -2, cost |-> 3],
            [instrument |-> 2, at |-> 2, quantity |-> 1, cost |-> none],
            [instrument |-> 2, at |-> 3, quantity |-> 3, cost |-> 0]}
MCClose == <<0 :> 5 @@ 1 :> none, 0 :> none @@ 1 :> 7>>

RecordsSymmetry ==
  Permutations({ann, bob}) \cup Permutations({p1, p2}) \cup
  Permutations({r1, r2}) \cup Permutations({m1, m2})

VARIABLE part

RecordsInit ==
  /\ part \in {"trades", "covariances", "exposures", "opening", "restoring"}
  /\ LedgerInit /\ SeriesInit /\ FilesInit

InTrades == part = "trades" /\ UNCHANGED <<part, seriesVars, fileVars>>
InSeries(which) == part \in which /\ UNCHANGED <<part, ledgerVars, fileVars>>
Covariances == InSeries({"covariances"})
Exposures == InSeries({"exposures"})
EitherSeries == InSeries({"covariances", "exposures"})

(* Bound on the restores: one process opens the file, builds 1 and 2, in one second, *)
(* the other restores it, and only the first file is ever moved aside. *)
RestoreBound ==
  /\ second' = 0 /\ openers'[o2].at = "closed" /\ openers'[o1].build < 3
  /\ db' = NoFile => Len(files') <= 1

InFiles(which) ==
  /\ part \in which /\ UNCHANGED <<part, ledgerVars, seriesVars>>
  /\ part = "restoring" => RestoreBound
Restoring == InFiles({"restoring"})
Opening == InFiles({"opening", "restoring"})

RecordsNext ==
  \/ \E owner \in Owners, name \in Names : InTrades /\ CreatePortfolio(owner, name)
  \/ \E owner \in Owners, p \in DOMAIN portfolios, fill \in Fills :
       InTrades /\ AddTrade(owner, p, fill)
  \/ \E owner \in Owners, t \in DOMAIN trades : InTrades /\ VoidTrade(owner, t)
  \/ \E i, j \in Traded : InTrades /\ Fuse(i, j)
  \/ \E p \in Programs : Covariances /\ LoadCovariance(p)
  \/ \E p \in Programs : Covariances /\ SaveCovariance(p)
  \/ \E p \in Programs : Covariances /\ SaveModel(p)
  \/ \E p \in Programs, recipe \in Recipes : Covariances /\ StartModel(p, recipe)
  \/ \E p \in Programs, recipe \in Recipes : Covariances /\ EditModel(p, recipe)
  \/ \E p \in Programs, d \in AsOf, matrix \in Matrices : Covariances /\ Declare(p, d, matrix)
  \/ \E p \in Programs : Exposures /\ LoadExposure(p)
  \/ \E p \in Programs : Exposures /\ SaveExposure(p)
  \/ \E p \in Programs, axis \in Axes : Exposures /\ StartSector(p, axis)
  \/ \E p \in Programs, d \in AsOf, matrix \in Matrices :
       Exposures /\ AppendExposure(p, d, matrix)
  \/ \E p \in Programs : EitherSeries /\ CommitOther(p)
  \/ \E p \in Programs : EitherSeries /\ CloseStore(p)
  \/ PassSecond /\ Opening
  \/ \E p \in Openers, build \in Builds : Connect(p, build) /\ Opening
  \/ \E p \in Openers : Skip(p) /\ Opening
  \/ \E p \in Openers : RefuseGap(p) /\ Opening
  \/ \E p \in Openers : BackUp(p) /\ Opening
  \/ \E p \in Openers : ListTables(p) /\ Opening
  \/ \E p \in Openers : CreateTable(p) /\ Opening
  \/ \E p \in Openers : RefuseTable(p) /\ Opening
  \/ \E p \in Openers : TablesDone(p) /\ Opening
  \/ \E p \in Openers : CheckVersion(p) /\ Opening
  \/ \E p \in Openers : RecordFirst(p) /\ Opening
  \/ \E p \in Openers : ApplyStep(p) /\ Opening
  \/ \E p \in Openers : RecordStep(p) /\ Opening
  \/ \E p \in Openers : Leave(p) /\ Opening
  \/ MoveAside /\ Restoring
  \/ Take /\ Restoring
  \/ WriteManifest /\ Restoring
  \/ \E p \in Openers, build \in Builds : CheckRestore(p, build) /\ Restoring
  \/ \E p \in Openers : PutInPlace(p) /\ Restoring
  \/ \E p \in Openers : AbandonRestore(p) /\ Restoring

RecordsSpec == RecordsInit /\ [][RecordsNext]_<<part, ledgerVars, seriesVars, fileVars>>

(* The types of the trades, the Series and the files, one connection at a time holding *)
(* uncommitted rows, and no copy of a Series that its own constructor would refuse. *)
RecordsTypeOK == LedgerTypeOK /\ SeriesTypeOK /\ FilesTypeOK
=============================================================================
