----------------------------- MODULE SeriesStore -----------------------------
(***************************************************************************)
(* One Covariance Series with its Risk Model's revision log, and one        *)
(* Exposure Series on its Target axis, as rows, beside the copies programs   *)
(* hold of them.  A copy is a value: a program edits its own, and saves what *)
(* the store lacks.  A save that is refused leaves what it inserted before   *)
(* pending on its connection, for the next commit on it to publish.          *)
(***************************************************************************)
EXTENDS Integers, FiniteSets, Sequences, Functions

CONSTANTS
  Programs,        \* each with one Store, and so one connection
  Recipes,         \* RiskParameters
  Axes,            \* fixed Target axes
  AsOf,            \* dates, as numbers
  Matrices,
  NoCopy,
  MaxRevisions     \* bound

VARIABLES
  log,             \* the committed revision log: the recipe of revisions 1..n
  declared,        \* committed covariances by date: [revision, matrix], and the recipe
  exposures,       \* committed exposures by date: [axis, matrix]
  pending,         \* per program, what its connection would commit, or Empty
  risk,            \* per program, its CovarianceSeries: [log, entries], or NoCopy
  sector,          \* per program, its ExposureSeries: [axis, entries], or NoCopy
  parted           \* two copies took one revision number, or one name, for two things

seriesVars == <<log, declared, exposures, pending, risk, sector, parted>>

Empty == [log |-> <<>>, declared |-> <<>>, exposures |-> <<>>]

Committed == [log |-> log, declared |-> declared, exposures |-> exposures]

(* What a connection reads: its own rows once it has any, as no other can write then. *)
Rows(p) == IF pending[p] = Empty THEN Committed ELSE pending[p]

(* The revision logs, and what is declared; a recipe beside its number is a ghost. *)
RevisionLog == UNION {[1..n -> Recipes] : n \in 0..MaxRevisions}
DeclaredCovariance == [revision : 1..MaxRevisions, recipe : Recipes, matrix : Matrices]
Dated(S) == UNION {[D -> S] : D \in SUBSET AsOf}
CovarianceCopy == [log : RevisionLog, entries : Dated(DeclaredCovariance)]
ExposureCopy == [axis : Axes, entries : Dated(Matrices)]

ASSUME SeriesAssumption ==
  /\ MaxRevisions \in Nat \ {0}
  /\ NoCopy \notin CovarianceCopy /\ NoCopy \notin ExposureCopy

(* RiskModel, CovarianceSeries: the log is not empty, and every stamp is in it. *)
CovarianceLoads(rows) ==
  /\ rows.log # <<>>
  /\ \A d \in DOMAIN rows.declared : rows.declared[d].revision \in DOMAIN rows.log

(* ExposureSeries: there is an entry, and every entry is on the axis of the first. *)
ExposureLoads(rows) ==
  /\ rows.exposures # <<>>
  /\ \A d, e \in DOMAIN rows.exposures : rows.exposures[d].axis = rows.exposures[e].axis

SeriesTypeOK ==
  /\ log \in RevisionLog
  /\ \A d \in DOMAIN declared : declared[d] \in DeclaredCovariance
  /\ DOMAIN declared \subseteq AsOf /\ DOMAIN exposures \subseteq AsOf
  /\ Cardinality({p \in Programs : pending[p] # Empty}) <= 1
  /\ \A p \in Programs :
       /\ risk[p] # NoCopy => CovarianceLoads([log |-> risk[p].log, declared |-> risk[p].entries])
       /\ sector[p] # NoCopy => DOMAIN sector[p].entries \subseteq AsOf /\ sector[p].axis \in Axes

SeriesInit ==
  /\ log = <<>> /\ declared = <<>> /\ exposures = <<>>
  /\ pending = [p \in Programs |-> Empty]
  /\ risk = [p \in Programs |-> NoCopy]
  /\ sector = [p \in Programs |-> NoCopy]
  /\ parted = FALSE

-----------------------------------------------------------------------------
(* Reading back. *)

LoadCovariance(p) ==
  /\ CovarianceLoads(Rows(p))
  /\ risk' = [risk EXCEPT ![p] = [log |-> Rows(p).log, entries |-> Rows(p).declared]]
  /\ UNCHANGED <<log, declared, exposures, pending, sector, parted>>

LoadExposure(p) ==
  /\ ExposureLoads(Rows(p))
  /\ LET entries == Rows(p).exposures
     IN sector' = [sector EXCEPT ![p] =
          [axis |-> (CHOOSE e \in {entries[d] : d \in DOMAIN entries} : TRUE).axis,
           entries |-> [d \in DOMAIN entries |-> entries[d].matrix]]]
  /\ UNCHANGED <<log, declared, exposures, pending, risk, parted>>

-----------------------------------------------------------------------------
(* A program's own copy. *)

(* Whether another copy, or the store, has another recipe under a revision number. *)
Taken(p, n, recipe) ==
  \E other \in {log} \cup {risk[q].log : q \in {q \in Programs \ {p} : risk[q] # NoCopy}} :
    n \in DOMAIN other /\ other[n] # recipe

(* RiskModel.create. *)
StartModel(p, recipe) ==
  /\ risk[p] = NoCopy
  /\ risk' = [risk EXCEPT ![p] = [log |-> <<recipe>>, entries |-> <<>>]]
  /\ parted' = (parted \/ Taken(p, 1, recipe))
  /\ UNCHANGED <<log, declared, exposures, pending, sector>>

(* edit_model: an edit that changes nothing is no revision. *)
EditModel(p, recipe) ==
  /\ risk[p] # NoCopy /\ Len(risk[p].log) < MaxRevisions
  /\ risk[p].log[Len(risk[p].log)] # recipe
  /\ risk' = [risk EXCEPT ![p].log = Append(@, recipe)]
  /\ parted' = (parted \/ Taken(p, Len(risk'[p].log), recipe))
  /\ UNCHANGED <<log, declared, exposures, pending, sector>>

(* declare: final, stamped with the copy's own latest revision. *)
Declare(p, d, matrix) ==
  /\ risk[p] # NoCopy /\ d \notin DOMAIN risk[p].entries
  /\ risk' = [risk EXCEPT ![p].entries = [x \in DOMAIN @ \cup {d} |->
       IF x # d THEN @[x]
       ELSE [revision |-> Len(risk[p].log), recipe |-> risk[p].log[Len(risk[p].log)], matrix |-> matrix]]]
  /\ UNCHANGED <<log, declared, exposures, pending, sector, parted>>

StartSector(p, axis) ==
  /\ sector[p] = NoCopy
  /\ sector' = [sector EXCEPT ![p] = [axis |-> axis, entries |-> <<>>]]
  /\ parted' = (parted \/ \E a \in {exposures[d].axis : d \in DOMAIN exposures} \cup
                             {sector[q].axis : q \in {q \in Programs : sector[q] # NoCopy}} : a # axis)
  /\ UNCHANGED <<log, declared, exposures, pending, risk>>

(* append: after every entry the copy has. *)
AppendExposure(p, d, matrix) ==
  /\ sector[p] # NoCopy /\ \A x \in DOMAIN sector[p].entries : x < d
  /\ sector' = [sector EXCEPT ![p].entries =
       [x \in DOMAIN @ \cup {d} |-> IF x = d THEN matrix ELSE @[x]]]
  /\ UNCHANGED <<log, declared, exposures, pending, risk, parted>>

-----------------------------------------------------------------------------
(* Saving.  The first row inserted takes SQLite's write lock, so no other program *)
(* writes from then to the commit, and a save is one step.  One that dies half way *)
(* leaves nothing, as one that never began. *)

(* Mutant of MayWrite: a write does not wait for the other connection's commit. *)
MayWriteAnyway(p) == TRUE

MayWrite(p) == \A q \in Programs \ {p} : pending[q] = Empty

(* The dates before the first one refused. *)
Before(d, refused) == \A r \in refused : d < r

(* Mutant of LogInserted: the revision log goes in after the declarations. *)
LogAfterEntries(held, copy, refused) ==
  IF refused = {} /\ Len(copy.log) > Len(held) THEN copy.log ELSE held

(* _save_risk_model: the revisions the log has no number for. *)
LogInserted(held, copy, refused) ==
  [n \in 1..(IF Len(copy.log) > Len(held) THEN Len(copy.log) ELSE Len(held)) |->
     IF n <= Len(held) THEN held[n] ELSE copy.log[n]]

(* The rows of a save, and whether it got to its commit. *)
Written(p, rows, refused) ==
  IF refused = {}
  THEN /\ log' = rows.log /\ declared' = rows.declared /\ exposures' = rows.exposures
       /\ pending' = [pending EXCEPT ![p] = Empty]
  ELSE /\ pending' = [pending EXCEPT ![p] = IF rows = Committed THEN Empty ELSE rows]
       /\ UNCHANGED <<log, declared, exposures>>

(* save_covariance_series: an occupied date is refused unless it says the same. *)
SaveCovariance(p) ==
  /\ MayWrite(p) /\ risk[p] # NoCopy
  /\ LET rows == Rows(p)
         entries == risk[p].entries
         refused == {d \in DOMAIN entries \cap DOMAIN rows.declared :
                       \/ rows.declared[d].matrix # entries[d].matrix
                       \/ rows.declared[d].revision # entries[d].revision}
         inserted == {d \in DOMAIN entries \ DOMAIN rows.declared : Before(d, refused)}
     IN Written(p, [rows EXCEPT !.log = LogInserted(@, risk[p], refused),
                                !.declared = [d \in DOMAIN @ \cup inserted |->
                                                IF d \in inserted THEN entries[d] ELSE @[d]]],
                refused)
  /\ UNCHANGED <<risk, sector, parted>>

(* save_risk_model: the log alone. *)
SaveModel(p) ==
  /\ MayWrite(p) /\ risk[p] # NoCopy
  /\ Written(p, [Rows(p) EXCEPT !.log = LogInserted(@, risk[p], {})], {})
  /\ UNCHANGED <<risk, sector, parted>>

(* save_exposure_series: only matrices are compared, not the axis. *)
SaveExposure(p) ==
  /\ MayWrite(p) /\ sector[p] # NoCopy
  /\ LET rows == Rows(p)
         entries == sector[p].entries
         refused == {d \in DOMAIN entries \cap DOMAIN rows.exposures :
                       rows.exposures[d].matrix # entries[d]}
         inserted == {d \in DOMAIN entries \ DOMAIN rows.exposures : Before(d, refused)}
     IN Written(p, [rows EXCEPT !.exposures = [d \in DOMAIN @ \cup inserted |->
                      IF d \in inserted THEN [axis |-> sector[p].axis, matrix |-> entries[d]]
                      ELSE @[d]]],
                refused)
  /\ UNCHANGED <<risk, sector, parted>>

(* Any other write of the same Store commits, and with it what a refused save left. *)
CommitOther(p) ==
  /\ pending[p] # Empty
  /\ Written(p, Rows(p), {})
  /\ UNCHANGED <<risk, sector, parted>>

(* The Store is closed, or the program dies: what is pending is rolled back. *)
CloseStore(p) ==
  /\ <<pending[p], risk[p], sector[p]>> # <<Empty, NoCopy, NoCopy>>
  /\ pending' = [pending EXCEPT ![p] = Empty]
  /\ risk' = [risk EXCEPT ![p] = NoCopy]
  /\ sector' = [sector EXCEPT ![p] = NoCopy]
  /\ UNCHANGED <<log, declared, exposures, parted>>

CovarianceNext ==
  \E p \in Programs :
    \/ LoadCovariance(p) \/ SaveCovariance(p) \/ SaveModel(p)
    \/ \E recipe \in Recipes : StartModel(p, recipe) \/ EditModel(p, recipe)
    \/ \E d \in AsOf, matrix \in Matrices : Declare(p, d, matrix)

ExposureNext ==
  \E p \in Programs :
    \/ LoadExposure(p) \/ SaveExposure(p)
    \/ \E axis \in Axes : StartSector(p, axis)
    \/ \E d \in AsOf, matrix \in Matrices : AppendExposure(p, d, matrix)

ConnectionNext == \E p \in Programs : CommitOther(p) \/ CloseStore(p)

SeriesNext == CovarianceNext \/ ExposureNext \/ ConnectionNext

SeriesSpec == SeriesInit /\ [][SeriesNext]_seriesVars

-----------------------------------------------------------------------------
(* store.py:1660, 1696: whatever copies were saved in whatever order, and whatever a *)
(* refused save left for another commit to publish, what is committed loads back, each *)
(* stamp to the recipe that made the matrix (ADR-0005) and all exposures on one axis, *)
(* unless two programs gave one revision number, or one name, to two things. *)
SeriesLoadBack ==
  /\ declared # <<>> => CovarianceLoads(Committed)
  /\ ~ parted =>
       /\ \A d \in DOMAIN declared : log[declared[d].revision] = declared[d].recipe
       /\ exposures # <<>> => ExposureLoads(Committed)
=============================================================================
