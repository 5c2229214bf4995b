------------------------- MODULE UniverseMembership -------------------------
(***************************************************************************)
(* One universe's stored membership, cointoss/store.py: intervals an       *)
(* Instrument was a member over, the dated entries that stamp them, and    *)
(* the Evaluation Runs that are evidence of both, while Supersessions      *)
(* found out later re-express the members that every read reports.         *)
(*                                                                         *)
(* One evaluation is one transaction, so it is one step.                   *)
(***************************************************************************)
EXTENDS Supersession, Sequences, SequencesExt

CONSTANTS
  NInstruments,  (* Stored Instruments, numbered in mint order.              *)
  LastDate,      (* Dates are 1 .. LastDate.                                 *)
  Revisions,     (* Revisions the Universe Definition holds.                 *)
  MaxRuns        (* Bound on Evaluation Runs.                                *)

ASSUME UniverseAssumption ==
  /\ NInstruments \in Nat
  /\ LastDate \in Nat
  /\ MaxRuns \in Nat

VARIABLES
  superseded_by, (* Instrument -> what supersedes it, or None.               *)
  intervals,     (* UniverseMembershipRow.                                   *)
  entries,       (* UniverseEntryRow.                                        *)
  runs           (* EvaluationRunRow, in the order they were committed; the  *)
                 (* field `members` is history: what the evaluation          *)
                 (* produced, which no row holds.                            *)

vars == <<superseded_by, intervals, entries, runs>>

Instruments == 1 .. NInstruments
Dates       == 1 .. LastDate

Open      == 0   \* valid_to of an interval still in force

(* RunOutcome *)
ChangedRun == "changed"
QuietRun   == "unchanged"

(* A stretch of membership: never an empty one. *)
Interval ==
  { row \in [instrument : Instruments, valid_from : Dates, valid_to : Dates \cup {Open}] :
      row.valid_to = Open \/ row.valid_from < row.valid_to }

Entry == [as_of : Dates, revision : Revisions]

EvaluationRun ==
  [ source_asof : Dates, revision : Revisions, outcome : {ChangedRun, QuietRun},
    members : SUBSET Instruments ]

(***************************************************************************)
(* Reads                                                                   *)
(***************************************************************************)

FoldedTo(members) == { Fold(superseded_by)[i] : i \in members }

(* Mutant of HeldOn: an interval reaches the day it was closed at. *)
HeldThrough(row, day) ==
  row.valid_from <= day /\ (row.valid_to = Open \/ day <= row.valid_to)

HeldOn(row, day) ==
  row.valid_from <= day /\ (row.valid_to = Open \/ day < row.valid_to)

(* members_at: the membership on a day, folded to survivors. *)
MembersAt(day) == FoldedTo({ row.instrument : row \in { r \in intervals : HeldOn(r, day) } })

(* load_universe_series: every entry with its members and Revision Stamp. *)
LoadedSeries ==
  { [as_of |-> e.as_of, universe |-> MembersAt(e.as_of), revision |-> e.revision] : e \in entries }

(* Mutant of WithinRange: a member that left on the first day counts. *)
WithinOrEnding(row, first, last) ==
  row.valid_from <= last /\ (row.valid_to = Open \/ row.valid_to >= first)

WithinRange(row, first, last) ==
  row.valid_from <= last /\ (row.valid_to = Open \/ row.valid_to > first)

(* Everything that folds where an Instrument folds. *)
Family(i) == { j \in Instruments : Fold(superseded_by)[j] = Fold(superseded_by)[i] }

(* universes_containing: was the Instrument a member on any day of a range? *)
UniverseContains(i, first, last) ==
  \E row \in intervals : row.instrument \in Family(i) /\ WithinRange(row, first, last)

(* membership_intervals: an Instrument's stays that a range touches, those  *)
(* that meet or overlap merged into one.                                    *)
Reaches(stay, row) ==
  IF stay.to = Open \/ row.valid_to = Open THEN Open
  ELSE IF stay.to >= row.valid_to THEN stay.to ELSE row.valid_to

(* Mutant of Adjoins: stretches that only meet stay apart. *)
Overlaps(stay, row) == stay.to = Open \/ stay.to > row.valid_from

Adjoins(stay, row) == stay.to = Open \/ stay.to >= row.valid_from

MergedInto(stays, row) ==
  LET n == Len(stays)
  IN  IF n > 0 /\ Adjoins(stays[n], row)
      THEN [stays EXCEPT ![n].to = Reaches(stays[n], row)]
      ELSE Append(stays, [from |-> row.valid_from, to |-> row.valid_to])

(* The rows in the order of their first days; which of two that begin       *)
(* together comes first is SQLite's choice, and no stay differs by it.      *)
LastBegun(rows) == CHOOSE row \in rows : \A r \in rows : r.valid_from <= row.valid_from

Stays(i, first, last) ==
  MapThenFoldSet(LAMBDA row, stays : MergedInto(stays, row), <<>>, LAMBDA row : row, LastBegun,
    { row \in intervals : /\ row.instrument \in Family(i)
                          /\ row.valid_from <= last
                          /\ row.valid_to = Open \/ row.valid_to >= first })

(***************************************************************************)
(* record_membership                                                       *)
(***************************************************************************)

(* Open intervals, and the survivors they stand for. *)
OpenRows == { row \in intervals : row.valid_to = Open }

(* Mutant of Held: the rows are read as they were recorded. *)
HeldAsRecorded == { row.instrument : row \in OpenRows }

Held == FoldedTo({ row.instrument : row \in OpenRows })

Admitted(members) == FoldedTo(members) \ Held
Dropped(members)  == Held \ FoldedTo(members)

Differs(members) == entries = {} \/ Admitted(members) # {} \/ Dropped(members) # {}

(* Mutant of MayRecord: only entries, not quiet runs, bar an earlier date. *)
MayRecordAfterEntries(when, members) ==
  /\ \A e \in entries : e.as_of <= when
  /\ Differs(members) => \A e \in entries : e.as_of # when

(* Mutant of MayRecord: a date may be given a second membership. *)
MayRecordTwice(when, members) ==
  /\ \A e \in entries : e.as_of <= when
  /\ \A k \in DOMAIN runs : runs[k].source_asof <= when

(* Not before the latest entry or Run, and no second membership on a date. *)
MayRecord(when, members) ==
  /\ \A e \in entries : e.as_of <= when
  /\ \A k \in DOMAIN runs : runs[k].source_asof <= when
  /\ Differs(members) => \A e \in entries : e.as_of # when

(* Mutant of Closed: the rows of superseded predecessors stay open. *)
ClosedUnfolded(members, when) ==
  { IF row.valid_to = Open /\ row.instrument \in Dropped(members)
    THEN [row EXCEPT !.valid_to = when] ELSE row : row \in intervals }

Closed(members, when) ==
  { IF row.valid_to = Open /\ Fold(superseded_by)[row.instrument] \in Dropped(members)
    THEN [row EXCEPT !.valid_to = when] ELSE row : row \in intervals }

Opened(members, when) ==
  { [instrument |-> i, valid_from |-> when, valid_to |-> Open] : i \in Admitted(members) }

(* Mutant of Entered: no entry for an evaluation nobody qualified under. *)
EnteredUnlessEmpty(members, when, stamp) ==
  IF Differs(members) /\ members # {}
  THEN entries \cup {[as_of |-> when, revision |-> stamp]} ELSE entries

Entered(members, when, stamp) ==
  IF Differs(members) THEN entries \cup {[as_of |-> when, revision |-> stamp]} ELSE entries

RecordMembership(when, members, stamp) ==
  /\ Len(runs) < MaxRuns
  /\ MayRecord(when, members)
  /\ intervals' = Closed(members, when) \cup Opened(members, when)
  /\ entries' = Entered(members, when, stamp)
  /\ runs' = Append(runs, [ source_asof |-> when, revision |-> stamp,
                            outcome |-> IF Differs(members) THEN ChangedRun ELSE QuietRun,
                            members |-> FoldedTo(members) ])
  /\ UNCHANGED superseded_by

(* EntryOrder: the evaluation is refused, and nothing written. *)
RefuseMembership(when, members) ==
  /\ ~ MayRecord(when, members)
  /\ UNCHANGED vars

(* A later Observation reveals one survivor to be an earlier-minted one. *)
Supersede(loser, survivor) ==
  /\ survivor < loser
  /\ superseded_by[survivor] = None
  /\ superseded_by[loser] = None
  /\ superseded_by' = [superseded_by EXCEPT ![loser] = survivor]
  /\ UNCHANGED <<intervals, entries, runs>>

Init ==
  /\ superseded_by = [i \in Instruments |-> None]
  /\ intervals = {}
  /\ entries = {}
  /\ runs = <<>>

Next ==
  \/ \E when \in Dates, members \in SUBSET Instruments, stamp \in Revisions :
       RecordMembership(when, members, stamp)
  \/ \E when \in Dates, members \in SUBSET Instruments : RefuseMembership(when, members)
  \/ \E loser, survivor \in Instruments : Supersede(loser, survivor)

Spec == Init /\ [][Next]_vars

-----------------------------------------------------------------------------
(***************************************************************************)
(* Properties                                                              *)
(***************************************************************************)

(* Rows are what their columns admit; no interval is empty or runs backwards. *)
TypeOK ==
  /\ superseded_by \in [Instruments -> Instruments \cup {None}]
  /\ intervals \subseteq Interval
  /\ entries \subseteq Entry
  /\ runs \in Seq(EvaluationRun)

(* The store implements the Series: the diff of intervals that              *)
(* record_membership writes, folded on read by load_universe_series, only   *)
(* ever appends a later, different entry, and nothing but a Supersession    *)
(* re-expresses what an earlier entry held.                                 *)
Series == INSTANCE UniverseSeries WITH Members <- Instruments, entries <- LoadedSeries

ImplementsSeries == Series!Spec

(* members_at never consults the entries, and yet answers every date with   *)
(* the membership of the entry in force on it, or, before the first one,    *)
(* with nothing its NotYetStarted would hide.                               *)
PointReadsAgree ==
  \A day \in Dates :
    LET past == { e \in LoadedSeries : e.as_of <= day }
    IN  /\ past = {} => MembersAt(day) = {}
        /\ \A e \in past : (\A f \in past : f.as_of <= e.as_of) => MembersAt(day) = e.universe

(* universes_containing over a range agrees with members_at on its days,    *)
(* asked by any id of a family.                                             *)
RangeReadsAgree ==
  \A i \in Instruments, first \in Dates, last \in Dates :
    first <= last =>
      (UniverseContains(i, first, last) <=>
         \E day \in first .. last : Fold(superseded_by)[i] \in MembersAt(day))

(* What an evaluation produced for a date is what that date reads back ever *)
(* after, under whatever ids its members have since been superseded by,     *)
(* unless a later Run changed that same date.                               *)
ReadsBackAsEvaluated ==
  \A k \in DOMAIN runs :
    (\A m \in DOMAIN runs :
       (k < m /\ runs[m].source_asof = runs[k].source_asof) => runs[m].outcome = QuietRun)
      => MembersAt(runs[k].source_asof) = FoldedTo(runs[k].members)

(* Entries and Runs tell one story: every entry was written by the one Run  *)
(* that changed its date, under that Run's revision, and every such Run     *)
(* wrote its entry.                                                         *)
EntriesAreEvidenced ==
  /\ \A e \in entries : \E k \in DOMAIN runs :
       /\ runs[k].outcome = ChangedRun
       /\ runs[k].source_asof = e.as_of
       /\ runs[k].revision = e.revision
       /\ \A m \in DOMAIN runs :
            (runs[m].outcome = ChangedRun /\ runs[m].source_asof = e.as_of) => m = k
  /\ \A k \in DOMAIN runs :
       runs[k].outcome = ChangedRun => \E e \in entries : e.as_of = runs[k].source_asof

(* membership_intervals reports an Instrument's stays whole and apart: its  *)
(* days are the days it was a member, and between two stays it was not.     *)
InStay(stay, day) == stay.from <= day /\ (stay.to = Open \/ day < stay.to)

StaysAreMaximal ==
  \A i \in Instruments :
    LET stays == Stays(i, 1, LastDate)
    IN  /\ \A day \in Dates :
             (\E k \in DOMAIN stays : InStay(stays[k], day))
               <=> Fold(superseded_by)[i] \in MembersAt(day)
        /\ \A k \in 1 .. Len(stays) - 1 :
             stays[k].to # Open /\ stays[k].to < stays[k + 1].from

(* App.changes, "each date in [start, end] the membership changed": no two  *)
(* neighbouring entries of the loaded Series hold the same members.         *)
EveryEntryIsAChange ==
  \A e, f \in LoadedSeries :
    (/\ e.as_of < f.as_of
     /\ \A g \in LoadedSeries : g.as_of <= e.as_of \/ f.as_of <= g.as_of)
      => e.universe # f.universe
=============================================================================
