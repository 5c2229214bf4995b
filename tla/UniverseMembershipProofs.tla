---------------------- MODULE UniverseMembershipProofs ----------------------
(***************************************************************************)
(* What UniverseMembership guarantees for any number of Instruments,       *)
(* dates, revisions and Runs: the reads agree with one another, history    *)
(* reads back as evaluated, and the store implements the Series.           *)
(***************************************************************************)
EXTENDS UniverseMembership, SupersessionFacts, FiniteSetTheorems

(* Intervals begin and end at entries only: nothing joins or leaves between *)
(* two of them.                                                             *)
BoundedByEntries ==
  \A row \in intervals :
    /\ \E e \in entries : e.as_of = row.valid_from
    /\ row.valid_to # Open => \E e \in entries : e.as_of = row.valid_to

IInv ==
  /\ TypeOK
  /\ WellLinked(superseded_by, NInstruments)
  /\ BoundedByEntries

(* What a family folds to is an Instrument that folds to itself. *)
LEMMA FoldIsIdempotent ==
  ASSUME WellLinked(superseded_by, NInstruments), NEW i \in Instruments
  PROVE  /\ Fold(superseded_by)[i] \in Instruments
         /\ Fold(superseded_by)[Fold(superseded_by)[i]] = Fold(superseded_by)[i]
<1>1. Fold(superseded_by)[i] \in 1 .. i /\ superseded_by[Fold(superseded_by)[i]] = None
  BY FoldEnds DEF Instruments
<1>2. Fold(superseded_by)[i] \in Instruments
  BY <1>1 DEF Instruments, WellLinked
<1> QED BY <1>1, <1>2, FoldFixed DEF Instruments

(* From the latest entry on, the members are those of the open intervals.   *)
Settled ==
  \A day \in Dates : (\A e \in entries : e.as_of <= day) => MembersAt(day) = Held

LEMMA SettledMembers == IInv => Settled
<1> SUFFICES ASSUME IInv, NEW day \in Dates, \A e \in entries : e.as_of <= day
             PROVE  MembersAt(day) = Held
  BY DEF Settled
<1>1. \A row \in intervals : row \in Interval
  BY DEF IInv, TypeOK
<1>2. \A e \in entries : e.as_of \in Nat
  BY DEF IInv, TypeOK, Entry, Dates
<1>3. \A row \in intervals : HeldOn(row, day) <=> row.valid_to = Open
  BY <1>1, <1>2 DEF IInv, BoundedByEntries, HeldOn, Interval, Dates
<1>4. { row \in intervals : HeldOn(row, day) } = OpenRows
  BY <1>3 DEF OpenRows
<1> QED BY <1>4 DEF MembersAt, Held

-----------------------------------------------------------------------------
(* What an evaluation changes. *)

(* An evaluation that changes nothing writes no interval. *)
LEMMA QuietEvaluation ==
  ASSUME IInv, NEW when, NEW members, ~ Differs(members)
  PROVE  /\ Closed(members, when) \cup Opened(members, when) = intervals
         /\ Held = FoldedTo(members)
<1>1. Admitted(members) = {} /\ Dropped(members) = {}
  BY DEF Differs
<1>2. Opened(members, when) = {}
  BY <1>1 DEF Opened
<1>3. Closed(members, when) = intervals
  BY <1>1 DEF Closed
<1>4. Held = FoldedTo(members)
  BY <1>1 DEF Admitted, Dropped
<1> QED BY <1>2, <1>3, <1>4

(* A row after an evaluation is a row kept, a row closed, or a row opened.  *)
LEMMA RowsAfter ==
  ASSUME IInv, NEW when \in Dates, NEW members \in SUBSET Instruments, NEW stamp \in Revisions,
         RecordMembership(when, members, stamp)
  PROVE  /\ \A row \in intervals' :
              \/ row \in intervals /\ ~ (row.valid_to = Open /\ Fold(superseded_by)[row.instrument] \in Dropped(members))
              \/ \E old \in intervals :
                   /\ old.valid_to = Open /\ Fold(superseded_by)[old.instrument] \in Dropped(members)
                   /\ row = [old EXCEPT !.valid_to = when]
              \/ \E i \in Admitted(members) :
                   row = [instrument |-> i, valid_from |-> when, valid_to |-> Open]
         /\ \A old \in intervals :
              IF old.valid_to = Open /\ Fold(superseded_by)[old.instrument] \in Dropped(members)
              THEN [old EXCEPT !.valid_to = when] \in intervals'
              ELSE old \in intervals'
         /\ \A i \in Admitted(members) :
              [instrument |-> i, valid_from |-> when, valid_to |-> Open] \in intervals'
<1>1. intervals' = Closed(members, when) \cup Opened(members, when)
  BY DEF RecordMembership
<1> QED BY <1>1 DEF Closed, Opened

(* The rows an evaluation writes are well formed: the entry that opens an   *)
(* interval is earlier than the one that closes it.                         *)
LEMMA IntervalsStayWellFormed ==
  ASSUME IInv, NEW when \in Dates, NEW members \in SUBSET Instruments, NEW stamp \in Revisions,
         RecordMembership(when, members, stamp)
  PROVE  intervals' \subseteq Interval /\ BoundedByEntries'
<1>1. CASE ~ Differs(members)
  <2>1. intervals' = intervals /\ entries' = entries
    BY <1>1, QuietEvaluation DEF RecordMembership, Entered
  <2> QED BY <2>1 DEF IInv, TypeOK, BoundedByEntries
<1>2. CASE Differs(members)
  <2>1. /\ entries' = entries \cup {[as_of |-> when, revision |-> stamp]}
        /\ \A e \in entries : e.as_of \in Nat /\ e.as_of < when
    BY <1>2 DEF RecordMembership, MayRecord, Entered, IInv, TypeOK, Entry, Dates
  <2>2. \A row \in intervals : row \in Interval /\ row.valid_from < when
    BY <2>1 DEF IInv, TypeOK, BoundedByEntries
  <2>3. \E e \in entries' : e.as_of = when
    <3> DEFINE new == [as_of |-> when, revision |-> stamp]
    <3>1. new \in entries' /\ new.as_of = when
      BY <2>1
    <3> QED BY <3>1
  <2>4. \A i \in Admitted(members) : i \in Instruments
    BY FoldIsIdempotent DEF Admitted, FoldedTo, IInv
  <2>5. ASSUME NEW row \in intervals'
        PROVE  /\ row \in Interval
               /\ \E e \in entries' : e.as_of = row.valid_from
               /\ row.valid_to # Open => \E e \in entries' : e.as_of = row.valid_to
    <3>1. CASE row \in intervals
      BY <3>1, <2>1, <2>2 DEF IInv, BoundedByEntries
    <3>2. ASSUME NEW old \in intervals, row = [old EXCEPT !.valid_to = when]
          PROVE  /\ row \in Interval
                 /\ \E e \in entries' : e.as_of = row.valid_from
                 /\ \E e \in entries' : e.as_of = row.valid_to
      <4>1. row = [instrument |-> old.instrument, valid_from |-> old.valid_from, valid_to |-> when]
        BY <3>2, <2>2 DEF Interval
      <4>2. row \in Interval
        BY <4>1, <2>2 DEF Interval, Dates
      <4>3. \E e \in entries' : e.as_of = row.valid_from
        BY <4>1, <2>1 DEF IInv, BoundedByEntries
      <4>4. \E e \in entries' : e.as_of = row.valid_to
        BY <4>1, <2>3
      <4> QED BY <4>2, <4>3, <4>4
    <3>3. ASSUME NEW i \in Admitted(members),
                 row = [instrument |-> i, valid_from |-> when, valid_to |-> Open]
          PROVE  /\ row \in Interval
                 /\ \E e \in entries' : e.as_of = row.valid_from
                 /\ row.valid_to = Open
      <4>1. row.valid_from = when /\ row.valid_to = Open
        BY <3>3
      <4>2. row \in Interval
        BY <3>3, <2>4 DEF Interval
      <4> QED BY <4>1, <4>2, <2>3
    <3> QED BY <3>1, <3>2, <3>3, RowsAfter
  <2> QED BY <2>5 DEF BoundedByEntries
<1> QED BY <1>1, <1>2

(* The members an evaluation produced are what the open intervals hold.     *)
LEMMA EvaluationIsHeld ==
  ASSUME IInv, NEW when \in Dates, NEW members \in SUBSET Instruments, NEW stamp \in Revisions,
         RecordMembership(when, members, stamp)
  PROVE  Held' = FoldedTo(members)
<1> DEFINE F(i) == Fold(superseded_by)[i]
<1>1. \A row \in intervals : row.instrument \in Instruments
  BY DEF IInv, TypeOK, Interval
<1>2. \A i \in Admitted(members) : F(i) = i
  BY FoldIsIdempotent DEF Admitted, FoldedTo, IInv
<1>3. Held' = { F(row.instrument) : row \in { r \in intervals' : r.valid_to = Open } }
  BY DEF Held, OpenRows, FoldedTo, RecordMembership
<1>4. Held = { F(row.instrument) : row \in { r \in intervals : r.valid_to = Open } }
  BY DEF Held, OpenRows, FoldedTo
<1>5. ASSUME NEW row \in intervals', row.valid_to = Open
      PROVE  F(row.instrument) \in FoldedTo(members)
  <2>1. CASE row \in intervals /\ F(row.instrument) \notin Dropped(members)
    <3>1. F(row.instrument) \in Held
      BY <2>1, <1>4, <1>5
    <3> QED BY <3>1, <2>1 DEF Dropped
  <2>2. ASSUME NEW old \in intervals, row = [old EXCEPT !.valid_to = when] PROVE FALSE
    <3>1. old \in Interval
      BY DEF IInv, TypeOK
    <3>2. row.valid_to = when
      BY <2>2, <3>1 DEF Interval
    <3> QED BY <3>2, <1>5 DEF Dates, Open
  <2>3. ASSUME NEW i \in Admitted(members),
               row = [instrument |-> i, valid_from |-> when, valid_to |-> Open]
        PROVE  F(row.instrument) \in FoldedTo(members)
    BY <2>3, <1>2 DEF Admitted
  <2> QED BY <2>1, <2>2, <2>3, <1>5, RowsAfter
<1>6. ASSUME NEW i \in FoldedTo(members)
      PROVE  \E row \in intervals' : row.valid_to = Open /\ F(row.instrument) = i
  <2>1. CASE i \in Admitted(members)
    <3> DEFINE row == [instrument |-> i, valid_from |-> when, valid_to |-> Open]
    <3>1. row \in intervals'
      BY <2>1, RowsAfter
    <3> QED BY <3>1, <2>1, <1>2
  <2>2. CASE i \notin Admitted(members)
    <3>1. i \in Held /\ i \notin Dropped(members)
      BY <1>6, <2>2 DEF Admitted, Dropped
    <3>2. PICK row \in intervals : row.valid_to = Open /\ F(row.instrument) = i
      BY <3>1, <1>4
    <3>3. row \in intervals'
      BY <3>1, <3>2, RowsAfter
    <3> QED BY <3>2, <3>3
  <2> QED BY <2>1, <2>2
<1> QED BY <1>3, <1>5, <1>6

(* No evaluation touches a date before its own.                             *)
LEMMA PastIsKept ==
  ASSUME IInv, NEW when \in Dates, NEW members \in SUBSET Instruments, NEW stamp \in Revisions,
         RecordMembership(when, members, stamp), NEW day \in Dates, day < when
  PROVE  MembersAt(day)' = MembersAt(day)
<1> DEFINE F(i) == Fold(superseded_by)[i]
<1>1. \A row \in intervals : row \in Interval
  BY DEF IInv, TypeOK
<1>2. MembersAt(day) = { F(row.instrument) : row \in { r \in intervals : HeldOn(r, day) } }
  BY DEF MembersAt, FoldedTo
<1>3. MembersAt(day)' = { F(row.instrument) : row \in { r \in intervals' : HeldOn(r, day) } }
  BY DEF MembersAt, FoldedTo, RecordMembership, HeldOn
<1>4. ASSUME NEW old \in intervals
      PROVE  LET row == [old EXCEPT !.valid_to = when]
             IN  /\ row.instrument = old.instrument
                 /\ old.valid_to = Open => (HeldOn(row, day) <=> HeldOn(old, day))
  BY <1>1 DEF Interval, HeldOn, Dates, Open
<1>5. ASSUME NEW row \in intervals', HeldOn(row, day)
      PROVE  \E old \in intervals : HeldOn(old, day) /\ old.instrument = row.instrument
  <2>1. ASSUME NEW i \in Admitted(members),
               row = [instrument |-> i, valid_from |-> when, valid_to |-> Open]
        PROVE  FALSE
    BY <2>1, <1>5 DEF HeldOn, Dates
  <2>2. ASSUME NEW old \in intervals, old.valid_to = Open, row = [old EXCEPT !.valid_to = when]
        PROVE  HeldOn(old, day) /\ old.instrument = row.instrument
    BY <2>2, <1>4, <1>5
  <2> QED BY <2>1, <2>2, <1>5, RowsAfter
<1>6. ASSUME NEW old \in intervals, HeldOn(old, day)
      PROVE  \E row \in intervals' : HeldOn(row, day) /\ row.instrument = old.instrument
  BY <1>4, <1>6, RowsAfter
<1> QED BY <1>2, <1>3, <1>5, <1>6

-----------------------------------------------------------------------------
(* What a Supersession changes. *)

(* It moves the loser's family to the survivor, and nobody else. *)
LEMMA SupersedeMoves ==
  ASSUME IInv, NEW loser \in Instruments, NEW survivor \in Instruments,
         Supersede(loser, survivor)
  PROVE  /\ superseded_by' \in [Instruments -> Instruments \cup {None}]
         /\ WellLinked(superseded_by', NInstruments)
         /\ \A i \in Instruments :
              Fold(superseded_by')[i] =
                IF Fold(superseded_by)[i] = loser THEN survivor ELSE Fold(superseded_by)[i]
<1> DEFINE losers == {loser}
           n      == NInstruments
           links  == superseded_by
<1>1. superseded_by' = [i \in 1 .. n |-> IF i \in losers THEN survivor ELSE links[i]]
  BY DEF Supersede, IInv, TypeOK, Instruments
<1>2. /\ survivor \in 1 .. n /\ links[survivor] = None
      /\ losers \in SUBSET (1 .. n)
      /\ \A l \in losers : links[l] = None /\ survivor < l
  BY DEF Supersede, Instruments
<1>3. WellLinked(links, n)
  BY DEF IInv
<1>4. Instruments = 1 .. n /\ \A i : i \in losers <=> i = loser
  BY DEF Instruments
<1> HIDE DEF losers, n, links
<1>5. /\ WellLinked(superseded_by', n)
      /\ \A i \in 1 .. n :
           Fold(superseded_by')[i] =
             IF Fold(links)[i] \in losers THEN survivor ELSE Fold(links)[i]
  BY <1>1, <1>2, <1>3, FoldAfterMerge
<1>6. superseded_by' \in [Instruments -> Instruments \cup {None}]
  BY DEF Supersede, IInv, TypeOK
<1> QED BY <1>4, <1>5, <1>6 DEF n, links

(* The members of every date are re-expressed, and nothing else. *)
LEMMA SupersedeReexpresses ==
  ASSUME IInv, NEW loser \in Instruments, NEW survivor \in Instruments,
         Supersede(loser, survivor)
  PROVE  /\ \A members \in SUBSET Instruments :
              FoldedTo(members)' = { IF i = loser THEN survivor ELSE i : i \in FoldedTo(members) }
         /\ \A day : MembersAt(day)' = { IF i = loser THEN survivor ELSE i : i \in MembersAt(day) }
<1>1. \A members \in SUBSET Instruments :
        FoldedTo(members)' = { IF i = loser THEN survivor ELSE i : i \in FoldedTo(members) }
  BY SupersedeMoves DEF FoldedTo
<1>2. ASSUME NEW day
      PROVE  MembersAt(day)' = { IF i = loser THEN survivor ELSE i : i \in MembersAt(day) }
  <2> DEFINE On == { row.instrument : row \in { r \in intervals : HeldOn(r, day) } }
  <2>1. On \in SUBSET Instruments
    BY DEF IInv, TypeOK, Interval
  <2>2. MembersAt(day)' = { Fold(superseded_by')[i] : i \in On }
    BY DEF MembersAt, FoldedTo, Supersede, HeldOn
  <2>3. MembersAt(day) = { Fold(superseded_by)[i] : i \in On }
    BY DEF MembersAt, FoldedTo
  <2> HIDE DEF On
  <2> QED BY <2>1, <2>2, <2>3, SupersedeMoves
<1> QED BY <1>1, <1>2

-----------------------------------------------------------------------------
(* The inductive invariant. *)

LEMMA InitialInvariant == Init => IInv
<1> SUFFICES ASSUME Init PROVE IInv
  OBVIOUS
<1>1. TypeOK
  BY DEF Init, TypeOK
<1>2. WellLinked(superseded_by, NInstruments)
  BY UniverseAssumption DEF Init, WellLinked, Instruments, None
<1>3. BoundedByEntries
  BY DEF Init, BoundedByEntries
<1> QED BY <1>1, <1>2, <1>3 DEF IInv

LEMMA InductiveInvariant == IInv /\ [Next]_vars => IInv'
<1> SUFFICES ASSUME IInv, [Next]_vars PROVE IInv'
  OBVIOUS
<1>1. ASSUME NEW when \in Dates, NEW members \in SUBSET Instruments, NEW stamp \in Revisions,
             RecordMembership(when, members, stamp)
      PROVE  IInv'
  <2>1. superseded_by' = superseded_by
    BY <1>1 DEF RecordMembership
  <2>2. intervals' \subseteq Interval /\ BoundedByEntries'
    BY <1>1, IntervalsStayWellFormed
  <2>3. entries' \subseteq Entry
    BY <1>1 DEF RecordMembership, Entered, Entry, IInv, TypeOK
  <2>4. runs' \in Seq(EvaluationRun)
    <3>1. FoldedTo(members) \in SUBSET Instruments
      BY FoldIsIdempotent DEF FoldedTo, IInv
    <3> DEFINE run == [ source_asof |-> when, revision |-> stamp,
                        outcome |-> IF Differs(members) THEN ChangedRun ELSE QuietRun,
                        members |-> FoldedTo(members) ]
    <3>2. run \in EvaluationRun
      BY <3>1 DEF EvaluationRun
    <3>3. runs' = Append(runs, run)
      BY <1>1 DEF RecordMembership
    <3> HIDE DEF run
    <3> QED BY <3>2, <3>3 DEF IInv, TypeOK
  <2> QED BY <2>1, <2>2, <2>3, <2>4 DEF IInv, TypeOK
<1>2. ASSUME NEW loser \in Instruments, NEW survivor \in Instruments, Supersede(loser, survivor)
      PROVE  IInv'
  BY <1>2, SupersedeMoves DEF Supersede, IInv, TypeOK, BoundedByEntries
<1>3. CASE UNCHANGED vars
  BY <1>3 DEF vars, IInv, TypeOK, BoundedByEntries
<1> QED BY <1>1, <1>2, <1>3 DEF Next, RefuseMembership

LEMMA AlwaysIInv == Spec => []IInv
BY InitialInvariant, InductiveInvariant, PTL DEF Spec

(* Rows stay what their columns admit, and no interval is ever empty: what  *)
(* is opened at a date cannot be closed on it.                              *)
THEOREM TypeCorrect == Spec => []TypeOK
<1>1. IInv => TypeOK
  BY DEF IInv
<1> QED BY <1>1, AlwaysIInv, PTL

-----------------------------------------------------------------------------
(* The reads agree. *)

(* Between two entries nobody joins or leaves, so members_at answers with   *)
(* the entry in force although it reads intervals alone.                    *)
THEOREM MembersAtIsTheEntryInForce == Spec => []PointReadsAgree
<1>1. ASSUME IInv PROVE PointReadsAgree
  <2> SUFFICES ASSUME NEW day \in Dates
               PROVE  LET past == { e \in LoadedSeries : e.as_of <= day }
                      IN  /\ past = {} => MembersAt(day) = {}
                          /\ \A e \in past :
                               (\A f \in past : f.as_of <= e.as_of) => MembersAt(day) = e.universe
    BY DEF PointReadsAgree
  <2> DEFINE past == { e \in LoadedSeries : e.as_of <= day }
  <2>1. \A row \in intervals : row \in Interval
    BY <1>1 DEF IInv, TypeOK
  <2>2. \A e \in entries : e.as_of \in Nat
    BY <1>1 DEF IInv, TypeOK, Entry, Dates
  <2>3. \A f \in entries : f.as_of <= day => \E e \in past : e.as_of = f.as_of
    <3> TAKE f \in entries
    <3> HAVE f.as_of <= day
    <3> DEFINE e == [as_of |-> f.as_of, universe |-> MembersAt(f.as_of), revision |-> f.revision]
    <3>1. e \in LoadedSeries
      BY DEF LoadedSeries
    <3>2. e.as_of = f.as_of
      OBVIOUS
    <3> HIDE DEF e
    <3> QED BY <3>1, <3>2
  <2>4. ASSUME past = {} PROVE MembersAt(day) = {}
    <3>1. \A row \in intervals : ~ HeldOn(row, day)
      BY <1>1, <2>3, <2>4 DEF HeldOn, IInv, BoundedByEntries
    <3> QED BY <3>1 DEF MembersAt, FoldedTo
  <2>5. ASSUME NEW e \in past, \A f \in past : f.as_of <= e.as_of
        PROVE  MembersAt(day) = e.universe
    <3>1. PICK f \in entries : e = [as_of |-> f.as_of, universe |-> MembersAt(f.as_of), revision |-> f.revision]
      BY DEF LoadedSeries
    <3>2. e.as_of = f.as_of /\ e.universe = MembersAt(f.as_of)
      BY <3>1
    <3>3. \A g \in entries : g.as_of <= day => g.as_of <= f.as_of
      BY <2>3, <2>5, <3>2
    <3>4. f.as_of <= day
      BY <3>2
    <3>5. \A row \in intervals : HeldOn(row, day) <=> HeldOn(row, f.as_of)
      BY <1>1, <2>1, <2>2, <3>3, <3>4 DEF IInv, BoundedByEntries, HeldOn, Interval, Dates, Open
    <3>6. { row \in intervals : HeldOn(row, day) } = { row \in intervals : HeldOn(row, f.as_of) }
      BY <3>5
    <3> QED BY <3>2, <3>6 DEF MembersAt
  <2> QED BY <2>4, <2>5
<1> QED BY <1>1, AlwaysIInv, PTL

(* The range read by family and the point read by date never disagree,      *)
(* under whichever id of a family they are asked.                           *)
THEOREM RangeIsSomeDay == Spec => []RangeReadsAgree
<1>1. ASSUME IInv PROVE RangeReadsAgree
  <2> SUFFICES ASSUME NEW i \in Instruments, NEW first \in Dates, NEW last \in Dates, first <= last
               PROVE  UniverseContains(i, first, last) <=>
                        \E day \in first .. last : Fold(superseded_by)[i] \in MembersAt(day)
    BY DEF RangeReadsAgree
  <2>1. \A row \in intervals : row \in Interval
    BY <1>1 DEF IInv, TypeOK
  <2>2. ASSUME NEW day
        PROVE  Fold(superseded_by)[i] \in MembersAt(day) <=>
                 \E row \in intervals :
                   Fold(superseded_by)[row.instrument] = Fold(superseded_by)[i] /\ HeldOn(row, day)
    BY DEF MembersAt, FoldedTo
  <2>3. UniverseContains(i, first, last) <=>
          \E row \in intervals :
            Fold(superseded_by)[row.instrument] = Fold(superseded_by)[i] /\ WithinRange(row, first, last)
    BY <2>1 DEF UniverseContains, Family, Interval
  <2>4. ASSUME NEW row \in intervals
        PROVE  WithinRange(row, first, last) <=> \E day \in first .. last : HeldOn(row, day)
    <3>1. row \in Interval /\ first \in Nat /\ last \in Nat /\ row.valid_from \in Nat
          /\ row.valid_to \in Nat /\ (row.valid_to = Open \/ row.valid_from < row.valid_to)
      BY <2>1 DEF Interval, Dates, Open
    <3>2. WithinRange(row, first, last)
            => \E day \in first .. last : HeldOn(row, day)
      <4> HAVE WithinRange(row, first, last)
      <4>1. CASE row.valid_from <= first
        <5>1. first \in first .. last /\ HeldOn(row, first)
          BY <3>1, <4>1 DEF WithinRange, HeldOn
        <5> QED BY <5>1
      <4>2. CASE first <= row.valid_from
        <5>1. row.valid_from \in first .. last /\ HeldOn(row, row.valid_from)
          BY <3>1, <4>2 DEF WithinRange, HeldOn
        <5> QED BY <5>1
      <4> QED BY <3>1, <4>1, <4>2
    <3>3. ASSUME NEW day \in first .. last, HeldOn(row, day)
          PROVE  WithinRange(row, first, last)
      BY <3>1, <3>3 DEF WithinRange, HeldOn
    <3> QED BY <3>2, <3>3
  <2> QED BY <2>2, <2>3, <2>4
<1> QED BY <1>1, AlwaysIInv, PTL

-----------------------------------------------------------------------------
(* History. *)

(* The Run an evaluation leaves behind, and the ones before it. *)
LEMMA RunsAfter ==
  ASSUME IInv, NEW when \in Dates, NEW members \in SUBSET Instruments, NEW stamp \in Revisions,
         RecordMembership(when, members, stamp)
  PROVE  LET n == Len(runs) + 1
         IN  /\ DOMAIN runs' = DOMAIN runs \cup {n}
             /\ \A k \in DOMAIN runs : k < n /\ k # n
             /\ \A k \in DOMAIN runs : runs'[k] = runs[k]
             /\ runs'[n].source_asof = when /\ runs'[n].revision = stamp
             /\ runs'[n].outcome = IF Differs(members) THEN ChangedRun ELSE QuietRun
             /\ runs'[n].members = FoldedTo(members)
<1> DEFINE run == [ source_asof |-> when, revision |-> stamp,
                    outcome |-> IF Differs(members) THEN ChangedRun ELSE QuietRun,
                    members |-> FoldedTo(members) ]
<1>1. runs' = Append(runs, run) /\ runs \in Seq(EvaluationRun)
  BY DEF RecordMembership, IInv, TypeOK
<1>2. /\ run.source_asof = when /\ run.revision = stamp
      /\ run.outcome = IF Differs(members) THEN ChangedRun ELSE QuietRun
      /\ run.members = FoldedTo(members)
  OBVIOUS
<1> HIDE DEF run
<1>3. /\ Len(runs) \in Nat /\ DOMAIN runs = 1 .. Len(runs)
      /\ DOMAIN runs' = 1 .. Len(runs) + 1
      /\ \A k \in DOMAIN runs : runs'[k] = runs[k]
      /\ runs'[Len(runs) + 1] = run
  BY <1>1
<1>4. /\ DOMAIN runs' = DOMAIN runs \cup {Len(runs) + 1}
      /\ \A k \in DOMAIN runs : k < Len(runs) + 1 /\ k # Len(runs) + 1
  BY <1>3
<1> QED BY <1>2, <1>3, <1>4

(* A Run is for a date, and produced Instruments. *)
LEMMA RunsTyped ==
  ASSUME IInv
  PROVE  \A k \in DOMAIN runs : /\ runs[k].source_asof \in Dates
                                /\ runs[k].members \in SUBSET Instruments
<1>1. \A k \in DOMAIN runs : runs[k] \in EvaluationRun
  BY DEF IInv, TypeOK
<1> QED BY <1>1 DEF EvaluationRun

(* What the members folded to before is what they fold to now, refolded.    *)
LEMMA RefoldingFolded ==
  ASSUME WellLinked(superseded_by, NInstruments), NEW members \in SUBSET Instruments
  PROVE  /\ FoldedTo(members) \in SUBSET Instruments
         /\ FoldedTo(FoldedTo(members)) = FoldedTo(members)
BY FoldIsIdempotent DEF FoldedTo

(* The same reads with the state they read as arguments. *)
Folded(links, members) == { Fold(links)[i] : i \in members }
Read(links, rows, day) == Folded(links, { row.instrument : row \in { r \in rows : HeldOn(r, day) } })

(* Has no later Run changed the date of the k-th one? *)
Final(rs, k) ==
  \A m \in DOMAIN rs : (k < m /\ rs[m].source_asof = rs[k].source_asof) => rs[m].outcome = QuietRun

ReadsBack(links, rows, rs) ==
  \A k \in DOMAIN rs :
    Final(rs, k) => Read(links, rows, rs[k].source_asof) = Folded(links, rs[k].members)

LEMMA ReadsBackExplicitly ==
  /\ ReadsBackAsEvaluated <=> ReadsBack(superseded_by, intervals, runs)
  /\ ReadsBackAsEvaluated' <=> ReadsBack(superseded_by', intervals', runs')
BY DEF ReadsBackAsEvaluated, ReadsBack, Final, Read, Folded, MembersAt, FoldedTo, HeldOn

LEMMA ReadsExplicitly ==
  /\ \A day : MembersAt(day) = Read(superseded_by, intervals, day)
  /\ \A day : MembersAt(day)' = Read(superseded_by', intervals', day)
  /\ \A members : FoldedTo(members) = Folded(superseded_by, members)
  /\ \A members : FoldedTo(members)' = Folded(superseded_by', members)
BY DEF Read, Folded, MembersAt, FoldedTo, HeldOn

(* What an evaluation produced for a date is what the date reads back, ever *)
(* after: later evaluations leave it alone and Supersessions re-express     *)
(* both alike.                                                              *)
THEOREM HistoryReadsBack == Spec => []ReadsBackAsEvaluated
<1>1. Init => ReadsBackAsEvaluated
  BY DEF Init, ReadsBackAsEvaluated
<1>2. IInv /\ IInv' /\ ReadsBackAsEvaluated /\ [Next]_vars => ReadsBackAsEvaluated'
  <2> SUFFICES ASSUME IInv, IInv', ReadsBack(superseded_by, intervals, runs), [Next]_vars
               PROVE  ReadsBack(superseded_by', intervals', runs')
    BY ReadsBackExplicitly
  <2>1. \A k \in DOMAIN runs : /\ runs[k].source_asof \in Dates
                               /\ runs[k].members \in SUBSET Instruments
    BY RunsTyped
  <2>2. ASSUME NEW when \in Dates, NEW members \in SUBSET Instruments, NEW stamp \in Revisions,
               RecordMembership(when, members, stamp)
        PROVE  ReadsBack(superseded_by', intervals', runs')
    <3> DEFINE n == Len(runs) + 1
    <3>1. /\ superseded_by' = superseded_by
          /\ \A k \in DOMAIN runs : runs[k].source_asof <= when
          /\ \A e \in entries : e.as_of <= when
      BY <2>2 DEF RecordMembership, MayRecord
    <3>2. Read(superseded_by', intervals', when) = Folded(superseded_by', FoldedTo(members))
      <4>1. \A e \in entries' : e.as_of <= when
        BY <3>1, <2>2 DEF RecordMembership, Entered, Dates
      <4>2. MembersAt(when)' = Held'
        <5>1. Settled'
          BY SettledMembers, PTL
        <5> QED BY <4>1, <5>1 DEF Settled, Dates
      <4>3. Held' = FoldedTo(members)
        BY <2>2, EvaluationIsHeld
      <4>4. FoldedTo(FoldedTo(members)) = FoldedTo(members)
        BY RefoldingFolded DEF IInv
      <4> QED BY <4>2, <4>3, <4>4, <3>1, ReadsExplicitly
    <3>3. \A day \in Dates :
            day < when => Read(superseded_by', intervals', day) = Read(superseded_by, intervals, day)
      BY <2>2, PastIsKept, ReadsExplicitly
    <3>4. ~ Differs(members) => intervals' = intervals
      BY <2>2, QuietEvaluation DEF RecordMembership
    <3>5. ASSUME NEW k \in DOMAIN runs, Final(runs', k)
          PROVE  Read(superseded_by', intervals', runs[k].source_asof) = Folded(superseded_by', runs[k].members)
      <4>1. Final(runs, k) /\ (runs[k].source_asof = when => ~ Differs(members))
        <5>1. /\ DOMAIN runs' = DOMAIN runs \cup {n} /\ k < n
              /\ \A m \in DOMAIN runs : runs'[m] = runs[m]
              /\ runs'[n].source_asof = when
              /\ Differs(members) => runs'[n].outcome = ChangedRun
          BY <2>2, RunsAfter
        <5> HIDE DEF n
        <5> QED BY <3>5, <5>1 DEF Final, ChangedRun, QuietRun
      <4>2. Read(superseded_by, intervals, runs[k].source_asof) = Folded(superseded_by, runs[k].members)
        BY <4>1, <3>5 DEF ReadsBack
      <4>3. CASE runs[k].source_asof = when
        BY <4>1, <4>2, <4>3, <3>1, <3>4
      <4>4. CASE runs[k].source_asof < when
        BY <4>2, <4>4, <3>1, <3>3, <2>1
      <4> QED BY <3>1, <4>3, <4>4, <2>1 DEF Dates
    <3> QED BY <2>2, <3>2, <3>5, RunsAfter DEF ReadsBack
  <2>3. ASSUME NEW loser \in Instruments, NEW survivor \in Instruments, Supersede(loser, survivor)
        PROVE  ReadsBack(superseded_by', intervals', runs')
    <3> DEFINE Moved(xs) == { IF i = loser THEN survivor ELSE i : i \in xs }
    <3>1. runs' = runs
      BY <2>3 DEF Supersede
    <3>2. \A day : Read(superseded_by', intervals', day) = Moved(Read(superseded_by, intervals, day))
      BY <2>3, SupersedeReexpresses, ReadsExplicitly
    <3>3. \A members \in SUBSET Instruments :
            Folded(superseded_by', members) = Moved(Folded(superseded_by, members))
      BY <2>3, SupersedeReexpresses, ReadsExplicitly
    <3> HIDE DEF Moved
    <3> QED BY <2>1, <3>1, <3>2, <3>3 DEF ReadsBack
  <2>4. CASE UNCHANGED vars
    BY <2>4 DEF vars
  <2> QED BY <2>2, <2>3, <2>4 DEF Next, RefuseMembership
<1> QED BY <1>1, <1>2, AlwaysIInv, PTL DEF Spec

(* Every entry has the one Run that wrote it, and no Run that changed the   *)
(* membership is without its entry.                                         *)
THEOREM EntriesStayEvidenced == Spec => []EntriesAreEvidenced
<1>1. Init => EntriesAreEvidenced
  BY DEF Init, EntriesAreEvidenced
<1>2. IInv /\ EntriesAreEvidenced /\ [Next]_vars => EntriesAreEvidenced'
  <2> SUFFICES ASSUME IInv, EntriesAreEvidenced, [Next]_vars PROVE EntriesAreEvidenced'
    OBVIOUS
  <2>1. ASSUME NEW when \in Dates, NEW members \in SUBSET Instruments, NEW stamp \in Revisions,
               RecordMembership(when, members, stamp)
        PROVE  EntriesAreEvidenced'
    <3>1. CASE ~ Differs(members)
      <4>1. entries' = entries
        BY <2>1, <3>1 DEF RecordMembership, Entered
      <4> QED BY <2>1, <3>1, <4>1, RunsAfter DEF EntriesAreEvidenced, ChangedRun, QuietRun
    <3>2. CASE Differs(members)
      <4> DEFINE new == [as_of |-> when, revision |-> stamp]
                 n   == Len(runs) + 1
      <4>1. entries' = entries \cup {new} /\ new.as_of = when /\ new.revision = stamp
        BY <2>1, <3>2 DEF RecordMembership, Entered
      <4>2. \A e \in entries : e.as_of # when
        BY <2>1, <3>2 DEF RecordMembership, MayRecord
      <4>3. \A k \in DOMAIN runs : runs[k].outcome = ChangedRun => runs[k].source_asof # when
        BY <4>2 DEF EntriesAreEvidenced
      <4>4. /\ DOMAIN runs' = DOMAIN runs \cup {n} /\ \A k \in DOMAIN runs : k # n
            /\ \A k \in DOMAIN runs : runs'[k] = runs[k]
            /\ runs'[n].source_asof = when /\ runs'[n].revision = stamp
            /\ runs'[n].outcome = ChangedRun
        BY <2>1, <3>2, RunsAfter
      <4> HIDE DEF new, n
      <4> QED BY <4>1, <4>2, <4>3, <4>4 DEF EntriesAreEvidenced
    <3> QED BY <3>1, <3>2
  <2>2. CASE UNCHANGED <<intervals, entries, runs>>
    BY <2>2 DEF EntriesAreEvidenced
  <2> QED BY <2>1, <2>2 DEF Next, vars, Supersede, RefuseMembership
<1> QED BY <1>1, <1>2, AlwaysIInv, PTL DEF Spec

-----------------------------------------------------------------------------
(* The store implements the Series. *)

(* The entry a row of UniverseEntry loads as. *)
Loaded(links, rows, e) ==
  [as_of |-> e.as_of, universe |-> Read(links, rows, e.as_of), revision |-> e.revision]

LEMMA SeriesExplicitly ==
  /\ LoadedSeries = { Loaded(superseded_by, intervals, e) : e \in entries }
  /\ LoadedSeries' = { Loaded(superseded_by', intervals', e) : e \in entries' }
BY ReadsExplicitly DEF LoadedSeries, Loaded

LEMMA LoadedFields ==
  ASSUME NEW links, NEW rows, NEW e
  PROVE  /\ Loaded(links, rows, e).as_of = e.as_of
         /\ Loaded(links, rows, e).universe = Read(links, rows, e.as_of)
BY DEF Loaded

(* An evaluation that changed something appends its membership. *)
LEMMA ChangeAppends ==
  ASSUME IInv, IInv', NEW when \in Dates, NEW members \in SUBSET Instruments, NEW stamp \in Revisions,
         RecordMembership(when, members, stamp), Differs(members)
  PROVE  Series!Append(when, FoldedTo(members), stamp)
<1> DEFINE new == [as_of |-> when, revision |-> stamp]
<1>1. /\ superseded_by' = superseded_by
      /\ entries' = entries \cup {new} /\ new.as_of = when /\ new.revision = stamp
      /\ \A e \in entries : e.as_of \in Dates /\ e.as_of < when
  BY DEF RecordMembership, MayRecord, Entered, IInv, TypeOK, Entry, Dates
<1>2. \A e \in LoadedSeries : e.as_of < when
  BY <1>1, SeriesExplicitly, LoadedFields
<1>3. ASSUME NEW e \in LoadedSeries, \A f \in LoadedSeries : f.as_of <= e.as_of
      PROVE  e.universe # FoldedTo(members)
  <2>1. PICK f \in entries : e = Loaded(superseded_by, intervals, f)
    BY SeriesExplicitly
  <2>2. \A g \in entries : g.as_of <= f.as_of
    BY <1>3, <2>1, SeriesExplicitly, LoadedFields
  <2>3. MembersAt(f.as_of) = Held
    BY <1>1, <2>2, SettledMembers DEF Settled
  <2>4. e.universe = Held
    BY <2>1, <2>3, LoadedFields, ReadsExplicitly
  <2>5. entries # {} /\ Held # FoldedTo(members)
    BY <2>1 DEF Differs, Admitted, Dropped
  <2> QED BY <2>4, <2>5
<1>4. Read(superseded_by', intervals', when) = FoldedTo(members)
  <2>1. Settled'
    BY SettledMembers, PTL
  <2>2. \A e \in entries' : e.as_of <= when
    BY <1>1 DEF Dates
  <2>3. MembersAt(when)' = Held'
    BY <2>1, <2>2 DEF Settled, Dates
  <2> QED BY <2>3, EvaluationIsHeld, ReadsExplicitly
<1>5. \A e \in entries : Loaded(superseded_by', intervals', e) = Loaded(superseded_by, intervals, e)
  BY <1>1, PastIsKept, ReadsExplicitly DEF Loaded
<1>6. Loaded(superseded_by', intervals', new)
        = [as_of |-> when, universe |-> FoldedTo(members), revision |-> stamp]
  BY <1>1, <1>4 DEF Loaded
<1> HIDE DEF new
<1>7. LoadedSeries' = LoadedSeries \cup
        {[as_of |-> when, universe |-> FoldedTo(members), revision |-> stamp]}
  BY <1>1, <1>5, <1>6, SeriesExplicitly
<1> QED BY <1>2, <1>3, <1>7 DEF Series!Append, Series!Latest

(* A Supersession re-expresses every entry. *)
LEMMA SupersedeIsReexpress ==
  ASSUME IInv, NEW loser \in Instruments, NEW survivor \in Instruments,
         Supersede(loser, survivor)
  PROVE  Series!Reexpress(loser, survivor)
<1> DEFINE Moved(xs) == { IF i = loser THEN survivor ELSE i : i \in xs }
<1>1. entries' = entries
  BY DEF Supersede
<1>2. \A day : Read(superseded_by', intervals', day) = Moved(Read(superseded_by, intervals, day))
  BY SupersedeReexpresses, ReadsExplicitly
<1>3. \A e \in entries : Loaded(superseded_by', intervals', e)
        = [Loaded(superseded_by, intervals, e) EXCEPT !.universe = Moved(@)]
  BY <1>2 DEF Loaded
<1>4. \A e : Series!Reexpressed(e, loser, survivor) = [e EXCEPT !.universe = Moved(@)]
  BY DEF Series!Reexpressed
<1> HIDE DEF Moved
<1> QED BY <1>1, <1>3, <1>4, SeriesExplicitly DEF Series!Reexpress

(* What the store loads is, step by step, a Series: entries only ever       *)
(* appended, each later than and different from the one before, and past    *)
(* entries re-expressed by nothing but a Supersession.                      *)
THEOREM StoreImplementsSeries == Spec => ImplementsSeries
<1>1. Init => Series!Init
  BY DEF Init, LoadedSeries, Series!Init
<1>2. IInv /\ IInv' /\ [Next]_vars => [Series!Next]_LoadedSeries
  <2> SUFFICES ASSUME IInv, IInv', [Next]_vars PROVE Series!Next \/ LoadedSeries' = LoadedSeries
    OBVIOUS
  <2>1. ASSUME NEW when \in Dates, NEW members \in SUBSET Instruments, NEW stamp \in Revisions,
               RecordMembership(when, members, stamp)
        PROVE  Series!Next \/ LoadedSeries' = LoadedSeries
    <3>1. CASE Differs(members)
      <4>1. Series!Append(when, FoldedTo(members), stamp)
        BY <2>1, <3>1, ChangeAppends
      <4>2. FoldedTo(members) \in SUBSET Instruments
        BY RefoldingFolded DEF IInv
      <4> QED BY <4>1, <4>2 DEF Series!Next
    <3>2. CASE ~ Differs(members)
      <4>1. superseded_by' = superseded_by /\ intervals' = intervals /\ entries' = entries
        BY <2>1, <3>2, QuietEvaluation DEF RecordMembership, Entered
      <4> QED BY <4>1, SeriesExplicitly
    <3> QED BY <3>1, <3>2
  <2>2. ASSUME NEW loser \in Instruments, NEW survivor \in Instruments, Supersede(loser, survivor)
        PROVE  Series!Next
    BY <2>2, SupersedeIsReexpress DEF Series!Next
  <2>3. CASE UNCHANGED vars
    BY <2>3, SeriesExplicitly DEF vars
  <2> QED BY <2>1, <2>2, <2>3 DEF Next, RefuseMembership
<1> QED BY <1>1, <1>2, AlwaysIInv, PTL DEF Spec, ImplementsSeries, Series!Spec
-----------------------------------------------------------------------------
(* Stays. *)

(* The stays merged from some rows of an Instrument: whole, apart, and none *)
(* begun after the last of the rows.                                        *)
WellMerged(stays, R) ==
  /\ stays \in Seq([from : Dates, to : Dates \cup {Open}])
  /\ \A day \in Dates :
       (\E k \in DOMAIN stays : InStay(stays[k], day)) <=> \E row \in R : HeldOn(row, day)
  /\ \A k \in 1 .. Len(stays) - 1 : stays[k].to # Open /\ stays[k].to < stays[k + 1].from
  /\ Len(stays) > 0 => \E row \in R : stays[Len(stays)].from <= row.valid_from

(* A stay that a row extends is a member's for the days of either. *)
LEMMA ExtendedStay ==
  ASSUME NEW stay \in [from : Dates, to : Dates \cup {Open}], NEW row \in Interval,
         stay.from <= row.valid_from, Adjoins(stay, row)
  PROVE  /\ Reaches(stay, row) \in Dates \cup {Open}
         /\ \A longer : longer = [stay EXCEPT !.to = Reaches(stay, row)] =>
              \A day \in Dates : InStay(longer, day) <=> InStay(stay, day) \/ HeldOn(row, day)
<1>1. /\ Dates \subseteq Nat /\ 0 \notin Dates
      /\ stay.from \in Dates /\ stay.to \in Dates \cup {0}
      /\ row.valid_from \in Dates /\ row.valid_to \in Dates \cup {0}
      /\ row.valid_to = 0 \/ row.valid_from < row.valid_to
  BY UniverseAssumption DEF Interval, Dates, Open
<1>2. /\ stay.from \in Nat /\ stay.to \in Nat /\ row.valid_from \in Nat /\ row.valid_to \in Nat
  <2>1. \A d \in Dates \cup {0} : d \in Nat
    BY <1>1
  <2> QED BY <1>1, <2>1
<1>3. Reaches(stay, row) \in Dates \cup {Open}
  BY <1>1 DEF Reaches, Open
<1>4. ASSUME NEW longer, longer = [stay EXCEPT !.to = Reaches(stay, row)], NEW day \in Dates
      PROVE  InStay(longer, day) <=> InStay(stay, day) \/ HeldOn(row, day)
  <2>1. longer.from = stay.from /\ longer.to = Reaches(stay, row) /\ day \in Nat
    BY <1>1, <1>4
  <2>2. CASE stay.to = 0 \/ row.valid_to = 0
    <3>1. longer.to = 0
      BY <2>1, <2>2 DEF Reaches, Open
    <3> QED BY <1>2, <2>1, <2>2, <3>1 DEF InStay, HeldOn, Adjoins, Open
  <2>3. CASE stay.to # 0 /\ row.valid_to # 0
    <3>1. longer.to = IF stay.to >= row.valid_to THEN stay.to ELSE row.valid_to
      BY <2>1, <2>3 DEF Reaches, Open
    <3> QED BY <1>1, <1>2, <2>1, <2>3, <3>1 DEF InStay, HeldOn, Adjoins, Open
  <2> QED BY <2>2, <2>3
<1> QED BY <1>3, <1>4

(* A longer last stay leaves the stays before it apart. *)
LEMMA LastStayExtended ==
  ASSUME NEW T, NEW stays \in Seq(T), Len(stays) > 0, NEW longer \in T
  PROVE  LET merged == [stays EXCEPT ![Len(stays)] = longer]
         IN  /\ merged \in Seq(T) /\ Len(merged) = Len(stays)
             /\ merged[Len(stays)] = longer
             /\ \A k \in 1 .. Len(stays) - 1 : merged[k] = stays[k]
  OBVIOUS

LEMMA MergeStep ==
  ASSUME NEW stays, NEW R \in SUBSET Interval, WellMerged(stays, R), NEW x \in Interval,
         \A row \in R : row.valid_from <= x.valid_from
  PROVE  WellMerged(MergedInto(stays, x), R \cup {x})
<1> DEFINE n == Len(stays)
           T == [from : Dates, to : Dates \cup {Open}]
<1>1. /\ stays \in Seq(T) /\ n \in Nat /\ DOMAIN stays = 1 .. n
      /\ \A k \in 1 .. n : stays[k] \in T
  <2>1. stays \in Seq(T)
    BY DEF WellMerged
  <2> HIDE DEF T
  <2> QED BY <2>1
<1>2. /\ Dates \subseteq Nat /\ Open = 0
      /\ x.valid_from \in Nat /\ x.valid_from \in Dates /\ x.valid_to \in Dates \cup {Open}
      /\ \A row \in R : row.valid_from \in Nat
  BY UniverseAssumption DEF Interval, Dates, Open
<1>3. \A k \in 1 .. n : stays[k].from \in Nat /\ stays[k].to \in Nat
  BY <1>1, <1>2
<1>4. n > 0 => n \in 1 .. n
  BY <1>1
<1>5. \A day \in Dates :
        (\E k \in 1 .. n : InStay(stays[k], day)) <=> \E row \in R : HeldOn(row, day)
  BY <1>1 DEF WellMerged
<1>6. \A k \in 1 .. n - 1 : stays[k].to # Open /\ stays[k].to < stays[k + 1].from
  BY DEF WellMerged
<1>7. n > 0 => stays[n].from <= x.valid_from
  <2> SUFFICES ASSUME n > 0 PROVE stays[n].from <= x.valid_from
    OBVIOUS
  <2>1. PICK row \in R : stays[n].from <= row.valid_from
    BY DEF WellMerged
  <2>2. stays[n].from \in Nat /\ row.valid_from <= x.valid_from /\ row.valid_from \in Nat
    BY <1>2, <1>3, <1>4, <2>1
  <2> QED BY <1>2, <2>1, <2>2
<1> DEFINE merged == MergedInto(stays, x)
<1>8. CASE n > 0 /\ Adjoins(stays[n], x)
  <2> DEFINE longer == [stays[n] EXCEPT !.to = Reaches(stays[n], x)]
  <2>1. n \in 1 .. n /\ stays[n] \in T
    BY <1>1, <1>4, <1>8
  <2>2. /\ Reaches(stays[n], x) \in Dates \cup {Open}
        /\ \A day \in Dates : InStay(longer, day) <=> InStay(stays[n], day) \/ HeldOn(x, day)
    BY <1>7, <1>8, <2>1, ExtendedStay
  <2>3. longer \in T /\ longer.from = stays[n].from
    BY <2>1, <2>2
  <2>4. merged = [stays EXCEPT ![n] = longer]
    BY <1>8 DEF MergedInto
  <2> HIDE DEF longer, merged, T
  <2>5. /\ merged \in Seq(T) /\ Len(merged) = n
        /\ merged[n] = longer /\ \A k \in 1 .. n - 1 : merged[k] = stays[k]
    BY <1>1, <1>8, <2>3, <2>4, LastStayExtended
  <2> HIDE DEF n
  <2>6. \A k \in 1 .. n : k \in 1 .. n - 1 \/ k = n
    BY <1>1
  <2>7. \A k \in 1 .. n : merged[k].from = stays[k].from
    BY <2>3, <2>5, <2>6
  <2>8. \A day \in Dates :
          (\E k \in 1 .. n : InStay(merged[k], day)) <=> \E row \in R \cup {x} : HeldOn(row, day)
    <3> SUFFICES ASSUME NEW day \in Dates
                 PROVE  (\E k \in 1 .. n : InStay(merged[k], day))
                          <=> \E row \in R \cup {x} : HeldOn(row, day)
      OBVIOUS
    <3>1. InStay(merged[n], day) <=> InStay(stays[n], day) \/ HeldOn(x, day)
      BY <2>2, <2>5
    <3>2. \A k \in 1 .. n : k # n => (InStay(merged[k], day) <=> InStay(stays[k], day))
      BY <2>5, <2>6
    <3> QED BY <1>5, <2>1, <3>1, <3>2
  <2>9. \A k \in 1 .. n - 1 : merged[k].to # Open /\ merged[k].to < merged[k + 1].from
    <3>1. \A k \in 1 .. n - 1 : k + 1 \in 1 .. n
      BY <1>1
    <3> QED BY <1>6, <2>5, <2>7, <3>1
  <2>10. \E row \in R \cup {x} : merged[n].from <= row.valid_from
    BY <1>7, <1>8, <2>1, <2>7
  <2>11. DOMAIN merged = 1 .. n
    BY <2>5
  <2>12. WellMerged(merged, R \cup {x})
    BY <2>5, <2>8, <2>9, <2>10, <2>11 DEF WellMerged, T
  <2> QED BY <2>12 DEF merged
<1>9. CASE ~ (n > 0 /\ Adjoins(stays[n], x))
  <2> DEFINE new == [from |-> x.valid_from, to |-> x.valid_to]
  <2>1. merged = Append(stays, new)
    BY <1>9 DEF MergedInto
  <2>2. new \in T /\ new.from = x.valid_from /\ \A day : InStay(new, day) <=> HeldOn(x, day)
    BY <1>2 DEF InStay, HeldOn
  <2>3. n > 0 => stays[n].to # Open /\ stays[n].to < x.valid_from
    BY <1>2, <1>3, <1>4, <1>9 DEF Adjoins
  <2> HIDE DEF new, merged, T
  <2>4. /\ merged \in Seq(T) /\ Len(merged) = n + 1 /\ DOMAIN merged = 1 .. n + 1
        /\ merged[n + 1] = new /\ \A k \in 1 .. n : merged[k] = stays[k]
    BY <1>1, <2>1, <2>2
  <2> HIDE DEF n
  <2>5. /\ \A k \in 1 .. n + 1 : k \in 1 .. n \/ k = n + 1
        /\ \A k \in 1 .. n : k \in 1 .. n + 1 /\ (k = n \/ k \in 1 .. n - 1)
        /\ \A k \in 1 .. n - 1 : k + 1 \in 1 .. n /\ k \in 1 .. n
        /\ n + 1 \in 1 .. n + 1
        /\ (n + 1) - 1 = n
    BY <1>1
  <2>6. \A day \in Dates :
          (\E k \in 1 .. n + 1 : InStay(merged[k], day)) <=> \E row \in R \cup {x} : HeldOn(row, day)
    <3> SUFFICES ASSUME NEW day \in Dates
                 PROVE  (\E k \in 1 .. n + 1 : InStay(merged[k], day))
                          <=> \E row \in R \cup {x} : HeldOn(row, day)
      OBVIOUS
    <3> QED BY <1>5, <2>2, <2>4, <2>5
  <2>7. \A k \in 1 .. n : merged[k].to # Open /\ merged[k].to < merged[k + 1].from
    <3>1. n \in 1 .. n => merged[n].to # Open /\ merged[n].to < merged[n + 1].from
      <4>1. n \in 1 .. n => n > 0
        BY <1>1
      <4> QED BY <2>2, <2>3, <2>4, <4>1
    <3>2. \A k \in 1 .. n - 1 : merged[k].to # Open /\ merged[k].to < merged[k + 1].from
      BY <1>6, <2>4, <2>5
    <3> QED BY <2>5, <3>1, <3>2
  <2>8. \E row \in R \cup {x} : merged[n + 1].from <= row.valid_from
    BY <1>2, <2>2, <2>4
  <2>9. \A k \in 1 .. Len(merged) - 1 :
          merged[k].to # Open /\ merged[k].to < merged[k + 1].from
    BY <2>4, <2>5, <2>7
  <2>10. WellMerged(merged, R \cup {x})
    BY <2>4, <2>6, <2>8, <2>9 DEF WellMerged, T
  <2> QED BY <2>10 DEF merged
<1> QED BY <1>8, <1>9

(* Among rows there are that begin, one begins no earlier than any. *)
LEMMA LastBegunIsLast ==
  ASSUME NEW rows \in SUBSET Interval, rows # {}
  PROVE  LastBegun(rows) \in rows /\ \A r \in rows : r.valid_from <= LastBegun(rows).valid_from
<1> DEFINE begun == { r.valid_from : r \in rows }
<1>1. begun \in SUBSET Nat /\ begun # {} /\ LastDate \in Nat /\ \A d \in begun : d <= LastDate
  BY UniverseAssumption DEF Interval, Dates
<1> HIDE DEF begun
<1>2. Max(begun) \in begun /\ \A d \in begun : d <= Max(begun)
  BY <1>1, MaxIsMember
<1>3. PICK row \in rows : row.valid_from = Max(begun)
  BY <1>2 DEF begun
<1>4. \A r \in rows : r.valid_from <= row.valid_from
  BY <1>2, <1>3 DEF begun
<1> QED BY <1>4 DEF LastBegun

(* The rows without the last of them are fewer. *)
LEMMA LastBegunApart ==
  ASSUME NEW rows \in SUBSET Interval, IsFiniteSet(rows), NEW s \in SUBSET rows, s # {}
  PROVE  /\ LastBegun(s) \in s /\ s \ {LastBegun(s)} \in SUBSET rows
         /\ Cardinality(s) \in Nat /\ Cardinality(s \ {LastBegun(s)}) \in Nat
         /\ Cardinality(s \ {LastBegun(s)}) = Cardinality(s) - 1
<1>1. LastBegun(s) \in s
  BY LastBegunIsLast
<1>2. IsFiniteSet(s)
  BY FS_Subset
<1>3. Cardinality(s \ {LastBegun(s)}) = Cardinality(s) - 1 /\ IsFiniteSet(s \ {LastBegun(s)})
  BY <1>1, <1>2, FS_RemoveElement
<1> QED BY <1>1, <1>2, <1>3, FS_CardinalityType

(* The recursive equation of the fold, on the sets of at most n rows. *)
Merges(f, rows, n) ==
  /\ f = [s \in SUBSET rows |-> f[s]]
  /\ \A s \in SUBSET rows : Cardinality(s) <= n =>
       f[s] = IF s = {} THEN <<>> ELSE MergedInto(f[s \ {LastBegun(s)}], LastBegun(s))

LEMMA MergesExist ==
  ASSUME NEW rows \in SUBSET Interval, IsFiniteSet(rows)
  PROVE  \A n \in Nat : \E f : Merges(f, rows, n)
<1> DEFINE Bad == {n \in Nat : ~ \E f : Merges(f, rows, n)}
           next(f) == [s \in SUBSET rows |->
                         IF s = {} THEN <<>> ELSE MergedInto(f[s \ {LastBegun(s)}], LastBegun(s))]
<1> SUFFICES ASSUME Bad # {} PROVE FALSE
  OBVIOUS
<1>1. PICK n \in Bad : \A k \in Bad : n <= k
  <2>1. Bad \in SUBSET Nat
    OBVIOUS
  <2> HIDE DEF Bad
  <2> QED BY <2>1, LeastNat
<1>2. PICK f : n # 0 => Merges(f, rows, n - 1)
  <2>1. n # 0 => n - 1 \in Nat /\ n - 1 \notin Bad
    BY <1>1
  <2> QED BY <2>1
<1>3. \A s \in SUBSET rows : s # {} /\ Cardinality(s) <= n =>
        next(f)[s \ {LastBegun(s)}] = f[s \ {LastBegun(s)}]
  <2> SUFFICES ASSUME NEW s \in SUBSET rows, s # {}, Cardinality(s) <= n
               PROVE  next(f)[s \ {LastBegun(s)}] = f[s \ {LastBegun(s)}]
    OBVIOUS
  <2> DEFINE t == s \ {LastBegun(s)}
  <2>1. /\ t \in SUBSET rows /\ Cardinality(s) \in Nat /\ Cardinality(t) \in Nat
        /\ Cardinality(t) = Cardinality(s) - 1
    BY LastBegunApart
  <2>2. n \in Nat
    BY <1>1
  <2> HIDE DEF t
  <2>3. n # 0 /\ Cardinality(t) <= n - 1
    BY <2>1, <2>2
  <2>4. f[t] = next(f)[t]
    BY <1>2, <2>1, <2>3 DEF Merges
  <2> QED BY <2>4 DEF t
<1>4. Merges(next(f), rows, n)
  <2>1. /\ next(f) = [s \in SUBSET rows |-> next(f)[s]]
        /\ \A s \in SUBSET rows :
             next(f)[s] = IF s = {} THEN <<>>
                          ELSE MergedInto(f[s \ {LastBegun(s)}], LastBegun(s))
    OBVIOUS
  <2> HIDE DEF next
  <2> QED BY <1>3, <2>1 DEF Merges
<1> QED BY <1>1, <1>4

LEMMA NothingMerged == WellMerged(<<>>, {})
<1> DEFINE T == [from : Dates, to : Dates \cup {Open}]
<1>1. <<>> \in Seq(T) /\ Len(<<>>) = 0 /\ DOMAIN <<>> = {} /\ 1 .. Len(<<>>) - 1 = {}
  OBVIOUS
<1> HIDE DEF T
<1> QED BY <1>1 DEF WellMerged, T

(* What membership_intervals merges from any rows is whole and apart. *)
LEMMA FoldMerges ==
  ASSUME NEW rows \in SUBSET Interval, IsFiniteSet(rows)
  PROVE  WellMerged(MapThenFoldSet(LAMBDA row, stays : MergedInto(stays, row), <<>>,
                                   LAMBDA row : row, LastBegun, rows), rows)
<1> DEFINE E(f) == [s \in SUBSET rows |->
                      IF s = {} THEN <<>> ELSE MergedInto(f[s \ {LastBegun(s)}], LastBegun(s))]
           after == CHOOSE f : f = E(f)
           n     == Cardinality(rows)
<1>1. MapThenFoldSet(LAMBDA row, stays : MergedInto(stays, row), <<>>,
                     LAMBDA row : row, LastBegun, rows) = after[rows]
  BY DEF MapThenFoldSet
<1>2. n \in Nat /\ \A s \in SUBSET rows : Cardinality(s) \in Nat /\ Cardinality(s) <= n
  BY FS_Subset, FS_CardinalityType
<1> HIDE DEF n
<1>3. \E f : f = E(f)
  <2>1. PICK f : Merges(f, rows, n)
    BY <1>2, MergesExist
  <2>2. f = E(f)
    BY <1>2, <2>1 DEF Merges
  <2> QED BY <2>2
<1>4. after = E(after)
  BY <1>3
<1> HIDE DEF after
<1>5. \A s \in SUBSET rows :
        after[s] = IF s = {} THEN <<>>
                   ELSE MergedInto(after[s \ {LastBegun(s)}], LastBegun(s))
  BY <1>4
<1> HIDE DEF E
<1> DEFINE Bad == {m \in Nat : \E s \in SUBSET rows :
                                 Cardinality(s) = m /\ ~ WellMerged(after[s], s)}
<1>6. Bad = {}
  <2> SUFFICES ASSUME Bad # {} PROVE FALSE
    OBVIOUS
  <2>1. PICK m \in Bad : \A k \in Bad : m <= k
    <3>1. Bad \in SUBSET Nat
      OBVIOUS
    <3> HIDE DEF Bad
    <3> QED BY <3>1, LeastNat
  <2>2. PICK s \in SUBSET rows : Cardinality(s) = m /\ ~ WellMerged(after[s], s)
    BY <2>1
  <2>3. s # {}
    BY <1>5, <2>2, NothingMerged
  <2> DEFINE t == s \ {LastBegun(s)}
  <2>4. /\ t \in SUBSET rows /\ m \in Nat /\ Cardinality(t) \in Nat /\ Cardinality(t) = m - 1
    BY <2>2, <2>3, LastBegunApart
  <2>5. after[s] = MergedInto(after[t], LastBegun(s))
    BY <1>5, <2>3
  <2>6. /\ LastBegun(s) \in Interval /\ t \in SUBSET Interval
        /\ \A r \in t : r.valid_from <= LastBegun(s).valid_from
        /\ s = t \cup {LastBegun(s)}
    BY <2>3, LastBegunIsLast
  <2> HIDE DEF t
  <2>7. WellMerged(after[t], t)
    <3>1. Cardinality(t) \notin Bad
      BY <2>1, <2>4
    <3> QED BY <2>4, <3>1
  <2>8. WellMerged(MergedInto(after[t], LastBegun(s)), t \cup {LastBegun(s)})
    BY <2>6, <2>7, MergeStep
  <2> QED BY <2>2, <2>5, <2>6, <2>8
<1>7. WellMerged(after[rows], rows)
  BY <1>2, <1>6
<1> QED BY <1>1, <1>7

(* There are finitely many intervals to record. *)
LEMMA FinitelyManyIntervals ==
  ASSUME NEW rows \in SUBSET Interval
  PROVE  IsFiniteSet(rows)
<1> DEFINE S == (Instruments \X Dates) \X (Dates \cup {Open})
           f == [row \in rows |-> <<<<row.instrument, row.valid_from>>, row.valid_to>>]
<1>1. IsFiniteSet(Instruments) /\ IsFiniteSet(Dates)
  BY UniverseAssumption, FS_Interval DEF Instruments, Dates
<1>2. IsFiniteSet(Dates \cup {Open})
  BY <1>1, FS_AddElement
<1>3. IsFiniteSet(S)
  BY <1>1, <1>2, FS_Product
<1>4. f \in [rows -> S]
  BY DEF Interval
<1>5. ASSUME NEW x \in rows, NEW y \in rows, f[x] = f[y]
      PROVE  x = y
  <2>1. x.instrument = y.instrument /\ x.valid_from = y.valid_from /\ x.valid_to = y.valid_to
    BY <1>5
  <2> QED BY <2>1 DEF Interval
<1>6. f \in Injection(rows, S)
  BY <1>4, <1>5 DEF Injection, IsInjective
<1> HIDE DEF f, S
<1> QED BY <1>3, <1>6, FS_Injection

(* membership_intervals reports an Instrument's stays whole and apart: its  *)
(* days are the days it was a member, and between two stays it was not.     *)
THEOREM StaysAreWhole == Spec => []StaysAreMaximal
<1> SUFFICES IInv => StaysAreMaximal
  BY AlwaysIInv, PTL
<1> SUFFICES ASSUME IInv, NEW i \in Instruments
             PROVE  LET stays == Stays(i, 1, LastDate)
                    IN  /\ \A day \in Dates :
                             (\E k \in DOMAIN stays : InStay(stays[k], day))
                               <=> Fold(superseded_by)[i] \in MembersAt(day)
                        /\ \A k \in 1 .. Len(stays) - 1 :
                             stays[k].to # Open /\ stays[k].to < stays[k + 1].from
  BY DEF StaysAreMaximal
<1> DEFINE rows  == { row \in intervals : /\ row.instrument \in Family(i)
                                          /\ row.valid_from <= LastDate
                                          /\ row.valid_to = Open \/ row.valid_to >= 1 }
           stays == Stays(i, 1, LastDate)
<1>1. intervals \in SUBSET Interval /\ rows \in SUBSET Interval
  BY DEF IInv, TypeOK
<1>2. WellMerged(stays, rows)
  BY <1>1, FinitelyManyIntervals, FoldMerges DEF Stays
<1>3. \A row \in intervals : row \in rows <=> row.instrument \in Family(i)
  BY <1>1, UniverseAssumption DEF Interval, Dates, Open
<1>4. \A row \in intervals : row.instrument \in Instruments
  BY <1>1 DEF Interval
<1> HIDE DEF rows, stays
<1>5. rows \subseteq intervals
  BY DEF rows
<1>6. ASSUME NEW day \in Dates
      PROVE  (\E row \in rows : HeldOn(row, day)) <=> Fold(superseded_by)[i] \in MembersAt(day)
  BY <1>3, <1>4, <1>5 DEF MembersAt, FoldedTo, Family
<1> QED BY <1>2, <1>6 DEF WellMerged, stays
=============================================================================
