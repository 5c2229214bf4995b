--------------------------- MODULE UniverseSeries ---------------------------
(***************************************************************************)
(* What the store promises of one universe's history: the Series value     *)
(* object of cointoss/series.py.  Membership changes at dated entries,     *)
(* each later than the one before, and a Supersession found out later      *)
(* re-expresses members everywhere without moving an entry.                *)
(***************************************************************************)
EXTENDS Naturals

CONSTANTS
  Members,     (* Instruments that may be members.                           *)
  Dates,       (* Dates entries may be recorded for.                         *)
  Revisions    (* Revisions of the Universe Definition.                      *)

VARIABLE
  entries      (* DatedUniverse values: as_of, universe, Revision Stamp.     *)

(* The entry in force: nothing has been recorded after it. *)
Latest(e) == e \in entries /\ \A f \in entries : f.as_of <= e.as_of

Init == entries = {}

(* append: a later date, and only when the membership changed. *)
Append(when, universe, revision) ==
  /\ \A e \in entries : e.as_of < when
  /\ \A e \in entries : Latest(e) => e.universe # universe
  /\ entries' = entries \cup {[as_of |-> when, universe |-> universe, revision |-> revision]}

(* One member is reported as another from now on, on every date. *)
Reexpressed(e, loser, survivor) ==
  [e EXCEPT !.universe = { IF i = loser THEN survivor ELSE i : i \in e.universe }]

Reexpress(loser, survivor) ==
  entries' = { Reexpressed(e, loser, survivor) : e \in entries }

Next ==
  \/ \E when \in Dates, universe \in SUBSET Members, revision \in Revisions :
       Append(when, universe, revision)
  \/ \E loser, survivor \in Members : Reexpress(loser, survivor)

Spec == Init /\ [][Next]_entries
=============================================================================
