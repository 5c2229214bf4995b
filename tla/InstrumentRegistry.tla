------------------------- MODULE InstrumentRegistry -------------------------
(***************************************************************************)
(* The identity seam, InstrumentRegistry of cointoss/instrument.py: an     *)
(* in-memory collection of Instruments that Observations are put through   *)
(* (`observe`) and FIGI answers are attached to (`anchor`).                *)
(***************************************************************************)
EXTENDS Identity

CONSTANTS
  Observations,    (* The sightings that may arrive, in any order and any    *)
                   (* number of times.                                       *)
  MaxInstruments,  (* Bound on how many Instruments are minted.              *)
  MaxRecords       (* Bound on one source's Ticker History of an Instrument. *)

ASSUME RegistryAssumption ==
  /\ Observations \subseteq Observation
  /\ \A obs \in Observations : OneValueEach(obs.refs)
  /\ MaxInstruments \in Nat
  /\ MaxRecords \in Nat \ {0}

VARIABLE
  instruments      (* Every Instrument in mint order, superseded included.   *)

vars == <<instruments>>

(* The bound on Ticker History: room for one more record. *)
HistoryFits(i, obs) == Len(instruments[i].ticker_history[obs.source]) < MaxRecords

Init == instruments = <<>>

(***************************************************************************)
(* observe.  An Observation flagged for review changes nothing, so it is   *)
(* no step.                                                                *)
(***************************************************************************)

(* Every reference match leads to one survivor: the Observation is its. *)
MatchByReference(obs) ==
  /\ Matched(instruments, obs) # {}
  /\ Losers(instruments, obs) = {}
  /\ ~ MatchNeedsReview(instruments, obs)
  /\ HistoryFits(MatchTarget(instruments, obs), obs)
  /\ instruments' = JoinByReference(instruments, obs)

(* The references reveal several survivors to be one: the earliest-minted   *)
(* stays and supersedes the others.                                         *)
Supersede(obs) ==
  /\ Losers(instruments, obs) # {}
  /\ Matched(instruments, obs) # {}
  /\ ~ MatchNeedsReview(instruments, obs)
  /\ HistoryFits(MatchTarget(instruments, obs), obs)
  /\ instruments' = JoinByReference(instruments, obs)

(* No reference matches and exactly one unresolved survivor goes by the     *)
(* symbol.                                                                  *)
MatchBySymbol(obs) ==
  /\ Matched(instruments, obs) = {}
  /\ \E i \in SymbolMatches(instruments, obs) :
       /\ SymbolMatches(instruments, obs) = {i}
       /\ HistoryFits(i, obs)
       /\ instruments' = AbsorbAt(instruments, i, obs)

Mint(obs) ==
  /\ Len(instruments) < MaxInstruments
  /\ Matched(instruments, obs) = {}
  /\ SymbolMatches(instruments, obs) = {}
  /\ instruments' = Append(instruments, Minted(instruments, obs))

Observe(obs) ==
  MatchByReference(obs) \/ Supersede(obs) \/ MatchBySymbol(obs) \/ Mint(obs)

(***************************************************************************)
(* anchor: a FIGI answer for an Instrument the caller names.               *)
(***************************************************************************)

Anchor(t, obs) ==
  /\ obs.figi = Resolved
  /\ ~ AnchorNeedsReview(instruments, t, obs)
  /\ HistoryFits(t, obs)
  /\ instruments' = AbsorbAt(instruments, t, obs)

Next == \E obs \in Observations :
  Observe(obs) \/ \E t \in DOMAIN instruments : Anchor(t, obs)

Spec == Init /\ [][Next]_vars

-----------------------------------------------------------------------------
(***************************************************************************)
(* Properties                                                              *)
(***************************************************************************)

(* Every Instrument is well formed. *)
TypeOK == instruments \in Seq(Instrument)

(* A Supersession points to an Instrument minted earlier, so a chain always *)
(* ends and SupersessionCycle is never raised.                              *)
EarlierSurvives ==
  \A i \in DOMAIN instruments : instruments[i].superseded_by < i

(* A matchable External Reference names one asset: however many Instruments *)
(* carry it, they all fold to one survivor.                                 *)
OneFamilyPerReference ==
  \A i, j \in DOMAIN instruments :
    MatchKeys(instruments[i].refs) \cap MatchKeys(instruments[j].refs) # {}
      => Survivor(instruments, i) = Survivor(instruments, j)

(* A Supersession rests on a reference: the loser shares one with the       *)
(* Instrument it yielded to.  A symbol alone never merges two Instruments.  *)
MergedOnEvidence ==
  \A i \in DOMAIN instruments :
    LET s == instruments[i].superseded_by
    IN  s # None => MatchKeys(instruments[i].refs) \cap MatchKeys(instruments[s].refs) # {}

(* Contradicting evidence is flagged, never absorbed: no Instrument comes   *)
(* to hold two FIGIs, or two ids of one provider, when no single sighting   *)
(* carried both (OneValueEach holds of every Observation).                  *)
OneValuePerGroup ==
  \A i \in DOMAIN instruments : OneValueEach(instruments[i].refs)

(* Instrument Ids are unique, so an id once minted is never reused for      *)
(* another asset, superseded or not.                                        *)
IdsAreUnique ==
  \A i, j \in DOMAIN instruments : instruments[i].id = instruments[j].id => i = j

(* An Instrument reads as resolved exactly when it carries an anchor FIGI:  *)
(* a later miss or outage never puts it back in the unresolved queue.       *)
ResolvedMeansAnchored ==
  \A i \in DOMAIN instruments : ResolutionAgrees(instruments[i].refs, instruments[i].figi)

Adjoining(chain) ==
  \A k \in DOMAIN chain :
    IF k = Len(chain) THEN chain[k].to = Open
    ELSE chain[k].to = chain[k + 1].from /\ chain[k].from <= chain[k].to

(* What one source reported of one Instrument is a chain of adjoining       *)
(* stretches in date order, of which only the last is current.              *)
HistoryIsAChain ==
  \A i \in DOMAIN instruments, s \in Sources : Adjoining(instruments[i].ticker_history[s])

(* What is the same asset stays the same asset: Instruments that fold to    *)
(* one survivor fold to one survivor ever after, and a reference once held  *)
(* is never dropped, moved or rewritten.                                    *)
FamiliesOnlyGrow ==
  [][ \A i, j \in DOMAIN instruments :
        /\ Survivor(instruments, i) = Survivor(instruments, j)
             => Survivor(instruments', i) = Survivor(instruments', j)
        /\ instruments[i].refs \subseteq instruments'[i].refs
        /\ instruments[i].id = instruments'[i].id ]_vars
=============================================================================
