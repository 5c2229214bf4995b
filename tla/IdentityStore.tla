--------------------------- MODULE IdentityStore ----------------------------
(***************************************************************************)
(* The stored registry: how cointoss/ingest.py loads it, puts sightings    *)
(* through it and saves what changed, Instrument by Instrument, each save  *)
(* a commit of its own (Store.save_instruments).                           *)
(*                                                                         *)
(* One process runs every task on one event loop, so tasks interleave only *)
(* at an await: loading, observing and saving are uninterrupted, except by *)
(* the process dying between two commits.  Two operations await between    *)
(* what they read and what they save: retry_resolution, which holds the    *)
(* registry it loaded, and resolve_typed_symbol, which has found that no   *)
(* Instrument held the symbol when it asks CoinGecko for the coin's id.    *)
(***************************************************************************)
EXTENDS Identity, SequencesExt

CONSTANTS
  CoinSource,      (* The source whose symbols name coins (CoinGecko).       *)
  CoinGroup,       (* The comparison group of its ids.                       *)
  CoinIds,         (* Symbol -> the ids CoinGecko may name for it.           *)
  Sightings,       (* Typed symbols with the FIGI outcome of each.           *)
  Listings,        (* CoinGecko listings, as sequences of Observations.      *)
  FigiAnswers,     (* Reference sets a retry may be answered with.           *)
  Typists,         (* Tasks that may run resolve_typed_symbol.               *)
  Retriers,        (* Tasks that may run retry_resolution.                   *)
  MaxInstruments,  (* Bound on stored Instruments.                           *)
  MaxRecords       (* Bound on one source's Ticker History of an Instrument. *)

ASSUME StoreAssumption ==
  /\ Sightings \subseteq Observation
  /\ Listings \subseteq Seq(Observation)
  /\ FigiAnswers \subseteq SUBSET Reference
  /\ \A refs \in FigiAnswers : ResolutionAgrees(refs, Resolved)
  /\ CoinSource \in Sources
  /\ CoinGroup \in MatchGroups \ {AnchorGroup}
  /\ CoinIds \in [Symbols -> SUBSET Values]

VARIABLES
  rows,     (* The Instrument table, in mint order: rows[i].mint_seq is i.   *)
  writing,  (* The registry an operation is saving from.                     *)
  unsaved,  (* The Instruments of `writing` it has yet to commit.            *)
  lookups,  (* Typist -> the Observation whose coin CoinGecko is asked for.  *)
  retries,  (* Retrier -> the target and the registry of a retry in flight.     *)
  torn      (* History: a process died between the commits of a merge.       *)

vars == <<rows, writing, unsaved, lookups, retries, torn>>

NoRetry  == [target |-> None, registry |-> <<>>]
NoLookup == <<>>

Fits(reg) ==
  /\ Len(reg) <= MaxInstruments
  /\ \A i \in DOMAIN reg : \A s \in Sources : Len(reg[i].ticker_history[s]) <= MaxRecords

Init ==
  /\ rows = <<>>
  /\ writing = <<>>
  /\ unsaved = {}
  /\ lookups = [t \in Typists |-> NoLookup]
  /\ retries = [t \in Retriers |-> NoRetry]
  /\ torn = FALSE

(***************************************************************************)
(* Saving                                                                  *)
(***************************************************************************)

(* Mutant of Changed: a merge's losers are not written. *)
ChangedSurvivors(reg) ==
  { i \in DOMAIN reg :
      /\ i \notin DOMAIN rows \/ reg[i] # rows[i]
      /\ reg[i].superseded_by = None }

Changed(reg) == { i \in DOMAIN reg : i \notin DOMAIN rows \/ reg[i] # rows[i] }

(* Mutant of NextSaved: a merge's losers are committed before its survivor. *)
LosersFirst == Max(unsaved)

(* A merge's survivor was minted before its losers and is committed first;  *)
(* a listing's changes are committed in mint order.                         *)
NextSaved == Min(unsaved)

(* save_instrument *)
Commit ==
  /\ unsaved # {}
  /\ rows' = IF NextSaved \in DOMAIN rows
             THEN [rows EXCEPT ![NextSaved] = writing[NextSaved]]
             ELSE Append(rows, writing[NextSaved])
  /\ unsaved' = unsaved \ {NextSaved}
  /\ writing' = IF unsaved' = {} THEN <<>> ELSE writing
  /\ UNCHANGED <<lookups, retries, torn>>

(* The process dies: what is uncommitted is gone, and so are its tasks. *)
Crash ==
  /\ unsaved # {}
  /\ torn' = (torn \/ \E i \in unsaved : writing[i].superseded_by # None)
  /\ writing' = <<>>
  /\ unsaved' = {}
  /\ lookups' = [t \in Typists |-> NoLookup]
  /\ retries' = [t \in Retriers |-> NoRetry]
  /\ UNCHANGED rows

(* An operation's last uninterrupted act: start saving some Instruments of  *)
(* the registry it holds.  Saving one that did not change rewrites its row  *)
(* as it is, so an operation on fresh rows saves what changed.              *)
Save(reg, which) ==
  /\ Fits(reg)
  /\ unsaved' = which
  /\ writing' = IF which = {} THEN <<>> ELSE reg
  /\ UNCHANGED <<rows, torn>>

SaveChanges(reg) == Save(reg, Changed(reg))

(***************************************************************************)
(* Identifying                                                             *)
(***************************************************************************)

(* The unresolved Instrument a FIGI answer was waiting for: the only one    *)
(* whose Ticker History held the symbol at the source on the date.          *)
WaitingHolder(reg, obs) ==
  { w \in Holders(reg, obs) :
      obs.figi = Resolved /\ Holders(reg, obs) = {w} /\ reg[w].figi # Resolved }

Identified(reg, obs) ==
  IF WaitingHolder(reg, obs) = {} THEN Observed(reg, obs)
  ELSE Anchored(reg, CHOOSE w \in WaitingHolder(reg, obs) : TRUE, obs)

(* An Observation with the coin id CoinGecko names, or as it was when no    *)
(* one coin is named or CoinGecko is out.                                   *)
WithCoinId(obs) ==
  {obs} \cup
  { [obs EXCEPT !.refs = @ \cup {[group |-> CoinGroup, value |-> v]}] :
      v \in IF obs.source = CoinSource THEN CoinIds[obs.symbol] ELSE {} }

(* Without a FIGI hit a typed symbol is first looked up in the Ticker       *)
(* History; one that is held there, or contested, changes nothing.          *)
Unheld(obs) == obs.figi # Resolved /\ Holders(rows, obs) = {}

(* resolve_typed_symbol, when nothing read before an await is used after    *)
(* it: a FIGI hit, or a symbol that names no coin.                          *)
IdentifyTyped ==
  /\ unsaved = {}
  /\ \E obs \in Sightings :
       /\ obs.figi = Resolved \/ (Unheld(obs) /\ obs.source # CoinSource)
       /\ \E sighting \in WithCoinId(obs) : SaveChanges(Identified(rows, sighting))
  /\ UNCHANGED <<lookups, retries>>

(* resolve_typed_symbol for a coin no Instrument held: CoinGecko is asked,  *)
(* and the answer identified against the registry as it then is.            *)
AskForCoin(t) ==
  /\ unsaved = {}
  /\ lookups[t] = NoLookup
  /\ \E obs \in Sightings :
       /\ Unheld(obs) /\ obs.source = CoinSource
       /\ lookups' = [lookups EXCEPT ![t] = obs]
  /\ UNCHANGED <<rows, writing, unsaved, retries, torn>>

CoinAnswered(t) ==
  /\ unsaved = {}
  /\ lookups[t] # NoLookup
  /\ \E sighting \in WithCoinId(lookups[t]) : SaveChanges(Identified(rows, sighting))
  /\ lookups' = [lookups EXCEPT ![t] = NoLookup]
  /\ UNCHANGED retries

(* _identify_listing: a sweep's listing against one registry. *)
IdentifyListing ==
  /\ unsaved = {}
  /\ \E listing \in Listings : SaveChanges(FoldLeft(Observed, rows, listing))
  /\ UNCHANGED <<lookups, retries>>

(***************************************************************************)
(* retry_resolution                                                        *)
(***************************************************************************)

(* The registry is loaded, then OpenFIGI awaited. *)
StartRetry(t) ==
  /\ unsaved = {}
  /\ retries[t] = NoRetry
  /\ \E i \in DOMAIN rows : retries' = [retries EXCEPT ![t] = [target |-> i, registry |-> rows]]
  /\ UNCHANGED <<rows, writing, unsaved, lookups, torn>>

(* The Observation a hit makes of the target as it was loaded. *)
RetryObservation(target, day, refs) ==
  [ kind |-> target.kind, symbol |-> target.symbol, at |-> day,
    source |-> IdentitySource[target.kind], issuer |-> NoIssuer,
    refs |-> refs, figi |-> Resolved ]

(* A hit is anchored on the registry loaded before the await, and the       *)
(* target saved from it.                                                    *)
AnswerRetry(t) ==
  /\ unsaved = {}
  /\ retries[t] # NoRetry
  /\ \E refs \in FigiAnswers, day \in Dates :
       LET reg    == retries[t].registry
           target == retries[t].target
           obs    == RetryObservation(reg[target], day, refs)
       IN  Save(Anchored(reg, target, obs),
                IF AnchorNeedsReview(reg, target, obs) THEN {} ELSE {target})
  /\ retries' = [retries EXCEPT ![t] = NoRetry]
  /\ UNCHANGED lookups

(* OpenFIGI still has no single answer: nothing is written. *)
MissRetry(t) ==
  /\ unsaved = {}
  /\ retries[t] # NoRetry
  /\ retries' = [retries EXCEPT ![t] = NoRetry]
  /\ UNCHANGED <<rows, writing, unsaved, lookups, torn>>

Next ==
  \/ Commit \/ Crash \/ IdentifyTyped \/ IdentifyListing
  \/ \E t \in Typists : AskForCoin(t) \/ CoinAnswered(t)
  \/ \E t \in Retriers : StartRetry(t) \/ AnswerRetry(t) \/ MissRetry(t)

Spec == Init /\ [][Next]_vars

-----------------------------------------------------------------------------
(***************************************************************************)
(* Properties                                                              *)
(***************************************************************************)

(* The table, the registries in memory and the work list are well formed,   *)
(* and Instrument Ids are the table's key, whatever a crash left behind and *)
(* however stale the registry a retry saved from.                           *)
TypeOK ==
  /\ rows \in Seq(Instrument)
  /\ \A i, j \in DOMAIN rows : rows[i].id = rows[j].id => i = j
  /\ writing \in Seq(Instrument)
  /\ unsaved \subseteq DOMAIN writing
  /\ \A t \in Typists : lookups[t] \in Observation \/ lookups[t] = NoLookup
  /\ \A t \in Retriers : /\ retries[t].registry \in Seq(Instrument)
                         /\ retries[t].target \in 0 .. Len(retries[t].registry)
  /\ torn \in BOOLEAN

(* However a merge is cut short, the stored Supersessions fold: a loser's   *)
(* survivor is stored, was minted earlier, and holds a reference the loser  *)
(* holds, so no chain of rows cycles, dangles or merges without evidence.   *)
SupersessionsFold ==
  \A i \in DOMAIN rows :
    LET s == rows[i].superseded_by
    IN  s # None =>
          /\ s < i
          /\ MatchKeys(rows[i].refs) \cap MatchKeys(rows[s].refs) # {}

(* Between operations one reference names one surviving Instrument, unless  *)
(* a crash tore a merge: losing the tail of a listing tears nothing.        *)
OneFamilyUnlessTorn ==
  (unsaved = {} /\ ~ torn) =>
    \A i, j \in DOMAIN rows :
      MatchKeys(rows[i].refs) \cap MatchKeys(rows[j].refs) # {}
        => Survivor(rows, i) = Survivor(rows, j)

(* The policy of cointoss.ingest: a typed symbol without a FIGI hit is      *)
(* pinned to the one Instrument that held it, so none is minted beside it.  *)
NoneMintedBeside ==
  [][ \A t \in Typists :
        (lookups[t] # NoLookup /\ lookups'[t] = NoLookup /\ writing' # <<>>
           /\ Cardinality(Holders(rows, lookups[t])) = 1)
          => Len(writing') = Len(rows) ]_vars

(* ADR-0004: a retry is flagged and changes nothing when the target is      *)
(* superseded, already anchored on another FIGI or disagreeing on any other *)
(* reference.  So no save lets a superseded Instrument survive again, nor   *)
(* puts another value in the place of a reference that is stored.           *)
SettledIsFinal ==
  [][ \A i \in DOMAIN rows :
        /\ rows[i].superseded_by # None => rows'[i].superseded_by # None
        /\ ~ Conflict(rows[i].refs, rows'[i].refs) ]_vars
=============================================================================
