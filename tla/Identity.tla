------------------------------ MODULE Identity ------------------------------
(***************************************************************************)
(* The identity rules of cointoss/instrument.py, as operators over a       *)
(* registry value: the sequence of every Instrument ever minted, in mint   *)
(* order.  An Instrument is named by its position in that sequence, its    *)
(* `mint_seq`; its Instrument Id is the field `id`.                        *)
(*                                                                         *)
(* The module has no variable.  InstrumentRegistry and IdentityStore give  *)
(* the operators a state: the first the in-memory registry, the second     *)
(* the rows it is loaded from and saved to.                                *)
(***************************************************************************)
EXTENDS Supersession, Sequences, FiniteSets, FiniteSetsExt

CONSTANTS
  Kinds,           (* The {type}.{scope} pairs, e.g. crypto.native.           *)
  Symbols,         (* Normalised ticker symbols.                              *)
  Issuers,         (* Issuer names that slugify to a Qualifier.               *)
  NoIssuer,        (* The Observation names no usable issuer.                 *)
  Sources,         (* The sources cointoss ingests from.                      *)
  IdentitySource,  (* Kind -> the source its display symbol is read from.     *)
  MatchGroups,     (* Comparison groups of External References: the FIGI      *)
                   (* group, one per chain, one per provider.                 *)
  AnchorGroup,     (* The FIGI group, the one an anchor FIGI belongs to.      *)
  SilentGroup,     (* Share class FIGIs: stored, never compared.              *)
  Values,          (* Values of External References.                          *)
  Dates            (* Observation dates.                                      *)

ASSUME IdentityAssumption ==
  /\ NoIssuer \notin Issuers
  /\ IdentitySource \in [Kinds -> Sources]
  /\ AnchorGroup \in MatchGroups
  /\ SilentGroup \notin MatchGroups
  /\ Dates \subseteq Nat \ {0}

(***************************************************************************)
(* Values                                                                  *)
(***************************************************************************)

Resolved     == "resolved"
NotFound     == "not_found"
NotAttempted == "not_attempted"
FigiResolution == {Resolved, NotFound, NotAttempted}

Open == 0   \* valid_to of a current Ticker History record

Reference == [group : MatchGroups \cup {SilentGroup}, value : Values]

(* What follows the symbol in an Instrument Id. *)
Bare        == <<>>
ByIssuer(x) == <<"issuer", x>>
ByNumber(n) == <<"number", n>>
Qualifier   == {Bare} \cup ({"issuer"} \X Issuers) \cup ({"number"} \X Nat)

InstrumentId == [kind : Kinds, symbol : Symbols, qualifier : Qualifier]

TickerRecord == [symbol : Symbols, from : Dates, to : Dates \cup {Open}]

Covers(record, day) == record.from <= day /\ (record.to = Open \/ day < record.to)

(* An Observation with the FIGI outcome its caller obtained.  A resolved    *)
(* outcome and an anchor FIGI accompany each other (__post_init__).         *)
ResolutionAgrees(refs, figi) ==
  (figi = Resolved) <=> \E r \in refs : r.group = AnchorGroup

Observation ==
  { obs \in [kind : Kinds, symbol : Symbols, at : Dates, source : Sources,
             issuer : Issuers \cup {NoIssuer}, refs : SUBSET Reference,
             figi : FigiResolution] : ResolutionAgrees(obs.refs, obs.figi) }

Instrument ==
  [ id : InstrumentId, kind : Kinds, symbol : Symbols, refs : SUBSET Reference,
    figi : FigiResolution, superseded_by : Nat,
    ticker_history : [Sources -> Seq(TickerRecord)] ]

(***************************************************************************)
(* References                                                              *)
(***************************************************************************)

MatchKeys(refs) == { r \in refs : r.group \in MatchGroups }

GroupValues(refs, g) == { r.value : r \in { s \in refs : s.group = g } }

(* One value in every comparison group: what ingest forms sightings from,   *)
(* exactly one anchor FIGI and at most one id of one provider.              *)
OneValueEach(refs) ==
  \A r, s \in MatchKeys(refs) : r.group = s.group => r.value = s.value

(* Mutant of Conflict: only FIGIs are compared. *)
FigiConflict(left, right) ==
  /\ GroupValues(left, AnchorGroup) # {}
  /\ GroupValues(right, AnchorGroup) \ GroupValues(left, AnchorGroup) # {}

(* Do the two reference sets disagree within a comparison group?  Only      *)
(* what the right set holds beyond the left one counts.                     *)
Conflict(left, right) ==
  \E g \in MatchGroups :
    /\ GroupValues(left, g) # {}
    /\ GroupValues(right, g) \ GroupValues(left, g) # {}

(***************************************************************************)
(* Supersession                                                            *)
(***************************************************************************)

Links(reg) == [i \in DOMAIN reg |-> reg[i].superseded_by]

Survivor(reg, i) == Fold(Links(reg))[i]

(***************************************************************************)
(* Ticker History                                                          *)
(***************************************************************************)

(* Mutant of Renames: an out-of-order sighting rewrites history. *)
RenamesAnyOrder(chain, obs) == chain = <<>> \/ obs.symbol # chain[Len(chain)].symbol

(* Does the sighting open a record: its source's first one, or a forward    *)
(* rename of that source's latest?                                          *)
Renames(chain, obs) ==
  \/ chain = <<>>
  \/ /\ obs.symbol # chain[Len(chain)].symbol
     /\ obs.at >= chain[Len(chain)].from

(* Mutant of Recorded: the closed record reaches a day too far. *)
RecordedOverlapping(chain, obs) ==
  LET n      == Len(chain)
      opened == [symbol |-> obs.symbol, from |-> obs.at, to |-> Open]
  IN  IF chain = <<>> THEN <<opened>>
      ELSE Append([chain EXCEPT ![n].to = obs.at + 1], opened)

Recorded(chain, obs) ==
  LET n      == Len(chain)
      opened == [symbol |-> obs.symbol, from |-> obs.at, to |-> Open]
  IN  IF chain = <<>> THEN <<opened>>
      ELSE Append([chain EXCEPT ![n].to = obs.at], opened)

(* Mutants of AbsorbedRefs and AbsorbedFigi: the sighting's references are  *)
(* dropped, or replace the held ones; a later miss overwrites a FIGI hit.   *)
RefsForgotten(inst, obs) == inst.refs
RefsReplaced(inst, obs)  == obs.refs
LatestFigi(inst, obs)    == obs.figi

AbsorbedRefs(inst, obs) == inst.refs \cup obs.refs

AbsorbedFigi(inst, obs) ==
  IF obs.figi = Resolved \/ inst.figi = NotAttempted THEN obs.figi ELSE inst.figi

(* Fold an Observation into the Instrument it was identified with. *)
Absorb(inst, obs) ==
  LET chain   == inst.ticker_history[obs.source]
      renames == Renames(chain, obs)
  IN  [inst EXCEPT
        !.refs   = AbsorbedRefs(inst, obs),
        !.figi   = AbsorbedFigi(inst, obs),
        !.symbol = IF renames /\ obs.source = IdentitySource[inst.kind]
                   THEN obs.symbol ELSE @,
        !.ticker_history[obs.source] = IF renames THEN Recorded(chain, obs) ELSE @]

(* The survivors that held a symbol at a source on a date. *)
Holders(reg, obs) ==
  { Survivor(reg, i) : i \in
      { j \in DOMAIN reg :
          /\ reg[j].kind = obs.kind
          /\ \E k \in DOMAIN reg[j].ticker_history[obs.source] :
               /\ reg[j].ticker_history[obs.source][k].symbol = obs.symbol
               /\ Covers(reg[j].ticker_history[obs.source][k], obs.at) } }

(***************************************************************************)
(* observe                                                                 *)
(***************************************************************************)

(* Mutant of Matched: a FIGI match hides the matches of a lower tier. *)
MatchedByTopTier(reg, obs) ==
  LET On(groups) == { i \in DOMAIN reg : \E r \in reg[i].refs \cap obs.refs : r.group \in groups }
  IN  IF On({AnchorGroup}) # {} THEN On({AnchorGroup}) ELSE On(MatchGroups)

Matched(reg, obs) ==
  { i \in DOMAIN reg : MatchKeys(reg[i].refs) \cap MatchKeys(obs.refs) # {} }

AliveMatches(reg, obs) == { Survivor(reg, i) : i \in Matched(reg, obs) }

(* The earliest-minted survivor a reference match reaches, and the          *)
(* survivors it would supersede.                                            *)
MatchTarget(reg, obs) == Min(AliveMatches(reg, obs))
Losers(reg, obs) ==
  { i \in AliveMatches(reg, obs) : \E j \in AliveMatches(reg, obs) : j < i }

(* Why a reference match is flagged for review rather than acted on. *)
MatchNeedsReview(reg, obs) ==
  LET target == MatchTarget(reg, obs)
      losers == Losers(reg, obs)
  IN  \/ \E i \in AliveMatches(reg, obs) : reg[i].kind # obs.kind
      \/ /\ losers # {}
         /\ \/ \E i \in Matched(reg, obs) : reg[i].superseded_by # None
            \/ \E i \in losers : Conflict(reg[target].refs, reg[i].refs)
      \/ Conflict(obs.refs, reg[target].refs)

(* Mutant of JoinByReference: the latest-minted survivor stays. *)
JoinLatest(reg, obs) ==
  LET latest == Max(AliveMatches(reg, obs))
  IN  [i \in DOMAIN reg |->
         IF i = latest THEN Absorb(reg[i], obs)
         ELSE IF i \in AliveMatches(reg, obs) THEN [reg[i] EXCEPT !.superseded_by = latest]
         ELSE reg[i]]

JoinByReference(reg, obs) ==
  [i \in DOMAIN reg |->
     IF i = MatchTarget(reg, obs) THEN Absorb(reg[i], obs)
     ELSE IF i \in Losers(reg, obs) THEN [reg[i] EXCEPT !.superseded_by = MatchTarget(reg, obs)]
     ELSE reg[i]]

(* The last-resort tier: unresolved survivors a bare symbol may join. *)
SymbolMatches(reg, obs) ==
  { i \in DOMAIN reg :
      /\ obs.figi # Resolved
      /\ reg[i].superseded_by = None
      /\ reg[i].kind = obs.kind
      /\ reg[i].symbol = obs.symbol
      /\ reg[i].figi # Resolved
      /\ ~ Conflict(obs.refs, reg[i].refs) }

(* The first Instrument Id free for an Observation: bare, else qualified    *)
(* by its issuer, else by the first free number.                            *)
Taken(reg) == { reg[i].id : i \in DOMAIN reg }

IdOf(obs, q) == [kind |-> obs.kind, symbol |-> obs.symbol, qualifier |-> q]

(* Mutant of FreeNumber: the number is not searched for. *)
FirstNumber(reg, obs) == 2

FreeNumber(reg, obs) ==
  Min({ n \in 2 .. Len(reg) + 2 : IdOf(obs, ByNumber(n)) \notin Taken(reg) })

(* Mutant of MintId: an issuer's Qualifier is taken to be free. *)
MintIdByIssuer(reg, obs) ==
  CASE IdOf(obs, Bare) \notin Taken(reg) -> IdOf(obs, Bare)
    [] IdOf(obs, Bare) \in Taken(reg) /\ obs.issuer # NoIssuer -> IdOf(obs, ByIssuer(obs.issuer))
    [] OTHER -> IdOf(obs, ByNumber(FreeNumber(reg, obs)))

MintId(reg, obs) ==
  CASE IdOf(obs, Bare) \notin Taken(reg) -> IdOf(obs, Bare)
    [] /\ IdOf(obs, Bare) \in Taken(reg)
       /\ obs.issuer # NoIssuer
       /\ IdOf(obs, ByIssuer(obs.issuer)) \notin Taken(reg)
         -> IdOf(obs, ByIssuer(obs.issuer))
    [] OTHER -> IdOf(obs, ByNumber(FreeNumber(reg, obs)))

Minted(reg, obs) ==
  [ id |-> MintId(reg, obs), kind |-> obs.kind, symbol |-> obs.symbol,
    refs |-> obs.refs, figi |-> obs.figi, superseded_by |-> None,
    ticker_history |->
      [s \in Sources |-> IF s = obs.source THEN Recorded(<<>>, obs) ELSE <<>>] ]

(* The registry after an Observation: joined by reference, joined by its    *)
(* symbol, minted, or as it was when the Observation is flagged.            *)
Observed(reg, obs) ==
  CASE Matched(reg, obs) # {} /\ ~ MatchNeedsReview(reg, obs) -> JoinByReference(reg, obs)
    [] Matched(reg, obs) = {} /\ Cardinality(SymbolMatches(reg, obs)) = 1 ->
         [i \in DOMAIN reg |->
            IF i \in SymbolMatches(reg, obs) THEN Absorb(reg[i], obs) ELSE reg[i]]
    [] Matched(reg, obs) = {} /\ SymbolMatches(reg, obs) = {} ->
         Append(reg, Minted(reg, obs))
    [] OTHER -> reg

(***************************************************************************)
(* anchor                                                                  *)
(***************************************************************************)

AnchorNeedsReview(reg, t, obs) ==
  \/ reg[t].superseded_by # None
  \/ reg[t].kind # obs.kind
  \/ Conflict(obs.refs, reg[t].refs)
  \/ AliveMatches(reg, obs) \ {t} # {}

AbsorbAt(reg, t, obs) == [reg EXCEPT ![t] = Absorb(reg[t], obs)]

(* The registry after a FIGI answer for a named Instrument. *)
Anchored(reg, t, obs) ==
  IF AnchorNeedsReview(reg, t, obs) THEN reg ELSE AbsorbAt(reg, t, obs)
=============================================================================
