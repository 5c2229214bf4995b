-------------------------- MODULE MCIdentityParts --------------------------
(***************************************************************************)
(* The stored registry under one typed lookup at a time, and under one     *)
(* retry at a time: a behaviour is of one part or of the other.  Together  *)
(* they are too many states, and what a retry answered too late undoes     *)
(* (SettledIsFinal) would hide what the typed lookups promise.             *)
(***************************************************************************)
EXTENDS MCIdentityStore

VARIABLES
  part,      (* "lookups" or "retries": what awaits in this behaviour.       *)
  overtaken  (* History: the save under way is of a retry whose target's row *)
             (* changed while it awaited OpenFIGI.                           *)

Awaits(p) == part = p /\ UNCHANGED part

Overtaken(t) == rows[retries[t].target] # retries[t].registry[retries[t].target]

InOrderNext ==
  \/ Crash           /\ UNCHANGED part
  \/ IdentifyTyped   /\ UNCHANGED part
  \/ IdentifyListing /\ UNCHANGED part
  \/ \E t \in Typists  : Awaits("lookups") /\ AskForCoin(t)
  \/ \E t \in Typists  : Awaits("lookups") /\ CoinAnswered(t)
  \/ \E t \in Retriers : Awaits("retries") /\ StartRetry(t)
  \/ \E t \in Retriers : Awaits("retries") /\ MissRetry(t)

PartsNext ==
  \/ Commit /\ UNCHANGED part /\ overtaken' = (overtaken /\ unsaved' # {})
  \/ InOrderNext /\ overtaken' = FALSE
  \/ \E t \in Retriers : Awaits("retries") /\ AnswerRetry(t) /\ overtaken' = Overtaken(t)

PartsInit == Init /\ part \in {"lookups", "retries"} /\ overtaken = FALSE

partsVars == <<vars, part, overtaken>>

PartsSpec == PartsInit /\ [][PartsNext]_partsVars

-----------------------------------------------------------------------------
(* As SupersessionsFold, where nothing is saved from a registry loaded      *)
(* before an await (SettledIsFinal says what such a save undoes).           *)
LookupsFold == part = "lookups" => SupersessionsFold

(* As OneFamilyUnlessTorn, where nothing is saved from a stale registry.    *)
LookupsKeepFamilies == part = "lookups" => OneFamilyUnlessTorn

(* What is stored stands: no miss, outage, crash, sighting or retry takes   *)
(* an External Reference (the FIGI a retry was answered with among them), a *)
(* Supersession or the resolution of a stored Instrument back.  Exempt is   *)
(* the one save of a retry whose target's row changed while it awaited: it  *)
(* keeps the resolution, and SettledIsFinal says what else it may undo.     *)
StoredAnswersStand ==
  [][ \A i \in DOMAIN rows :
        /\ rows[i].figi = Resolved => rows'[i].figi = Resolved
        /\ ~ overtaken =>
             /\ rows[i].refs \subseteq rows'[i].refs
             /\ rows[i].superseded_by # None => rows'[i].superseded_by = rows[i].superseded_by
    ]_partsVars
=============================================================================
