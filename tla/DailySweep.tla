----------------------------- MODULE DailySweep -----------------------------
(***************************************************************************)
(* The daily sweep, cointoss/app.py and ingest.py: sweeps of several       *)
(* processes behind one file lock, each evaluating every Universe          *)
(* Definition once a day and writing the day's bars, while Definitions are *)
(* edited by hand, by configuration and by trades, none of which takes the *)
(* lock.                                                                   *)
(*                                                                         *)
(* A step is what one task does between two awaits, or up to its next      *)
(* commit, after which it may die.  Of a universe's membership only what   *)
(* each Run produced is kept: UniverseMembership is how it is stored, and  *)
(* holds the Supersessions left out here.                                  *)
(***************************************************************************)
EXTENDS Integers, Sequences, SequencesExt

CONSTANTS
  Instruments,   (* Stored Instruments, each named by one CoinGecko coin.    *)
  Unresolved,    (* No Instrument: a member not identified, a task at rest.  *)
  PortfolioHeld, (* The universe trades include their Instruments in.        *)
  Declarations,  (* Configurations: sequences of declared names and bands.   *)
  Listings,      (* CoinGecko listings: coin -> rank, 0 for none.            *)
  Sweepers,      (* Tasks and processes that sweep.                          *)
  Pinners,       (* Tasks that pin a typed ticker.                           *)
  Traded,        (* Instruments somebody trades.                             *)
  HandPinned,    (* Universes whose members are pinned by hand.              *)
  NoOne,         (* Nobody holds the lock, or nothing is being pinned.       *)
  LastMoment,    (* Bound on the clock: three moments a day, two in the bar  *)
                 (* window and one after it.                                 *)
  MaxRevisions   (* Bound on a Definition's revisions.                       *)

(* What every bit of configuration declares, and the universes there are. *)
Declared  == UNION { Range(declared) : declared \in Declarations }
Universes == { d.name : d \in Declared } \cup {PortfolioHeld}

(* A rank band; a Definition with no rule admits no rank. *)
Band   == { b \in [enter : Nat, exit : Nat] : b.enter <= b.exit }
NoRule == [enter |-> 0, exit |-> 0]

ASSUME SweepAssumption ==
  /\ Unresolved \notin Instruments
  /\ NoOne \notin Sweepers
  /\ HandPinned \subseteq Universes
  /\ Traded \subseteq Instruments
  /\ \A declared \in Declarations : declared \in Seq(Declared)
  /\ \A d \in Declared : d.name # PortfolioHeld /\ d.band \in Band
  /\ \A declared \in Declarations : \A j, k \in DOMAIN declared :
       declared[j].name = declared[k].name => j = k
  /\ \A listing \in Listings :
       DOMAIN listing \subseteq Instruments /\ Range(listing) \subseteq Nat
  /\ LastMoment \in Nat
  /\ MaxRevisions \in Nat \ {0}

VARIABLES
  clock,         (* The moment it is.                                        *)
  revisions,     (* Universe -> its revisions' bands; none when not stored.  *)
  members,       (* Universe -> UniverseMemberRow.                           *)
  runs,          (* Universe -> its Evaluation Runs; `members`, `ranks` and  *)
                 (* `late` are history: what was evaluated, and from what.   *)
  bars,          (* CoinGecko's bars, with the moment each was fetched at.   *)
  trades,        (* Instruments traded.                                      *)
  lock,          (* Who holds the sweep lock.                                *)
  sweep,         (* Sweeper -> what it is doing and holds in memory.         *)
  pin,           (* Pinner -> the edit it awaits a resolution for.           *)
  pending,       (* Instruments whose Trade is being recorded.               *)
  torn           (* History: days a sweep died on between its commits.       *)

definitions == <<revisions, members>>
vars == <<clock, definitions, runs, bars, trades, lock, sweep, pin, pending, torn>>

Day(moment)  == moment \div 3
Late(moment) == moment % 3 = 2

(* MemberRole *)
Inclusion == "inclusion"
Exclusion == "exclusion"

(* What a sweep at rest holds. *)
AtRest == [ phase |-> "at rest", force |-> FALSE, at |-> 0, loaded |-> <<>>, done |-> 0,
            ranks |-> <<>>, coins |-> {} ]

-----------------------------------------------------------------------------
(***************************************************************************)
(* Universe Definitions                                                    *)
(***************************************************************************)

Stored(u) == revisions[u] # <<>>

(* resolved_members: who stands in a role at a revision. *)
Standing(u, role, revision) ==
  { m.instrument : m \in { n \in members[u] : /\ n.role = role
                                              /\ n.added_in_revision <= revision
                                              /\ n.instrument # Unresolved } }

(* parameters_at: the recipe in force at a revision, as load_universe       *)
(* assembles it.                                                            *)
ParametersAt(u, revision) ==
  [ band       |-> revisions[u][revision],
    inclusions |-> Standing(u, Inclusion, revision),
    exclusions |-> Standing(u, Exclusion, revision) ]

(* load_universe: the name, and the latest revision and its parameters. *)
Definition(u, bands) ==
  [ name       |-> u,
    revision   |-> Len(bands[u]),
    band       |-> Last(bands[u]),
    inclusions |-> Standing(u, Inclusion, Len(bands[u])),
    exclusions |-> Standing(u, Exclusion, Len(bands[u])) ]

(* Mutant of SavedRevision: a revision that leaves the band as it was is    *)
(* taken for no edit.                                                       *)
SavedIfRevised(u, revision, band) ==
  IF Stored(u) /\ Last(revisions[u]) = band THEN revisions
  ELSE [revisions EXCEPT ![u] = Append(@, band)]

(* save_universe: a revision number already stored is left as it is, and a  *)
(* member row replaces the one of its natural key.                          *)
SavedRevision(u, revision, band) ==
  IF revision <= Len(revisions[u]) THEN revisions ELSE [revisions EXCEPT ![u] = Append(@, band)]

SavedMember(u, row) ==
  [members EXCEPT ![u] =
     { m \in @ : [m EXCEPT !.instrument = Unresolved] # [row EXCEPT !.instrument = Unresolved] }
       \cup {row}]

(* ensure_universes: a declared Definition that is missing is created, one  *)
(* whose band differs gets one more revision.                               *)
Ensured(declared) ==
  [u \in Universes |->
     IF \E d \in Range(declared) : d.name = u /\ (Stored(u) => Last(revisions[u]) # d.band)
     THEN Append(revisions[u], (CHOOSE d \in Range(declared) : d.name = u).band)
     ELSE revisions[u]]

(* `cointoss init` reconciles a configuration, without the lock. *)
InitInstance(declared) ==
  /\ \A u \in Universes : Len(Ensured(declared)[u]) <= MaxRevisions
  /\ revisions' = Ensured(declared)
  /\ UNCHANGED <<clock, members, runs, bars, trades, lock, sweep, pin, pending, torn>>

(* pin_member reads the Definition and awaits the ticker's resolution... *)
PinTyped(t, u, role, i) ==
  /\ pin[t] = NoOne
  /\ Stored(u)
  /\ \A m \in members[u] : m.role # role \/ m.symbol # i
  /\ pin' = [pin EXCEPT ![t] = [ name |-> u, revision |-> Len(revisions[u]) + 1,
                                 band |-> Last(revisions[u]), role |-> role, symbol |-> i ]]
  /\ UNCHANGED <<clock, definitions, runs, bars, trades, lock, sweep, pending, torn>>

(* ...and saves one more revision of what it read, resolved or not. *)
SavePin(t, resolved) ==
  /\ pin[t] # NoOne
  /\ resolved \in {pin[t].symbol, Unresolved}
  /\ pin[t].revision <= MaxRevisions
  /\ revisions' = SavedRevision(pin[t].name, pin[t].revision, pin[t].band)
  /\ members' = SavedMember(pin[t].name,
       [ role |-> pin[t].role, symbol |-> pin[t].symbol, instrument |-> resolved,
         added_in_revision |-> pin[t].revision ])
  /\ pin' = [pin EXCEPT ![t] = NoOne]
  /\ UNCHANGED <<clock, runs, bars, trades, lock, sweep, pending, torn>>

(* hold: the traded Instrument is included, unless it already is. *)
Included(i) == i \in Standing(PortfolioHeld, Inclusion, Len(revisions[PortfolioHeld]))

Held(i) ==
  IF Included(i) THEN UNCHANGED definitions
  ELSE LET next == Len(revisions[PortfolioHeld]) + 1
       IN  /\ next <= MaxRevisions
           /\ revisions' = SavedRevision(PortfolioHeld, next, NoRule)
           /\ members' = SavedMember(PortfolioHeld,
                [ role |-> Inclusion, symbol |-> i, instrument |-> i,
                  added_in_revision |-> next ])

(***************************************************************************)
(* add_trade: the Inclusion and the Trade are commits of their own.        *)
(***************************************************************************)

(* Mutant of HoldTraded: the Trade is recorded first. *)
TradeFirst(i) ==
  /\ i \notin pending
  /\ trades' = trades \cup {i}
  /\ pending' = pending \cup {i}
  /\ UNCHANGED <<clock, definitions, runs, bars, lock, sweep, pin, torn>>

HoldTraded(i) ==
  /\ i \notin pending
  /\ Held(i)
  /\ pending' = pending \cup {i}
  /\ UNCHANGED <<clock, runs, bars, trades, lock, sweep, pin, torn>>

RecordTrade(i) ==
  /\ i \in pending
  /\ trades' = trades \cup {i}
  /\ pending' = pending \ {i}
  /\ UNCHANGED <<clock, definitions, runs, bars, lock, sweep, pin, torn>>

-----------------------------------------------------------------------------
(***************************************************************************)
(* One sweep                                                               *)
(***************************************************************************)

(* A trigger or the command line fires a sweep, which asks for the lock. *)
Fire(p, force) ==
  /\ sweep[p].phase = "at rest"
  /\ sweep' = [sweep EXCEPT ![p].phase = "waiting", ![p].force = force]
  /\ UNCHANGED <<clock, definitions, runs, bars, trades, lock, pin, pending, torn>>

(* Mutant of GiveUp: the wait has no deadline. *)
WaitOn(p) ==
  /\ sweep[p].phase = "waiting"
  /\ lock # NoOne
  /\ UNCHANGED vars

(* SweepInProgress: the lock is still held when the wait runs out. *)
GiveUp(p) ==
  /\ sweep[p].phase = "waiting"
  /\ lock # NoOne
  /\ sweep' = [sweep EXCEPT ![p] = AtRest]
  /\ UNCHANGED <<clock, definitions, runs, bars, trades, lock, pin, pending, torn>>

(* The universes to sweep: the declared, and portfolio-held once stored. *)
Names(declared) ==
  [k \in DOMAIN declared |-> declared[k].name]
    \o (IF Stored(PortfolioHeld) THEN <<PortfolioHeld>> ELSE <<>>)

RunOn(u, day) == \E k \in DOMAIN runs[u] : runs[u][k].day = day

SweptAlready(names, day) == names # <<>> /\ \A u \in Range(names) : RunOn(u, day)

(* Mutant of LockIsFree: a sweep does not wait for another. *)
LockIgnored(p) == TRUE

LockIsFree(p) == lock = NoOne

(* The lock is free: the declared universes are reconciled. *)
Reconciled(p, declared) ==
  /\ sweep[p].phase = "waiting"
  /\ LockIsFree(p)
  /\ \A u \in Universes : Len(Ensured(declared)[u]) <= MaxRevisions
  /\ revisions' = Ensured(declared)

(* Every universe has a Run for the day: the lock is let go again. *)
FindSwept(p, declared) ==
  /\ Reconciled(p, declared)
  /\ ~ sweep[p].force
  /\ SweptAlready(Names(declared), Day(clock))
  /\ sweep' = [sweep EXCEPT ![p] = AtRest]
  /\ UNCHANGED <<clock, members, runs, bars, trades, lock, pin, pending, torn>>

(* The Definitions are loaded, and CoinGecko is asked. *)
BeginSweep(p, declared) ==
  /\ Reconciled(p, declared)
  /\ sweep[p].force \/ ~ SweptAlready(Names(declared), Day(clock))
  /\ lock' = p
  /\ LET names == Names(declared)
     IN  sweep' = [sweep EXCEPT ![p] =
           [ AtRest EXCEPT !.phase = "listing", !.at = clock,
               !.loaded = [k \in DOMAIN names |-> Definition(names[k], Ensured(declared))] ]]
  /\ UNCHANGED <<clock, members, runs, bars, trades, pin, pending, torn>>

(* Mutant of Unlisted: the included coins the listing left out are not      *)
(* fetched.                                                                 *)
NoneUnlisted(loaded, listing) == {}

(* _unlisted_inclusions *)
Unlisted(loaded, listing) ==
  (UNION { loaded[k].inclusions : k \in DOMAIN loaded }) \ DOMAIN listing

(* CoinGecko has answered, for the listing and for the unlisted coins. *)
Identify(p, listing) ==
  /\ sweep[p].phase = "listing"
  /\ sweep' = [sweep EXCEPT ![p].phase = "evaluating", ![p].ranks = listing,
                 ![p].coins = DOMAIN listing \cup Unlisted(sweep[p].loaded, listing)]
  /\ UNCHANGED <<clock, definitions, runs, bars, trades, lock, pin, pending, torn>>

(* evaluate: the rank band, wider for whoever is in it, then Inclusions,    *)
(* then Exclusions.                                                         *)
InBand(band, rank, standing) ==
  rank > 0 /\ rank <= (IF standing THEN band.exit ELSE band.enter)

(* Mutant of Evaluated: membership has no hysteresis. *)
EvaluatedAfresh(d, ranks, previous) ==
  ({ i \in DOMAIN ranks : InBand(d.band, ranks[i], FALSE) } \cup d.inclusions) \ d.exclusions

Evaluated(d, ranks, previous) ==
  ({ i \in DOMAIN ranks : InBand(d.band, ranks[i], i \in previous) } \cup d.inclusions)
    \ d.exclusions

(* members_at: the membership in force is what the last Run produced. *)
InForce(u) == IF runs[u] = <<>> THEN {} ELSE Last(runs[u]).members

(* An evaluation before the latest Run is refused, and reported as failed. *)
Refused(u, day) == runs[u] # <<>> /\ day < Last(runs[u]).day

(* Mutant of OnceADay: the day's Run is not looked for. *)
EachTime(u, day) == TRUE

OnceADay(u, day) == ~ RunOn(u, day)

(* _evaluate_once_a_day, for the next Definition; one commit. *)
Evaluate(p) ==
  /\ sweep[p].phase = "evaluating"
  /\ sweep[p].done < Len(sweep[p].loaded)
  /\ LET d   == sweep[p].loaded[sweep[p].done + 1]
         day == Day(sweep[p].at)
     IN  runs' = IF OnceADay(d.name, day) /\ ~ Refused(d.name, day)
                 THEN [runs EXCEPT ![d.name] = Append(@,
                         [ day |-> day, late |-> Late(sweep[p].at), revision |-> d.revision,
                           ranks |-> sweep[p].ranks,
                           members |-> Evaluated(d, sweep[p].ranks, InForce(d.name)) ])]
                 ELSE runs
  /\ sweep' = [sweep EXCEPT ![p].done = @ + 1]
  /\ UNCHANGED <<clock, definitions, bars, trades, lock, pin, pending, torn>>

(* Mutant of NewBars: a bar stored for the day is written over. *)
AllBars(p) ==
  { [instrument |-> i, day |-> Day(sweep[p].at), fetched_at |-> sweep[p].at] : i \in sweep[p].coins }

(* The day's bars that are not stored yet. *)
NewBars(p) ==
  { bar \in { [instrument |-> i, day |-> Day(sweep[p].at), fetched_at |-> sweep[p].at] :
                i \in sweep[p].coins } :
      \A held \in bars : held.instrument = bar.instrument => held.day # bar.day }

(* upsert_bars: one bar to an Instrument and day, the incoming one. *)
Upserted(new) ==
  { held \in bars : \A bar \in new : held.instrument = bar.instrument => held.day # bar.day }
    \cup new

(* The day's bars, within the bar window only; then the lock is let go. *)
WriteBars(p) ==
  /\ sweep[p].phase = "evaluating"
  /\ sweep[p].done = Len(sweep[p].loaded)
  /\ bars' = IF Late(sweep[p].at) THEN bars ELSE Upserted(NewBars(p))
  /\ lock' = NoOne
  /\ sweep' = [sweep EXCEPT ![p] = AtRest]
  /\ UNCHANGED <<clock, definitions, runs, trades, pin, pending, torn>>

(* CoinGecko fails it, or its process dies: the lock is let go all the same. *)
Fail(p) ==
  /\ lock = p
  /\ lock' = NoOne
  /\ torn' = IF sweep[p].done > 0 THEN torn \cup {Day(sweep[p].at)} ELSE torn
  /\ sweep' = [sweep EXCEPT ![p] = AtRest]
  /\ UNCHANGED <<clock, definitions, runs, bars, trades, pin, pending>>

Tick ==
  /\ clock < LastMoment
  /\ clock' = clock + 1
  /\ UNCHANGED <<definitions, runs, bars, trades, lock, sweep, pin, pending, torn>>

-----------------------------------------------------------------------------
Init ==
  /\ clock = 0
  /\ revisions = [u \in Universes |-> <<>>]
  /\ members = [u \in Universes |-> {}]
  /\ runs = [u \in Universes |-> <<>>]
  /\ bars = {}
  /\ trades = {}
  /\ lock = NoOne
  /\ sweep = [p \in Sweepers |-> AtRest]
  /\ pin = [t \in Pinners |-> NoOne]
  /\ pending = {}
  /\ torn = {}

(* What a sweep does once it has fired, if it is let. *)
Poll(p) ==
  GiveUp(p) \/ \E declared \in Declarations : FindSwept(p, declared) \/ BeginSweep(p, declared)

Proceed(p) == (\E listing \in Listings : Identify(p, listing)) \/ Evaluate(p) \/ WriteBars(p)

SweepStep(p) == (\E force \in BOOLEAN : Fire(p, force)) \/ Poll(p) \/ Proceed(p) \/ Fail(p)

Edit ==
  \/ \E declared \in Declarations : InitInstance(declared)
  \/ \E t \in Pinners, u \in HandPinned, role \in {Inclusion, Exclusion}, i \in Instruments :
       PinTyped(t, u, role, i)
  \/ \E t \in Pinners, resolved \in Instruments \cup {Unresolved} : SavePin(t, resolved)
  \/ \E i \in Traded : HoldTraded(i) \/ RecordTrade(i)

Next == Tick \/ Edit \/ \E p \in Sweepers : SweepStep(p)

Spec == Init /\ [][Next]_vars

(* A waiter polls until its deadline, and a request to CoinGecko is         *)
(* answered or fails.                                                       *)
Fairness == \A p \in Sweepers : WF_vars(Poll(p)) /\ WF_vars(Proceed(p) \/ Fail(p))

FairSpec == Spec /\ Fairness

-----------------------------------------------------------------------------
(***************************************************************************)
(* Properties                                                              *)
(***************************************************************************)

Member(u) ==
  [ role : {Inclusion, Exclusion}, symbol : Instruments, instrument : Instruments \cup {Unresolved},
    added_in_revision : DOMAIN revisions[u] ]

(* Rows are what their columns admit, and a member is added in a revision   *)
(* its Definition holds, whatever edits it raced.                           *)
TypeOK ==
  /\ clock \in 0 .. LastMoment
  /\ \A u \in Universes :
       /\ revisions[u] \in Seq(Band)
       /\ members[u] \subseteq Member(u)
       /\ \A k \in DOMAIN runs[u] :
            /\ runs[u][k].revision \in DOMAIN revisions[u]
            /\ runs[u][k].members \subseteq Instruments
  /\ \A bar \in bars : bar.instrument \in Instruments /\ ~ Late(bar.fetched_at)
  /\ lock \in Sweepers \cup {NoOne}

(* A Definition is evaluated once per day, by however many sweeps, forced   *)
(* or retried, and its Runs are in date order.                              *)
OneRunPerDay ==
  \A u \in Universes : \A j, k \in DOMAIN runs[u] : j < k => runs[u][j].day < runs[u][k].day

(* The lock, and the clock read once it is held, keep every sweep's day at  *)
(* or after the last evaluation: record_membership never refuses one.       *)
NeverRefused ==
  \A p \in Sweepers, u \in Universes :
    sweep[p].phase = "evaluating" => ~ Refused(u, Day(sweep[p].at))

(* A coin nobody typed to pin is a member exactly as the band of the       *)
(* revision its Run is stamped with says, entering at one rank and leaving  *)
(* at another, by the membership of the Run before: no edit during a sweep, *)
(* retry or second sweep of the day is let into the hysteresis.             *)
Pinned(u, i) == \E m \in members[u] : m.symbol = i

RuleFollowsBand ==
  \A u \in Universes : \A k \in DOMAIN runs[u] : \A i \in Instruments :
    LET run      == runs[u][k]
        standing == k > 1 /\ i \in runs[u][k - 1].members
    IN  (i \in run.members) # (i \in DOMAIN run.ranks /\
                                 InBand(revisions[u][run.revision], run.ranks[i], standing))
          => Pinned(u, i)

(* A bar stored for a day is that day's price for good: no re-sweep writes  *)
(* over it, which would file a false Restatement.                           *)
DayBarsStand == [][bars \subseteq bars']_vars

(* Once a day's sweep within the bar window is over, every member it        *)
(* evaluated has its bar, in the listing or not, unless a sweep of that day *)
(* died between its first Run and its bars.                                 *)
MembersArePriced ==
  \A u \in Universes : \A k \in DOMAIN runs[u] :
    LET run == runs[u][k]
    IN  (~ run.late /\ run.day \notin torn /\ lock = NoOne) =>
          \A i \in run.members : \E bar \in bars : bar.instrument = i /\ bar.day = run.day

(* No Trade is stored whose Instrument the sweep is not told to price.      *)
TradedIsIncluded == \A i \in trades : Included(i)

(* A sweep that has fired ends: it is served, given up, or fails.           *)
EveryFiringEnds == \A p \in Sweepers : (sweep[p].phase # "at rest") ~> (sweep[p].phase = "at rest")

(* load_universe, "the reconstructed Definition says what it said at the    *)
(* time rather than what it says now": a revision's parameters never change.*)
RevisionSaysWhatItSaid ==
  [][ \A u \in Universes : \A r \in DOMAIN revisions[u] :
        ParametersAt(u, r)' = ParametersAt(u, r) ]_vars
=============================================================================
