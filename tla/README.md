# cointoss in TLA+

cointoss keeps a small SQLite database about coins and stocks: who is who
(Instruments and the references that identify them), which of them a research
universe contains on which date, their daily prices, and the portfolios people
hold.  One server runs async node handlers on one event loop; a command line
and scheduled jobs are further processes on the same file.

This directory models the parts of it that keep state, checks them with TLC on
small instances, and proves what matters most with TLAPS for every size.

## The system

| Component | State | Operations | What makes it correct |
|---|---|---|---|
| Instrument Registry (`instrument.py`) | every Instrument in mint order: id, references, FIGI outcome, Ticker History, `superseded_by` | `observe`, `anchor`, `resolve_symbol`, minting | one real instrument is one family of Instruments, joined on evidence only, by every order of sightings; ids are unique for ever; chains of Supersession end |
| Identity ingest (`ingest.py`, `store.py`) | the rows the registry is loaded from and saved to; tasks suspended in an await | `resolve_typed_symbol`, `retry_resolution`, `_identify_listing`, `save_instruments` | nothing read before an await undoes what was stored during it; a crash between two commits leaves rows that fold |
| Universe membership (`store.py`, `series.py`) | membership intervals, dated entries, Evaluation Runs | `record_membership`, `members_at`, `load_universe_series`, `universes_containing`, `membership_intervals` | history reads back as it was evaluated, every read agrees, and rows implement the `UniverseSeries` value object while Supersessions re-express them |
| Daily sweep and definitions (`ingest.py`, `universe.py`, `app.py`) | revision log and pinned members of each Definition, the sweep lock | `sweep`, `evaluate`, `pin_member`, `hold`, `sweep_lock` | a day is evaluated once, with the band's hysteresis, under a revision that said so; what it made members is priced; a waiter for the lock is told |
| Bars (`prices.py`, `backfill.py`, `store.py`) | one vintage of each bar, corporate actions, Restatements; the Yahoo pair of each coin | `upsert_bars`, `bars_for`, `resolved_bars`, `close_pairs`, `backfill` | a vintage never goes back, a Restatement is filed exactly when history is rewritten, every read splices two sources alike, a backfill fills gaps only and pairs no two coins alike |
| Store open and backup (`store.py`, `backup.py`) | tables, recorded versions, copies, a backup | opening, migrating, `take`, `restore` | a recorded version is true of its file, and a migrated file has a copy as the older build left it |
| Portfolios (`portfolio.py`, `app.py`, `store.py`) | portfolios, trades, voids | `create_portfolio`, `record_trade`, `void_trade`, `derive_positions` | a trade's Instrument is held; a position sums the trades that count, and has a cost while a costed acquisition is behind it |
| Declared series (`series.py`, `risk.py`, `store.py`) | exposure and covariance entries, Risk Model revisions | the `save_*_series` methods | whatever was saved, refused or published late, the stored series loads back, each stamp to its recipe |
| Datasets, explorer (`datasets.py`, `explorer.py`) | none | read-only projections | position and value rows agree (`TradeLedger`), bulk bars agree with the single reads (`BarHistory`); the others copy columns |
| Sources, CLI, config | none of their own | HTTP calls, parsing | not modelled: their answers are inputs of the models |

They interact through the database and through `superseded_by`: an Observation
made by a sweep or a typed trade can supersede an Instrument that universes,
bars and trades were recorded under years before, and every read folds the
chain.  Sweeps and backfills share one lock file between processes.

What is hard here is listed line by line in `PROJECT.json` under `hazards`:
evidence in any order, state read before an await and used after it, one commit
per Instrument, intervals recorded under ids that are superseded later.

## Modules

    Supersession            chains of superseded_by and their fold
      SupersessionFacts     lemmas: chains end; what merging and minting do to a fold
      Identity              the rules of instrument.py as operators on a registry value
        IdentityFacts       lemmas about those operators, for any registry value
        InstrumentRegistry  the registry as a state machine
          InstrumentRegistryProofs
          MCInstrumentRegistry
        IdentityStore       rows, tasks, commits and crashes around the same operators
          MCIdentityStore
          MCIdentityParts
            IdentityStoreProofs
      UniverseMembership    intervals, entries and runs of one universe
        UniverseSeries      what they implement
        UniverseMembershipProofs    MCUniverseMembership
      BarHistory            stored bars of Instruments that merge, and every read of them
        Backfill            backfills, sweeps, merges and Yahoo pairs around the same rows
      TradeLedger           portfolios, trades, positions and their Datasets
    DailySweep              sweeps of several processes and the edits around them
      DailySweepProofs      MCDailySweep
    Prices                  splits, provisional bars, what a Restatement is
      BarVintages           one Instrument's bars under a vendor that rewrites and splits
    SeriesStore             risk model revisions, covariances, exposures and their copies
    StoreOpen               the database file: open, migrate, back up, restore
    MCBars                  BarVintages, BarHistory, Backfill
      BarsProofs
    MCRecords               TradeLedger, SeriesStore, StoreOpen
      RecordsProofs

`IdentityStore` composes with `InstrumentRegistry` by sharing `Identity`: both
give the same operators (`Observed`, `Anchored`) a state, one in memory, the
other in rows.  `UniverseMembership` sees of identity only the one thing that
reaches it, the `superseded_by` column, and shares `Supersession`.
`DailySweep` sees of a membership only what each Run produced, which is what
`UniverseMembership` shows `members_at` to answer.  `Backfill` is composed with
the reads it must keep: it EXTENDS `BarHistory`, whose `BarsFor` decides which
dates it misses and states what its writes may not change.

### InstrumentRegistry

An Instrument is its position in `instruments`, which is its `mint_seq`.
`Observe` is `InstrumentRegistry.observe` by outcome: `MatchByReference`,
`Supersede`, `MatchBySymbol`, `Mint`.  An Observation flagged for review
changes nothing and is no step.  `Anchor` attaches a FIGI answer to a named
Instrument.  A symbol, issuer or reference value is a model value; a Qualifier
is bare, by issuer or by number, so an issuer whose slug happens to be a number
is kept apart from that number (the code's test for a taken id is the same).
References are grouped as `_match_keys` groups them: the FIGI group, a group
per provider, and the share class FIGIs that are stored and never compared.
Inputs are what ingest can form: at most one value per group (`OneValueEach`),
and a resolved outcome exactly with an anchor FIGI.

### IdentityStore

`rows` is what is committed, `writing` and `unsaved` the work list of
`save_instruments`, which commits one Instrument at a time (`Commit`), with a
`Crash` possible between any two.  An operation that runs between two awaits is
one step, as on one event loop; a task suspended in an await is an entry of
`lookups` (`resolve_typed_symbol` waiting for CoinGecko, `AskForCoin` then
`CoinAnswered`) or of `retries` (`retry_resolution` waiting for OpenFIGI with
the registry it loaded, `StartRetry` then `AnswerRetry` or `MissRetry`).
`retry_resolution` is public and tested, and no scheduled job calls it yet.
What OpenFIGI and CoinGecko answer, nothing included, is chosen freely.
`MCIdentityParts` runs the two kinds of task apart, a behaviour being of one
`part`: what a late retry undoes is known (`stale_retry`), and what the
typed lookups promise is asked where it has not been undone.  Its history
variable `overtaken` says that the save under way is of a retry whose target's
row changed while it awaited: `StoredAnswersStand` exempts that save alone, in
either part, and of it still asks that the resolution stays.

### UniverseMembership and UniverseSeries

`record_membership` is one transaction, so `RecordMembership` is one step: the
diff of the folded open intervals against the evaluation, rows closed and
opened, the entry if something changed, and the Run.  `RefuseMembership` is
`EntryOrder`.  `Supersede` is what identity may do in between.  A Run carries
what its evaluation produced as a history field, which no row holds: it is what
`ReadsBackAsEvaluated` compares later reads with.  A date is a number, `Open`
an empty `valid_to`.  `UniverseSeries` is the abstract specification: entries
appended with a later date and a different universe, and re-expressed by a
Supersession.  `ImplementsSeries` maps `LoadedSeries`, the value
`load_universe_series` builds, onto it.

### DailySweep

The sweeps of several processes, and the edits of Definitions around them.  A
sweeper is `at rest`, `waiting` for the lock, `listing` (its Definitions loaded,
CoinGecko asked) or `evaluating`; `sweep[p]` is what it holds in memory:

| Action | Code |
|---|---|
| `Fire`, `GiveUp` | a trigger or the command line calls `App.sweep`, which polls the lock until its deadline |
| `FindSwept`, `BeginSweep` | the lock is got, the clock read, the configuration reconciled (`ensure_universes`), and the day found swept or the Definitions loaded |
| `Identify` | `_list_markets` and `_unlisted_inclusions` have answered |
| `Evaluate` | `_evaluate_once_a_day` for the next Definition: one commit |
| `WriteBars` | the bars of the day, within the bar window, and the lock let go |
| `Fail` | an exception or a killed process, at any point under the lock |
| `InitInstance` | `cointoss init` reconciles, without the lock |
| `PinTyped`, `SavePin` | `pin_member` before and after it awaits a resolution |
| `HoldTraded`, `RecordTrade` | the two commits of `add_trade` |

The revision log of a Definition is the sequence of its bands, and a member row
carries the revision it was added in, as in the tables.  `Ensured`,
`SavedRevision` and `SavedMember` are `ensure_universes` and `save_universe`,
the latter with what matters in a race: a revision number already stored is
skipped, the member row is not.  A moment is a third of a day, two of them in
the bar window.  A sweep's `at` is read under the lock and stamps its bars and
its Runs, so a sweep that ends the next day is told by `Tick` only.

Each Instrument is one coin: minting, merging and the Supersession of a listed
coin belong to `IdentityStore`, and what a Supersession does to stored
membership to `UniverseMembership`.  The clock does not step back.  A coin's
price is the moment it was fetched at, which tells two prices of a day apart.
`torn` remembers the days a sweep died on after its first evaluation: a later
sweep of such a day may find it swept already, and its bars are then left to a
backfill, so `MembersArePriced` exempts it.

### Prices and BarVintages

One Instrument at one source, and the vendor behind it.  `Restate` rewrites a
closed session or splits the share; `Fetch` takes the vendor's answer of the
moment, a missing close dropping the session's split with its bar
(`BarsFromFrame`); `Deliver` is `upsert_bars`, of any fetch under way, in any
order, and again if it is replayed.  `Upsert` compares and then replaces
(`Restated`, `Replaces`): older fetches are skipped and provisional bars give way
unexamined.  Histories that no row holds: `rewritten`, the sessions the vendor
rewrote; `account`, the vendor's account of a session net of splits, kept beside
each bar; `lost`, the splits a fetch dropped; `delivered`.  Values are whole, and
the splits of a ratio of two, so that no float noise arises: `Unchanged` is
equality.  Dividends explain nothing in the code, and are left out.

### BarHistory

`rows` is the Bar table and `links` the `superseded_by` column.  The reads are
operators: `BarsFor` (`bars_for`: a family's bars, by session, the
preferred source first and the other where it has none), `ResolvedBars`,
`ClosePairs` and `MemberBars`, which answer the same in bulk SQL, filtered by the
source or the membership asked for.  A source stamps a session `Offset` days
late (`SessionOf`): 1 for CoinGecko's midnights, 0 for Yahoo's closes.

### Backfill

A run goes over the coins it loaded, those in `left`, the earliest mint first
(`Target`): `Chart` asks CoinGecko, `EnterChart` and
`WriteChart` take the lock and write the dates still missing, `Known` and
`TryPair` find a Yahoo ticker by comparing closes (`Agrees`), `RecordPair` reads
the registry again under the lock and stores the pair, `EnterYahoo` and
`WriteYahoo` store its bars.  `held` is what a run finds stored when it takes the
lock, and the history field `family` whose bars it looked through then, which
`FillsGapsOnly` compares a write with.  `Abandon` is a failure or a kill at any of these
points.  Beside two such runs, `Sweep` prices the day, `Merge` supersedes one
Instrument by another or names a typed one, and `NextDay` passes.  The lock here is
held for one write at a time, while `DailySweep` shows how it is waited for.

### TradeLedger

Portfolios and Trades as rows, read as the set of those of a Portfolio.
`DerivePositions` parts the ones that count before the end of a day by survivor,
and `Position` folds each part in trade order (`LastTraded`, by moment and then id)
over `Moved`, one turn of the loop in `derive_positions`;
`PositionRows` and `ValueRows` are what `datasets.py` reads from it.  A ratio is a
pair of integers.  `Fuse` is a Supersession of traded Instruments.  The Inclusion
that precedes a Trade is in `DailySweep` (`HoldTraded`, `RecordTrade`).

### SeriesStore

One risk model with its covariance series, and one exposure series.  Each program
holds a copy, `risk[p]` or `sector[p]`, that it loads, edits and saves: a copy is
a Pydantic value, and may be stale.  A save inserts date by date, and a date
that is occupied raises before the commit, so its earlier inserts stay on
the connection, `pending[p]`, until another operation commits them
(`CommitOther`) or the store is closed.  SQLite's write lock lets one connection
hold such rows at a time (`MayWrite`).  A recipe kept beside an entry's stamp and
`parted`, that two copies took one revision number or one name for two things,
are histories.

### StoreOpen

Processes of several builds open one file: in `records`, builds 1 to 3, of which
3 has no step to its version and so refuses an older file.  Each commit is an action: `BackUp`, `CreateTable` for each table missing
when they were listed, `RecordFirst`, `ApplyStep` and `RecordStep`, and `Leave`
is a process that dies, or ends, between any two.  A table stands for all that
came with one version.  Meanwhile a backup is taken and its manifest written
(`Take`, `WriteManifest`), the file is moved aside, and `restore` checks
(`CheckRestore`) and later puts the copy in place (`PutInPlace`), with others
opening or writing in between.  `from`, `born`, `raced` and a copy's `again` are
histories: what versions a file was migrated from, what tables it had when its
first version was recorded, whether another process was opening it then, and
whether a copy overwrote one of the same name.

### MCBars and MCRecords

Each puts three independent machines in one run.  A behaviour moves one of them,
its `part`, and the others stay where they begin, so nothing is shared but
the run: the modules are composed where the code composes them (`Backfill` with
`BarHistory`), not here.

## Runs

| Run | What it asks | States |
|---|---|---|
| `registry` | Do any sightings, in any order, break identity? | 45 thousand |
| `identity_store` | What may a crash between commits, or a late answer, leave behind? | 284 thousand |
| `stale_retry` | Can a late retry undo what was settled while it awaited? (violated) | |
| `stale_lookup` | Is a held symbol minted a second time? (violated) | |
| `universe` | Do the reads agree, and does history read back? | 80 thousand |
| `universe_changes` | Is every reported change a change? (violated) | |
| `sweeps` | What do the lock and the once-a-day rule keep, and does every firing end? | 351 thousand |
| `edits` | Does an edit at any point of a sweep get into the hysteresis? | 769 thousand |
| `revisions` | Does a revision keep what it said? (violated) | |
| `bars` | Do bars move forward, reads agree, backfills fill gaps only? | 795 thousand |
| `splits` | Is a Restatement filed for a split? (violated) | |
| `records` | Do positions add up, series load back, migrations keep what they found? | 593 thousand |

**Bounds.**  `MaxInstruments` and `MaxRecords` cap minting and one source's
history.  Four Instruments are enough for a chain of three with one outside it,
a merge of three at once, and two disputes about one symbol; two dates for a
rename and an out-of-order sighting; three values of a group for two conflicts.
The ten Observations of `MCInstrumentRegistry` are a coin listed under each of
two CoinGecko ids, the same coin typed with a hit, a miss, and hits that tie
the ids together, and a stock claiming a coin's FIGI.  In `MCIdentityStore` one
task of each kind is enough, since a stale task only ever meets what the others
have committed.  `UniverseMembership` runs with three Instruments, so that
chains of two form after intervals were recorded, three dates and three Runs
(`MaxRuns`): enough to join, leave and rejoin, to follow a quiet Run by an
earlier date, and for three intervals to meet once folded.  `sweeps` has two sweepers, which may be forced, die or give
up anywhere, over four moments: a day with its late moment, and the next day, so
a sweep may start before midnight and be retried after it.  One universe is
declared, the other comes into being with a trade.  `edits` has one sweeper and
one task that pins, since what races there is the edit and the sweep, with a
band of two widths and two coins that trade places: enough for a coin that stays
by the exit rank only.

`bars`, vintages: three dates, two moments a day, two fetches that overlap and
may be delivered in either order (`MaxFetches`), one split and one rewrite
(`MaxSplits`, `MaxRewrites`); a replay needs no third.  History: three rows
(`MaxRows`) over three Instruments, two sources and three dates put every pair of
sources and every chain of two beside a session both have, one neither has, and
one each has alone.  Backfill: two runs of one target each (`MaxTargets`), one
merge (`MaxMerges`), one session enough to compare (`PairSessions`): two coins
whose closes agree with one ticker, and a typed Instrument no coin named.
`splits` is the vintages with two splits.

`records`, trades: two owners with a portfolio of one name, three Trades
(`MaxTrades`) from six fills that buy, sell short, cover and buy without a
cost, two voids, one merge.  Series: two programs, two recipes, two dates, two
matrices, two revisions (`MaxRevisions`): two copies can take one number.
Files: two processes, three files at most, two seconds of the clock
(`LastSecond`, `MaxFiles`); `RestoreBound` keeps restores to one opener of builds
1 and 2, one restorer, one second.

`SYMMETRY` permutes constants no definition tells apart: the two runs of a
backfill, owners, programs, recipes and matrices; these runs check no liveness.
Deadlock is not checked where the bounds stop everything: when the moments,
fetches, trades or files are used up.

**Fairness.**  `sweeps` alone checks a liveness property, under two weak
fairness conditions for each sweeper.  `Poll`: a waiter sleeps `LOCK_POLL` at
most between two tries and has a deadline, so it is served or gives up.
`Proceed \/ Fail`: a request has a timeout, and the evaluations between are
plain code, so a sweep that holds the lock goes on or dies, and the kernel lets
go of a dead holder's lock.  Nothing obliges anybody to fire, edit or trade, and
no waiter is promised the lock: it is promised an end.

**What is exempted.**  `StoredAnswersStand` is asked of every save but an
overtaken retry's, whose losses `stale_retry` shows.
`NothingFiledUnlessRewritten` is asked unless a split was lost with its
session's close (`prices.py:291`), as no later fetch says it.  The
recipe of a stamp is asked in `SeriesLoadBack` unless numbers parted: the log
keeps the first, by design.  `MigratedKeepsPristineCopy` leaves out copies that one
second names alike, and files whose first version was recorded while another
build was opening them: such a file is new, and has no older state to keep.

### What the violated runs show

- `stale_retry`: `retry_resolution` anchors on the registry it loaded before
  its await.  If a typed FIGI hit anchored its target meanwhile, the review that
  ADR-0004 promises sees no FIGI to disagree with, and the row is saved with the
  retry's FIGI in the place of the one stored.  The first half of
  `SettledIsFinal` alone is violated too, by a longer trace: a target superseded
  meanwhile passes the review, and the saved row survives again.  Without
  retries the property holds.
- `stale_lookup`: `resolve_typed_symbol` looks the symbol up before it awaits
  CoinGecko, and not after.  A symbol identified by a FIGI hit meanwhile is
  minted a second time, beside the Instrument the policy says to pin.
- `universe_changes`: when the member dropped at an entry and the one admitted
  there turn out to be one Instrument, `App.changes` still reports the date,
  with nobody joining or leaving.
- `revisions`: `pin_member` numbers its revision from the Definition it read
  before its await.  If another edit took that number meanwhile,
  `save_universe` keeps the other's revision and stores the member as added in
  it, so what a revision said, perhaps already stamped on a Run, changes.
- `splits`: `detect_restatements` scales the stored bar by every split after its
  session, also by one the stored vintage was fetched after and already shows.
  After a second split, each bar stored between the two is compared with the
  product of both, and a Restatement is filed for a rescale ADR-0009 says a
  corporate action explains.

## Proofs

All are for every value of the constants, under the named assumptions of the
modules (`IdentityAssumption`, `StoreAssumption`, `RegistryAssumption`,
`UniverseAssumption`, `SweepAssumption`, `InstrumentsAssumption`,
`SourcesAssumption`, `DaysAssumption`, `StaysAssumption`, `NoBarAssumption`,
`BackfillAssumption`, `PricesAssumption`, `VintagesAssumption`,
`SeriesAssumption`, `LedgerAssumption`, `FilesAssumption`), which say of what
kind a constant is: Instruments are numbered in mint order, days have no gap, a value that
stands for "none" is none of the others.  TLC evaluates each of them on a run.
Three theorems have a hypothesis besides, named below with the reason for it.

**Supersession.**  `WellLinked` says that every link leads to a smaller number.
`Fold` is a recursive function, so its equation (`FoldEquation`) is first
derived from a least counterexample (`FoldsExists`), since no induction rule
with an operator parameter can be used here.  `FoldAfterMerge` and
`FoldAfterMint` say which families move.  The other folds are treated alike: a
least size at which the equation has no solution, then a least set whose result
breaks what is claimed (`RegistersExist` and `ListingKeeps` for a listing,
`MergesExist` and `FoldMerges` for stays, `Multiplies` for a product of split
ratios, `PlacesExist` and `PositionsTrue` for a position).

**InstrumentRegistry.**  `IdentityFacts` says of any registry value what an
Observation, a mint, a match by reference, a merge and an anchor do to it: it stays
`Chained`, ids stay distinct, and `Keeps` (what was there is still there).  The
inductive invariant joins the type invariant with
`EarlierSurvives` (links lead to earlier mints, hence `WellLinked`),
`OneFamilyPerReference`, `MergedOnEvidence`, `OneValuePerGroup`, `IdsAreUnique`,
`ResolvedMeansAnchored` and `HistoryIsAChain`.  None but the last three stands
alone: that a reference names one family after a merge needs that a chain ends,
and that a match reaches every holder.  Proved: each of these invariants, and the
action property `FamiliesOnlyGrow`.  `IdsStayUnique` includes that the search
for a free number ends: finitely many ids are taken, so one of `Len + 1`
numbers is free.

**IdentityStore.**  The same lemmas, of the registries around the table: the
rows, the one being saved, the one each retry loaded.  `PartsInv` says of every
part that the table and the registry it is written from are registries that
speak of the same Instruments (`StoreTrue`), that what is left to commit is what
the table has not, and takes no resolution back (`WorkList`), that it drops no
reference and no Supersession either unless it is of an overtaken retry
(`DropsNothing`), and that what a retry holds is an earlier registry (`RetriesTrue`).  Of the typed lookups it says more: while
a save is under way, rows already committed equal the registry they come from and
the others are `Behind` it, so that wherever a crash cuts the save, chains still
end and have their evidence; and between operations one reference names one
family, unless a process died in a merge (`torn`).  Proved from it: the type invariant,
`LookupsFold`, `LookupsKeepFamilies`, and the action property `StoredAnswersStand`.

**UniverseMembership.**  The inductive invariant is the type invariant,
`WellLinked`, and `BoundedByEntries`: intervals begin and end at entry dates
only.  From it, the reads agree on every date (`MembersAtIsTheEntryInForce`,
`RangeIsSomeDay`) without further induction.  An evaluation leaves earlier
dates alone (`PastIsKept`) and makes the open intervals hold what it produced
(`EvaluationIsHeld`); a Supersession moves the loser in every date at once
(`SupersedeReexpresses`).  These three give `HistoryReadsBack` and
`StoreImplementsSeries`, the refinement.  `StaysAreWhole` is about the fold of
`membership_intervals`: `WellMerged` adds to the property that no stay begins
after the last row merged so far, without which the next row could begin inside an
earlier stay (`MergeStep`).

**DailySweep.**  Every safety property of `sweeps` and `edits`.  The inductive
invariant `Inv` adds to the properties: what a sweep holds in memory is
faithful to a revision that stands (`LoadedKnown`), since edits only add
revisions and typed members (`EditsGrow`); the one sweep under way holds the
lock and its day is at or after every Run's (`Ordered`), from which one Run a
day follows; and a Run's members are priced, or its sweep is still to write
their bars and has all their coins (`PricedOrToBe`).  `TradesAreIncluded` needs
that nobody pins into `portfolio-held` by hand: two edits that take one revision
number could otherwise replace the Inclusion's row by an unresolved one.

**BarVintages.**  `VintagesInv` says what is true of the vendor (`VendorTrue`), of a fetch
(`FetchTrue`: it has every split until its moment, on file or lost with its
session, each bar is an account rescaled by the splits after it, and a session
given as closed is as the vendor still has it, unless rewritten since) and of the store
(`StoredTrue`: every vintage came with a delivered answer, and none is older than
any that came).  `NewestStands` needs no more than the last.  `RewritesFiled` is under
`QuotesTell`: no rescaling by splits passes one account of a session for another,
as 10 becomes 5 by a split of two and by a rewrite alike; the code cannot
tell these apart either.  `SplitsAreNoRestatements` is under `QuotesDivide`,
prices that a split divides without a remainder, and `MaxSplits <= 1`: with two
it is false, which the run `splits` shows.  `MCBars` states the first two of its
constants as an ASSUME, so TLC finds them true of prices the run is about.

**BarHistory and Backfill.**  `Readable` (chains lead to earlier Instruments, and no
two rows have one Instrument, source and date) is all that the reads need:
two bars read for one date differ in source or Instrument, so one comes first, and
`bars_for` and the bulk SQL both pick that one (`ReadsAlwaysAgree`).
`BackfillInv` adds `RegistryTrue` and `RunsTrue`.  The first speaks of Instruments,
not of survivors: two that carry one ticker fold to one, and each carries one.  A merge
then moves whole families (`FoldAfterMerge`), and a pair is recorded only when
nobody holds it and its Instrument has no other (`RecordPairKeeps`), whatever the
run compared before it got the lock: `PairsStayApart`.  The second says what a run has
in hand at each stage: under the lock, the dates it holds for stored are those its
family has a bar of (`LookedIn`), from which `GapsAreFilled`.  That property
asks that dates already read keep their bars only where the family is the one the
run looked through: a merge takes no sweep lock, so it may join to the family,
between the look and the write, an Instrument with bars of the same dates, and which is
then read is the order of reading's choice.  `BackfilledReadsAgree` carries the
reads over to this composition.

**StoreOpen.**  `VersionsStayTrue`.  What makes it inductive is `Ready`, what a process
knows of the file it opened: after the tables were listed, only those still to
create can be missing, and from then on none of its build's.  Tables are never
dropped, so others' writes keep it true (`ReadyStays`); a version is recorded only
by a process that knows its tables are there (`RecordedKeeps`, `DueIsBuilt`); a copy, a
backup and a restored file say what a true file said.  `CopiesStayPristine` is
proved from `PristineInv`: a file has no table that its latest version did not
bring, or there is a copy that has none (`Covered`), and a process past copying
knows that what it will migrate has been copied (`Knows`), also when another
process recorded the version it reads, and died.

**SeriesStore.**  `CommittedSeriesLoad`, from `SeriesInv`: every stamp, committed,
held back or in a copy, has its revision; and while no number was taken twice,
logs agree where they overlap, exposures have one axis, and what a connection holds
back comes from what is committed or from its program's own copies (`LogFrom`,
`AxesFrom`), so a later commit that publishes it publishes nothing that does not load.

**TradeLedger.**  `PositionsStayTrue`.  The invariant of the states (`LedgerInv`: types,
links to earlier Instruments, no Trade of nothing) says little; the work is
in the fold.  `PosTrue` is what holds of a position and any set of Trades it was
derived from, and `MovedTrue` that one more Trade, after all of them, keeps it, by the
four cases of `derive_positions`.  It adds to the property that a position has a
costed quantity exactly when it has an average, never more than it holds
while long: without the first a new cost would be weighed against nothing, and
without the second a sale could not be in proportion.  `BehindAfter` says what one Trade does
to the acquisitions behind a position; that the new average lies between the old
one and the new unit cost is `WeightedBetween`, polynomial identities written out so that
the solver multiplies by one known sign at a time (`Scaled`, `Unscaled`).  A
sum does not depend on the order it is added in (`TotalsExist`, `SumApart`), nor
on the names of what is added (`SumMoved`), which makes a day's value the sum of
its rows.

**Types of the composed runs.**  `BarsAreTyped` and `RecordsAreTyped`, for all
parts of `bars` and `records` at once; with the latter, that one connection at most holds
rows back, with the former, that the lock is held by exactly the run that writes.

**Only model-checked.**  `EveryFiringEnds`, since liveness and `ENABLED` are out of
the prover's reach, and the five properties that runs violate; every other property of
a run is stated by a theorem.  A proof can use no induction rule of the library's that takes an
operator, hence the least counterexamples above.

## Not modelled, and the plan

- Two processes that load, mint and save at once: within one event loop a load and
  its identification are one step, and `IdentityStore` is one process.
- Inclusions and Exclusions of superseded Instruments: `DailySweep` has no
  Supersession.
- What services wrote into a file that a racing `restore` replaces.
- The algebra of a matrix, the Subject axis and floating point: a matrix is a model
  value, a quantity whole, a ratio exact.  TLC would enumerate numbers where the
  code compares them.
- HTTP clients (pacing, batching, retries after 429): they keep no state of the
  system, and what they answer, failures included, is an input.
- Datasets that copy columns of reads already modelled, rendering, command line and
  YAML parsing, names, wording and logging.

No property of a run is left to prove but the liveness of the sweeps, which stays with
TLC; what could be added next is the first item above, two writers of one file.
