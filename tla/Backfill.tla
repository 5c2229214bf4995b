------------------------------ MODULE Backfill -------------------------------
(***************************************************************************)
(* Backfills beside the sweep and beside merges (backfill.py).  A run       *)
(* fetches outside the sweep lock and takes it around each write; it goes   *)
(* over the targets it loaded when it began, while other processes sweep,   *)
(* backfill and merge Instruments.  Instruments other than coins, which it  *)
(* skips, are left out.                                                     *)
(***************************************************************************)
EXTENDS BarHistory

CONSTANTS
  Yahoo, CoinGecko,
  Coins,           \* CoinGecko's ids
  NamedCoin,       \* Instrument -> the coin id it was minted with, or NoCoin
  NoCoin,
  Tickers,         \* Yahoo's
  Candidates,      \* Instrument -> the tickers _find_pair tries, in order
  CoinClose, TickerClose,   \* what each closes a session at
  Listed,          \* ticker -> the sessions Yahoo has of it
  PairSessions,    \* PAIR_SESSIONS
  Listings,        \* the coins a sweep may price
  Runs, Free,
  FirstDay, MaxTargets, MaxMerges   \* bounds

ASSUME BackfillAssumption ==
  /\ {Yahoo, CoinGecko} \subseteq Sources /\ Yahoo # CoinGecko
  /\ NoCoin \notin Coins /\ NamedCoin \in [Instruments -> Coins \cup {NoCoin}]
  /\ Candidates \in [Instruments -> Seq(Tickers)] /\ Listed \in [Tickers -> SUBSET Days]
  /\ \A c \in Coins, d \in Days : CoinClose[c][SessionOf(CoinGecko, d)] \in Nat
  /\ \A t \in Tickers : \A d \in Listed[t] : TickerClose[t][d] \in Nat
  /\ Listings \subseteq SUBSET Coins
  /\ Free \notin Runs /\ FirstDay \in Days /\ MaxTargets \in Nat \ {0}
  /\ PairSessions \in Nat \ {0}

VARIABLES
  day,
  coin,            \* Instrument -> the CoinGecko reference it carries, or NoCoin
  pairs,           \* Instrument -> the Yahoo references it carries
  lock,            \* the sweep lock's holder, or Free
  run

registryVars == <<links, coin, pairs>>
backfillVars == <<links, rows, day, coin, pairs, lock, run>>

Idle == [stage |-> "idle", left |-> {}, today |-> 0, coin |-> NamedCoin,
         pairs |-> [i \in Instruments |-> {}], tickers |-> <<>>, dates |-> {}, held |-> {},
         family |-> {}]

(* The next of those left, in mint order. *)
Target(p) == Min(run[p].left)

BackfillTypeOK ==
  /\ links \in [Instruments -> {None} \cup Instruments]
  /\ rows \subseteq BarRow
  /\ \A a, b \in rows : <<a.instrument, a.source, a.date>> = <<b.instrument, b.source, b.date>> => a = b
  /\ coin \in [Instruments -> Coins \cup {NoCoin}]
  /\ pairs \in [Instruments -> SUBSET Tickers]
  /\ lock \in Runs \cup {Free}
  /\ \A p \in Runs :
       /\ run[p].stage \in {"idle", "target", "charted", "charting", "find", "pairing",
                            "frame", "writing", "done"}
       /\ (lock = p) <=> (run[p].stage \in {"charting", "writing"})
       /\ run[p].stage \notin {"idle", "target", "done"} => run[p].left # {}

BackfillInit ==
  /\ links = [i \in Instruments |-> None] /\ rows = {}
  /\ day = FirstDay
  /\ coin = NamedCoin /\ pairs = [i \in Instruments |-> {}]
  /\ lock = Free
  /\ run = [p \in Runs |-> Idle]

-----------------------------------------------------------------------------
(* Around the backfills. *)

NextDay ==
  /\ day < Max(Days)
  /\ day' = day + 1
  /\ UNCHANGED <<rows, lock, run>> /\ UNCHANGED registryVars

Conflict(i, j) ==
  \/ NoCoin \notin {coin[i], coin[j]} /\ coin[i] # coin[j]
  \/ {} \notin {pairs[i], pairs[j]} /\ pairs[i] # pairs[j]

(* Two Instruments found to be one, by an Observation that names the coin or does not. *)
Merge(i, j, named) ==
  /\ i < j /\ {i, j} \subseteq Survivors /\ ~ Conflict(i, j)
  /\ Cardinality({k \in Instruments : links[k] # None}) < MaxMerges
  /\ links' = [links EXCEPT ![j] = i]
  /\ coin' = IF named /\ coin[i] = NoCoin THEN [coin EXCEPT ![i] = coin[j]] ELSE coin
  /\ UNCHANGED <<rows, day, pairs, lock, run>>

Holders(c) == {Survivor(i) : i \in {i \in Instruments : coin[i] = c}}

(* instruments_with_bars: as stored, not folded. *)
WithBars(source, d) == {r.instrument : r \in {r \in rows : r.source = source /\ r.date = d}}

(* sweep, as far as bars go, in one hold of the lock: each coin priced is *)
(* matched by its id, which its survivor then carries, and has a bar unless that *)
(* survivor has one. *)
Sweep(priced) ==
  /\ lock = Free
  /\ LET identified == {i \in Instruments : \E c \in priced : Holders(c) = {i}}
         bar(i) == [instrument |-> i, source |-> CoinGecko, date |-> day, fetched |-> day,
                    close |-> CoinClose[CHOOSE c \in priced : Holders(c) = {i}][SessionOf(CoinGecko, day)]]
     IN /\ rows' = Upserted({bar(i) : i \in identified \ WithBars(CoinGecko, day)})
        /\ coin' = [i \in Instruments |-> IF i \in identified /\ coin[i] = NoCoin
                                          THEN CHOOSE c \in priced : Holders(c) = {i} ELSE coin[i]]
  /\ UNCHANGED <<links, day, pairs, lock, run>>

-----------------------------------------------------------------------------
(* A backfill. *)

(* _targets, as they are loaded; those whose every fetch fails leave no *)
(* trace and are passed over, so that at most MaxTargets are taken. *)
Begin(p, taken) ==
  /\ run[p].stage = "idle"
  /\ taken \subseteq {Survivor(s.member) : s \in Stays}
  /\ run' = [run EXCEPT ![p] = [Idle EXCEPT !.stage = "target", !.today = day, !.coin = coin, !.pairs = pairs,
                                            !.left = taken]]
  /\ UNCHANGED <<rows, day, lock>> /\ UNCHANGED registryVars

Set(p, stage, r) == run' = [run EXCEPT ![p] = [r EXCEPT !.stage = stage]]

(* On to the next target, or the report. *)
Leave(p) ==
  LET r == [run[p] EXCEPT !.left = run[p].left \ {Target(p)}, !.tickers = <<>>, !.dates = {}, !.held = {},
                       !.family = {}]
  IN Set(p, IF r.left = {} THEN "done" ELSE "target", r)

Skip(p) ==
  /\ run[p].stage = "target" /\ run[p].coin[Target(p)] = NoCoin
  /\ Leave(p)
  /\ UNCHANGED <<rows, day, lock>> /\ UNCHANGED registryVars

(* bars_from_market_chart, of the days _midnight_days keeps: those with a point at 00:00. *)
Midnights(absent) == {d \in Days : d <= day} \ absent

(* _coingecko up to the lock: what the chart holds, or a failure. *)
Chart(p, absent) ==
  /\ run[p].stage = "target" /\ run[p].coin[Target(p)] # NoCoin
  /\ Set(p, IF Midnights(absent) = {} THEN "find" ELSE "charted",
         [run[p] EXCEPT !.dates = Midnights(absent), !.tickers = Candidates[Target(p)]])
  /\ UNCHANGED <<rows, day, lock>> /\ UNCHANGED registryVars

(* Mutant of Stamped: bars stored under a predecessor's id do not count. *)
StampedOwn(i, source, dates) == {r.date : r \in {r \in rows : r.instrument = i /\ r.source = source}}

(* _stamped: the dates the family holds, over the span of the bars. *)
Stamped(i, source, dates) == DOMAIN BarsFor(i, Min(dates), Max(dates), source)

Enter(p, from, to, source) ==
  /\ run[p].stage = from /\ lock = Free
  /\ lock' = p
  /\ Set(p, to, [run[p] EXCEPT !.held = Stamped(Target(p), source, run[p].dates),
                                !.family = Family(Target(p))])
  /\ UNCHANGED <<rows, day>> /\ UNCHANGED registryVars

EnterChart(p) == Enter(p, "charted", "charting", CoinGecko)

WriteChart(p) ==
  /\ run[p].stage = "charting"
  /\ LET i == Target(p)
     IN rows' = Upserted({[instrument |-> i, source |-> CoinGecko, date |-> d, fetched |-> run[p].today,
                           close |-> CoinClose[run[p].coin[i]][SessionOf(CoinGecko, d)]]
                            : d \in run[p].dates \ run[p].held})
  /\ lock' = Free
  /\ Set(p, "find", [run[p] EXCEPT !.dates = {}, !.held = {}, !.family = {}])
  /\ UNCHANGED day /\ UNCHANGED registryVars

Settled(p, t) == {d \in Listed[t] : d < run[p].today}

(* A pair known when the run began: its frame, or a failure. *)
Known(p) ==
  /\ run[p].stage = "find" /\ run[p].pairs[Target(p)] # {}
  /\ \/ Leave(p)
     \/ \E t \in run[p].pairs[Target(p)] :
          /\ Settled(p, t) # {}
          /\ Set(p, "frame", [run[p] EXCEPT !.tickers = <<t>>, !.dates = Settled(p, t)])
  /\ UNCHANGED <<rows, day, lock>> /\ UNCHANGED registryVars

(* median_disagreement is under the tolerance: most of the last sessions both hold agree. *)
Agrees(i, t, sessions) ==
  LET held == BarsFor(i, Min(Days), Max(Days), CoinGecko)
      close == [s \in {SessionOf(CoinGecko, d) : d \in DOMAIN held} |-> held[s + Offset[CoinGecko]].close]
      both == DOMAIN close \cap sessions
      last == {s \in both : Cardinality({x \in both : x >= s}) <= PairSessions}
  IN /\ Cardinality(last) = PairSessions
     /\ 2 * Cardinality({s \in last : close[s] = TickerClose[t][s]}) > PairSessions

(* _try_pair up to the lock: the next ticker's frame fails, disagrees, or agrees. *)
TryPair(p, fails) ==
  /\ run[p].stage = "find" /\ run[p].pairs[Target(p)] = {} /\ run[p].tickers # <<>>
  /\ LET t == Head(run[p].tickers)
     IN IF ~ fails /\ Agrees(Target(p), t, Settled(p, t))
        THEN Set(p, "pairing", [run[p] EXCEPT !.dates = Settled(p, t)])
        ELSE Set(p, "find", [run[p] EXCEPT !.tickers = Tail(run[p].tickers)])
  /\ UNCHANGED <<rows, day, lock>> /\ UNCHANGED registryVars

Unpaired(p) ==
  /\ run[p].stage = "find" /\ run[p].pairs[Target(p)] = {} /\ run[p].tickers = <<>>
  /\ Leave(p)
  /\ UNCHANGED <<rows, day, lock>> /\ UNCHANGED registryVars

HeldBy(registry, t) == {Survivor(i) : i \in {i \in Instruments : t \in registry[i]}}

(* Mutant of Registry: the pairs as they were when the run began. *)
RegistryAtStart(p) == run[p].pairs

(* The pairs stored, read again under the lock. *)
Registry(p) == pairs

(* observe: the target alone holds the coin's id or the pair, and disagrees on neither. *)
Matched(registry, i, c, t) ==
  /\ Holders(c) \cup HeldBy(registry, t) = {i}
  /\ coin[i] \in {NoCoin, c} /\ registry[i] \subseteq {t}

(* _record_pair, reading and saving in one hold of the lock. *)
RecordPair(p) ==
  /\ run[p].stage = "pairing" /\ lock = Free
  /\ LET t == Head(run[p].tickers)
         c == run[p].coin[Target(p)]
         i == Survivor(Target(p))
         held == HeldBy(Registry(p), t)
         refused == held \notin {{}, {i}} \/ (held = {} /\ ~ Matched(Registry(p), i, c, t))
     IN \/ /\ held = {i}
           /\ Set(p, "frame", run[p]) /\ UNCHANGED <<coin, pairs>>
        \/ /\ refused
           /\ Set(p, "find", [run[p] EXCEPT !.tickers = Tail(run[p].tickers), !.dates = {}])
           /\ UNCHANGED <<coin, pairs>>
        \/ /\ held = {} /\ ~ refused
           /\ Set(p, "frame", run[p])
           /\ coin' = [coin EXCEPT ![i] = c]
           /\ pairs' = [pairs EXCEPT ![i] = Registry(p)[i] \cup {t}]
  /\ UNCHANGED <<rows, day, lock, links>>

EnterYahoo(p) == Enter(p, "frame", "writing", Yahoo)

WriteYahoo(p) ==
  /\ run[p].stage = "writing"
  /\ LET t == Head(run[p].tickers)
     IN rows' = Upserted({[instrument |-> Target(p), source |-> Yahoo, date |-> d, close |-> TickerClose[t][d],
                           fetched |-> run[p].today] : d \in run[p].dates \ run[p].held})
  /\ lock' = Free
  /\ Leave(p)
  /\ UNCHANGED day /\ UNCHANGED registryVars

(* Mutant of LockAfter: the file lock outlives its holder. *)
LockKept(p) == lock

LockAfter(p) == IF lock = p THEN Free ELSE lock

(* The lock is not to be had in time, or the process dies; its lock is then let go. *)
Abandon(p) ==
  /\ run[p].stage \in {"charted", "charting", "pairing", "frame", "writing"}
  /\ run' = [run EXCEPT ![p] = [Idle EXCEPT !.stage = "done"]]
  /\ lock' = LockAfter(p)
  /\ UNCHANGED <<rows, day>> /\ UNCHANGED registryVars

BackfillNext ==
  \/ NextDay
  \/ \E i, j \in Instruments, named \in BOOLEAN : Merge(i, j, named)
  \/ \E priced \in Listings : Sweep(priced)
  \/ \E p \in Runs :
       \/ \E taken \in kSubset(MaxTargets, Instruments) : Begin(p, taken)
       \/ Skip(p) \/ Abandon(p)
       \/ \E absent \in {{}, Days} : Chart(p, absent)
       \/ EnterChart(p) \/ WriteChart(p)
       \/ Known(p) \/ Unpaired(p) \/ RecordPair(p)
       \/ \E fails \in BOOLEAN : TryPair(p, fails)
       \/ EnterYahoo(p) \/ WriteYahoo(p)

BackfillSpec == BackfillInit /\ [][BackfillNext]_backfillVars

-----------------------------------------------------------------------------
(* Properties. *)

(* A write's step, as it leaves the bars its target has from one source. *)
GapsFilled(p, from) ==
  (IF from = Yahoo THEN WriteYahoo(p) ELSE WriteChart(p)) =>
  \A i \in {Target(p)} :
    LET before == BarsFor(i, Min(Days), Max(Days), from)
        after == BarsFor(i, Min(Days), Max(Days), from)'
    IN /\ rows \subseteq rows'
       /\ run[p].dates \subseteq DOMAIN after
       /\ Family(i) = run[p].family => \A d \in DOMAIN before : after[d] = before[d]

(* backfill.py:278: whatever was swept, written or merged while a backfill fetched and *)
(* waited for the lock, its write takes no row away and leaves every date it fetched *)
(* readable; and unless a merge, which takes no lock, came between its look at the store *)
(* and its write, every date of the family reads as it did. *)
FillsGapsOnly == [][\A p \in Runs, from \in {CoinGecko, Yahoo} : GapsFilled(p, from)]_backfillVars

(* backfill.py:431: two backfills, each with a coin whose prices a ticker agrees with, *)
(* never leave it the Yahoo pair of both, nor an Instrument with two. *)
PairsNameOneCoin ==
  /\ \A t \in Tickers : Cardinality(HeldBy(pairs, t)) <= 1
  /\ \A i \in Instruments : Cardinality(pairs[i]) <= 1
=============================================================================
