----------------------------- MODULE TradeLedger -----------------------------
(***************************************************************************)
(* Portfolios, their Trades, and the positions and values derived from      *)
(* them.  A Trade stays as entered, under the Instrument it named; voids    *)
(* and Supersessions change how it is read.  Quantities are whole, ratios   *)
(* are pairs <<numerator, denominator>>: floating point is left out.        *)
(***************************************************************************)
EXTENDS Supersession, FiniteSets, SequencesExt

CONSTANTS
  Owners, Names,
  Fills,           \* what may be traded: [instrument, at, quantity, cost]
  NoCost,          \* a Trade without a cost, a position without an average
  Traded,          \* 1..n, the Instruments in mint order
  PerDay,          \* moments in a day
  ReadDays,        \* the days positions are read at
  Close,           \* [Traded -> [ReadDays -> price or NoClose]]
  NoClose,
  MaxPortfolios, MaxTrades, MaxVoids   \* bounds

ASSUME LedgerAssumption ==
  /\ MaxPortfolios \in Nat
  /\ IsFiniteSet(Traded) /\ Traded = 1..Cardinality(Traded)
  /\ \A fill \in Fills : /\ fill.instrument \in Traded /\ fill.at \in Int /\ fill.quantity \in Int
                       /\ fill.cost \in Int \cup {NoCost}
  /\ NoCost \notin Int \cup (Int \X Int)
  /\ NoClose \notin Int
  /\ \A i \in Traded, day \in ReadDays : Close[i][day] \in Int \cup {NoClose}

VARIABLES links, portfolios, trades
ledgerVars == <<links, portfolios, trades>>

Portfolio == [owner : Owners, name : Names]
Trade == [portfolio : 1..MaxPortfolios, fill : Fills, voided : BOOLEAN]

LedgerTypeOK ==
  /\ links \in [Traded -> Traded \cup {None}]
  /\ \A p \in DOMAIN portfolios :
       /\ portfolios[p] \in Portfolio
       /\ \A r \in DOMAIN portfolios : portfolios[r] = portfolios[p] => r = p
  /\ \A t \in DOMAIN trades : trades[t] \in Trade /\ trades[t].portfolio \in DOMAIN portfolios

LedgerInit ==
  /\ links = [i \in Traded |-> None]
  /\ portfolios = <<>> /\ trades = <<>>

-----------------------------------------------------------------------------
(* A name is unique per owner, not globally. *)
CreatePortfolio(owner, name) ==
  /\ Len(portfolios) < MaxPortfolios
  /\ \A p \in DOMAIN portfolios : portfolios[p] # [owner |-> owner, name |-> name]
  /\ portfolios' = Append(portfolios, [owner |-> owner, name |-> name])
  /\ UNCHANGED <<links, trades>>

Owns(owner, p) == portfolios[p].owner = owner

(* App.add_trade after its hold (see DailySweep): check_quantity, check_cost and *)
(* record_trade, under the Instrument named, a superseded one too. *)
AddTrade(owner, p, fill) ==
  /\ Len(trades) < MaxTrades
  /\ Owns(owner, p)
  /\ fill.quantity # 0
  /\ fill.cost # NoCost => fill.cost >= 0
  /\ trades' = Append(trades, [portfolio |-> p, fill |-> fill, voided |-> FALSE])
  /\ UNCHANGED <<links, portfolios>>

(* App.void_trade: once, by the owner. *)
VoidTrade(owner, t) ==
  /\ Cardinality({u \in DOMAIN trades : trades[u].voided}) < MaxVoids
  /\ Owns(owner, trades[t].portfolio)
  /\ ~ trades[t].voided
  /\ trades' = [trades EXCEPT ![t].voided = TRUE]
  /\ UNCHANGED <<links, portfolios>>

(* A Supersession found out elsewhere. *)
Fuse(i, j) ==
  /\ i < j /\ links[i] = None /\ links[j] = None
  /\ links' = [links EXCEPT ![j] = i]
  /\ UNCHANGED <<portfolios, trades>>

LedgerNext ==
  \/ \E owner \in Owners, name \in Names : CreatePortfolio(owner, name)
  \/ \E owner \in Owners, p \in DOMAIN portfolios, fill \in Fills : AddTrade(owner, p, fill)
  \/ \E owner \in Owners, t \in DOMAIN trades : VoidTrade(owner, t)
  \/ \E i, j \in Traded : Fuse(i, j)

LedgerSpec == LedgerInit /\ [][LedgerNext]_ledgerVars

-----------------------------------------------------------------------------
(* Reads. *)

(* trades_of: in trade order, voided ones included, folded to survivors. *)
TradesOf(p) == {t \in DOMAIN trades : trades[t].portfolio = p}

Earlier(t, u) == \/ trades[t].fill.at < trades[u].fill.at
                 \/ trades[t].fill.at = trades[u].fill.at /\ t < u

SurvivorOf(t) == Fold(links)[trades[t].fill.instrument]

EndOfDay(day) == (day + 1) * PerDay

Zero == <<0, 1>>
Plus(a, b) == <<a[1] * b[2] + b[1] * a[2], a[2] * b[2]>>
Times(a, b) == <<a[1] * b[1], a[2] * b[2]>>
Over(a, b) == <<a[1] * b[2], a[2] * b[1]>>
AtMost(a, b) == a[1] * b[2] <= b[1] * a[2]

Flat == [quantity |-> 0, costed |-> Zero, average |-> NoCost]

(* Mutant of Gone: a position that comes to exactly zero keeps its cost. *)
GoneShort(quantity) == quantity < 0

(* Whether a position is closed or short, and its cost forgotten. *)
Gone(quantity) == quantity <= 0

(* derive_positions, of one Trade of one Instrument. *)
Moved(pos, t) ==
  LET after == pos.quantity + t.quantity
      held == IF t.quantity <= after THEN t.quantity ELSE after   \* not the part that covers a short
      costed == Plus(pos.costed, <<held, 1>>)
      before == IF pos.average = NoCost THEN Zero ELSE Times(pos.average, pos.costed)
  IN CASE Gone(after) -> [Flat EXCEPT !.quantity = after]
       [] ~ Gone(after) /\ t.quantity < 0 ->
            [pos EXCEPT !.quantity = after, !.costed = Times(@, <<after, pos.quantity>>)]
       [] ~ Gone(after) /\ t.quantity > 0 /\ t.cost = NoCost -> [pos EXCEPT !.quantity = after]
       [] OTHER -> [quantity |-> after, costed |-> costed,
                    average |-> Over(Plus(before, <<t.cost * held, t.quantity>>), costed)]

Counted(p, day) == {t \in TradesOf(p) : ~ trades[t].voided /\ trades[t].fill.at < EndOfDay(day)}

Of(counted, i) == {t \in counted : SurvivorOf(t) = i}

LastTraded(moves) == CHOOSE t \in moves : \A u \in moves : ~ Earlier(t, u)

(* derive_positions, of the Trades of one Instrument in trade order. *)
Position(moves) ==
  MapThenFoldSet(LAMBDA t, pos : Moved(pos, t), Flat, LAMBDA t : trades[t].fill, LastTraded, moves)

(* derive_positions, of the Trades of a Portfolio. *)
DerivePositions(p, day) ==
  LET counted == Counted(p, day)
  IN [i \in {SurvivorOf(t) : t \in counted} |-> Position(Of(counted, i))]

(* portfolios_of, and _held: an owner's own. *)
Held(owner) == {p \in DOMAIN portfolios : Owns(owner, p)}

(* _open: a closed position is neither listed nor valued. *)
OpenOf(positions) == {i \in DOMAIN positions : positions[i].quantity # 0}

(* _position_rows: the value is missing when the Instrument has no close that day. *)
PositionRows(owner, day) ==
  UNION {LET positions == DerivePositions(p, day)
         IN {[portfolio |-> p, instrument |-> i, quantity |-> positions[i].quantity,
              value |-> IF Close[i][day] = NoClose THEN NoClose
                        ELSE positions[i].quantity * Close[i][day]] : i \in OpenOf(positions)}
         : p \in Held(owner)}

(* _value_rows: none before the first Trade that counts. *)
ValueRows(owner, days) ==
  UNION {LET positions == DerivePositions(w[2], w[1])
             open == OpenOf(positions)
             unpriced == {i \in open : Close[i][w[1]] = NoClose}
         IN IF positions = <<>> THEN {}
            ELSE {[day |-> w[1], portfolio |-> w[2], positions |-> Cardinality(open),
                   unpriced |-> Cardinality(unpriced),
                   value |-> IF unpriced # {} THEN NoClose
                             ELSE SumFunction([i \in open |-> positions[i].quantity * Close[i][w[1]]])]}
         : w \in days \X Held(owner)}

-----------------------------------------------------------------------------
(* Properties. *)

(* What Trades bought less what they sold, of all and of those up to one. *)
Bought(moves) == SumFunctionOnSet([t \in DOMAIN trades |-> trades[t].fill.quantity], moves)
UpTo(t, moves) == {u \in moves : ~ Earlier(t, u)}

(* The costed acquisitions since a position was last closed or short. *)
Behind(moves) ==
  {t \in moves :
     /\ trades[t].fill.quantity > 0 /\ trades[t].fill.cost # NoCost
     /\ \A u \in moves : ~ Earlier(u, t) => Bought(UpTo(u, moves)) > 0}

UnitCost(t) == <<trades[t].fill.cost, trades[t].fill.quantity>>

(* portfolio.py:203: a position is the sum of what counts toward it; it has an average *)
(* cost if, and only if, a costed acquisition is still behind it, and the average lies *)
(* between their unit costs, however many sales, covers and voids came between. *)
PositionAddsUp(moves, pos) ==
  LET behind == Behind(moves)
  IN /\ pos.quantity = Bought(moves)
     /\ (pos.average = NoCost) <=> (behind = {})
     /\ behind # {} =>
          /\ \E t \in behind : AtMost(UnitCost(t), pos.average)
          /\ \E t \in behind : AtMost(pos.average, UnitCost(t))
          /\ AtMost(pos.costed, <<pos.quantity, 1>>)

(* datasets.py:513: a day's value is the sum of the position rows of the same portfolio *)
(* and day, and is missing when one of them is. *)
ValuesAddUp ==
  \A owner \in Owners : \A w \in ValueRows(owner, ReadDays) :
    LET rows == {r \in PositionRows(owner, w.day) : r.portfolio = w.portfolio}
        unpriced == {r \in rows : r.value = NoClose}
    IN /\ Cardinality(rows) = w.positions /\ Cardinality(unpriced) = w.unpriced
       /\ IF unpriced # {} THEN w.value = NoClose
          ELSE w.value = SumFunction([r \in rows |-> r.value])

PositionsAddUp ==
  /\ \A p \in DOMAIN portfolios, day \in ReadDays :
       LET positions == DerivePositions(p, day)
           counted == Counted(p, day)
       IN \A i \in DOMAIN positions : PositionAddsUp(Of(counted, i), positions[i])
  /\ ValuesAddUp
=============================================================================
