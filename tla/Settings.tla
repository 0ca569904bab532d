------------------------------ MODULE Settings ------------------------------
(***************************************************************************)
(* The settings: the watchlist with its can_hold flags and a risk rule,    *)
(* edited by HTTP requests (httpserver/handlers_settings.go), seeded at    *)
(* every start (db/seed.go), and read, or not, by the runs: can_hold from  *)
(* the table (workflow.loadCanHoldMap), the rules from the configuration   *)
(* of the process (cmd/api/main.go).                                       *)
(*                                                                         *)
(* A row of the watchlist has an id, because an edit that saves a row that *)
(* is gone inserts it again.  An order is its notional.                    *)
(***************************************************************************)
EXTENDS Integers

CONSTANTS
  Watchable,      \* the symbols that may be on the watchlist
  EnvWatchlist,   \* those of the environment's WATCHLIST
  Limits,         \* the values max_order_notional may be given, and notionals
  EnvLimit,       \* its value in the environment
  Editors,        \* the requests PATCH /settings/watchlist/:symbol at once
  MaxRows         \* bound: rows of the watchlist ever inserted

ASSUME SettingsAssumption ==
  /\ EnvWatchlist \subseteq Watchable
  /\ Limits \subseteq Nat /\ EnvLimit \in Limits
  /\ MaxRows \in Nat \ {0}

VARIABLES
  watch,       \* per symbol its row, or NoRow
  lastId,      \* the last id given to a row
  ruleRow,     \* risk_rule_configs.value_float of max_order_notional
  engineRule,  \* the limit the process evaluates orders with
  editing,     \* the row each PATCH has read and the value it will save
  canHold,     \* the symbols the run takes for holdable, or NotLoaded
  answered,    \* history: what the last successful answer said of a symbol
  atLoad,      \* history: what it said when the run read the table
  passed       \* history: the last buy the gate let through, its notional and
               \* whether the stored rule allowed it, or NoBuy

settingsVars ==
  <<watch, lastId, ruleRow, engineRule, editing, canHold, answered, atLoad, passed>>

NoRow == [id |-> 0]
Idle == [id |-> 0]
NotLoaded == {"not loaded"}
NoBuy == [notional |-> 0]
Rows == [id : 1..MaxRows, hold : BOOLEAN]

SettingsTypeOK ==
  /\ watch \in [Watchable -> Rows \cup {NoRow}]
  /\ lastId \in 0..MaxRows
  /\ ruleRow \in Limits
  /\ engineRule \in Limits
  /\ editing \in [Editors -> [symbol : Watchable, id : 1..MaxRows, hold : BOOLEAN]
                               \cup {Idle}]
  /\ canHold = NotLoaded \/ canHold \subseteq Watchable
  /\ answered \in [Watchable -> {"nothing", "hold", "no_hold", "deleted"}]
  /\ atLoad \in [Watchable -> {"nothing", "hold", "no_hold", "deleted"}]
  /\ passed \in [symbol : Watchable, notional : Limits, stored : BOOLEAN] \cup {NoBuy}

----------------------------------------------------------------------------
(* The start of the process *)

\* Mutant of Seeded: the environment's symbols are reset to holdable.
SeededAnew(rows) ==
  [s \in Watchable |->
     IF s \in EnvWatchlist
     THEN [id |-> IF rows[s] = NoRow THEN MaxRows ELSE rows[s].id, hold |-> TRUE]
     ELSE rows[s]]

\* FirstOrCreate for each symbol of the environment: a row that is there is
\* left alone, one that is missing is created holdable.  (Ids are compared for
\* one symbol only and no edit survives the start, so one id serves them all.)
Seeded(rows) ==
  [s \in Watchable |->
     IF s \in EnvWatchlist /\ rows[s] = NoRow THEN [id |-> MaxRows, hold |-> TRUE]
     ELSE rows[s]]

\* Seed, then the engine is built from the configuration.
SettingsInit ==
  /\ watch = Seeded([s \in Watchable |-> NoRow])
  /\ lastId = 0
  /\ ruleRow = EnvLimit
  /\ engineRule = EnvLimit
  /\ editing = [c \in Editors |-> Idle]
  /\ canHold = NotLoaded
  /\ answered = [s \in Watchable |-> "nothing"]
  /\ atLoad = answered
  /\ passed = NoBuy

\* The process starts again: requests and the run are gone, the rule is written
\* back to the environment's value, the watchlist keeps what it holds.
RestartApi ==
  /\ watch' = Seeded(watch)
  /\ ruleRow' = EnvLimit
  /\ engineRule' = EnvLimit
  /\ editing' = [c \in Editors |-> Idle]
  /\ canHold' = NotLoaded
  /\ passed' = NoBuy
  /\ UNCHANGED <<lastId, answered, atLoad>>

Said(hold) == IF hold THEN "hold" ELSE "no_hold"

----------------------------------------------------------------------------
(* The requests *)

\* POST: a new row, whatever can_hold says a holdable one: the model's column
\* has default:true, and the library takes a false field for a missing one.
\* The answer shows the row as it was stored.  A symbol that is there: 409.
AddSymbol(s) ==
  /\ watch[s] = NoRow
  /\ lastId + 1 < MaxRows
  /\ lastId' = lastId + 1
  /\ watch' = [watch EXCEPT ![s] = [id |-> lastId + 1, hold |-> TRUE]]
  /\ answered' = [answered EXCEPT ![s] = "hold"]
  /\ UNCHANGED <<ruleRow, engineRule, editing, canHold, atLoad, passed>>

\* PATCH reads the row (404 without one).
BeginEdit(c, s, hold) ==
  /\ editing[c] = Idle
  /\ watch[s] # NoRow
  /\ editing' = [editing EXCEPT ![c] = [symbol |-> s, id |-> watch[s].id, hold |-> hold]]
  /\ UNCHANGED <<watch, lastId, ruleRow, engineRule, canHold, answered, atLoad, passed>>

\* PATCH saves the row it read: over that row; as a new one, which then is
\* holdable like every new one, if the row was deleted; not at all (500) if the
\* symbol has another row by now.
SaveEdit(c) ==
  LET e == editing[c] s == e.symbol IN
  /\ e # Idle
  /\ editing' = [editing EXCEPT ![c] = Idle]
  /\ IF watch[s] = NoRow \/ watch[s].id = e.id
     THEN LET hold == watch[s] = NoRow \/ e.hold IN
          /\ watch' = [watch EXCEPT ![s] = [id |-> e.id, hold |-> hold]]
          /\ answered' = [answered EXCEPT ![s] = Said(hold)]
     ELSE UNCHANGED <<watch, answered>>
  /\ UNCHANGED <<lastId, ruleRow, engineRule, canHold, atLoad, passed>>

\* DELETE (404 without a row).
DeleteSymbol(s) ==
  /\ watch[s] # NoRow
  /\ watch' = [watch EXCEPT ![s] = NoRow]
  /\ answered' = [answered EXCEPT ![s] = "deleted"]
  /\ UNCHANGED <<lastId, ruleRow, engineRule, editing, canHold, atLoad, passed>>

\* PATCH of the risk rule.  Its row is never deleted and every column but the
\* value stays, so reading and saving are one step.
PatchRiskRule(v) ==
  /\ ruleRow' = v
  /\ UNCHANGED <<watch, lastId, engineRule, editing, canHold, answered, atLoad, passed>>

----------------------------------------------------------------------------
(* The run *)

\* Mutant of LoadCanHold: what is not on the watchlist may be held.
LoadCanHoldLoosely ==
  /\ canHold = NotLoaded
  /\ canHold' = {s \in Watchable : watch[s] = NoRow \/ watch[s].hold}
  /\ atLoad' = answered
  /\ UNCHANGED <<watch, lastId, ruleRow, engineRule, editing, answered, passed>>

\* The can_hold map of the run's gate; a symbol without a row is not in it.
LoadCanHold ==
  /\ canHold = NotLoaded
  /\ canHold' = {s \in Watchable : watch[s] # NoRow /\ watch[s].hold}
  /\ atLoad' = answered
  /\ UNCHANGED <<watch, lastId, ruleRow, engineRule, editing, answered, passed>>

\* The gate lets a buy through: the symbol may be held and its notional is
\* within the engine's limit.
PassBuy(s, notional) ==
  /\ canHold # NotLoaded
  /\ s \in canHold
  /\ notional <= engineRule
  /\ passed' = [symbol |-> s, notional |-> notional, stored |-> notional <= ruleRow]
  /\ UNCHANGED <<watch, lastId, ruleRow, engineRule, editing, canHold, answered, atLoad>>

EndRun ==
  /\ canHold # NotLoaded
  /\ canHold' = NotLoaded
  /\ passed' = NoBuy
  /\ UNCHANGED <<watch, lastId, ruleRow, engineRule, editing, answered, atLoad>>

SettingsNext ==
  \/ RestartApi
  \/ \E s \in Watchable :
       \/ AddSymbol(s)
       \/ DeleteSymbol(s)
       \/ \E c \in Editors, hold \in BOOLEAN : BeginEdit(c, s, hold)
       \/ \E notional \in Limits : PassBuy(s, notional)
  \/ \E c \in Editors : SaveEdit(c)
  \/ \E v \in Limits : PatchRiskRule(v)
  \/ LoadCanHold
  \/ EndRun

SettingsSpec == SettingsInit /\ [][SettingsNext]_settingsVars

----------------------------------------------------------------------------
(* Properties *)

\* What the last successful answer said of a symbol is what the table holds,
\* however edits, additions, deletions and restarts interleave; only a symbol of
\* the environment that was deleted comes back with a restart.
AnswersAreKept ==
  \A s \in Watchable :
    /\ answered[s] = "hold" => watch[s] # NoRow /\ watch[s].hold
    /\ answered[s] = "no_hold" => watch[s] # NoRow /\ ~watch[s].hold
    /\ answered[s] = "deleted" /\ watch[s] # NoRow => s \in EnvWatchlist /\ watch[s].hold
    /\ answered[s] = "nothing" => (watch[s] # NoRow <=> s \in EnvWatchlist)

\* "Buy + can_hold=false (or not holdable) -> reject with not_holdable": a run
\* buys nothing whose can_hold was answered with false before it read the table,
\* and nothing that was not on the watchlist.
NotHoldableIsNotBought ==
  passed # NoBuy =>
    \/ atLoad[passed.symbol] = "hold"
    \/ atLoad[passed.symbol] \in {"nothing", "deleted"} /\ passed.symbol \in EnvWatchlist

----------------------------------------------------------------------------
(* What documents say of the program and the code does not keep *)

\* "Go evaluates each trade_proposal against risk_rule_configs": an order that
\* passes is within the limit stored when it was judged.
JudgedByStoredRules == passed # NoBuy => passed.stored
=============================================================================
