----------------------------- MODULE MCServices -----------------------------
(***************************************************************************)
(* TLC instances of the parts of the system that share no state with the   *)
(* run's rows nor with each other: the busy lock, the calls to the agents, *)
(* the stream hub, the symbol search, the schedule of a strategy, the      *)
(* books and the settings.  A behaviour of this module is a behaviour of   *)
(* one of them, chosen at the start.                                       *)
(***************************************************************************)
EXTENDS WorkflowLock, AgentsClient, StreamHub, SymbolSearch, StrategySchedule, Ledger,
        Settings

VARIABLE part

Parts == {"lock", "agents", "hub", "search", "schedule", "books", "settings"}

vars == <<part, lockVars, agentVars, hubVars, searchVars, scheduleVars, ledgerVars, settingsVars>>

\* Alpaca's assets: two prefix hits, a longer one that sorts before them by
\* the alphabet, a name hit and a miss, in two orders.
Asset(p, n, l, r) == [prefix |-> p, named |-> n, length |-> l, rank |-> r]
MCListings ==
  LET aapl == Asset(TRUE, FALSE, 4, 2)
      aap  == Asset(TRUE, TRUE, 3, 1)
      aa   == Asset(TRUE, FALSE, 2, 3)
      alco == Asset(FALSE, TRUE, 4, 4)
      msft == Asset(FALSE, FALSE, 4, 5)
  IN {<<alco, aapl, msft, aap, aa>>, <<msft>>}

\* The corners of the validation: a window of no length, one that ends a minute
\* before a step, the shortest step and ones that are too short or negative.
MCStrategies ==
  {s \in [named : {TRUE}, mode : {"require_approval", "other"},
          preOpen : {-1, 0, 10, 570, 571}, every : {-5, 0, 14, 15, 60, 1000},
          start : {-1, 0, 570, 600}, end : {-1, 0, 599, 600, 900, 1439}] :
     s.mode = "other" => s.preOpen = 10 /\ s.every = 60}

MCPrice == [s \in Symbols |-> 1]
MCOpening == [s \in Symbols |-> IF s = "held" THEN 2 ELSE 0]
MCRequests ==
  [side : {"buy"}, symbol : Symbols, qty : {2}]
    \cup [side : {"sell"}, symbol : {"held"}, qty : {2}]
MCBrokerAccounts ==
  {[cash |-> 1, equity |-> 3, value |-> 3], [cash |-> 4, equity |-> 0, value |-> 3]}

Init ==
  /\ part \in Parts
  /\ LockInit
  /\ AgentInit
  /\ HubInit
  /\ SearchInit
  /\ ScheduleInit
  /\ part = "schedule" \/ fields = CHOOSE s \in Strategies : TRUE
  /\ LedgerInit
  /\ SettingsInit

Next ==
  \/ /\ part = "lock"
     /\ LockNext
     /\ UNCHANGED <<part, agentVars, hubVars, searchVars, scheduleVars, ledgerVars,
                    settingsVars>>
  \/ /\ part = "agents"
     /\ AgentNext
     /\ UNCHANGED <<part, lockVars, hubVars, searchVars, scheduleVars, ledgerVars, settingsVars>>
  \/ /\ part = "hub"
     /\ HubNext
     /\ UNCHANGED <<part, lockVars, agentVars, searchVars, scheduleVars, ledgerVars, settingsVars>>
  \/ /\ part = "search"
     /\ SearchNext
     /\ UNCHANGED <<part, lockVars, agentVars, hubVars, scheduleVars, ledgerVars, settingsVars>>
  \/ /\ part = "schedule"
     /\ ScheduleNext
     /\ UNCHANGED <<part, lockVars, agentVars, hubVars, searchVars, ledgerVars, settingsVars>>
  \/ /\ part = "books"
     /\ LedgerNext
     /\ UNCHANGED <<part, lockVars, agentVars, hubVars, searchVars, scheduleVars, settingsVars>>
  \/ /\ part = "settings"
     /\ SettingsNext
     /\ UNCHANGED <<part, lockVars, agentVars, hubVars, searchVars, scheduleVars, ledgerVars>>

\* Runs end by their deadlines, the client's timeouts fire, a publisher and a call
\* of ApplyFill go on when they can, and the database breaks deadlocks.
Spec ==
  /\ Init
  /\ [][Next]_vars
  /\ LockFairness
  /\ AgentFairness
  /\ \A p \in Publishers : WF_hubVars(Publish(p))
  /\ \A f \in Fills : WF_ledgerVars(FillStep(f)) /\ WF_ledgerVars(DeadlockVictim(f))

\* The types of all seven.
TypeOK ==
  /\ part \in Parts
  /\ LockTypeOK
  /\ AgentTypeOK
  /\ HubTypeOK
  /\ SearchTypeOK
  /\ ScheduleTypeOK
  /\ LedgerTypeOK
  /\ SettingsTypeOK
=============================================================================
