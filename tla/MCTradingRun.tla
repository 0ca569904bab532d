---------------------------- MODULE MCTradingRun ----------------------------
(* TLC instances of TradingRun. *)
EXTENDS TradingRun, TLC

\* Two requests in Decide differ in nothing but their name.
DeciderSymmetry == Permutations(Deciders)

\* A VIEW without the locals of goroutines that have returned: no action reads
\* them before it assigns them again.
LiveState ==
  <<tables, alpaca, pc, history, crashes, cancelPc,
    [s \in Submitters |->
       IF pc[s] \in SubmitPcs \cup {"gate", "await", "next"} THEN cur[s] ELSE 0],
    [s \in Submitters |->
       pc[s] \in {"count_proposals", "write_status"} /\ seen[s]],
    IF cancelPc \in {"proposals", "approvals"} THEN cancelIds ELSE {},
    IF pc[Runner] = "idle" THEN <<>> ELSE runnerVars>>
=============================================================================
