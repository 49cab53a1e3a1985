------------------------------- MODULE OpLedger -------------------------------
(***************************************************************************)
(* What POST /sync/push promises its clients (docs/offline-strategy.md,    *)
(* "without double effects"), with no word of requests, transactions or    *)
(* faults: an op is recorded once, for good, and has at most one effect,   *)
(* which it has only after it was recorded.                                *)
(***************************************************************************)
EXTENDS Naturals

CONSTANT ClientOps
VARIABLES
  verdicts,   \* what is recorded of each op
  effects     \* how many reports each op has created

ledgerVars == <<verdicts, effects>>

LedgerInit ==
  /\ verdicts = [op \in ClientOps |-> "none"]
  /\ effects = [op \in ClientOps |-> 0]

\* One commit records the verdicts of any ops that have none.
Record(S) ==
  /\ \A op \in S : verdicts[op] = "none"
  /\ \E new \in [S -> {"ACCEPTED", "REJECTED"}] :
       verdicts' = [op \in ClientOps |-> IF op \in S THEN new[op] ELSE verdicts[op]]
  /\ UNCHANGED effects

\* One commit creates the reports of any recorded ops that have none.
TakeEffect(S) ==
  /\ \A op \in S : verdicts[op] # "none" /\ effects[op] = 0
  /\ effects' = [op \in ClientOps |-> IF op \in S THEN 1 ELSE effects[op]]
  /\ UNCHANGED verdicts

LedgerNext == \E S \in SUBSET ClientOps : Record(S) \/ TakeEffect(S)

LedgerSpec == LedgerInit /\ [][LedgerNext]_ledgerVars
===============================================================================
