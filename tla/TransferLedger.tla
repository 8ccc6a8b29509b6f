--------------------------- MODULE TransferLedger ---------------------------
(***************************************************************************)
(* What the agent promises about the downloads of the ACS: each accepted   *)
(* request is carried out once, and its result is kept until it has been   *)
(* reported.  A request that is lost, or a report that is out, never comes *)
(* back.                                                                   *)
(***************************************************************************)
CONSTANT Downloads

VARIABLE stage      \* how far each download has got

Stages == {"none", "pending", "complete", "reported", "lost"}

LedgerTypeOK == stage \in [Downloads -> Stages]

LedgerInit == stage = [d \in Downloads |-> "none"]

Move(d, from, to) ==
    /\ stage[d] = from
    /\ stage' = [stage EXCEPT ![d] = to]

Accept(d)   == Move(d, "none", "pending")
Complete(d) == Move(d, "pending", "complete")
Report(d)   == Move(d, "complete", "reported")

\* A change of ACS, a factory reset, a firmware upgrade or a crash drops
\* unreported downloads.
Lose(S) ==
    /\ \A d \in S : stage[d] \in {"pending", "complete"}
    /\ stage' = [d \in Downloads |-> IF d \in S THEN "lost" ELSE stage[d]]

LedgerNext ==
    \/ \E d \in Downloads : Accept(d) \/ Complete(d) \/ Report(d)
    \/ \E S \in SUBSET Downloads : Lose(S)

LedgerSpec == LedgerInit /\ [][LedgerNext]_stage
=============================================================================
