--------------------------- MODULE JobQueueLedger ---------------------------
(***************************************************************************)
(* The job table implements JobLedger: queued and running rows are open    *)
(* jobs, the attempts column counts their executions, and what a client    *)
(* may rely on is 2 * MaxAttempts - 1 of those, because a drain requeues   *)
(* by the attempts value it was given at claim time.                       *)
(***************************************************************************)
EXTENDS JobQueue

LedgerState(status) ==
    CASE status = "none"             -> "unknown"
      [] status \in ActiveStatuses   -> "open"
      [] status \in TerminalStatuses -> status
      [] status = "deleted"          -> "gone"

LedgerView ==
    [j \in JobIds |-> [state |-> LedgerState(jobs[j].status), tries |-> jobs[j].attempts]]

Ledger == INSTANCE JobLedger
    WITH Jobs <- JobIds, MaxTries <- 2 * MaxAttempts - 1, ledger <- LedgerView

\* Every behaviour of the table and its drains, as seen through the status
\* and attempts columns that the file API derives its states from, is a behaviour
\* of the ledger.
ImplementsLedger == Ledger!Spec
=============================================================================
