------------------------------ MODULE JobLedger ------------------------------
(***************************************************************************)
(* What the durable job table promises the services that put work in it,   *)
(* whatever drains crash, overlap or outlive their leases: a job that was  *)
(* accepted is tried at most MaxTries times, it is closed at most once and *)
(* only after it was tried, and a closed job is never tried again.  Leases,*)
(* delays, batches and the drains themselves are not visible here.         *)
(***************************************************************************)
EXTENDS Integers

CONSTANTS
    Jobs,      \* the jobs that may be accepted
    MaxTries   \* bound on the executions of one job

VARIABLE ledger   \* job -> its state and the number of its executions

States == {"unknown", "open", "succeeded", "failed", "gone"}
Closed == {"succeeded", "failed"}

Entry == [state : States, tries : Nat]

\* Some jobs may have been accepted before the behaviour starts.
Init ==
    /\ ledger \in [Jobs -> [state : {"unknown", "open"}, tries : {0}]]

\* New work is accepted, untried.
Accept(j) ==
    /\ ledger[j].state = "unknown"
    /\ ledger' = [ledger EXCEPT ![j] = [state |-> "open", tries |-> 0]]

\* An execution of each job in S starts.
Try(S) ==
    /\ \A j \in S : ledger[j].state = "open" /\ ledger[j].tries < MaxTries
    /\ ledger' = [j \in Jobs |->
                    IF j \in S THEN [ledger[j] EXCEPT !.tries = @ + 1] ELSE ledger[j]]

\* The jobs in S, all of them tried, get their outcome.
Close(S, outcome) ==
    /\ \A j \in S : ledger[j].state = "open" /\ ledger[j].tries >= 1
    /\ ledger' = [j \in Jobs |->
                    IF j \in S THEN [ledger[j] EXCEPT !.state = outcome] ELSE ledger[j]]

\* The owner of the jobs in S withdraws them, finished or not.
Withdraw(S) ==
    /\ \A j \in S : ledger[j].state # "unknown"
    /\ ledger' = [j \in Jobs |->
                    IF j \in S THEN [ledger[j] EXCEPT !.state = "gone"] ELSE ledger[j]]

Next ==
    \/ \E j \in Jobs : Accept(j)
    \/ \E S \in SUBSET Jobs :
          \/ Try(S)
          \/ \E outcome \in Closed : Close(S, outcome)
          \/ Withdraw(S)

Spec == Init /\ [][Next]_ledger
=============================================================================
