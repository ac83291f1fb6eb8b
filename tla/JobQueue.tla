------------------------------ MODULE JobQueue ------------------------------
(***************************************************************************)
(* The durable job table ben.document_processing_jobs and the processes    *)
(* that work it: enqueue, the four claim functions, the three reapers,     *)
(* requeue and complete (migrations 024, 027, 030; job_queue.py) and the   *)
(* drains that call them (drain.py, initial_read.py).                      *)
(*                                                                         *)
(* Each SQL function is one action: it is one UPDATE whose rows are locked *)
(* with FOR UPDATE SKIP LOCKED, so calls serialise and a call may see any  *)
(* subset of the rows it could have taken.  Wall-clock time is abstracted  *)
(* to two facts per row: available_at <= now() ("due") and                 *)
(* lease_expires_at < now() (lease = "expired"); either may become true at *)
(* any moment after it was set in the future.                              *)
(*                                                                         *)
(* A claim is what a drain holds in memory after a claim function returned *)
(* a row: the job id and the attempts value of that moment.  The table     *)
(* knows nothing of it: requeue and complete name the job only.            *)
(***************************************************************************)
EXTENDS Integers, FiniteSets

CONSTANTS
    JobIds,       \* primary keys of the job rows a behaviour may create
    Files,        \* workspace_files ids
    Protected,    \* PROTECTED_INGEST_FILE_IDS, the historical quarantine
    Workers,      \* concurrent drain invocations
    MaxAttempts,  \* DEFAULT_MAX_ATTEMPTS = INITIAL_READ_MAX_ATTEMPTS
    ClaimLimit,   \* largest batch a drain claims
    LeaseOutlivesRun  \* TRUE: no execution is still going when its lease ends

ASSUME FilesAssumption       == Files # {}
ASSUME ProtectedAssumption   == Protected \subseteq Files
ASSUME MaxAttemptsAssumption == MaxAttempts \in Nat \ {0}
ASSUME ClaimLimitAssumption  == ClaimLimit \in Nat \ {0}
ASSUME LeaseAssumption       == LeaseOutlivesRun \in BOOLEAN

VARIABLES
    files,   \* file id -> "absent", "present" or "deleted"
    jobs,    \* job id -> row
    claims   \* rows in the hands of running drains

vars == <<files, jobs, claims>>

Extraction == "file_extraction"
InitialRead == "file_initial_read"
JobTypes == {Extraction, InitialRead}

ActiveStatuses   == {"queued", "running"}
TerminalStatuses == {"succeeded", "failed"}
\* "none": the id is not in the table yet; "deleted": the row was cascaded away.
Statuses == {"none", "deleted"} \cup ActiveStatuses \cup TerminalStatuses

Row == [file : Files, type : JobTypes, status : Statuses, attempts : Nat,
        eligible : BOOLEAN, due : BOOLEAN, lease : {"none", "live", "expired"}]

Claim == [job : JobIds, attempt : Nat, worker : Workers, drain : JobTypes]

(***************************************************************************)
(* Rows.                                                                   *)
(***************************************************************************)
Active(j) == jobs[j].status \in ActiveStatuses
Exists(j) == jobs[j].status \notin {"none", "deleted"}

NewRow(f, t) ==
    [file |-> f, type |-> t, status |-> "queued", attempts |-> 0,
     eligible |-> f \notin Protected, due |-> TRUE, lease |-> "none"]

\* Mutant of Completed: the WHERE status = 'running' guard is dropped.
CompletedUnguarded(row, outcome) == [row EXCEPT !.status = outcome, !.lease = "none"]

\* The update of requeue_document_processing_job; other statuses are left alone.
Requeued(row, due) ==
    IF row.status = "running"
    THEN [row EXCEPT !.status = "queued", !.due = due, !.lease = "none"]
    ELSE row

\* The update of complete_document_processing_job.
Completed(row, outcome) ==
    IF row.status = "running"
    THEN [row EXCEPT !.status = outcome, !.lease = "none"]
    ELSE row

\* The update of the reapers: fail at the attempt limit, else requeue with backoff.
Reaped(row) ==
    IF row.attempts >= MaxAttempts
    THEN [row EXCEPT !.status = "failed", !.lease = "none"]
    ELSE [row EXCEPT !.status = "queued", !.due = FALSE, !.lease = "none"]

\* The update of the claim functions.
Leased(row) ==
    [row EXCEPT !.status = "running", !.attempts = @ + 1, !.lease = "live"]

\* Jobs are inserted at most once per (file, type) while one is active.
ActiveFor(f, t) == {j \in JobIds : Active(j) /\ jobs[j].file = f /\ jobs[j].type = t}

(***************************************************************************)
(* Initial states: an empty table, or the backlog that was queued before   *)
(* migration 027 added runner_eligible with default false.                 *)
(***************************************************************************)
Backlog == {[NewRow(f, Extraction) EXCEPT !.eligible = FALSE] : f \in Files}
Blank   == [NewRow(CHOOSE f \in Files : TRUE, Extraction) EXCEPT !.status = "none"]

Init ==
    /\ jobs \in [JobIds -> Backlog \cup {Blank}]
    /\ \A j, k \in JobIds :
          jobs[j].status = "queued" /\ jobs[k].status = "queued"
            /\ jobs[j].file = jobs[k].file => j = k
    /\ files = [f \in Files |->
                  IF f \in Protected \/ \E j \in JobIds : Active(j) /\ jobs[j].file = f
                  THEN "present" ELSE "absent"]
    /\ claims = {}

Present(f) == files[f] = "present"

(***************************************************************************)
(* Producers.                                                              *)
(***************************************************************************)
\* upload_file: the file row and its extraction job commit in one transaction.
Upload(f, j) ==
    /\ files[f] = "absent"
    /\ jobs[j].status = "none"
    /\ files' = [files EXCEPT ![f] = "present"]
    /\ jobs' = [jobs EXCEPT ![j] = NewRow(f, Extraction)]
    /\ UNCHANGED claims

\* Mutant of Enqueue: ON CONFLICT is not there to stop a second active job.
EnqueueDuplicate(f, t, j) ==
    /\ Present(f)
    /\ jobs[j].status = "none"
    /\ jobs' = [jobs EXCEPT ![j] = NewRow(f, t)]
    /\ UNCHANGED <<files, claims>>

\* enqueue_document_processing_job from retry_file and notify_file_processed:
\* ON CONFLICT DO NOTHING against the partial unique index.
Enqueue(f, t, j) ==
    /\ Present(f)
    /\ ActiveFor(f, t) = {}
    /\ jobs[j].status = "none"
    /\ jobs' = [jobs EXCEPT ![j] = NewRow(f, t)]
    /\ UNCHANGED <<files, claims>>

\* Mutant of DeleteFile: the foreign key does not cascade.
DeleteNoCascade(f) ==
    /\ Present(f)
    /\ files' = [files EXCEPT ![f] = "deleted"]
    /\ UNCHANGED <<jobs, claims>>

\* delete_file: the foreign key cascades to the file's jobs, whatever their
\* status; a drain that holds one of them is not told.
DeleteFile(f) ==
    /\ Present(f)
    /\ files' = [files EXCEPT ![f] = "deleted"]
    /\ jobs' = [j \in JobIds |->
                  IF Exists(j) /\ jobs[j].file = f
                  THEN [jobs[j] EXCEPT !.status = "deleted", !.lease = "none"]
                  ELSE jobs[j]]
    /\ UNCHANGED claims

(***************************************************************************)
(* Reapers (the first step of a drain).                                    *)
(***************************************************************************)
\* Mutant of Expired: the reaper leaves exhausted jobs to their drain.
ExpiredNotExhausted == {j \in JobIds : /\ jobs[j].status = "running"
                                       /\ jobs[j].lease = "expired"
                                       /\ jobs[j].attempts < MaxAttempts
                                       /\ jobs[j].file \notin Protected}

Expired == {j \in JobIds : /\ jobs[j].status = "running"
                           /\ jobs[j].lease = "expired"
                           /\ jobs[j].file \notin Protected}

Reap(S) ==
    /\ S # {}
    /\ jobs' = [j \in JobIds |-> IF j \in S THEN Reaped(jobs[j]) ELSE jobs[j]]
    /\ UNCHANGED <<files, claims>>

\* reap_expired_document_processing_jobs and its _for_eligible twin: any job
\* type, but only rows marked runner_eligible.
ReapEligible == \E S \in SUBSET {j \in Expired : jobs[j].eligible} : Reap(S)

\* reap_expired_document_processing_jobs_for_file: any job type, one row.
ReapForFile(f) == \E j \in {k \in Expired : jobs[k].file = f} : Reap({j})

\* reap_expired_file_initial_read_jobs.
ReapInitialRead ==
    \E S \in SUBSET {j \in Expired : jobs[j].type = InitialRead} : Reap(S)

(***************************************************************************)
(* Claims.                                                                 *)
(***************************************************************************)
Claimable(t) == {j \in JobIds : /\ jobs[j].status = "queued"
                                /\ jobs[j].due
                                /\ jobs[j].file \notin Protected
                                /\ jobs[j].type = t}

\* A drain claims once, runs the batch to its end, and is done.
Idle(w) == \A c \in claims : c.worker # w

TakeLease(w, S, t) ==
    /\ Idle(w)
    /\ S # {}
    /\ jobs' = [j \in JobIds |-> IF j \in S THEN Leased(jobs[j]) ELSE jobs[j]]
    /\ claims' = claims \cup
          {[job |-> j, attempt |-> jobs[j].attempts + 1, worker |-> w, drain |-> t] : j \in S}
    /\ UNCHANGED files

\* claim_document_processing_jobs and _for_eligible, up to p_limit rows.
ClaimEligible(w) ==
    \E S \in SUBSET {j \in Claimable(Extraction) : jobs[j].eligible} :
        Cardinality(S) <= ClaimLimit /\ TakeLease(w, S, Extraction)

\* claim_document_processing_job_for_file (upload wake, retry, scoped drain).
ClaimForFile(w, f) ==
    \E j \in {k \in Claimable(Extraction) : jobs[k].file = f} : TakeLease(w, {j}, Extraction)

\* claim_file_initial_read_jobs.
ClaimInitialRead(w) ==
    \E S \in SUBSET Claimable(InitialRead) :
        Cardinality(S) <= ClaimLimit /\ TakeLease(w, S, InitialRead)

\* claim_file_initial_read_job_for_file.
ClaimInitialReadForFile(w, f) ==
    \E j \in {k \in Claimable(InitialRead) : jobs[k].file = f} : TakeLease(w, {j}, InitialRead)

(***************************************************************************)
(* The end of an execution.  The row is found by id; the decision to retry *)
(* uses the attempts value the drain was given when it claimed.            *)
(***************************************************************************)
Settle(c, row) ==
    /\ jobs' = [jobs EXCEPT ![c.job] = row]
    /\ claims' = claims \ {c}
    /\ UNCHANGED files

\* A result that no retry can change: complete_job(succeeded | failed).
Conclude(c) ==
    /\ c.drain = Extraction
    /\ \E outcome \in TerminalStatuses : Settle(c, Completed(jobs[c.job], outcome))

\* Mutant of RetryOrFail: the attempt limit is left to the reaper.
RetryAlways(c) ==
    /\ c.drain = Extraction
    /\ Settle(c, Requeued(jobs[c.job], FALSE))

\* A timeout, an exception or a transient pipeline error: _retry_or_fail.
RetryOrFail(c) ==
    /\ c.drain = Extraction
    /\ Settle(c, IF c.attempt >= MaxAttempts
                 THEN Completed(jobs[c.job], "failed")
                 ELSE Requeued(jobs[c.job], FALSE))

\* _complete_initial_read_job: ok, already present or skipped.
ConcludeInitialRead(c) ==
    /\ c.drain = InitialRead
    /\ Settle(c, Completed(jobs[c.job], "succeeded"))

\* _complete_initial_read_job: failed; the requeue has no delay.
RetryInitialRead(c) ==
    /\ c.drain = InitialRead
    /\ Settle(c, IF c.attempt >= MaxAttempts
                 THEN Completed(jobs[c.job], "failed")
                 ELSE Requeued(jobs[c.job], TRUE))

\* The process dies, or an update raises and the rest of the batch is dropped.
Abort(w) ==
    /\ ~Idle(w)
    /\ claims' = {c \in claims : c.worker # w}
    /\ UNCHANGED <<files, jobs>>

(***************************************************************************)
(* Time.  With the deployed settings an execution may outlive its lease (a *)
(* batch of 5 jobs of up to 120 s each under one 300 s lease, and no limit *)
(* at all on an initial read); LeaseOutlivesRun restricts the model to     *)
(* deployments where only the lease of a dead drain runs out.              *)
(***************************************************************************)
LeaseExpires(j) ==
    /\ jobs[j].lease = "live"
    /\ LeaseOutlivesRun => \A c \in claims : c.job # j
    /\ jobs' = [jobs EXCEPT ![j].lease = "expired"]
    /\ UNCHANGED <<files, claims>>

BecomesDue(j) ==
    /\ jobs[j].status = "queued" /\ ~jobs[j].due
    /\ jobs' = [jobs EXCEPT ![j].due = TRUE]
    /\ UNCHANGED <<files, claims>>

Produce ==
    \/ \E f \in Files, j \in JobIds : Upload(f, j)
    \/ \E f \in Files, t \in JobTypes, j \in JobIds : Enqueue(f, t, j)
    \/ \E f \in Files : DeleteFile(f)

ReapAny == ReapEligible \/ ReapInitialRead \/ \E f \in Files : ReapForFile(f)

ClaimSome(w) ==
    \/ ClaimEligible(w)
    \/ ClaimInitialRead(w)
    \/ \E f \in Files : ClaimForFile(w, f) \/ ClaimInitialReadForFile(w, f)

Finish(c) ==
    Conclude(c) \/ RetryOrFail(c) \/ ConcludeInitialRead(c) \/ RetryInitialRead(c)

Next ==
    \/ Produce
    \/ ReapAny
    \/ \E w \in Workers : ClaimSome(w) \/ Abort(w)
    \/ \E c \in claims : Finish(c)
    \/ \E j \in JobIds : LeaseExpires(j) \/ BecomesDue(j)

Spec == Init /\ [][Next]_vars

\* The cron triggers keep coming, a drain that runs ends (per-job timeout) or
\* dies, and time passes.  Nothing is assumed of the scoped drains.
Fairness ==
    /\ WF_vars(ReapEligible)
    /\ WF_vars(ReapInitialRead)
    /\ WF_vars(\E w \in Workers : ClaimEligible(w))
    /\ WF_vars(\E w \in Workers : ClaimInitialRead(w))
    /\ \A w \in Workers : WF_vars(\E c \in claims : c.worker = w /\ Finish(c))
    /\ \A j \in JobIds : WF_vars(LeaseExpires(j)) /\ WF_vars(BecomesDue(j))

FairSpec == Spec /\ Fairness

(***************************************************************************)
(* Properties.                                                             *)
(***************************************************************************)
\* The type invariant.
TypeOK ==
    /\ files \in [Files -> {"absent", "present", "deleted"}]
    /\ jobs \in [JobIds -> Row]
    /\ claims \in SUBSET Claim

\* The partial unique index uq_doc_processing_jobs_active is never violated by
\* an insert, a requeue or a reap: a file has one active job of a type.
UniqueActive ==
    \A j, k \in JobIds :
        /\ Active(j) /\ Active(k)
        /\ jobs[j].file = jobs[k].file /\ jobs[j].type = jobs[k].type
        => j = k

\* The two CHECK constraints on the lease columns hold after every update,
\* and a terminal row keeps no lease: the reaper can never revive it.
LeaseIffRunning == \A j \in JobIds : jobs[j].status = "running" <=> jobs[j].lease # "none"

\* An attempt number of a job names one execution: attempts is bumped by
\* every claim, so two drains never hold the same (job, attempt).
AttemptNamesClaim ==
    \A c, d \in claims : c.job = d.job /\ c.attempt = d.attempt => c = d

\* Attempts a drain may still turn into a requeue of job j.
LowClaims(j) == {a \in 1 .. (MaxAttempts - 1) : \E c \in claims : c.job = j /\ c.attempt = a}

\* requeue trusts the attempts value of claim time, so drains that outlived
\* their lease can push a job past max_attempts; each of them can do so once,
\* which bounds the executions of a job.
AttemptsBounded == \A j \in JobIds : jobs[j].attempts <= 2 * MaxAttempts - 1

\* A row exists only while its file does (the composite foreign key).
FilesHoldJobs == \A j \in JobIds : Exists(j) => Present(jobs[j].file)

\* A drain's attempt number was handed out by the table.
ClaimsAccounted ==
    \A c \in claims : /\ 1 <= c.attempt /\ c.attempt <= jobs[c.job].attempts
                      /\ jobs[c.job].status # "none"

\* Once a job has used up its attempts, what it may still gain is paid for by
\* the drains that hold a low attempt number: one requeue each.
RequeueBudget ==
    \A j \in JobIds : jobs[j].attempts >= MaxAttempts =>
        jobs[j].attempts + Cardinality(LowClaims(j))
            + (IF jobs[j].status = "queued" THEN 1 ELSE 0) <= 2 * MaxAttempts - 1

\* The wrong_drain branch of _run_claimed_jobs is dead code: an extraction
\* drain never holds an initial-read job, nor the reverse.
DrainMatchesType == \A c \in claims : jobs[c.job].type = c.drain

\* The inductive invariant behind the invariants above.
QueueInv ==
    /\ TypeOK
    /\ LeaseIffRunning
    /\ FilesHoldJobs
    /\ UniqueActive
    /\ ClaimsAccounted
    /\ AttemptNamesClaim
    /\ DrainMatchesType
    /\ RequeueBudget

\* When leases outlive executions, SKIP LOCKED and the lease together give
\* mutual exclusion: one execution of a job at a time, never more than
\* max_attempts of them, and a drain that settles a job settles its own lease.
ExclusiveExecution ==
    LeaseOutlivesRun =>
        /\ \A c, d \in claims : c.job = d.job => c = d
        /\ \A c \in claims : jobs[c.job].status # "deleted"
              => jobs[c.job].status = "running" /\ jobs[c.job].attempts = c.attempt
        /\ \A j \in JobIds : jobs[j].attempts <= MaxAttempts

\* The strengthening that makes it inductive: a lease that ran out has no
\* execution left, and a queued job has an attempt left.
ExclusiveInv ==
    /\ ExclusiveExecution
    /\ LeaseOutlivesRun =>
          \A j \in JobIds :
              /\ jobs[j].lease = "expired" => \A c \in claims : c.job # j
              /\ jobs[j].status = "queued" => jobs[j].attempts < MaxAttempts

\* The lease excludes executions of one job; with the unique index it excludes
\* executions of a kind for one file too, also of jobs that a deletion of the
\* file cascaded away under their drains.
OnePerFile ==
    LeaseOutlivesRun =>
        \A c, d \in claims :
            c.drain = d.drain /\ jobs[c.job].file = jobs[d.job].file => c = d

\* A terminal job is final: no stale drain, reaper or claim changes its row;
\* only the deletion of its file removes it.
TerminalIsFinal ==
    [][\A j \in JobIds : jobs[j].status \in TerminalStatuses
          => jobs'[j] = jobs[j] \/ jobs'[j].status = "deleted"]_vars

\* The historical quarantine: no drain, scoped or not, ever touches a job of a
\* protected file, also when a user asks to retry that file.
QuarantineUntouched ==
    [][\A j \in JobIds : Exists(j) /\ jobs[j].file \in Protected
          => jobs'[j] = jobs[j] \/ jobs'[j].status = "deleted"]_vars

\* Every job the cron drains may run ends, whatever crashes, stale requeues
\* and lease expiries happen on the way.
EventuallySettled ==
    \A j \in JobIds :
        (Active(j) /\ jobs[j].file \notin Protected
            /\ (jobs[j].eligible \/ jobs[j].type = InitialRead)) ~> ~Active(j)
=============================================================================
