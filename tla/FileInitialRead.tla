-------------------------- MODULE FileInitialRead --------------------------
(***************************************************************************)
(* The first grounded read of an uploaded document (initial_read.py): one  *)
(* assistant message per file, generated by a model call, written to the   *)
(* SQLite thread store and then to Postgres, under a durable job.          *)
(*                                                                         *)
(* The module extends JobQueue and decides how initial-read executions     *)
(* end; extraction executions keep JobQueue's abstract form and only turn  *)
(* the file ready or not.  Two numbers are counted, both capped by         *)
(* MessageCap: the overview messages of a file in each store.              *)
(***************************************************************************)
EXTENDS JobQueue

CONSTANTS
    ChatFiles,    \* files uploaded from a chat, and not images
    MessageCap,   \* bound on the overview messages counted
    ReadsMayFail  \* TRUE: reading the SQLite thread may raise

ASSUME ChatFilesAssumption  == ChatFiles \subseteq Files
ASSUME MessageCapAssumption == MessageCap \in Nat /\ MessageCap >= 2
ASSUME ReadsAssumption      == ReadsMayFail \in BOOLEAN

VARIABLES
    ready,     \* files whose workspace_files.status is 'ready'
    read,      \* file -> initial_read_status
    sqlite,    \* file -> overview messages in the SQLite thread
    mirror,    \* file -> overview messages in the Postgres thread
    reading,   \* claim -> how far its execution is
    failures   \* files whose job was failed and that are yet to be marked

readVars == <<ready, read, sqlite, mirror, reading, failures>>
allVars  == <<vars, readVars>>

ReadStatuses == {"none", "pending", "complete", "failed", "skipped"}

\* Inside run_initial_read: the row was claimed; the model call is under way;
\* the message is in SQLite; it is in Postgres as well.
Phases == {"waiting", "claimed", "generating", "written", "mirrored"}

\* What run_initial_read returns: ok, already_present and skipped settle the
\* job, failed and an exception do not.
Returned == {"settled", "failed"}

File(c) == jobs[c.job].file

ReadInit ==
    /\ Init
    /\ ready = {}
    /\ read = [f \in Files |-> "none"]
    /\ sqlite = [f \in Files |-> 0]
    /\ mirror = [f \in Files |-> 0]
    /\ reading = << >>
    /\ failures = {}

(***************************************************************************)
(* The surroundings.                                                       *)
(***************************************************************************)
Surroundings ==
    /\ \/ \E f \in Files, j \in JobIds : Upload(f, j)
       \/ \E f \in Files, j \in JobIds : Enqueue(f, Extraction, j)
       \* notify_file_processed(ready=True), some time after the file was ready
       \/ \E f \in ready, j \in JobIds : Enqueue(f, InitialRead, j)
       \/ ReapAny
       \/ \E j \in JobIds : LeaseExpires(j) \/ BecomesDue(j)
    /\ UNCHANGED readVars

\* The thread and its messages outlive the file.
RemoveFile(f) ==
    /\ DeleteFile(f)
    /\ ready' = ready \ {f}
    /\ read' = [read EXCEPT ![f] = "none"]
    /\ UNCHANGED <<sqlite, mirror, reading, failures>>

ReadClaim(w) ==
    /\ ClaimSome(w)
    /\ reading' = [c \in claims' |-> IF c \in claims THEN reading[c] ELSE "waiting"]
    /\ UNCHANGED <<ready, read, sqlite, mirror, failures>>

Dies(w) ==
    /\ Abort(w)
    /\ reading' = [c \in claims' |-> reading[c]]
    /\ UNCHANGED <<ready, read, sqlite, mirror, failures>>

Leave(c) == reading' = [d \in claims \ {c} |-> reading[d]]

\* An extraction execution ends: it made the file ready, marked it failed, or
\* left it alone.
EndExtraction(c) ==
    /\ Conclude(c) \/ RetryOrFail(c)
    /\ Leave(c)
    /\ ready' \in {ready, ready \ {File(c)}, ready \cup {f \in {File(c)} : Present(f)}}
    /\ UNCHANGED <<read, sqlite, mirror, failures>>

(***************************************************************************)
(* run_initial_read.                                                       *)
(***************************************************************************)
Go(c, phase) == reading' = [reading EXCEPT ![c] = phase]

\* The batch runs one job at a time.
ReadTurn(c) ==
    /\ c.drain = InitialRead
    /\ reading[c] = "waiting"
    /\ \A d \in claims : d.worker = c.worker => reading[d] = "waiting"

\* sqlite_has_initial_read: a read that raises is taken for an empty thread.
SeesMessage(f)   == sqlite[f] > 0
SeesNoMessage(f) == sqlite[f] = 0 \/ ReadsMayFail

\* claim_initial_read, under the lock of the file row: nothing to do.
NothingToRead(c) ==
    LET f == File(c) IN
    /\ ReadTurn(c)
    /\ \/ ~Present(f) /\ UNCHANGED read
       \/ Present(f) /\ f \notin ChatFiles /\ read' = [read EXCEPT ![f] = "skipped"]
       \/ Present(f) /\ f \in ChatFiles /\ f \notin ready /\ UNCHANGED read
       \/ f \in ready \cap ChatFiles /\ SeesMessage(f) /\ read' = [read EXCEPT ![f] = "complete"]
       \/ /\ f \in ready \cap ChatFiles /\ SeesNoMessage(f)
          /\ read[f] \in {"complete", "skipped", "failed"} /\ UNCHANGED read
    /\ Go(c, "settled")
    /\ UNCHANGED <<vars, ready, sqlite, mirror, failures>>

\* Mutant of ClaimRead: a retry does not look for the message of a crashed run.
ClaimReadBlindly(c) ==
    LET f == File(c) IN
    /\ ReadTurn(c)
    /\ f \in ready \cap ChatFiles
    /\ read[f] \in {"none", "pending"}
    /\ read' = [read EXCEPT ![f] = "pending"]
    /\ Go(c, "generating")
    /\ UNCHANGED <<vars, ready, sqlite, mirror, failures>>

\* claim_initial_read: none or pending becomes pending, so that the work of a
\* crashed drain is taken up again.
ClaimRead(c) ==
    LET f == File(c) IN
    /\ ReadTurn(c)
    /\ f \in ready \cap ChatFiles
    /\ SeesNoMessage(f)
    /\ read[f] \in {"none", "pending"}
    /\ read' = [read EXCEPT ![f] = "pending"]
    /\ Go(c, "claimed")
    /\ UNCHANGED <<vars, ready, sqlite, mirror, failures>>

\* The second look at the thread, outside the lock; then the model call.
LookAgain(c) ==
    LET f == File(c) IN
    /\ reading[c] = "claimed"
    /\ \/ /\ SeesMessage(f)
          /\ read' = IF Present(f) THEN [read EXCEPT ![f] = "complete"] ELSE read
          /\ Go(c, "settled")
       \/ SeesNoMessage(f) /\ Go(c, "generating") /\ UNCHANGED read
    /\ UNCHANGED <<vars, ready, sqlite, mirror, failures>>

\* The model answered; the message goes to SQLite without another look.
Write(c) ==
    /\ reading[c] = "generating"
    /\ sqlite[File(c)] < MessageCap
    /\ sqlite' = [sqlite EXCEPT ![File(c)] = @ + 1]
    /\ Go(c, "written")
    /\ UNCHANGED <<vars, ready, read, mirror, failures>>

Mirror(c) ==
    /\ reading[c] = "written"
    /\ mirror[File(c)] < MessageCap
    /\ mirror' = [mirror EXCEPT ![File(c)] = @ + 1]
    /\ Go(c, "mirrored")
    /\ UNCHANGED <<vars, ready, read, sqlite, failures>>

\* Mutant of MarkComplete: the column is set before the message is written.
MarkCompleteEarly(c) ==
    LET f == File(c) IN
    /\ reading[c] \in {"generating", "mirrored"}
    /\ read' = IF Present(f) THEN [read EXCEPT ![f] = "complete"] ELSE read
    /\ Go(c, "settled")
    /\ UNCHANGED <<vars, ready, sqlite, mirror, failures>>

MarkComplete(c) ==
    LET f == File(c) IN
    /\ reading[c] = "mirrored"
    /\ read' = IF Present(f) THEN [read EXCEPT ![f] = "complete"] ELSE read
    /\ Go(c, "settled")
    /\ UNCHANGED <<vars, ready, sqlite, mirror, failures>>

\* An empty answer, or an exception at any point.
Fail(c) ==
    /\ ReadTurn(c) \/ reading[c] \in Phases \ {"waiting"}
    /\ Go(c, "failed")
    /\ UNCHANGED <<vars, ready, read, sqlite, mirror, failures>>

(***************************************************************************)
(* _complete_initial_read_job, and the marks that follow a failed job.     *)
(***************************************************************************)
SettleRead(c) ==
    /\ reading[c] = "settled"
    /\ ConcludeInitialRead(c)
    /\ Leave(c)
    /\ UNCHANGED <<ready, read, sqlite, mirror, failures>>

RetryRead(c) ==
    /\ reading[c] = "failed"
    /\ RetryInitialRead(c)
    /\ Leave(c)
    /\ failures' = IF c.attempt >= MaxAttempts THEN failures \cup {File(c)} ELSE failures
    /\ UNCHANGED <<ready, read, sqlite, mirror>>

\* The mark is a transaction after the one that failed the job.
MarkReadFailed(f) ==
    /\ f \in failures
    /\ failures' = failures \ {f}
    /\ read' = IF Present(f) THEN [read EXCEPT ![f] = "failed"] ELSE read
    /\ UNCHANGED <<vars, ready, sqlite, mirror, reading>>

\* The process died between the two.
MarkLost(f) ==
    /\ f \in failures
    /\ failures' = failures \ {f}
    /\ UNCHANGED <<vars, ready, read, sqlite, mirror, reading>>

ReadJobs(f, statuses) ==
    {j \in JobIds : /\ jobs[j].file = f /\ jobs[j].type = InitialRead
                    /\ jobs[j].status \in statuses}

\* Mutant of Unreadable: files without an exhausted job are left to the drains,
\* but so are those whose read had begun.
UnreadableUnstarted == {f \in ready : /\ read[f] = "none"
                                      /\ ReadJobs(f, {"failed"}) # {}
                                      /\ ReadJobs(f, ActiveStatuses) = {}}

Unreadable == {f \in ready : /\ read[f] \in {"none", "pending"}
                             /\ ReadJobs(f, {"failed"}) # {}
                             /\ ReadJobs(f, ActiveStatuses) = {}}

\* sync_failed_file_initial_reads, at the end of every initial-read drain.
SyncFailed ==
    /\ Unreadable # {}
    /\ read' = [f \in Files |-> IF f \in Unreadable THEN "failed" ELSE read[f]]
    /\ UNCHANGED <<vars, ready, sqlite, mirror, reading, failures>>

ExecuteRead(c) ==
    \/ NothingToRead(c) \/ ClaimRead(c) \/ LookAgain(c) \/ Write(c) \/ Mirror(c) \/ MarkComplete(c)
    \/ Fail(c)
    \/ SettleRead(c) \/ RetryRead(c)

ReadNext ==
    \/ Surroundings
    \/ \E f \in Files : RemoveFile(f) \/ MarkReadFailed(f) \/ MarkLost(f)
    \/ \E w \in Workers : ReadClaim(w) \/ Dies(w)
    \/ \E c \in claims : EndExtraction(c) \/ ExecuteRead(c)
    \/ SyncFailed

ReadSpec == ReadInit /\ [][ReadNext]_allVars

\* The cron triggers keep coming and every drain ends or dies.  The batch drain
\* of initial reads is not guarded by runner_eligible.
ReadFairness ==
    /\ WF_allVars(ReapEligible /\ UNCHANGED readVars)
    /\ WF_allVars(ReapInitialRead /\ UNCHANGED readVars)
    /\ \A w \in Workers : WF_allVars(\E c \in claims : c.worker = w /\ (ExecuteRead(c) \/ EndExtraction(c)))
    /\ WF_allVars(\E w \in Workers : ReadClaim(w) /\ ClaimInitialRead(w))
    /\ WF_allVars(\E w \in Workers : ReadClaim(w) /\ ClaimEligible(w))
    /\ \A j \in JobIds : /\ WF_allVars(LeaseExpires(j) /\ UNCHANGED readVars)
                         /\ WF_allVars(BecomesDue(j) /\ UNCHANGED readVars)
    /\ WF_allVars(SyncFailed)

FairReadSpec == ReadSpec /\ ReadFairness

(***************************************************************************)
(* Properties.                                                             *)
(***************************************************************************)
\* The type invariant.
ReadTypeOK ==
    /\ TypeOK
    /\ ready \in SUBSET Files
    /\ read \in [Files -> ReadStatuses]
    /\ sqlite \in [Files -> 0 .. MessageCap]
    /\ mirror \in [Files -> 0 .. MessageCap]
    /\ reading \in [claims -> Phases \cup Returned]
    /\ failures \in SUBSET Files

\* initial_read.py 248: "Generate at most one grounded overview. Safe to call
\* concurrently."
AtMostOneOverview == \A f \in Files : sqlite[f] <= 1

\* The lease makes it so where it outlives the executions and the thread can be
\* read, whatever drains crash between the two stores and the column.
AtMostOneOverviewExclusive == LeaseOutlivesRun /\ ~ReadsMayFail => AtMostOneOverview

\* A file that says its first read is complete has the message in its thread,
\* also when several drains raced to write it.
CompleteIsWritten == \A f \in Files : read[f] = "complete" => sqlite[f] >= 1

\* Postgres never holds an overview that SQLite, the store the chat reads, lacks.
MirrorFollows == \A f \in Files : mirror[f] <= sqlite[f]

\* initial_read.py 567: where leases outlive executions, a read that is pending
\* on a queued job of a ready file does not stay pending, whatever drains crash:
\* it completes, or its exhausted job marks it failed, so the UI stops polling.
PendingIsResolved ==
    LeaseOutlivesRun =>
        \A f \in Files :
            (read[f] = "pending" /\ f \in ready /\ ReadJobs(f, {"queued"}) # {})
            ~> (read[f] # "pending" \/ f \notin ready)
=============================================================================
