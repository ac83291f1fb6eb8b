--------------------------- MODULE FileExtraction ---------------------------
(***************************************************************************)
(* What an extraction drain does between claiming a job and settling it:   *)
(* run_structured_extraction (extraction_pipeline.py) under the per-job    *)
(* timeout of _run_claimed_jobs (drain.py), the file row and the page and  *)
(* chunk rows it writes, and the notification that follows a terminal      *)
(* outcome (initial_read.py).                                              *)
(*                                                                         *)
(* The module extends JobQueue: every step here is a step of the job table *)
(* or leaves it alone, and what JobQueue leaves open (how an execution     *)
(* ends) is decided here by what the pipeline did.  A transaction is one   *)
(* step, except the one that writes the pages and chunks: two executions   *)
(* that overlap in it meet the unique constraints of those tables.         *)
(*                                                                         *)
(* Initial-read executions are in JobQueue's abstract form here.           *)
(***************************************************************************)
EXTENDS JobQueue

CONSTANT Contents   \* kinds of document that may be uploaded

\* complete, partial and textless documents have pages; broken ones have none
\* (a corrupt source); the bytes of missing ones are gone from storage.
Kinds == {"complete", "partial", "textless", "broken", "missing"}

ASSUME ContentsAssumption == Contents \subseteq Kinds /\ Contents # {}

VARIABLES
    doc,      \* file id -> the processing columns of its workspace_files row
    stage,    \* claim -> how far its execution is
    notices   \* terminal outcomes a drain has yet to announce

docVars  == <<doc, stage, notices>>
pipeVars == <<vars, docVars>>

Doc == [content : Kinds,
        status : {"queued", "ready", "failed"},
        extraction : {"pending", "extracting", "complete", "partial", "failed"},
        index : {"not_indexed", "indexing", "indexed", "failed"},
        rows : BOOLEAN]   \* the file's page and chunk rows are in place

\* Inside run_structured_extraction, in the order of its transactions.
\* "inserting" and "overwriting" are inside the persist transaction, begun
\* without or with rows of an earlier execution to delete.
Running == {"parsing", "indexing", "inserting", "overwriting", "erring"}

\* What the drain reads from the returned diagnostics.
Reports == {"succeeded", "unusable", "transient"}

Notice == [file : Files, ready : BOOLEAN, worker : Workers]

FreshDoc(kind) ==
    [content |-> kind, status |-> "queued", extraction |-> "pending",
     index |-> "not_indexed", rows |-> FALSE]

FileOf(c)  == jobs[c.job].file

\* A write to a file row; a row that was deleted is not found and not written.
Written(f, d) == IF Present(f) THEN [doc EXCEPT ![f] = d] ELSE doc

PipeInit ==
    /\ Init
    /\ doc \in [Files -> {FreshDoc(kind) : kind \in Contents}]
    /\ stage = << >>
    /\ notices = {}

(***************************************************************************)
(* Steps of the job table that the pipeline leaves as they are.            *)
(***************************************************************************)
PipeProduce ==
    /\ \/ \E f \in Files, j \in JobIds : Upload(f, j)
       \/ \E f \in Files, j \in JobIds : Enqueue(f, Extraction, j)
       \/ ReapAny
       \/ \E j \in JobIds : LeaseExpires(j) \/ BecomesDue(j)
    /\ UNCHANGED docVars

\* Pages and chunks go with the file.
PipeDelete(f) ==
    /\ DeleteFile(f)
    /\ doc' = [doc EXCEPT ![f] = FreshDoc(doc[f].content)]
    /\ UNCHANGED <<stage, notices>>

Announcing(w) == \E n \in notices : n.worker = w

PipeClaim(w) ==
    /\ ~Announcing(w)
    /\ ClaimSome(w)
    /\ stage' = [c \in claims' |-> IF c \in claims THEN stage[c] ELSE "waiting"]
    /\ UNCHANGED <<doc, notices>>

\* A drain that dies takes its unannounced outcomes with it.
PipeAbort(w) ==
    /\ Abort(w) \/ (Idle(w) /\ Announcing(w) /\ UNCHANGED vars)
    /\ stage' = [c \in claims' |-> stage[c]]
    /\ notices' = {n \in notices : n.worker # w}
    /\ UNCHANGED doc

(***************************************************************************)
(* The pipeline.                                                           *)
(***************************************************************************)
Advance(c, s) == stage' = [stage EXCEPT ![c] = s]

\* The batch runs one job at a time, and an outcome is announced before the next.
Turn(c) ==
    /\ stage[c] = "waiting"
    /\ ~Announcing(c.worker)
    /\ \A d \in claims : d.worker = c.worker => stage[d] = "waiting"

\* The first transaction; a deleted file is the determinate file_not_found.
Begin(c) ==
    /\ c.drain = Extraction
    /\ Turn(c)
    /\ LET f == FileOf(c) IN
         /\ Advance(c, IF Present(f) THEN "parsing" ELSE "unusable")
         /\ doc' = Written(f, [doc[f] EXCEPT !.extraction = "extracting", !.index = "not_indexed"])
    /\ UNCHANGED <<vars, notices>>

\* The database is unreachable: the exception leaves the pipeline.
BeginRaises(c) ==
    /\ c.drain = Extraction
    /\ Turn(c)
    /\ Advance(c, "transient")
    /\ UNCHANGED <<vars, doc, notices>>

FindsNoBytes(c) ==
    /\ stage[c] = "parsing"
    /\ doc[FileOf(c)].content = "missing" \/ ~Present(FileOf(c))
    /\ LET f == FileOf(c) IN
         doc' = Written(f, [doc[f] EXCEPT !.status = "failed", !.extraction = "failed",
                                          !.index = "not_indexed"])
    /\ Advance(c, "unusable")
    /\ UNCHANGED <<vars, notices>>

\* The parse is done in a thread; then index_status is marked.
Parse(c) ==
    /\ stage[c] = "parsing"
    /\ doc[FileOf(c)].content # "missing"
    /\ LET f == FileOf(c) IN doc' = Written(f, [doc[f] EXCEPT !.index = "indexing"])
    /\ Advance(c, "indexing")
    /\ UNCHANGED <<vars, notices>>

\* The persist transaction deletes what it sees of the current version: rows
\* that another execution is deleting are locked, rows it has not yet
\* committed are not seen.
BeginPersist(c) ==
    /\ stage[c] = "indexing"
    /\ IF doc[FileOf(c)].rows
       THEN /\ \A d \in claims : stage[d] = "overwriting" => FileOf(d) # FileOf(c)
            /\ Advance(c, "overwriting")
       ELSE Advance(c, "inserting")
    /\ UNCHANGED <<vars, doc, notices>>

\* derive_lifecycle and _legacy_projection.
Persisted(d) ==
    CASE d.content \in {"complete", "partial"} ->
            [d EXCEPT !.status = "ready", !.extraction = d.content, !.index = "indexed", !.rows = TRUE]
      [] d.content = "textless" ->
            [d EXCEPT !.status = "ready", !.extraction = "failed", !.index = "not_indexed", !.rows = TRUE]
      [] OTHER ->
            [d EXCEPT !.status = "failed", !.extraction = "failed", !.index = "not_indexed", !.rows = FALSE]

\* The inserts meet the unique constraints, and the foreign key of the file.
Commits(c) ==
    /\ Present(FileOf(c))
    /\ stage[c] = "inserting" => ~doc[FileOf(c)].rows

\* Mutant of Persist: the lifecycle columns commit before the chunk rows do.
PersistColumnsFirst(c) ==
    /\ stage[c] \in {"inserting", "overwriting"}
    /\ Commits(c)
    /\ LET f == FileOf(c) IN
         /\ doc' = [doc EXCEPT ![f] = [Persisted(doc[f]) EXCEPT !.rows = FALSE]]
         /\ Advance(c, IF Persisted(doc[f]).status = "ready" THEN "succeeded" ELSE "unusable")
    /\ UNCHANGED <<vars, notices>>

Persist(c) ==
    /\ stage[c] \in {"inserting", "overwriting"}
    /\ Commits(c)
    /\ LET f == FileOf(c) IN
         /\ doc' = [doc EXCEPT ![f] = Persisted(doc[f])]
         /\ Advance(c, IF Persisted(doc[f]).status = "ready" THEN "succeeded" ELSE "unusable")
    /\ UNCHANGED <<vars, notices>>

\* An exception inside the try block; a transaction in progress rolls back.
Raise(c) ==
    /\ stage[c] \in Running \ {"erring"}
    /\ Advance(c, "erring")
    /\ UNCHANGED <<vars, doc, notices>>

\* The except block marks the file failed.
MarkFailed(c) ==
    /\ stage[c] = "erring"
    /\ LET f == FileOf(c) IN
         doc' = Written(f, [doc[f] EXCEPT !.status = "failed", !.extraction = "failed",
                                          !.index = "failed"])
    /\ Advance(c, "transient")
    /\ UNCHANGED <<vars, notices>>

\* That mark fails as well: the exception leaves the pipeline.
MarkRaises(c) ==
    /\ stage[c] = "erring"
    /\ Advance(c, "transient")
    /\ UNCHANGED <<vars, doc, notices>>

(***************************************************************************)
(* The drain settles the job by the report, and announces a terminal       *)
(* outcome of its own, whether or not its update found the row running.    *)
(***************************************************************************)
Announce(c, ready) ==
    notices' = notices \cup {[file |-> FileOf(c), ready |-> ready, worker |-> c.worker]}

Dismiss(c) == stage' = [d \in claims \ {c} |-> stage[d]]

\* Mutant of Succeed: the outcome is taken before the persist transaction.
SucceedEarly(c) ==
    /\ c.drain = Extraction
    /\ stage[c] \in {"succeeded", "indexing"}
    /\ Settle(c, Completed(jobs[c.job], "succeeded"))
    /\ Announce(c, TRUE)
    /\ Dismiss(c)
    /\ UNCHANGED doc

Succeed(c) ==
    /\ c.drain = Extraction
    /\ stage[c] = "succeeded"
    /\ Settle(c, Completed(jobs[c.job], "succeeded"))
    /\ Announce(c, TRUE)
    /\ Dismiss(c)
    /\ UNCHANGED doc

Refuse(c) ==
    /\ c.drain = Extraction
    /\ stage[c] = "unusable"
    /\ Settle(c, Completed(jobs[c.job], "failed"))
    /\ Announce(c, FALSE)
    /\ Dismiss(c)
    /\ UNCHANGED doc

\* A transient report, or the per-job timeout, which cancels the pipeline where
\* it is, also between its last commit and its return: no except block runs and
\* the file row keeps what was last committed.
Retry(c) ==
    /\ stage[c] \in Running \cup Reports
    /\ RetryOrFail(c)
    /\ IF c.attempt >= MaxAttempts THEN Announce(c, FALSE) ELSE UNCHANGED notices
    /\ Dismiss(c)
    /\ UNCHANGED doc

EndInitialRead(c) ==
    /\ ConcludeInitialRead(c) \/ RetryInitialRead(c)
    /\ Dismiss(c)
    /\ UNCHANGED <<doc, notices>>

\* Mutant of Notify: the read is enqueued for every terminal outcome.
NotifyAnyway(n) ==
    /\ notices' = notices \ {n}
    /\ (\E j \in JobIds : Enqueue(n.file, InitialRead, j)) \/ UNCHANGED vars
    /\ UNCHANGED <<doc, stage>>

\* notify_file_processed(ready=True) enqueues the initial read; an active one,
\* a deleted file or a database error leaves the table as it is.
Notify(n) ==
    /\ notices' = notices \ {n}
    /\ \/ n.ready /\ \E j \in JobIds : Enqueue(n.file, InitialRead, j)
       \/ UNCHANGED vars
    /\ UNCHANGED <<doc, stage>>

Execute(c) ==
    \/ Begin(c) \/ BeginRaises(c) \/ FindsNoBytes(c) \/ Parse(c) \/ BeginPersist(c) \/ Persist(c)
    \/ Raise(c) \/ MarkFailed(c) \/ MarkRaises(c)
    \/ Succeed(c) \/ Refuse(c) \/ Retry(c)

PipeNext ==
    \/ PipeProduce
    \/ \E f \in Files : PipeDelete(f)
    \/ \E w \in Workers : PipeClaim(w) \/ PipeAbort(w)
    \/ \E c \in claims : Execute(c) \/ EndInitialRead(c)
    \/ \E n \in notices : Notify(n)

PipeSpec == PipeInit /\ [][PipeNext]_pipeVars

(***************************************************************************)
(* What the API shows (lifecycle.py).                                      *)
(***************************************************************************)
JobsOf(f) == {j \in JobIds : Exists(j) /\ jobs[j].file = f}
HasJob(f, status) == \E j \in JobsOf(f) : jobs[j].status = status

Indexing(d) ==
    d.index = "indexing" \/ (d.extraction \in {"complete", "partial"} /\ d.index # "indexed")

\* Mutant of ProcessingStage: a failed job alone does not show.
StageOfRow(f) ==
    CASE doc[f].status = "ready" -> "ready"
      [] doc[f].status # "ready" /\ HasJob(f, "running") ->
            IF Indexing(doc[f]) THEN "indexing" ELSE "extracting"
      [] doc[f].status # "ready" /\ ~HasJob(f, "running") /\ HasJob(f, "queued") -> "queued"
      [] OTHER ->
            IF "failed" \in {doc[f].status, doc[f].extraction, doc[f].index} THEN "failed" ELSE "queued"

ProcessingStage(f) ==
    CASE doc[f].status = "ready" -> "ready"
      [] doc[f].status # "ready" /\ HasJob(f, "running") ->
            IF Indexing(doc[f]) THEN "indexing" ELSE "extracting"
      [] doc[f].status # "ready" /\ ~HasJob(f, "running") /\ HasJob(f, "queued") -> "queued"
      [] OTHER ->
            IF HasJob(f, "failed") \/ "failed" \in {doc[f].status, doc[f].extraction, doc[f].index}
            THEN "failed" ELSE "queued"

(***************************************************************************)
(* Properties.                                                             *)
(***************************************************************************)
\* The type invariant.
PipeTypeOK ==
    /\ TypeOK
    /\ doc \in [Files -> Doc]
    /\ stage \in [claims -> {"waiting"} \cup Running \cup Reports]
    /\ notices \in SUBSET Notice

\* extraction_pipeline.py 9-14: the file claims complete, indexed or ready only
\* while its page and chunk rows are all in place, whatever executions overlap,
\* fail halfway or are cancelled.
ClaimsAreBacked ==
    \A f \in Files :
        (\/ doc[f].extraction \in {"complete", "partial"}
         \/ doc[f].index = "indexed"
         \/ doc[f].status = "ready")
        => doc[f].rows

\* The extraction jobs of a file that is still there.
Extractions(f) == {j \in JobsOf(f) : jobs[j].type = Extraction}

\* The job row and the file row agree: where the only extraction of a file
\* succeeded, the file is ready.
SucceededIsReady ==
    \A f \in Files, j \in JobIds :
        Extractions(f) = {j} /\ jobs[j].status = "succeeded" => doc[f].status = "ready"

\* The same where leases outlive executions.
SucceededIsReadyExclusive == LeaseOutlivesRun => SucceededIsReady

\* Two executions never have one file's persist transaction open at a time when
\* leases outlive executions: no retry is ever caused by the unique constraints.
PersistAlone ==
    LeaseOutlivesRun =>
        \A c, d \in claims :
            /\ stage[c] \in {"inserting", "overwriting"}
            /\ stage[d] \in {"inserting", "overwriting"}
            /\ FileOf(c) = FileOf(d)
            => c = d

\* lifecycle.py 3-6: the stage shown for a file comes to rest.  When its last
\* extraction job has ended and nothing else is to be done for the file, it is
\* shown ready or failed, never queued or in progress with nobody at work.
StageSettles ==
    \A f \in Files :
        /\ Extractions(f) # {}
        /\ \A j \in JobsOf(f) : jobs[j].status \in {"succeeded", "failed"}
        => ProcessingStage(f) \in {"ready", "failed"}

\* initial_read.py 576-588: an initial read is queued, and stays, only for a file
\* whose page and chunk rows are in place, although its announcement comes after
\* the outcome, when a retry of the extraction may be running, failing or ended,
\* and the file may be gone.
ReadsHaveText ==
    \A f \in Files : \A j \in JobsOf(f) : jobs[j].type = InitialRead => doc[f].rows
=============================================================================
