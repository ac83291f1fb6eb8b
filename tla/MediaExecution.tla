---------------------------- MODULE MediaExecution ----------------------------
(***************************************************************************)
(* Generated media (services/media).  An execution is a row of             *)
(* ben.media_executions; a worker's tick claims one, does one piece of the *)
(* work - the only POST, a poll, a download, the publication of the bytes, *)
(* a local rendering - and writes the row again.  Every write names the    *)
(* owner and the version it read, so a tick that outlived its lease writes *)
(* nothing.  A process may die between any two steps.                      *)
(*                                                                         *)
(* Kinds: "image" answers its POST with the bytes (Gemini); "queued" (BFL) *)
(* and "video" (Veo, Kling) answer with an operation to poll and download; *)
(* "local" renders here (narration, mobile import).                        *)
(***************************************************************************)
EXTENDS Integers, FiniteSets

CONSTANTS
    Executions,   \* idempotency keys of one organisation
    Workers,      \* ticks that may run at once
    Kinds,        \* the kinds of execution the clients ask for
    MaxPolls,     \* 180 in the code
    MaxIngests,   \* 3 in the code
    Nobody        \* no owner, no execution

ASSUME BoundsAssumption == MaxPolls \in Nat \ {0} /\ MaxIngests \in Nat \ {0}
ASSUME KindsAssumption  == Kinds \subseteq {"image", "queued", "video", "local"}
ASSUME NobodyAssumption == Nobody \notin Workers /\ Nobody \notin Executions

VARIABLES
    row,        \* execution -> its row
    tick,       \* worker -> where its tick is
    overdue,    \* executions whose deadline_at has passed
    thread,     \* the destination conversation exists
    journal,    \* executions with a result.json
    output,     \* executions with an output.png or output.mp4
    attempts,   \* executions with a complete attempt file
    posts       \* execution -> POSTs sent to the provider

files == <<journal, output, attempts>>
vars == <<row, tick, overdue, thread, journal, output, attempts, posts>>

Active   == {"pending", "submitting", "submitted", "running", "ingesting", "submission_unknown"}
Terminal == {"succeeded", "failed", "expired"}

\* due: next_reconcile_at has passed.  known: provider_operation_ref is set.
\* ready: provider_state is Ready.  bytes: what storage_key names.
Row == [kind : Kinds, state : Active \cup Terminal \cup {"absent"}, due : BOOLEAN,
        owner : Workers \cup {Nobody}, lease : {"none", "live", "ended"},
        known : BOOLEAN, ready : BOOLEAN, submits : 0 .. 1, polls : 0 .. MaxPolls,
        ingests : 0 .. MaxIngests, bytes : {"none", "output", "attempt"}]

\* The row create inserts, before it is there.
NewRow(kind) ==
    [kind |-> kind, state |-> "absent", due |-> TRUE, owner |-> Nobody, lease |-> "none",
     known |-> FALSE, ready |-> FALSE, submits |-> 0, polls |-> 0, ingests |-> 0,
     bytes |-> "none"]

Steps == {"expiring", "refusing", "marking", "posting", "accepted", "uncertain", "polling",
          "waiting", "downloading", "loading", "saving", "recording", "recovering", "keeping",
          "ingesting", "finishing", "cleaning", "starting", "rendering", "rendered",
          "publishing", "completing"}

Idle == [at |-> "idle", job |-> Nobody]
Tick == [at : Steps, job : Executions] \cup {Idle}

Init ==
    /\ row \in [Executions -> {NewRow(kind) : kind \in Kinds}]
    /\ tick = [w \in Workers |-> Idle]
    /\ overdue = {} /\ thread = TRUE
    /\ journal = {} /\ output = {} /\ attempts = {}
    /\ posts = [e \in Executions |-> 0]

Mine(w) == row[tick[w].job]
At(w, step) == tick[w].at = step
Continue(w, step) == tick' = [tick EXCEPT ![w].at = step]

(***************************************************************************)
(* Writes of the row (repository.py).  The owner is unique to a tick and   *)
(* the version changes with the owner, so the two are one fence here.      *)
(***************************************************************************)
\* Mutant of Held: the WHERE clause forgets lease_owner and version.
HeldByAnyone(w) == tick[w] # Idle

Held(w) == Mine(w).owner = w

\* change: writes the row and gives the lease back.
Written(w, r) ==
    row' = IF Held(w)
           THEN [row EXCEPT ![tick[w].job] = [r EXCEPT !.owner = Nobody, !.lease = "none"]]
           ELSE row

\* A tick whose last act is a change.
Leave(w, r) ==
    /\ Written(w, r)
    /\ tick' = [tick EXCEPT ![w] = Idle]

\* A write that keeps the lease, after which the tick goes on; a tick whose
\* write finds no row ends.
Advance(w, can, r, step) ==
    IF Held(w) /\ can
    THEN row' = [row EXCEPT ![tick[w].job] = r] /\ Continue(w, step)
    ELSE tick' = [tick EXCEPT ![w] = Idle] /\ UNCHANGED row

(***************************************************************************)
(* Admission, claim, and what only the row decides.                        *)
(***************************************************************************)
\* create.  A repeated key is answered with the row there is; the limit of 20 a
\* day only refuses.
Admit(e) ==
    /\ row[e].state = "absent" /\ thread
    /\ row' = [row EXCEPT ![e].state = "pending"]
    /\ UNCHANGED <<tick, overdue, thread, files, posts>>

\* The branch of tick and _async_result that a claimed row takes.  "refusing"
\* stands for a revoked pilot or model, a changed identity, a missing source.
Begins(e, step) ==
    LET r == row[e]
        remote == r.kind # "local"
        polled == r.kind \in {"queued", "video"} /\ r.state \in {"submitted", "running"}
    IN  \/ step = "expiring" /\ (e \in overdue \/ (polled /\ r.polls = MaxPolls))
        \/ /\ e \notin overdue
           /\ \/ step = "refusing"
              \/ step = "starting" /\ ~remote
              \/ step = "marking" /\ remote /\ r.state = "pending"
              \/ step = "downloading" /\ polled /\ r.polls < MaxPolls /\ r.ready
              \/ step = "polling" /\ polled /\ r.polls < MaxPolls /\ ~r.ready
              \/ step = "loading" /\ remote /\ ~polled /\ r.state # "pending"

\* Mutant of Claimable: uncertain submissions are not looked at again.
ClaimableKnown(e) ==
    row[e].state \in Active \ {"submission_unknown"} /\ row[e].due /\ row[e].lease # "live"

Claimable(e) == row[e].state \in Active /\ row[e].due /\ row[e].lease # "live"

\* claim
Claim(w, e) ==
    /\ At(w, "idle") /\ Claimable(e)
    /\ row' = [row EXCEPT ![e].owner = w, ![e].lease = "live"]
    /\ \E step \in Steps : Begins(e, step) /\ tick' = [tick EXCEPT ![w] = [at |-> step, job |-> e]]
    /\ UNCHANGED <<overdue, thread, files, posts>>

\* The deadline, or the limit of polls.
Expire(w) ==
    /\ At(w, "expiring")
    /\ Leave(w, [Mine(w) EXCEPT !.state = "expired"])
    /\ UNCHANGED <<overdue, thread, files, posts>>

\* Everything that fails an execution for good.
Refuse(w) ==
    /\ At(w, "refusing")
    /\ Leave(w, [Mine(w) EXCEPT !.state = "failed"])
    /\ UNCHANGED <<overdue, thread, files, posts>>

(***************************************************************************)
(* The submission.                                                         *)
(***************************************************************************)
\* Mutant of MarkSubmitting: the row is marked only after the answer.
MarkNothing(w) ==
    /\ At(w, "marking")
    /\ IF thread
       THEN Advance(w, Mine(w).state = "pending", Mine(w), "posting")
       ELSE Leave(w, [Mine(w) EXCEPT !.state = "failed"])
    /\ UNCHANGED <<overdue, thread, files, posts>>

\* mark_submitting; a missing destination fails the execution.
MarkSubmitting(w) ==
    /\ At(w, "marking")
    /\ IF thread
       THEN Advance(w, Mine(w).state = "pending" /\ Mine(w).submits = 0,
                    [Mine(w) EXCEPT !.state = "submitting", !.submits = 1], "posting")
       ELSE Leave(w, [Mine(w) EXCEPT !.state = "failed"])
    /\ UNCHANGED <<overdue, thread, files, posts>>

\* The POST: an answer with the bytes or an operation, a refusal, or an answer
\* that does not say whether the provider took the work.
Post(w) ==
    /\ At(w, "posting")
    /\ posts' = [posts EXCEPT ![tick[w].job] = @ + 1]
    /\ \E answer \in {"refusing", "uncertain",
                      IF Mine(w).kind = "image" THEN "recording" ELSE "accepted"} :
            Continue(w, answer)
    /\ UNCHANGED <<row, overdue, thread, files>>

\* The operation is kept, to be polled later.
Accepted(w) ==
    /\ At(w, "accepted")
    /\ Leave(w, [Mine(w) EXCEPT !.state = "submitted", !.known = TRUE, !.due = FALSE])
    /\ UNCHANGED <<overdue, thread, files, posts>>

\* Looked at again only when the deadline has passed.
Uncertain(w) ==
    /\ At(w, "uncertain")
    /\ Leave(w, [Mine(w) EXCEPT !.state = "submission_unknown", !.due = FALSE])
    /\ UNCHANGED <<overdue, thread, files, posts>>

(***************************************************************************)
(* Reconciliation: polls, downloads and the journal.                       *)
(***************************************************************************)
\* A GET of the status and record_poll, which renews the lease.
Poll(w) ==
    /\ At(w, "polling")
    /\ \E answer \in {"waiting", "downloading", "refusing"} :
            Advance(w, TRUE,
                    [Mine(w) EXCEPT !.state = "running", !.polls = @ + 1, !.lease = "live",
                                    !.ready = answer = "downloading"], answer)
    /\ UNCHANGED <<overdue, thread, files, posts>>

\* Not ready: once more in a few seconds.
PollAgain(w) ==
    /\ At(w, "waiting")
    /\ Leave(w, [Mine(w) EXCEPT !.due = FALSE])
    /\ UNCHANGED <<overdue, thread, files, posts>>

\* A poll that raises.  A video's answer may also end the execution.
PollFails(w) ==
    /\ At(w, "polling")
    /\ \/ Leave(w, [Mine(w) EXCEPT !.polls = @ + 1, !.due = FALSE])
       \/ Mine(w).kind = "video" /\ \E end \in {"failed", "expired"} :
              Leave(w, [Mine(w) EXCEPT !.state = end])
    /\ UNCHANGED <<overdue, thread, files, posts>>

Download(w) ==
    /\ At(w, "downloading")
    /\ Continue(w, IF Mine(w).kind = "video" THEN "saving" ELSE "recording")
    /\ UNCHANGED <<row, overdue, thread, files, posts>>

\* One more ingestion attempt, or the last.
Another(r, state) ==
    [r EXCEPT !.state = IF r.ingests + 1 >= MaxIngests THEN "failed" ELSE state,
              !.ingests = @ + 1, !.due = FALSE]

\* A download that raises is repeated, for as long as attempts are left.
DownloadFails(w) ==
    /\ At(w, "downloading")
    /\ \/ Leave(w, Another(Mine(w), Mine(w).state))
       \/ Mine(w).kind = "video" /\ \E end \in {"failed", "expired"} :
              Leave(w, [Mine(w) EXCEPT !.state = end])
    /\ UNCHANGED <<overdue, thread, files, posts>>

\* load_result: no journal, no result; the submission stays uncertain.
LoadResult(w) ==
    /\ At(w, "loading")
    /\ Continue(w, IF tick[w].job \notin journal THEN "uncertain"
                   ELSE CASE Mine(w).kind = "image"  -> "recovering"
                          [] Mine(w).kind = "queued" -> "recording"
                          [] OTHER -> "saving")
    /\ UNCHANGED <<row, overdue, thread, files, posts>>

\* Mutant of SaveEarly: a video's bytes are kept after the row, as an image's are.
SaveLate(w) ==
    /\ At(w, "saving")
    /\ Continue(w, "recording")
    /\ UNCHANGED <<row, overdue, thread, files, posts>>

\* save_result before record_result: a video, whose row keeps the reference to
\* download from until the bytes are on disk.
SaveEarly(w) ==
    /\ At(w, "saving")
    /\ journal' = journal \cup {tick[w].job}
    /\ Continue(w, "recording")
    /\ UNCHANGED <<row, overdue, thread, output, attempts, posts>>

\* record_result; what came from an image's journal is not saved again.
RecordResult(w) ==
    /\ tick[w].at \in {"recording", "recovering"}
    /\ Advance(w, TRUE, [Mine(w) EXCEPT !.state = "ingesting"],
               IF At(w, "recording") THEN "keeping" ELSE "ingesting")
    /\ UNCHANGED <<overdue, thread, files, posts>>

\* save_result: byte-for-byte what a second writer would save.
SaveResult(w) ==
    /\ At(w, "keeping")
    /\ journal' = journal \cup {tick[w].job}
    /\ Continue(w, "ingesting")
    /\ UNCHANGED <<row, overdue, thread, output, attempts, posts>>

(***************************************************************************)
(* Publication.                                                            *)
(***************************************************************************)
\* Mutant of Ingest: success is reported before the bytes are linked in place.
IngestNothing(w) ==
    /\ At(w, "ingesting")
    /\ Continue(w, "finishing")
    /\ UNCHANGED <<row, overdue, thread, files, posts>>

\* ingest_png, ingest_mp4: complete bytes are linked in place, once.
Ingest(w) ==
    /\ At(w, "ingesting")
    /\ output' = output \cup {tick[w].job}
    /\ Continue(w, "finishing")
    /\ UNCHANGED <<row, overdue, thread, journal, attempts, posts>>

\* The steps inside tick's try whose errors find the row as the tick last wrote
\* it: the source's bytes, the journal, the published file, or the database.
Guarded == {"marking", "polling", "downloading", "uncertain", "loading", "saving", "recording",
            "recovering", "keeping", "ingesting", "finishing"}

\* The error handler of tick, whether there is a result to ingest or not.  A
\* video that has not been recorded may still be downloaded again.
StorageFails(w) ==
    /\ tick[w].at \in Guarded
    /\ Leave(w, Another(Mine(w), IF Mine(w).kind = "video" /\ Mine(w).state = "running" /\ Mine(w).ready
                                 THEN "running" ELSE "ingesting"))
    /\ UNCHANGED <<overdue, thread, files, posts>>

\* The last change: expired after the deadline, failed without a destination.
Finish(w) ==
    /\ At(w, "finishing")
    /\ CASE tick[w].job \in overdue -> Leave(w, [Mine(w) EXCEPT !.state = "expired"])
         [] tick[w].job \notin overdue /\ ~thread -> Leave(w, [Mine(w) EXCEPT !.state = "failed"])
         [] OTHER ->
              /\ Written(w, [Mine(w) EXCEPT !.state = "succeeded", !.bytes = "output",
                                            !.ingests = @ + 1])
              /\ tick' = [tick EXCEPT ![w] = IF Held(w) THEN [@ EXCEPT !.at = "cleaning"] ELSE Idle]
    /\ UNCHANGED <<overdue, thread, files, posts>>

\* The journal is removed once the row has everything; an error leaves it.
Clean(w) ==
    /\ At(w, "cleaning")
    /\ journal' \in {journal, journal \ {tick[w].job}}
    /\ tick' = [tick EXCEPT ![w] = Idle]
    /\ UNCHANGED <<row, overdue, thread, output, attempts, posts>>

(***************************************************************************)
(* Local renderings (narration.py, mobile_import.py).                      *)
(***************************************************************************)
\* What local_transition and complete_attempt ask of the clock.
InTime(w) == Mine(w).lease = "live" /\ tick[w].job \notin overdue

\* local_transition to running
StartLocal(w) ==
    /\ At(w, "starting")
    /\ Advance(w, InTime(w), [Mine(w) EXCEPT !.state = "running"], "rendering")
    /\ UNCHANGED <<overdue, thread, files, posts>>

\* Reading the sources, rendering, reading them again.
Render(w) ==
    /\ At(w, "rendering")
    /\ Continue(w, "rendered") \/ Continue(w, "refusing")
    /\ UNCHANGED <<row, overdue, thread, files, posts>>

\* local_transition to ingesting
EndRender(w) ==
    /\ At(w, "rendered")
    /\ Advance(w, InTime(w), [Mine(w) EXCEPT !.state = "ingesting"], "publishing")
    /\ UNCHANGED <<overdue, thread, files, posts>>

\* publish_video_attempt: a tick that lost the row writes nothing; a file of its
\* own for each attempt.
WriteAttempt(w) ==
    /\ At(w, "publishing")
    /\ IF Held(w) /\ thread
       THEN /\ attempts' = attempts \cup {tick[w].job}
            /\ Continue(w, "completing")
       ELSE /\ tick' = [tick EXCEPT ![w] = Idle]
            /\ UNCHANGED attempts
    /\ UNCHANGED <<row, overdue, thread, journal, output, posts>>

\* complete_attempt
CompleteAttempt(w) ==
    /\ At(w, "completing")
    /\ IF thread /\ InTime(w)
       THEN Leave(w, [Mine(w) EXCEPT !.state = "succeeded", !.bytes = "attempt",
                                      !.ingests = @ + 1])
       ELSE tick' = [tick EXCEPT ![w] = Idle] /\ UNCHANGED row
    /\ UNCHANGED <<overdue, thread, files, posts>>

(***************************************************************************)
(* The surroundings.                                                       *)
(***************************************************************************)
\* The process dies, or an error the tick does not handle ends it.
Abort(w) ==
    /\ ~At(w, "idle")
    /\ tick' = [tick EXCEPT ![w] = Idle]
    /\ UNCHANGED <<row, overdue, thread, files, posts>>

DeleteThread ==
    /\ thread /\ thread' = FALSE
    /\ UNCHANGED <<row, tick, overdue, files, posts>>

\* An uncertain submission is due at its deadline.
ComesDue(e) ==
    /\ row[e].state \in Active /\ ~row[e].due
    /\ row[e].state = "submission_unknown" => e \in overdue
    /\ row' = [row EXCEPT ![e].due = TRUE]
    /\ UNCHANGED <<tick, overdue, thread, files, posts>>

LeaseEnds(e) ==
    /\ row[e].lease = "live"
    /\ row' = [row EXCEPT ![e].lease = "ended"]
    /\ UNCHANGED <<tick, overdue, thread, files, posts>>

DeadlinePasses(e) ==
    /\ row[e].state \in Active /\ e \notin overdue
    /\ overdue' = overdue \cup {e}
    /\ UNCHANGED <<row, tick, thread, files, posts>>

Step(w) ==
    \/ Expire(w) \/ Refuse(w) \/ MarkSubmitting(w) \/ Post(w) \/ Accepted(w) \/ Uncertain(w)
    \/ Poll(w) \/ PollAgain(w) \/ PollFails(w) \/ Download(w) \/ DownloadFails(w)
    \/ LoadResult(w) \/ SaveEarly(w) \/ RecordResult(w) \/ SaveResult(w)
    \/ Ingest(w) \/ StorageFails(w) \/ Finish(w) \/ Clean(w)
    \/ StartLocal(w) \/ Render(w) \/ EndRender(w) \/ WriteAttempt(w) \/ CompleteAttempt(w)

Next ==
    \/ \E w \in Workers : Step(w) \/ Abort(w) \/ \E e \in Executions : Claim(w, e)
    \/ \E e \in Executions : Admit(e) \/ ComesDue(e) \/ LeaseEnds(e) \/ DeadlinePasses(e)
    \/ DeleteThread

Spec == Init /\ [][Next]_vars

\* Ticks go on and time passes.  A row that can be claimed again and again is
\* claimed, and some claim of a late row writes before its lease ends: the loop
\* sleeps 2 s and the lease is 2 minutes or more for one UPDATE.
Fairness ==
    /\ \A w \in Workers : WF_vars(Step(w)) /\ SF_vars(Expire(w) /\ Held(w))
    /\ \A e \in Executions :
          /\ SF_vars(\E w \in Workers : Claim(w, e))
          /\ WF_vars(ComesDue(e)) /\ WF_vars(LeaseEnds(e)) /\ WF_vars(DeadlinePasses(e))

FairSpec == Spec /\ Fairness

(***************************************************************************)
(* Properties.                                                             *)
(***************************************************************************)
\* The type invariant; ingests stays within MaxIngests on every path.
TypeOK ==
    /\ row \in [Executions -> Row]
    /\ tick \in [Workers -> Tick]
    /\ overdue \in SUBSET Executions
    /\ thread \in BOOLEAN
    /\ journal \in SUBSET Executions
    /\ output \in SUBSET Executions
    /\ attempts \in SUBSET Executions
    /\ posts \in [Executions -> Nat]

\* docs/media-v1-veo-validation.md 36, MEDIA_V1_GEMINI_VERTICAL_SLICE.md 36: one
\* committed submitting transition precedes the only POST.  However many workers,
\* crashes and lost leases, a paid request is sent at most once.
SubmittedOnce == \A e \in Executions : posts[e] <= 1

\* MEDIA_V1_GEMINI_VERTICAL_SLICE.md 39: publication requires durable bytes, and
\* of paid media a request that was sent.
PublishedIsStored ==
    \A e \in Executions : row[e].state = "succeeded" =>
        /\ row[e].bytes = "output" => e \in output /\ posts[e] = 1
        /\ row[e].bytes = "attempt" => e \in attempts /\ posts[e] = 0
        /\ row[e].bytes # "none"

\* media-v1-veo-validation.md 36-37: ready download metadata survives until the
\* journal does.  A video whose download was announced has its bytes in the journal
\* or is still at the step that fetches them, whichever writes failed, and its
\* submission is never called uncertain while the bytes are kept.
VideoIsRecoverable ==
    \A e \in Executions : row[e].kind = "video" =>
        /\ row[e].ready /\ e \notin journal => row[e].state \in {"running"} \cup Terminal
        /\ row[e].state = "submission_unknown" => e \notin journal

\* An execution that ended is never written again, by whatever tick is left.
TerminalIsFinal ==
    [][\A e \in Executions : row[e].state \in Terminal => row'[e] = row[e]]_vars

\* MEDIA_V1_GEMINI_VERTICAL_SLICE.md 44: all active states have a deadline.
Settles == \A e \in Executions : row[e].state \in Active ~> row[e].state \in Terminal
=============================================================================
