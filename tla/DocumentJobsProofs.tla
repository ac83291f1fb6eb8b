------------------------- MODULE DocumentJobsProofs -------------------------
(***************************************************************************)
(* Proofs about the job table and the two kinds of execution under it, for *)
(* every set of jobs, files and drains and every attempt limit.            *)
(*                                                                         *)
(* JobQueue: who may change a row, how often a job is executed, exclusion of *)
(* executions, and the refinement of JobLedger.                            *)
(*                                                                         *)
(* FileExtraction: the pipeline implements the job table, the file row never *)
(* claims rows that are not there, the lease keeps two executions out of one *)
(* file's persist transaction, and a file whose jobs have ended is shown so. *)
(*                                                                         *)
(* FileInitialRead: what a file's columns say of its thread, and that the  *)
(* lease, the two looks at the thread and the order of the writes give at  *)
(* most one overview, whatever drains crash in between.                    *)
(***************************************************************************)
EXTENDS JobQueueLedger, FileExtraction, FileInitialRead, FiniteSetTheorems, TLAPS

-----------------------------------------------------------------------------
(***************************************************************************)
(* JobQueue.                                                               *)
(***************************************************************************)
USE DEF Present

\* How an execution may leave its row: concluded, or requeued by a drain whose
\* own attempt number is below the limit.
Settled(c) ==
    {Completed(jobs[c.job], outcome) : outcome \in TerminalStatuses} \cup
    {Requeued(jobs[c.job], due) : due \in {d \in BOOLEAN : c.attempt < MaxAttempts}}

\* A step of Next with the variants of one SQL function folded together.
Step ==
    \/ \E f \in Files, j \in JobIds : Upload(f, j)
    \/ \E f \in Files, t \in JobTypes, j \in JobIds : Enqueue(f, t, j)
    \/ \E f \in Files : DeleteFile(f)
    \/ \E S \in SUBSET Expired : Reap(S)
    \/ \E w \in Workers, t \in JobTypes : \E S \in SUBSET Claimable(t) : TakeLease(w, S, t)
    \/ \E w \in Workers : Abort(w)
    \/ \E c \in claims : \E row \in Settled(c) : Settle(c, row)
    \/ \E j \in JobIds : LeaseExpires(j)
    \/ \E j \in JobIds : BecomesDue(j)

\* Every step of Next is a Step: the claim functions differ only in the rows
\* they select, the reapers too, and the ends of an execution in the row they
\* leave behind.
LEMMA NextIsStep ==
    ASSUME TypeOK, Next
    PROVE  Step
<1>1. CASE Produce
  BY <1>1 DEF Produce, Step
<1>2. CASE ReapAny
  <2>1. CASE ReapEligible
    <3>1. PICK S \in SUBSET {j \in Expired : jobs[j].eligible} : Reap(S)
      BY <2>1 DEF ReapEligible
    <3> QED BY <3>1 DEF Step
  <2>2. CASE ReapInitialRead
    <3>1. PICK S \in SUBSET {j \in Expired : jobs[j].type = InitialRead} : Reap(S)
      BY <2>2 DEF ReapInitialRead
    <3> QED BY <3>1 DEF Step
  <2>3. CASE \E f \in Files : ReapForFile(f)
    <3>1. PICK j \in Expired : Reap({j})
      BY <2>3 DEF ReapForFile
    <3>2. {j} \in SUBSET Expired
      OBVIOUS
    <3> QED BY <3>1, <3>2 DEF Step
  <2> QED BY <1>2, <2>1, <2>2, <2>3 DEF ReapAny
<1>3. ASSUME NEW w \in Workers, ClaimSome(w)
      PROVE  Step
  <2>0. Extraction \in JobTypes /\ InitialRead \in JobTypes
    BY DEF JobTypes
  <2>1. CASE ClaimEligible(w)
    <3>1. PICK S \in SUBSET Claimable(Extraction) : TakeLease(w, S, Extraction)
      BY <2>1 DEF ClaimEligible
    <3> QED BY <2>0, <3>1 DEF Step
  <2>2. CASE ClaimInitialRead(w)
    <3>1. PICK S \in SUBSET Claimable(InitialRead) : TakeLease(w, S, InitialRead)
      BY <2>2 DEF ClaimInitialRead
    <3> QED BY <2>0, <3>1 DEF Step
  <2>3. CASE \E f \in Files : ClaimForFile(w, f)
    <3>1. PICK j \in Claimable(Extraction) : TakeLease(w, {j}, Extraction)
      BY <2>3 DEF ClaimForFile
    <3>2. {j} \in SUBSET Claimable(Extraction)
      OBVIOUS
    <3> QED BY <2>0, <3>1, <3>2 DEF Step
  <2>4. CASE \E f \in Files : ClaimInitialReadForFile(w, f)
    <3>1. PICK j \in Claimable(InitialRead) : TakeLease(w, {j}, InitialRead)
      BY <2>4 DEF ClaimInitialReadForFile
    <3>2. {j} \in SUBSET Claimable(InitialRead)
      OBVIOUS
    <3> QED BY <2>0, <3>1, <3>2 DEF Step
  <2> QED BY <1>3, <2>1, <2>2, <2>3, <2>4 DEF ClaimSome
<1>4. ASSUME NEW c \in claims, Finish(c)
      PROVE  Step
  <2>0. c.attempt \in Nat /\ MaxAttempts \in Nat
    BY MaxAttemptsAssumption DEF TypeOK, Claim
  <2>1. \E row \in Settled(c) : Settle(c, row)
    <3>1. \A outcome \in TerminalStatuses : Completed(jobs[c.job], outcome) \in Settled(c)
      BY DEF Settled
    <3>2. c.attempt < MaxAttempts
             => \A due \in BOOLEAN : Requeued(jobs[c.job], due) \in Settled(c)
      BY DEF Settled
    <3>3. "failed" \in TerminalStatuses /\ "succeeded" \in TerminalStatuses
      BY DEF TerminalStatuses
    <3>4. c.attempt >= MaxAttempts \/ c.attempt < MaxAttempts
      BY <2>0
    <3>5. CASE Conclude(c)
      BY <3>1, <3>5 DEF Conclude
    <3>6. CASE RetryOrFail(c)
      BY <2>0, <3>1, <3>2, <3>3, <3>4, <3>6 DEF RetryOrFail
    <3>7. CASE ConcludeInitialRead(c)
      BY <3>1, <3>3, <3>7 DEF ConcludeInitialRead
    <3>8. CASE RetryInitialRead(c)
      BY <2>0, <3>1, <3>2, <3>3, <3>4, <3>8 DEF RetryInitialRead
    <3> QED BY <1>4, <3>5, <3>6, <3>7, <3>8 DEF Finish
  <2> QED BY <2>1 DEF Step
<1>5. ASSUME NEW w \in Workers, Abort(w)
      PROVE  Step
  BY <1>5 DEF Step
<1>6. ASSUME NEW j \in JobIds, LeaseExpires(j) \/ BecomesDue(j)
      PROVE  Step
  BY <1>6 DEF Step
<1> QED BY <1>1, <1>2, <1>3, <1>4, <1>5, <1>6 DEF Next

-----------------------------------------------------------------------------
(***************************************************************************)
(* Rows: each row update yields a row, and what it does to the columns the *)
(* invariants are about.                                                   *)
(***************************************************************************)

\* The update of requeue yields a row, moves only a running row, and keeps
\* the identity and the attempts of the row.
LEMMA RequeuedFacts ==
    ASSUME NEW r \in Row, NEW due \in BOOLEAN
    PROVE  /\ Requeued(r, due) \in Row
           /\ Requeued(r, due).file = r.file
           /\ Requeued(r, due).type = r.type
           /\ Requeued(r, due).attempts = r.attempts
           /\ r.status = "running" => /\ Requeued(r, due).status = "queued"
                                      /\ Requeued(r, due).lease = "none"
           /\ r.status # "running" => Requeued(r, due) = r
  BY DEF Requeued, Row, Statuses, ActiveStatuses, TerminalStatuses

\* The update of complete likewise; its outcome is terminal.
LEMMA CompletedFacts ==
    ASSUME NEW r \in Row, NEW outcome \in TerminalStatuses
    PROVE  /\ Completed(r, outcome) \in Row
           /\ Completed(r, outcome).file = r.file
           /\ Completed(r, outcome).type = r.type
           /\ Completed(r, outcome).attempts = r.attempts
           /\ r.status = "running" => /\ Completed(r, outcome).status = outcome
                                      /\ Completed(r, outcome).lease = "none"
           /\ r.status # "running" => Completed(r, outcome) = r
  BY DEF Completed, Row, Statuses, ActiveStatuses, TerminalStatuses

\* The update of a reaper: failed exactly at the attempt limit.
LEMMA ReapedFacts ==
    ASSUME NEW r \in Row
    PROVE  /\ Reaped(r) \in Row
           /\ Reaped(r).file = r.file
           /\ Reaped(r).type = r.type
           /\ Reaped(r).attempts = r.attempts
           /\ Reaped(r).lease = "none"
           /\ Reaped(r).status = IF r.attempts >= MaxAttempts THEN "failed" ELSE "queued"
  BY MaxAttemptsAssumption DEF Reaped, Row, Statuses, ActiveStatuses, TerminalStatuses

\* The update of a claim: running, one more attempt, a live lease.
LEMMA LeasedFacts ==
    ASSUME NEW r \in Row
    PROVE  /\ Leased(r) \in Row
           /\ Leased(r).file = r.file
           /\ Leased(r).type = r.type
           /\ Leased(r).attempts = r.attempts + 1
           /\ Leased(r).lease = "live"
           /\ Leased(r).status = "running"
<1>1. r.attempts + 1 \in Nat /\ "running" \in Statuses
  BY DEF Row, Statuses, ActiveStatuses
<1>2. Leased(r) \in Row
  BY <1>1 DEF Leased, Row
<1> QED BY <1>1, <1>2 DEF Leased, Row

\* A fresh row of the insert is a row.
LEMMA NewRowFacts ==
    ASSUME NEW f \in Files, NEW t \in JobTypes
    PROVE  NewRow(f, t) \in Row
  BY DEF NewRow, Row, Statuses, ActiveStatuses, TerminalStatuses

\* A settled execution leaves a row with the identity and the attempts it
\* found; the row is touched only when it was running.
LEMMA SettledFacts ==
    ASSUME TypeOK, NEW c \in claims, NEW row \in Settled(c)
    PROVE  /\ c.job \in JobIds
           /\ row \in Row
           /\ row.file = jobs[c.job].file
           /\ row.type = jobs[c.job].type
           /\ row.attempts = jobs[c.job].attempts
           /\ jobs[c.job].status # "running" => row = jobs[c.job]
           /\ jobs[c.job].status = "running"
                => /\ row.lease = "none"
                   /\ \/ row.status \in TerminalStatuses
                      \/ row.status = "queued" /\ c.attempt < MaxAttempts
<1>1. c.job \in JobIds /\ jobs[c.job] \in Row
  BY DEF TypeOK, Claim
<1>2. CASE \E outcome \in TerminalStatuses : row = Completed(jobs[c.job], outcome)
  BY <1>1, <1>2, CompletedFacts
<1>3. CASE c.attempt < MaxAttempts /\ \E due \in BOOLEAN : row = Requeued(jobs[c.job], due)
  BY <1>1, <1>3, RequeuedFacts
<1> QED BY <1>2, <1>3 DEF Settled

-----------------------------------------------------------------------------
(***************************************************************************)
(* Type correctness.                                                       *)
(***************************************************************************)

\* The initial rows are rows.
LEMMA InitTypeOK == Init => TypeOK
<1> SUFFICES ASSUME Init PROVE TypeOK
  OBVIOUS
<1>1. \A f \in Files : NewRow(f, Extraction) \in Row
  BY NewRowFacts DEF JobTypes
<1>2. (CHOOSE f \in Files : TRUE) \in Files
  BY FilesAssumption
<1>3. \A r \in Row : /\ [r EXCEPT !.eligible = FALSE] \in Row
                     /\ [r EXCEPT !.status = "none"] \in Row
  BY DEF Row, Statuses
<1>4. Backlog \subseteq Row /\ Blank \in Row
  BY <1>1, <1>2, <1>3 DEF Backlog, Blank
<1> QED BY <1>4 DEF Init, TypeOK

\* Every step keeps the types.
LEMMA StepTypeOK ==
    ASSUME TypeOK, Step
    PROVE  TypeOK'
<1> USE DEF TypeOK
<1>1. ASSUME NEW f \in Files, NEW j \in JobIds, Upload(f, j) PROVE TypeOK'
  BY <1>1, NewRowFacts DEF Upload, JobTypes
<1>2. ASSUME NEW f \in Files, NEW t \in JobTypes, NEW j \in JobIds, Enqueue(f, t, j) PROVE TypeOK'
  BY <1>2, NewRowFacts DEF Enqueue
<1>3. ASSUME NEW f \in Files, DeleteFile(f) PROVE TypeOK'
  <2>1. \A j \in JobIds : [jobs[j] EXCEPT !.status = "deleted", !.lease = "none"] \in Row
    BY DEF Row, Statuses
  <2> QED BY <1>3, <2>1 DEF DeleteFile
<1>4. ASSUME NEW S \in SUBSET Expired, Reap(S) PROVE TypeOK'
  BY <1>4, ReapedFacts DEF Reap
<1>5. ASSUME NEW w \in Workers, NEW t \in JobTypes, NEW S \in SUBSET Claimable(t), TakeLease(w, S, t)
      PROVE  TypeOK'
  <2>1. \A j \in S : [job |-> j, attempt |-> jobs[j].attempts + 1, worker |-> w, drain |-> t] \in Claim
    BY DEF Claim, Row, Claimable
  <2> QED BY <1>5, <2>1, LeasedFacts DEF TakeLease
<1>6. ASSUME NEW w \in Workers, Abort(w) PROVE TypeOK'
  BY <1>6 DEF Abort
<1>7. ASSUME NEW c \in claims, NEW row \in Settled(c), Settle(c, row) PROVE TypeOK'
  <2>1. row \in Row
    BY SettledFacts
  <2> QED BY <1>7, <2>1 DEF Settle
<1>8. ASSUME NEW j \in JobIds, LeaseExpires(j) PROVE TypeOK'
  <2>1. [jobs[j] EXCEPT !.lease = "expired"] \in Row
    BY DEF Row
  <2> QED BY <1>8, <2>1 DEF LeaseExpires
<1>9. ASSUME NEW j \in JobIds, BecomesDue(j) PROVE TypeOK'
  <2>1. [jobs[j] EXCEPT !.due = TRUE] \in Row
    BY DEF Row
  <2> QED BY <1>9, <2>1 DEF BecomesDue
<1> QED BY <1>1, <1>2, <1>3, <1>4, <1>5, <1>6, <1>7, <1>8, <1>9 DEF Step

\* The job table, the file table and the drains' claims keep their types.
THEOREM TypeCorrect == Spec => []TypeOK
<1>1. TypeOK /\ [Next]_vars => TypeOK'
  <2>1. CASE Next
    BY <2>1, NextIsStep, StepTypeOK
  <2>2. CASE UNCHANGED vars
    BY <2>2 DEF vars, TypeOK
  <2> QED BY <2>1, <2>2
<1> QED BY InitTypeOK, <1>1, PTL DEF Spec

-----------------------------------------------------------------------------
(***************************************************************************)
(* The inductive invariant QueueInv.                                       *)
(***************************************************************************)

\* The lease columns agree with the status after every step.
LEMMA StepLeaseIffRunning ==
    ASSUME TypeOK, LeaseIffRunning, Step
    PROVE  LeaseIffRunning'
<1> USE DEF TypeOK, LeaseIffRunning
<1>1. ASSUME NEW f \in Files, NEW j \in JobIds, Upload(f, j) PROVE LeaseIffRunning'
  BY <1>1 DEF Upload, NewRow
<1>2. ASSUME NEW f \in Files, NEW t \in JobTypes, NEW j \in JobIds, Enqueue(f, t, j)
      PROVE  LeaseIffRunning'
  BY <1>2 DEF Enqueue, NewRow
<1>3. ASSUME NEW f \in Files, DeleteFile(f) PROVE LeaseIffRunning'
  BY <1>3 DEF DeleteFile, Row
<1>4. ASSUME NEW S \in SUBSET Expired, Reap(S) PROVE LeaseIffRunning'
  BY <1>4, ReapedFacts DEF Reap
<1>5. ASSUME NEW w \in Workers, NEW t \in JobTypes, NEW S \in SUBSET Claimable(t), TakeLease(w, S, t)
      PROVE  LeaseIffRunning'
  BY <1>5, LeasedFacts DEF TakeLease
<1>6. ASSUME NEW w \in Workers, Abort(w) PROVE LeaseIffRunning'
  BY <1>6 DEF Abort
<1>7. ASSUME NEW c \in claims, NEW row \in Settled(c), Settle(c, row) PROVE LeaseIffRunning'
  BY <1>7, SettledFacts DEF Settle, TerminalStatuses
<1>8. ASSUME NEW j \in JobIds, LeaseExpires(j) PROVE LeaseIffRunning'
  BY <1>8 DEF LeaseExpires, Row
<1>9. ASSUME NEW j \in JobIds, BecomesDue(j) PROVE LeaseIffRunning'
  BY <1>9 DEF BecomesDue, Row
<1> QED BY <1>1, <1>2, <1>3, <1>4, <1>5, <1>6, <1>7, <1>8, <1>9 DEF Step

\* What every step but an insert does to row j: it keeps the file and the
\* type, brings nothing into being or back to life, and never lowers attempts.
KeepsIdentity(j) ==
    /\ jobs'[j].file = jobs[j].file
    /\ jobs'[j].type = jobs[j].type
    /\ Active(j)' => Active(j)
    /\ Exists(j)' => Exists(j)
    /\ jobs'[j].status = "none" <=> jobs[j].status = "none"
    /\ jobs'[j].attempts >= jobs[j].attempts

\* Apart from the inserts, every step keeps the identity of every row.
LEMMA RowIdentity ==
    ASSUME TypeOK, Step,
           ~ \E f \in Files, j \in JobIds : Upload(f, j),
           ~ \E f \in Files, t \in JobTypes, j \in JobIds : Enqueue(f, t, j),
           NEW j \in JobIds
    PROVE  KeepsIdentity(j)
<1> USE DEF TypeOK, KeepsIdentity, Active, Exists, ActiveStatuses
<1>0. jobs[j] \in Row /\ jobs[j].attempts \in Nat
  BY DEF Row
<1>3. ASSUME NEW f \in Files, DeleteFile(f) PROVE KeepsIdentity(j)
  <2> DEFINE gone == [jobs[j] EXCEPT !.status = "deleted", !.lease = "none"]
  <2>1. jobs'[j] = IF Exists(j) /\ jobs[j].file = f THEN gone ELSE jobs[j]
    BY <1>3 DEF DeleteFile
  <2>2. /\ gone.file = jobs[j].file /\ gone.type = jobs[j].type
        /\ gone.status = "deleted" /\ gone.attempts = jobs[j].attempts
    BY <1>0 DEF Row
  <2> HIDE DEF gone
  <2> QED BY <1>0, <2>1, <2>2
<1>4. ASSUME NEW S \in SUBSET Expired, Reap(S) PROVE KeepsIdentity(j)
  BY <1>0, <1>4, ReapedFacts DEF Reap, Expired
<1>5. ASSUME NEW w \in Workers, NEW t \in JobTypes, NEW S \in SUBSET Claimable(t),
             TakeLease(w, S, t)
      PROVE  KeepsIdentity(j)
  <2>1. jobs'[j] = IF j \in S THEN Leased(jobs[j]) ELSE jobs[j]
    BY <1>5 DEF TakeLease
  <2>2. j \in S => jobs[j].status = "queued"
    BY DEF Claimable
  <2> QED BY <1>0, <2>1, <2>2, LeasedFacts
<1>6. ASSUME NEW w \in Workers, Abort(w) PROVE KeepsIdentity(j)
  BY <1>0, <1>6 DEF Abort
<1>7. ASSUME NEW c \in claims, NEW row \in Settled(c), Settle(c, row) PROVE KeepsIdentity(j)
  <2>1. jobs'[j] = IF j = c.job THEN row ELSE jobs[j]
    BY <1>7 DEF Settle
  <2> QED BY <1>0, <2>1, SettledFacts DEF TerminalStatuses
<1>8. ASSUME NEW k \in JobIds, LeaseExpires(k) PROVE KeepsIdentity(j)
  BY <1>0, <1>8 DEF LeaseExpires, Row
<1>9. ASSUME NEW k \in JobIds, BecomesDue(k) PROVE KeepsIdentity(j)
  BY <1>0, <1>9 DEF BecomesDue, Row
<1> QED BY <1>3, <1>4, <1>5, <1>6, <1>7, <1>8, <1>9 DEF Step

\* A job has a file, and the unique index holds: an insert checks both, and no
\* other step makes a row active.
LEMMA StepUniqueActive ==
    ASSUME TypeOK, FilesHoldJobs, UniqueActive, Step
    PROVE  FilesHoldJobs' /\ UniqueActive'
<1> USE DEF TypeOK
<1>1. ASSUME NEW f \in Files, NEW j \in JobIds, Upload(f, j)
      PROVE  FilesHoldJobs' /\ UniqueActive'
  <2>1. \A k \in JobIds : k # j => jobs'[k] = jobs[k]
    BY <1>1 DEF Upload
  <2>2. jobs'[j].file = f /\ jobs'[j].status = "queued" /\ files'[f] = "present"
    BY <1>1 DEF Upload, NewRow
  <2>3. \A g \in Files : files[g] = "present" => files'[g] = "present"
    BY <1>1 DEF Upload
  <2>4. \A k \in JobIds : Active(k) => jobs[k].file # f
    BY <1>1 DEF Upload, FilesHoldJobs, Active, Exists, ActiveStatuses
  <2>5. \A k \in JobIds : jobs[k].file \in Files
    BY DEF Row
  <2>6. FilesHoldJobs'
    BY <2>1, <2>2, <2>3, <2>5 DEF FilesHoldJobs, Exists
  <2>7. UniqueActive'
    BY <2>1, <2>2, <2>4 DEF UniqueActive, Active
  <2> QED BY <2>6, <2>7
<1>2. ASSUME NEW f \in Files, NEW t \in JobTypes, NEW j \in JobIds, Enqueue(f, t, j)
      PROVE  FilesHoldJobs' /\ UniqueActive'
  <2>1. \A k \in JobIds : k # j => jobs'[k] = jobs[k]
    BY <1>2 DEF Enqueue
  <2>2. /\ jobs'[j].file = f /\ jobs'[j].type = t /\ jobs'[j].status = "queued"
        /\ files[f] = "present" /\ files' = files
    BY <1>2 DEF Enqueue, NewRow
  <2>3. \A k \in JobIds : Active(k) /\ jobs[k].type = t => jobs[k].file # f
    BY <1>2 DEF Enqueue, ActiveFor
  <2>4. FilesHoldJobs'
    BY <2>1, <2>2 DEF FilesHoldJobs, Exists
  <2>5. UniqueActive'
    BY <2>1, <2>2, <2>3 DEF UniqueActive, Active
  <2> QED BY <2>4, <2>5
<1>3. CASE /\ ~ \E f \in Files, j \in JobIds : Upload(f, j)
           /\ ~ \E f \in Files, t \in JobTypes, j \in JobIds : Enqueue(f, t, j)
  <2>1. \A j \in JobIds : KeepsIdentity(j)
    BY <1>3, RowIdentity
  <2>2. UniqueActive'
    BY <2>1 DEF UniqueActive, KeepsIdentity
  <2>3. ASSUME NEW f \in Files, DeleteFile(f) PROVE FilesHoldJobs'
    <3>1. \A j \in JobIds : Exists(j)' => jobs[j].file # f
      BY <2>3 DEF DeleteFile, Exists, Row
    <3>2. \A g \in Files : g # f => files'[g] = files[g]
      BY <2>3 DEF DeleteFile
    <3>3. \A j \in JobIds : jobs[j].file \in Files
      BY DEF Row
    <3> QED BY <2>1, <3>1, <3>2, <3>3 DEF FilesHoldJobs, KeepsIdentity
  <2>4. CASE files' = files
    BY <2>1, <2>2, <2>4 DEF FilesHoldJobs, KeepsIdentity
  <2>5. files' = files \/ \E f \in Files : DeleteFile(f)
    BY <1>3 DEF Step, Reap, TakeLease, Abort, Settle, LeaseExpires, BecomesDue
  <2> QED BY <2>2, <2>3, <2>4, <2>5
<1> QED BY <1>1, <1>2, <1>3

\* The claims are accounted for: an attempt number is handed out once, is never
\* above the counter of its row, and goes to a drain of the job's type.
LEMMA StepClaims ==
    ASSUME TypeOK, ClaimsAccounted, AttemptNamesClaim, DrainMatchesType, Step
    PROVE  ClaimsAccounted' /\ AttemptNamesClaim' /\ DrainMatchesType'
<1> USE DEF TypeOK
<1>0. /\ \A c \in claims : c.job \in JobIds /\ c.attempt \in Nat
      /\ \A j \in JobIds : jobs[j].attempts \in Nat
  BY DEF Claim, Row
<1>1. ASSUME NEW f \in Files, NEW t \in JobTypes, NEW j \in JobIds, jobs[j].status = "none",
             jobs' = [jobs EXCEPT ![j] = NewRow(f, t)], claims' = claims
      PROVE  ClaimsAccounted' /\ AttemptNamesClaim' /\ DrainMatchesType'
  <2>1. \A c \in claims : c.job # j /\ jobs'[c.job] = jobs[c.job]
    BY <1>0, <1>1 DEF ClaimsAccounted
  <2> QED BY <1>0, <1>1, <2>1 DEF ClaimsAccounted, AttemptNamesClaim, DrainMatchesType
<1>2. CASE /\ ~ \E f \in Files, j \in JobIds : Upload(f, j)
           /\ ~ \E f \in Files, t \in JobTypes, j \in JobIds : Enqueue(f, t, j)
  <2>1. \A j \in JobIds : KeepsIdentity(j)
    BY <1>2, RowIdentity
  <2>2. CASE claims' \subseteq claims
    <3>1. \A c \in claims : c.attempt <= jobs'[c.job].attempts
      <4> SUFFICES ASSUME NEW c \in claims PROVE c.attempt <= jobs'[c.job].attempts
        OBVIOUS
      <4>1. /\ c.job \in JobIds /\ c.attempt \in Nat /\ c.attempt <= jobs[c.job].attempts
            /\ jobs[c.job].attempts \in Nat /\ jobs'[c.job].attempts >= jobs[c.job].attempts
        BY <1>0, <2>1 DEF ClaimsAccounted, KeepsIdentity
      <4>2. jobs'[c.job].attempts \in Nat
        BY StepTypeOK, <4>1 DEF Row
      <4> QED BY <4>1, <4>2
    <3> QED BY <1>0, <2>1, <2>2, <3>1
            DEF ClaimsAccounted, AttemptNamesClaim, DrainMatchesType, KeepsIdentity
  <2>3. ASSUME NEW w \in Workers, NEW t \in JobTypes, NEW S \in SUBSET Claimable(t),
               TakeLease(w, S, t)
        PROVE  ClaimsAccounted' /\ AttemptNamesClaim' /\ DrainMatchesType'
    <3> DEFINE new(j) == [job |-> j, attempt |-> jobs[j].attempts + 1, worker |-> w, drain |-> t]
    <3>1. claims' = claims \cup {new(j) : j \in S}
      BY <2>3 DEF TakeLease
    <3>2. \A j \in S : /\ j \in JobIds /\ jobs[j].type = t /\ jobs[j].status = "queued"
                       /\ jobs'[j].attempts = jobs[j].attempts + 1
                       /\ jobs'[j].type = t /\ jobs'[j].status = "running"
      BY <2>3, LeasedFacts DEF TakeLease, Claimable
    <3>3. \A j \in JobIds \ S : jobs'[j] = jobs[j]
      BY <2>3 DEF TakeLease
    <3>4. ClaimsAccounted'
      <4>1. ASSUME NEW c \in claims
            PROVE  /\ 1 <= c.attempt /\ c.attempt <= jobs'[c.job].attempts
                   /\ jobs'[c.job].status # "none"
        BY <1>0, <3>2, <3>3 DEF ClaimsAccounted
      <4>2. ASSUME NEW j \in S
            PROVE  /\ 1 <= new(j).attempt /\ new(j).attempt <= jobs'[new(j).job].attempts
                   /\ jobs'[new(j).job].status # "none"
        BY <1>0, <3>2
      <4> QED BY <3>1, <4>1, <4>2 DEF ClaimsAccounted
    <3>5. AttemptNamesClaim'
      <4>1. ASSUME NEW c \in claims, NEW j \in S, c.job = j
            PROVE  c.attempt # new(j).attempt
        BY <1>0, <4>1 DEF ClaimsAccounted
      <4>2. ASSUME NEW j \in S, NEW k \in S, new(j).job = new(k).job
            PROVE  new(j) = new(k)
        BY <4>2
      <4>3. \A j \in S : new(j).job = j
        OBVIOUS
      <4> HIDE DEF new
      <4> QED BY <3>1, <4>1, <4>2, <4>3 DEF AttemptNamesClaim
    <3>6. DrainMatchesType'
      <4>1. \A j \in S : new(j).job = j /\ new(j).drain = t
        OBVIOUS
      <4> HIDE DEF new
      <4>2. \A c \in claims : jobs'[c.job].type = c.drain
        BY <1>0, <3>2, <3>3 DEF DrainMatchesType
      <4> QED BY <3>1, <3>2, <4>1, <4>2 DEF DrainMatchesType
    <3> QED BY <3>4, <3>5, <3>6
  <2>4. claims' \subseteq claims \/ \E w \in Workers, t \in JobTypes :
            \E S \in SUBSET Claimable(t) : TakeLease(w, S, t)
    BY <1>2 DEF Step, DeleteFile, Reap, Abort, Settle, LeaseExpires, BecomesDue
  <2> QED BY <2>2, <2>3, <2>4
<1>3. Extraction \in JobTypes
  BY DEF JobTypes
<1> QED BY <1>1, <1>2, <1>3 DEF Upload, Enqueue

\* The low attempt numbers outstanding for a job form a finite set of at most
\* MaxAttempts - 1 numbers.
LEMMA LowClaimsFinite ==
    ASSUME NEW j
    PROVE  /\ IsFiniteSet(LowClaims(j))
           /\ Cardinality(LowClaims(j)) \in Nat
           /\ Cardinality(LowClaims(j)) <= MaxAttempts - 1
<1>1. MaxAttempts - 1 \in Nat
  BY MaxAttemptsAssumption
<1>2. /\ IsFiniteSet(1 .. (MaxAttempts - 1))
      /\ Cardinality(1 .. (MaxAttempts - 1)) = MaxAttempts - 1
  BY <1>1, FS_Interval
<1>3. LowClaims(j) \in SUBSET (1 .. (MaxAttempts - 1))
  BY DEF LowClaims
<1> QED BY <1>2, <1>3, FS_Subset, FS_CardinalityType

\* The same in the next state.
LEMMA LowClaimsFinitePrime ==
    ASSUME NEW j
    PROVE  /\ IsFiniteSet(LowClaims(j)')
           /\ Cardinality(LowClaims(j)') \in Nat
           /\ Cardinality(LowClaims(j)') <= MaxAttempts - 1
<1>1. MaxAttempts - 1 \in Nat
  BY MaxAttemptsAssumption
<1>2. /\ IsFiniteSet(1 .. (MaxAttempts - 1))
      /\ Cardinality(1 .. (MaxAttempts - 1)) = MaxAttempts - 1
  BY <1>1, FS_Interval
<1>3. LowClaims(j)' \in SUBSET (1 .. (MaxAttempts - 1))
  BY DEF LowClaims
<1> QED BY <1>2, <1>3, FS_Subset, FS_CardinalityType

\* Dropping claims drops low claims.
LEMMA FewerLowClaims ==
    ASSUME NEW j, claims' \subseteq claims
    PROVE  Cardinality(LowClaims(j)') <= Cardinality(LowClaims(j))
<1>1. LowClaims(j)' \in SUBSET LowClaims(j)
  BY DEF LowClaims
<1> QED BY <1>1, LowClaimsFinite, FS_Subset

\* The budget of a job whose row keeps its attempts and is not requeued by a
\* step that only drops claims.
LEMMA BudgetKept ==
    ASSUME TypeOK, RequeueBudget, NEW j \in JobIds,
           claims' \subseteq claims,
           jobs'[j].attempts = jobs[j].attempts,
           jobs'[j].status = "queued" /\ jobs[j].attempts >= MaxAttempts => jobs[j].status = "queued",
           jobs'[j].attempts >= MaxAttempts
    PROVE  jobs'[j].attempts + Cardinality(LowClaims(j)')
              + (IF jobs'[j].status = "queued" THEN 1 ELSE 0) <= 2 * MaxAttempts - 1
<1>1. jobs[j].attempts \in Nat /\ MaxAttempts \in Nat
  BY MaxAttemptsAssumption DEF TypeOK, Row
<1>2. jobs[j].attempts + Cardinality(LowClaims(j))
        + (IF jobs[j].status = "queued" THEN 1 ELSE 0) <= 2 * MaxAttempts - 1
  BY DEF RequeueBudget
<1>3. Cardinality(LowClaims(j)') <= Cardinality(LowClaims(j))
  BY FewerLowClaims
<1>4. Cardinality(LowClaims(j)) \in Nat /\ Cardinality(LowClaims(j)') \in Nat
  BY LowClaimsFinite, LowClaimsFinitePrime
<1>5. CASE jobs'[j].status = "queued"
  BY <1>1, <1>2, <1>3, <1>4, <1>5
<1>6. CASE jobs'[j].status # "queued"
  BY <1>1, <1>2, <1>3, <1>4, <1>6
<1> QED BY <1>5, <1>6

\* The requeue budget: a claim spends the pending requeue, a stale requeue
\* spends the low claim that made it, and the reaper requeues nothing at the
\* limit.
LEMMA StepBudget ==
    ASSUME TypeOK, ClaimsAccounted, AttemptNamesClaim, RequeueBudget, Step
    PROVE  RequeueBudget'
<1> DEFINE Bound(j) == jobs'[j].attempts + Cardinality(LowClaims(j)')
                         + (IF jobs'[j].status = "queued" THEN 1 ELSE 0) <= 2 * MaxAttempts - 1
<1> SUFFICES ASSUME NEW j \in JobIds, jobs'[j].attempts >= MaxAttempts
             PROVE  Bound(j)
  BY DEF RequeueBudget
<1>0. /\ jobs[j] \in Row /\ jobs[j].attempts \in Nat /\ MaxAttempts \in Nat /\ MaxAttempts >= 1
      /\ Cardinality(LowClaims(j)) \in Nat /\ Cardinality(LowClaims(j)') \in Nat
      /\ Cardinality(LowClaims(j)') <= MaxAttempts - 1
  BY MaxAttemptsAssumption, LowClaimsFinite, LowClaimsFinitePrime DEF TypeOK, Row
<1>1. ASSUME NEW f \in Files, NEW t \in JobTypes, NEW k \in JobIds, claims' = claims,
             jobs' = [jobs EXCEPT ![k] = NewRow(f, t)]
      PROVE  Bound(j)
  <2>1. CASE j = k
    <3>1. jobs'[j].attempts = 0
      BY <1>1, <2>1 DEF NewRow, TypeOK
    <3> QED BY <1>0, <3>1
  <2>2. CASE j # k
    BY <1>1, <2>2, BudgetKept DEF TypeOK
  <2> QED BY <2>1, <2>2
<1>2. ASSUME NEW f \in Files, DeleteFile(f) PROVE Bound(j)
  <2>1. /\ jobs'[j].attempts = jobs[j].attempts
        /\ jobs'[j].status = jobs[j].status \/ jobs'[j].status = "deleted"
        /\ claims' = claims
    BY <1>0, <1>2 DEF DeleteFile, TypeOK, Row
  <2> QED BY <2>1, BudgetKept
<1>3. ASSUME NEW S \in SUBSET Expired, Reap(S) PROVE Bound(j)
  <2>1. jobs'[j] = IF j \in S THEN Reaped(jobs[j]) ELSE jobs[j]
    BY <1>3 DEF Reap
  <2>2. claims' = claims
    BY <1>3 DEF Reap
  <2> QED BY <1>0, <2>1, <2>2, ReapedFacts, BudgetKept
<1>4. ASSUME NEW w \in Workers, NEW t \in JobTypes, NEW S \in SUBSET Claimable(t),
             TakeLease(w, S, t)
      PROVE  Bound(j)
  <2>1. jobs'[j] = IF j \in S THEN Leased(jobs[j]) ELSE jobs[j]
    BY <1>4 DEF TakeLease
  <2>2. claims' = claims \cup
           {[job |-> k, attempt |-> jobs[k].attempts + 1, worker |-> w, drain |-> t] : k \in S}
    BY <1>4 DEF TakeLease
  <2>3. CASE j \notin S
    <3>1. LowClaims(j)' = LowClaims(j)
      BY <2>2, <2>3 DEF LowClaims
    <3> QED BY <1>0, <2>1, <2>3, <3>1 DEF RequeueBudget
  <2>4. CASE j \in S
    <3>1. /\ jobs[j].status = "queued" /\ jobs'[j].status = "running"
          /\ jobs'[j].attempts = jobs[j].attempts + 1
      BY <1>0, <2>1, <2>4, LeasedFacts DEF Claimable
    <3>2. CASE jobs[j].attempts + 1 = MaxAttempts
      BY <1>0, <3>1, <3>2
    <3>3. CASE jobs[j].attempts >= MaxAttempts
      <4>1. LowClaims(j)' = LowClaims(j)
        BY <1>0, <2>2, <2>4, <3>3 DEF LowClaims
      <4> QED BY <1>0, <3>1, <3>3, <4>1 DEF RequeueBudget
    <3> QED BY <1>0, <3>1, <3>2, <3>3
  <2> QED BY <2>3, <2>4
<1>5. ASSUME NEW w \in Workers, Abort(w) PROVE Bound(j)
  BY <1>5, BudgetKept DEF Abort
<1>6. ASSUME NEW c \in claims, NEW row \in Settled(c), Settle(c, row) PROVE Bound(j)
  <2>0. claims' = claims \ {c} /\ jobs'[j] = IF j = c.job THEN row ELSE jobs[j]
    BY <1>6 DEF Settle, TypeOK
  <2>1. CASE j # c.job \/ jobs[j].status # "running" \/ row.status # "queued"
    BY <2>0, <2>1, SettledFacts, BudgetKept
  <2>2. CASE j = c.job /\ jobs[j].status = "running" /\ row.status = "queued"
    <3>1. /\ c.attempt < MaxAttempts /\ jobs'[j].attempts = jobs[j].attempts
          /\ jobs'[j].status = "queued"
      BY <2>0, <2>2, SettledFacts DEF TerminalStatuses
    <3>2. c.attempt \in 1 .. (MaxAttempts - 1)
      BY <1>0, <3>1 DEF ClaimsAccounted, TypeOK, Claim
    <3>3. LowClaims(j)' = LowClaims(j) \ {c.attempt} /\ c.attempt \in LowClaims(j)
      BY <2>0, <2>2, <3>2 DEF LowClaims, AttemptNamesClaim
    <3>4. Cardinality(LowClaims(j)') = Cardinality(LowClaims(j)) - 1
      BY <3>3, LowClaimsFinite, FS_RemoveElement
    <3> QED BY <1>0, <2>2, <3>1, <3>4 DEF RequeueBudget
  <2> QED BY <2>1, <2>2
<1>7. ASSUME NEW k \in JobIds, LeaseExpires(k) \/ BecomesDue(k) PROVE Bound(j)
  <2>1. /\ jobs'[j].attempts = jobs[j].attempts /\ jobs'[j].status = jobs[j].status
        /\ claims' = claims
    BY <1>0, <1>7 DEF LeaseExpires, BecomesDue, TypeOK, Row
  <2> QED BY <2>1, BudgetKept
<1>8. Extraction \in JobTypes
  BY DEF JobTypes
<1> QED BY <1>1, <1>2, <1>3, <1>4, <1>5, <1>6, <1>7, <1>8 DEF Step, Upload, Enqueue

\* Initial rows are queued backlog or unused ids, never attempted.
LEMMA InitRows ==
    ASSUME Init, NEW j \in JobIds
    PROVE  jobs[j].attempts = 0 /\ jobs[j].lease = "none" /\ jobs[j].status \in {"queued", "none"}
<1>1. jobs[j] \in Backlog \/ jobs[j] = Blank
  BY DEF Init
<1>2. CASE jobs[j] \in Backlog
  <2>1. PICK f \in Files : jobs[j] = [NewRow(f, Extraction) EXCEPT !.eligible = FALSE]
    BY <1>2 DEF Backlog
  <2> QED BY <2>1 DEF NewRow
<1>3. CASE jobs[j] = Blank
  BY <1>3 DEF Blank, NewRow
<1> QED BY <1>1, <1>2, <1>3

\* The initial states satisfy the inductive invariant.
LEMMA InitQueueInv == Init => QueueInv
<1> SUFFICES ASSUME Init PROVE QueueInv
  OBVIOUS
<1>1. TypeOK
  BY InitTypeOK
<1>2. \A j \in JobIds : /\ jobs[j].attempts = 0 /\ jobs[j].lease = "none"
                        /\ jobs[j].status \in {"queued", "none"}
  BY InitRows
<1>3. LeaseIffRunning
  BY <1>2 DEF LeaseIffRunning
<1>4. FilesHoldJobs
  BY <1>1, <1>2 DEF FilesHoldJobs, Exists, Init, Active, ActiveStatuses, TypeOK, Row
<1>5. UniqueActive
  BY <1>2 DEF UniqueActive, Active, ActiveStatuses, Init
<1>6. ClaimsAccounted /\ AttemptNamesClaim /\ DrainMatchesType
  BY DEF Init, ClaimsAccounted, AttemptNamesClaim, DrainMatchesType
<1>7. RequeueBudget
  BY <1>2, MaxAttemptsAssumption DEF RequeueBudget
<1> QED BY <1>1, <1>3, <1>4, <1>5, <1>6, <1>7 DEF QueueInv

\* Every step keeps the inductive invariant.
LEMMA NextQueueInv == QueueInv /\ [Next]_vars => QueueInv'
<1> SUFFICES ASSUME QueueInv, [Next]_vars PROVE QueueInv'
  OBVIOUS
<1>1. CASE Next
  <2>1. Step
    BY <1>1, NextIsStep DEF QueueInv
  <2> QED BY <2>1, StepTypeOK, StepLeaseIffRunning, StepUniqueActive, StepClaims, StepBudget
          DEF QueueInv
<1>2. CASE UNCHANGED vars
  BY <1>2 DEF vars, QueueInv, TypeOK, LeaseIffRunning, FilesHoldJobs, UniqueActive, ClaimsAccounted,
     AttemptNamesClaim, DrainMatchesType, RequeueBudget, LowClaims, Active, Exists
<1> QED BY <1>1, <1>2

\* The invariant of the job table: consistent lease columns, one active job per
\* file and type, attempt numbers that name executions, and the requeue budget.
THEOREM QueueInvariant == Spec => []QueueInv
  BY InitQueueInv, NextQueueInv, PTL DEF Spec

\* A file never has two active jobs of a type: the partial unique index fails no
\* insert, requeue or reap.
THEOREM OneActiveJob == Spec => []UniqueActive
  BY QueueInvariant, PTL DEF QueueInv

\* An attempt number of a job names one execution of it.
THEOREM AttemptsNameExecutions == Spec => []AttemptNamesClaim
  BY QueueInvariant, PTL DEF QueueInv

\* However many drains outlive their leases, a job is executed at most
\* 2 * max_attempts - 1 times.
THEOREM BoundedAttempts == Spec => []AttemptsBounded
<1>1. QueueInv => AttemptsBounded
  <2> SUFFICES ASSUME QueueInv, NEW j \in JobIds
               PROVE  jobs[j].attempts <= 2 * MaxAttempts - 1
    BY DEF AttemptsBounded
  <2>1. jobs[j].attempts \in Nat /\ MaxAttempts \in Nat /\ MaxAttempts >= 1
    BY MaxAttemptsAssumption DEF QueueInv, TypeOK, Row
  <2>2. Cardinality(LowClaims(j)) \in Nat
    BY LowClaimsFinite
  <2>3. CASE jobs[j].attempts >= MaxAttempts
    <3>1. jobs[j].attempts + Cardinality(LowClaims(j))
            + (IF jobs[j].status = "queued" THEN 1 ELSE 0) <= 2 * MaxAttempts - 1
      BY <2>3 DEF QueueInv, RequeueBudget
    <3> QED BY <2>1, <2>2, <3>1
  <2> QED BY <2>1, <2>3
<1> QED BY <1>1, QueueInvariant, PTL

-----------------------------------------------------------------------------
(***************************************************************************)
(* What a step may never do.                                               *)
(***************************************************************************)

\* A stale drain, a reaper or a claim never changes a terminal row.
THEOREM TerminalRowsFinal == Spec => TerminalIsFinal
<1> DEFINE Final == \A j \in JobIds : jobs[j].status \in TerminalStatuses
                       => jobs'[j] = jobs[j] \/ jobs'[j].status = "deleted"
<1>1. QueueInv /\ [Next]_vars => [Final]_vars
  <2> SUFFICES ASSUME QueueInv, Next, NEW j \in JobIds, jobs[j].status \in TerminalStatuses
               PROVE  jobs'[j] = jobs[j] \/ jobs'[j].status = "deleted"
    OBVIOUS
  <2> USE DEF TypeOK
  <2>0. /\ TypeOK /\ Step /\ jobs[j] \in Row
        /\ jobs[j].status \notin {"none", "queued", "running"} /\ jobs[j].lease = "none"
    BY NextIsStep DEF QueueInv, TerminalStatuses, LeaseIffRunning
  <2>1. ASSUME NEW f \in Files, NEW k \in JobIds, Upload(f, k) PROVE jobs'[j] = jobs[j]
    BY <2>0, <2>1 DEF Upload
  <2>2. ASSUME NEW f \in Files, NEW t \in JobTypes, NEW k \in JobIds, Enqueue(f, t, k)
        PROVE  jobs'[j] = jobs[j]
    BY <2>0, <2>2 DEF Enqueue
  <2>3. ASSUME NEW f \in Files, DeleteFile(f)
        PROVE  jobs'[j] = jobs[j] \/ jobs'[j].status = "deleted"
    BY <2>0, <2>3 DEF DeleteFile, Row
  <2>4. ASSUME NEW S \in SUBSET Expired, Reap(S) PROVE jobs'[j] = jobs[j]
    BY <2>0, <2>4 DEF Reap, Expired
  <2>5. ASSUME NEW w \in Workers, NEW t \in JobTypes, NEW S \in SUBSET Claimable(t),
               TakeLease(w, S, t)
        PROVE  jobs'[j] = jobs[j]
    BY <2>0, <2>5 DEF TakeLease, Claimable
  <2>6. ASSUME NEW w \in Workers, Abort(w) PROVE jobs'[j] = jobs[j]
    BY <2>6 DEF Abort
  <2>7. ASSUME NEW c \in claims, NEW row \in Settled(c), Settle(c, row) PROVE jobs'[j] = jobs[j]
    BY <2>0, <2>7, SettledFacts DEF Settle
  <2>8. ASSUME NEW k \in JobIds, LeaseExpires(k) \/ BecomesDue(k) PROVE jobs'[j] = jobs[j]
    BY <2>0, <2>8 DEF LeaseExpires, BecomesDue
  <2> QED BY <2>0, <2>1, <2>2, <2>3, <2>4, <2>5, <2>6, <2>7, <2>8 DEF Step
<1> QED BY <1>1, QueueInvariant, PTL DEF Spec, TerminalIsFinal

\* No drain touches a row of a quarantined file: the claim functions and the
\* reapers refuse it, so no claim on it exists and no lease can run out.
THEOREM QuarantineHolds == Spec => QuarantineUntouched
<1> DEFINE NoClaim == \A c \in claims : jobs[c.job].file \notin Protected
           NotTaken == \A j \in JobIds : jobs[j].file \in Protected /\ Exists(j)
                           => jobs[j].status = "queued" /\ jobs[j].due
           QInv == NoClaim /\ NotTaken
           Kept == \A j \in JobIds : Exists(j) /\ jobs[j].file \in Protected
                       => jobs'[j] = jobs[j] \/ jobs'[j].status = "deleted"
<1>1. Init => QInv
  <2> SUFFICES ASSUME Init PROVE QInv
    OBVIOUS
  <2>1. ASSUME NEW j \in JobIds, jobs[j].file \in Protected, Exists(j)
        PROVE  jobs[j].status = "queued" /\ jobs[j].due
    <3>1. jobs[j] \in Backlog \/ jobs[j] = Blank
      BY DEF Init
    <3>2. CASE jobs[j] = Blank
      BY <2>1, <3>2 DEF Blank, NewRow, Exists
    <3>3. CASE jobs[j] \in Backlog
      <4>1. PICK f \in Files : jobs[j] = [NewRow(f, Extraction) EXCEPT !.eligible = FALSE]
        BY <3>3 DEF Backlog
      <4> QED BY <4>1 DEF NewRow
    <3> QED BY <3>1, <3>2, <3>3
  <2> QED BY <2>1 DEF Init
<1>2. QueueInv /\ QInv /\ [Next]_vars => QInv' /\ [Kept]_vars
  <2>1. ASSUME QueueInv, QInv, UNCHANGED vars PROVE QInv'
    BY <2>1 DEF vars, Exists
  <2>2. ASSUME QueueInv, QInv, Next PROVE QInv' /\ Kept
    <3> USE <2>2 DEF TypeOK
    <3>0. /\ TypeOK /\ Step
          /\ \A c \in claims : c.job \in JobIds
          /\ \A j \in JobIds : jobs[j] \in Row
      BY NextIsStep DEF QueueInv, Claim
    <3>1. ASSUME NEW f \in Files, NEW t \in JobTypes, NEW k \in JobIds, jobs[k].status = "none",
                 jobs' = [jobs EXCEPT ![k] = NewRow(f, t)], claims' = claims
          PROVE  QInv' /\ Kept
      <4>1. \A c \in claims : c.job # k /\ jobs'[c.job] = jobs[c.job]
        BY <3>0, <3>1 DEF QueueInv, ClaimsAccounted
      <4>2. jobs'[k].status = "queued" /\ jobs'[k].due
        BY <3>0, <3>1 DEF NewRow
      <4>3. \A j \in JobIds : j # k => jobs'[j] = jobs[j]
        BY <3>0, <3>1
      <4>4. ~Exists(k)
        BY <3>1 DEF Exists
      <4>5. NoClaim'
        BY <3>1, <4>1
      <4>6. NotTaken'
        BY <4>2, <4>3 DEF Exists
      <4> QED BY <4>3, <4>4, <4>5, <4>6
    <3>2. ASSUME NEW f \in Files, DeleteFile(f) PROVE QInv' /\ Kept
      <4>1. \A j \in JobIds : jobs'[j] = jobs[j] \/ (jobs'[j].status = "deleted" /\ jobs'[j].file = jobs[j].file)
        BY <3>0, <3>2 DEF DeleteFile, Row
      <4>2. claims' = claims
        BY <3>2 DEF DeleteFile
      <4>3. NoClaim'
        BY <3>0, <4>1, <4>2
      <4>4. NotTaken' /\ Kept
        BY <4>1 DEF Exists
      <4> QED BY <4>3, <4>4
    <3>3. ASSUME NEW S \in SUBSET Expired, Reap(S) PROVE QInv' /\ Kept
      <4>1. \A j \in JobIds : jobs[j].file \in Protected => jobs'[j] = jobs[j]
        BY <3>0, <3>3 DEF Reap, Expired
      <4>2. \A j \in JobIds : jobs'[j].file = jobs[j].file
        BY <3>0, <3>3, ReapedFacts DEF Reap
      <4> QED BY <3>0, <3>3, <4>1, <4>2 DEF Reap, Exists
    <3>4. ASSUME NEW w \in Workers, NEW t \in JobTypes, NEW S \in SUBSET Claimable(t),
                 TakeLease(w, S, t)
          PROVE  QInv' /\ Kept
      <4>1. \A j \in JobIds : jobs[j].file \in Protected => jobs'[j] = jobs[j]
        BY <3>0, <3>4 DEF TakeLease, Claimable
      <4>2. \A j \in JobIds : jobs'[j].file = jobs[j].file
        BY <3>0, <3>4, LeasedFacts DEF TakeLease
      <4>3. \A c \in claims' : c \in claims \/ c.job \in S
        BY <3>4 DEF TakeLease
      <4>4. \A j \in S : j \in JobIds /\ jobs[j].file \notin Protected
        BY DEF Claimable
      <4> QED BY <3>0, <4>1, <4>2, <4>3, <4>4 DEF Exists
    <3>5. ASSUME NEW w \in Workers, Abort(w) PROVE QInv' /\ Kept
      BY <3>5 DEF Abort, Exists
    <3>6. ASSUME NEW c \in claims, NEW row \in Settled(c), Settle(c, row) PROVE QInv' /\ Kept
      <4>1. claims' \subseteq claims /\ \A j \in JobIds : jobs'[j] = IF j = c.job THEN row ELSE jobs[j]
        BY <3>0, <3>6 DEF Settle
      <4>2. \A j \in JobIds : jobs'[j].file = jobs[j].file
        BY <3>0, <4>1, SettledFacts
      <4>3. \A j \in JobIds : jobs[j].file \in Protected => jobs'[j] = jobs[j]
        BY <3>0, <4>1
      <4> QED BY <3>0, <4>1, <4>2, <4>3 DEF Exists
    <3>7. ASSUME NEW k \in JobIds, LeaseExpires(k) \/ BecomesDue(k) PROVE QInv' /\ Kept
      <4>1. \A j \in JobIds : jobs'[j].file = jobs[j].file
        BY <3>0, <3>7 DEF LeaseExpires, BecomesDue, Row
      <4>2. \A j \in JobIds : Exists(j)' => Exists(j)
        BY <3>0, <3>7 DEF LeaseExpires, BecomesDue, Row, Exists
      <4>3. \A j \in JobIds : jobs[j].file \in Protected /\ Exists(j) => jobs'[j] = jobs[j]
        BY <3>0, <3>7 DEF LeaseExpires, BecomesDue, QueueInv, LeaseIffRunning
      <4>4. claims' = claims
        BY <3>7 DEF LeaseExpires, BecomesDue
      <4> QED BY <3>0, <4>1, <4>2, <4>3, <4>4
    <3>8. Extraction \in JobTypes
      BY DEF JobTypes
    <3> QED BY <3>0, <3>1, <3>2, <3>3, <3>4, <3>5, <3>6, <3>7, <3>8 DEF Step, Upload, Enqueue
  <2> QED BY <2>1, <2>2
<1> QED BY <1>1, <1>2, QueueInvariant, PTL DEF Spec, QuarantineUntouched

-----------------------------------------------------------------------------
(***************************************************************************)
(* Mutual exclusion, for deployments where a lease outlives its execution. *)
(***************************************************************************)

\* A job no drain holds satisfies the exclusion invariant as soon as its
\* attempts are within the limit: stated per job, for the next state.
ExclusiveRow(j) ==
    /\ \A c, d \in claims : c.job = j /\ d.job = j => c = d
    /\ \A c \in claims : c.job = j /\ jobs[j].status # "deleted"
          => jobs[j].status = "running" /\ jobs[j].attempts = c.attempt
    /\ jobs[j].attempts <= MaxAttempts
    /\ jobs[j].lease = "expired" => \A c \in claims : c.job # j
    /\ jobs[j].status = "queued" => jobs[j].attempts < MaxAttempts

\* The exclusion invariant is the conjunction of its rows.
LEMMA ExclusiveByRow ==
    ASSUME TypeOK, LeaseOutlivesRun
    PROVE  ExclusiveInv <=> \A j \in JobIds : ExclusiveRow(j)
<1>1. \A c \in claims : c.job \in JobIds
  BY DEF TypeOK, Claim
<1> QED BY <1>1 DEF ExclusiveInv, ExclusiveExecution, ExclusiveRow

\* The same in the next state.
LEMMA ExclusiveByRowPrime ==
    ASSUME TypeOK', LeaseOutlivesRun
    PROVE  ExclusiveInv' <=> \A j \in JobIds : ExclusiveRow(j)'
<1>1. \A c \in claims' : c.job \in JobIds
  BY DEF TypeOK, Claim
<1> QED BY <1>1 DEF ExclusiveInv, ExclusiveExecution, ExclusiveRow

\* Every step keeps each row exclusive.
LEMMA StepExclusive ==
    ASSUME QueueInv, LeaseOutlivesRun, \A j \in JobIds : ExclusiveRow(j), Step,
           NEW j \in JobIds
    PROVE  ExclusiveRow(j)'
<1> USE DEF TypeOK
<1>0. /\ TypeOK /\ jobs[j] \in Row /\ jobs[j].attempts \in Nat
      /\ MaxAttempts \in Nat /\ MaxAttempts >= 1
      /\ \A c \in claims : c.job \in JobIds /\ c.attempt \in Nat
      /\ ExclusiveRow(j)
  BY MaxAttemptsAssumption DEF QueueInv, Claim, Row
<1>1. ASSUME NEW f \in Files, NEW t \in JobTypes, NEW k \in JobIds, jobs[k].status = "none",
             jobs' = [jobs EXCEPT ![k] = NewRow(f, t)], claims' = claims
      PROVE  ExclusiveRow(j)'
  <2>1. \A c \in claims : c.job # k
    BY <1>1 DEF QueueInv, ClaimsAccounted
  <2>2. j = k => /\ jobs'[j].attempts = 0 /\ jobs'[j].lease = "none" /\ jobs'[j].status = "queued"
    BY <1>0, <1>1 DEF NewRow
  <2>3. j # k => jobs'[j] = jobs[j]
    BY <1>0, <1>1
  <2> QED BY <1>0, <1>1, <2>1, <2>2, <2>3 DEF ExclusiveRow
<1>2. ASSUME NEW f \in Files, DeleteFile(f) PROVE ExclusiveRow(j)'
  <2>1. \/ jobs'[j] = jobs[j]
        \/ /\ jobs'[j].status = "deleted" /\ jobs'[j].lease = "none"
           /\ jobs'[j].attempts = jobs[j].attempts
    BY <1>0, <1>2 DEF DeleteFile, Row
  <2> QED BY <1>0, <1>2, <2>1 DEF DeleteFile, ExclusiveRow
<1>3. ASSUME NEW S \in SUBSET Expired, Reap(S) PROVE ExclusiveRow(j)'
  <2>1. jobs'[j] = (IF j \in S THEN Reaped(jobs[j]) ELSE jobs[j]) /\ claims' = claims
    BY <1>0, <1>3 DEF Reap
  <2>2. j \in S => jobs[j].lease = "expired"
    BY DEF Expired
  <2> QED BY <1>0, <2>1, <2>2, ReapedFacts DEF ExclusiveRow
<1>4. ASSUME NEW w \in Workers, NEW t \in JobTypes, NEW S \in SUBSET Claimable(t),
             TakeLease(w, S, t)
      PROVE  ExclusiveRow(j)'
  <2> DEFINE new(k) == [job |-> k, attempt |-> jobs[k].attempts + 1, worker |-> w, drain |-> t]
  <2>1. jobs'[j] = (IF j \in S THEN Leased(jobs[j]) ELSE jobs[j])
    BY <1>0, <1>4 DEF TakeLease
  <2>2. claims' = claims \cup {new(k) : k \in S}
    BY <1>4 DEF TakeLease
  <2>3. \A k \in S : new(k).job = k /\ new(k).attempt = jobs[k].attempts + 1
    OBVIOUS
  <2>4. j \in S => jobs[j].status = "queued"
    BY DEF Claimable
  <2> HIDE DEF new
  <2>5. CASE j \in S
    <3>1. \A c \in claims : c.job # j
      BY <1>0, <2>4, <2>5 DEF ExclusiveRow
    <3>2. \A c \in claims' : c.job = j => c = new(j)
      BY <2>2, <2>3, <3>1
    <3>3. /\ jobs'[j].status = "running" /\ jobs'[j].attempts = jobs[j].attempts + 1
          /\ jobs'[j].lease = "live"
      BY <1>0, <2>1, <2>5, LeasedFacts
    <3>4. jobs[j].attempts < MaxAttempts
      BY <1>0, <2>4, <2>5 DEF ExclusiveRow
    <3> QED BY <1>0, <2>3, <2>5, <3>2, <3>3, <3>4 DEF ExclusiveRow
  <2>6. CASE j \notin S
    <3>1. \A c \in claims' : c.job = j => c \in claims
      BY <2>2, <2>3, <2>6
    <3> QED BY <1>0, <2>1, <2>2, <2>6, <3>1 DEF ExclusiveRow
  <2> QED BY <2>5, <2>6
<1>5. ASSUME NEW w \in Workers, Abort(w) PROVE ExclusiveRow(j)'
  BY <1>0, <1>5 DEF Abort, ExclusiveRow
<1>6. ASSUME NEW c \in claims, NEW row \in Settled(c), Settle(c, row) PROVE ExclusiveRow(j)'
  <2>1. claims' = claims \ {c} /\ jobs'[j] = IF j = c.job THEN row ELSE jobs[j]
    BY <1>0, <1>6 DEF Settle
  <2>2. CASE j # c.job
    BY <1>0, <2>1, <2>2 DEF ExclusiveRow
  <2>3. CASE j = c.job
    <3>1. \A d \in claims' : d.job # j
      BY <1>0, <2>1, <2>3 DEF ExclusiveRow
    <3>2. jobs'[j] = row /\ row.attempts = jobs[j].attempts
      BY <1>0, <2>1, <2>3, SettledFacts
    <3>3. row.status = "queued" => row.attempts < MaxAttempts
      BY <1>0, <2>3, <3>2, SettledFacts DEF ExclusiveRow, TerminalStatuses
    <3> QED BY <1>0, <3>1, <3>2, <3>3 DEF ExclusiveRow
  <2> QED BY <2>2, <2>3
<1>7. ASSUME NEW k \in JobIds, LeaseExpires(k) PROVE ExclusiveRow(j)'
  <2>1. \A c \in claims : c.job # k
    BY <1>7 DEF LeaseExpires
  <2>2. /\ claims' = claims /\ jobs'[j].status = jobs[j].status
        /\ jobs'[j].attempts = jobs[j].attempts /\ (j # k => jobs'[j] = jobs[j])
    BY <1>0, <1>7 DEF LeaseExpires, Row
  <2> QED BY <1>0, <2>1, <2>2 DEF ExclusiveRow
<1>8. ASSUME NEW k \in JobIds, BecomesDue(k) PROVE ExclusiveRow(j)'
  <2>1. /\ claims' = claims /\ jobs'[j].status = jobs[j].status
        /\ jobs'[j].attempts = jobs[j].attempts /\ jobs'[j].lease = jobs[j].lease
    BY <1>0, <1>8 DEF BecomesDue, Row
  <2> QED BY <1>0, <2>1 DEF ExclusiveRow
<1>9. Extraction \in JobTypes
  BY DEF JobTypes
<1> QED BY <1>1, <1>2, <1>3, <1>4, <1>5, <1>6, <1>7, <1>8, <1>9 DEF Step, Upload, Enqueue

\* SKIP LOCKED claims plus leases that outlive executions give mutual
\* exclusion and honour max_attempts, for any number of drains and crashes.
THEOREM Exclusion == Spec => []ExclusiveExecution
<1>1. Init => ExclusiveInv
  <2> SUFFICES ASSUME Init PROVE ExclusiveInv
    OBVIOUS
  <2>1. claims = {} /\ \A j \in JobIds : jobs[j].attempts = 0 /\ jobs[j].lease = "none"
    BY InitRows DEF Init
  <2> QED BY <2>1, MaxAttemptsAssumption DEF ExclusiveInv, ExclusiveExecution
<1>2. QueueInv /\ ExclusiveInv /\ [Next]_vars => ExclusiveInv'
  <2> SUFFICES ASSUME QueueInv, ExclusiveInv, [Next]_vars PROVE ExclusiveInv'
    OBVIOUS
  <2>1. CASE UNCHANGED vars
    BY <2>1 DEF vars, ExclusiveInv, ExclusiveExecution
  <2>2. CASE ~LeaseOutlivesRun
    BY <2>2 DEF ExclusiveInv, ExclusiveExecution
  <2>3. CASE Next /\ LeaseOutlivesRun
    <3>1. TypeOK /\ Step /\ TypeOK'
      BY <2>3, NextIsStep, NextQueueInv DEF QueueInv
    <3>2. \A j \in JobIds : ExclusiveRow(j)
      BY <2>3, <3>1, ExclusiveByRow
    <3>3. \A j \in JobIds : ExclusiveRow(j)'
      BY <2>3, <3>1, <3>2, StepExclusive
    <3> QED BY <2>3, <3>1, <3>3, ExclusiveByRowPrime
  <2> QED BY <2>1, <2>2, <2>3
<1>3. ExclusiveInv => ExclusiveExecution
  BY DEF ExclusiveInv
<1> QED BY <1>1, <1>2, <1>3, QueueInvariant, PTL DEF Spec

-----------------------------------------------------------------------------
(***************************************************************************)
(* Exclusion per file.  The lease excludes executions of one job; that it  *)
(* excludes executions for one file takes the unique index as well, and,   *)
(* for the claims whose rows were cascaded away, that a file never returns.*)
(***************************************************************************)
\* A cascaded row's file is gone for good.
Cascaded == \A j \in JobIds : jobs[j].status = "deleted" => files[jobs[j].file] = "deleted"

\* No step brings a deleted file back, or deletes a row but with its file.
LEMMA StepCascaded ==
    ASSUME TypeOK, Cascaded, Step
    PROVE  Cascaded'
<1> SUFFICES ASSUME NEW j \in JobIds, jobs'[j].status = "deleted"
             PROVE  files'[jobs'[j].file] = "deleted"
  BY DEF Cascaded
<1> USE DEF TypeOK
<1>0. jobs[j] \in Row /\ (jobs[j].status = "deleted" => files[jobs[j].file] = "deleted")
  BY DEF Cascaded
<1>1. ASSUME NEW f \in Files, NEW t \in JobTypes, NEW k \in JobIds,
             jobs' = [jobs EXCEPT ![k] = NewRow(f, t)],
             files' = files \/ (files[f] = "absent" /\ files' = [files EXCEPT ![f] = "present"])
      PROVE  files'[jobs'[j].file] = "deleted"
  <2>1. NewRow(f, t).status = "queued"
    BY DEF NewRow
  <2> QED BY <1>0, <1>1, <2>1 DEF Row
<1>2. ASSUME NEW f \in Files, DeleteFile(f) PROVE files'[jobs'[j].file] = "deleted"
  <2>1. jobs'[j] = jobs[j] \/ (jobs[j].file = f /\ jobs'[j].file = f)
    BY <1>0, <1>2 DEF DeleteFile, Row
  <2> QED BY <1>0, <1>2, <2>1 DEF DeleteFile, Row
<1>3. ASSUME NEW S \in SUBSET Expired, Reap(S) PROVE files'[jobs'[j].file] = "deleted"
  <2>1. files' = files /\ jobs'[j] = IF j \in S THEN Reaped(jobs[j]) ELSE jobs[j]
    BY <1>3 DEF Reap
  <2> QED BY <1>0, <2>1, ReapedFacts
<1>4. ASSUME NEW w \in Workers, NEW t \in JobTypes, NEW S \in SUBSET Claimable(t),
             TakeLease(w, S, t)
      PROVE  files'[jobs'[j].file] = "deleted"
  <2>1. files' = files /\ jobs'[j] = IF j \in S THEN Leased(jobs[j]) ELSE jobs[j]
    BY <1>4 DEF TakeLease
  <2> QED BY <1>0, <2>1, LeasedFacts
<1>5. ASSUME NEW w \in Workers, Abort(w) PROVE files'[jobs'[j].file] = "deleted"
  BY <1>0, <1>5 DEF Abort
<1>6. ASSUME NEW c \in claims, NEW row \in Settled(c), Settle(c, row)
      PROVE  files'[jobs'[j].file] = "deleted"
  <2>1. files' = files /\ jobs'[j] = IF j = c.job THEN row ELSE jobs[j]
    BY <1>6 DEF Settle
  <2> QED BY <1>0, <2>1, SettledFacts DEF TerminalStatuses
<1>7. ASSUME NEW k \in JobIds, LeaseExpires(k) \/ BecomesDue(k)
      PROVE  files'[jobs'[j].file] = "deleted"
  <2>1. files' = files /\ jobs'[j].status = jobs[j].status /\ jobs'[j].file = jobs[j].file
    BY <1>0, <1>7 DEF LeaseExpires, BecomesDue, Row
  <2> QED BY <1>0, <2>1
<1>9. Extraction \in JobTypes
  BY DEF JobTypes
<1> QED BY <1>1, <1>2, <1>3, <1>4, <1>5, <1>6, <1>7, <1>9 DEF Step, Upload, Enqueue

\* The job of a claim keeps its file, whatever happens to its row.
LEMMA ClaimKeepsFile ==
    ASSUME QueueInv, [Next]_vars, NEW c \in claims
    PROVE  jobs'[c.job].file = jobs[c.job].file
<1> USE DEF TypeOK
<1>0. TypeOK /\ c.job \in JobIds /\ jobs[c.job].status # "none"
  BY DEF QueueInv, Claim, ClaimsAccounted
<1>1. CASE UNCHANGED vars
  BY <1>1 DEF vars
<1>2. CASE \/ \E f \in Files, j \in JobIds : Upload(f, j)
           \/ \E f \in Files, t \in JobTypes, j \in JobIds : Enqueue(f, t, j)
  BY <1>0, <1>2 DEF Upload, Enqueue
<1>3. CASE /\ Next
           /\ ~ \E f \in Files, j \in JobIds : Upload(f, j)
           /\ ~ \E f \in Files, t \in JobTypes, j \in JobIds : Enqueue(f, t, j)
  BY <1>0, <1>3, NextIsStep, RowIdentity DEF KeepsIdentity
<1> QED BY <1>1, <1>2, <1>3

\* A claim is never given out for a file that has an execution of its kind.
LEMMA StepOnePerFile ==
    ASSUME QueueInv, ExclusiveExecution, Cascaded, OnePerFile, Step
    PROVE  OnePerFile'
<1> SUFFICES ASSUME LeaseOutlivesRun PROVE OnePerFile'
  BY DEF OnePerFile
<1> USE DEF TypeOK
<1>0. /\ TypeOK
      /\ \A c \in claims : c.job \in JobIds /\ jobs[c.job] \in Row
      /\ \A c, d \in claims : c.drain = d.drain /\ jobs[c.job].file = jobs[d.job].file => c = d
  BY DEF QueueInv, Claim, OnePerFile
<1>1. ASSUME NEW S \in SUBSET claims, claims' = S,
             \A c \in S : jobs'[c.job].file = jobs[c.job].file
      PROVE  OnePerFile'
  BY <1>0, <1>1 DEF OnePerFile
<1>2. ASSUME NEW f \in Files, NEW t \in JobTypes, NEW k \in JobIds, jobs[k].status = "none",
             jobs' = [jobs EXCEPT ![k] = NewRow(f, t)], claims' = claims
      PROVE  OnePerFile'
  <2>1. \A c \in claims : c.job # k
    BY <1>2 DEF QueueInv, ClaimsAccounted
  <2>2. \A c \in claims : jobs'[c.job] = jobs[c.job]
    BY <1>0, <1>2, <2>1
  <2> QED BY <1>1, <1>2, <2>2
<1>3. CASE \/ \E f \in Files, j \in JobIds : Upload(f, j)
           \/ \E f \in Files, t \in JobTypes, j \in JobIds : Enqueue(f, t, j)
  BY <1>2, <1>3 DEF Upload, Enqueue, JobTypes
<1>4. ASSUME NEW w \in Workers, NEW t \in JobTypes, NEW S \in SUBSET Claimable(t),
             TakeLease(w, S, t)
      PROVE  OnePerFile'
  <2> DEFINE new(k) == [job |-> k, attempt |-> jobs[k].attempts + 1, worker |-> w, drain |-> t]
  <2>1. claims' = claims \cup {new(k) : k \in S}
    BY <1>4 DEF TakeLease
  <2>2. \A k \in JobIds : jobs'[k].file = jobs[k].file
    BY <1>0, <1>4, LeasedFacts DEF TakeLease
  <2>3. \A k \in S : new(k).job = k /\ new(k).drain = t
    OBVIOUS
  <2> HIDE DEF new
  <2>4. \A k \in S : k \in JobIds /\ jobs[k].status = "queued" /\ jobs[k].type = t
                     /\ Active(k) /\ Exists(k)
    BY DEF Claimable, Active, Exists, ActiveStatuses
  <2>5. ASSUME NEW k \in S, NEW m \in S, jobs[k].file = jobs[m].file PROVE k = m
    BY <2>4, <2>5 DEF QueueInv, UniqueActive
  <2>6. ASSUME NEW k \in S, NEW d \in claims, d.drain = t, jobs[d.job].file = jobs[k].file
        PROVE  FALSE
    <3>1. jobs[d.job].type = t
      BY <2>6 DEF QueueInv, DrainMatchesType
    <3>2. files[jobs[k].file] = "present"
      BY <2>4 DEF QueueInv, FilesHoldJobs
    <3>3. jobs[d.job].status # "deleted"
      BY <1>0, <2>6, <3>2 DEF Cascaded
    <3>4. jobs[d.job].status = "running"
      BY <3>3 DEF ExclusiveExecution
    <3>5. Active(d.job)
      BY <3>4 DEF Active, ActiveStatuses
    <3>6. d.job = k
      BY <1>0, <2>4, <2>6, <3>1, <3>5 DEF QueueInv, UniqueActive
    <3> QED BY <2>4, <3>4, <3>6
  <2>7. ASSUME NEW c \in claims', NEW d \in claims', c.drain = d.drain,
               jobs'[c.job].file = jobs'[d.job].file
        PROVE  c = d
    <3>1. CASE c \in claims /\ d \in claims
      BY <1>0, <2>2, <2>7, <3>1
    <3>2. ASSUME NEW k \in S, c = new(k), d \in claims PROVE FALSE
      BY <1>0, <2>2, <2>3, <2>4, <2>6, <2>7, <3>2
    <3>3. ASSUME NEW k \in S, d = new(k), c \in claims PROVE FALSE
      BY <1>0, <2>2, <2>3, <2>4, <2>6, <2>7, <3>3
    <3>4. ASSUME NEW k \in S, NEW m \in S, c = new(k), d = new(m) PROVE c = d
      BY <2>2, <2>3, <2>4, <2>5, <2>7, <3>4
    <3> QED BY <2>1, <3>1, <3>2, <3>3, <3>4
  <2> QED BY <2>7 DEF OnePerFile
<1>5. CASE /\ ~ \E f \in Files, j \in JobIds : Upload(f, j)
           /\ ~ \E f \in Files, t \in JobTypes, j \in JobIds : Enqueue(f, t, j)
           /\ claims' \subseteq claims
  <2>1. \A c \in claims : jobs'[c.job].file = jobs[c.job].file
    BY <1>0, <1>5, RowIdentity DEF KeepsIdentity
  <2> QED BY <1>1, <1>5, <2>1
<1>6. CASE ~ \E w \in Workers, t \in JobTypes : \E S \in SUBSET Claimable(t) : TakeLease(w, S, t)
  <2>1. claims' \subseteq claims
    BY <1>6 DEF Step, Upload, Enqueue, DeleteFile, Reap, Abort, Settle, LeaseExpires, BecomesDue
  <2> QED BY <1>3, <1>5, <2>1
<1> QED BY <1>4, <1>6

\* The files of cascaded rows are gone for good, and with that a file has one
\* execution of a kind at a time.
THEOREM FilesExclude == Spec => [](Cascaded /\ OnePerFile)
<1>1. Init => Cascaded /\ OnePerFile
  <2> SUFFICES ASSUME Init PROVE Cascaded /\ OnePerFile
    OBVIOUS
  <2>1. claims = {} /\ \A j \in JobIds : jobs[j].status \in {"queued", "none"}
    BY InitRows DEF Init
  <2> QED BY <2>1 DEF Cascaded, OnePerFile
<1>2. QueueInv /\ ExclusiveExecution /\ Cascaded /\ OnePerFile /\ [Next]_vars
        => Cascaded' /\ OnePerFile'
  <2> SUFFICES ASSUME QueueInv, ExclusiveExecution, Cascaded, OnePerFile, [Next]_vars
               PROVE  Cascaded' /\ OnePerFile'
    OBVIOUS
  <2>1. CASE Next
    BY <2>1, NextIsStep, StepCascaded, StepOnePerFile DEF QueueInv
  <2>2. CASE UNCHANGED vars
    BY <2>2 DEF vars, Cascaded, OnePerFile
  <2> QED BY <2>1, <2>2
<1> QED BY <1>1, <1>2, QueueInvariant, Exclusion, PTL DEF Spec

\* Where leases outlive executions, a file has one execution of a kind at a time,
\* also when the rows of its executions were cascaded away under them.
THEOREM OneExecutionPerFile == Spec => []OnePerFile
  BY FilesExclude, PTL

(***************************************************************************)
(* The job table implements the ledger of accepted work (JobLedger).       *)
(***************************************************************************)
\* A running row has been claimed, so its execution is counted: the one fact
\* about single rows that closing "only after a try" needs.
Tried == \A j \in JobIds : jobs[j].status = "running" => jobs[j].attempts >= 1

\* The statuses of the table map into the states of the ledger.
LEMMA LedgerStates ==
    /\ LedgerState("none") = "unknown"
    /\ LedgerState("queued") = "open"
    /\ LedgerState("running") = "open"
    /\ LedgerState("succeeded") = "succeeded"
    /\ LedgerState("failed") = "failed"
    /\ LedgerState("deleted") = "gone"
  BY SMT DEF LedgerState, ActiveStatuses, TerminalStatuses

\* No step leaves a running row without a counted execution.
LEMMA StepTried ==
    ASSUME TypeOK, Tried, Step
    PROVE  Tried'
<1> SUFFICES ASSUME NEW j \in JobIds, jobs'[j].status = "running"
             PROVE  jobs'[j].attempts >= 1
  BY DEF Tried
<1> USE DEF TypeOK
<1>0. jobs[j] \in Row /\ jobs[j].attempts \in Nat /\ Tried
  BY DEF Row
<1>1. ASSUME NEW f \in Files, NEW t \in JobTypes, NEW k \in JobIds,
             jobs' = [jobs EXCEPT ![k] = NewRow(f, t)]
      PROVE  jobs'[j].attempts >= 1
  <2>1. NewRow(f, t).status = "queued"
    BY DEF NewRow
  <2> QED BY <1>0, <1>1, <2>1 DEF Tried
<1>2. ASSUME NEW f \in Files, DeleteFile(f) PROVE jobs'[j].attempts >= 1
  <2>1. jobs'[j] = jobs[j] \/ jobs'[j].status = "deleted"
    BY <1>0, <1>2 DEF DeleteFile, Row
  <2> QED BY <1>0, <2>1 DEF Tried
<1>3. ASSUME NEW S \in SUBSET Expired, Reap(S) PROVE jobs'[j].attempts >= 1
  <2>1. jobs'[j] = IF j \in S THEN Reaped(jobs[j]) ELSE jobs[j]
    BY <1>3 DEF Reap
  <2> QED BY <1>0, <2>1, ReapedFacts DEF Tried
<1>4. ASSUME NEW w \in Workers, NEW t \in JobTypes, NEW S \in SUBSET Claimable(t),
             TakeLease(w, S, t)
      PROVE  jobs'[j].attempts >= 1
  <2>1. jobs'[j] = IF j \in S THEN Leased(jobs[j]) ELSE jobs[j]
    BY <1>4 DEF TakeLease
  <2> QED BY <1>0, <2>1, LeasedFacts DEF Tried
<1>5. ASSUME NEW w \in Workers, Abort(w) PROVE jobs'[j].attempts >= 1
  BY <1>0, <1>5 DEF Abort, Tried
<1>6. ASSUME NEW c \in claims, NEW row \in Settled(c), Settle(c, row)
      PROVE  jobs'[j].attempts >= 1
  <2>1. jobs'[j] = IF j = c.job THEN row ELSE jobs[j]
    BY <1>6 DEF Settle
  <2>2. j = c.job => row.attempts = jobs[j].attempts
                     /\ (row.status = "running" => jobs[j].status = "running")
    BY SettledFacts DEF TerminalStatuses
  <2> QED BY <1>0, <2>1, <2>2 DEF Tried
<1>7. ASSUME NEW k \in JobIds, LeaseExpires(k) \/ BecomesDue(k)
      PROVE  jobs'[j].attempts >= 1
  <2>1. jobs'[j].status = jobs[j].status /\ jobs'[j].attempts = jobs[j].attempts
    BY <1>0, <1>7 DEF LeaseExpires, BecomesDue, Row
  <2> QED BY <1>0, <2>1 DEF Tried
<1>9. Extraction \in JobTypes
  BY DEF JobTypes
<1> QED BY <1>1, <1>2, <1>3, <1>4, <1>5, <1>6, <1>7, <1>9 DEF Step, Upload, Enqueue

-----------------------------------------------------------------------------
\* The empty table, or the backlog, is an initial ledger.
LEMMA InitIsLedgerInit == Init => Ledger!Init
<1> SUFFICES ASSUME Init PROVE Ledger!Init
  OBVIOUS
<1>1. \A j \in JobIds : jobs[j].status \in {"none", "queued"} /\ jobs[j].attempts = 0
  BY InitRows
<1>2. \A j \in JobIds : LedgerState(jobs[j].status) \in {"unknown", "open"}
  BY <1>1, LedgerStates
<1> QED BY <1>1, <1>2 DEF Ledger!Init, LedgerView
\* A queued job still has an execution left in its budget.
LEMMA ClaimableHasBudget ==
    ASSUME QueueInv, NEW j \in JobIds, jobs[j].status = "queued"
    PROVE  jobs[j].attempts < 2 * MaxAttempts - 1
<1>1. jobs[j].attempts \in Nat /\ MaxAttempts \in Nat /\ MaxAttempts >= 1
  BY MaxAttemptsAssumption DEF QueueInv, TypeOK, Row
<1>2. Cardinality(LowClaims(j)) \in Nat
  BY LowClaimsFinite, FS_CardinalityType
<1>3. CASE jobs[j].attempts >= MaxAttempts
  BY <1>1, <1>2, <1>3 DEF QueueInv, RequeueBudget
<1>4. CASE jobs[j].attempts < MaxAttempts
  BY <1>1, <1>4
<1> QED BY <1>1, <1>3, <1>4

\* Every step of the table is a step of the ledger or invisible in it.
LEMMA StepIsLedgerStep ==
    ASSUME QueueInv, Tried, Step
    PROVE  [Ledger!Next]_LedgerView
<1> USE DEF TypeOK
<1>0. /\ TypeOK
      /\ \A j \in JobIds : jobs[j] \in Row /\ jobs[j].attempts \in Nat
      /\ \A c \in claims : c.job \in JobIds
  BY DEF QueueInv, Row, Claim
<1>1. \A j \in JobIds :
         /\ LedgerView[j].state = LedgerState(jobs[j].status)
         /\ LedgerView[j].tries = jobs[j].attempts
  BY DEF LedgerView
<1>2. ASSUME \A j \in JobIds : /\ LedgerState(jobs'[j].status) = LedgerState(jobs[j].status)
                              /\ jobs'[j].attempts = jobs[j].attempts
      PROVE  LedgerView' = LedgerView
  BY <1>2 DEF LedgerView
<1>3. ASSUME NEW f \in Files, NEW t \in JobTypes, NEW k \in JobIds, jobs[k].status = "none",
             jobs' = [jobs EXCEPT ![k] = NewRow(f, t)]
      PROVE  Ledger!Accept(k)
  <2>1. NewRow(f, t).status = "queued" /\ NewRow(f, t).attempts = 0
    BY DEF NewRow
  <2>2. LedgerView[k].state = "unknown"
    BY <1>1, <1>3, LedgerStates
  <2>3. LedgerView' = [LedgerView EXCEPT ![k] = [state |-> "open", tries |-> 0]]
    BY <1>0, <1>3, <2>1, LedgerStates DEF LedgerView
  <2> QED BY <2>2, <2>3 DEF Ledger!Accept
<1>4. ASSUME NEW f \in Files, DeleteFile(f)
      PROVE  \E S \in SUBSET JobIds : Ledger!Withdraw(S)
  <2> DEFINE S == {j \in JobIds : Exists(j) /\ jobs[j].file = f}
  <2>1. \A j \in S : LedgerView[j].state # "unknown"
    <3>1. \A j \in S : jobs[j].status \in {"queued", "running", "succeeded", "failed"}
      BY <1>0 DEF Exists, Row, Statuses, ActiveStatuses, TerminalStatuses
    <3> QED BY <1>1, <3>1, LedgerStates
  <2>2. \A j \in JobIds :
           IF j \in S THEN jobs'[j].status = "deleted" /\ jobs'[j].attempts = jobs[j].attempts
                      ELSE jobs'[j] = jobs[j]
    BY <1>0, <1>4 DEF DeleteFile, Row
  <2>3. LedgerView' = [j \in JobIds |->
            IF j \in S THEN [LedgerView[j] EXCEPT !.state = "gone"] ELSE LedgerView[j]]
    <3> HIDE DEF S
    <3> QED BY <2>2, LedgerStates DEF LedgerView
  <2> QED BY <2>1, <2>3 DEF Ledger!Withdraw
<1>5. ASSUME NEW S \in SUBSET Expired, Reap(S)
      PROVE  \E T \in SUBSET JobIds : Ledger!Close(T, "failed")
  <2> DEFINE T == {j \in S : jobs[j].attempts >= MaxAttempts}
  <2>1. \A j \in S : j \in JobIds /\ jobs[j].status = "running"
    BY DEF Expired
  <2>2. \A j \in T : LedgerView[j].state = "open" /\ LedgerView[j].tries >= 1
    BY <1>0, <1>1, <2>1, LedgerStates DEF Tried
  <2>3. \A j \in JobIds : jobs'[j] = IF j \in S THEN Reaped(jobs[j]) ELSE jobs[j]
    BY <1>5 DEF Reap
  <2>4. \A j \in JobIds : /\ jobs'[j].attempts = jobs[j].attempts
                          /\ LedgerState(jobs'[j].status) =
                               IF j \in T THEN "failed" ELSE LedgerState(jobs[j].status)
    BY <1>0, <2>1, <2>3, ReapedFacts, LedgerStates
  <2>5. LedgerView' = [j \in JobIds |->
            IF j \in T THEN [LedgerView[j] EXCEPT !.state = "failed"] ELSE LedgerView[j]]
    <3> HIDE DEF T
    <3> QED BY <2>4 DEF LedgerView
  <2>6. T \in SUBSET JobIds
    BY <2>1
  <2> QED BY <2>2, <2>5, <2>6 DEF Ledger!Close
<1>6. ASSUME NEW w \in Workers, NEW t \in JobTypes, NEW S \in SUBSET Claimable(t),
             TakeLease(w, S, t)
      PROVE  S \in SUBSET JobIds /\ Ledger!Try(S)
  <2>1. \A j \in S : j \in JobIds /\ jobs[j].status = "queued"
    BY DEF Claimable
  <2>2. \A j \in S : LedgerView[j].state = "open" /\ LedgerView[j].tries < 2 * MaxAttempts - 1
    BY <1>1, <2>1, LedgerStates, ClaimableHasBudget
  <2>3. \A j \in JobIds : jobs'[j] = IF j \in S THEN Leased(jobs[j]) ELSE jobs[j]
    BY <1>6 DEF TakeLease
  <2>4. \A j \in JobIds :
           /\ jobs'[j].attempts = IF j \in S THEN jobs[j].attempts + 1 ELSE jobs[j].attempts
           /\ LedgerState(jobs'[j].status) = LedgerState(jobs[j].status)
    BY <1>0, <2>1, <2>3, LeasedFacts, LedgerStates
  <2>5. LedgerView' = [j \in JobIds |->
            IF j \in S THEN [LedgerView[j] EXCEPT !.tries = @ + 1] ELSE LedgerView[j]]
    BY <2>4 DEF LedgerView
  <2> QED BY <2>1, <2>2, <2>5 DEF Ledger!Try
<1>7. ASSUME NEW c \in claims, NEW row \in Settled(c), Settle(c, row)
      PROVE  \/ LedgerView' = LedgerView
             \/ \E outcome \in {"succeeded", "failed"} : Ledger!Close({c.job}, outcome)
  <2>1. /\ c.job \in JobIds /\ row.attempts = jobs[c.job].attempts
        /\ \A j \in JobIds : jobs'[j] = IF j = c.job THEN row ELSE jobs[j]
    BY <1>0, <1>7, SettledFacts DEF Settle
  <2>2. CASE jobs[c.job].status # "running" \/ row.status = "queued"
    <3>1. LedgerState(row.status) = LedgerState(jobs[c.job].status)
      BY <1>0, <2>2, SettledFacts, LedgerStates
    <3> QED BY <1>2, <2>1, <3>1
  <2>3. CASE jobs[c.job].status = "running" /\ row.status \in TerminalStatuses
    <3>1. LedgerView[c.job].state = "open" /\ LedgerView[c.job].tries >= 1
      BY <1>1, <2>1, <2>3, LedgerStates DEF Tried
    <3>2. LedgerState(row.status) = row.status /\ row.status \in {"succeeded", "failed"}
      BY <2>3, LedgerStates DEF TerminalStatuses
    <3>3. LedgerView' = [j \in JobIds |->
              IF j \in {c.job} THEN [LedgerView[j] EXCEPT !.state = row.status] ELSE LedgerView[j]]
      BY <2>1, <3>2 DEF LedgerView
    <3>4. Ledger!Close({c.job}, row.status)
      BY <3>1, <3>3 DEF Ledger!Close
    <3> QED BY <3>2, <3>4
  <2> QED BY <1>0, <2>2, <2>3, SettledFacts
<1>8. ASSUME NEW w \in Workers, Abort(w) PROVE LedgerView' = LedgerView
  BY <1>8, <1>2 DEF Abort
<1>9. ASSUME NEW k \in JobIds, LeaseExpires(k) \/ BecomesDue(k) PROVE LedgerView' = LedgerView
  <2>1. \A j \in JobIds : jobs'[j].status = jobs[j].status /\ jobs'[j].attempts = jobs[j].attempts
    BY <1>0, <1>9 DEF LeaseExpires, BecomesDue, Row
  <2> QED BY <1>2, <2>1
<1>10. Extraction \in JobTypes
  BY DEF JobTypes
<1>11. \A c \in claims : {c.job} \in SUBSET JobIds
  BY <1>0
<1>12. ASSUME NEW j \in JobIds, Ledger!Accept(j) PROVE Ledger!Next
  BY <1>12 DEF Ledger!Next
<1>13. ASSUME NEW S \in SUBSET JobIds, Ledger!Withdraw(S) \/ Ledger!Try(S) PROVE Ledger!Next
  BY <1>13 DEF Ledger!Next
<1>14. ASSUME NEW S \in SUBSET JobIds, NEW outcome \in {"succeeded", "failed"},
              Ledger!Close(S, outcome)
       PROVE  Ledger!Next
  BY <1>14 DEF Ledger!Next, Ledger!Closed
<1>15. ASSUME NEW f \in Files, NEW k \in JobIds, Upload(f, k) PROVE Ledger!Next
  BY <1>3, <1>10, <1>12, <1>15 DEF Upload
<1>16. ASSUME NEW f \in Files, NEW t \in JobTypes, NEW k \in JobIds, Enqueue(f, t, k)
       PROVE  Ledger!Next
  BY <1>3, <1>12, <1>16 DEF Enqueue
<1>17. CASE \E f \in Files : DeleteFile(f)
  BY <1>4, <1>13, <1>17
<1>18. CASE \E S \in SUBSET Expired : Reap(S)
  BY <1>5, <1>14, <1>18
<1>19. CASE \E w \in Workers, t \in JobTypes : \E S \in SUBSET Claimable(t) : TakeLease(w, S, t)
  BY <1>6, <1>13, <1>19
<1>20. CASE \E c \in claims : \E row \in Settled(c) : Settle(c, row)
  BY <1>7, <1>11, <1>14, <1>20
<1> QED BY <1>8, <1>9, <1>15, <1>16, <1>17, <1>18, <1>19, <1>20 DEF Step

\* The job table implements the ledger: at most 2 * max_attempts - 1 executions
\* of an accepted job, one outcome, and only after it was tried.
THEOREM QueueImplementsLedger == Spec => ImplementsLedger
<1>1. Init => Tried
  BY InitRows DEF Tried
<1>2. QueueInv /\ Tried /\ [Next]_vars => Tried'
  <2> SUFFICES ASSUME QueueInv, Tried, [Next]_vars PROVE Tried'
    OBVIOUS
  <2>1. CASE Next
    BY <2>1, NextIsStep, StepTried DEF QueueInv
  <2>2. CASE UNCHANGED vars
    BY <2>2 DEF vars, Tried
  <2> QED BY <2>1, <2>2
<1>3. QueueInv /\ Tried /\ [Next]_vars => [Ledger!Next]_LedgerView
  <2> SUFFICES ASSUME QueueInv, Tried, [Next]_vars PROVE [Ledger!Next]_LedgerView
    OBVIOUS
  <2>1. CASE Next
    BY <2>1, NextIsStep, StepIsLedgerStep DEF QueueInv
  <2>2. CASE UNCHANGED vars
    BY <2>2 DEF vars, LedgerView
  <2> QED BY <2>1, <2>2
<1> QED BY <1>1, <1>2, <1>3, InitIsLedgerInit, QueueInvariant, PTL
        DEF Spec, ImplementsLedger, Ledger!Spec

HIDE DEF Present

-----------------------------------------------------------------------------
(***************************************************************************)
(* FileExtraction.                                                         *)
(***************************************************************************)
\* A settled extraction is one of the two ends JobQueue leaves open.
LEMMA ReportedEnds ==
    ASSUME NEW c \in claims, c.drain = Extraction,
           \/ Settle(c, Completed(jobs[c.job], "succeeded"))
           \/ Settle(c, Completed(jobs[c.job], "failed"))
    PROVE  Conclude(c)
  BY DEF Conclude, TerminalStatuses

\* Every step of the pipeline is a step of the job table or leaves it alone.
LEMMA PipeStepIsQueueStep ==
    ASSUME PipeNext, notices \in SUBSET Notice
    PROVE  [Next]_vars
<1>0. Extraction \in JobTypes /\ InitialRead \in JobTypes
  BY DEF JobTypes
<1>1. CASE PipeProduce
  BY <1>0, <1>1 DEF PipeProduce, Next, Produce
<1>2. ASSUME NEW f \in Files, PipeDelete(f) PROVE [Next]_vars
  BY <1>2 DEF PipeDelete, Next, Produce
<1>3. ASSUME NEW w \in Workers, PipeClaim(w) \/ PipeAbort(w) PROVE [Next]_vars
  BY <1>3 DEF PipeClaim, PipeAbort, Next
<1>4. ASSUME NEW c \in claims, Execute(c) PROVE [Next]_vars
  <2>1. CASE Begin(c) \/ BeginRaises(c) \/ FindsNoBytes(c) \/ Parse(c) \/ BeginPersist(c)
    BY <2>1 DEF Begin, BeginRaises, FindsNoBytes, Parse, BeginPersist
  <2>2. CASE Persist(c) \/ Raise(c) \/ MarkFailed(c) \/ MarkRaises(c)
    BY <2>2 DEF Persist, Raise, MarkFailed, MarkRaises
  <2>3. CASE Succeed(c) \/ Refuse(c)
    BY <2>3, ReportedEnds DEF Succeed, Refuse, Next, Finish
  <2>4. CASE Retry(c)
    BY <2>4 DEF Retry, Next, Finish
  <2> QED BY <1>4, <2>1, <2>2, <2>3, <2>4 DEF Execute
<1>5. ASSUME NEW c \in claims, EndInitialRead(c) PROVE [Next]_vars
  BY <1>5 DEF EndInitialRead, Next, Finish
<1>6. ASSUME NEW n \in notices, n.file \in Files, Notify(n) PROVE [Next]_vars
  BY <1>0, <1>6 DEF Notify, Next, Produce
<1>7. \A n \in notices : n.file \in Files
  BY DEF Notice
<1> QED BY <1>1, <1>2, <1>3, <1>4, <1>5, <1>6, <1>7 DEF PipeNext

-----------------------------------------------------------------------------
(***************************************************************************)
(* Types.                                                                  *)
(***************************************************************************)
DocTypes == doc \in [Files -> Doc]
StageTypes == stage \in [claims -> {"waiting"} \cup Running \cup Reports]
NoticeTypes == notices \in SUBSET Notice

\* What the pipeline may write to the row of f.
Writes(f) ==
    {FreshDoc(doc[f].content), Persisted(doc[f]),
     [doc[f] EXCEPT !.extraction = "extracting", !.index = "not_indexed"],
     [doc[f] EXCEPT !.index = "indexing"],
     [doc[f] EXCEPT !.status = "failed", !.extraction = "failed", !.index = "not_indexed"],
     [doc[f] EXCEPT !.status = "failed", !.extraction = "failed", !.index = "failed"]}

\* A step writes at most one file row, and only one of these values.
LEMMA DocChange ==
    ASSUME TypeOK, PipeNext
    PROVE  doc' = doc \/ \E f \in Files : \E d \in Writes(f) : doc' = [doc EXCEPT ![f] = d]
<1> DEFINE G == doc' = doc \/ \E f \in Files : \E d \in Writes(f) : doc' = [doc EXCEPT ![f] = d]
<1>0. \A c \in claims : FileOf(c) \in Files
  BY DEF TypeOK, FileOf, Claim, Row
<1>1. ASSUME NEW f \in Files, NEW d \in Writes(f), doc' = Written(f, d) PROVE G
  BY <1>1 DEF Written
<1>2. CASE PipeProduce \/ \E w \in Workers : PipeClaim(w) \/ PipeAbort(w)
  BY <1>2 DEF PipeProduce, PipeClaim, PipeAbort, docVars
<1>3. ASSUME NEW f \in Files, PipeDelete(f) PROVE G
  BY <1>3 DEF PipeDelete, Writes
<1>4. ASSUME NEW c \in claims, Execute(c) PROVE G
  <2> DEFINE f == FileOf(c)
  <2>0. f \in Files
    BY <1>0
  <2>1. CASE Begin(c)
    <3>1. doc' = Written(f, [doc[f] EXCEPT !.extraction = "extracting", !.index = "not_indexed"])
      BY <2>1 DEF Begin
    <3> HIDE DEF f
    <3> QED BY <1>1, <2>0, <3>1 DEF Writes
  <2>2. CASE FindsNoBytes(c)
    <3>1. doc' = Written(f, [doc[f] EXCEPT !.status = "failed", !.extraction = "failed",
                                           !.index = "not_indexed"])
      BY <2>2 DEF FindsNoBytes
    <3> HIDE DEF f
    <3> QED BY <1>1, <2>0, <3>1 DEF Writes
  <2>3. CASE Parse(c)
    <3>1. doc' = Written(f, [doc[f] EXCEPT !.index = "indexing"])
      BY <2>3 DEF Parse
    <3> HIDE DEF f
    <3> QED BY <1>1, <2>0, <3>1 DEF Writes
  <2>4. CASE Persist(c)
    <3>1. doc' = [doc EXCEPT ![f] = Persisted(doc[f])]
      BY <2>4 DEF Persist
    <3> HIDE DEF f
    <3> QED BY <2>0, <3>1 DEF Writes
  <2>5. CASE MarkFailed(c)
    <3>1. doc' = Written(f, [doc[f] EXCEPT !.status = "failed", !.extraction = "failed",
                                           !.index = "failed"])
      BY <2>5 DEF MarkFailed
    <3> HIDE DEF f
    <3> QED BY <1>1, <2>0, <3>1 DEF Writes
  <2>6. CASE BeginRaises(c) \/ BeginPersist(c) \/ Raise(c) \/ MarkRaises(c)
    BY <2>6 DEF BeginRaises, BeginPersist, Raise, MarkRaises
  <2>7. CASE Succeed(c) \/ Refuse(c) \/ Retry(c)
    BY <2>7 DEF Succeed, Refuse, Retry
  <2> QED BY <1>4, <2>1, <2>2, <2>3, <2>4, <2>5, <2>6, <2>7 DEF Execute
<1>5. CASE (\E c \in claims : EndInitialRead(c)) \/ (\E n \in notices : Notify(n))
  BY <1>5 DEF EndInitialRead, Notify
<1> QED BY <1>2, <1>3, <1>4, <1>5 DEF PipeNext

\* Each write is a file row.
LEMMA WritesTyped ==
    ASSUME DocTypes, NEW f \in Files, NEW d \in Writes(f)
    PROVE  d \in Doc
<1>1. doc[f] \in Doc
  BY DEF DocTypes
<1>2. CASE d = FreshDoc(doc[f].content)
  BY <1>1, <1>2 DEF FreshDoc, Doc
<1>3. CASE d = Persisted(doc[f])
  <2>1. CASE doc[f].content \in {"complete", "partial"}
    BY <1>1, <1>3, <2>1 DEF Persisted, Doc
  <2>2. CASE doc[f].content = "textless"
    BY <1>1, <1>3, <2>2 DEF Persisted, Doc
  <2>3. CASE doc[f].content \notin {"complete", "partial", "textless"}
    BY <1>1, <1>3, <2>3 DEF Persisted, Doc
  <2> QED BY <2>1, <2>2, <2>3
<1>4. CASE d = [doc[f] EXCEPT !.extraction = "extracting", !.index = "not_indexed"]
  BY <1>1, <1>4 DEF Doc
<1>5. CASE d = [doc[f] EXCEPT !.index = "indexing"]
  BY <1>1, <1>5 DEF Doc
<1>6. CASE d = [doc[f] EXCEPT !.status = "failed", !.extraction = "failed", !.index = "not_indexed"]
  BY <1>1, <1>6 DEF Doc
<1>7. CASE d = [doc[f] EXCEPT !.status = "failed", !.extraction = "failed", !.index = "failed"]
  BY <1>1, <1>7 DEF Doc
<1> QED BY <1>2, <1>3, <1>4, <1>5, <1>6, <1>7 DEF Writes

\* The file rows keep their type.
LEMMA StepDocTypes ==
    ASSUME TypeOK, DocTypes, PipeNext
    PROVE  DocTypes'
<1>1. \A f \in Files : \A d \in Writes(f) : d \in Doc
  BY WritesTyped
<1> QED BY <1>1, DocChange DEF DocTypes

\* A row's claims are backed by its page and chunk rows.
Backed(d) ==
    (d.extraction \in {"complete", "partial"} \/ d.index = "indexed" \/ d.status = "ready")
        => d.rows

\* Each write leaves a row that is backed, if it was backed before.
LEMMA WritesBacked ==
    ASSUME DocTypes, NEW f \in Files, Backed(doc[f]), NEW d \in Writes(f)
    PROVE  Backed(d)
<1>1. doc[f] \in Doc
  BY DEF DocTypes
<1>2. CASE d = FreshDoc(doc[f].content)
  BY <1>2 DEF FreshDoc, Backed
<1>3. CASE d = Persisted(doc[f])
  <2>1. CASE doc[f].content \in {"complete", "partial", "textless"}
    BY <1>1, <1>3, <2>1 DEF Persisted, Doc, Backed
  <2>2. CASE doc[f].content \notin {"complete", "partial", "textless"}
    BY <1>1, <1>3, <2>2 DEF Persisted, Doc, Backed
  <2> QED BY <2>1, <2>2
<1>4. CASE d = [doc[f] EXCEPT !.extraction = "extracting", !.index = "not_indexed"]
  BY <1>1, <1>4 DEF Doc, Backed
<1>5. CASE d = [doc[f] EXCEPT !.index = "indexing"]
  BY <1>1, <1>5 DEF Doc, Backed
<1>6. CASE d = [doc[f] EXCEPT !.status = "failed", !.extraction = "failed", !.index = "not_indexed"]
  BY <1>1, <1>6 DEF Doc, Backed
<1>7. CASE d = [doc[f] EXCEPT !.status = "failed", !.extraction = "failed", !.index = "failed"]
  BY <1>1, <1>7 DEF Doc, Backed
<1> QED BY <1>2, <1>3, <1>4, <1>5, <1>6, <1>7 DEF Writes

\* A step keeps every file row backed.
LEMMA StepBacked ==
    ASSUME TypeOK, DocTypes, ClaimsAreBacked, PipeNext
    PROVE  ClaimsAreBacked'
<1>1. \A f \in Files : Backed(doc[f])
  BY DEF ClaimsAreBacked, Backed
<1>2. \A f \in Files : \A d \in Writes(f) : Backed(d)
  BY <1>1, WritesBacked
<1>3. \A f \in Files : Backed(doc'[f])
  BY <1>1, <1>2, DocChange DEF DocTypes
<1> QED BY <1>3 DEF ClaimsAreBacked, Backed

\* The drains' program counters and announcements keep their type.
LEMMA StepStageTypes ==
    ASSUME TypeOK, StageTypes, NoticeTypes, PipeNext
    PROVE  StageTypes' /\ NoticeTypes'
<1> DEFINE S == {"waiting"} \cup Running \cup Reports
           G == StageTypes' /\ NoticeTypes'
<1>0. /\ \A c \in claims : FileOf(c) \in Files /\ c.worker \in Workers
      /\ stage \in [claims -> S]
  BY DEF TypeOK, FileOf, Claim, Row, StageTypes
<1>1. ASSUME NEW c \in claims, NEW s \in S, Advance(c, s), claims' = claims, notices' = notices
      PROVE  G
  BY <1>0, <1>1 DEF Advance, StageTypes, NoticeTypes
<1>2. ASSUME NEW c \in claims, Dismiss(c), claims' = claims \ {c},
             notices' = notices \/ \E success \in BOOLEAN : Announce(c, success)
      PROVE  G
  <2>1. StageTypes'
    BY <1>0, <1>2 DEF Dismiss, StageTypes
  <2>2. NoticeTypes'
    BY <1>0, <1>2 DEF Announce, NoticeTypes, Notice
  <2> QED BY <2>1, <2>2
<1>3. CASE PipeProduce
  <2>1. claims' = claims
    BY <1>3 DEF PipeProduce, Upload, Enqueue, ReapAny, ReapEligible, ReapForFile, ReapInitialRead,
                Reap, LeaseExpires, BecomesDue
  <2> QED BY <1>3, <2>1 DEF PipeProduce, docVars, StageTypes, NoticeTypes
<1>4. ASSUME NEW f \in Files, PipeDelete(f) PROVE G
  BY <1>4 DEF PipeDelete, DeleteFile, StageTypes, NoticeTypes
<1>5. ASSUME NEW w \in Workers, PipeClaim(w) PROVE G
  BY <1>0, <1>5 DEF PipeClaim, StageTypes, NoticeTypes
<1>6. ASSUME NEW w \in Workers, PipeAbort(w) PROVE G
  <2>1. claims' \subseteq claims
    BY <1>6 DEF PipeAbort, Abort, vars
  <2> QED BY <1>0, <1>6, <2>1 DEF PipeAbort, StageTypes, NoticeTypes
<1>7. ASSUME NEW c \in claims, Execute(c) PROVE G
  <2> USE DEF Running, Reports, vars
  <2>1. CASE Begin(c)
    <3>1. \E s \in {"parsing", "unusable"} : Advance(c, s)
      BY <2>1 DEF Begin
    <3> QED BY <1>1, <2>1, <3>1 DEF Begin
  <2>2. CASE BeginRaises(c) \/ FindsNoBytes(c) \/ Parse(c)
    BY <1>1, <2>2 DEF BeginRaises, FindsNoBytes, Parse
  <2>3. CASE BeginPersist(c)
    <3>1. \E s \in {"inserting", "overwriting"} : Advance(c, s)
      BY <2>3 DEF BeginPersist
    <3> QED BY <1>1, <2>3, <3>1 DEF BeginPersist
  <2>4. CASE Persist(c)
    <3>1. \E s \in {"succeeded", "unusable"} : Advance(c, s)
      BY <2>4 DEF Persist
    <3> QED BY <1>1, <2>4, <3>1 DEF Persist
  <2>5. CASE Raise(c) \/ MarkFailed(c) \/ MarkRaises(c)
    BY <1>1, <2>5 DEF Raise, MarkFailed, MarkRaises
  <2>6. CASE Succeed(c) \/ Refuse(c)
    BY <1>2, <2>6 DEF Succeed, Refuse, Settle
  <2>7. CASE Retry(c)
    BY <1>2, <2>7 DEF Retry, RetryOrFail, Settle
  <2> QED BY <1>7, <2>1, <2>2, <2>3, <2>4, <2>5, <2>6, <2>7 DEF Execute
<1>8. ASSUME NEW c \in claims, EndInitialRead(c) PROVE G
  BY <1>2, <1>8 DEF EndInitialRead, ConcludeInitialRead, RetryInitialRead, Settle
<1>9. ASSUME NEW n \in notices, Notify(n) PROVE G
  <2>1. claims' = claims
    BY <1>9 DEF Notify, Enqueue, vars
  <2> QED BY <1>9, <2>1 DEF Notify, StageTypes, NoticeTypes
<1> QED BY <1>3, <1>4, <1>5, <1>6, <1>7, <1>8, <1>9 DEF PipeNext

-----------------------------------------------------------------------------
(***************************************************************************)
(* The theorems.                                                           *)
(***************************************************************************)
PipeInv == PipeTypeOK /\ ClaimsAreBacked

LEMMA InitPipeInv == PipeInit => PipeInv
<1> SUFFICES ASSUME PipeInit PROVE PipeInv
  OBVIOUS
<1>1. TypeOK
  BY InitTypeOK DEF PipeInit
<1>2. \A f \in Files : \E kind \in Contents : doc[f] = FreshDoc(kind)
  BY DEF PipeInit
<1>3. \A kind \in Contents : FreshDoc(kind) \in Doc /\ Backed(FreshDoc(kind))
  BY ContentsAssumption DEF FreshDoc, Doc, Backed
<1>4. doc \in [Files -> Doc]
  BY <1>2, <1>3 DEF PipeInit
<1>5. stage \in [claims -> {"waiting"} \cup Running \cup Reports] /\ notices \in SUBSET Notice
  BY DEF PipeInit, Init
<1>6. ClaimsAreBacked
  BY <1>2, <1>3 DEF ClaimsAreBacked, Backed
<1> QED BY <1>1, <1>4, <1>5, <1>6 DEF PipeInv, PipeTypeOK

LEMMA NextPipeInv == PipeInv /\ [PipeNext]_pipeVars => PipeInv' /\ [Next]_vars
<1> SUFFICES ASSUME PipeInv, [PipeNext]_pipeVars PROVE PipeInv' /\ [Next]_vars
  OBVIOUS
<1>1. CASE PipeNext
  <2>1. TypeOK /\ DocTypes /\ StageTypes /\ NoticeTypes /\ ClaimsAreBacked
    BY DEF PipeInv, PipeTypeOK, DocTypes, StageTypes, NoticeTypes
  <2>2. [Next]_vars
    BY <1>1, <2>1, PipeStepIsQueueStep DEF NoticeTypes
  <2>3. TypeOK'
    <3>1. CASE Next
      BY <2>1, <3>1, NextIsStep, StepTypeOK
    <3>2. CASE UNCHANGED vars
      BY <2>1, <3>2 DEF vars, TypeOK
    <3> QED BY <2>2, <3>1, <3>2
  <2>4. DocTypes' /\ ClaimsAreBacked' /\ StageTypes' /\ NoticeTypes'
    BY <1>1, <2>1, StepDocTypes, StepBacked, StepStageTypes
  <2> QED BY <2>2, <2>3, <2>4 DEF PipeInv, PipeTypeOK, DocTypes, StageTypes, NoticeTypes
<1>2. CASE UNCHANGED pipeVars
  BY <1>2 DEF pipeVars, docVars, vars, PipeInv, PipeTypeOK, TypeOK, ClaimsAreBacked
<1> QED BY <1>1, <1>2

\* The job rows, file rows, executions and notices keep their types.
THEOREM PipelineTypes == PipeSpec => []PipeTypeOK
  BY InitPipeInv, NextPipeInv, PTL DEF PipeSpec, PipeInv

\* A file row claims extracted, indexed or ready only while its page and chunk
\* rows are in place: for any mix of documents, overlapping executions, crashes
\* and cancellations.
THEOREM PipelineClaims == PipeSpec => []ClaimsAreBacked
  BY InitPipeInv, NextPipeInv, PTL DEF PipeSpec, PipeInv

\* Every step of the pipeline is built on one of the job table, so that what is
\* proved of the table can be used of the pipeline.
LEMMA PipeIsQueue == PipeSpec => Spec
<1>1. PipeInit => Init
  BY DEF PipeInit
<1> QED BY <1>1, InitPipeInv, NextPipeInv, PTL DEF PipeSpec, Spec

-----------------------------------------------------------------------------
\* Past its first look, an execution is an extraction.
Extracting == \A c \in claims : stage[c] # "waiting" => c.drain = Extraction

LEMMA StepExtracting ==
    ASSUME TypeOK, StageTypes, Extracting, PipeNext
    PROVE  Extracting'
<1>1. ASSUME NEW c \in claims, c.drain = Extraction, NEW s, Advance(c, s), claims' = claims
      PROVE  Extracting'
  BY <1>1 DEF Advance, Extracting, StageTypes
<1>2. ASSUME claims' \subseteq claims, stage' = [c \in claims' |-> stage[c]] PROVE Extracting'
  BY <1>2 DEF Extracting
<1>3. ASSUME claims' = claims, stage' = stage PROVE Extracting'
  BY <1>3 DEF Extracting
<1>4. CASE PipeProduce
  BY <1>3, <1>4 DEF PipeProduce, Upload, Enqueue, ReapAny, ReapEligible, ReapForFile,
                    ReapInitialRead, Reap, LeaseExpires, BecomesDue, docVars
<1>5. ASSUME NEW f \in Files, PipeDelete(f) PROVE Extracting'
  BY <1>3, <1>5 DEF PipeDelete, DeleteFile
<1>6. ASSUME NEW w \in Workers, PipeClaim(w) PROVE Extracting'
  BY <1>6 DEF PipeClaim, Extracting
<1>7. ASSUME NEW w \in Workers, PipeAbort(w) PROVE Extracting'
  BY <1>2, <1>7 DEF PipeAbort, Abort, vars
<1>8. ASSUME NEW c \in claims, Execute(c) PROVE Extracting'
  <2>1. CASE Begin(c) \/ BeginRaises(c)
    BY <1>1, <2>1 DEF Begin, BeginRaises, vars
  <2>2. CASE \/ FindsNoBytes(c) \/ Parse(c) \/ BeginPersist(c) \/ Persist(c)
            \/ Raise(c) \/ MarkFailed(c) \/ MarkRaises(c)
    <3>1. c.drain = Extraction
      BY <2>2 DEF FindsNoBytes, Parse, BeginPersist, Persist, Raise, MarkFailed, MarkRaises,
                  Running, Extracting
    <3>2. claims' = claims /\ \E s : Advance(c, s)
      BY <2>2 DEF FindsNoBytes, Parse, BeginPersist, Persist, Raise, MarkFailed, MarkRaises, vars
    <3> QED BY <1>1, <3>1, <3>2
  <2>3. CASE Succeed(c) \/ Refuse(c) \/ Retry(c)
    BY <1>2, <2>3 DEF Succeed, Refuse, Retry, RetryOrFail, Settle, Dismiss
  <2> QED BY <1>8, <2>1, <2>2, <2>3 DEF Execute
<1>9. ASSUME NEW c \in claims, EndInitialRead(c) PROVE Extracting'
  BY <1>2, <1>9 DEF EndInitialRead, ConcludeInitialRead, RetryInitialRead, Settle, Dismiss
<1>10. ASSUME NEW n \in notices, Notify(n) PROVE Extracting'
  BY <1>3, <1>10 DEF Notify, Enqueue, vars
<1> QED BY <1>4, <1>5, <1>6, <1>7, <1>8, <1>9, <1>10 DEF PipeNext

\* In the pipeline too, every execution past its first look is an extraction.
THEOREM OnlyExtractionsRun == PipeSpec => []Extracting
<1>1. PipeInit => Extracting
  BY DEF PipeInit, Init, Extracting
<1>2. PipeInv /\ Extracting /\ [PipeNext]_pipeVars => Extracting'
  <2> SUFFICES ASSUME PipeInv, Extracting, [PipeNext]_pipeVars PROVE Extracting'
    OBVIOUS
  <2>1. CASE PipeNext
    BY <2>1, StepExtracting DEF PipeInv, PipeTypeOK, StageTypes
  <2>2. CASE UNCHANGED pipeVars
    BY <2>2 DEF pipeVars, docVars, vars, Extracting
  <2> QED BY <2>1, <2>2
<1> QED BY <1>1, <1>2, PipelineTypes, PipelineClaims, PTL DEF PipeSpec, PipeInv

\* Where leases outlive executions, no two executions ever have a file's persist
\* transaction open together: the unique constraints of the page and chunk
\* tables never fail a job.
THEOREM PersistIsAlone == PipeSpec => []PersistAlone
<1>1. OnePerFile /\ Extracting => PersistAlone
  BY DEF OnePerFile, Extracting, PersistAlone, FileOf
<1> QED BY <1>1, OnlyExtractionsRun, PipeIsQueue, OneExecutionPerFile, PTL

-----------------------------------------------------------------------------
(***************************************************************************)
(* The job row and the file row.  A step is an execution writing the row   *)
(* of its file, which leaves the job table alone, the deletion of a file,  *)
(* or leaves every file row alone.                                         *)
(***************************************************************************)
\* The kinds of document that have pages.
HasPages(kind) == kind \in {"complete", "partial", "textless"}

\* The execution c writes d to the row of its file and goes on to stage s: it
\* reports success only of a file that it has made ready, and takes the page and
\* chunk rows away only of a document that has none.
Marking(c, d, s) ==
    /\ c.drain = Extraction /\ Present(FileOf(c)) /\ UNCHANGED vars
    /\ d.status \in {doc[FileOf(c)].status, "ready", "failed"}
    /\ d.content = doc[FileOf(c)].content
    /\ d.rows = doc[FileOf(c)].rows \/ d.rows = HasPages(d.content)
    /\ s = "succeeded" => d.status = "ready" /\ d.rows
    /\ doc' = [doc EXCEPT ![FileOf(c)] = d]
    /\ Advance(c, s)

\* No file row is written and no execution gets to report success.
NoMark ==
    /\ doc' = doc
    /\ \A c \in claims' : stage'[c] = "succeeded" => c \in claims /\ stage[c] = "succeeded"
    /\ ~ \E f \in Files : DeleteFile(f)

\* The kinds of steps.
LEMMA PipeKinds ==
    ASSUME PipeInv, Extracting, PipeNext
    PROVE  \/ NoMark
           \/ \E f \in Files : PipeDelete(f)
           \/ \E c \in claims : \E d, s : Marking(c, d, s)
<1> DEFINE G == \/ NoMark
                \/ \E f \in Files : PipeDelete(f)
                \/ \E c \in claims : \E d, s : Marking(c, d, s)
<1>0. /\ TypeOK /\ DOMAIN stage = claims
      /\ \A c \in claims : FileOf(c) \in Files /\ doc[FileOf(c)] \in Doc
      /\ \A f \in Files : ~DeleteFile(f) \/ files'[f] # files[f]
  BY DEF PipeInv, PipeTypeOK, TypeOK, FileOf, Claim, Row, DeleteFile, Present
<1>1. ASSUME NEW c \in claims, NEW s, s # "succeeded", Advance(c, s), UNCHANGED vars, doc' = doc
      PROVE  NoMark
  <2>1. \A f \in Files : ~DeleteFile(f)
    BY <1>0, <1>1 DEF vars
  <2> QED BY <1>0, <1>1, <2>1 DEF NoMark, Advance, vars
<1>2. ASSUME UNCHANGED files, doc' = doc,
             \A c \in claims' : stage'[c] = "succeeded" => c \in claims /\ stage[c] = "succeeded"
      PROVE  NoMark
  BY <1>0, <1>2 DEF NoMark
<1>3. CASE PipeProduce
  <2>1. UNCHANGED claims /\ UNCHANGED docVars
    BY <1>3 DEF PipeProduce, Upload, Enqueue, ReapAny, ReapEligible, ReapForFile, ReapInitialRead,
                Reap, LeaseExpires, BecomesDue
  <2>2. \A f \in Files : ~DeleteFile(f)
    <3>1. files' = files \/ \E g \in Files : files[g] = "absent" /\ files' = [files EXCEPT ![g] = "present"]
      BY <1>3 DEF PipeProduce, Upload, Enqueue, ReapAny, ReapEligible, ReapForFile,
                  ReapInitialRead, Reap, LeaseExpires, BecomesDue
    <3> QED BY <1>0, <3>1 DEF DeleteFile, TypeOK
  <2> QED BY <2>1, <2>2 DEF NoMark, docVars
<1>4. ASSUME NEW w \in Workers, PipeClaim(w) PROVE NoMark
  <2>1. UNCHANGED files
    BY <1>4 DEF PipeClaim, ClaimSome, ClaimEligible, ClaimInitialRead, ClaimForFile,
                ClaimInitialReadForFile, TakeLease
  <2> QED BY <1>0, <1>2, <1>4, <2>1 DEF PipeClaim
<1>5. ASSUME NEW w \in Workers, PipeAbort(w) PROVE NoMark
  <2>1. UNCHANGED files /\ claims' \subseteq claims
    BY <1>5 DEF PipeAbort, Abort, vars
  <2> QED BY <1>0, <1>2, <1>5, <2>1 DEF PipeAbort
<1>6. ASSUME NEW c \in claims, Execute(c) PROVE G
  <2> DEFINE f == FileOf(c)
  <2>0. f \in Files /\ doc[f] \in Doc
    BY <1>0
  <2>1. ASSUME NEW d, NEW s, doc' = Written(f, d), s # "succeeded", Advance(c, s), UNCHANGED vars,
               c.drain = Extraction, d.status \in {doc[f].status, "ready", "failed"},
               d.content = doc[f].content /\ d.rows = doc[f].rows
        PROVE  G
    <3>1. CASE Present(f)
      <4>1. doc' = [doc EXCEPT ![f] = d]
        BY <2>1, <3>1 DEF Written
      <4>2. Marking(c, d, s)
        BY <2>1, <3>1, <4>1 DEF Marking
      <4> QED BY <4>2
    <3>2. CASE ~Present(f)
      BY <1>1, <2>1, <3>2 DEF Written
    <3> QED BY <3>1, <3>2
  <2>2. CASE Begin(c)
    <3> DEFINE d == [doc[f] EXCEPT !.extraction = "extracting", !.index = "not_indexed"]
               s == IF Present(f) THEN "parsing" ELSE "unusable"
    <3>1. doc' = Written(f, d) /\ Advance(c, s) /\ UNCHANGED vars /\ c.drain = Extraction
      BY <2>2 DEF Begin
    <3>2. d.status = doc[f].status /\ s # "succeeded" /\ d.content = doc[f].content /\ d.rows = doc[f].rows
      BY <2>0 DEF Doc
    <3> HIDE DEF d, s, G
    <3> QED BY <2>1, <3>1, <3>2
  <2>3. CASE FindsNoBytes(c)
    <3> DEFINE d == [doc[f] EXCEPT !.status = "failed", !.extraction = "failed", !.index = "not_indexed"]
    <3>1. doc' = Written(f, d) /\ Advance(c, "unusable") /\ UNCHANGED vars /\ c.drain = Extraction
      BY <2>3 DEF FindsNoBytes, Extracting
    <3>2. d.status = "failed" /\ d.content = doc[f].content /\ d.rows = doc[f].rows
      BY <2>0 DEF Doc
    <3> HIDE DEF d, G
    <3> QED BY <2>1, <3>1, <3>2
  <2>4. CASE Parse(c)
    <3> DEFINE d == [doc[f] EXCEPT !.index = "indexing"]
    <3>1. doc' = Written(f, d) /\ Advance(c, "indexing") /\ UNCHANGED vars /\ c.drain = Extraction
      BY <2>4 DEF Parse, Extracting
    <3>2. d.status = doc[f].status /\ d.content = doc[f].content /\ d.rows = doc[f].rows
      BY <2>0 DEF Doc
    <3> HIDE DEF d, G
    <3> QED BY <2>1, <3>1, <3>2
  <2>5. CASE Persist(c)
    <3> DEFINE d == Persisted(doc[f])
               s == IF d.status = "ready" THEN "succeeded" ELSE "unusable"
    <3>1. doc' = [doc EXCEPT ![f] = d] /\ Advance(c, s) /\ UNCHANGED vars /\ c.drain = Extraction
          /\ Present(f)
      BY <2>5 DEF Persist, Commits, Extracting
    <3>2. d.status \in {"ready", "failed"} /\ d.content = doc[f].content /\ d.rows = HasPages(d.content)
      <4>1. CASE doc[f].content \in {"complete", "partial"}
        BY <2>0, <4>1 DEF Persisted, Doc, HasPages
      <4>2. CASE doc[f].content = "textless"
        BY <2>0, <4>2 DEF Persisted, Doc, HasPages
      <4>3. CASE ~HasPages(doc[f].content)
        <5>1. d = [doc[f] EXCEPT !.status = "failed", !.extraction = "failed", !.index = "not_indexed",
                                 !.rows = FALSE]
          BY <4>3 DEF Persisted, HasPages
        <5>2. d.status = "failed" /\ d.content = doc[f].content /\ d.rows = FALSE
          BY <2>0, <5>1 DEF Doc
        <5>3. HasPages(doc[f].content) = FALSE
          BY <4>3 DEF HasPages
        <5> HIDE DEF d
        <5> QED BY <5>2, <5>3
      <4> QED BY <4>1, <4>2, <4>3 DEF HasPages
    <3>3. s = "succeeded" => d.status = "ready" /\ d.rows
      BY <2>0 DEF Persisted, Doc
    <3> HIDE DEF d, s
    <3>4. Marking(c, d, s)
      BY <3>1, <3>2, <3>3 DEF Marking
    <3> QED BY <3>4
  <2>6. CASE MarkFailed(c)
    <3> DEFINE d == [doc[f] EXCEPT !.status = "failed", !.extraction = "failed", !.index = "failed"]
    <3>1. doc' = Written(f, d) /\ Advance(c, "transient") /\ UNCHANGED vars /\ c.drain = Extraction
      BY <2>6 DEF MarkFailed, Extracting
    <3>2. d.status = "failed" /\ d.content = doc[f].content /\ d.rows = doc[f].rows
      BY <2>0 DEF Doc
    <3> HIDE DEF d, G
    <3> QED BY <2>1, <3>1, <3>2
  <2>7. CASE BeginRaises(c) \/ BeginPersist(c) \/ Raise(c) \/ MarkRaises(c)
    <3>1. \E s \in {"transient", "overwriting", "inserting", "erring"} : Advance(c, s)
      BY <2>7 DEF BeginRaises, BeginPersist, Raise, MarkRaises
    <3>2. UNCHANGED vars /\ doc' = doc
      BY <2>7 DEF BeginRaises, BeginPersist, Raise, MarkRaises
    <3> QED BY <1>1, <3>1, <3>2
  <2>8. CASE Succeed(c) \/ Refuse(c) \/ Retry(c)
    <3>1. UNCHANGED files /\ doc' = doc /\ claims' = claims \ {c} /\ Dismiss(c)
      BY <2>8 DEF Succeed, Refuse, Retry, RetryOrFail, Settle
    <3> QED BY <1>0, <1>2, <3>1 DEF Dismiss
  <2> QED BY <1>6, <2>2, <2>3, <2>4, <2>5, <2>6, <2>7, <2>8 DEF Execute
<1>7. ASSUME NEW c \in claims, EndInitialRead(c) PROVE NoMark
  <2>1. UNCHANGED files /\ doc' = doc /\ claims' = claims \ {c} /\ Dismiss(c)
    BY <1>7 DEF EndInitialRead, ConcludeInitialRead, RetryInitialRead, Settle
  <2> QED BY <1>0, <1>2, <2>1 DEF Dismiss
<1>8. ASSUME NEW n \in notices, Notify(n) PROVE NoMark
  <2>1. UNCHANGED <<files, claims, doc, stage>>
    BY <1>8 DEF Notify, Enqueue, vars
  <2> QED BY <1>2, <2>1
<1> QED BY <1>3, <1>4, <1>5, <1>6, <1>7, <1>8 DEF PipeNext

\* A job that succeeds is one whose execution reports success, or an initial read.
LEMMA SucceedsByReport ==
    ASSUME QueueInv, PipeInv, PipeNext, NEW j \in JobIds, jobs'[j].status = "succeeded"
    PROVE  /\ jobs'[j].file = jobs[j].file /\ jobs'[j].type = jobs[j].type
           /\ \/ jobs[j].status = "succeeded"
              \/ \E c \in claims : /\ c.job = j /\ jobs[j].status = "running"
                                   /\ c.drain = Extraction => stage[c] = "succeeded"
<1> DEFINE G == /\ jobs'[j].file = jobs[j].file /\ jobs'[j].type = jobs[j].type
                /\ \/ jobs[j].status = "succeeded"
                   \/ \E c \in claims : /\ c.job = j /\ jobs[j].status = "running"
                                        /\ c.drain = Extraction => stage[c] = "succeeded"
<1>0. /\ TypeOK /\ jobs[j] \in Row
      /\ \A c \in claims : c.job \in JobIds /\ jobs[c.job] \in Row
  BY DEF QueueInv, TypeOK, Claim
<1>1. CASE jobs' = jobs
  BY <1>1
<1>2. ASSUME NEW f \in Files, NEW t \in JobTypes, NEW k \in JobIds,
             jobs' = [jobs EXCEPT ![k] = NewRow(f, t)]
      PROVE  G
  <2>1. NewRow(f, t).status = "queued"
    BY DEF NewRow
  <2> QED BY <1>0, <1>2, <2>1 DEF TypeOK
<1>3. ASSUME NEW c \in claims, NEW row \in Settled(c), Settle(c, row),
             row.status = "succeeded" /\ c.drain = Extraction
                 => stage[c] = "succeeded" \/ jobs[c.job].status = "succeeded"
      PROVE  G
  <2>1. jobs'[j] = IF j = c.job THEN row ELSE jobs[j]
    BY <1>0, <1>3 DEF Settle, TypeOK
  <2>2. j = c.job => row.file = jobs[j].file /\ row.type = jobs[j].type
                     /\ (jobs[j].status # "running" => row = jobs[j])
    BY <1>0, <1>3, SettledFacts
  <2> QED BY <1>3, <2>1, <2>2
<1>4. CASE PipeProduce
  <2>1. CASE \/ \E f \in Files, k \in JobIds : Upload(f, k)
             \/ \E f \in Files, k \in JobIds : Enqueue(f, Extraction, k)
    BY <1>2, <2>1 DEF Upload, Enqueue, JobTypes
  <2>2. CASE ReapAny
    <3>1. \E S \in SUBSET Expired : jobs' = [k \in JobIds |-> IF k \in S THEN Reaped(jobs[k]) ELSE jobs[k]]
      BY <2>2 DEF ReapAny, ReapEligible, ReapForFile, ReapInitialRead, Reap
    <3> QED BY <1>0, <3>1, ReapedFacts
  <2>3. CASE \E k \in JobIds : LeaseExpires(k) \/ BecomesDue(k)
    BY <1>0, <2>3 DEF LeaseExpires, BecomesDue, Row, TypeOK
  <2> QED BY <1>4, <2>1, <2>2, <2>3 DEF PipeProduce
<1>5. ASSUME NEW f \in Files, PipeDelete(f) PROVE G
  <2>1. jobs'[j] = jobs[j] \/ jobs'[j].status = "deleted"
    BY <1>0, <1>5 DEF PipeDelete, DeleteFile, Row
  <2> QED BY <2>1
<1>6. ASSUME NEW w \in Workers, PipeClaim(w) \/ PipeAbort(w) PROVE G
  <2>1. CASE jobs' = jobs
    BY <2>1
  <2>2. CASE \E t \in JobTypes : \E S \in SUBSET Claimable(t) : TakeLease(w, S, t)
    <3>1. \E S : jobs'[j] = IF j \in S THEN Leased(jobs[j]) ELSE jobs[j]
      BY <2>2 DEF TakeLease
    <3> QED BY <1>0, <3>1, LeasedFacts
  <2>3. PipeAbort(w) => jobs' = jobs
    BY DEF PipeAbort, Abort, vars
  <2>4. PipeClaim(w) => \E t \in JobTypes : \E S \in SUBSET Claimable(t) : TakeLease(w, S, t)
    BY DEF PipeClaim, ClaimSome, ClaimEligible, ClaimInitialRead, ClaimForFile,
           ClaimInitialReadForFile, JobTypes
  <2> QED BY <1>6, <2>1, <2>2, <2>3, <2>4
<1>7. ASSUME NEW c \in claims, Execute(c) PROVE G
  <2>1. CASE Succeed(c)
    <3>1. Completed(jobs[c.job], "succeeded") \in Settled(c)
      BY DEF Settled, TerminalStatuses
    <3> QED BY <1>3, <2>1, <3>1 DEF Succeed
  <2>2. CASE Refuse(c)
    <3>1. Completed(jobs[c.job], "failed") \in Settled(c)
      BY DEF Settled, TerminalStatuses
    <3>2. Completed(jobs[c.job], "failed").status = "succeeded" => jobs[c.job].status = "succeeded"
      BY <1>0 DEF Completed, Row
    <3> QED BY <1>3, <2>2, <3>1, <3>2 DEF Refuse
  <2>3. CASE Retry(c)
    <3> DEFINE row == IF c.attempt >= MaxAttempts THEN Completed(jobs[c.job], "failed")
                                                  ELSE Requeued(jobs[c.job], FALSE)
    <3>1. row \in Settled(c)
      <4>1. c.attempt >= MaxAttempts \/ c.attempt < MaxAttempts
        BY <1>0, MaxAttemptsAssumption DEF TypeOK, Claim
      <4> QED BY <4>1 DEF Settled, TerminalStatuses
    <3>2. row.status = "succeeded" => jobs[c.job].status = "succeeded"
      BY <1>0 DEF Completed, Requeued, Row
    <3>3. Settle(c, row)
      BY <2>3 DEF Retry, RetryOrFail
    <3> HIDE DEF row
    <3> QED BY <1>3, <3>1, <3>2, <3>3
  <2>4. CASE \/ Begin(c) \/ BeginRaises(c) \/ FindsNoBytes(c) \/ Parse(c) \/ BeginPersist(c)
            \/ Persist(c) \/ Raise(c) \/ MarkFailed(c) \/ MarkRaises(c)
    BY <1>1, <2>4 DEF Begin, BeginRaises, FindsNoBytes, Parse, BeginPersist, Persist, Raise,
                      MarkFailed, MarkRaises, vars
  <2> QED BY <1>7, <2>1, <2>2, <2>3, <2>4 DEF Execute
<1>8. ASSUME NEW c \in claims, EndInitialRead(c) PROVE G
  <2>1. c.drain # Extraction
    BY <1>8 DEF EndInitialRead, ConcludeInitialRead, RetryInitialRead, Extraction, InitialRead
  <2>2. \E row \in Settled(c) : Settle(c, row)
    <3>1. c.attempt >= MaxAttempts \/ c.attempt < MaxAttempts
      BY <1>0, MaxAttemptsAssumption DEF TypeOK, Claim
    <3> QED BY <1>8, <3>1 DEF EndInitialRead, ConcludeInitialRead, RetryInitialRead, Settled,
                              TerminalStatuses
  <2> QED BY <1>3, <2>1, <2>2
<1>9. ASSUME NEW n \in notices, Notify(n) PROVE G
  <2>1. n.file \in Files
    BY DEF PipeInv, PipeTypeOK, Notice
  <2> QED BY <1>1, <1>2, <1>9, <2>1 DEF Notify, Enqueue, JobTypes, vars
<1> QED BY <1>4, <1>5, <1>6, <1>7, <1>8, <1>9 DEF PipeNext

\* Only the deletion of its file takes a job away, and a job that was executed is
\* not taken for another.
LEMMA JobsPersist ==
    ASSUME TypeOK, [Next]_vars, ~ \E f \in Files : DeleteFile(f), NEW j \in JobIds
    PROVE  /\ jobs[j].status # "none"
                 => jobs'[j].file = jobs[j].file /\ jobs'[j].type = jobs[j].type
           /\ Exists(j) => Exists(j)'
           /\ jobs[j].status = "deleted" => jobs'[j].status = "deleted"
<1> DEFINE G == /\ jobs[j].status # "none"
                      => jobs'[j].file = jobs[j].file /\ jobs'[j].type = jobs[j].type
                /\ Exists(j) => Exists(j)'
                /\ jobs[j].status = "deleted" => jobs'[j].status = "deleted"
<1>0. jobs \in [JobIds -> Row] /\ jobs[j] \in Row
  BY DEF TypeOK
<1>1. ASSUME NEW f \in Files, NEW t \in JobTypes, NEW k \in JobIds, jobs[k].status = "none",
             jobs' = [jobs EXCEPT ![k] = NewRow(f, t)]
      PROVE  G
  BY <1>0, <1>1 DEF Exists
<1>2. ASSUME NEW S \in SUBSET Expired, Reap(S) PROVE G
  <2>1. jobs'[j] = IF j \in S THEN Reaped(jobs[j]) ELSE jobs[j]
    BY <1>2 DEF Reap
  <2>2. j \in S => jobs[j].status = "running"
    BY DEF Expired
  <2>3. Reaped(jobs[j]).status \in {"failed", "queued"}
    BY <1>0, ReapedFacts
  <2> QED BY <1>0, <2>1, <2>2, <2>3, ReapedFacts DEF Exists
<1>3. ASSUME NEW w \in Workers, NEW t \in JobTypes, NEW S \in SUBSET Claimable(t),
             TakeLease(w, S, t)
      PROVE  G
  <2>1. jobs'[j] = IF j \in S THEN Leased(jobs[j]) ELSE jobs[j]
    BY <1>3 DEF TakeLease
  <2>2. j \in S => jobs[j].status = "queued"
    BY DEF Claimable
  <2> QED BY <1>0, <2>1, <2>2, LeasedFacts DEF Exists
<1>4. ASSUME NEW c \in claims, NEW row \in Settled(c), Settle(c, row) PROVE G
  <2>1. jobs'[j] = IF j = c.job THEN row ELSE jobs[j]
    BY <1>0, <1>4 DEF Settle
  <2>2. jobs[c.job].status = "running" => row.status \in {"queued"} \cup TerminalStatuses
    <3>1. jobs[c.job] \in Row
      BY <1>0 DEF TypeOK, Claim
    <3> QED BY <3>1 DEF Settled, Completed, Requeued, Row
  <2> QED BY <1>0, <2>1, <2>2, SettledFacts DEF TerminalStatuses, Exists
<1>5. ASSUME NEW k \in JobIds, LeaseExpires(k) \/ BecomesDue(k) PROVE G
  <2>1. jobs'[j].status = jobs[j].status /\ jobs'[j].file = jobs[j].file /\ jobs'[j].type = jobs[j].type
    BY <1>0, <1>5 DEF LeaseExpires, BecomesDue, Row
  <2> QED BY <2>1 DEF Exists
<1>6. CASE jobs' = jobs
  BY <1>6 DEF Exists
<1>7. CASE Next
  <2>1. Step
    BY <1>7, NextIsStep
  <2> QED BY <1>1, <1>2, <1>3, <1>4, <1>5, <1>6, <2>1 DEF Step, Upload, Enqueue, Abort, JobTypes
<1> QED BY <1>6, <1>7 DEF vars

\* What the deletion of file f leaves: the rows of its jobs are gone, the rest stays.
LEMMA DeletionRows ==
    ASSUME TypeOK, NEW f \in Files, PipeDelete(f), NEW j \in JobIds
    PROVE  \/ jobs'[j] = jobs[j] /\ ~(Exists(j) /\ jobs[j].file = f)
           \/ jobs'[j].status = "deleted" /\ jobs'[j].file = f /\ jobs[j].file = f
<1>1. jobs[j] \in Row
  BY DEF TypeOK
<1> QED BY <1>1 DEF PipeDelete, DeleteFile, Row

\* The deletion of a file leaves the executions and the other file rows alone.
LEMMA DeletionStages ==
    ASSUME PipeInv, NEW f \in Files, PipeDelete(f)
    PROVE  /\ UNCHANGED <<claims, stage>>
           /\ \A g \in Files : g # f => doc'[g] = doc[g]
BY DEF PipeInv, PipeTypeOK, PipeDelete, DeleteFile

-----------------------------------------------------------------------------
\* An extraction that reports success, or is recorded as succeeded, has left the
\* status its file was uploaded with behind, whatever executions overlap: only
\* the deletion of the file, which takes its jobs, brings that status back.
Attended ==
    /\ \A c \in claims : stage[c] = "succeeded" /\ jobs[c.job].status # "deleted"
          => doc[FileOf(c)].status # "queued"
    /\ \A j \in JobIds : jobs[j].status = "succeeded" /\ jobs[j].type = Extraction
          => doc[jobs[j].file].status # "queued"

LEMMA StepAttended ==
    ASSUME QueueInv, PipeInv, Extracting, Attended, PipeNext
    PROVE  Attended'
<1>0. /\ TypeOK /\ [Next]_vars /\ DOMAIN stage = claims
      /\ \A c \in claims : c.job \in JobIds /\ FileOf(c) \in Files /\ jobs[c.job].status # "none"
      /\ \A j \in JobIds : jobs[j].file \in Files
      /\ \A f \in Files : doc[f] \in Doc /\ DOMAIN doc = Files
  BY PipeStepIsQueueStep DEF PipeInv, PipeTypeOK, QueueInv, TypeOK, FileOf, Claim, Row, ClaimsAccounted
<1>1. CASE NoMark
  <2>1. ASSUME NEW c \in claims', stage'[c] = "succeeded", jobs'[c.job].status # "deleted"
        PROVE  doc'[FileOf(c)'].status # "queued"
    <3>1. c \in claims /\ stage[c] = "succeeded" /\ doc' = doc
      BY <1>1, <2>1 DEF NoMark
    <3>2. jobs'[c.job].file = jobs[c.job].file /\ jobs[c.job].status # "deleted"
      BY <1>0, <1>1, <2>1, <3>1, JobsPersist DEF NoMark
    <3> QED BY <3>1, <3>2 DEF Attended, FileOf
  <2>2. ASSUME NEW j \in JobIds, jobs'[j].status = "succeeded", jobs'[j].type = Extraction
        PROVE  doc'[jobs'[j].file].status # "queued"
    <3>1. /\ jobs'[j].file = jobs[j].file /\ jobs[j].type = Extraction /\ doc' = doc
          /\ \/ jobs[j].status = "succeeded"
             \/ \E c \in claims : /\ c.job = j /\ jobs[j].status = "running"
                                  /\ c.drain = Extraction => stage[c] = "succeeded"
      BY <1>1, <2>2, SucceedsByReport DEF NoMark
    <3>2. \A c \in claims : jobs[c.job].type = c.drain
      BY DEF QueueInv, DrainMatchesType
    <3> QED BY <3>1, <3>2 DEF Attended, FileOf
  <2> QED BY <2>1, <2>2 DEF Attended
<1>2. ASSUME NEW f \in Files, PipeDelete(f) PROVE Attended'
  <2>1. ASSUME NEW c \in claims', stage'[c] = "succeeded", jobs'[c.job].status # "deleted"
        PROVE  doc'[FileOf(c)'].status # "queued"
    <3>1. c \in claims /\ stage[c] = "succeeded" /\ c.job \in JobIds /\ jobs[c.job].status # "none"
      BY <1>0, <1>2, <2>1, DeletionStages
    <3>2. jobs'[c.job] = jobs[c.job] /\ jobs[c.job].file # f
      BY <1>0, <1>2, <2>1, <3>1, DeletionRows DEF Exists
    <3> QED BY <1>0, <1>2, <2>1, <3>1, <3>2, DeletionStages DEF Attended, FileOf
  <2>2. ASSUME NEW j \in JobIds, jobs'[j].status = "succeeded", jobs'[j].type = Extraction
        PROVE  doc'[jobs'[j].file].status # "queued"
    <3>1. jobs'[j] = jobs[j] /\ jobs[j].file # f
      BY <1>0, <1>2, <2>2, DeletionRows DEF Exists
    <3> QED BY <1>0, <1>2, <2>2, <3>1, DeletionStages DEF Attended
  <2> QED BY <2>1, <2>2 DEF Attended
<1>3. ASSUME NEW c \in claims, NEW d, NEW s, Marking(c, d, s) PROVE Attended'
  <2>1. \A g \in Files : doc'[g].status = "queued" => doc[g].status = "queued"
    BY <1>0, <1>3 DEF Marking
  <2>2. s = "succeeded" => doc'[FileOf(c)].status = "ready"
    BY <1>0, <1>3 DEF Marking
  <2>3. UNCHANGED vars /\ \A e \in claims : stage'[e] = IF e = c THEN s ELSE stage[e]
    BY <1>0, <1>3 DEF Marking, Advance
  <2> QED BY <1>0, <2>1, <2>2, <2>3 DEF Attended, FileOf, vars
<1> QED BY <1>1, <1>2, <1>3, PipeKinds

\* The jobs of a file that are all at their end leave it ready or failed.
LEMMA AttendedSettles ==
    ASSUME PipeInv, Attended
    PROVE  StageSettles
<1> SUFFICES ASSUME NEW f \in Files, Extractions(f) # {},
                    \A j \in JobsOf(f) : jobs[j].status \in {"succeeded", "failed"}
             PROVE  ProcessingStage(f) \in {"ready", "failed"}
  BY DEF StageSettles
<1>1. doc[f] \in Doc /\ doc[f].status \in {"queued", "ready", "failed"}
  BY DEF PipeInv, PipeTypeOK, Doc
<1>2. ~HasJob(f, "running") /\ ~HasJob(f, "queued")
  BY DEF HasJob
<1>3. PICK j \in JobsOf(f) : jobs[j].type = Extraction
  BY DEF Extractions
<1>4. HasJob(f, "failed") \/ doc[f].status # "queued"
  BY <1>3 DEF HasJob, JobsOf, Attended
<1>5. CASE doc[f].status = "ready"
  BY <1>5 DEF ProcessingStage
<1>6. CASE doc[f].status # "ready"
  <2>1. HasJob(f, "failed") \/ "failed" \in {doc[f].status, doc[f].extraction, doc[f].index}
    BY <1>1, <1>4, <1>6
  <2>2. ProcessingStage(f) =
          IF HasJob(f, "failed") \/ "failed" \in {doc[f].status, doc[f].extraction, doc[f].index}
          THEN "failed" ELSE "queued"
    BY <1>2, <1>6 DEF ProcessingStage
  <2> QED BY <2>1, <2>2
<1> QED BY <1>5, <1>6

-----------------------------------------------------------------------------
\* Where leases outlive executions, the execution that reports success is the only
\* one of its file, so that the file is ready still when the report is recorded.
ReadyUntilRecorded ==
    \A c \in claims : stage[c] = "succeeded" /\ jobs[c.job].status = "running"
        => doc[FileOf(c)].status = "ready"

LEMMA StepReady ==
    ASSUME LeaseOutlivesRun, QueueInv, ExclusiveExecution, OnePerFile, Cascaded,
           PipeInv, Extracting, ReadyUntilRecorded, SucceededIsReady, PipeNext
    PROVE  ReadyUntilRecorded' /\ SucceededIsReady'
<1>0. /\ TypeOK /\ [Next]_vars /\ DOMAIN stage = claims
      /\ \A c \in claims : /\ c.job \in JobIds /\ FileOf(c) \in Files /\ FileOf(c) = jobs[c.job].file
                           /\ jobs[c.job].type = c.drain /\ jobs[c.job].status # "none"
                           /\ jobs[c.job].status \in {"running", "deleted"}
      /\ \A j \in JobIds : jobs[j].file \in Files
      /\ DOMAIN doc = Files
  BY PipeStepIsQueueStep
     DEF PipeInv, PipeTypeOK, QueueInv, TypeOK, FileOf, Claim, Row, DrainMatchesType,
         ExclusiveExecution, ClaimsAccounted
<1>1. CASE NoMark
  <2>1. ReadyUntilRecorded'
    <3> SUFFICES ASSUME NEW c \in claims', stage'[c] = "succeeded", jobs'[c.job].status = "running"
                 PROVE  doc'[FileOf(c)'].status = "ready"
      BY DEF ReadyUntilRecorded
    <3>1. c \in claims /\ stage[c] = "succeeded" /\ doc' = doc
      BY <1>1 DEF NoMark
    <3>2. jobs'[c.job].file = jobs[c.job].file /\ jobs[c.job].status = "running"
      BY <1>0, <1>1, <3>1, JobsPersist DEF NoMark
    <3> QED BY <3>1, <3>2 DEF ReadyUntilRecorded, FileOf
  <2>2. SucceededIsReady'
    <3> SUFFICES ASSUME NEW f \in Files, NEW j \in JobIds, Extractions(f)' = {j},
                        jobs'[j].status = "succeeded"
                 PROVE  doc'[f].status = "ready"
      BY DEF SucceededIsReady
    <3>1. jobs'[j].file = f /\ jobs'[j].type = Extraction /\ doc' = doc
      BY <1>1 DEF Extractions, JobsOf, NoMark
    <3>2. /\ jobs[j].file = f /\ jobs[j].type = Extraction
          /\ \/ jobs[j].status = "succeeded"
             \/ \E c \in claims : /\ c.job = j /\ jobs[j].status = "running"
                                  /\ c.drain = Extraction => stage[c] = "succeeded"
      BY <3>1, SucceedsByReport
    <3>3. CASE jobs[j].status = "succeeded"
      <4>1. \A k \in Extractions(f) : k \in Extractions(f)'
        BY <1>0, <1>1, JobsPersist DEF Extractions, JobsOf, Exists, NoMark
      <4>2. j \in Extractions(f)
        BY <3>2, <3>3 DEF Extractions, JobsOf, Exists
      <4>3. Extractions(f) = {j}
        BY <4>1, <4>2
      <4> QED BY <3>1, <3>3, <4>3 DEF SucceededIsReady
    <3>4. CASE \E c \in claims : /\ c.job = j /\ jobs[j].status = "running"
                                 /\ c.drain = Extraction => stage[c] = "succeeded"
      BY <1>0, <3>1, <3>2, <3>4 DEF ReadyUntilRecorded
    <3> QED BY <3>2, <3>3, <3>4
  <2> QED BY <2>1, <2>2
<1>2. ASSUME NEW g \in Files, PipeDelete(g) PROVE ReadyUntilRecorded' /\ SucceededIsReady'
  <2>1. ReadyUntilRecorded'
    <3> SUFFICES ASSUME NEW c \in claims', stage'[c] = "succeeded", jobs'[c.job].status = "running"
                 PROVE  doc'[FileOf(c)'].status = "ready"
      BY DEF ReadyUntilRecorded
    <3>1. c \in claims /\ stage[c] = "succeeded"
      BY <1>0, <1>2, DeletionStages
    <3>2. jobs'[c.job] = jobs[c.job] /\ jobs[c.job].file # g
      BY <1>0, <1>2, <3>1, DeletionRows DEF Exists
    <3> QED BY <1>0, <1>2, <3>1, <3>2, DeletionStages DEF ReadyUntilRecorded, FileOf
  <2>2. SucceededIsReady'
    <3> SUFFICES ASSUME NEW f \in Files, NEW j \in JobIds, Extractions(f)' = {j},
                        jobs'[j].status = "succeeded"
                 PROVE  doc'[f].status = "ready"
      BY DEF SucceededIsReady
    <3>1. jobs'[j].file = f
      BY DEF Extractions, JobsOf
    <3>2. jobs'[j] = jobs[j] /\ f # g
      BY <1>0, <1>2, <3>1, DeletionRows DEF Exists
    <3>3. Extractions(f)' = Extractions(f)
      <4>1. \A k \in JobIds : jobs'[k] = jobs[k] \/ (jobs[k].file = g /\ jobs'[k].file = g)
        BY <1>0, <1>2, DeletionRows
      <4> QED BY <3>2, <4>1 DEF Extractions, JobsOf, Exists
    <3> QED BY <1>0, <1>2, <3>2, <3>3, DeletionStages DEF SucceededIsReady
  <2> QED BY <2>1, <2>2
<1>3. ASSUME NEW c \in claims, NEW d, NEW s, Marking(c, d, s)
      PROVE  ReadyUntilRecorded' /\ SucceededIsReady'
  <2>1. /\ UNCHANGED vars
        /\ \A e \in claims : stage'[e] = IF e = c THEN s ELSE stage[e]
        /\ \A g \in Files : doc'[g] = IF g = FileOf(c) THEN d ELSE doc[g]
        /\ s = "succeeded" => d.status = "ready"
        /\ c.drain = Extraction /\ files[FileOf(c)] = "present"
    BY <1>0, <1>3 DEF Marking, Advance, Present
  <2>2. ASSUME NEW e \in claims, e # c, stage[e] = "succeeded" PROVE FileOf(e) # FileOf(c)
    <3>1. e.drain = Extraction
      BY <2>2 DEF Extracting
    <3> QED BY <2>1, <2>2, <3>1 DEF OnePerFile, FileOf
  <2>3. ReadyUntilRecorded'
    <3> SUFFICES ASSUME NEW e \in claims', stage'[e] = "succeeded", jobs'[e.job].status = "running"
                 PROVE  doc'[FileOf(e)'].status = "ready"
      BY DEF ReadyUntilRecorded
    <3>1. e \in claims /\ jobs[e.job].status = "running" /\ FileOf(e)' = FileOf(e)
      BY <2>1 DEF vars, FileOf
    <3> QED BY <1>0, <2>1, <2>2, <3>1 DEF ReadyUntilRecorded
  <2>4. jobs[c.job].status = "running" /\ c.job \in Extractions(FileOf(c))
    <3>1. jobs[c.job].status # "deleted"
      BY <1>0, <2>1 DEF Cascaded
    <3> QED BY <1>0, <2>1, <3>1 DEF Extractions, JobsOf, Exists
  <2>5. SucceededIsReady'
    <3> SUFFICES ASSUME NEW f \in Files, NEW j \in JobIds, Extractions(f)' = {j},
                        jobs'[j].status = "succeeded"
                 PROVE  doc'[f].status = "ready"
      BY DEF SucceededIsReady
    <3>1. Extractions(f) = {j} /\ jobs[j].status = "succeeded"
      BY <2>1 DEF vars, Extractions, JobsOf, Exists
    <3>2. f # FileOf(c)
      BY <2>4, <3>1
    <3> QED BY <2>1, <3>1, <3>2 DEF SucceededIsReady
  <2> QED BY <2>3, <2>5
<1> QED BY <1>1, <1>2, <1>3, PipeKinds

-----------------------------------------------------------------------------
\* An announcement of success is made by an execution that reported it.
LEMMA NoticesReport ==
    ASSUME PipeNext, NEW n \in notices', n.ready
    PROVE  n \in notices \/ \E c \in claims : stage[c] = "succeeded" /\ n.file = FileOf(c)
<1> DEFINE G == n \in notices \/ \E c \in claims : stage[c] = "succeeded" /\ n.file = FileOf(c)
<1>1. CASE notices' \subseteq notices
  BY <1>1
<1>2. CASE PipeProduce \/ (\E f \in Files : PipeDelete(f)) \/ \E w \in Workers : PipeClaim(w) \/ PipeAbort(w)
  BY <1>2 DEF PipeProduce, PipeDelete, PipeClaim, PipeAbort, docVars
<1>3. CASE (\E c \in claims : EndInitialRead(c)) \/ (\E m \in notices : Notify(m))
  BY <1>3 DEF EndInitialRead, Notify
<1>4. ASSUME NEW c \in claims, Execute(c) PROVE G
  <2>1. CASE Succeed(c)
    BY <2>1 DEF Succeed, Announce
  <2>2. CASE Refuse(c) \/ Retry(c)
    BY <2>2 DEF Refuse, Retry, Announce
  <2>3. CASE \/ Begin(c) \/ BeginRaises(c) \/ FindsNoBytes(c) \/ Parse(c) \/ BeginPersist(c)
            \/ Persist(c) \/ Raise(c) \/ MarkFailed(c) \/ MarkRaises(c)
    BY <2>3 DEF Begin, BeginRaises, FindsNoBytes, Parse, BeginPersist, Persist, Raise,
                MarkFailed, MarkRaises
  <2> QED BY <1>4, <2>1, <2>2, <2>3 DEF Execute
<1> QED BY <1>2, <1>3, <1>4 DEF PipeNext

\* An initial read is queued by an announcement of success, while the file is there.
LEMMA ReadsAnnounced ==
    ASSUME QueueInv, PipeInv, PipeNext,
           NEW j \in JobIds, Exists(j)', jobs'[j].type = InitialRead
    PROVE  \/ Exists(j) /\ jobs[j].type = InitialRead /\ jobs'[j].file = jobs[j].file
           \/ \E n \in notices : n.ready /\ n.file = jobs'[j].file /\ Present(n.file)
<1> DEFINE G == \/ Exists(j) /\ jobs[j].type = InitialRead /\ jobs'[j].file = jobs[j].file
                \/ \E n \in notices : n.ready /\ n.file = jobs'[j].file /\ Present(n.file)
<1>0. /\ TypeOK /\ jobs[j] \in Row
      /\ \A c \in claims : c.job \in JobIds /\ jobs[c.job] \in Row
  BY DEF QueueInv, TypeOK, Claim
<1>1. CASE jobs' = jobs
  BY <1>1 DEF Exists
<1>2. ASSUME NEW f \in Files, NEW k \in JobIds, jobs' = [jobs EXCEPT ![k] = NewRow(f, Extraction)]
      PROVE  G
  <2>1. NewRow(f, Extraction).type # InitialRead
    BY DEF NewRow, Extraction, InitialRead
  <2> QED BY <1>0, <1>2, <2>1 DEF TypeOK, Exists
<1>3. ASSUME NEW c \in claims, NEW row \in Settled(c), Settle(c, row) PROVE G
  <2>1. jobs'[j] = IF j = c.job THEN row ELSE jobs[j]
    BY <1>0, <1>3 DEF Settle, TypeOK
  <2>2. j = c.job => row.file = jobs[j].file /\ row.type = jobs[j].type
                     /\ (jobs[j].status # "running" => row = jobs[j])
    BY <1>0, SettledFacts
  <2> QED BY <2>1, <2>2 DEF Exists
<1>4. CASE PipeProduce
  <2>1. CASE \/ \E f \in Files, k \in JobIds : Upload(f, k)
             \/ \E f \in Files, k \in JobIds : Enqueue(f, Extraction, k)
    BY <1>2, <2>1 DEF Upload, Enqueue
  <2>2. CASE ReapAny
    <3>1. \E S \in SUBSET Expired : jobs' = [k \in JobIds |-> IF k \in S THEN Reaped(jobs[k]) ELSE jobs[k]]
      BY <2>2 DEF ReapAny, ReapEligible, ReapForFile, ReapInitialRead, Reap
    <3> QED BY <1>0, <3>1, ReapedFacts DEF Exists, Expired
  <2>3. CASE \E k \in JobIds : LeaseExpires(k) \/ BecomesDue(k)
    BY <1>0, <2>3 DEF LeaseExpires, BecomesDue, Row, TypeOK, Exists
  <2> QED BY <1>4, <2>1, <2>2, <2>3 DEF PipeProduce
<1>5. ASSUME NEW f \in Files, PipeDelete(f) PROVE G
  <2>1. jobs'[j] = jobs[j] \/ jobs'[j].status = "deleted"
    BY <1>0, <1>5 DEF PipeDelete, DeleteFile, Row
  <2> QED BY <2>1 DEF Exists
<1>6. ASSUME NEW w \in Workers, PipeClaim(w) \/ PipeAbort(w) PROVE G
  <2>1. CASE \E t \in JobTypes : \E S \in SUBSET Claimable(t) : TakeLease(w, S, t)
    <3>1. \E S \in SUBSET {k \in JobIds : jobs[k].status = "queued"} :
            jobs'[j] = IF j \in S THEN Leased(jobs[j]) ELSE jobs[j]
      BY <2>1 DEF TakeLease, Claimable
    <3> QED BY <1>0, <3>1, LeasedFacts DEF Exists
  <2>2. PipeAbort(w) => jobs' = jobs
    BY DEF PipeAbort, Abort, vars
  <2>3. PipeClaim(w) => \E t \in JobTypes : \E S \in SUBSET Claimable(t) : TakeLease(w, S, t)
    BY DEF PipeClaim, ClaimSome, ClaimEligible, ClaimInitialRead, ClaimForFile,
           ClaimInitialReadForFile, JobTypes
  <2> QED BY <1>1, <1>6, <2>1, <2>2, <2>3
<1>7. ASSUME NEW c \in claims, Execute(c) \/ EndInitialRead(c) PROVE G
  <2>0. c.attempt >= MaxAttempts \/ c.attempt < MaxAttempts
    BY <1>0, MaxAttemptsAssumption DEF TypeOK, Claim
  <2>1. CASE Succeed(c) \/ Refuse(c)
    <3>1. \E row \in Settled(c) : Settle(c, row)
      BY <2>1 DEF Succeed, Refuse, Settled, TerminalStatuses
    <3> QED BY <1>3, <3>1
  <2>2. CASE Retry(c) \/ EndInitialRead(c)
    <3>1. \E row \in Settled(c) : Settle(c, row)
      BY <2>0, <2>2 DEF Retry, RetryOrFail, EndInitialRead, ConcludeInitialRead, RetryInitialRead,
                        Settled, TerminalStatuses
    <3> QED BY <1>3, <3>1
  <2>3. CASE \/ Begin(c) \/ BeginRaises(c) \/ FindsNoBytes(c) \/ Parse(c) \/ BeginPersist(c)
            \/ Persist(c) \/ Raise(c) \/ MarkFailed(c) \/ MarkRaises(c)
    BY <1>1, <2>3 DEF Begin, BeginRaises, FindsNoBytes, Parse, BeginPersist, Persist, Raise,
                      MarkFailed, MarkRaises, vars
  <2> QED BY <1>7, <2>1, <2>2, <2>3 DEF Execute
<1>8. ASSUME NEW n \in notices, Notify(n) PROVE G
  <2>1. CASE n.ready /\ \E k \in JobIds : Enqueue(n.file, InitialRead, k)
    <3>1. PICK k \in JobIds : Enqueue(n.file, InitialRead, k)
      BY <2>1
    <3>2. jobs' = [jobs EXCEPT ![k] = NewRow(n.file, InitialRead)] /\ Present(n.file)
      BY <3>1 DEF Enqueue
    <3>3. NewRow(n.file, InitialRead).file = n.file
      BY DEF NewRow
    <3>4. CASE j = k
      BY <1>0, <2>1, <3>2, <3>3, <3>4 DEF TypeOK
    <3>5. CASE j # k
      BY <1>0, <3>2, <3>5 DEF TypeOK, Exists
    <3> QED BY <3>4, <3>5
  <2> QED BY <1>1, <1>8, <2>1 DEF Notify, vars
<1> QED BY <1>4, <1>5, <1>6, <1>7, <1>8 DEF PipeNext

\* Whatever calls for the text of a file that is still there finds its page and
\* chunk rows in place: an execution that reports success, the announcement of
\* one, an initial read.  They are taken away only with a document that never
\* had any, or with the file.
Grounded ==
    /\ \A f \in Files : doc[f].rows => HasPages(doc[f].content)
    /\ \A c \in claims : stage[c] = "succeeded" /\ files[FileOf(c)] # "deleted" => doc[FileOf(c)].rows
    /\ \A n \in notices : n.ready /\ files[n.file] # "deleted" => doc[n.file].rows
    /\ \A j \in JobIds : Exists(j) /\ jobs[j].type = InitialRead => doc[jobs[j].file].rows

\* A deleted file stays deleted.
LEMMA DeletedStays ==
    ASSUME TypeOK, [Next]_vars, NEW f \in Files, files[f] = "deleted"
    PROVE  files'[f] = "deleted"
<1>1. CASE UNCHANGED vars
  BY <1>1 DEF vars
<1>2. CASE Next
  <2>1. Step
    BY <1>2, NextIsStep
  <2> QED BY <2>1 DEF Step, Upload, Enqueue, DeleteFile, Reap, TakeLease, Abort, Settle, LeaseExpires,
                      BecomesDue, TypeOK, Present
<1> QED BY <1>1, <1>2

LEMMA StepGrounded ==
    ASSUME QueueInv, PipeInv, Extracting, Grounded, PipeNext
    PROVE  Grounded'
<1>0. /\ TypeOK /\ [Next]_vars /\ DOMAIN stage = claims
      /\ \A c \in claims : c.job \in JobIds /\ FileOf(c) \in Files /\ FileOf(c)' = FileOf(c)
      /\ \A n \in notices : n.file \in Files
      /\ \A j \in JobIds : jobs[j].file \in Files
      /\ DOMAIN doc = Files
  BY PipeStepIsQueueStep, ClaimKeepsFile
     DEF PipeInv, PipeTypeOK, QueueInv, TypeOK, FileOf, Claim, Row, Notice
\* A file that is not deleted keeps its rows.
<1>1. ASSUME \A f \in Files : doc'[f].rows => HasPages(doc'[f].content),
             \A f \in Files : files'[f] # "deleted" /\ doc[f].rows => doc'[f].rows,
             \A c \in claims' : stage'[c] = "succeeded"
                 => \/ c \in claims /\ stage[c] = "succeeded"
                    \/ c \in claims /\ doc'[FileOf(c)].rows,
             \A j \in JobIds : Exists(j)' /\ jobs'[j].type = InitialRead
                 => files'[jobs'[j].file] # "deleted"
      PROVE  Grounded'
  <2>1. \A f \in Files : files'[f] # "deleted" => files[f] # "deleted"
    BY <1>0, DeletedStays
  <2>2. ASSUME NEW c \in claims', stage'[c] = "succeeded", files'[FileOf(c)'] # "deleted"
        PROVE  doc'[FileOf(c)'].rows
    BY <1>0, <1>1, <2>1, <2>2 DEF Grounded
  <2>3. ASSUME NEW n \in notices', n.ready, files'[n.file] # "deleted"
        PROVE  doc'[n.file].rows
    <3>1. CASE n \in notices
      BY <1>0, <1>1, <2>1, <2>3, <3>1 DEF Grounded
    <3>2. ASSUME NEW c \in claims, stage[c] = "succeeded", n.file = FileOf(c)
          PROVE  doc'[n.file].rows
      BY <1>0, <1>1, <2>1, <2>3, <3>2 DEF Grounded
    <3> QED BY <2>3, <3>1, <3>2, NoticesReport
  <2>4. ASSUME NEW j \in JobIds, Exists(j)', jobs'[j].type = InitialRead
        PROVE  doc'[jobs'[j].file].rows
    <3>1. files'[jobs'[j].file] # "deleted"
      BY <1>1, <2>4
    <3>2. CASE Exists(j) /\ jobs[j].type = InitialRead /\ jobs'[j].file = jobs[j].file
      BY <1>0, <1>1, <3>1, <3>2 DEF Grounded
    <3>3. ASSUME NEW n \in notices, n.ready, n.file = jobs'[j].file, Present(n.file)
          PROVE  doc'[jobs'[j].file].rows
      BY <1>0, <1>1, <2>1, <3>1, <3>3 DEF Grounded
    <3> QED BY <2>4, <3>2, <3>3, ReadsAnnounced
  <2> QED BY <1>1, <2>2, <2>3, <2>4 DEF Grounded
<1>2. \A j \in JobIds : Exists(j)' /\ jobs'[j].type = InitialRead => files'[jobs'[j].file] # "deleted"
  <2>1. QueueInv'
    BY <1>0, NextQueueInv
  <2> QED BY <2>1 DEF QueueInv, FilesHoldJobs, Present
<1>3. CASE NoMark
  BY <1>1, <1>2, <1>3 DEF NoMark, Grounded
<1>4. ASSUME NEW f \in Files, PipeDelete(f) PROVE Grounded'
  <2>1. /\ UNCHANGED <<claims, stage>> /\ files'[f] = "deleted"
        /\ doc' = [doc EXCEPT ![f] = FreshDoc(doc[f].content)]
    BY <1>0, <1>4 DEF PipeDelete, DeleteFile, TypeOK
  <2>2. FreshDoc(doc[f].content).rows = FALSE
    BY DEF FreshDoc
  <2> QED BY <1>0, <1>1, <1>2, <2>1, <2>2 DEF Grounded
<1>5. ASSUME NEW c \in claims, NEW d, NEW s, Marking(c, d, s) PROVE Grounded'
  <2> DEFINE f == FileOf(c)
  <2>1. /\ claims' = claims /\ stage' = [stage EXCEPT ![c] = s] /\ doc' = [doc EXCEPT ![f] = d]
        /\ d.content = doc[f].content /\ (d.rows = doc[f].rows \/ d.rows = HasPages(d.content))
        /\ s = "succeeded" => d.rows
    BY <1>5 DEF Marking, Advance, vars
  <2>2. f \in Files /\ doc'[f] = d
    BY <1>0, <2>1
  <2>3. \A g \in Files : doc'[g].rows => HasPages(doc'[g].content)
    BY <1>0, <2>1 DEF Grounded
  <2>4. \A g \in Files : doc[g].rows => doc'[g].rows
    BY <1>0, <2>1 DEF Grounded
  <2>5. \A e \in claims' : stage'[e] = "succeeded"
           => e \in claims /\ (stage[e] = "succeeded" \/ doc'[FileOf(e)].rows)
    BY <1>0, <2>1, <2>2
  <2> QED BY <1>1, <1>2, <2>3, <2>4, <2>5
<1> QED BY <1>3, <1>4, <1>5, PipeKinds

-----------------------------------------------------------------------------
\* Nothing has succeeded and no execution has begun when the pipeline starts.
LEMMA InitAttended == PipeInit => Attended /\ ReadyUntilRecorded /\ SucceededIsReady
<1> SUFFICES ASSUME PipeInit PROVE Attended /\ ReadyUntilRecorded /\ SucceededIsReady
  OBVIOUS
<1>1. claims = {} /\ \A j \in JobIds : jobs[j].status # "succeeded"
  BY InitRows DEF PipeInit, Init
<1> QED BY <1>1 DEF Attended, ReadyUntilRecorded, SucceededIsReady

\* What the API shows for a file comes to rest at ready or failed with its jobs,
\* also when executions overlap past their leases, fail halfway or are cancelled.
THEOREM StagesSettle == PipeSpec => []StageSettles
<1>1. QueueInv /\ PipeInv /\ Extracting /\ Attended /\ [PipeNext]_pipeVars => Attended'
  <2> SUFFICES ASSUME QueueInv, PipeInv, Extracting, Attended, [PipeNext]_pipeVars
               PROVE  Attended'
    OBVIOUS
  <2>1. CASE PipeNext
    BY <2>1, StepAttended
  <2>2. CASE UNCHANGED pipeVars
    BY <2>2 DEF pipeVars, docVars, vars, Attended, FileOf
  <2> QED BY <2>1, <2>2
<1>2. PipeSpec => []QueueInv /\ []PipeInv
  BY PipelineTypes, PipelineClaims, PipeIsQueue, QueueInvariant, PTL DEF PipeInv
<1>3. PipeSpec => []Attended
  BY <1>1, <1>2, InitAttended, OnlyExtractionsRun, PTL DEF PipeSpec
<1> QED BY <1>2, <1>3, AttendedSettles, PTL

\* An initial read is queued, and stays, only for a file whose page and chunk
\* rows are in place, however late its announcement came, whatever retries of the
\* extraction fail or are cancelled meanwhile, and with any overlap of leases.
THEOREM ReadsFindText == PipeSpec => []ReadsHaveText
<1>1. PipeInit => Grounded
  <2> SUFFICES ASSUME PipeInit PROVE Grounded
    OBVIOUS
  <2>1. \A f \in Files : ~doc[f].rows
    BY DEF PipeInit, FreshDoc
  <2>2. \A j \in JobIds : Exists(j) => jobs[j].type # InitialRead
    <3>1. \A row \in Backlog \cup {Blank} : row.type = Extraction
      BY DEF Backlog, Blank, NewRow
    <3> QED BY <3>1 DEF PipeInit, Init, Extraction, InitialRead
  <2> QED BY <2>1, <2>2 DEF PipeInit, Init, Grounded
<1>2. QueueInv /\ PipeInv /\ Extracting /\ Grounded /\ [PipeNext]_pipeVars => Grounded'
  <2> SUFFICES ASSUME QueueInv, PipeInv, Extracting, Grounded, [PipeNext]_pipeVars
               PROVE  Grounded'
    OBVIOUS
  <2>1. CASE PipeNext
    BY <2>1, StepGrounded
  <2>2. CASE UNCHANGED pipeVars
    BY <2>2 DEF pipeVars, docVars, vars, Grounded, FileOf, Exists
  <2> QED BY <2>1, <2>2
<1>3. Grounded => ReadsHaveText
  BY DEF Grounded, ReadsHaveText, JobsOf
<1>4. PipeSpec => []QueueInv /\ []PipeInv
  BY PipelineTypes, PipelineClaims, PipeIsQueue, QueueInvariant, PTL DEF PipeInv
<1> QED BY <1>1, <1>2, <1>3, <1>4, OnlyExtractionsRun, PTL DEF PipeSpec

\* Where leases outlive executions, the job row and the file row agree: a file
\* whose only extraction succeeded is ready, at every moment.
THEOREM SucceededFilesAreReady == PipeSpec => []SucceededIsReadyExclusive
<1> DEFINE Agreed == LeaseOutlivesRun => ReadyUntilRecorded /\ SucceededIsReady
           Known == QueueInv /\ ExclusiveExecution /\ OnePerFile /\ Cascaded /\ PipeInv /\ Extracting
<1>1. Known /\ Agreed /\ [PipeNext]_pipeVars => Agreed'
  <2> SUFFICES ASSUME Known, Agreed, [PipeNext]_pipeVars, LeaseOutlivesRun
               PROVE  ReadyUntilRecorded' /\ SucceededIsReady'
    OBVIOUS
  <2>1. CASE PipeNext
    BY <2>1, StepReady
  <2>2. CASE UNCHANGED pipeVars
    BY <2>2 DEF pipeVars, docVars, vars, ReadyUntilRecorded, SucceededIsReady, FileOf,
                Extractions, JobsOf, Exists
  <2> QED BY <2>1, <2>2
<1>2. PipeSpec => []Known
  <2>1. PipeSpec => []QueueInv /\ []ExclusiveExecution /\ [](Cascaded /\ OnePerFile)
    BY PipeIsQueue, QueueInvariant, Exclusion, FilesExclude, PTL
  <2> QED BY <2>1, PipelineTypes, PipelineClaims, OnlyExtractionsRun, PTL DEF PipeInv
<1>3. PipeInit => Agreed
  BY InitAttended
<1>4. Agreed => SucceededIsReadyExclusive
  BY DEF SucceededIsReadyExclusive
<1> QED
  <2> HIDE DEF Agreed, Known
  <2> QED BY <1>1, <1>2, <1>3, <1>4, PTL DEF PipeSpec

-----------------------------------------------------------------------------
(***************************************************************************)
(* FileInitialRead.                                                        *)
(***************************************************************************)
\* Every step of the read is a step of the job table or leaves it alone.
LEMMA ReadStepIsQueueStep ==
    ASSUME ReadNext, ready \subseteq Files
    PROVE  [Next]_vars
<1>0. Extraction \in JobTypes /\ InitialRead \in JobTypes
  BY DEF JobTypes
<1>1. CASE Surroundings
  BY <1>0, <1>1 DEF Surroundings, Next, Produce
<1>2. ASSUME NEW f \in Files, RemoveFile(f) \/ MarkReadFailed(f) \/ MarkLost(f) PROVE [Next]_vars
  BY <1>2 DEF RemoveFile, MarkReadFailed, MarkLost, Next, Produce
<1>3. ASSUME NEW w \in Workers, ReadClaim(w) \/ Dies(w) PROVE [Next]_vars
  BY <1>3 DEF ReadClaim, Dies, Next
<1>4. ASSUME NEW c \in claims, EndExtraction(c) PROVE [Next]_vars
  BY <1>4 DEF EndExtraction, Next, Finish
<1>5. ASSUME NEW c \in claims, ExecuteRead(c) PROVE [Next]_vars
  <2>1. CASE SettleRead(c) \/ RetryRead(c)
    BY <2>1 DEF SettleRead, RetryRead, Next, Finish
  <2>2. CASE \/ NothingToRead(c) \/ ClaimRead(c) \/ LookAgain(c) \/ Write(c) \/ Mirror(c)
            \/ MarkComplete(c) \/ Fail(c)
    BY <2>2 DEF NothingToRead, ClaimRead, LookAgain, Write, Mirror, MarkComplete, Fail
  <2> QED BY <1>5, <2>1, <2>2 DEF ExecuteRead
<1>6. CASE SyncFailed
  BY <1>6 DEF SyncFailed
<1> QED BY <1>1, <1>2, <1>3, <1>4, <1>5, <1>6 DEF ReadNext

-----------------------------------------------------------------------------
(***************************************************************************)
(* Types.                                                                  *)
(***************************************************************************)
\* What the module adds to the job table keeps its type.
LEMMA StepReadTypes ==
    ASSUME ReadTypeOK, ReadNext
    PROVE  ReadTypeOK'
<1> DEFINE G == /\ ready' \in SUBSET Files
                /\ read' \in [Files -> ReadStatuses]
                /\ sqlite' \in [Files -> 0 .. MessageCap]
                /\ mirror' \in [Files -> 0 .. MessageCap]
                /\ reading' \in [claims' -> Phases \cup Returned]
                /\ failures' \in SUBSET Files
<1> USE DEF ReadTypeOK, ReadStatuses, Phases, Returned
<1>0. /\ TypeOK
      /\ \A c \in claims : File(c) \in Files
  BY DEF TypeOK, File, Claim, Row
<1>1. TypeOK'
  <2>1. CASE Next
    BY <1>0, <2>1, NextIsStep, StepTypeOK
  <2>2. CASE UNCHANGED vars
    BY <1>0, <2>2 DEF vars, TypeOK
  <2> QED BY <2>1, <2>2, ReadStepIsQueueStep
<1>2. ASSUME Surroundings PROVE G
  <2>1. claims' = claims
    BY <1>2 DEF Surroundings, Upload, Enqueue, ReapAny, ReapEligible, ReapForFile, ReapInitialRead,
                Reap, LeaseExpires, BecomesDue
  <2> QED BY <1>2, <2>1 DEF Surroundings, readVars
<1>3. ASSUME NEW f \in Files, RemoveFile(f) \/ MarkReadFailed(f) \/ MarkLost(f) PROVE G
  BY <1>3 DEF RemoveFile, DeleteFile, MarkReadFailed, MarkLost, vars
<1>4. ASSUME NEW w \in Workers, ReadClaim(w) PROVE G
  BY <1>4 DEF ReadClaim
<1>5. ASSUME NEW w \in Workers, Dies(w) PROVE G
  BY <1>5 DEF Dies, Abort
<1>6. ASSUME NEW c \in claims, Leave(c), claims' = claims \ {c}
      PROVE  reading' \in [claims' -> Phases \cup Returned]
  BY <1>6 DEF Leave
<1>7. ASSUME NEW c \in claims, EndExtraction(c) PROVE G
  <2>1. ready' \in SUBSET Files
    BY <1>0, <1>7 DEF EndExtraction
  <2> QED BY <1>6, <1>7, <2>1 DEF EndExtraction, Conclude, RetryOrFail, Settle
<1>8. ASSUME NEW c \in claims, NEW p \in Phases \cup Returned, Go(c, p), claims' = claims
      PROVE  reading' \in [claims' -> Phases \cup Returned]
  BY <1>8 DEF Go
<1>9. ASSUME NEW c \in claims, ExecuteRead(c) PROVE G
  <2>1. CASE NothingToRead(c)
    BY <1>0, <1>8, <2>1 DEF NothingToRead, vars
  <2>2. CASE ClaimRead(c)
    BY <1>0, <1>8, <2>2 DEF ClaimRead, vars
  <2>3. CASE LookAgain(c)
    BY <1>0, <1>8, <2>3 DEF LookAgain, vars
  <2>4. CASE Write(c)
    BY <1>0, <1>8, <2>4, MessageCapAssumption DEF Write, vars
  <2>5. CASE Mirror(c)
    BY <1>0, <1>8, <2>5, MessageCapAssumption DEF Mirror, vars
  <2>6. CASE MarkComplete(c)
    BY <1>0, <1>8, <2>6 DEF MarkComplete, vars
  <2>7. CASE Fail(c)
    BY <1>0, <1>8, <2>7 DEF Fail, vars
  <2>8. CASE SettleRead(c)
    BY <1>6, <2>8 DEF SettleRead, ConcludeInitialRead, Settle
  <2>9. CASE RetryRead(c)
    BY <1>0, <1>6, <2>9 DEF RetryRead, RetryInitialRead, Settle
  <2> QED BY <1>9, <2>1, <2>2, <2>3, <2>4, <2>5, <2>6, <2>7, <2>8, <2>9 DEF ExecuteRead
<1>10. ASSUME SyncFailed PROVE G
  BY <1>10 DEF SyncFailed, vars
<1>11. G
  BY <1>2, <1>3, <1>4, <1>5, <1>7, <1>9, <1>10 DEF ReadNext
<1> QED BY <1>1, <1>11

-----------------------------------------------------------------------------
(***************************************************************************)
(* The messages.                                                           *)
(***************************************************************************)
\* An execution past its write has a message behind it.
WriteBehind ==
    \A c \in claims : reading[c] \in {"written", "mirrored"} => sqlite[File(c)] >= 1

\* An execution that waits for the model is the first to write: the look before
\* the model call is still good, because no other execution is there to write.
StillUnwritten ==
    LeaseOutlivesRun /\ ~ReadsMayFail =>
        \A c \in claims : reading[c] = "generating" => sqlite[File(c)] = 0

\* Past its turn, an execution is an initial read.
ReadersRead == \A c \in claims : reading[c] # "waiting" => c.drain = InitialRead

MessageInv ==
    /\ WriteBehind
    /\ StillUnwritten
    /\ ReadersRead
    /\ CompleteIsWritten
    /\ AtMostOneOverviewExclusive

\* A step that writes no message, begins no wait for the model and marks a file
\* complete only beside a message keeps the invariant.
LEMMA QuietStep ==
    ASSUME MessageInv, sqlite' = sqlite,
           \A c \in claims : jobs'[c.job].file = jobs[c.job].file,
           \A f \in Files : read'[f] = "complete" => read[f] = "complete" \/ sqlite[f] >= 1,
           \A c \in claims' :
               \/ reading'[c] = "waiting"
               \/ /\ c \in claims
                  /\ \/ reading'[c] = reading[c]
                     \/ c.drain = InitialRead /\ reading'[c] \in {"claimed", "settled", "failed"}
                     \/ reading[c] = "written" /\ reading'[c] = "mirrored"
                     \/ /\ reading[c] = "claimed" /\ reading'[c] = "generating"
                        /\ SeesNoMessage(File(c))
    PROVE  MessageInv'
<1>1. \A c \in claims : File(c)' = File(c)
  BY DEF File
<1>2. WriteBehind'
  BY <1>1 DEF MessageInv, WriteBehind
<1>3. StillUnwritten'
  BY <1>1 DEF MessageInv, StillUnwritten, SeesNoMessage
<1>4. ReadersRead'
  BY DEF MessageInv, ReadersRead
<1>5. CompleteIsWritten'
  BY DEF MessageInv, CompleteIsWritten
<1>6. AtMostOneOverviewExclusive'
  BY DEF MessageInv, AtMostOneOverviewExclusive, AtMostOneOverview
<1> QED BY <1>2, <1>3, <1>4, <1>5, <1>6 DEF MessageInv

\* The one step that writes a message.
LEMMA WriteStep ==
    ASSUME ReadTypeOK, OnePerFile, MessageInv, NEW c \in claims, Write(c)
    PROVE  MessageInv'
<1>0. /\ File(c) \in Files /\ \A f \in Files : sqlite[f] \in Nat
      /\ c \in DOMAIN reading /\ DOMAIN reading = claims /\ \A d \in claims : File(d) \in Files
  BY MessageCapAssumption DEF ReadTypeOK, TypeOK, File, Claim, Row
<1>1. /\ claims' = claims /\ jobs' = jobs /\ read' = read
      /\ reading[c] = "generating"
      /\ \A d \in claims : reading'[d] = IF d = c THEN "written" ELSE reading[d]
      /\ \A f \in Files : sqlite'[f] = IF f = File(c) THEN sqlite[f] + 1 ELSE sqlite[f]
  BY <1>0 DEF Write, Go, vars, ReadTypeOK
<1>2. \A d \in claims : File(d)' = File(d)
  BY <1>1 DEF File
<1>3. WriteBehind'
  BY <1>0, <1>1, <1>2 DEF MessageInv, WriteBehind
<1>4. StillUnwritten'
  <2> SUFFICES ASSUME LeaseOutlivesRun, ~ReadsMayFail, NEW d \in claims, d # c, reading[d] = "generating"
               PROVE  sqlite'[File(d)] = 0
    BY <1>1, <1>2 DEF StillUnwritten
  <2>1. c.drain = InitialRead /\ d.drain = InitialRead
    BY <1>1 DEF MessageInv, ReadersRead
  <2>2. File(d) # File(c)
    BY <2>1 DEF OnePerFile, File
  <2> QED BY <1>0, <1>1, <2>2 DEF MessageInv, StillUnwritten
<1>5. ReadersRead'
  BY <1>1 DEF MessageInv, ReadersRead
<1>6. CompleteIsWritten'
  BY <1>0, <1>1 DEF MessageInv, CompleteIsWritten
<1>7. AtMostOneOverviewExclusive'
  BY <1>0, <1>1 DEF MessageInv, AtMostOneOverviewExclusive, AtMostOneOverview, StillUnwritten
<1> QED BY <1>3, <1>4, <1>5, <1>6, <1>7 DEF MessageInv

\* Every step keeps the invariant.
LEMMA StepMessages ==
    ASSUME ReadTypeOK, QueueInv, OnePerFile, MessageInv, ReadNext
    PROVE  MessageInv'
<1>0. /\ TypeOK /\ reading \in [claims -> Phases \cup Returned]
      /\ read \in [Files -> ReadStatuses] /\ \A f \in Files : sqlite[f] \in Nat
      /\ \A c \in claims : File(c) \in Files
  BY MessageCapAssumption DEF ReadTypeOK, TypeOK, File, Claim, Row
<1>1. \A c \in claims : jobs'[c.job].file = jobs[c.job].file
  <2>1. [Next]_vars
    BY ReadStepIsQueueStep DEF ReadTypeOK
  <2> QED BY <2>1, ClaimKeepsFile
<1>2. ASSUME NEW c \in claims, c.drain = InitialRead,
             NEW p \in {"claimed", "settled", "failed"}, Go(c, p), claims' = claims,
             sqlite' = sqlite,
             \A f \in Files : read'[f] = "complete" => read[f] = "complete" \/ sqlite[f] >= 1
      PROVE  MessageInv'
  BY <1>0, <1>1, <1>2, QuietStep DEF Go
<1>3. ASSUME claims' \subseteq claims, reading' = [c \in claims' |-> reading[c]],
             sqlite' = sqlite,
             \A f \in Files : read'[f] = "complete" => read[f] = "complete"
      PROVE  MessageInv'
  BY <1>1, <1>3, QuietStep
<1>4. ASSUME claims' = claims, reading' = reading, sqlite' = sqlite,
             \A f \in Files : read'[f] = "complete" => read[f] = "complete"
      PROVE  MessageInv'
  BY <1>1, <1>4, QuietStep
<1>5. CASE Surroundings
  BY <1>4, <1>5 DEF Surroundings, Upload, Enqueue, ReapAny, ReapEligible, ReapForFile,
                    ReapInitialRead, Reap, LeaseExpires, BecomesDue, readVars
<1>6. ASSUME NEW f \in Files, RemoveFile(f) \/ MarkReadFailed(f) \/ MarkLost(f) PROVE MessageInv'
  BY <1>0, <1>4, <1>6 DEF RemoveFile, DeleteFile, MarkReadFailed, MarkLost, vars
<1>7. ASSUME NEW w \in Workers, ReadClaim(w) PROVE MessageInv'
  BY <1>1, <1>7, QuietStep DEF ReadClaim
<1>8. ASSUME NEW w \in Workers, Dies(w) PROVE MessageInv'
  BY <1>3, <1>8 DEF Dies, Abort
<1>9. ASSUME NEW c \in claims, EndExtraction(c) PROVE MessageInv'
  BY <1>3, <1>9 DEF EndExtraction, Conclude, RetryOrFail, Settle, Leave
<1>10. CASE SyncFailed
  BY <1>4, <1>10 DEF SyncFailed, vars
<1>11. ASSUME NEW c \in claims, ExecuteRead(c) PROVE MessageInv'
  <2>1. CASE NothingToRead(c)
    BY <1>0, <1>2, <2>1 DEF NothingToRead, SeesMessage, ReadTurn, vars
  <2>2. CASE ClaimRead(c)
    BY <1>0, <1>2, <2>2 DEF ClaimRead, ReadTurn, vars
  <2>3. CASE LookAgain(c)
    <3>1. c.drain = InitialRead
      BY <2>3 DEF LookAgain, MessageInv, ReadersRead
    <3>2. CASE Go(c, "settled") /\ SeesMessage(File(c))
      BY <1>0, <1>2, <2>3, <3>1, <3>2 DEF LookAgain, SeesMessage, vars
    <3>3. CASE Go(c, "generating") /\ SeesNoMessage(File(c)) /\ read' = read
      BY <1>0, <1>1, <2>3, <3>3, QuietStep DEF LookAgain, Go, vars
    <3> QED BY <2>3, <3>2, <3>3 DEF LookAgain
  <2>4. CASE Write(c)
    BY <2>4, WriteStep
  <2>5. CASE Mirror(c)
    BY <1>0, <1>1, <2>5, QuietStep DEF Mirror, Go, vars
  <2>6. CASE MarkComplete(c)
    <3>1. c.drain = InitialRead /\ sqlite[File(c)] >= 1
      BY <2>6 DEF MarkComplete, MessageInv, ReadersRead, WriteBehind
    <3> QED BY <1>0, <1>2, <2>6, <3>1 DEF MarkComplete, vars
  <2>7. CASE Fail(c)
    <3>1. c.drain = InitialRead
      BY <2>7 DEF Fail, ReadTurn, MessageInv, ReadersRead
    <3> QED BY <1>2, <2>7, <3>1 DEF Fail, vars
  <2>8. CASE SettleRead(c) \/ RetryRead(c)
    BY <1>3, <2>8 DEF SettleRead, RetryRead, ConcludeInitialRead, RetryInitialRead, Settle, Leave
  <2> QED BY <1>11, <2>1, <2>2, <2>3, <2>4, <2>5, <2>6, <2>7, <2>8 DEF ExecuteRead
<1> QED BY <1>5, <1>6, <1>7, <1>8, <1>9, <1>10, <1>11 DEF ReadNext

-----------------------------------------------------------------------------
(***************************************************************************)
(* The theorems.                                                           *)
(***************************************************************************)
\* The types hold.
THEOREM ReadTypeCorrect == ReadSpec => []ReadTypeOK
<1>1. ReadInit => ReadTypeOK
  BY InitTypeOK, MessageCapAssumption DEF ReadInit, ReadTypeOK, ReadStatuses, Init
<1>2. ReadTypeOK /\ [ReadNext]_allVars => ReadTypeOK'
  <2> SUFFICES ASSUME ReadTypeOK, [ReadNext]_allVars PROVE ReadTypeOK'
    OBVIOUS
  <2>1. CASE ReadNext
    BY <2>1, StepReadTypes
  <2>2. CASE UNCHANGED allVars
    BY <2>2 DEF allVars, readVars, vars, ReadTypeOK, TypeOK
  <2> QED BY <2>1, <2>2
<1> QED BY <1>1, <1>2, PTL DEF ReadSpec

\* Every step of the read is built on one of the job table.
LEMMA ReadIsQueue == ReadSpec => Spec
<1>1. ReadInit => Init
  BY DEF ReadInit
<1>2. ReadTypeOK /\ [ReadNext]_allVars => [Next]_vars
  BY ReadStepIsQueueStep DEF allVars, ReadTypeOK
<1> QED BY <1>1, <1>2, ReadTypeCorrect, PTL DEF ReadSpec, Spec

\* The message invariant holds.
LEMMA Messages == ReadSpec => []MessageInv
<1>1. ReadInit => MessageInv
  BY DEF ReadInit, Init, MessageInv, WriteBehind, StillUnwritten, ReadersRead, CompleteIsWritten,
         AtMostOneOverviewExclusive, AtMostOneOverview
<1>2. ReadTypeOK /\ QueueInv /\ OnePerFile /\ MessageInv /\ [ReadNext]_allVars => MessageInv'
  <2> SUFFICES ASSUME ReadTypeOK, QueueInv, OnePerFile, MessageInv, [ReadNext]_allVars
               PROVE  MessageInv'
    OBVIOUS
  <2>1. CASE ReadNext
    BY <2>1, StepMessages
  <2>2. CASE UNCHANGED allVars
    BY <2>2, QuietStep DEF allVars, readVars, vars
  <2> QED BY <2>1, <2>2
<1> QED BY <1>1, <1>2, ReadTypeCorrect, ReadIsQueue, QueueInvariant, OneExecutionPerFile,
           PTL DEF ReadSpec

\* A file whose first read is complete has its message in the thread.
THEOREM CompleteReadsWritten == ReadSpec => []CompleteIsWritten
<1>1. MessageInv => CompleteIsWritten
  BY DEF MessageInv
<1> QED BY <1>1, Messages, PTL

\* Where leases outlive executions and the thread can be read, a file gets at most
\* one overview, for any number of drains, retries and crashes between the two
\* stores and the column.
THEOREM OneOverview == ReadSpec => []AtMostOneOverviewExclusive
<1>1. MessageInv => AtMostOneOverviewExclusive
  BY DEF MessageInv
<1> QED BY <1>1, Messages, PTL
-----------------------------------------------------------------------------
(***************************************************************************)
(* The two stores: what SQLite has and Postgres has not yet is owed by an  *)
(* execution between its two writes, or was lost with one.                 *)
(***************************************************************************)
Owed(f) == {c \in claims : reading[c] = "written" /\ File(c) = f}

MirrorInv ==
    \A f \in Files : IsFiniteSet(Owed(f)) /\ mirror[f] + Cardinality(Owed(f)) <= sqlite[f]

\* A step that writes to neither store and lets no execution into the gap.
LEMMA QuietMirror ==
    ASSUME ReadTypeOK, MirrorInv, sqlite' = sqlite, mirror' = mirror,
           \A c \in claims : jobs'[c.job].file = jobs[c.job].file,
           \A c \in claims' : reading'[c] = "written" => c \in claims /\ reading[c] = "written"
    PROVE  MirrorInv'
<1> SUFFICES ASSUME NEW f \in Files
             PROVE  IsFiniteSet(Owed(f)') /\ mirror'[f] + Cardinality(Owed(f)') <= sqlite'[f]
  BY DEF MirrorInv
<1>1. Owed(f)' \subseteq Owed(f)
  BY DEF Owed, File
<1>2. IsFiniteSet(Owed(f)) /\ mirror[f] + Cardinality(Owed(f)) <= sqlite[f]
  BY DEF MirrorInv
<1>3. IsFiniteSet(Owed(f)') /\ Cardinality(Owed(f)') <= Cardinality(Owed(f))
  BY <1>1, <1>2, FS_Subset
<1>4. /\ mirror[f] \in Nat /\ sqlite[f] \in Nat
      /\ Cardinality(Owed(f)) \in Nat /\ Cardinality(Owed(f)') \in Nat
  BY <1>2, <1>3, FS_CardinalityType, MessageCapAssumption DEF ReadTypeOK
<1> QED BY <1>2, <1>3, <1>4

\* The two steps that write.
LEMMA StoreSteps ==
    ASSUME ReadTypeOK, MirrorInv, NEW c \in claims, Write(c) \/ Mirror(c)
    PROVE  MirrorInv'
<1> SUFFICES ASSUME NEW f \in Files
             PROVE  IsFiniteSet(Owed(f)') /\ mirror'[f] + Cardinality(Owed(f)') <= sqlite'[f]
  BY DEF MirrorInv
<1>1. IsFiniteSet(Owed(f)) /\ mirror[f] + Cardinality(Owed(f)) <= sqlite[f]
  BY DEF MirrorInv
<1>2. mirror[f] \in Nat /\ sqlite[f] \in Nat /\ Cardinality(Owed(f)) \in Nat
  BY <1>1, FS_CardinalityType, MessageCapAssumption DEF ReadTypeOK
<1>3. claims' = claims /\ jobs' = jobs /\ DOMAIN reading = claims
  BY DEF Write, Mirror, vars, ReadTypeOK
<1>4. CASE Write(c) /\ File(c) = f
  <2>1. Owed(f)' = Owed(f) \cup {c} /\ c \notin Owed(f)
    BY <1>3, <1>4 DEF Write, Go, Owed, File
  <2>2. sqlite'[f] = sqlite[f] + 1 /\ mirror' = mirror
    BY <1>4 DEF Write, ReadTypeOK
  <2>3. /\ IsFiniteSet(Owed(f)')
        /\ Cardinality(Owed(f)') = Cardinality(Owed(f)) + 1
    BY <1>1, <2>1, FS_AddElement
  <2> QED BY <1>1, <1>2, <2>2, <2>3
<1>5. CASE Mirror(c) /\ File(c) = f
  <2>1. Owed(f)' = Owed(f) \ {c} /\ c \in Owed(f)
    BY <1>3, <1>5 DEF Mirror, Go, Owed, File
  <2>2. mirror'[f] = mirror[f] + 1 /\ sqlite' = sqlite
    BY <1>5 DEF Mirror, ReadTypeOK
  <2>3. /\ IsFiniteSet(Owed(f)')
        /\ Cardinality(Owed(f)') = Cardinality(Owed(f)) - 1
    BY <1>1, <2>1, FS_RemoveElement
  <2> QED BY <1>1, <1>2, <2>2, <2>3
<1>6. CASE File(c) # f
  <2>1. sqlite'[f] = sqlite[f] /\ mirror'[f] = mirror[f]
    BY <1>6 DEF Write, Mirror, ReadTypeOK
  <2>2. Owed(f)' = Owed(f)
    BY <1>3, <1>6 DEF Write, Mirror, Go, Owed, File
  <2> QED BY <1>1, <2>1, <2>2
<1> QED BY <1>4, <1>5, <1>6

\* Every step keeps the account.
LEMMA StepMirror ==
    ASSUME ReadTypeOK, QueueInv, MirrorInv, ReadNext
    PROVE  MirrorInv'
<1>0. reading \in [claims -> Phases \cup Returned]
  BY DEF ReadTypeOK
<1>1. \A c \in claims : jobs'[c.job].file = jobs[c.job].file
  <2>1. [Next]_vars
    BY ReadStepIsQueueStep DEF ReadTypeOK
  <2> QED BY <2>1, ClaimKeepsFile
<1>2. ASSUME sqlite' = sqlite, mirror' = mirror,
             \A c \in claims' : reading'[c] = "written" => c \in claims /\ reading[c] = "written"
      PROVE  MirrorInv'
  BY <1>1, <1>2, QuietMirror
<1>3. CASE Surroundings
  BY <1>2, <1>3 DEF Surroundings, Upload, Enqueue, ReapAny, ReapEligible, ReapForFile,
                    ReapInitialRead, Reap, LeaseExpires, BecomesDue, readVars
<1>4. ASSUME NEW f \in Files, RemoveFile(f) \/ MarkReadFailed(f) \/ MarkLost(f) PROVE MirrorInv'
  BY <1>2, <1>4 DEF RemoveFile, DeleteFile, MarkReadFailed, MarkLost, vars
<1>5. ASSUME NEW w \in Workers, ReadClaim(w) PROVE MirrorInv'
  BY <1>2, <1>5 DEF ReadClaim
<1>6. ASSUME NEW w \in Workers, Dies(w) PROVE MirrorInv'
  BY <1>2, <1>6 DEF Dies, Abort
<1>7. ASSUME NEW c \in claims, EndExtraction(c) \/ SettleRead(c) \/ RetryRead(c)
      PROVE  MirrorInv'
  BY <1>2, <1>7 DEF EndExtraction, Conclude, RetryOrFail, Settle, Leave, SettleRead, RetryRead,
                    ConcludeInitialRead, RetryInitialRead
<1>8. ASSUME NEW c \in claims, NothingToRead(c) \/ ClaimRead(c) \/ LookAgain(c) \/ MarkComplete(c)
                               \/ Fail(c)
      PROVE  MirrorInv'
  BY <1>0, <1>2, <1>8 DEF NothingToRead, ClaimRead, LookAgain, MarkComplete, Fail, Go, vars
<1>9. CASE SyncFailed
  BY <1>2, <1>9 DEF SyncFailed, vars
<1> QED BY <1>3, <1>4, <1>5, <1>6, <1>7, <1>8, <1>9, StoreSteps DEF ReadNext, ExecuteRead

\* Postgres never holds an overview that SQLite lacks, for any number of drains,
\* also where two of them write one file's.
THEOREM MirrorLags == ReadSpec => []MirrorFollows
<1>1. ReadInit => MirrorInv
  <2> SUFFICES ASSUME ReadInit PROVE MirrorInv
    OBVIOUS
  <2>1. \A f \in Files : Owed(f) = {} /\ mirror[f] = 0 /\ sqlite[f] = 0
    BY DEF ReadInit, Init, Owed
  <2> QED BY <2>1, FS_EmptySet DEF MirrorInv
<1>2. ReadTypeOK /\ QueueInv /\ MirrorInv /\ [ReadNext]_allVars => MirrorInv'
  <2> SUFFICES ASSUME ReadTypeOK, QueueInv, MirrorInv, [ReadNext]_allVars PROVE MirrorInv'
    OBVIOUS
  <2>1. CASE UNCHANGED allVars
    BY <2>1, QuietMirror DEF allVars, readVars, vars
  <2> QED BY <2>1, StepMirror
<1>3. ReadTypeOK /\ MirrorInv => MirrorFollows
  <2> SUFFICES ASSUME ReadTypeOK, MirrorInv, NEW f \in Files PROVE mirror[f] <= sqlite[f]
    BY DEF MirrorFollows
  <2>1. mirror[f] \in Nat /\ sqlite[f] \in Nat /\ Cardinality(Owed(f)) \in Nat
    BY FS_CardinalityType, MessageCapAssumption DEF ReadTypeOK, MirrorInv
  <2> QED BY <2>1 DEF MirrorInv
<1> QED BY <1>1, <1>2, <1>3, ReadTypeCorrect, ReadIsQueue, QueueInvariant, PTL DEF ReadSpec
=============================================================================
