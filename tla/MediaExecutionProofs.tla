------------------------- MODULE MediaExecutionProofs -------------------------
(***************************************************************************)
(* What holds of media executions for any number of executions, workers,   *)
(* polls and ingestion attempts.                                           *)
(***************************************************************************)
EXTENDS MediaExecution, TLAPS

(***************************************************************************)
(* Types.                                                                  *)
(***************************************************************************)
\* Why the counters stay within their bounds: an ended row has no owner, an
\* unended one has an attempt left, and a poll that will be recorded is allowed.
RowsBounded ==
    \A e \in Executions :
        /\ row[e].state \in Terminal => row[e].owner = Nobody /\ row[e].lease = "none"
        /\ row[e].state = "absent" => row[e].owner = Nobody
        /\ row[e].state \notin Terminal => row[e].ingests < MaxIngests

PollsBounded == \A w \in Workers : At(w, "polling") /\ Held(w) => Mine(w).polls < MaxPolls

TypeInv == TypeOK /\ RowsBounded /\ PollsBounded

LEMMA Busy ==
    ASSUME TypeOK, NEW w \in Workers, tick[w].at \in Steps
    PROVE  /\ tick[w] \in [at : Steps, job : Executions]
           /\ tick[w].job \in Executions
           /\ Mine(w) \in Row
           /\ Nobody # w
  BY NobodyAssumption DEF TypeOK, Tick, Idle, Steps, Mine

LEMMA InitTypeInv == Init => TypeInv
  <1> SUFFICES ASSUME Init PROVE TypeInv OBVIOUS
  <1>1. row \in [Executions -> Row]
    <2>1. ASSUME NEW kind \in Kinds
          PROVE  NewRow(kind) \in Row
      BY KindsAssumption, BoundsAssumption DEF NewRow, Row, Active, Terminal
    <2> QED BY <2>1 DEF Init
  <1>2. \A e \in Executions : row[e].state = "absent" /\ row[e].ingests = 0 /\ row[e].owner = Nobody
    BY DEF Init, NewRow
  <1>3. TypeOK
    BY <1>1 DEF Init, TypeOK, Tick
  <1> QED BY <1>2, <1>3, BoundsAssumption
          DEF TypeInv, RowsBounded, PollsBounded, Terminal, Init, NewRow, Idle, At

\* A row that a write may leave behind.
Sound(r) ==
    /\ r \in Row /\ r.state \in Active \cup Terminal
    /\ r.state \notin Terminal => r.ingests < MaxIngests

\* What a step does to its own tick, when it does not go on to a poll.
Moves(w) == \E t \in Tick : t.at # "polling" /\ tick' = [tick EXCEPT ![w] = t]

LEMMA HeldIsSound ==
    ASSUME TypeInv, NEW w \in Workers, tick[w].at \in Steps, Held(w)
    PROVE  Sound(Mine(w)) /\ Mine(w).state \in Active /\ Mine(w).state \notin Terminal
           /\ Mine(w).ingests < MaxIngests
  <1>1. Mine(w) \in Row /\ tick[w].job \in Executions /\ Nobody # w
    BY Busy DEF TypeInv
  <1>2. Mine(w).state \in Active \cup Terminal \cup {"absent"}
    BY <1>1 DEF Row
  <1>3. Mine(w).state \notin Terminal /\ Mine(w).state # "absent"
    BY <1>1 DEF TypeInv, RowsBounded, Held, Mine
  <1> QED BY <1>1, <1>2, <1>3 DEF TypeInv, RowsBounded, Mine, Sound

LEMMA StepsMove ==
    ASSUME TypeOK, NEW w \in Workers, tick[w].at \in Steps
    PROVE  /\ \A s \in Steps \ {"polling"} : Continue(w, s) => Moves(w)
           /\ tick' = [tick EXCEPT ![w] = Idle] => Moves(w)
  <1>1. ASSUME NEW s \in Steps \ {"polling"}, Continue(w, s) PROVE Moves(w)
    <2>1. [tick[w] EXCEPT !.at = s] \in Tick /\ [tick[w] EXCEPT !.at = s].at # "polling"
      BY Busy DEF Tick
    <2>2. tick' = [tick EXCEPT ![w] = [tick[w] EXCEPT !.at = s]]
      BY <1>1 DEF Continue
    <2> QED BY <2>1, <2>2 DEF Moves
  <1>2. Idle \in Tick /\ Idle.at # "polling"
    BY DEF Tick, Idle
  <1> QED BY <1>1, <1>2 DEF Moves

\* A step that leaves every row alone.
LEMMA RowsKept ==
    ASSUME TypeInv, NEW w \in Workers, Moves(w), row' = row
    PROVE  row' \in [Executions -> Row] /\ tick' \in [Workers -> Tick]
           /\ RowsBounded' /\ PollsBounded'
  BY DEF TypeInv, TypeOK, Moves, RowsBounded, PollsBounded, At, Held, Mine

\* A step whose write gives the lease back.
LEMMA RowWritten ==
    ASSUME TypeInv, NEW w \in Workers, tick[w].at \in Steps, Moves(w),
           NEW r, Held(w) => Sound(r), Written(w, r)
    PROVE  row' \in [Executions -> Row] /\ tick' \in [Workers -> Tick]
           /\ RowsBounded' /\ PollsBounded'
  <1>1. CASE ~Held(w)
    BY <1>1, RowsKept DEF Written
  <1>2. CASE Held(w)
    <2> DEFINE e == tick[w].job
               s == [r EXCEPT !.owner = Nobody, !.lease = "none"]
    <2>1. e \in Executions /\ Nobody # w
      BY Busy DEF TypeInv
    <2>2. s \in Row /\ s.owner = Nobody /\ s.lease = "none" /\ s.state = r.state
             /\ s.ingests = r.ingests
      BY <1>2 DEF Sound, Row
    <2>3. row' = [row EXCEPT ![e] = s]
      BY <1>2 DEF Written
    <2>4. row' \in [Executions -> Row] /\ tick' \in [Workers -> Tick]
      BY <2>1, <2>2, <2>3 DEF TypeInv, TypeOK, Moves
    <2>5. RowsBounded'
      BY <1>2, <2>1, <2>2, <2>3 DEF TypeInv, TypeOK, RowsBounded, Sound
    <2>6. PollsBounded'
      <3> SUFFICES ASSUME NEW u \in Workers, At(u, "polling")', Held(u)'
                   PROVE  (Mine(u).polls < MaxPolls)'
        BY DEF PollsBounded
      <3>1. u # w /\ tick'[u] = tick[u]
        BY DEF Moves, At, TypeInv, TypeOK
      <3>2. tick[u].job # e
        BY <2>1, <2>2, <2>3, <3>1, NobodyAssumption DEF Held, Mine, TypeInv, TypeOK
      <3>3. Mine(u)' = Mine(u)
        BY <2>3, <3>1, <3>2, Busy DEF Mine, TypeInv, TypeOK, At, Steps
      <3> QED BY <3>1, <3>3 DEF TypeInv, PollsBounded, At, Held
    <2> QED BY <2>4, <2>5, <2>6
  <1> QED BY <1>1, <1>2

\* A step whose write keeps the lease.
LEMMA RowAdvanced ==
    ASSUME TypeInv, NEW w \in Workers, tick[w].at \in Steps,
           NEW can, NEW r, NEW step \in Steps \ {"polling"}, Advance(w, can, r, step),
           Held(w) => Sound(r) /\ r.owner = w /\ r.state \notin Terminal
    PROVE  row' \in [Executions -> Row] /\ tick' \in [Workers -> Tick]
           /\ RowsBounded' /\ PollsBounded'
  <1>1. Moves(w)
    BY StepsMove DEF Advance, TypeInv
  <1>2. CASE ~(Held(w) /\ can)
    BY <1>1, <1>2, RowsKept DEF Advance
  <1>3. CASE Held(w) /\ can
    <2> DEFINE e == tick[w].job
    <2>1. e \in Executions
      BY Busy DEF TypeInv
    <2>2. row' = [row EXCEPT ![e] = r]
      BY <1>3 DEF Advance
    <2>3. row' \in [Executions -> Row] /\ tick' \in [Workers -> Tick]
      BY <1>1, <1>3, <2>1, <2>2 DEF TypeInv, TypeOK, Moves, Sound
    <2> r.state # "absent"
      BY <1>3 DEF Sound, Active, Terminal
    <2>4. RowsBounded'
      BY <1>3, <2>1, <2>2 DEF TypeInv, TypeOK, RowsBounded, Sound
    <2>5. PollsBounded'
      <3> SUFFICES ASSUME NEW u \in Workers, At(u, "polling")', Held(u)'
                   PROVE  (Mine(u).polls < MaxPolls)'
        BY DEF PollsBounded
      <3>1. u # w /\ tick'[u] = tick[u]
        BY <1>1 DEF Moves, At, TypeInv, TypeOK
      <3>2. tick[u].job # e
        BY <1>3, <2>1, <2>2, <3>1 DEF Held, Mine, TypeInv, TypeOK
      <3>3. Mine(u)' = Mine(u)
        BY <2>2, <3>1, <3>2, Busy DEF Mine, TypeInv, TypeOK, At, Steps
      <3> QED BY <3>1, <3>3 DEF TypeInv, PollsBounded, At, Held
    <2> QED BY <2>3, <2>4, <2>5
  <1> QED BY <1>2, <1>3

\* change leaves a sound row behind, whatever ends the tick.
LEMMA LeaveKeepsTypes ==
    ASSUME TypeInv, NEW w \in Workers, tick[w].at \in Steps,
           NEW r, Held(w) => Sound(r), Leave(w, r)
    PROVE  row' \in [Executions -> Row] /\ tick' \in [Workers -> Tick]
           /\ RowsBounded' /\ PollsBounded'
  <1>1. Moves(w)
    BY StepsMove DEF Leave, TypeInv
  <1> QED BY <1>1, RowWritten DEF Leave

LEMMA SoundEdits ==
    ASSUME NEW r \in Row, r.ingests < MaxIngests, r.state \in Active, NEW s \in Active \cup Terminal
    PROVE  /\ [r EXCEPT !.state = s] \in Row
           /\ [r EXCEPT !.state = s].state = s
           /\ [r EXCEPT !.state = s].owner = r.owner
           /\ [r EXCEPT !.state = s].ingests = r.ingests
           /\ Sound([r EXCEPT !.state = s])
           /\ Sound([r EXCEPT !.state = s, !.due = FALSE])
           /\ Sound([r EXCEPT !.state = s, !.known = TRUE, !.due = FALSE])
           /\ Sound([r EXCEPT !.due = FALSE])
           /\ Sound(Another(r, s))
           /\ \A b \in {"output", "attempt"} :
                 Sound([r EXCEPT !.state = "succeeded", !.bytes = b, !.ingests = @ + 1])
  <1>1. [r EXCEPT !.state = s] \in Row /\ [r EXCEPT !.state = s].state = s
        /\ [r EXCEPT !.state = s].owner = r.owner /\ [r EXCEPT !.state = s].ingests = r.ingests
    BY DEF Row, Active, Terminal
  <1>2. Sound([r EXCEPT !.state = s, !.due = FALSE])
    BY DEF Row, Sound
  <1>3. Sound([r EXCEPT !.state = s, !.known = TRUE, !.due = FALSE])
    BY DEF Row, Sound
  <1>4. Sound([r EXCEPT !.due = FALSE])
    BY DEF Row, Sound
  <1>5. r.ingests + 1 \in 0 .. MaxIngests
    BY BoundsAssumption DEF Row
  <1>6. Sound(Another(r, s))
    <2>1. CASE r.ingests + 1 >= MaxIngests
      BY <1>5, <2>1 DEF Row, Another, Active, Terminal, Sound
    <2>2. CASE r.ingests + 1 < MaxIngests
      <3> DEFINE q == [r EXCEPT !.state = s, !.ingests = r.ingests + 1, !.due = FALSE]
      <3>1. q \in Row /\ q.ingests = r.ingests + 1
        BY <1>5 DEF Row
      <3>2. ~(r.ingests + 1 >= MaxIngests)
        BY <1>5, <2>2, BoundsAssumption
      <3>3. Another(r, s) = q
        BY <3>2 DEF Another
      <3> QED BY <2>2, <3>1, <3>3 DEF Sound
    <2> QED BY <1>5, <2>1, <2>2, BoundsAssumption
  <1>7. ASSUME NEW b \in {"output", "attempt"}
        PROVE  Sound([r EXCEPT !.state = "succeeded", !.bytes = b, !.ingests = @ + 1])
    BY <1>5 DEF Row, Sound, Terminal
  <1> QED BY <1>1, <1>2, <1>3, <1>4, <1>6, <1>7 DEF Sound

LEMMA AdvanceEdits ==
    ASSUME NEW r \in Row, r.ingests < MaxIngests, r.state \in Active
    PROVE  /\ LET q == [r EXCEPT !.state = "submitting", !.submits = 1]
              IN  Sound(q) /\ q.owner = r.owner /\ q.state \notin Terminal
           /\ \A s \in {"running", "ingesting"} :
                 LET q == [r EXCEPT !.state = s]
                 IN  Sound(q) /\ q.owner = r.owner /\ q.state \notin Terminal
           /\ r.polls < MaxPolls => \A b \in BOOLEAN :
                 LET q == [r EXCEPT !.state = "running", !.polls = @ + 1, !.lease = "live", !.ready = b]
                 IN  Sound(q) /\ q.owner = r.owner /\ q.state \notin Terminal
           /\ r.polls < MaxPolls => Sound([r EXCEPT !.polls = @ + 1, !.due = FALSE])
  <1>1. LET q == [r EXCEPT !.state = "submitting", !.submits = 1]
        IN  Sound(q) /\ q.owner = r.owner /\ q.state \notin Terminal
    <2> DEFINE q == [r EXCEPT !.state = "submitting", !.submits = 1]
    <2>1. 1 \in 0 .. 1 /\ "submitting" \in Active /\ "submitting" \notin Terminal
      BY DEF Active, Terminal
    <2>2. q \in Row
      BY <2>1 DEF Row
    <2>3. q.owner = r.owner /\ q.state = "submitting" /\ q.ingests = r.ingests
      BY DEF Row
    <2> QED BY <2>1, <2>2, <2>3 DEF Sound
  <1>2. ASSUME NEW s \in {"running", "ingesting"}
        PROVE  LET q == [r EXCEPT !.state = s]
               IN  Sound(q) /\ q.owner = r.owner /\ q.state \notin Terminal
    BY DEF Row, Sound, Active, Terminal
  <1>3. r.polls < MaxPolls => r.polls + 1 \in 0 .. MaxPolls
    BY BoundsAssumption DEF Row
  <1>4. ASSUME r.polls < MaxPolls, NEW b \in BOOLEAN
        PROVE  LET q == [r EXCEPT !.state = "running", !.polls = @ + 1, !.lease = "live", !.ready = b]
               IN  Sound(q) /\ q.owner = r.owner /\ q.state \notin Terminal
    BY <1>3, <1>4 DEF Row, Sound, Active, Terminal
  <1>5. r.polls < MaxPolls => Sound([r EXCEPT !.polls = @ + 1, !.due = FALSE])
    BY <1>3 DEF Row, Sound
  <1> QED BY <1>1, <1>2, <1>4, <1>5

LEMMA SoundChanges ==
    ASSUME TypeInv, NEW w \in Workers, tick[w].at \in Steps, Held(w)
    PROVE  /\ \A s \in Active \cup Terminal :
                 /\ Sound([Mine(w) EXCEPT !.state = s])
                 /\ Sound([Mine(w) EXCEPT !.state = s, !.due = FALSE])
                 /\ Sound([Mine(w) EXCEPT !.state = s, !.known = TRUE, !.due = FALSE])
                 /\ Sound([Mine(w) EXCEPT !.due = FALSE])
                 /\ Sound(Another(Mine(w), s))
           /\ Sound(Another(Mine(w), Mine(w).state))
           /\ \A b \in {"output", "attempt"} :
                 Sound([Mine(w) EXCEPT !.state = "succeeded", !.bytes = b, !.ingests = @ + 1])
  <1>1. Mine(w) \in Row /\ Mine(w).ingests < MaxIngests
        /\ Mine(w).state \in Active
    BY HeldIsSound DEF Sound
  <1> HIDE DEF Mine
  <1> QED BY <1>1, SoundEdits DEF Active

LEMMA StepTypes ==
    ASSUME TypeInv, NEW w \in Workers, Step(w)
    PROVE  row' \in [Executions -> Row] /\ tick' \in [Workers -> Tick]
           /\ RowsBounded' /\ PollsBounded'
  <1>1. CASE Expire(w)
    BY <1>1, LeaveKeepsTypes, SoundChanges, Zenon DEF Expire, At, Steps, Terminal
  <1>2. CASE Refuse(w)
    BY <1>2, LeaveKeepsTypes, SoundChanges, Zenon DEF Refuse, At, Steps, Terminal
  <1>4. CASE Post(w)
    BY <1>4, StepsMove, RowsKept DEF Post, At, Steps, TypeInv
  <1>5. CASE Accepted(w)
    BY <1>5, LeaveKeepsTypes, SoundChanges, Zenon DEF Accepted, At, Steps, Active
  <1>6. CASE Uncertain(w)
    BY <1>6, LeaveKeepsTypes, SoundChanges, Zenon DEF Uncertain, At, Steps, Active
  <1>8. CASE PollAgain(w)
    BY <1>8, LeaveKeepsTypes, SoundChanges, Zenon DEF PollAgain, At, Steps, Active
  <1>10. CASE Download(w)
    BY <1>10, StepsMove, RowsKept DEF Download, At, Steps, TypeInv
  <1>11. CASE DownloadFails(w)
    BY <1>11, LeaveKeepsTypes, SoundChanges, Zenon DEF DownloadFails, At, Steps, Terminal
  <1>12. CASE LoadResult(w)
    BY <1>12, StepsMove, RowsKept DEF LoadResult, At, Steps, TypeInv
  <1>13. CASE SaveEarly(w)
    BY <1>13, StepsMove, RowsKept DEF SaveEarly, At, Steps, TypeInv
  <1>15. CASE SaveResult(w)
    BY <1>15, StepsMove, RowsKept DEF SaveResult, At, Steps, TypeInv
  <1>16. CASE Ingest(w)
    BY <1>16, StepsMove, RowsKept DEF Ingest, At, Steps, TypeInv
  <1>17. CASE StorageFails(w)
    <2>1. tick[w].at \in Steps
      BY <1>17 DEF StorageFails, Guarded, Steps
    <2> QED BY <1>17, <2>1, LeaveKeepsTypes, SoundChanges, Zenon DEF StorageFails, Active
  <1>19. CASE Clean(w)
    BY <1>19, StepsMove, RowsKept DEF Clean, At, Steps, TypeInv
  <1>21. CASE Render(w)
    BY <1>21, StepsMove, RowsKept DEF Render, At, Steps, TypeInv
  <1>23. CASE WriteAttempt(w)
    BY <1>23, StepsMove, RowsKept DEF WriteAttempt, At, Steps, TypeInv
  <1>3. CASE MarkSubmitting(w)
    <2>1. tick[w].at \in Steps
      BY <1>3 DEF MarkSubmitting, At, Steps
    <2>2. CASE thread
      <3> DEFINE r == [Mine(w) EXCEPT !.state = "submitting", !.submits = 1]
      <3>1. Held(w) => Sound(r) /\ r.owner = w /\ r.state \notin Terminal
        <4>1. Held(w) => Mine(w) \in Row /\ Mine(w).ingests < MaxIngests /\ Mine(w).state \in Active
          BY <2>1, HeldIsSound DEF Sound
        <4> QED BY <4>1, AdvanceEdits, Zenon DEF Held
      <3>2. Advance(w, Mine(w).state = "pending" /\ Mine(w).submits = 0, r, "posting")
        BY <1>3, <2>2 DEF MarkSubmitting
      <3> HIDE DEF r
      <3> QED BY <2>1, <3>1, <3>2, RowAdvanced DEF Steps
    <2>3. CASE ~thread
      BY <1>3, <2>1, <2>3, LeaveKeepsTypes, SoundChanges, Zenon DEF MarkSubmitting, Terminal
    <2> QED BY <2>2, <2>3
  <1>7. CASE Poll(w)
    <2>1. tick[w].at \in Steps
      BY <1>7 DEF Poll, At, Steps
    <2>2. PICK answer \in {"waiting", "downloading", "refusing"} :
            Advance(w, TRUE, [Mine(w) EXCEPT !.state = "running", !.polls = @ + 1,
                                             !.lease = "live", !.ready = answer = "downloading"],
                    answer)
      BY <1>7 DEF Poll
    <2> DEFINE r == [Mine(w) EXCEPT !.state = "running", !.polls = @ + 1, !.lease = "live",
                                    !.ready = answer = "downloading"]
    <2>3. Held(w) => Sound(r) /\ r.owner = w /\ r.state \notin Terminal
      <3> SUFFICES ASSUME Held(w) PROVE Sound(r) /\ r.owner = w /\ r.state \notin Terminal
        OBVIOUS
      <3>1. Mine(w) \in Row /\ Mine(w).ingests < MaxIngests /\ Mine(w).state \in Active
            /\ Mine(w).owner = w
        BY <2>1, HeldIsSound DEF Sound, Held
      <3>2. Mine(w).polls < MaxPolls
        BY <1>7 DEF Poll, TypeInv, PollsBounded
      <3>3. (answer = "downloading") \in BOOLEAN
        OBVIOUS
      <3> QED BY <3>1, <3>2, <3>3, AdvanceEdits, Zenon
    <2> HIDE DEF r
    <2> QED BY <2>1, <2>2, <2>3, RowAdvanced DEF Steps, r
  <1>9. CASE PollFails(w)
    <2>1. tick[w].at \in Steps
      BY <1>9 DEF PollFails, At, Steps
    <2>2. Held(w) => Sound([Mine(w) EXCEPT !.polls = @ + 1, !.due = FALSE])
      <3> SUFFICES ASSUME Held(w) PROVE Sound([Mine(w) EXCEPT !.polls = @ + 1, !.due = FALSE])
        OBVIOUS
      <3>1. Mine(w) \in Row /\ Mine(w).ingests < MaxIngests /\ Mine(w).state \in Active
        BY <2>1, HeldIsSound DEF Sound
      <3>2. Mine(w).polls < MaxPolls
        BY <1>9 DEF PollFails, TypeInv, PollsBounded
      <3> QED BY <3>1, <3>2, AdvanceEdits, Zenon
    <2> QED BY <1>9, <2>1, <2>2, LeaveKeepsTypes, SoundChanges, Zenon DEF PollFails, Terminal
  <1>14. CASE RecordResult(w)
    <2>1. tick[w].at \in Steps
      BY <1>14 DEF RecordResult, Steps
    <2> DEFINE r == [Mine(w) EXCEPT !.state = "ingesting"]
    <2>2. Held(w) => Sound(r) /\ r.owner = w /\ r.state \notin Terminal
      <3>1. Held(w) => Mine(w) \in Row /\ Mine(w).ingests < MaxIngests /\ Mine(w).state \in Active
        BY <2>1, HeldIsSound DEF Sound
      <3> QED BY <3>1, AdvanceEdits, Zenon DEF Held
    <2>3. PICK step \in {"keeping", "ingesting"} : Advance(w, TRUE, r, step)
      BY <1>14 DEF RecordResult
    <2> HIDE DEF r
    <2> QED BY <2>1, <2>2, <2>3, RowAdvanced DEF Steps
  <1>18. CASE Finish(w)
    <2>1. tick[w].at \in Steps
      BY <1>18 DEF Finish, At, Steps
    <2>2. CASE tick[w].job \in overdue
      BY <1>18, <2>1, <2>2, LeaveKeepsTypes, SoundChanges, Zenon DEF Finish, Terminal
    <2>3. CASE tick[w].job \notin overdue /\ ~thread
      BY <1>18, <2>1, <2>3, LeaveKeepsTypes, SoundChanges, Zenon DEF Finish, Terminal
    <2>4. CASE tick[w].job \notin overdue /\ thread
      <3> DEFINE r == [Mine(w) EXCEPT !.state = "succeeded", !.bytes = "output", !.ingests = @ + 1]
      <3>1. Written(w, r)
            /\ tick' = [tick EXCEPT ![w] = IF Held(w) THEN [@ EXCEPT !.at = "cleaning"] ELSE Idle]
        BY <1>18, <2>4 DEF Finish
      <3>2. Moves(w)
        <4>1. CASE Held(w)
          BY <2>1, <3>1, <4>1, StepsMove DEF Continue, Steps, TypeInv
        <4>2. CASE ~Held(w)
          BY <2>1, <3>1, <4>2, StepsMove DEF TypeInv
        <4> QED BY <4>1, <4>2
      <3>3. Held(w) => Sound(r)
        BY <2>1, SoundChanges, Zenon
      <3> HIDE DEF r
      <3> QED BY <2>1, <3>1, <3>2, <3>3, RowWritten
    <2> QED BY <2>2, <2>3, <2>4
  <1>20. CASE StartLocal(w)
    <2>1. tick[w].at \in Steps
      BY <1>20 DEF StartLocal, At, Steps
    <2> DEFINE r == [Mine(w) EXCEPT !.state = "running"]
    <2>2. Held(w) => Sound(r) /\ r.owner = w /\ r.state \notin Terminal
      <3>1. Held(w) => Mine(w) \in Row /\ Mine(w).ingests < MaxIngests /\ Mine(w).state \in Active
        BY <2>1, HeldIsSound DEF Sound
      <3> QED BY <3>1, AdvanceEdits, Zenon DEF Held
    <2>3. Advance(w, InTime(w), r, "rendering")
      BY <1>20 DEF StartLocal
    <2> HIDE DEF r
    <2> QED BY <2>1, <2>2, <2>3, RowAdvanced DEF Steps
  <1>22. CASE EndRender(w)
    <2>1. tick[w].at \in Steps
      BY <1>22 DEF EndRender, At, Steps
    <2> DEFINE r == [Mine(w) EXCEPT !.state = "ingesting"]
    <2>2. Held(w) => Sound(r) /\ r.owner = w /\ r.state \notin Terminal
      <3>1. Held(w) => Mine(w) \in Row /\ Mine(w).ingests < MaxIngests /\ Mine(w).state \in Active
        BY <2>1, HeldIsSound DEF Sound
      <3> QED BY <3>1, AdvanceEdits, Zenon DEF Held
    <2>3. Advance(w, InTime(w), r, "publishing")
      BY <1>22 DEF EndRender
    <2> HIDE DEF r
    <2> QED BY <2>1, <2>2, <2>3, RowAdvanced DEF Steps
  <1>24. CASE CompleteAttempt(w)
    <2>1. tick[w].at \in Steps
      BY <1>24 DEF CompleteAttempt, At, Steps
    <2>2. CASE thread /\ InTime(w)
      BY <1>24, <2>1, <2>2, LeaveKeepsTypes, SoundChanges, Zenon DEF CompleteAttempt
    <2>3. CASE ~(thread /\ InTime(w))
      BY <1>24, <2>1, <2>3, StepsMove, RowsKept DEF CompleteAttempt, TypeInv
    <2> QED BY <2>2, <2>3
  <1> QED BY <1>1, <1>2, <1>3, <1>4, <1>5, <1>6, <1>7, <1>8, <1>9, <1>10, <1>11, <1>12, <1>13,
             <1>14, <1>15, <1>16, <1>17, <1>18, <1>19, <1>20, <1>21, <1>22, <1>23, <1>24 DEF Step

LEMMA NextTypes ==
    ASSUME TypeInv, [Next]_vars
    PROVE  row' \in [Executions -> Row] /\ tick' \in [Workers -> Tick]
           /\ RowsBounded' /\ PollsBounded'
  <1>1. ASSUME NEW w \in Workers, Step(w)
        PROVE  row' \in [Executions -> Row] /\ tick' \in [Workers -> Tick]
               /\ RowsBounded' /\ PollsBounded'
    BY <1>1, StepTypes
  <1>2. ASSUME NEW w \in Workers, Abort(w)
        PROVE  row' \in [Executions -> Row] /\ tick' \in [Workers -> Tick]
               /\ RowsBounded' /\ PollsBounded'
    <2>1. Idle \in Tick /\ Idle.at # "polling"
      BY DEF Tick, Idle
    <2>2. Moves(w) /\ row' = row
      BY <1>2, <2>1 DEF Abort, Moves
    <2> QED BY <2>2, RowsKept
  <1>3. ASSUME NEW w \in Workers, NEW e \in Executions, Claim(w, e)
        PROVE  row' \in [Executions -> Row] /\ tick' \in [Workers -> Tick]
               /\ RowsBounded' /\ PollsBounded'
    <2> DEFINE s == [row[e] EXCEPT !.owner = w, !.lease = "live"]
    <2>1. PICK step \in Steps : Begins(e, step) /\ tick' = [tick EXCEPT ![w] = [at |-> step, job |-> e]]
      BY <1>3 DEF Claim
    <2>2. s \in Row /\ s.state = row[e].state /\ s.ingests = row[e].ingests /\ s.owner = w
            /\ s.polls = row[e].polls
      <3>1. row[e] \in Row
        BY DEF TypeInv, TypeOK
      <3> QED BY <3>1 DEF Row
    <2>3. row' = [row EXCEPT ![e] = s] /\ row[e].state \in Active
      BY <1>3 DEF Claim, Claimable, TypeInv, TypeOK, Row
    <2> HIDE DEF s
    <2>4. row' \in [Executions -> Row] /\ tick' \in [Workers -> Tick]
      BY <2>1, <2>2, <2>3 DEF TypeInv, TypeOK, Tick
    <2>5. RowsBounded'
      BY <2>2, <2>3 DEF TypeInv, TypeOK, RowsBounded, Active, Terminal
    <2>6. PollsBounded'
      <3> SUFFICES ASSUME NEW u \in Workers, At(u, "polling")', Held(u)'
                   PROVE  (Mine(u).polls < MaxPolls)'
        BY DEF PollsBounded
      <3>1. CASE u = w
        <4>1. row[e].polls < MaxPolls
          BY <2>1, <3>1 DEF Begins, At, TypeInv, TypeOK
        <4> QED BY <2>1, <2>2, <2>3, <3>1, <4>1 DEF Mine, TypeInv, TypeOK
      <3>2. CASE u # w
        <4>1. tick'[u] = tick[u]
          BY <2>1, <3>2 DEF TypeInv, TypeOK
        <4>2. tick[u].job # e
          BY <2>2, <2>3, <3>2, <4>1 DEF Held, Mine, TypeInv, TypeOK
        <4>3. Mine(u)' = Mine(u)
          BY <2>3, <4>1, <4>2, Busy DEF Mine, TypeInv, TypeOK, At, Steps
        <4> QED BY <4>1, <4>3 DEF TypeInv, PollsBounded, At, Held
      <3> QED BY <3>1, <3>2
    <2> QED BY <2>4, <2>5, <2>6
  <1>4. ASSUME NEW e \in Executions, NEW s \in Row, row' = [row EXCEPT ![e] = s], tick' = tick,
               s.owner = row[e].owner, s.polls = row[e].polls, s.ingests = row[e].ingests,
               row[e].state \notin Terminal, s.state \notin Terminal,
               s.state \in {row[e].state, "pending"}
        PROVE  row' \in [Executions -> Row] /\ tick' \in [Workers -> Tick]
               /\ RowsBounded' /\ PollsBounded'
    <2>1. row' \in [Executions -> Row] /\ tick' \in [Workers -> Tick]
      BY <1>4 DEF TypeInv, TypeOK
    <2>2. RowsBounded'
      BY <1>4 DEF TypeInv, TypeOK, RowsBounded, Active, Terminal
    <2>3. PollsBounded'
      <3> SUFFICES ASSUME NEW u \in Workers, At(u, "polling")', Held(u)'
                   PROVE  (Mine(u).polls < MaxPolls)'
        BY DEF PollsBounded
      <3>1. Mine(u).owner = u /\ At(u, "polling") /\ tick[u].job \in Executions
        BY <1>4, Busy DEF At, Held, Mine, Steps, TypeInv, TypeOK
      <3>2. Mine(u).polls < MaxPolls
        BY <3>1 DEF TypeInv, PollsBounded, Held
      <3> QED BY <1>4, <3>1, <3>2 DEF Mine, TypeInv, TypeOK
    <2> QED BY <2>1, <2>2, <2>3
  <1>5. ASSUME NEW e \in Executions, Admit(e)
        PROVE  row' \in [Executions -> Row] /\ tick' \in [Workers -> Tick]
               /\ RowsBounded' /\ PollsBounded'
    <2> DEFINE s == [row[e] EXCEPT !.state = "pending"]
    <2>1. s \in Row /\ s.state = "pending" /\ s.owner = row[e].owner /\ s.polls = row[e].polls
            /\ s.ingests = row[e].ingests
      <3>1. row[e] \in Row
        BY DEF TypeInv, TypeOK
      <3> QED BY <3>1 DEF Row, Active
    <2>2. row' = [row EXCEPT ![e] = s] /\ tick' = tick /\ row[e].state = "absent"
      BY <1>5 DEF Admit
    <2>3. row[e].state \notin Terminal /\ "pending" \notin Terminal
      BY <2>2 DEF Terminal
    <2> HIDE DEF s
    <2> QED BY <1>4, <2>1, <2>2, <2>3
  <1>6. ASSUME NEW e \in Executions, ComesDue(e)
        PROVE  row' \in [Executions -> Row] /\ tick' \in [Workers -> Tick]
               /\ RowsBounded' /\ PollsBounded'
    <2> DEFINE s == [row[e] EXCEPT !.due = TRUE]
    <2>1. s \in Row /\ s.state = row[e].state /\ s.owner = row[e].owner /\ s.polls = row[e].polls
            /\ s.ingests = row[e].ingests
      <3>1. row[e] \in Row
        BY DEF TypeInv, TypeOK
      <3> QED BY <3>1 DEF Row
    <2>2. row' = [row EXCEPT ![e] = s] /\ tick' = tick /\ row[e].state \in Active
      BY <1>6 DEF ComesDue
    <2>3. row[e].state \notin Terminal
      BY <2>2 DEF Active, Terminal
    <2> HIDE DEF s
    <2> QED BY <1>4, <2>1, <2>2, <2>3
  <1>7. ASSUME NEW e \in Executions, LeaseEnds(e)
        PROVE  row' \in [Executions -> Row] /\ tick' \in [Workers -> Tick]
               /\ RowsBounded' /\ PollsBounded'
    <2> DEFINE s == [row[e] EXCEPT !.lease = "ended"]
    <2>1. s \in Row /\ s.state = row[e].state /\ s.owner = row[e].owner /\ s.polls = row[e].polls
            /\ s.ingests = row[e].ingests
      <3>1. row[e] \in Row
        BY DEF TypeInv, TypeOK
      <3> QED BY <3>1 DEF Row
    <2>2. row' = [row EXCEPT ![e] = s] /\ tick' = tick /\ row[e].lease = "live"
      BY <1>7 DEF LeaseEnds
    <2>3. row[e].state \notin Terminal
      BY <2>2 DEF TypeInv, RowsBounded
    <2> HIDE DEF s
    <2> QED BY <1>4, <2>1, <2>2, <2>3
  <1>8. CASE UNCHANGED <<row, tick>>
    BY <1>8 DEF TypeInv, TypeOK, RowsBounded, PollsBounded, At, Held, Mine
  <1>9. ASSUME NEW e \in Executions, DeadlinePasses(e) PROVE UNCHANGED <<row, tick>>
    BY <1>9 DEF DeadlinePasses
  <1>10. DeleteThread => UNCHANGED <<row, tick>>
    BY DEF DeleteThread
  <1>11. UNCHANGED vars => UNCHANGED <<row, tick>>
    BY DEF vars
  <1> QED BY <1>1, <1>2, <1>3, <1>5, <1>6, <1>7, <1>8, <1>9, <1>10, <1>11 DEF Next

FilesOK ==
    /\ overdue \in SUBSET Executions /\ thread \in BOOLEAN
    /\ journal \in SUBSET Executions /\ output \in SUBSET Executions
    /\ attempts \in SUBSET Executions /\ posts \in [Executions -> Nat]

LEMMA TypeInvStep == TypeInv /\ [Next]_vars => TypeInv'
  <1> SUFFICES ASSUME TypeInv, [Next]_vars PROVE TypeInv'
    OBVIOUS
  <1>1. FilesOK'
    <2> USE DEF FilesOK, TypeInv, TypeOK, files
    <2>1. ASSUME NEW w \in Workers, Step(w)
          PROVE  UNCHANGED <<overdue, thread, files, posts>>
                 \/ /\ tick[w].at \in Steps /\ UNCHANGED <<overdue, thread>>
                    /\ \/ posts' = [posts EXCEPT ![tick[w].job] = @ + 1] /\ UNCHANGED files
                       \/ journal' = journal \cup {tick[w].job} /\ UNCHANGED <<output, attempts, posts>>
                       \/ journal' \in SUBSET journal /\ UNCHANGED <<output, attempts, posts>>
                       \/ output' = output \cup {tick[w].job} /\ UNCHANGED <<journal, attempts, posts>>
                       \/ attempts' \in {attempts, attempts \cup {tick[w].job}}
                             /\ UNCHANGED <<journal, output, posts>>
      <3>1. Post(w) \/ SaveEarly(w) \/ SaveResult(w) \/ Ingest(w) \/ Clean(w) \/ WriteAttempt(w)
            \/ UNCHANGED <<overdue, thread, files, posts>>
        BY <2>1 DEF Step, Expire, Refuse, MarkSubmitting, Accepted, Uncertain, Poll, PollAgain,
             PollFails, Download, DownloadFails, LoadResult, RecordResult, StorageFails, Finish,
             StartLocal, Render, EndRender, CompleteAttempt
      <3> QED BY <3>1 DEF Post, SaveEarly, SaveResult, Ingest, Clean, WriteAttempt, At, Steps
    <2>2. ASSUME NEW w \in Workers, Step(w) PROVE FilesOK'
      BY <2>1, <2>2, Busy
    <2>3. CASE \/ \E w \in Workers : Abort(w) \/ \E e \in Executions : Claim(w, e)
               \/ \E e \in Executions : Admit(e) \/ ComesDue(e) \/ LeaseEnds(e) \/ DeadlinePasses(e)
               \/ DeleteThread \/ UNCHANGED vars
      BY <2>3 DEF Abort, Claim, Admit, ComesDue, LeaseEnds, DeadlinePasses, DeleteThread, vars
    <2> QED BY <2>2, <2>3 DEF Next
  <1> QED BY <1>1, NextTypes DEF TypeInv, TypeOK, FilesOK

\* Rows, ticks, files and posts keep their types: polls and ingestion attempts
\* stay within their limits on every path through the tick.
THEOREM TypeCorrect == Spec => []TypeOK
  <1>1. Init => TypeInv
    BY InitTypeInv
  <1>2. TypeInv /\ [Next]_vars => TypeInv'
    BY TypeInvStep
  <1>3. TypeInv => TypeOK
    BY DEF TypeInv
  <1> QED BY <1>1, <1>2, <1>3, PTL DEF Spec

LEMMA TypeInvariant == Spec => []TypeInv
  BY InitTypeInv, TypeInvStep, PTL DEF Spec

(***************************************************************************)
(* What the steps of a tick do, without their reasons.                     *)
(***************************************************************************)
\* A write of w, if w holds the row: the state it may leave and what else it sets.
RowEffect(w) ==
    LET r == Mine(w)
        s == row'[tick[w].job]
    IN  \/ row' = row
        \/ /\ Held(w)
           /\ \A e \in Executions : e # tick[w].job => row'[e] = row[e]
           /\ s.kind = r.kind
           /\ \/ s.owner = Nobody
              \/ s.owner = w /\ tick'[w].at # "idle" /\ s.state \in {"submitting", "running", "ingesting"}
           /\ \/ s.submits = r.submits
              \/ At(w, "marking") /\ r.submits = 0 /\ s.submits = 1
           /\ \/ s.bytes = r.bytes
              \/ At(w, "finishing") /\ s.state = "succeeded"
              \/ At(w, "completing") /\ s.state = "succeeded"
           /\ \/ s.known = r.known
              \/ At(w, "accepted") /\ s.known = TRUE /\ s.state = "submitted"
           /\ \/ s.ready = r.ready
              \/ At(w, "polling") /\ s.state = "running"
           /\ \/ s.state \in {"failed", "expired", r.state}
              \/ At(w, "marking") /\ s.state = "submitting" /\ r.state = "pending"
              \/ At(w, "accepted") /\ s.state = "submitted" /\ s.known = TRUE
              \/ At(w, "uncertain") /\ s.state = "submission_unknown"
              \/ tick[w].at \in {"polling", "starting"} /\ s.state = "running"
              \/ tick[w].at \in {"recording", "recovering", "rendered"} /\ s.state = "ingesting"
              \/ /\ tick[w].at \in Guarded
                 /\ s.state = "ingesting" /\ s.owner = Nobody
                 /\ ~(r.kind = "video" /\ r.state = "running" /\ r.ready)
              \/ At(w, "finishing") /\ s.state = "succeeded" /\ s.bytes = "output"
              \/ At(w, "completing") /\ s.state = "succeeded" /\ s.bytes = "attempt"

\* Where a tick goes.
Flow ==
    {<<"marking", "posting">>, <<"posting", "refusing">>, <<"posting", "uncertain">>,
     <<"posting", "recording">>, <<"posting", "accepted">>, <<"polling", "waiting">>,
     <<"polling", "downloading">>, <<"polling", "refusing">>, <<"downloading", "saving">>,
     <<"downloading", "recording">>, <<"loading", "uncertain">>, <<"loading", "recovering">>,
     <<"loading", "recording">>, <<"loading", "saving">>, <<"saving", "recording">>,
     <<"recording", "keeping">>, <<"recovering", "ingesting">>, <<"keeping", "ingesting">>,
     <<"ingesting", "finishing">>, <<"finishing", "cleaning">>, <<"starting", "rendering">>,
     <<"rendering", "rendered">>, <<"rendering", "refusing">>, <<"rendered", "publishing">>,
     <<"publishing", "completing">>}

TickEffect(w) ==
    /\ tick[w].at \in Steps
    /\ \A u \in Workers : u # w => tick'[u] = tick[u]
    /\ \/ tick'[w] = Idle
       \/ /\ tick'[w].job = tick[w].job
          /\ <<tick[w].at, tick'[w].at>> \in Flow
          /\ tick'[w].at = "posting" =>
                /\ Held(w) /\ Mine(w).submits = 0 /\ row'[tick[w].job].submits = 1
                /\ Mine(w).state = "pending" /\ row'[tick[w].job].state = "submitting"
          /\ tick'[w].at = "cleaning" => row'[tick[w].job].state = "succeeded"
          /\ At(w, "loading") => (tick'[w].at = "uncertain" <=> tick[w].job \notin journal)
          /\ At(w, "posting") /\ Mine(w).kind # "image" => tick'[w].at # "recording"
          /\ tick'[w].at = "downloading" => row'[tick[w].job].ready /\ row'[tick[w].job].state = "running"
          /\ Mine(w).kind = "video" =>
                /\ tick'[w].at # "recovering"
                /\ tick'[w].at = "recording" => At(w, "saving")

FileEffect(w) ==
    LET e == tick[w].job
        to == tick'[w].at
    IN  /\ thread' = thread /\ overdue' = overdue
        /\ posts' = IF At(w, "posting") THEN [posts EXCEPT ![e] = @ + 1] ELSE posts
        /\ \/ journal' = journal
           \/ tick[w].at \in {"saving", "keeping"} /\ journal' = journal \cup {e}
           \/ At(w, "cleaning") /\ journal' = journal \ {e}
        /\ At(w, "saving") /\ to = "recording" => e \in journal'
        /\ At(w, "keeping") /\ to = "ingesting" => e \in journal'
        /\ output' \in {output, output \cup {e}}
        /\ At(w, "ingesting") /\ to = "finishing" => e \in output'
        /\ attempts' \in {attempts, attempts \cup {e}}
        /\ At(w, "publishing") /\ to = "completing" => e \in attempts'

LEMMA StepFiles ==
    ASSUME TypeInv, NEW w \in Workers, Step(w)
    PROVE  FileEffect(w)
  <1> USE DEF FileEffect, files, At, Idle
  <1>1. CASE Post(w)
    BY <1>1 DEF Post
  <1>5. CASE SaveEarly(w) \/ SaveResult(w)
    BY <1>5 DEF SaveEarly, SaveResult
  <1>6. CASE Ingest(w)
    BY <1>6 DEF Ingest
  <1>7. CASE Clean(w)
    BY <1>7 DEF Clean
  <1>8. CASE WriteAttempt(w)
    BY <1>8 DEF WriteAttempt, TypeInv, TypeOK
  <1>2. CASE StorageFails(w)
    <2>1. tick'[w] = Idle
      BY <1>2 DEF StorageFails, Leave, TypeInv, TypeOK
    <2> QED BY <1>2, <2>1 DEF StorageFails, Guarded
  <1>3. CASE \/ Expire(w) \/ Refuse(w) \/ MarkSubmitting(w) \/ Accepted(w) \/ Uncertain(w)
             \/ Poll(w) \/ PollAgain(w) \/ PollFails(w) \/ Download(w) \/ DownloadFails(w)
    BY <1>3 DEF Expire, Refuse, MarkSubmitting, Accepted, Uncertain, Poll, PollAgain, PollFails,
                Download, DownloadFails
  <1>4. CASE \/ LoadResult(w) \/ RecordResult(w) \/ Finish(w) \/ StartLocal(w) \/ Render(w)
             \/ EndRender(w) \/ CompleteAttempt(w)
    BY <1>4 DEF LoadResult, RecordResult, Finish, StartLocal, Render, EndRender, CompleteAttempt
  <1> QED BY <1>1, <1>2, <1>3, <1>4, <1>5, <1>6, <1>7, <1>8 DEF Step

LEMMA Left ==
    ASSUME TypeInv, NEW w \in Workers, tick[w].at \in Steps, tick' = [tick EXCEPT ![w] = Idle]
    PROVE  TickEffect(w)
  BY DEF TickEffect, TypeInv, TypeOK, Idle

LEMMA WentOn ==
    ASSUME TypeInv, NEW w \in Workers, tick[w].at \in Steps, NEW s \in Steps, Continue(w, s)
    PROVE  /\ \A u \in Workers : u # w => tick'[u] = tick[u]
           /\ tick'[w].job = tick[w].job /\ tick'[w].at = s
  BY Busy DEF Continue, TypeInv, TypeOK

LEMMA StepTick ==
    ASSUME TypeInv, NEW w \in Workers, Step(w)
    PROVE  TickEffect(w)
  <1> USE DEF At, Steps
  <1>1. CASE Expire(w) \/ Refuse(w) \/ Accepted(w) \/ Uncertain(w)
    BY <1>1, Left DEF Expire, Refuse, Accepted, Uncertain, Leave
  <1>2. CASE PollAgain(w) \/ PollFails(w) \/ DownloadFails(w) \/ StorageFails(w) \/ Clean(w)
    BY <1>2, Left DEF PollAgain, PollFails, DownloadFails, StorageFails, Guarded, Clean, Leave
  <1>3. CASE Post(w)
    <2>1. PICK s \in {"refusing", "uncertain", IF Mine(w).kind = "image" THEN "recording" ELSE "accepted"} :
            Continue(w, s)
      BY <1>3 DEF Post
    <2> QED BY <1>3, <2>1, WentOn DEF Post, TickEffect, Flow
  <1>4. CASE Download(w)
    <2>1. tick[w].at = "downloading"
          /\ Continue(w, IF Mine(w).kind = "video" THEN "saving" ELSE "recording")
      BY <1>4 DEF Download
    <2> QED BY <2>1, WentOn DEF TickEffect, Flow
  <1>5. CASE LoadResult(w)
    <2>1. tick[w].at = "loading"
      BY <1>5 DEF LoadResult
    <2>2. CASE tick[w].job \notin journal
      BY <1>5, <2>1, <2>2, WentOn DEF LoadResult, TickEffect, Flow
    <2>3. CASE tick[w].job \in journal /\ Mine(w).kind = "image"
      BY <1>5, <2>1, <2>3, WentOn DEF LoadResult, TickEffect, Flow
    <2>4. CASE tick[w].job \in journal /\ Mine(w).kind = "queued"
      BY <1>5, <2>1, <2>4, WentOn DEF LoadResult, TickEffect, Flow
    <2>5. CASE tick[w].job \in journal /\ Mine(w).kind \notin {"image", "queued"}
      <3>1. Continue(w, "saving")
        BY <1>5, <2>5 DEF LoadResult
      <3> QED BY <2>1, <2>5, <3>1, WentOn DEF TickEffect, Flow
    <2> QED BY <2>2, <2>3, <2>4, <2>5
  <1>6. CASE SaveEarly(w) \/ SaveResult(w) \/ Ingest(w)
    BY <1>6, WentOn DEF SaveEarly, SaveResult, Ingest, TickEffect, Flow
  <1>7. CASE Render(w)
    BY <1>7, WentOn DEF Render, TickEffect, Flow
  <1>8. CASE WriteAttempt(w)
    BY <1>8, WentOn, Left DEF WriteAttempt, TickEffect, Flow
  <1>9. CASE MarkSubmitting(w)
    <2>1. CASE thread /\ Held(w) /\ Mine(w).state = "pending" /\ Mine(w).submits = 0
      <3> DEFINE s == [Mine(w) EXCEPT !.state = "submitting", !.submits = 1]
      <3>1. row' = [row EXCEPT ![tick[w].job] = s] /\ Continue(w, "posting")
        BY <1>9, <2>1 DEF MarkSubmitting, Advance
      <3>2. s.state = "submitting" /\ s.submits = 1
        BY <1>9, Busy DEF MarkSubmitting, TypeInv, Row
      <3>3. row'[tick[w].job] = s
        BY <1>9, <3>1, Busy DEF MarkSubmitting, TypeInv, TypeOK
      <3> HIDE DEF s
      <3> QED BY <1>9, <2>1, <3>1, <3>2, <3>3, WentOn DEF MarkSubmitting, TickEffect, Flow
    <2>2. CASE ~(thread /\ Held(w) /\ Mine(w).state = "pending" /\ Mine(w).submits = 0)
      BY <1>9, <2>2, Left DEF MarkSubmitting, Advance, Leave
    <2> QED BY <2>1, <2>2
  <1>10. CASE Poll(w)
    <2>1. PICK answer \in {"waiting", "downloading", "refusing"} :
            Advance(w, TRUE, [Mine(w) EXCEPT !.state = "running", !.polls = @ + 1,
                                             !.lease = "live", !.ready = answer = "downloading"],
                    answer)
      BY <1>10 DEF Poll
    <2>2. CASE Held(w)
      <3> DEFINE s == [Mine(w) EXCEPT !.state = "running", !.polls = @ + 1,
                                      !.lease = "live", !.ready = answer = "downloading"]
      <3>1. row' = [row EXCEPT ![tick[w].job] = s] /\ Continue(w, answer)
        BY <2>1, <2>2 DEF Advance
      <3>2. s.state = "running" /\ s.ready = (answer = "downloading")
        BY <1>10, Busy DEF Poll, TypeInv, Row
      <3>3. row'[tick[w].job] = s
        BY <1>10, <3>1, Busy DEF Poll, TypeInv, TypeOK
      <3> HIDE DEF s
      <3> QED BY <1>10, <3>1, <3>2, <3>3, WentOn DEF Poll, TickEffect, Flow
    <2>3. CASE ~Held(w)
      BY <1>10, <2>1, <2>3, Left DEF Poll, Advance
    <2> QED BY <2>2, <2>3
  <1>11. CASE RecordResult(w)
    BY <1>11, WentOn, Left DEF RecordResult, Advance, TickEffect, Flow
  <1>12. CASE StartLocal(w) \/ EndRender(w)
    BY <1>12, WentOn, Left DEF StartLocal, EndRender, Advance, TickEffect, Flow
  <1>13. CASE Finish(w)
    <2>1. tick[w].at = "finishing"
      BY <1>13 DEF Finish
    <2>2. CASE tick[w].job \in overdue
      BY <1>13, <2>1, <2>2, Left DEF Finish, Leave
    <2>3. CASE tick[w].job \notin overdue /\ ~thread
      BY <1>13, <2>1, <2>3, Left DEF Finish, Leave
    <2>4. CASE tick[w].job \notin overdue /\ thread /\ Held(w)
      <3> DEFINE r == [Mine(w) EXCEPT !.state = "succeeded", !.bytes = "output", !.ingests = @ + 1]
                 s == [r EXCEPT !.owner = Nobody, !.lease = "none"]
      <3>1. row' = [row EXCEPT ![tick[w].job] = s] /\ Continue(w, "cleaning")
        BY <1>13, <2>4 DEF Finish, Written, Continue
      <3>2. s.state = "succeeded"
        BY <2>1, Busy DEF TypeInv, Row
      <3>3. row'[tick[w].job] = s
        BY <2>1, <3>1, Busy DEF TypeInv, TypeOK
      <3> HIDE DEF s
      <3> QED BY <2>1, <3>1, <3>2, <3>3, WentOn DEF TickEffect, Flow
    <2>5. CASE tick[w].job \notin overdue /\ thread /\ ~Held(w)
      <3>1. tick' = [tick EXCEPT ![w] = Idle]
        BY <1>13, <2>5 DEF Finish
      <3> QED BY <2>1, <3>1, Left
    <2> QED BY <2>2, <2>3, <2>4, <2>5
  <1>14. CASE CompleteAttempt(w)
    BY <1>14, Left DEF CompleteAttempt, Leave
  <1> QED BY <1>1, <1>2, <1>3, <1>4, <1>5, <1>6, <1>7, <1>8, <1>9, <1>10, <1>11, <1>12, <1>13,
             <1>14 DEF Step

\* What every write leaves alone, or changes for a reason.
LEMMA Wrote ==
    ASSUME TypeInv, NEW w \in Workers, tick[w].at \in Steps, NEW r,
           row' = [row EXCEPT ![tick[w].job] = r]
    PROVE  /\ row'[tick[w].job] = r
           /\ \A e \in Executions : e # tick[w].job => row'[e] = row[e]
  BY Busy DEF TypeInv, TypeOK

LEMMA WroteBack ==
    ASSUME TypeInv, NEW w \in Workers, tick[w].at \in Steps, NEW r, Held(w) => r \in Row, Written(w, r)
    PROVE  \/ row' = row
           \/ /\ Held(w)
              /\ \A e \in Executions : e # tick[w].job => row'[e] = row[e]
              /\ LET s == row'[tick[w].job]
                 IN  /\ s.owner = Nobody /\ s.kind = r.kind /\ s.submits = r.submits
                     /\ s.bytes = r.bytes /\ s.known = r.known /\ s.ready = r.ready
                     /\ s.state = r.state
  <1>1. CASE ~Held(w)
    BY <1>1 DEF Written
  <1>2. CASE Held(w)
    <2> DEFINE s == [r EXCEPT !.owner = Nobody, !.lease = "none"]
    <2>1. s.owner = Nobody /\ s.kind = r.kind /\ s.submits = r.submits /\ s.bytes = r.bytes
          /\ s.known = r.known /\ s.ready = r.ready /\ s.state = r.state
      BY <1>2 DEF Row
    <2>2. row' = [row EXCEPT ![tick[w].job] = s]
      BY <1>2 DEF Written
    <2> HIDE DEF s
    <2>3. row'[tick[w].job] = s /\ \A e \in Executions : e # tick[w].job => row'[e] = row[e]
      BY <2>2, Wrote
    <2> QED BY <1>2, <2>1, <2>3
  <1> QED BY <1>1, <1>2

\* What a change that gives the lease back may write over r0.
Change(w, r0, r) ==
    /\ r \in Row
    /\ r.kind = r0.kind /\ r.submits = r0.submits /\ r.ready = r0.ready
    /\ \/ r.bytes = r0.bytes
       \/ At(w, "completing") /\ r.state = "succeeded" /\ r.bytes = "attempt"
    /\ \/ r.known = r0.known
       \/ At(w, "accepted") /\ r.known = TRUE /\ r.state = "submitted"
    /\ \/ r.state \in {"failed", "expired", r0.state}
       \/ At(w, "accepted") /\ r.state = "submitted" /\ r.known = TRUE
       \/ At(w, "uncertain") /\ r.state = "submission_unknown"
       \/ /\ tick[w].at \in Guarded
          /\ r.state = "ingesting"
          /\ ~(r0.kind = "video" /\ r0.state = "running" /\ r0.ready)
       \/ At(w, "completing") /\ r.state = "succeeded" /\ r.bytes = "attempt"

LEMMA LeftRow ==
    ASSUME TypeInv, NEW w \in Workers, tick[w].at \in Steps, NEW r, Leave(w, r),
           Held(w) => Change(w, Mine(w), r)
    PROVE  RowEffect(w)
  <1>1. Written(w, r)
    BY DEF Leave
  <1>2. CASE row' = row
    BY <1>2 DEF RowEffect
  <1>3. CASE row' # row
    <2>1. /\ Held(w)
          /\ \A e \in Executions : e # tick[w].job => row'[e] = row[e]
          /\ LET s == row'[tick[w].job]
             IN  /\ s.owner = Nobody /\ s.kind = r.kind /\ s.submits = r.submits
                 /\ s.bytes = r.bytes /\ s.known = r.known /\ s.ready = r.ready
                 /\ s.state = r.state
      BY <1>1, <1>3, WroteBack DEF Change
    <2> HIDE DEF Mine, At, Held
    <2> QED BY <2>1 DEF RowEffect, Change
  <1> QED BY <1>2, <1>3

\* One more ingestion attempt, or the last.
LEMMA AnotherRow ==
    ASSUME NEW r \in Row, NEW s
    PROVE  LET q == Another(r, s)
           IN  /\ q.kind = r.kind /\ q.submits = r.submits /\ q.ready = r.ready
               /\ q.bytes = r.bytes /\ q.known = r.known /\ q.state \in {"failed", s}
  BY DEF Another, Row

\* A write that keeps the lease.
LEMMA AdvancedRow ==
    ASSUME TypeInv, NEW w \in Workers, tick[w].at \in Steps,
           NEW can, NEW r, NEW step \in Steps, Advance(w, can, r, step),
           Held(w) /\ can =>
              /\ r.owner = Mine(w).owner /\ r.kind = Mine(w).kind
              /\ r.bytes = Mine(w).bytes /\ r.known = Mine(w).known
              /\ \/ r.submits = Mine(w).submits
                 \/ At(w, "marking") /\ Mine(w).submits = 0 /\ r.submits = 1
              /\ \/ r.ready = Mine(w).ready
                 \/ At(w, "polling") /\ r.state = "running"
              /\ \/ At(w, "marking") /\ r.state = "submitting" /\ Mine(w).state = "pending"
                 \/ tick[w].at \in {"polling", "starting"} /\ r.state = "running"
                 \/ tick[w].at \in {"recording", "recovering", "rendered"} /\ r.state = "ingesting"
    PROVE  RowEffect(w)
  <1>1. CASE ~(Held(w) /\ can)
    BY <1>1 DEF Advance, RowEffect
  <1>2. CASE Held(w) /\ can
    <2>1. row' = [row EXCEPT ![tick[w].job] = r] /\ Continue(w, step)
      BY <1>2 DEF Advance
    <2>2. row'[tick[w].job] = r /\ \A e \in Executions : e # tick[w].job => row'[e] = row[e]
      BY <2>1, Wrote
    <2>3. tick'[w].at # "idle"
      BY <2>1, WentOn DEF Steps
    <2>4. r.owner = w
      BY <1>2 DEF Held
    <2> HIDE DEF Mine, At, Held
    <2> QED BY <1>2, <2>2, <2>3, <2>4 DEF RowEffect
  <1> QED BY <1>1, <1>2

LEMMA StepRow ==
    ASSUME TypeInv, NEW w \in Workers, Step(w)
    PROVE  RowEffect(w)
  <1> DEFINE m == Mine(w)
  <1>m. ASSUME tick[w].at \in Steps PROVE m \in Row
    BY <1>m, Busy DEF TypeInv
  <1>e. ASSUME tick[w].at \in Steps, NEW s \in Terminal, Leave(w, [m EXCEPT !.state = s]),
               s # "succeeded"
        PROVE  RowEffect(w)
    <2> DEFINE r == [m EXCEPT !.state = s]
    <2>1. r \in Row /\ r.kind = m.kind /\ r.submits = m.submits /\ r.ready = m.ready
          /\ r.bytes = m.bytes /\ r.known = m.known /\ r.state \in {"failed", "expired"}
      BY <1>m, <1>e DEF Row, Terminal
    <2>2. Leave(w, r)
      BY <1>e
    <2> HIDE DEF r
    <2>9. Held(w) => Change(w, m, r)
      BY <1>e, <2>1, <2>2 DEF Change, At
    <2> QED BY <2>9, <1>e, <2>1, <2>2, LeftRow
  <1>a. ASSUME tick[w].at \in Steps, NEW s \in Active, s \in {Mine(w).state, "ingesting"},
               Leave(w, Another(m, s)),
               s # Mine(w).state =>
                  /\ tick[w].at \in Guarded
                  /\ ~(m.kind = "video" /\ m.state = "running" /\ m.ready)
        PROVE  RowEffect(w)
    <2> DEFINE r == Another(m, s)
    <2>1. r.kind = m.kind /\ r.submits = m.submits /\ r.ready = m.ready
          /\ r.bytes = m.bytes /\ r.known = m.known /\ r.state \in {"failed", s}
      BY <1>m, <1>a, AnotherRow
    <2>2. Held(w) => r \in Row
      BY <1>a, SoundChanges, Zenon DEF Sound
    <2>3. Leave(w, r)
      BY <1>a
    <2> HIDE DEF r
    <2>9. Held(w) => Change(w, m, r)
      BY <1>a, <2>1, <2>2, <2>3 DEF Change, At
    <2> QED BY <2>9, <1>a, <2>1, <2>2, <2>3, LeftRow
  <1>1. CASE Expire(w) \/ Refuse(w)
    BY <1>1, <1>e DEF Expire, Refuse, At, Steps, Terminal
  <1>2. CASE Accepted(w)
    <2> DEFINE r == [m EXCEPT !.state = "submitted", !.known = TRUE, !.due = FALSE]
    <2>1. tick[w].at = "accepted" /\ tick[w].at \in Steps /\ Leave(w, r)
      BY <1>2 DEF Accepted, At, Steps
    <2>2. r \in Row /\ r.kind = m.kind /\ r.submits = m.submits /\ r.ready = m.ready
          /\ r.bytes = m.bytes /\ r.known = TRUE /\ r.state = "submitted"
      BY <1>m, <2>1 DEF Row, Active
    <2> HIDE DEF r
    <2>9. Held(w) => Change(w, m, r)
      BY <2>1, <2>2 DEF Change, At
    <2> QED BY <2>9, <2>1, <2>2, LeftRow
  <1>3. CASE Uncertain(w)
    <2> DEFINE r == [m EXCEPT !.state = "submission_unknown", !.due = FALSE]
    <2>1. tick[w].at = "uncertain" /\ tick[w].at \in Steps /\ Leave(w, r)
      BY <1>3 DEF Uncertain, At, Steps
    <2>2. r \in Row /\ r.kind = m.kind /\ r.submits = m.submits /\ r.ready = m.ready
          /\ r.bytes = m.bytes /\ r.known = m.known /\ r.state = "submission_unknown"
      BY <1>m, <2>1 DEF Row, Active
    <2> HIDE DEF r
    <2>9. Held(w) => Change(w, m, r)
      BY <2>1, <2>2 DEF Change, At
    <2> QED BY <2>9, <2>1, <2>2, LeftRow
  <1>4. CASE PollAgain(w)
    <2> DEFINE r == [m EXCEPT !.due = FALSE]
    <2>1. tick[w].at \in Steps /\ Leave(w, r)
      BY <1>4 DEF PollAgain, At, Steps
    <2>2. r \in Row /\ r.kind = m.kind /\ r.submits = m.submits /\ r.ready = m.ready
          /\ r.bytes = m.bytes /\ r.known = m.known /\ r.state = m.state
      BY <1>m, <2>1 DEF Row
    <2> HIDE DEF r
    <2>9. Held(w) => Change(w, m, r)
      BY <2>1, <2>2 DEF Change, At
    <2> QED BY <2>9, <2>1, <2>2, LeftRow
  <1>5. CASE PollFails(w)
    <2> DEFINE r == [m EXCEPT !.polls = @ + 1, !.due = FALSE]
    <2>1. tick[w].at = "polling" /\ tick[w].at \in Steps
      BY <1>5 DEF PollFails, At, Steps
    <2>2. CASE Leave(w, r)
      <3>1. r.kind = m.kind /\ r.submits = m.submits /\ r.ready = m.ready
            /\ r.bytes = m.bytes /\ r.known = m.known /\ r.state = m.state
        BY <1>m, <2>1 DEF Row
      <3>2. Held(w) => r \in Row
        BY <2>1, AdvanceEdits, HeldIsSound, Zenon DEF TypeInv, PollsBounded, At, Sound
      <3> HIDE DEF r
      <3>9. Held(w) => Change(w, m, r)
        BY <2>1, <2>2, <3>1, <3>2 DEF Change, At
      <3> QED BY <3>9, <2>1, <2>2, <3>1, <3>2, LeftRow
    <2>3. CASE \E end \in {"failed", "expired"} : Leave(w, [m EXCEPT !.state = end])
      BY <1>e, <2>1, <2>3 DEF Terminal
    <2> QED BY <1>5, <2>2, <2>3 DEF PollFails
  <1>6. CASE DownloadFails(w)
    <2>1. tick[w].at = "downloading" /\ tick[w].at \in Steps
      BY <1>6 DEF DownloadFails, At, Steps
    <2>2. CASE Leave(w, Another(m, m.state))
      <3>1. CASE Held(w)
        BY <1>a, <2>1, <2>2, <3>1, HeldIsSound
      <3>2. CASE ~Held(w)
        BY <2>2, <3>2 DEF Leave, Written, RowEffect
      <3> QED BY <3>1, <3>2
    <2>3. CASE \E end \in {"failed", "expired"} : Leave(w, [m EXCEPT !.state = end])
      BY <1>e, <2>1, <2>3 DEF Terminal
    <2> QED BY <1>6, <2>2, <2>3 DEF DownloadFails
  <1>7. CASE StorageFails(w)
    <2> DEFINE s == IF m.kind = "video" /\ m.state = "running" /\ m.ready
                    THEN "running" ELSE "ingesting"
    <2>1. /\ tick[w].at \in Guarded
          /\ tick[w].at \in Steps
          /\ Leave(w, Another(m, s))
      BY <1>7 DEF StorageFails, Guarded, Steps
    <2>2. s \in Active /\ s \in {m.state, "ingesting"}
          /\ (s # m.state => ~(m.kind = "video" /\ m.state = "running" /\ m.ready))
      BY DEF Active
    <2> HIDE DEF s
    <2> QED BY <1>a, <2>1, <2>2
  <1>8. CASE \/ Post(w) \/ Download(w) \/ LoadResult(w) \/ SaveEarly(w) \/ SaveResult(w) \/ Ingest(w)
             \/ Clean(w) \/ Render(w) \/ WriteAttempt(w)
    BY <1>8 DEF Post, Download, LoadResult, SaveEarly, SaveResult, Ingest, Clean, Render,
                WriteAttempt, RowEffect
  <1>9. CASE MarkSubmitting(w)
    <2> DEFINE r == [m EXCEPT !.state = "submitting", !.submits = 1]
    <2>1. tick[w].at = "marking" /\ tick[w].at \in Steps /\ "posting" \in Steps
      BY <1>9 DEF MarkSubmitting, At, Steps
    <2>2. CASE thread
      <3>1. Advance(w, m.state = "pending" /\ m.submits = 0, r, "posting")
        BY <1>9, <2>2 DEF MarkSubmitting
      <3>2. r.owner = m.owner /\ r.kind = m.kind /\ r.bytes = m.bytes /\ r.known = m.known
            /\ r.ready = m.ready /\ r.submits = 1 /\ r.state = "submitting"
        BY <1>m, <2>1 DEF Row
      <3> HIDE DEF r
      <3> QED BY <2>1, <3>1, <3>2, AdvancedRow DEF At
    <2>3. CASE ~thread
      BY <1>9, <1>e, <2>1, <2>3 DEF MarkSubmitting, Terminal
    <2> QED BY <2>2, <2>3
  <1>10. CASE Poll(w)
    <2>1. tick[w].at = "polling" /\ tick[w].at \in Steps
      BY <1>10 DEF Poll, At, Steps
    <2>2. PICK answer \in {"waiting", "downloading", "refusing"} :
            Advance(w, TRUE, [m EXCEPT !.state = "running", !.polls = @ + 1,
                                       !.lease = "live", !.ready = answer = "downloading"], answer)
      BY <1>10 DEF Poll
    <2> DEFINE r == [m EXCEPT !.state = "running", !.polls = @ + 1,
                              !.lease = "live", !.ready = answer = "downloading"]
    <2>3. r.owner = m.owner /\ r.kind = m.kind /\ r.bytes = m.bytes /\ r.known = m.known
          /\ r.submits = m.submits /\ r.state = "running"
      BY <1>m, <2>1 DEF Row
    <2>4. Advance(w, TRUE, r, answer) /\ answer \in Steps
      BY <2>2 DEF Steps
    <2> HIDE DEF r
    <2> QED BY <2>1, <2>3, <2>4, AdvancedRow DEF At
  <1>11. CASE RecordResult(w) \/ StartLocal(w) \/ EndRender(w)
    <2>1. PICK s \in {"running", "ingesting"}, can \in BOOLEAN, step \in Steps :
            /\ Advance(w, can, [m EXCEPT !.state = s], step)
            /\ \/ tick[w].at \in {"recording", "recovering", "rendered"} /\ s = "ingesting"
               \/ tick[w].at = "starting" /\ s = "running"
      <3>1. CASE RecordResult(w)
        BY <3>1 DEF RecordResult, Steps
      <3>2. CASE StartLocal(w)
        BY <3>2 DEF StartLocal, InTime, At, Steps
      <3>3. CASE EndRender(w)
        BY <3>3 DEF EndRender, InTime, At, Steps
      <3> QED BY <1>11, <3>1, <3>2, <3>3
    <2> DEFINE r == [m EXCEPT !.state = s]
    <2>2. tick[w].at \in Steps
      BY <2>1 DEF Steps
    <2>3. r.owner = m.owner /\ r.kind = m.kind /\ r.bytes = m.bytes /\ r.known = m.known
          /\ r.submits = m.submits /\ r.ready = m.ready /\ r.state = s
      BY <1>m, <2>2 DEF Row
    <2>4. Advance(w, can, r, step)
      BY <2>1
    <2> HIDE DEF r
    <2> QED BY <2>1, <2>2, <2>3, <2>4, AdvancedRow
  <1>12. CASE Finish(w)
    <2>1. tick[w].at = "finishing" /\ tick[w].at \in Steps
      BY <1>12 DEF Finish, At, Steps
    <2>2. CASE tick[w].job \in overdue
      BY <1>12, <1>e, <2>1, <2>2 DEF Finish, Terminal
    <2>3. CASE tick[w].job \notin overdue /\ ~thread
      BY <1>12, <1>e, <2>1, <2>3 DEF Finish, Terminal
    <2>4. CASE tick[w].job \notin overdue /\ thread
      <3> DEFINE r == [m EXCEPT !.state = "succeeded", !.bytes = "output", !.ingests = @ + 1]
      <3>1. Written(w, r)
        BY <1>12, <2>4 DEF Finish
      <3>2. r.kind = m.kind /\ r.submits = m.submits /\ r.ready = m.ready
            /\ r.bytes = "output" /\ r.known = m.known /\ r.state = "succeeded"
        BY <1>m, <2>1 DEF Row
      <3>3. Held(w) => r \in Row
        BY <2>1, SoundChanges, Zenon DEF Sound
      <3> HIDE DEF r
      <3>4. CASE row' = row
        BY <3>4 DEF RowEffect
      <3>5. CASE row' # row
        <4>1. /\ Held(w)
              /\ \A e \in Executions : e # tick[w].job => row'[e] = row[e]
              /\ LET s == row'[tick[w].job]
                 IN  /\ s.owner = Nobody /\ s.kind = r.kind /\ s.submits = r.submits
                     /\ s.bytes = r.bytes /\ s.known = r.known /\ s.ready = r.ready
                     /\ s.state = r.state
          BY <2>1, <3>1, <3>3, <3>5, WroteBack
        <4> QED BY <2>1, <3>2, <4>1 DEF RowEffect, At
      <3> QED BY <3>4, <3>5
    <2> QED BY <2>2, <2>3, <2>4
  <1>13. CASE CompleteAttempt(w)
    <2> DEFINE r == [m EXCEPT !.state = "succeeded", !.bytes = "attempt", !.ingests = @ + 1]
    <2>1. tick[w].at = "completing" /\ tick[w].at \in Steps
      BY <1>13 DEF CompleteAttempt, At, Steps
    <2>2. CASE Leave(w, r)
      <3>1. r.kind = m.kind /\ r.submits = m.submits /\ r.ready = m.ready
            /\ r.bytes = "attempt" /\ r.known = m.known /\ r.state = "succeeded"
        BY <1>m, <2>1 DEF Row
      <3>2. Held(w) => r \in Row
        BY <2>1, SoundChanges, Zenon DEF Sound
      <3> HIDE DEF r
      <3>3. Held(w) => Change(w, m, r)
        BY <2>1, <3>1, <3>2 DEF Change, At
      <3> QED BY <2>1, <2>2, <3>3, LeftRow
    <2>3. CASE UNCHANGED row
      BY <2>3 DEF RowEffect
    <2> QED BY <1>13, <2>2, <2>3 DEF CompleteAttempt
  <1> QED BY <1>1, <1>2, <1>3, <1>4, <1>5, <1>6, <1>7, <1>8, <1>9, <1>10, <1>11, <1>12, <1>13 DEF Step

(***************************************************************************)
(* What everything else does: a claim, the end of a tick, time.            *)
(***************************************************************************)
EnvEffect ==
    /\ posts' = posts /\ journal' = journal /\ output' = output /\ attempts' = attempts
    /\ \A e \in Executions :
          \/ row'[e] = row[e]
          \/ /\ row[e].state \notin Terminal
             /\ row'[e].kind = row[e].kind /\ row'[e].submits = row[e].submits
             /\ row'[e].bytes = row[e].bytes /\ row'[e].known = row[e].known
             /\ row'[e].ready = row[e].ready
             /\ \/ row'[e].state = row[e].state
                \/ row[e].state = "absent" /\ row'[e].state = "pending"
    /\ \A w \in Workers :
          \/ /\ tick'[w] = tick[w]
             /\ tick[w].at \in Steps /\ Held(w)' => Held(w)
          \/ tick'[w] = Idle
          \/ \E e \in Executions, step \in Steps :
                Begins(e, step) /\ row[e].state \in Active /\ tick'[w] = [at |-> step, job |-> e]

LEMMA NextEffect ==
    ASSUME TypeInv, [Next]_vars
    PROVE  \/ \E w \in Workers : RowEffect(w) /\ TickEffect(w) /\ FileEffect(w)
           \/ EnvEffect
  <1>0. Active \cap Terminal = {} /\ "absent" \notin Terminal
    BY DEF Active, Terminal
  <1>1. ASSUME NEW w \in Workers, Step(w)
        PROVE  RowEffect(w) /\ TickEffect(w) /\ FileEffect(w)
    BY <1>1, StepRow, StepTick, StepFiles
  <1>2. ASSUME NEW w \in Workers, Abort(w) PROVE EnvEffect
    <2>1. row' = row /\ tick' = [tick EXCEPT ![w] = Idle]
      BY <1>2 DEF Abort
    <2>2. \A u \in Workers : tick'[u] = Idle \/ tick'[u] = tick[u]
      BY <2>1 DEF TypeInv, TypeOK
    <2> QED BY <1>2, <2>1, <2>2 DEF Abort, Held, Mine, EnvEffect, files
  <1>3. ASSUME NEW w \in Workers, NEW e \in Executions, Claim(w, e) PROVE EnvEffect
    <2> DEFINE s == [row[e] EXCEPT !.owner = w, !.lease = "live"]
    <2>1. row' = [row EXCEPT ![e] = s] /\ row[e].state \in Active /\ tick[w].at = "idle"
      BY <1>3 DEF Claim, Claimable, At, TypeInv, TypeOK
    <2>2. PICK step \in Steps : Begins(e, step) /\ tick' = [tick EXCEPT ![w] = [at |-> step, job |-> e]]
      BY <1>3 DEF Claim
    <2>3. s.kind = row[e].kind /\ s.submits = row[e].submits /\ s.bytes = row[e].bytes
          /\ s.known = row[e].known /\ s.ready = row[e].ready /\ s.state = row[e].state /\ s.owner = w
      <3>1. row[e] \in Row
        BY DEF TypeInv, TypeOK
      <3> QED BY <3>1 DEF Row
    <2> HIDE DEF s
    <2>4. row'[e] = s /\ \A d \in Executions : d # e => row'[d] = row[d]
      BY <2>1 DEF TypeInv, TypeOK
    <2>5. ASSUME NEW u \in Workers, u # w
          PROVE  tick'[u] = tick[u] /\ (tick[u].at \in Steps /\ Held(u)' => Held(u))
      BY <2>2, <2>3, <2>4, <2>5, Busy DEF TypeInv, TypeOK, Held, Mine
    <2>6. tick'[w] = [at |-> step, job |-> e]
      BY <2>2 DEF TypeInv, TypeOK
    <2>7. UNCHANGED files /\ posts' = posts
      BY <1>3 DEF Claim
    <2> QED BY <1>0, <2>1, <2>2, <2>3, <2>4, <2>5, <2>6, <2>7 DEF EnvEffect, files
  <1>4. ASSUME NEW e \in Executions, \A d \in Executions : d # e => row'[d] = row[d],
               tick' = tick, UNCHANGED files, posts' = posts,
               row'[e].kind = row[e].kind, row'[e].submits = row[e].submits, row'[e].bytes = row[e].bytes,
               row'[e].known = row[e].known, row'[e].ready = row[e].ready,
               row'[e].owner = row[e].owner,
               row[e].state \notin Terminal,
               \/ row'[e].state = row[e].state
               \/ row[e].state = "absent" /\ row'[e].state = "pending"
        PROVE  EnvEffect
    <2>1. ASSUME NEW u \in Workers
          PROVE  tick'[u] = tick[u] /\ (tick[u].at \in Steps /\ Held(u)' => Held(u))
      BY <1>4, Busy DEF TypeInv, TypeOK, Held, Mine
    <2> QED BY <1>4, <2>1 DEF EnvEffect, files
  <1>5. ASSUME NEW e \in Executions, Admit(e) PROVE EnvEffect
    <2>1. /\ row' = [row EXCEPT ![e] = [row[e] EXCEPT !.state = "pending"]] /\ tick' = tick
          /\ UNCHANGED files /\ posts' = posts /\ row[e].state = "absent"
      BY <1>5 DEF Admit
    <2>2. row'[e] = [row[e] EXCEPT !.state = "pending"] /\ \A d \in Executions : d # e => row'[d] = row[d]
      BY <2>1 DEF TypeInv, TypeOK
    <2>3. /\ row'[e].kind = row[e].kind /\ row'[e].submits = row[e].submits
          /\ row'[e].bytes = row[e].bytes /\ row'[e].known = row[e].known
          /\ row'[e].ready = row[e].ready /\ row'[e].owner = row[e].owner
          /\ row[e].state = "absent" /\ row'[e].state = "pending"
      BY <2>1, <2>2 DEF TypeInv, TypeOK, Row
    <2>4. row[e].state \notin Terminal
      BY <1>0, <2>1 DEF TypeInv, RowsBounded
    <2> QED BY ONLY <1>4, <2>1, <2>2, <2>3, <2>4
  <1>6. ASSUME NEW e \in Executions, ComesDue(e) PROVE EnvEffect
    <2>1. /\ row' = [row EXCEPT ![e] = [row[e] EXCEPT !.due = TRUE]] /\ tick' = tick
          /\ UNCHANGED files /\ posts' = posts /\ row[e].state \in Active
      BY <1>6 DEF ComesDue
    <2>2. row'[e] = [row[e] EXCEPT !.due = TRUE] /\ \A d \in Executions : d # e => row'[d] = row[d]
      BY <2>1 DEF TypeInv, TypeOK
    <2>3. /\ row'[e].kind = row[e].kind /\ row'[e].submits = row[e].submits
          /\ row'[e].bytes = row[e].bytes /\ row'[e].known = row[e].known
          /\ row'[e].ready = row[e].ready /\ row'[e].owner = row[e].owner
          /\ row'[e].state = row[e].state
      BY <2>1, <2>2 DEF TypeInv, TypeOK, Row
    <2>4. row[e].state \notin Terminal
      BY <1>0, <2>1 DEF TypeInv, RowsBounded
    <2> QED BY ONLY <1>4, <2>1, <2>2, <2>3, <2>4
  <1>7. ASSUME NEW e \in Executions, LeaseEnds(e) PROVE EnvEffect
    <2>1. /\ row' = [row EXCEPT ![e] = [row[e] EXCEPT !.lease = "ended"]] /\ tick' = tick
          /\ UNCHANGED files /\ posts' = posts /\ row[e].lease = "live"
      BY <1>7 DEF LeaseEnds
    <2>2. row'[e] = [row[e] EXCEPT !.lease = "ended"] /\ \A d \in Executions : d # e => row'[d] = row[d]
      BY <2>1 DEF TypeInv, TypeOK
    <2>3. /\ row'[e].kind = row[e].kind /\ row'[e].submits = row[e].submits
          /\ row'[e].bytes = row[e].bytes /\ row'[e].known = row[e].known
          /\ row'[e].ready = row[e].ready /\ row'[e].owner = row[e].owner
          /\ row'[e].state = row[e].state
      BY <2>1, <2>2 DEF TypeInv, TypeOK, Row
    <2>4. row[e].state \notin Terminal
      BY <1>0, <2>1 DEF TypeInv, RowsBounded
    <2> QED BY ONLY <1>4, <2>1, <2>2, <2>3, <2>4
  <1>8. ASSUME UNCHANGED <<row, tick, files, posts>> PROVE EnvEffect
    BY <1>8 DEF Held, Mine, EnvEffect, files
  <1>9. CASE DeleteThread \/ UNCHANGED vars \/ \E e \in Executions : DeadlinePasses(e)
    BY <1>8, <1>9 DEF DeleteThread, DeadlinePasses, vars, files
  <1> QED BY <1>1, <1>2, <1>3, <1>5, <1>6, <1>7, <1>9 DEF Next

(***************************************************************************)
(* An ended row is not written.                                            *)
(***************************************************************************)
\* A row that ended has no owner, so the fence of every write that is still on
\* its way refuses it, and no claim, timer or admission touches it.
THEOREM EndedRowsStay == Spec => TerminalIsFinal
  <1>1. TypeInv /\ [Next]_vars =>
            [\A e \in Executions : row[e].state \in Terminal => row'[e] = row[e]]_vars
    <2> SUFFICES ASSUME TypeInv, [Next]_vars, NEW e \in Executions, row[e].state \in Terminal
                 PROVE  row'[e] = row[e]
      OBVIOUS
    <2>1. CASE EnvEffect
      BY <2>1 DEF EnvEffect
    <2>2. ASSUME NEW w \in Workers, RowEffect(w), TickEffect(w) PROVE row'[e] = row[e]
      <3>1. Held(w) => tick[w].job # e
        BY <2>2, HeldIsSound DEF TickEffect, Mine
      <3> QED BY <2>2, <3>1 DEF RowEffect
    <2> QED BY <2>1, <2>2, NextEffect
  <1> QED BY <1>1, TypeInvariant, PTL DEF Spec, TerminalIsFinal

(***************************************************************************)
(* One POST.                                                               *)
(***************************************************************************)
\* The mark pays for one POST: whoever is about to send it holds the only mark
\* of the row and nothing has been sent for it.
PostInv ==
    /\ \A e \in Executions : posts[e] <= row[e].submits
    /\ \A w \in Workers : At(w, "posting") => row[tick[w].job].submits = 1 /\ posts[tick[w].job] = 0
    /\ \A w, u \in Workers :
          At(w, "posting") /\ At(u, "posting") /\ tick[w].job = tick[u].job => w = u

LEMMA PostInvStep ==
    ASSUME TypeInv, TypeInv', PostInv, [Next]_vars
    PROVE  PostInv'
  <1> USE DEF At
  <1>t. /\ \A e \in Executions : row[e].submits \in 0 .. 1 /\ posts[e] \in Nat
        /\ \A e \in Executions : row'[e].submits \in 0 .. 1 /\ posts'[e] \in Nat
        /\ posts \in [Executions -> Nat]
    BY DEF TypeInv, TypeOK, Row
  <1>b. \A w \in Workers : tick[w].at \in Steps => tick[w].job \in Executions
    BY Busy DEF TypeInv
  <1>b2. "posting" \in Steps
    BY DEF Steps
  <1>1. CASE EnvEffect
    <2>0. \A e \in Executions, step \in Steps : Begins(e, step) => step # "posting"
      BY DEF Begins
    <2>1. ASSUME NEW w \in Workers, tick'[w].at = "posting" PROVE tick'[w] = tick[w]
      <3>1. \/ tick'[w] = tick[w] \/ tick'[w] = Idle
            \/ \E e \in Executions, step \in Steps :
                  Begins(e, step) /\ tick'[w] = [at |-> step, job |-> e]
        BY <1>1 DEF EnvEffect
      <3>2. tick'[w] # Idle
        BY <2>1 DEF Idle
      <3>3. ASSUME NEW e \in Executions, NEW step \in Steps, Begins(e, step),
                   tick'[w] = [at |-> step, job |-> e]
            PROVE  FALSE
        BY <2>0, <2>1, <3>3
      <3> QED BY <3>1, <3>2, <3>3
    <2>2. \A e \in Executions : row'[e].submits = row[e].submits /\ posts'[e] = posts[e]
      BY <1>1 DEF EnvEffect
    <2> QED BY <1>b, <1>b2, <2>1, <2>2 DEF PostInv
  <1>2. ASSUME NEW w \in Workers, RowEffect(w), TickEffect(w), FileEffect(w) PROVE PostInv'
    <2> DEFINE e == tick[w].job
    <2>0. e \in Executions /\ \A u \in Workers : u # w => tick'[u] = tick[u]
      BY <1>2, <1>b DEF TickEffect
    <2>1. tick'[w].at = "posting" => At(w, "marking") /\ tick'[w].job = e /\ row[e].submits = 0
                                     /\ row'[e].submits = 1
      BY <1>2 DEF TickEffect, Flow, Idle, Mine
    <2>2. \A d \in Executions : d # e => posts'[d] = posts[d] /\ row'[d].submits = row[d].submits
      <3>1. \A d \in Executions : d # e => row'[d] = row[d]
        BY <1>2 DEF RowEffect
      <3>2. \A d \in Executions : d # e => posts'[d] = posts[d]
        BY <1>2, <1>t, <2>0 DEF FileEffect
      <3> QED BY <3>1, <3>2
    <2>3. row'[e].submits = row[e].submits
          \/ (At(w, "marking") /\ row[e].submits = 0 /\ row'[e].submits = 1)
      BY <1>2 DEF RowEffect, Mine
    <2>4. posts'[e] = IF At(w, "posting") THEN posts[e] + 1 ELSE posts[e]
      BY <1>2, <1>t, <2>0 DEF FileEffect
    <2>5. \A d \in Executions : posts'[d] <= row'[d].submits
      BY <1>t, <2>0, <2>2, <2>3, <2>4 DEF PostInv
    <2>6. ASSUME NEW u \in Workers, tick'[u].at = "posting"
          PROVE  row'[tick'[u].job].submits = 1 /\ posts'[tick'[u].job] = 0
      <3>1. CASE u = w
        BY <1>t, <2>0, <2>1, <2>4, <2>6, <3>1 DEF PostInv
      <3>2. CASE u # w
        BY <1>t, <1>b, <1>b2, <2>0, <2>2, <2>3, <2>4, <2>6, <3>2 DEF PostInv
      <3> QED BY <3>1, <3>2
    <2>7. ASSUME NEW u \in Workers, NEW v \in Workers, tick'[u].at = "posting",
                 tick'[v].at = "posting", tick'[u].job = tick'[v].job
          PROVE  u = v
      BY <2>0, <2>1, <2>7 DEF PostInv
    <2> QED BY <2>5, <2>6, <2>7 DEF PostInv
  <1> QED BY <1>1, <1>2, NextEffect

\* One execution, one POST: however many workers claim it, lose it or die on it.
THEOREM OnePost == Spec => []SubmittedOnce
  <1>1. Init => PostInv
    BY DEF Init, NewRow, PostInv, At, Idle
  <1>2. TypeInv /\ TypeInv' /\ PostInv /\ [Next]_vars => PostInv'
    BY PostInvStep
  <1>3. TypeInv /\ PostInv => SubmittedOnce
    BY DEF TypeInv, TypeOK, Row, PostInv, SubmittedOnce
  <1> QED BY <1>1, <1>2, <1>3, TypeInvariant, PTL DEF Spec

(***************************************************************************)
(* What a step leaves alone.                                               *)
(***************************************************************************)
LEMMA EndedRowKept ==
    ASSUME TypeInv, [Next]_vars, NEW e \in Executions, row[e].state \in Terminal
    PROVE  row'[e] = row[e]
  <1>1. CASE EnvEffect
    BY <1>1 DEF EnvEffect
  <1>2. ASSUME NEW w \in Workers, RowEffect(w), TickEffect(w) PROVE row'[e] = row[e]
    <2>1. Held(w) => tick[w].job # e
      BY <1>2, HeldIsSound DEF TickEffect, Mine
    <2> QED BY <1>2, <2>1 DEF RowEffect
  <1> QED BY <1>1, <1>2, NextEffect

\* The rows, files and POSTs of the executions a tick does not work on.
LEMMA OthersKept ==
    ASSUME TypeInv, NEW w \in Workers, RowEffect(w), TickEffect(w), FileEffect(w)
    PROVE  LET e == tick[w].job IN
           /\ e \in Executions
           /\ \A u \in Workers : u # w => tick'[u] = tick[u]
           /\ \A d \in Executions : row'[d].kind = row[d].kind
           /\ \A d \in Executions : d # e =>
                 row'[d] = row[d] /\ posts'[d] = posts[d] /\ (d \in journal' <=> d \in journal)
           /\ output \subseteq output' /\ attempts \subseteq attempts'
           /\ posts'[e] = IF At(w, "posting") THEN posts[e] + 1 ELSE posts[e]
  <1> DEFINE e == tick[w].job
  <1>1. e \in Executions /\ \A u \in Workers : u # w => tick'[u] = tick[u]
    BY Busy DEF TickEffect, TypeInv
  <1>2. \A d \in Executions : d # e => row'[d] = row[d]
    BY DEF RowEffect
  <1>3. \A d \in Executions : row'[d].kind = row[d].kind
    <2>1. row'[e].kind = row[e].kind
      BY DEF RowEffect, Mine
    <2> QED BY <1>2, <2>1
  <1>4. \A d \in Executions : d # e => posts'[d] = posts[d]
    BY <1>1 DEF FileEffect, TypeInv, TypeOK
  <1>5. posts'[e] = IF At(w, "posting") THEN posts[e] + 1 ELSE posts[e]
    BY <1>1 DEF FileEffect, TypeInv, TypeOK
  <1>6. \A d \in Executions : d # e => (d \in journal' <=> d \in journal)
    BY DEF FileEffect
  <1>7. output \subseteq output' /\ attempts \subseteq attempts'
    BY DEF FileEffect
  <1> QED BY <1>1, <1>2, <1>3, <1>4, <1>5, <1>6, <1>7

(***************************************************************************)
(* What is published is stored and paid for.                               *)
(***************************************************************************)
LocalSteps  == {"starting", "rendering", "rendered", "publishing", "completing"}
RemoteSteps == Steps \ (LocalSteps \cup {"expiring", "refusing"})
PaidSteps   == {"accepted", "polling", "waiting", "downloading", "saving", "recording",
                "recovering", "keeping", "ingesting", "finishing"}

\* Which steps a kind of execution takes, and what is paid and stored by then.
StoreTick(w) ==
    LET e == tick[w].job
    IN  /\ tick[w].at \in LocalSteps => row[e].kind = "local"
        /\ tick[w].at \in RemoteSteps => row[e].kind # "local"
        /\ tick[w].at \in PaidSteps => posts[e] = 1
        /\ At(w, "finishing") => e \in output
        /\ At(w, "completing") => e \in attempts
        /\ At(w, "cleaning") => row[e].state = "succeeded"

StoreRow(e) ==
    /\ row[e].kind = "local" => posts[e] = 0
    /\ row[e].kind # "local" /\ row[e].state \in {"submitted", "running"} => posts[e] = 1
    /\ e \in journal => posts[e] = 1
    /\ row[e].state = "succeeded" =>
          \/ row[e].bytes = "output" /\ e \in output /\ posts[e] = 1
          \/ row[e].bytes = "attempt" /\ e \in attempts /\ row[e].kind = "local"

StoreInv == (\A w \in Workers : StoreTick(w)) /\ (\A e \in Executions : StoreRow(e))

LEMMA BeginsAt ==
    ASSUME NEW e \in Executions, NEW step \in Steps, Begins(e, step)
    PROVE  /\ step \in {"expiring", "refusing", "starting", "marking", "downloading", "polling", "loading"}
           /\ step = "starting" => row[e].kind = "local"
           /\ step \in {"marking", "downloading", "polling", "loading"} => row[e].kind # "local"
           /\ step \in {"downloading", "polling"} =>
                 row[e].kind \in {"queued", "video"} /\ row[e].state \in {"submitted", "running"}
           /\ step = "downloading" => row[e].ready
           /\ step = "loading" => row[e].state # "pending"
                 /\ (row[e].kind = "video" => row[e].state \notin {"submitted", "running"})
  BY DEF Begins

LEMMA EnvStore ==
    ASSUME TypeInv, StoreInv, EnvEffect
    PROVE  StoreInv'
  <1>1. ASSUME NEW e \in Executions PROVE StoreRow(e)'
    <2>1. /\ row'[e].kind = row[e].kind /\ row'[e].bytes = row[e].bytes
          /\ \/ row'[e].state = row[e].state
             \/ row[e].state = "absent" /\ row'[e].state = "pending"
      BY DEF EnvEffect
    <2>2. posts' = posts /\ journal' = journal /\ output' = output /\ attempts' = attempts
      BY DEF EnvEffect
    <2> QED BY <2>1, <2>2 DEF StoreInv, StoreRow
  <1>2. ASSUME NEW w \in Workers PROVE StoreTick(w)'
    <2> USE DEF At
    <2>1. posts' = posts /\ journal' = journal /\ output' = output /\ attempts' = attempts
      BY DEF EnvEffect
    <2>2. \A e \in Executions :
             /\ row'[e].kind = row[e].kind
             /\ row[e].state = "succeeded" => row'[e] = row[e]
      BY DEF EnvEffect, Terminal
    <2>3. CASE tick'[w] = tick[w]
      <3>1. tick[w].at \in Steps => tick[w].job \in Executions
        BY Busy DEF TypeInv
      <3> QED BY <2>1, <2>2, <2>3, <3>1
              DEF StoreInv, StoreTick, LocalSteps, RemoteSteps, PaidSteps, Steps
    <2>4. CASE tick'[w] = Idle
      BY <2>4 DEF StoreTick, LocalSteps, RemoteSteps, PaidSteps, Steps, Idle
    <2>5. ASSUME NEW e \in Executions, NEW step \in Steps, Begins(e, step),
                 tick'[w] = [at |-> step, job |-> e]
          PROVE  StoreTick(w)'
      <3>1. tick'[w].at = step /\ tick'[w].job = e
        BY <2>5
      <3>2. StoreRow(e)
        BY DEF StoreInv
      <3> QED BY <2>1, <2>2, <2>5, <3>1, <3>2, BeginsAt
              DEF StoreTick, StoreRow, LocalSteps, RemoteSteps, PaidSteps
    <2> QED BY <2>3, <2>4, <2>5 DEF EnvEffect
  <1> QED BY <1>1, <1>2 DEF StoreInv

LEMMA StepStore ==
    ASSUME TypeInv, TypeInv', PostInv, PostInv', StoreInv, [Next]_vars,
           NEW w \in Workers, RowEffect(w), TickEffect(w), FileEffect(w)
    PROVE  StoreInv'
  <1> DEFINE e == tick[w].job
  <1>1. /\ e \in Executions /\ StoreTick(w) /\ StoreRow(e)
        /\ \A u \in Workers : u # w => tick'[u] = tick[u]
        /\ \A d \in Executions : row'[d].kind = row[d].kind
        /\ \A d \in Executions : d # e =>
              row'[d] = row[d] /\ posts'[d] = posts[d] /\ (d \in journal' <=> d \in journal)
        /\ output \subseteq output' /\ attempts \subseteq attempts'
        /\ posts'[e] = IF At(w, "posting") THEN posts[e] + 1 ELSE posts[e]
    BY OthersKept DEF StoreInv
  <1>2. At(w, "posting") => posts[e] = 0 /\ posts'[e] = 1
    BY <1>1 DEF PostInv
  <1>3. At(w, "posting") => row[e].kind # "local"
    BY <1>1 DEF StoreTick, RemoteSteps, LocalSteps, Steps, At
  <1>4. \A d \in Executions : posts[d] = 1 => posts'[d] = 1
    BY <1>1, <1>2
  <1>5. ASSUME NEW d \in Executions PROVE StoreRow(d)'
    <2>1. CASE d # e
      BY <1>1, <2>1 DEF StoreInv, StoreRow
    <2>2. CASE d = e
      <3>1. row[e].kind = "local" => posts'[e] = 0
        BY <1>1, <1>3 DEF StoreRow
      <3>2. row[e].kind # "local" /\ row'[e].state \in {"submitted", "running"} => posts'[e] = 1
        <4>1. \/ row'[e].state = row[e].state
              \/ row'[e].state \notin {"submitted", "running"}
              \/ tick[w].at \in {"accepted", "polling", "starting"}
          BY DEF RowEffect, Mine, At
        <4> QED BY <1>1, <1>4, <4>1 DEF StoreRow, StoreTick, PaidSteps, LocalSteps
      <3>3. e \in journal' => posts'[e] = 1
        <4>1. e \in journal \/ e \notin journal' \/ tick[w].at \in {"saving", "keeping"}
          BY DEF FileEffect
        <4> QED BY <1>1, <1>4, <4>1 DEF StoreRow, StoreTick, PaidSteps
      <3>4. ASSUME row'[e].state = "succeeded"
            PROVE  \/ row'[e].bytes = "output" /\ e \in output' /\ posts'[e] = 1
                   \/ row'[e].bytes = "attempt" /\ e \in attempts' /\ row[e].kind = "local"
        <4>1. CASE row[e].state = "succeeded"
          <5>1. row'[e] = row[e]
            BY <1>1, <4>1, EndedRowKept DEF Terminal
          <5> QED BY <1>1, <1>4, <4>1, <5>1 DEF StoreRow
        <4>2. CASE row[e].state # "succeeded"
          <5>1. \/ At(w, "finishing") /\ row'[e].bytes = "output"
                \/ At(w, "completing") /\ row'[e].bytes = "attempt"
            BY <3>4, <4>2 DEF RowEffect, Mine
          <5> QED BY <1>1, <1>4, <5>1 DEF StoreTick, PaidSteps, LocalSteps, At
        <4> QED BY <4>1, <4>2
      <3> QED BY <1>1, <2>2, <3>1, <3>2, <3>3, <3>4 DEF StoreRow
    <2> QED BY <2>1, <2>2
  <1>6. ASSUME NEW u \in Workers PROVE StoreTick(u)'
    <2> USE DEF At
    <2>1. CASE u # w
      <3> DEFINE d == tick[u].job
      <3>1. StoreTick(u) /\ tick'[u] = tick[u]
        BY <1>1, <2>1 DEF StoreInv
      <3>2. tick[u].at \in Steps => d \in Executions
        BY Busy DEF TypeInv
      <3>3. tick[u].at = "cleaning" => row'[d].state = "succeeded"
        BY <3>1, <3>2, EndedRowKept DEF StoreTick, Terminal, Steps
      <3> QED BY <1>1, <1>4, <3>1, <3>2, <3>3
              DEF StoreTick, LocalSteps, RemoteSteps, PaidSteps, Steps
    <2>2. CASE u = w /\ tick'[w] = Idle
      BY <2>2 DEF StoreTick, LocalSteps, RemoteSteps, PaidSteps, Steps, Idle
    <2>3. CASE u = w /\ tick'[w] # Idle
      <3> DEFINE to == tick'[w].at
      <3>1. tick'[w].job = e /\ <<tick[w].at, to>> \in Flow
        BY <2>3 DEF TickEffect
      <3>2. to \in LocalSteps => row[e].kind = "local"
        BY <1>1, <3>1 DEF StoreTick, LocalSteps, Flow
      <3>3. to \in RemoteSteps => row[e].kind # "local"
        BY <1>1, <3>1 DEF StoreTick, LocalSteps, RemoteSteps, Steps, Flow
      <3>4. to \in PaidSteps => posts'[e] = 1
        <4>1. to \in PaidSteps => tick[w].at \in PaidSteps \cup {"posting", "loading"}
          BY <3>1 DEF PaidSteps, Flow
        <4>2. to \in PaidSteps /\ tick[w].at = "loading" => e \in journal
          BY <2>3 DEF TickEffect, PaidSteps
        <4> QED BY <1>1, <1>2, <1>4, <4>1, <4>2 DEF StoreTick, StoreRow
      <3>5. to = "finishing" => e \in output'
        BY <3>1 DEF FileEffect, Flow
      <3>6. to = "completing" => e \in attempts'
        BY <3>1 DEF FileEffect, Flow
      <3>7. to = "cleaning" => row'[e].state = "succeeded"
        BY <2>3 DEF TickEffect
      <3> QED BY <1>1, <2>3, <3>1, <3>2, <3>3, <3>4, <3>5, <3>6, <3>7 DEF StoreTick
    <2> QED BY <2>1, <2>2, <2>3
  <1> QED BY <1>5, <1>6 DEF StoreInv

LEMMA InitStore == Init => PostInv /\ StoreInv
  <1> SUFFICES ASSUME Init PROVE PostInv /\ StoreInv
    OBVIOUS
  <1>1. \A e \in Executions : row[e].state = "absent" /\ posts[e] = 0 /\ e \notin journal
    BY DEF Init, NewRow
  <1>2. \A w \in Workers : tick[w] = Idle
    BY DEF Init
  <1>3. StoreInv
    BY <1>1, <1>2
       DEF StoreInv, StoreRow, StoreTick, At, Idle, LocalSteps, RemoteSteps, PaidSteps, Steps
  <1>4. PostInv
    BY DEF Init, NewRow, PostInv, At, Idle
  <1> QED BY <1>3, <1>4

\* Success is reported only of bytes that are on disk, and of paid media only
\* after the one request that was sent.
THEOREM StoredWhenPublished == Spec => []PublishedIsStored
  <1>1. Init => PostInv /\ StoreInv
    BY InitStore
  <1>2. TypeInv /\ TypeInv' /\ PostInv /\ StoreInv /\ [Next]_vars => PostInv' /\ StoreInv'
    BY PostInvStep, NextEffect, EnvStore, StepStore
  <1>3. StoreInv => PublishedIsStored
    BY DEF StoreInv, StoreRow, PublishedIsStored
  <1> QED BY <1>1, <1>2, <1>3, TypeInvariant, PTL DEF Spec

(***************************************************************************)
(* A video can be had again, or is in the journal.                         *)
(***************************************************************************)
FetchedSteps == {"downloading", "saving", "recording", "keeping", "ingesting", "finishing"}

\* Bytes are kept only of a video whose download was announced; once it was, the
\* row says running until the bytes are in the journal.
VideoRow(e) ==
    row[e].kind = "video" =>
        /\ e \in journal => row[e].ready
        /\ row[e].ready => row[e].state \in {"running", "ingesting"} \cup Terminal
        /\ row[e].ready /\ row[e].state = "ingesting" => e \in journal

\* What a tick that still holds the row knows of it.
VideoHeld(w) ==
    LET e == tick[w].job
    IN  /\ tick[w].at \in {"marking", "posting", "accepted", "uncertain", "polling"} => ~row[e].ready
        /\ At(w, "loading") /\ row[e].ready => e \in journal
        /\ At(w, "downloading") => row[e].state = "running"
        /\ At(w, "saving") => e \in journal \/ row[e].state = "running"
        /\ tick[w].at \in {"recording", "keeping", "ingesting", "finishing"} => e \in journal

VideoTick(w) ==
    tick[w].at \in Steps /\ row[tick[w].job].kind = "video" =>
        /\ tick[w].at # "recovering"
        /\ tick[w].at \in FetchedSteps => row[tick[w].job].ready
        /\ Held(w) => VideoHeld(w)

VideoInv == (\A w \in Workers : VideoTick(w)) /\ (\A e \in Executions : VideoRow(e))

LEMMA EnvVideo ==
    ASSUME TypeInv, VideoInv, EnvEffect
    PROVE  VideoInv'
  <1>0. /\ journal' = journal
        /\ \A e \in Executions :
              /\ row'[e].kind = row[e].kind /\ row'[e].ready = row[e].ready
              /\ \/ row'[e].state = row[e].state
                 \/ row[e].state = "absent" /\ row'[e].state = "pending"
    BY DEF EnvEffect
  <1>1. ASSUME NEW e \in Executions PROVE VideoRow(e)'
    BY <1>0 DEF VideoInv, VideoRow, Terminal
  <1>2. ASSUME NEW w \in Workers PROVE VideoTick(w)'
    <2> USE DEF At
    <2>1. CASE tick'[w] = tick[w] /\ (tick[w].at \in Steps /\ Held(w)' => Held(w))
      <3>1. tick[w].at \in Steps => tick[w].job \in Executions
        BY Busy DEF TypeInv
      <3>2. tick[w].at \in Steps /\ Held(w) => row[tick[w].job].state # "absent"
        BY HeldIsSound DEF Sound, Active, Mine
      <3> QED BY <1>0, <2>1, <3>1, <3>2 DEF VideoInv, VideoTick, VideoHeld
    <2>2. CASE tick'[w] = Idle
      BY <2>2 DEF VideoTick, Steps, Idle
    <2>3. ASSUME NEW e \in Executions, NEW step \in Steps, Begins(e, step), row[e].state \in Active,
                 tick'[w] = [at |-> step, job |-> e]
          PROVE  VideoTick(w)'
      <3>1. tick'[w].at = step /\ tick'[w].job = e
        BY <2>3
      <3>2. VideoRow(e)
        BY DEF VideoInv
      <3>3. row'[e].state = row[e].state
        BY <1>0, <2>3 DEF Active
      <3>4. /\ step = "polling" => ~row[e].ready
            /\ step = "marking" => row[e].state = "pending"
        BY <2>3 DEF Begins
      <3>5. ASSUME row[e].kind = "video"
            PROVE  /\ step \in {"expiring", "refusing", "marking", "downloading", "polling", "loading"}
                   /\ step \in {"marking", "polling"} => ~row'[e].ready
                   /\ step = "downloading" => row'[e].state = "running" /\ row'[e].ready
                   /\ step = "loading" /\ row'[e].ready => e \in journal
        BY <1>0, <2>3, <3>2, <3>3, <3>4, <3>5, BeginsAt DEF VideoRow, Active, Terminal
      <3> QED BY <1>0, <3>1, <3>5 DEF VideoTick, VideoHeld, FetchedSteps
    <2> QED BY <2>1, <2>2, <2>3 DEF EnvEffect
  <1> QED BY <1>1, <1>2 DEF VideoInv

LEMMA StepVideo ==
    ASSUME TypeInv, TypeInv', StoreInv, VideoInv, [Next]_vars,
           NEW w \in Workers, RowEffect(w), TickEffect(w), FileEffect(w)
    PROVE  VideoInv'
  <1>0. PICK e \in Executions : e = tick[w].job
    BY Busy DEF TickEffect, TypeInv
  <1> USE <1>0
  <1>1. /\ e \in Executions /\ tick[w].at \in Steps /\ StoreTick(w) /\ VideoTick(w) /\ VideoRow(e)
        /\ \A u \in Workers : u # w => tick'[u] = tick[u]
        /\ \A d \in Executions : row'[d].kind = row[d].kind
        /\ \A d \in Executions : d # e => row'[d] = row[d] /\ (d \in journal' <=> d \in journal)
    BY OthersKept DEF StoreInv, VideoInv, TickEffect
  <1>2. row' # row => Held(w)
    BY DEF RowEffect
  <1>3. \A d \in Executions : row[d].ready \in BOOLEAN /\ row'[d].ready \in BOOLEAN
    BY DEF TypeInv, TypeOK, Row
  \* Only a poll of a row that is not ready writes it.
  <1>4. \A d \in Executions : row[d].kind = "video" /\ row[d].ready => row'[d].ready
    <2>1. row[e].kind = "video" /\ row[e].ready => row'[e].ready
      BY <1>1, <1>2 DEF RowEffect, Mine, VideoTick, VideoHeld, At
    <2> QED BY <1>1, <2>1
  \* The journal of a row that has not ended stays.
  <1>5. \A d \in Executions : d \in journal /\ row[d].state # "succeeded" => d \in journal'
    <2>1. At(w, "cleaning") => row[e].state = "succeeded"
      BY <1>1 DEF StoreTick
    <2> QED BY <1>1, <2>1 DEF FileEffect
  <1>6. ASSUME row[e].kind = "video" PROVE VideoRow(e)'
    <2>1. e \in journal' => row'[e].ready
      <3>1. e \in journal \/ e \notin journal' \/ tick[w].at \in {"saving", "keeping"}
        BY DEF FileEffect
      <3> QED BY <1>1, <1>4, <1>6, <3>1 DEF VideoRow, VideoTick, FetchedSteps
    <2>2. CASE row' = row
      <3>1. row[e].ready /\ row[e].state = "ingesting" => e \in journal'
        BY <1>1, <1>5, <1>6 DEF VideoRow
      <3> QED BY <1>1, <1>6, <2>1, <2>2, <3>1 DEF VideoRow
    <2>3. CASE row' # row
      <3>1. Held(w) /\ VideoHeld(w) /\ tick[w].at # "recovering"
        BY <1>1, <1>2, <1>6, <2>3 DEF VideoTick
      <3>2. tick[w].at \notin LocalSteps
        BY <1>1, <1>6 DEF StoreTick
      <3>3. row[e].state # "succeeded"
        BY <1>1, <3>1, HeldIsSound DEF Mine, Terminal
      <3>4. e \in journal => e \in journal'
        BY <1>1, <1>5, <3>3
      <3>5. \/ row'[e].state \in {"failed", "expired", "succeeded"}
            \/ row'[e].state = row[e].state
            \/ At(w, "marking") /\ row'[e].state = "submitting"
            \/ At(w, "accepted") /\ row'[e].state = "submitted"
            \/ At(w, "uncertain") /\ row'[e].state = "submission_unknown"
            \/ At(w, "polling") /\ row'[e].state = "running"
            \/ At(w, "recording") /\ row'[e].state = "ingesting"
            \/ /\ tick[w].at \in Guarded
               /\ row'[e].state = "ingesting"
               /\ ~(row[e].state = "running" /\ row[e].ready)
        BY <1>6, <2>3, <3>1, <3>2 DEF RowEffect, Mine, At, LocalSteps
      <3>6. row'[e].ready = row[e].ready \/ (At(w, "polling") /\ row'[e].state = "running")
        BY <2>3 DEF RowEffect, Mine
      <3>7. row'[e].ready => row'[e].state \in {"running", "ingesting"} \cup Terminal
        BY <1>1, <1>6, <3>1, <3>5, <3>6 DEF VideoRow, VideoHeld, At, Terminal
      <3>8. row'[e].ready /\ row'[e].state = "ingesting" => e \in journal'
        <4> SUFFICES ASSUME row'[e].ready, row'[e].state = "ingesting"
                     PROVE  e \in journal
          BY <3>4
        <4>1. row[e].ready
          BY <3>6
        <4> QED BY <1>1, <1>6, <3>1, <3>5, <4>1 DEF VideoRow, VideoHeld, At, Guarded
      <3> QED BY <2>1, <3>7, <3>8 DEF VideoRow
    <2> QED BY <2>2, <2>3
  <1>7. ASSUME NEW d \in Executions PROVE VideoRow(d)'
    <2>1. CASE d # e
      BY <1>1, <2>1 DEF VideoInv, VideoRow
    <2>2. CASE d = e
      <3>1. CASE row[e].kind = "video"
        BY <1>6, <2>2, <3>1
      <3>2. CASE row[e].kind # "video"
        BY <1>1, <2>2, <3>2 DEF VideoRow
      <3> QED BY <3>1, <3>2
    <2> QED BY <2>1, <2>2
  <1>8. ASSUME NEW u \in Workers, u # w PROVE VideoTick(u)'
    <2> DEFINE d == tick[u].job
    <2> SUFFICES ASSUME tick[u].at \in Steps, row[d].kind = "video", d \in Executions
                 PROVE  VideoTick(u)'
      BY <1>1, <1>8, Busy DEF VideoTick, TypeInv
    <2>1. VideoTick(u) /\ tick'[u] = tick[u]
      BY <1>1, <1>8 DEF VideoInv
    <2>2. Held(u)' => Held(u) /\ row'[d] = row[d]
      <3>1. CASE d # e
        BY <1>1, <2>1, <3>1 DEF Held, Mine
      <3>2. CASE d = e
        <4>1. row' = row \/ row'[e].owner = w \/ row'[e].owner = Nobody
          BY DEF RowEffect
        <4> QED BY <1>8, <2>1, <3>2, <4>1, NobodyAssumption DEF Held, Mine
      <3> QED BY <3>1, <3>2
    <2>3. Held(u) => row[d].state # "succeeded"
      BY HeldIsSound DEF Mine, Terminal
    <2> QED BY <1>1, <1>4, <1>5, <2>1, <2>2, <2>3 DEF VideoTick, VideoHeld, At
  <1>9. VideoTick(w)'
    <2> DEFINE to == tick'[w].at
    <2> SUFFICES ASSUME tick'[w] # Idle, tick'[w].job = e, <<tick[w].at, to>> \in Flow,
                        row[e].kind = "video"
                 PROVE  VideoTick(w)'
      BY <1>1 DEF VideoTick, Idle, Steps, TickEffect
    <2>1. to # "recovering" /\ (to = "recording" => At(w, "saving"))
      BY DEF TickEffect, Mine, Steps, Idle
    <2>2. to = "downloading" => row'[e].state = "running" /\ row'[e].ready
      BY DEF TickEffect, Idle
    <2>3. At(w, "loading") => (to = "uncertain" <=> e \notin journal)
      BY DEF TickEffect, Idle
    <2>4. to \in FetchedSteps => row'[e].ready
      <3>1. to \in FetchedSteps \ {"downloading"} =>
               tick[w].at \in FetchedSteps \/ (At(w, "loading") /\ to # "uncertain")
        BY <1>1, <2>1 DEF FetchedSteps, Flow, At, VideoTick
      <3> QED BY <1>1, <1>4, <2>2, <2>3, <3>1 DEF VideoTick, VideoRow
    <2>5. ASSUME Held(w)' PROVE VideoHeld(w)'
      <3> USE DEF At
      <3>1. Held(w) /\ VideoHeld(w)
        BY <1>1, <1>2, <2>5 DEF VideoTick, Held, Mine
      <3>2. row[e].state # "succeeded" /\ (e \in journal => e \in journal')
        BY <1>1, <1>5, <3>1, HeldIsSound DEF Mine, Terminal
      <3>3. row'[e].owner = w /\ Nobody # w
        BY <2>5, NobodyAssumption DEF Held, Mine
      <3>4. tick[w].at \in {"marking", "posting", "loading", "downloading"} =>
               row'[e].ready = row[e].ready
        BY DEF RowEffect, Mine
      <3>5. tick[w].at \in {"posting", "loading", "downloading"} => row'[e].state = row[e].state
        BY <3>3 DEF RowEffect, Mine
      <3>6. to \in {"marking", "posting", "accepted", "uncertain", "polling"} => ~row'[e].ready
        <4>1. to \in {"marking", "posting", "accepted", "uncertain", "polling"} =>
                 tick[w].at \in {"marking", "posting"} \/ (At(w, "loading") /\ to = "uncertain")
          BY DEF Flow
        <4> QED BY <1>1, <1>3, <2>3, <3>1, <3>4, <4>1 DEF VideoHeld
      <3>7. to = "saving" => e \in journal' \/ row'[e].state = "running"
        <4>1. to = "saving" => tick[w].at \in {"downloading", "loading"}
          BY DEF Flow
        <4> QED BY <2>3, <3>1, <3>2, <3>5, <4>1 DEF VideoHeld
      <3>8. to \in {"recording", "keeping", "ingesting", "finishing"} => e \in journal'
        <4>1. to \in {"recording", "keeping", "ingesting", "finishing"} =>
                 \/ At(w, "saving") /\ to = "recording"
                 \/ tick[w].at \in {"recording", "keeping", "ingesting"}
          BY <1>1, <2>1 DEF Flow, VideoTick
        <4>2. At(w, "saving") /\ to = "recording" => e \in journal'
          BY DEF FileEffect
        <4> QED BY <3>1, <3>2, <4>1, <4>2 DEF VideoHeld
      <3>9. to # "loading"
        BY DEF Flow
      <3> QED BY <2>2, <3>6, <3>7, <3>8, <3>9 DEF VideoHeld
    <2> QED BY <1>1, <2>1, <2>4, <2>5 DEF VideoTick
  <1> QED BY <1>7, <1>8, <1>9 DEF VideoInv

\* A video whose download was announced has its bytes in the journal or can be
\* fetched again, and is never called uncertain while its bytes are kept.
THEOREM VideoKept == Spec => []VideoIsRecoverable
  <1>1. Init => PostInv /\ StoreInv /\ VideoInv
    <2> SUFFICES ASSUME Init PROVE VideoInv
      BY InitStore
    <2>1. \A e \in Executions : row[e].state = "absent" /\ ~row[e].ready /\ e \notin journal
      BY DEF Init, NewRow
    <2>2. \A w \in Workers : tick[w] = Idle
      BY DEF Init
    <2> QED BY <2>1, <2>2 DEF VideoInv, VideoRow, VideoTick, Steps, Idle
  <1>2. TypeInv /\ TypeInv' /\ PostInv /\ StoreInv /\ VideoInv /\ [Next]_vars
           => PostInv' /\ StoreInv' /\ VideoInv'
    BY PostInvStep, NextEffect, EnvStore, StepStore, EnvVideo, StepVideo
  <1>3. VideoInv => VideoIsRecoverable
    BY DEF VideoInv, VideoRow, VideoIsRecoverable, Terminal
  <1> QED BY <1>1, <1>2, <1>3, TypeInvariant, PTL DEF Spec
=============================================================================
