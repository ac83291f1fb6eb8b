---------------------------- MODULE ThreadSources ----------------------------
(***************************************************************************)
(* The files a chat thread answers from (workspace_files/thread_sources.py *)
(* and multi_source.py, used by service.py and chat_service.py).  A file   *)
(* uploaded in the chat is pending until a drain announces that it is      *)
(* ready, then active, then recent.  Each change of the thread's state is  *)
(* one SELECT FOR UPDATE transaction; an upload, a drain, an announcement  *)
(* and a chat turn are several transactions each, so they interleave.      *)
(***************************************************************************)
EXTENDS Integers, Sequences, FiniteSets

CONSTANTS
    Files,    \* what is uploaded in this chat
    Others,   \* ready files of the workspace that were never in this chat
    Turns     \* standard chat turns of the thread

ASSUME DisjointAssumption == Files \cap Others = {}
ASSUME FiniteAssumption   == IsFiniteSet(Files)

VARIABLES
    row,          \* file -> its row in workspace_files
    due,          \* files with an extraction job that has not ended
    unrecorded,   \* uploads between their commit and record_chat_upload
    notices,      \* announcements a drain has still to make
    lost,         \* files left pending by an announcement that was not applied
    src,          \* threads.source_state
    turns         \* turn -> where its request is

vars == <<row, due, unrecorded, notices, lost, src, turns>>

AllFiles == Files \cup Others
MaxUnused == 2   \* ACTIVE_SOURCE_MAX_UNUSED_TURNS

SourceState ==
    [conversation : Seq(Files), pending : SUBSET Files, active : SUBSET Files,
     recent : SUBSET Files, latest : SUBSET Files, burst : SUBSET Files,
     unused : 0 .. MaxUnused - 1, burstOpen : BOOLEAN, idle : BOOLEAN]

\* latest: the batch that became recent last; the last element of
\* recent_file_ids is one of it.
EmptyState ==
    [conversation |-> <<>>, pending |-> {}, active |-> {}, recent |-> {}, latest |-> {},
     burst |-> {}, unused |-> 0, burstOpen |-> FALSE, idle |-> FALSE]

Conversation(s) == {s.conversation[i] : i \in DOMAIN s.conversation}
Live(s) == s.pending \cup s.active

\* allow: the allow-list of the turn's retrieval, all the files of the workspace
\* where it is unrestricted.  bound: the thread had sources when the turn read
\* them, or the turn compares, and no ready file was named.  saw: what was
\* active when the turn was recorded.
Turn == [phase : {"waiting", "begun", "resolved", "streaming", "recorded", "ended"},
         allow : SUBSET AllFiles, multi : BOOLEAN, bound : BOOLEAN,
         saw : SUBSET Files, used : SUBSET AllFiles]

NewTurn == [phase |-> "waiting", allow |-> {}, multi |-> FALSE, bound |-> FALSE,
            saw |-> {}, used |-> {}]

Init ==
    /\ row = [f \in AllFiles |-> IF f \in Others THEN "ready" ELSE "absent"]
    /\ due = {} /\ unrecorded = {} /\ notices = {} /\ lost = {}
    /\ src = EmptyState
    /\ turns = [t \in Turns |-> NewTurn]

Ready == {f \in AllFiles : row[f] = "ready"}
Present == {f \in AllFiles : row[f] \notin {"absent", "deleted"}}

(***************************************************************************)
(* The mutators of the state.                                              *)
(***************************************************************************)
\* _active_to_recent
ActiveToRecent(s) ==
    [s EXCEPT !.recent = @ \cup s.active, !.active = {}, !.unused = 0, !.idle = FALSE,
              !.latest = IF s.active # {} THEN s.active ELSE @]

\* expire_active
Expired(s) == IF s.active # {} /\ s.idle THEN ActiveToRecent(s) ELSE s

\* Mutant of Uploaded: the superseded files replace the recent ones.
UploadedForgets(s, f) ==
    [s EXCEPT !.conversation = Append(@, f), !.pending = {f}, !.burst = {f}, !.active = {},
              !.recent = Live(s), !.unused = 0, !.idle = FALSE, !.burstOpen = TRUE]

\* apply_chat_upload: the file joins the burst, or opens one that supersedes
\* what was active and pending.
Uploaded(s, f) ==
    IF s.burstOpen /\ Live(s) # {}
    THEN [s EXCEPT !.conversation = Append(@, f), !.pending = @ \cup {f}, !.burst = @ \cup {f}]
    ELSE [s EXCEPT !.conversation = Append(@, f), !.pending = {f}, !.burst = {f},
                   !.active = {}, !.unused = 0, !.idle = FALSE, !.burstOpen = TRUE,
                   !.recent = @ \cup Live(s),
                   !.latest = IF s.pending # {} THEN s.pending
                              ELSE IF s.active # {} THEN s.active ELSE @]

\* Mutant of FileReady: only the first file of a burst is promoted.
FileReadyFirst(s, f) ==
    IF f \notin s.pending \/ s.active # {} THEN s
    ELSE [s EXCEPT !.pending = @ \ {f}, !.active = {f}, !.unused = 0, !.idle = FALSE]

\* apply_file_ready
FileReady(s, f) ==
    IF f \notin s.pending THEN s
    ELSE [s EXCEPT !.pending = @ \ {f}, !.active = @ \cup {f},
                   !.unused = IF s.active = {} THEN 0 ELSE @,
                   !.idle = IF s.active = {} THEN FALSE ELSE @]

\* apply_file_failed
FileFailed(s, f) ==
    LET left == [s EXCEPT !.pending = @ \ {f}, !.active = @ \ {f}, !.burst = @ \ {f}]
    IN  [left EXCEPT !.burstOpen = @ /\ left.burst # {},
                     !.unused = IF left.active = {} THEN 0 ELSE @,
                     !.idle = @ /\ left.active # {}]

\* apply_chat_turn
AfterTurn(s, used) ==
    LET e == Expired(s) IN
    IF e.active = {} THEN e
    ELSE IF used \cap e.active # {} THEN [e EXCEPT !.unused = 0, !.idle = FALSE]
    ELSE IF e.unused + 1 >= MaxUnused THEN ActiveToRecent(e)
    ELSE [e EXCEPT !.unused = @ + 1]

(***************************************************************************)
(* Upload, processing, announcement.                                       *)
(***************************************************************************)
\* upload_file commits the row and its job.
Upload(f) ==
    /\ row[f] = "absent"
    /\ row' = [row EXCEPT ![f] = "unready"]
    /\ due' = due \cup {f}
    /\ unrecorded' = unrecorded \cup {f}
    /\ UNCHANGED <<notices, lost, src, turns>>

\* record_chat_upload; its errors are logged and swallowed.
RecordUpload(f) ==
    /\ f \in unrecorded
    /\ unrecorded' = unrecorded \ {f}
    /\ src' = Uploaded(src, f)
    /\ UNCHANGED <<row, due, notices, lost, turns>>

RecordUploadRaises(f) ==
    /\ f \in unrecorded
    /\ unrecorded' = unrecorded \ {f}
    /\ UNCHANGED <<row, due, notices, lost, src, turns>>

\* A drain ends the job; what it announces is a step of its own.
Process(f) ==
    /\ f \in due
    /\ due' = due \ {f}
    /\ \E result \in {"ready", "unready"} :
         /\ row' = [row EXCEPT ![f] = result]
         /\ notices' = notices \cup {[file |-> f, is |-> result]}
    /\ UNCHANGED <<unrecorded, lost, src, turns>>

\* on_file_ready and on_file_failed find the thread through the file's row, and
\* find nothing to change before the upload is recorded.
Notify(n) ==
    /\ n \in notices
    /\ notices' = notices \ {n}
    /\ src' = IF n.file \notin Present THEN src
              ELSE IF n.is = "ready" THEN FileReady(src, n.file) ELSE FileFailed(src, n.file)
    /\ lost' = lost \cup ({n.file} \cap unrecorded)
    /\ UNCHANGED <<row, due, unrecorded, turns>>

\* notify_file_processed logs and swallows; or the drain's process ends.
NoticeLost(n) ==
    /\ n \in notices
    /\ notices' = notices \ {n}
    /\ lost' = lost \cup ({n.file} \cap (unrecorded \cup src.pending))
    /\ UNCHANGED <<row, due, unrecorded, src, turns>>

\* retry_file
Retry(f) ==
    /\ f \in Present \ due
    /\ due' = due \cup {f}
    /\ UNCHANGED <<row, unrecorded, notices, lost, src, turns>>

\* delete_file takes the jobs with the row; it does not look at the thread.
Delete(f) ==
    /\ f \in Present
    /\ row' = [row EXCEPT ![f] = "deleted"]
    /\ due' = due \ {f}
    /\ UNCHANGED <<unrecorded, notices, lost, src, turns>>

(***************************************************************************)
(* A chat turn: expire, read and resolve, load, stream, record.            *)
(***************************************************************************)
Moves(t, turn) == turns' = [turns EXCEPT ![t] = turn]

BeginTurn(t) ==
    /\ turns[t].phase = "waiting"
    /\ src' = Expired(src)
    /\ Moves(t, [turns[t] EXCEPT !.phase = "begun"])
    /\ UNCHANGED <<row, due, unrecorded, notices, lost>>

\* Files of S that are among its last two in the order of upload.
Later(f, g) == \E i, j \in DOMAIN src.conversation :
                   i < j /\ src.conversation[i] = f /\ src.conversation[j] = g
LastTwo(S) == {f \in S : Cardinality({g \in S : Later(f, g)}) < 2}

\* _conversation_bounded_pool
Pool == Conversation(src) \cap (Live(src) \cup src.recent)

\* _select_for_intent: the sets it may select, none where it asks back.
Selections(intent) ==
    CASE intent = "last_two" ->
            {S \in {LastTwo(Conversation(src))} : Cardinality(S) = 2}
      [] intent = "previous_current" ->
            LET current == IF src.active # {} THEN src.active ELSE src.pending
            IN  {{p} \cup current : p \in {q \in src.latest : Cardinality(current) = 1}}
      [] intent = "pair" ->
            LET pool == IF Cardinality(Pool) >= 2 THEN Pool ELSE Conversation(src)
            IN  {S \in {LastTwo(pool)} : Cardinality(S) = 2}
      [] intent = "uncounted" ->
            IF Cardinality(Live(src)) >= 2 THEN {Live(src)}
            ELSE {S \in {Pool} : Cardinality(S) = 2}

Intents == {"last_two", "previous_current", "pair", "uncounted"}

\* No multi-source phrase: pending and active restrict, or nothing does.
ResolvePlain(t) ==
    /\ turns[t].phase = "begun"
    /\ Moves(t, [turns[t] EXCEPT !.phase = "resolved", !.bound = Live(src) # {},
                                 !.allow = IF Live(src) = {} THEN AllFiles ELSE Live(src)])
    /\ UNCHANGED <<row, due, unrecorded, notices, lost, src>>

ResolveMulti(t) ==
    /\ turns[t].phase = "begun"
    /\ \E intent \in Intents :
         IF Selections(intent) = {}
         THEN Moves(t, [NewTurn EXCEPT !.phase = "ended"])
         ELSE \E selected \in Selections(intent) :
                Moves(t, [turns[t] EXCEPT !.phase = "resolved", !.bound = TRUE, !.multi = TRUE,
                                          !.allow = selected])
    /\ UNCHANGED <<row, due, unrecorded, notices, lost, src>>

\* Mutant of OnError: without the state, the turn is not restricted.
OnErrorOpen == AllFiles

\* The allow-list of a turn that could not read the state.
OnError == {}

ResolveRaises(t) ==
    /\ turns[t].phase \in {"waiting", "begun"}
    /\ Moves(t, [turns[t] EXCEPT !.phase = "resolved", !.bound = Live(src) # {},
                                 !.allow = OnError])
    /\ UNCHANGED <<row, due, unrecorded, notices, lost, src>>

\* The evidence is gathered: the model is asked.
Streams(t, used, bound) ==
    Moves(t, [turns[t] EXCEPT !.phase = "streaming", !.used = used, !.bound = bound,
                              !.allow = {}, !.multi = FALSE])

\* What a message may name: the tokens that look like file names.
Namings == {S \in SUBSET Present : Cardinality(S) <= 2}

\* Where the retrieval finds evidence: ranking, budgets, full-text hits, prefix
\* fallbacks and chunk proofs choose among the allowed files.
Evidence(allowed) == SUBSET allowed

\* load_ready_files_context: ready files the message names are the allow-list
\* instead; the retrieval may find evidence in any of the allowed.  A turn that
\* names two files, or compares, and got fewer asks back.
LoadFiles(t) ==
    /\ turns[t].phase = "resolved"
    /\ \E named \in Namings :
       LET readyNamed == named \cap Ready
           allowed    == IF readyNamed # {} THEN readyNamed ELSE turns[t].allow \cap Ready
       IN  \E used \in Evidence(allowed) :
             IF \/ turns[t].multi /\ Cardinality(used) < 2
                \/ Cardinality(named) = 2 /\ ~(named \subseteq used)
             THEN Moves(t, [NewTurn EXCEPT !.phase = "ended"])
             ELSE Streams(t, used, turns[t].bound /\ readyNamed = {})
    /\ UNCHANGED <<row, due, unrecorded, notices, lost, src>>

\* A retrieval error must not break the chat: no file is used.
LoadRaises(t) ==
    /\ turns[t].phase = "resolved"
    /\ Streams(t, {}, turns[t].bound)
    /\ UNCHANGED <<row, due, unrecorded, notices, lost, src>>

\* record_standard_chat_turn, after a model answer of at least one token.
RecordTurn(t) ==
    /\ turns[t].phase = "streaming"
    /\ src' = AfterTurn(src, turns[t].used)
    /\ Moves(t, [NewTurn EXCEPT !.phase = "recorded", !.saw = src.active])
    /\ UNCHANGED <<row, due, unrecorded, notices, lost>>

\* Provider error, empty answer, client gone, expert opinion, record error.
EndUnrecorded(t) ==
    /\ turns[t].phase = "streaming"
    /\ Moves(t, [NewTurn EXCEPT !.phase = "ended"])
    /\ UNCHANGED <<row, due, unrecorded, notices, lost, src>>

(***************************************************************************)
(* Time: the burst window (120 s) and the idle time to live (20 min).      *)
(***************************************************************************)
BurstWindowEnds ==
    /\ src.burstOpen
    /\ src' = [src EXCEPT !.burstOpen = FALSE]
    /\ UNCHANGED <<row, due, unrecorded, notices, lost, turns>>

IdleTimePasses ==
    /\ src.active # {} /\ ~src.idle /\ ~src.burstOpen
    /\ src' = [src EXCEPT !.idle = TRUE]
    /\ UNCHANGED <<row, due, unrecorded, notices, lost, turns>>

Serve(t) ==
    \/ BeginTurn(t) \/ ResolvePlain(t) \/ ResolveMulti(t) \/ ResolveRaises(t)
    \/ LoadFiles(t) \/ LoadRaises(t) \/ RecordTurn(t) \/ EndUnrecorded(t)

Next ==
    \/ \E f \in Files : \/ Upload(f) \/ RecordUpload(f) \/ RecordUploadRaises(f)
                        \/ Process(f) \/ Retry(f) \/ Delete(f)
    \/ \E n \in notices : Notify(n) \/ NoticeLost(n)
    \/ \E t \in Turns : Serve(t)
    \/ BurstWindowEnds \/ IdleTimePasses

Spec == Init /\ [][Next]_vars

(***************************************************************************)
(* Properties.                                                             *)
(***************************************************************************)
\* The type invariant.
TypeOK ==
    /\ row \in [AllFiles -> {"absent", "unready", "ready", "deleted"}]
    /\ due \in SUBSET Files /\ unrecorded \in SUBSET Files /\ lost \in SUBSET Files
    /\ notices \in SUBSET [file : Files, is : {"ready", "unready"}]
    /\ src \in SourceState
    /\ turns \in [Turns -> Turn]

\* An announcement that comes late, or a second one after a retry, never makes
\* a file that has left the sources restrict the thread again.
RecentNeverReturns ==
    [][/\ src.recent \subseteq src'.recent
       /\ src.recent \cap Live(src') = {}]_vars

\* chat_service.py 408: while the thread has sources, and whenever a turn
\* compares, no file from outside the conversation is used unless the message
\* names it: also where the state could not be read, and where files failed or
\* were deleted between the resolution and the retrieval.
RestrictedToSources ==
    \A t \in Turns :
        turns[t].phase = "streaming" /\ turns[t].bound
        => turns[t].used \subseteq Conversation(src)

\* A file that is pending has its announcement still to come, unless one was
\* lost or came before the upload was recorded, or the file was deleted: with
\* drains that keep running, the thread does not wait for ever.
PendingIsAwaited ==
    \A f \in src.pending :
        \/ f \in due \/ \E n \in notices : n.file = f
        \/ f \in lost \/ row[f] = "deleted"
=============================================================================
