----------------------------- MODULE ThreadStore -----------------------------
(***************************************************************************)
(* Where a conversation is kept: a row and messages in Postgres            *)
(* (thread_service.py), a row of the SQLite metadata (system_main.db) and  *)
(* one SQLite file of messages, which thread_store.py looks for either     *)
(* under the thread's id or, when the metadata say "project_setup", in the *)
(* project's folder.  Handlers create, open, promote, delete and answer    *)
(* in it at once: they yield at every await, and what lies between two     *)
(* awaits (all of SQLite and of the file system) runs in one step.         *)
(* One organisation; titles and the other files of a folder are left out.  *)
(***************************************************************************)
EXTENDS Naturals, SequencesExt

CONSTANTS
    Threads,        \* ids that uuid4 may return, each once
    Slugs,          \* project slugs; also the names of their files
    Handlers,       \* requests served at once
    Earlier,        \* chats that hold one exchange when the model begins
    NoSlug, NoThread, NoFile,
    MaxMessages,    \* messages asked for, of all threads
    MaxFaults       \* stores that fail, crashes included

ASSUME ThreadStoreAssumption ==
    /\ Threads \cap Slugs = {} /\ NoSlug \notin Threads \cup Slugs /\ NoThread \notin Threads
    /\ Earlier \subseteq Threads /\ MaxMessages \in Nat /\ MaxFaults \in Nat

VARIABLES
    created,        \* threads whose row was ever committed
    rows,           \* threads with a row in Postgres
    postgres,       \* numbers of the messages Postgres has, per thread
    meta,           \* system_main.db: session type and slug per thread
    files,          \* SQLite files: their messages in the order of the ids
    handlers,       \* the request each handler is serving
    asked, faults

vars == <<created, rows, postgres, meta, files, handlers, asked, faults>>

Paths == Threads \cup Slugs
Meta == [kind : {"none", "chat", "project_setup"}, slug : Slugs \cup {NoSlug}]
Unknown == [kind |-> "none", slug |-> NoSlug]

\* A message is number n of thread; anchor is insert_after_id, 0 for none.
Message == [n : Nat, thread : Threads, anchor : Nat]

ASSUME NoFileAssumption == NoFile \notin Seq(Message)

Ops == {"none", "create", "workspace", "turn", "open", "opinion", "promote", "delete"}
Stages == {"idle", "committed", "described", "found", "resolved", "thinking", "written", "purging"}
Handler == [op : Ops, thread : Threads \cup {NoThread}, stage : Stages,
            slug : Slugs \cup {NoSlug}, n : Nat]
Serving(op, t, stage, s, n) == [op |-> op, thread |-> t, stage |-> stage, slug |-> s, n |-> n]
Idle == Serving("none", NoThread, "idle", NoSlug, 0)

\* The exchange of an earlier chat has number 0.
Init ==
    /\ created = Earlier /\ rows = Earlier
    /\ postgres = [t \in Threads |-> IF t \in Earlier THEN {0} ELSE {}]
    /\ meta = [t \in Threads |->
                  IF t \in Earlier THEN [kind |-> "chat", slug |-> NoSlug] ELSE Unknown]
    /\ files = [p \in Paths |->
                  IF p \in Earlier THEN <<[n |-> 0, thread |-> p, anchor |-> 0]>> ELSE NoFile]
    /\ handlers = [h \in Handlers |-> Idle]
    /\ asked = 0 /\ faults = 0

(***************************************************************************)
(* The stores.                                                             *)
(***************************************************************************)
\* resolve_thread_db_path
Path(t) == IF meta[t].kind = "project_setup" /\ meta[t].slug # NoSlug THEN meta[t].slug ELSE t

\* Mutant of Upsert: INSERT OR IGNORE, which leaves an existing row alone.
UpsertIgnored(t, kind, slug) ==
    IF meta[t].kind = "none" THEN [meta EXCEPT ![t] = [kind |-> kind, slug |-> slug]] ELSE meta

\* upsert_thread_metadata.  The session type has a default and is never NULL,
\* so its COALESCE always takes the new one; a missing slug keeps the old one.
Upsert(t, kind, slug) ==
    [meta EXCEPT ![t] = [kind |-> kind, slug |-> IF slug = NoSlug THEN @.slug ELSE slug]]

\* get_thread_db_connection: a file that is merely read is created, too.
Opened(p) == IF files[p] = NoFile THEN <<>> ELSE files[p]
Touched(p) == [files EXCEPT ![p] = Opened(p)]
Appended(p, n, t, anchor) ==
    [files EXCEPT ![p] = Append(Opened(p), [n |-> n, thread |-> t, anchor |-> anchor])]

Goto(h, stage) == handlers' = [handlers EXCEPT ![h] = [@ EXCEPT !.stage = stage]]
End(h) == handlers' = [handlers EXCEPT ![h] = Idle]
At(h, op, stage) == handlers[h].op = op /\ handlers[h].stage = stage

\* The bound on messages: no turn begins beyond it.
Asking == IF asked < MaxMessages THEN {"turn"} ELSE {}

Stores == <<created, rows, postgres, meta, files>>

(***************************************************************************)
(* A new thread: resolve_thread_id without an id, for the first message,   *)
(* an empty conversation or a project workspace.                           *)
(***************************************************************************)
InsertThread(h, op, t, s) ==
    /\ handlers[h] = Idle
    /\ op \in {"create", "workspace"} \cup Asking
    /\ (op = "workspace") <=> (s # NoSlug)
    /\ t \notin created
    /\ created' = created \cup {t} /\ rows' = rows \cup {t}
    /\ handlers' = [handlers EXCEPT ![h] = Serving(op, t, "committed", s, 0)]
    /\ UNCHANGED <<postgres, meta, files, asked, faults>>

\* After the commit: the metadata of a chat, whatever the thread is to be.
DescribeThread(h) ==
    /\ handlers[h].stage = "committed"
    /\ meta' = Upsert(handlers[h].thread, "chat", NoSlug)
    /\ CASE handlers[h].op = "turn"      -> Goto(h, "resolved")
         [] handlers[h].op = "workspace" -> Goto(h, "described")
         [] OTHER -> End(h)
    /\ UNCHANGED <<created, rows, postgres, files, asked, faults>>

\* A workspace: its folder and its slug, or a slug that cannot be a folder's.
DescribeWorkspace(h) ==
    /\ handlers[h].stage = "described"
    /\ meta' \in {meta, Upsert(handlers[h].thread, "project_setup", handlers[h].slug)}
    /\ End(h)
    /\ UNCHANGED <<created, rows, postgres, files, asked, faults>>

(***************************************************************************)
(* A request on a thread begins with a look at its row: 404 without one.   *)
(* An opinion on a message looks at the SQLite file instead (Consult).     *)
(***************************************************************************)
FindThread(h, op, t, s) ==
    /\ handlers[h] = Idle
    /\ op \in {"open", "promote", "delete"} \cup Asking
    /\ (op = "promote") <=> (s # NoSlug)
    /\ t \in rows
    /\ handlers' = [handlers EXCEPT ![h] = Serving(op, t, "found", s, 0)]
    /\ UNCHANGED <<Stores, asked, faults>>

\* get_thread_detail lists the SQLite messages.
Open(h) ==
    /\ At(h, "open", "found")
    /\ files' = Touched(Path(handlers[h].thread))
    /\ End(h)
    /\ UNCHANGED <<created, rows, postgres, meta, asked, faults>>

(***************************************************************************)
(* A turn of the chat.                                                     *)
(***************************************************************************)
\* resolve_thread_id of an existing thread: the metadata with the defaults.
Resolve(h) ==
    /\ At(h, "turn", "found")
    /\ meta' = Upsert(handlers[h].thread, "chat", NoSlug)
    /\ Goto(h, "resolved")
    /\ UNCHANGED <<created, rows, postgres, files, asked, faults>>

ReadHistory(h) ==
    /\ At(h, "turn", "resolved")
    /\ files' = Touched(Path(handlers[h].thread))
    /\ Goto(h, "thinking")
    /\ UNCHANGED <<created, rows, postgres, meta, asked, faults>>

\* The answer is there: the exchange goes to SQLite, where an error is only logged.
WriteSqlite(h) ==
    /\ At(h, "turn", "thinking")
    /\ asked < MaxMessages
    /\ asked' = asked + 1
    /\ handlers' = [handlers EXCEPT ![h] = [@ EXCEPT !.stage = "written", !.n = asked + 1]]
    /\ \/ /\ files' = Appended(Path(handlers[h].thread), asked + 1, handlers[h].thread, 0)
          /\ UNCHANGED faults
       \/ /\ faults < MaxFaults /\ faults' = faults + 1
          /\ UNCHANGED files
    /\ UNCHANGED <<created, rows, postgres, meta>>

\* ... and then to Postgres, where a thread without a row refuses it.
CommitPostgres(h) ==
    LET t == handlers[h].thread IN
    /\ At(h, "turn", "written")
    /\ \/ /\ postgres' = IF t \in rows THEN [postgres EXCEPT ![t] = @ \cup {handlers[h].n}]
                         ELSE postgres
          /\ UNCHANGED faults
       \/ /\ faults < MaxFaults /\ faults' = faults + 1
          /\ UNCHANGED postgres
    /\ End(h)
    /\ UNCHANGED <<created, rows, meta, files, asked>>

\* The sources, the model or the client gives up before there is an answer.
GiveUp(h) ==
    /\ handlers[h].op \in {"turn", "opinion"} /\ handlers[h].stage \in {"resolved", "thinking"}
    /\ End(h)
    /\ UNCHANGED <<Stores, asked, faults>>

(***************************************************************************)
(* An expert's opinion on message number anchor of the file, as a window,  *)
(* which may be old, shows it; 404 only when the file has no message.  It  *)
(* is kept in SQLite alone, below its anchor: a foreign key refuses an     *)
(* anchor that the file does not have when the answer is there.            *)
(***************************************************************************)
Consult(h, t, anchor) ==
    /\ handlers[h] = Idle
    /\ asked < MaxMessages
    /\ t \in created
    /\ IF Opened(Path(t)) = <<>>
       THEN files' = Touched(Path(t)) /\ UNCHANGED handlers
       ELSE /\ handlers' = [handlers EXCEPT ![h] = Serving("opinion", t, "thinking", NoSlug, anchor)]
            /\ UNCHANGED files
    /\ UNCHANGED <<created, rows, postgres, meta, asked, faults>>

WriteOpinion(h) ==
    LET p == Path(handlers[h].thread) IN
    /\ At(h, "opinion", "thinking")
    /\ asked < MaxMessages
    /\ IF handlers[h].n <= Len(Opened(p))
       THEN /\ files' = Appended(p, asked + 1, handlers[h].thread, handlers[h].n)
            /\ asked' = asked + 1
       ELSE files' = Touched(p) /\ UNCHANGED asked
    /\ End(h)
    /\ UNCHANGED <<created, rows, postgres, meta, faults>>

(***************************************************************************)
(* promote_thread_to_project.                                              *)
(***************************************************************************)
\* Mutant of SlugIsFree: the existing file of the project is not looked for.
AnySlugIsFree(s) == TRUE

SlugIsFree(s) == files[s] = NoFile

\* shutil.move of the file under the thread's id, if there is one.
Moved(t, s) ==
    IF files[t] = NoFile THEN files ELSE [files EXCEPT ![s] = files[t], ![t] = NoFile]

\* 422 without metadata, 409 when it is a project or the slug has a file.
Promote(h) ==
    LET t == handlers[h].thread
        s == handlers[h].slug
    IN  /\ At(h, "promote", "found")
        /\ IF meta[t].kind = "chat" /\ SlugIsFree(s)
           THEN /\ files' = Moved(t, s)
                /\ \/ meta' = Upsert(t, "project_setup", s) /\ UNCHANGED faults
                   \/ faults < MaxFaults /\ faults' = faults + 1 /\ UNCHANGED meta
           ELSE UNCHANGED <<files, meta, faults>>
        /\ End(h)
        /\ UNCHANGED <<created, rows, postgres, asked>>

(***************************************************************************)
(* delete_thread.                                                          *)
(***************************************************************************)
\* The slug is read before the transaction that deletes the row begins.
NoteSlug(h) ==
    /\ At(h, "delete", "found")
    /\ LET slug == meta[handlers[h].thread].slug
       IN  handlers' = [handlers EXCEPT ![h] = [@ EXCEPT !.stage = "resolved", !.slug = slug]]
    /\ UNCHANGED <<Stores, asked, faults>>

\* The row goes, and its messages by cascade; 404 if another deletion was first.
DeleteRow(h) ==
    LET t == handlers[h].thread IN
    /\ At(h, "delete", "resolved")
    /\ rows' = rows \ {t}
    /\ postgres' = [postgres EXCEPT ![t] = {}]
    /\ IF t \in rows THEN Goto(h, "purging") ELSE End(h)
    /\ UNCHANGED <<created, meta, files, asked, faults>>

\* The file the metadata name, and the folder of the slug read before.
Purged(t, slug) == [p \in Paths |-> IF p \in {Path(t), slug} THEN NoFile ELSE files[p]]

\* The three removals; a failure, or a crash, leaves the later ones undone.
Purge(h) ==
    LET t == handlers[h].thread IN
    /\ At(h, "delete", "purging")
    /\ \/ /\ files' = Purged(t, handlers[h].slug)
          /\ meta' = [meta EXCEPT ![t] = Unknown]
          /\ UNCHANGED faults
       \/ /\ faults < MaxFaults /\ faults' = faults + 1
          /\ \/ UNCHANGED files
             \/ files' = Purged(t, NoSlug)
             \/ files' = Purged(t, handlers[h].slug)
          /\ UNCHANGED meta
    /\ End(h)
    /\ UNCHANGED <<created, rows, postgres, asked>>

\* The process dies: its requests with it, the stores stay.
Crash ==
    /\ faults < MaxFaults /\ faults' = faults + 1
    /\ \E h \in Handlers : handlers[h] # Idle
    /\ handlers' = [h \in Handlers |-> Idle]
    /\ UNCHANGED <<Stores, asked>>

Arrive(h) ==
    \E t \in Threads :
        \/ \E op \in Ops, s \in Slugs \cup {NoSlug} :
               InsertThread(h, op, t, s) \/ FindThread(h, op, t, s)
        \/ \E anchor \in 1..asked + 1 : Consult(h, t, anchor)

Work(h) ==
    \/ DescribeThread(h) \/ DescribeWorkspace(h) \/ Open(h)
    \/ Resolve(h) \/ ReadHistory(h) \/ WriteSqlite(h) \/ CommitPostgres(h) \/ GiveUp(h)
    \/ WriteOpinion(h) \/ Promote(h)
    \/ NoteSlug(h) \/ DeleteRow(h) \/ Purge(h)

Next == Crash \/ \E h \in Handlers : Arrive(h) \/ Work(h)

Spec == Init /\ [][Next]_vars

(***************************************************************************)
(* The order in which a file is shown: order_thread_messages.              *)
(***************************************************************************)
\* Mutant of Reading: the rows as the query returns them.
ReadingById(file) == [k \in DOMAIN file |-> k]

\* The first of these messages, or the end of the file.
FirstOf(set, file) == Min(set \cup {Len(file) + 1})
FirstBelow(i, file) == FirstOf({k \in DOMAIN file : file[k].anchor = i}, file)
NextTo(i, file) == FirstOf({k \in DOMAIN file : k > i /\ file[k].anchor = file[i].anchor}, file)

\* walk, its loop over the sorted children (and that over the roots) as the first of
\* them and, for each, the next: a message, what is below it, what is next to it.
\* Anchors are older than what they hold, so no message is left over.
Reading(file) ==
    LET walk[i \in 1..Len(file) + 1] ==
            IF i = Len(file) + 1 THEN <<>>
            ELSE <<i>> \o walk[FirstBelow(i, file)] \o walk[NextTo(i, file)]
    IN  walk[FirstBelow(0, file)]

(***************************************************************************)
(* Properties.                                                             *)
(***************************************************************************)
\* The type invariant.
TypeOK ==
    /\ created \in SUBSET Threads /\ rows \in SUBSET created
    /\ postgres \in [Threads -> SUBSET Nat]
    /\ meta \in [Threads -> Meta]
    /\ files \in [Paths -> Seq(Message) \cup {NoFile}]
    /\ handlers \in [Handlers -> Handler]
    /\ asked \in 0..MaxMessages /\ faults \in 0..MaxFaults

Contents(p) == ToSet(Opened(p))
Numbers(p) == {m.n : m \in Contents(p)}

\* get_thread_detail: SQLite when it has anything, else Postgres.
Shown(t) == IF Contents(Path(t)) # {} THEN Numbers(Path(t)) ELSE postgres[t]

\* A message leaves the files only when its own thread is deleted, or one that
\* names the project the message is in: no promotion, no other deletion, no
\* failure and no crash takes it away (thread_store.py:333, thread_service.py:200).
TranscriptsOutlive ==
    [][\A p \in Paths : \A m \in Contents(p) :
           m.n \in UNION {Numbers(q)' : q \in Paths} \/
           \E h \in Handlers :
               /\ At(h, "delete", "purging") /\ handlers'[h] = Idle
               /\ \/ m.thread = handlers[h].thread
                  \/ p \in {handlers[h].slug, Path(handlers[h].thread)}]_vars

\* A chat that no project was made of shows every exchange Postgres has, though
\* SQLite hides Postgres as soon as it has one message: the order of the two
\* writes keeps it so, as long as no store fails (thread_service.py:403).
ChatShowsAll ==
    faults = 0 =>
        \A t \in rows : meta[t].slug = NoSlug => postgres[t] \subseteq Shown(t)

\* Every message is shown once, an opinion below what it is about, with nothing
\* but other opinions between the two, and the exchanges in their own order
\* (thread_store.py:209).
OrderIsAReading ==
    \A p \in Paths :
        LET file == Opened(p)
            order == Reading(file)
            Place(k) == CHOOSE i \in DOMAIN order : order[i] = k
        IN  /\ Len(order) = Len(file) /\ ToSet(order) = DOMAIN file
            /\ \A k \in DOMAIN file : file[k].anchor # 0 =>
                   /\ Place(file[k].anchor) < Place(k)
                   /\ \A i \in Place(file[k].anchor) + 1 .. Place(k) : file[order[i]].anchor # 0
            /\ \A j, k \in DOMAIN file :
                   file[j].anchor = file[k].anchor /\ j < k => Place(j) < Place(k)

\* chat_service.py 280, tests/test_thread_promotion.py 54: a thread made a project
\* is one, and its conversation is read from the project's folder.
ProjectShowsTranscript ==
    \A t \in rows, s \in Slugs :
        meta[t].slug = s /\ (\E m \in Contents(s) : m.thread = t) => Path(t) = s
=============================================================================
