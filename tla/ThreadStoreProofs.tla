-------------------------- MODULE ThreadStoreProofs --------------------------
(***************************************************************************)
(* Proofs about ThreadStore: what a chat shows, in which order, and what   *)
(* becomes of a transcript, for every number of threads, projects and      *)
(* handlers, and however promotions, deletions, failures and crashes fall  *)
(* in between.                                                             *)
(***************************************************************************)
EXTENDS ThreadStore, FiniteSetTheorems, TLAPS

\* A request that is served is about a thread that was created, and a promotion names a project.
HandlersKnow ==
    \A h \in Handlers :
        /\ handlers[h].stage # "idle" => handlers[h].thread \in created
        /\ handlers[h].op = "promote" => handlers[h].slug # NoSlug

\* The row of a thread is gone for good when its files are removed.
PurgedAreGone ==
    \A h \in Handlers : handlers[h].stage = "purging" => handlers[h].thread \notin rows

\* Nothing is kept of a thread that is yet to come.
FutureIsEmpty == \A t \in Threads \ created : postgres[t] = {}

\* A turn of the thread is in SQLite, or should be, and not yet in Postgres.
Written(h, t) == At(h, "turn", "written") /\ handlers[h].thread = t

\* The chat has in its own file all that Postgres has, and what a turn of it is
\* about to give to Postgres.
ChatIsComplete(t) ==
    /\ postgres[t] \subseteq Numbers(t)
    /\ \A h \in Handlers : Written(h, t) => handlers[h].n \in Numbers(t)

\* So do the chats that no project was made of, as long as no store failed.
ChatsComplete == faults = 0 => \A t \in rows : meta[t].slug = NoSlug => ChatIsComplete(t)

StoreInv == TypeOK /\ HandlersKnow /\ PurgedAreGone /\ FutureIsEmpty /\ ChatsComplete

-----------------------------------------------------------------------------
(***************************************************************************)
(* The files.                                                              *)
(***************************************************************************)
LEMMA FileTypes ==
    ASSUME TypeOK
    PROVE  /\ \A p \in Paths : Opened(p) \in Seq(Message) /\ Contents(p) \subseteq Message
           /\ \A t \in Threads : Path(t) \in Paths /\ (Path(t) = t \/ Path(t) \in Slugs)
           /\ \A t \in Threads : meta[t].slug = NoSlug => Path(t) = t
           /\ \A s \in Slugs : s \notin Threads /\ s # NoSlug
<1>1. \A p \in Paths : Opened(p) \in Seq(Message)
  BY DEF TypeOK, Opened
<1>2. \A s \in Seq(Message) : ToSet(s) \subseteq Message
  BY DEF ToSet
<1>3. \A t \in Threads : meta[t].slug \in Slugs \cup {NoSlug}
  BY DEF TypeOK, Meta
<1> QED BY <1>1, <1>2, <1>3, ThreadStoreAssumption DEF Contents, Path, Paths

LEMMA AppendedSet ==
    ASSUME NEW S, NEW s \in Seq(S), NEW x \in S
    PROVE  Append(s, x) \in Seq(S) /\ ToSet(Append(s, x)) = ToSet(s) \cup {x}
<1> DEFINE a == Append(s, x)
<1>1. /\ DOMAIN s = 1 .. Len(s) /\ Len(s) \in Nat
      /\ DOMAIN a = 1 .. Len(s) + 1
      /\ a[Len(s) + 1] = x /\ \A n \in DOMAIN s : a[n] = s[n]
  OBVIOUS
<1>2. \A n \in DOMAIN a : n = Len(s) + 1 \/ n \in DOMAIN s
  BY <1>1
<1>3. DOMAIN s \subseteq DOMAIN a /\ Len(s) + 1 \in DOMAIN a
  BY <1>1
<1>4. a \in Seq(S)
  OBVIOUS
<1> HIDE DEF a
<1>5. ToSet(a) = ToSet(s) \cup {x}
  BY <1>1, <1>2, <1>3 DEF ToSet
<1> QED BY <1>4, <1>5 DEF a

FilesAre == files \in [Paths -> Seq(Message) \cup {NoFile}]

\* A file that is read is there afterwards, and shows what it showed.
LEMMA TouchedKeeps ==
    ASSUME TypeOK, NEW p \in Paths, files' = Touched(p)
    PROVE  FilesAre' /\ \A q \in Paths : Contents(q)' = Contents(q)
<1>0. <<>> \in Seq(Message)
  OBVIOUS
<1>1. <<>> # NoFile
  BY <1>0, NoFileAssumption, Zenon
<1>2. files \in [Paths -> Seq(Message) \cup {NoFile}] /\ Opened(p) \in Seq(Message)
  BY FileTypes DEF TypeOK
<1>3. files' \in [Paths -> Seq(Message) \cup {NoFile}]
  BY <1>2, Zenon DEF Touched
<1>4. files'[p] = Opened(p) /\ \A q \in Paths \ {p} : files'[q] = files[q]
  BY <1>2 DEF Touched
<1>5. \A q \in Paths : Opened(q)' = Opened(q)
  BY <1>1, <1>2, <1>4 DEF Opened
<1> QED BY <1>3, <1>5 DEF Contents, FilesAre

\* A message is added to what one file shows.
LEMMA AppendedAdds ==
    ASSUME TypeOK, NEW p \in Paths, NEW n \in Nat, NEW t \in Threads, NEW anchor \in Nat,
           files' = Appended(p, n, t, anchor)
    PROVE  /\ FilesAre'
           /\ \A q \in Paths : Contents(q) \subseteq Contents(q)'
           /\ \A q \in Paths : Numbers(q) \subseteq Numbers(q)'
           /\ n \in Numbers(p)'
<1> DEFINE m == [n |-> n, thread |-> t, anchor |-> anchor]
           file == Append(Opened(p), m)
<1>1. m \in Message /\ m.n = n
  BY DEF Message
<1>2. files \in [Paths -> Seq(Message) \cup {NoFile}] /\ Opened(p) \in Seq(Message)
  BY FileTypes DEF TypeOK
<1>3. files' = [files EXCEPT ![p] = file]
  BY DEF Appended
<1> HIDE DEF m
<1>4. file \in Seq(Message) /\ ToSet(file) = ToSet(Opened(p)) \cup {m}
  BY <1>1, <1>2, AppendedSet
<1> HIDE DEF file
<1>5. files' \in [Paths -> Seq(Message) \cup {NoFile}]
  BY <1>2, <1>3, <1>4, Zenon
<1>6. files'[p] = file /\ \A q \in Paths \ {p} : files'[q] = files[q]
  BY <1>2, <1>3
<1>7. Opened(p)' = file /\ \A q \in Paths \ {p} : Opened(q)' = Opened(q)
  BY <1>4, <1>6, NoFileAssumption DEF Opened
<1>8. Contents(p)' = Contents(p) \cup {m} /\ \A q \in Paths \ {p} : Contents(q)' = Contents(q)
  BY <1>4, <1>7 DEF Contents
<1>9. \A q \in Paths : Contents(q) \subseteq Contents(q)'
  BY <1>8
<1>10. n \in Numbers(p)'
  BY <1>1, <1>8 DEF Numbers
<1> QED BY <1>5, <1>9, <1>10 DEF FilesAre, Numbers

\* A file is moved to the name of a project that has none.
LEMMA MovedKeeps ==
    ASSUME TypeOK, NEW t \in Threads, NEW s \in Slugs, SlugIsFree(s), files' = Moved(t, s)
    PROVE  /\ FilesAre'
           /\ Contents(s)' = Contents(t) /\ Contents(s) = {}
           /\ \A q \in Paths \ {s, t} : Contents(q)' = Contents(q)
<1>1. files \in [Paths -> Seq(Message) \cup {NoFile}] /\ s # t /\ s \in Paths /\ t \in Paths
  BY FileTypes DEF TypeOK, Paths
<1>2. files[s] = NoFile /\ ToSet(<<>>) = {}
  BY DEF SlugIsFree, ToSet
<1>3. CASE files[t] = NoFile
  <2>1. files' = files
    BY <1>3 DEF Moved
  <2> QED BY <1>1, <1>2, <1>3, <2>1 DEF FilesAre, Contents, Opened
<1>4. CASE files[t] # NoFile
  <2>1. files' = [files EXCEPT ![s] = files[t], ![t] = NoFile]
    BY <1>4 DEF Moved
  <2>2. /\ files'[s] = files[t] /\ files'[t] = NoFile
        /\ \A q \in Paths \ {s, t} : files'[q] = files[q]
    BY <1>1, <2>1
  <2>3. files' = [q \in Paths |-> files'[q]]
    BY <1>1, <2>1, Zenon
  <2>4. \A q \in Paths : files'[q] \in Seq(Message) \cup {NoFile}
    BY <1>1, <2>2
  <2>5. files' \in [Paths -> Seq(Message) \cup {NoFile}]
    BY <2>3, <2>4, Zenon
  <2> QED BY <1>2, <2>2, <2>5 DEF FilesAre, Contents, Opened
<1> QED BY <1>3, <1>4

\* The removal touches the file of the thread and that of the slug.
LEMMA PurgedKeeps ==
    ASSUME TypeOK, NEW t \in Threads, NEW slug, files' = Purged(t, slug)
    PROVE  FilesAre' /\ \A q \in Paths \ {Path(t), slug} : Contents(q)' = Contents(q)
BY DEF TypeOK, FilesAre, Purged, Contents, Opened
-----------------------------------------------------------------------------
(***************************************************************************)
(* The invariant: what every step does to the handlers.                    *)
(***************************************************************************)
LEMMA HandlerTypes ==
    ASSUME StoreInv, NEW h \in Handlers
    PROVE  /\ handlers[h] \in Handler
           /\ handlers[h].n \in Nat
           /\ handlers[h].slug \in Slugs \cup {NoSlug}
           /\ handlers[h].stage # "idle" => handlers[h].thread \in created
           /\ handlers[h].op = "promote" => handlers[h].slug \in Slugs
           /\ created \subseteq Threads /\ rows \subseteq created
BY DEF StoreInv, TypeOK, Handler, HandlersKnow

\* A handler takes up the request r, or goes on with it.
LEMMA HandlerMoves ==
    ASSUME StoreInv, NEW h \in Handlers, NEW r \in Handler,
           handlers' = [handlers EXCEPT ![h] = r],
           created \subseteq created', rows' \subseteq rows \cup (Threads \ created),
           r.stage # "idle" => r.thread \in created',
           r.stage = "purging" => r.thread \notin rows',
           r.op = "promote" => r.slug # NoSlug
    PROVE  /\ handlers' \in [Handlers -> Handler] /\ HandlersKnow' /\ PurgedAreGone'
           /\ handlers'[h] = r
           /\ \A k \in Handlers \ {h} : handlers'[k] = handlers[k]
<1>1. handlers \in [Handlers -> Handler]
  BY DEF StoreInv, TypeOK
<1>2. handlers'[h] = r /\ \A k \in Handlers \ {h} : handlers'[k] = handlers[k]
  BY <1>1
<1>3. handlers' \in [Handlers -> Handler]
  BY <1>1, Zenon
<1>4. HandlersKnow'
  BY <1>2 DEF StoreInv, HandlersKnow
<1>5. PurgedAreGone'
  BY <1>2 DEF StoreInv, HandlersKnow, PurgedAreGone
<1> QED BY <1>2, <1>3, <1>4, <1>5

\* The forms in which the actions write it.
LEMMA EndMoves ==
    ASSUME StoreInv, NEW h \in Handlers, End(h)
    PROVE  /\ handlers' = [handlers EXCEPT ![h] = Idle] /\ Idle \in Handler
           /\ Idle.stage = "idle" /\ Idle.op = "none"
BY DEF End, Idle, Serving, Handler, Ops, Stages

LEMMA GotoMoves ==
    ASSUME StoreInv, NEW h \in Handlers, NEW stage \in Stages, Goto(h, stage)
    PROVE  \E r \in Handler :
               /\ handlers' = [handlers EXCEPT ![h] = r]
               /\ r.stage = stage /\ r.op = handlers[h].op /\ r.thread = handlers[h].thread
               /\ r.slug = handlers[h].slug
<1> DEFINE r == [handlers[h] EXCEPT !.stage = stage]
<1>1. handlers[h] \in Handler
  BY HandlerTypes
<1>2. r \in Handler
  BY <1>1, Zenon DEF Handler
<1>3. /\ r.stage = stage /\ r.op = handlers[h].op /\ r.thread = handlers[h].thread
      /\ r.slug = handlers[h].slug
  BY <1>1 DEF Handler
<1>4. handlers' = [handlers EXCEPT ![h] = r]
  BY DEF Goto
<1> HIDE DEF r
<1> QED BY <1>2, <1>3, <1>4

-----------------------------------------------------------------------------
(***************************************************************************)
(* The invariant: what a step of one handler may do to the stores.         *)
(***************************************************************************)
\* Rows come only to new threads, and no thread loses its project.
RowsStep ==
    /\ created \subseteq created' /\ created' \subseteq Threads
    /\ rows' \subseteq rows \cup (created' \ created)
    /\ meta' \in [Threads -> Meta]
    /\ \A t \in rows \cap rows' :
           faults' = 0 /\ meta'[t].slug = NoSlug => meta[t].slug = NoSlug

\* A chat's own file loses nothing, and Postgres gets only what is in it.
MessagesStep ==
    /\ FilesAre'
    /\ postgres' \in [Threads -> SUBSET Nat]
    /\ \A t \in rows \cap rows' :
           faults' = 0 /\ meta'[t].slug = NoSlug => Numbers(t) \subseteq Numbers(t)'
    /\ \A t \in Threads : \A n \in postgres'[t] :
           \/ n \in postgres[t]
           \/ t \in rows /\ (faults' = 0 /\ meta[t].slug = NoSlug => n \in Numbers(t))

CountersStep ==
    /\ asked' \in 0 .. MaxMessages /\ faults' \in 0 .. MaxFaults
    /\ faults' = 0 => faults = 0

\* The handler h takes the request r, and has written what it says is written.
HandlerStep(h, r) ==
    /\ handlers' = [handlers EXCEPT ![h] = r]
    /\ r.stage # "idle" => r.thread \in created'
    /\ r.stage = "purging" => r.thread \notin rows'
    /\ r.op = "promote" => r.slug # NoSlug
    /\ r.stage = "written" /\ faults' = 0 /\ meta'[r.thread].slug = NoSlug
           => r.n \in Numbers(r.thread)'

LEMMA StepKeeps ==
    ASSUME StoreInv, NEW h \in Handlers, NEW r \in Handler,
           RowsStep, MessagesStep, CountersStep, HandlerStep(h, r)
    PROVE  StoreInv'
<1>1. /\ handlers' \in [Handlers -> Handler] /\ HandlersKnow' /\ PurgedAreGone'
      /\ handlers'[h] = r
      /\ \A k \in Handlers \ {h} : handlers'[k] = handlers[k]
  BY HandlerMoves DEF RowsStep, HandlerStep
<1>2. created \subseteq Threads /\ rows \subseteq created /\ rows' \subseteq created'
  BY DEF StoreInv, TypeOK, RowsStep
<1>3. TypeOK'
  BY <1>1, <1>2 DEF TypeOK, RowsStep, MessagesStep, CountersStep, FilesAre
<1>4. FutureIsEmpty'
  <2> SUFFICES ASSUME NEW t \in Threads, t \notin created' PROVE postgres'[t] = {}
    BY DEF FutureIsEmpty
  <2>1. t \notin created /\ t \notin rows /\ postgres[t] = {}
    BY <1>2 DEF RowsStep, StoreInv, FutureIsEmpty
  <2> QED BY <2>1 DEF MessagesStep
<1>5. ChatsComplete'
  <2> SUFFICES ASSUME faults' = 0, NEW t \in Threads, t \in rows', meta'[t].slug = NoSlug
               PROVE  ChatIsComplete(t)'
    BY <1>2 DEF ChatsComplete, RowsStep
  <2>1. \A k \in Handlers \ {h} :
            Written(k, t)' => Written(k, t) /\ handlers'[k].n = handlers[k].n
    BY <1>1 DEF Written, At
  <2>2. Written(h, t)' => handlers'[h].n \in Numbers(t)'
    BY <1>1 DEF Written, At, HandlerStep
  <2>3. CASE t \in rows
    <3>1. ChatIsComplete(t) /\ meta[t].slug = NoSlug /\ Numbers(t) \subseteq Numbers(t)'
      BY <2>3 DEF StoreInv, ChatsComplete, RowsStep, MessagesStep, CountersStep
    <3>2. postgres'[t] \subseteq Numbers(t)'
      BY <3>1 DEF ChatIsComplete, MessagesStep
    <3>3. \A k \in Handlers : Written(k, t)' => handlers'[k].n \in Numbers(t)'
      BY <2>1, <2>2, <3>1 DEF ChatIsComplete
    <3> QED BY <3>2, <3>3 DEF ChatIsComplete
  <2>4. CASE t \notin rows
    <3>1. t \notin created
      BY <2>4 DEF RowsStep
    <3>2. postgres'[t] = {}
      BY <2>4, <3>1 DEF StoreInv, FutureIsEmpty, MessagesStep
    <3>3. \A k \in Handlers : ~Written(k, t)
      BY <3>1 DEF StoreInv, HandlersKnow, Written, At
    <3> QED BY <2>1, <2>2, <3>2, <3>3 DEF ChatIsComplete
  <2> QED BY <2>3, <2>4
<1> QED BY <1>1, <1>3, <1>4, <1>5 DEF StoreInv

\* What the steps that leave a store alone need not show.
LEMMA RowsKept ==
    ASSUME StoreInv, UNCHANGED <<created, rows, meta>>
    PROVE  RowsStep
BY DEF StoreInv, TypeOK, RowsStep

LEMMA CountersKept ==
    ASSUME StoreInv, UNCHANGED <<asked, faults>>
    PROVE  CountersStep
BY DEF StoreInv, TypeOK, CountersStep

LEMMA FaultCounted ==
    ASSUME StoreInv, UNCHANGED asked, faults < MaxFaults, faults' = faults + 1
    PROVE  CountersStep /\ faults' # 0
BY ThreadStoreAssumption DEF StoreInv, TypeOK, CountersStep

LEMMA MessagesGrow ==
    ASSUME StoreInv, UNCHANGED postgres, FilesAre',
           \A q \in Paths : Numbers(q) \subseteq Numbers(q)'
    PROVE  MessagesStep
BY HandlerTypes DEF StoreInv, TypeOK, MessagesStep, Paths

LEMMA MessagesKept ==
    ASSUME StoreInv, UNCHANGED <<postgres, files>>
    PROVE  MessagesStep
BY MessagesGrow DEF StoreInv, TypeOK, FilesAre, Numbers, Contents, Opened

-----------------------------------------------------------------------------
(***************************************************************************)
(* The invariant: the actions.                                             *)
(***************************************************************************)
Moves(h) == \E r \in Handler : HandlerStep(h, r)

LEMMA MovesKeep ==
    ASSUME StoreInv, NEW h \in Handlers, RowsStep, MessagesStep, CountersStep, Moves(h)
    PROVE  StoreInv'
BY StepKeeps DEF Moves

LEMMA EndStep ==
    ASSUME StoreInv, NEW h \in Handlers, End(h)
    PROVE  Moves(h)
BY EndMoves, Zenon DEF Moves, HandlerStep, Idle, Serving

LEMMA GotoStep ==
    ASSUME StoreInv, NEW h \in Handlers, created \subseteq created',
           NEW stage \in Stages \ {"written", "purging"},
           handlers[h].stage # "idle", Goto(h, stage)
    PROVE  Moves(h)
<1>1. PICK r \in Handler :
          /\ handlers' = [handlers EXCEPT ![h] = r]
          /\ r.stage = stage /\ r.op = handlers[h].op /\ r.thread = handlers[h].thread
          /\ r.slug = handlers[h].slug
  BY GotoMoves
<1>2. r.op = "promote" => r.slug # NoSlug
  BY <1>1 DEF StoreInv, HandlersKnow
<1>3. HandlerStep(h, r)
  BY <1>1, <1>2, HandlerTypes DEF HandlerStep
<1> QED BY <1>3 DEF Moves

LEMMA ServingStep ==
    ASSUME StoreInv, NEW h \in Handlers, NEW op \in Ops, NEW t \in Threads, t \in created',
           NEW stage \in {"committed", "found", "thinking"},
           NEW s \in Slugs \cup {NoSlug}, NEW n \in Nat, op = "promote" => s # NoSlug,
           handlers' = [handlers EXCEPT ![h] = Serving(op, t, stage, s, n)]
    PROVE  Moves(h)
<1> DEFINE r == Serving(op, t, stage, s, n)
<1>1. r \in Handler /\ r.stage = stage /\ r.thread = t /\ r.op = op /\ r.slug = s
  BY DEF Serving, Handler, Stages
<1> HIDE DEF r
<1>2. HandlerStep(h, r)
  BY <1>1 DEF HandlerStep, r
<1> QED BY <1>1, <1>2 DEF Moves

\* The metadata of a request keep the thread's project.
LEMMA UpsertKeeps ==
    ASSUME StoreInv, NEW t \in Threads, NEW kind \in {"chat", "project_setup"},
           NEW slug \in Slugs \cup {NoSlug}, meta' = Upsert(t, kind, slug)
    PROVE  /\ meta' \in [Threads -> Meta]
           /\ meta'[t].kind = kind /\ (slug # NoSlug => meta'[t].slug = slug)
           /\ \A u \in Threads \ {t} : meta'[u] = meta[u]
           /\ \A u \in Threads : meta'[u].slug = NoSlug => meta[u].slug = NoSlug
<1> DEFINE m == [kind |-> kind, slug |-> IF slug = NoSlug THEN meta[t].slug ELSE slug]
<1>1. meta \in [Threads -> Meta]
  BY DEF StoreInv, TypeOK
<1>2. meta[t].slug \in Slugs \cup {NoSlug}
  BY <1>1 DEF Meta
<1>3. m \in Meta /\ m.kind = kind /\ m.slug = IF slug = NoSlug THEN meta[t].slug ELSE slug
  BY <1>2 DEF Meta
<1>4. meta' = [meta EXCEPT ![t] = m]
  BY DEF Upsert
<1> HIDE DEF m
<1>5. meta' \in [Threads -> Meta]
  BY <1>1, <1>3, <1>4, Zenon
<1>6. meta'[t] = m /\ \A u \in Threads \ {t} : meta'[u] = meta[u]
  BY <1>1, <1>4
<1> QED BY <1>3, <1>5, <1>6

LEMMA UpsertStep ==
    ASSUME StoreInv, NEW t \in Threads, NEW kind \in {"chat", "project_setup"},
           NEW slug \in Slugs \cup {NoSlug}, meta' = Upsert(t, kind, slug),
           UNCHANGED <<created, rows>>
    PROVE  RowsStep
BY UpsertKeeps DEF StoreInv, TypeOK, RowsStep

LEMMA TouchedStep ==
    ASSUME StoreInv, NEW p \in Paths, files' = Touched(p), UNCHANGED postgres
    PROVE  MessagesStep
<1>1. FilesAre' /\ \A q \in Paths : Contents(q)' = Contents(q)
  BY TouchedKeeps DEF StoreInv
<1> QED BY <1>1, MessagesGrow DEF Numbers

LEMMA InsertThreadKeeps ==
    ASSUME StoreInv, NEW h \in Handlers, NEW op \in Ops, NEW t \in Threads,
           NEW s \in Slugs \cup {NoSlug}, InsertThread(h, op, t, s)
    PROVE  StoreInv'
<1>1. t \in created' /\ handlers' = [handlers EXCEPT ![h] = Serving(op, t, "committed", s, 0)]
  BY DEF InsertThread
<1>2. Moves(h)
  <2>1. op # "promote"
    BY DEF InsertThread, Asking
  <2> QED BY <1>1, <2>1, ServingStep
<1>3. RowsStep
  BY HandlerTypes DEF InsertThread, RowsStep, StoreInv, TypeOK
<1> QED BY <1>2, <1>3, MessagesKept, CountersKept, MovesKeep DEF InsertThread

LEMMA DescribeThreadKeeps ==
    ASSUME StoreInv, NEW h \in Handlers, DescribeThread(h)
    PROVE  StoreInv'
<1>1. handlers[h].thread \in Threads
  BY HandlerTypes DEF DescribeThread
<1>2. RowsStep
  BY <1>1, UpsertStep DEF DescribeThread
<1>3. Moves(h)
  <2>1. {"resolved", "described"} \subseteq Stages \ {"written", "purging"}
    BY DEF Stages
  <2>2. Goto(h, "resolved") \/ Goto(h, "described") \/ End(h)
    BY DEF DescribeThread
  <2> QED BY <2>1, <2>2, EndStep, GotoStep DEF DescribeThread
<1> QED BY <1>2, <1>3, MessagesKept, CountersKept, MovesKeep DEF DescribeThread

LEMMA DescribeWorkspaceKeeps ==
    ASSUME StoreInv, NEW h \in Handlers, DescribeWorkspace(h)
    PROVE  StoreInv'
<1>1. handlers[h].thread \in Threads /\ handlers[h].slug \in Slugs \cup {NoSlug}
  BY HandlerTypes DEF DescribeWorkspace
<1>2. RowsStep
  BY <1>1, UpsertStep, RowsKept DEF DescribeWorkspace
<1> QED BY <1>2, EndStep, MessagesKept, CountersKept, MovesKeep DEF DescribeWorkspace

LEMMA FindThreadKeeps ==
    ASSUME StoreInv, NEW h \in Handlers, NEW op \in Ops, NEW t \in Threads,
           NEW s \in Slugs \cup {NoSlug}, FindThread(h, op, t, s)
    PROVE  StoreInv'
<1>1. /\ handlers' = [handlers EXCEPT ![h] = Serving(op, t, "found", s, 0)]
      /\ t \in created' /\ (op = "promote" => s # NoSlug)
  BY HandlerTypes DEF FindThread, Stores
<1>2. Moves(h)
  BY <1>1, ServingStep
<1> QED BY <1>2, RowsKept, MessagesKept, CountersKept, MovesKeep DEF FindThread, Stores

LEMMA OpenKeeps ==
    ASSUME StoreInv, NEW h \in Handlers, Open(h)
    PROVE  StoreInv'
<1>1. Path(handlers[h].thread) \in Paths
  BY HandlerTypes, FileTypes DEF Open, At, StoreInv
<1>2. MessagesStep
  BY <1>1, TouchedStep DEF Open
<1> QED BY <1>2, RowsKept, EndStep, CountersKept, MovesKeep DEF Open

LEMMA ResolveKeeps ==
    ASSUME StoreInv, NEW h \in Handlers, Resolve(h)
    PROVE  StoreInv'
<1>1. handlers[h].thread \in Threads /\ handlers[h].stage # "idle"
  BY HandlerTypes DEF Resolve, At
<1>2. RowsStep
  BY <1>1, UpsertStep DEF Resolve
<1>3. "resolved" \in Stages \ {"written", "purging"}
  BY DEF Stages
<1>4. Moves(h)
  BY <1>1, <1>3, GotoStep DEF Resolve
<1> QED BY <1>2, <1>4, MessagesKept, CountersKept, MovesKeep DEF Resolve

LEMMA ReadHistoryKeeps ==
    ASSUME StoreInv, NEW h \in Handlers, ReadHistory(h)
    PROVE  StoreInv'
<1>1. Path(handlers[h].thread) \in Paths /\ handlers[h].stage # "idle"
  BY HandlerTypes, FileTypes DEF ReadHistory, At, StoreInv
<1>2. MessagesStep
  BY <1>1, TouchedStep DEF ReadHistory
<1>3. "thinking" \in Stages \ {"written", "purging"}
  BY DEF Stages
<1>4. Moves(h)
  BY <1>1, <1>3, GotoStep DEF ReadHistory
<1> QED BY <1>2, <1>4, RowsKept, CountersKept, MovesKeep DEF ReadHistory

LEMMA WriteSqliteKeeps ==
    ASSUME StoreInv, NEW h \in Handlers, WriteSqlite(h)
    PROVE  StoreInv'
<1>1. PICK t \in Threads, p \in Paths : t = handlers[h].thread /\ p = Path(t) /\ t \in created
  BY HandlerTypes, FileTypes DEF WriteSqlite, At, StoreInv
<1>2. /\ handlers[h] \in Handler /\ handlers[h].op = "turn"
      /\ asked \in Nat /\ asked + 1 \in Nat /\ asked + 1 \in 0 .. MaxMessages
      /\ asked' = asked + 1
  BY HandlerTypes, ThreadStoreAssumption DEF WriteSqlite, At, StoreInv, TypeOK
<1>3. [handlers[h] EXCEPT !.stage = "written", !.n = asked + 1] \in Handler
  BY <1>2, Zenon DEF Handler, Stages
<1>4. PICK r \in Handler : r = [handlers[h] EXCEPT !.stage = "written", !.n = asked + 1]
  BY <1>3
<1>5. /\ handlers' = [handlers EXCEPT ![h] = r] /\ UNCHANGED <<created, rows, postgres, meta>>
      /\ r.stage = "written" /\ r.n = asked' /\ r.thread = t /\ r.op = "turn"
  BY <1>1, <1>2, <1>4 DEF WriteSqlite, Handler
<1>6. ASSUME faults' = 0 /\ meta'[t].slug = NoSlug => asked' \in Numbers(t)'
      PROVE  Moves(h)
  <2>1. /\ r.stage # "idle" => r.thread \in created'
        /\ r.stage = "purging" => r.thread \notin rows'
        /\ r.op = "promote" => r.slug # NoSlug
    BY <1>1, <1>5
  <2>2. r.stage = "written" /\ faults' = 0 /\ meta'[r.thread].slug = NoSlug
            => r.n \in Numbers(r.thread)'
    BY <1>5, <1>6
  <2> QED BY <1>5, <2>1, <2>2 DEF Moves, HandlerStep
<1>7. CASE files' = Appended(p, asked + 1, t, 0) /\ UNCHANGED faults
  <2>1. FilesAre' /\ (\A q \in Paths : Numbers(q) \subseteq Numbers(q)') /\ asked' \in Numbers(p)'
    BY <1>2, <1>7, AppendedAdds DEF StoreInv
  <2>2. meta'[t].slug = NoSlug => asked' \in Numbers(t)'
    BY <1>1, <1>5, <2>1, FileTypes DEF StoreInv
  <2>3. CountersStep
    BY <1>2, <1>7 DEF StoreInv, TypeOK, CountersStep
  <2> QED BY <1>5, <1>6, <2>1, <2>2, <2>3, RowsKept, MessagesGrow, MovesKeep
<1>8. CASE faults < MaxFaults /\ faults' = faults + 1 /\ UNCHANGED files
  <2>1. CountersStep /\ faults' # 0
    BY <1>2, <1>8, ThreadStoreAssumption DEF StoreInv, TypeOK, CountersStep
  <2> QED BY <1>5, <1>6, <1>8, <2>1, RowsKept, MessagesKept, MovesKeep
<1> QED BY <1>1, <1>7, <1>8 DEF WriteSqlite

\* The number goes to a thread whose own file, if it is a chat, has the message.
LEMMA CommitPostgresKeeps ==
    ASSUME StoreInv, NEW h \in Handlers, CommitPostgres(h)
    PROVE  StoreInv'
<1> DEFINE t == handlers[h].thread
           n == handlers[h].n
<1>1. t \in Threads /\ n \in Nat /\ Written(h, t)
  BY HandlerTypes DEF CommitPostgres, At, Written
<1>2. postgres \in [Threads -> SUBSET Nat] /\ FilesAre /\ rows \subseteq Threads
  BY DEF StoreInv, TypeOK, FilesAre
<1>3. UNCHANGED <<created, rows, meta, files, asked>> /\ Moves(h)
  BY EndStep DEF CommitPostgres
<1>4. FilesAre' /\ \A q : Numbers(q)' = Numbers(q)
  BY <1>2, <1>3 DEF FilesAre, Numbers, Contents, Opened
<1>5. CASE t \in rows /\ UNCHANGED faults /\ postgres' = [postgres EXCEPT ![t] = @ \cup {n}]
  <2>1. postgres' \in [Threads -> SUBSET Nat]
    BY <1>1, <1>2, <1>5
  <2>2. postgres'[t] = postgres[t] \cup {n} /\ \A u \in Threads \ {t} : postgres'[u] = postgres[u]
    BY <1>1, <1>2, <1>5
  <2>3. faults' = 0 /\ meta[t].slug = NoSlug => n \in Numbers(t)
    BY <1>1, <1>5 DEF StoreInv, ChatsComplete, ChatIsComplete
  <2>4. MessagesStep
    BY <1>4, <1>5, <2>1, <2>2, <2>3 DEF MessagesStep
  <2> QED BY <1>3, <1>5, <2>4, RowsKept, CountersKept, MovesKeep
<1>6. CASE UNCHANGED <<postgres, faults>>
  BY <1>3, <1>6, RowsKept, MessagesKept, CountersKept, MovesKeep
<1>7. CASE UNCHANGED postgres /\ faults < MaxFaults /\ faults' = faults + 1
  BY <1>3, <1>7, RowsKept, MessagesKept, FaultCounted, MovesKeep
<1> QED BY <1>5, <1>6, <1>7 DEF CommitPostgres

LEMMA GiveUpKeeps ==
    ASSUME StoreInv, NEW h \in Handlers, GiveUp(h)
    PROVE  StoreInv'
BY RowsKept, MessagesKept, CountersKept, EndStep, MovesKeep DEF GiveUp, Stores

LEMMA ConsultKeeps ==
    ASSUME StoreInv, NEW h \in Handlers, NEW t \in Threads, NEW anchor \in Nat,
           Consult(h, t, anchor)
    PROVE  StoreInv'
<1>1. CASE files' = Touched(Path(t)) /\ UNCHANGED handlers
  <2>1. MessagesStep
    BY <1>1, FileTypes, TouchedStep DEF StoreInv, Consult
  <2>2. End(h)
    BY <1>1 DEF StoreInv, TypeOK, Consult, End
  <2> QED BY <2>1, <2>2, RowsKept, CountersKept, EndStep, MovesKeep DEF Consult
<1>2. CASE handlers' = [handlers EXCEPT ![h] = Serving("opinion", t, "thinking", NoSlug, anchor)]
           /\ UNCHANGED files
  <2>1. "opinion" \in Ops /\ t \in created'
    BY DEF Ops, Consult
  <2>2. Moves(h)
    BY <1>2, <2>1, ServingStep
  <2> QED BY <1>2, <2>2, RowsKept, MessagesKept, CountersKept, MovesKeep DEF Consult
<1> QED BY <1>1, <1>2 DEF Consult

LEMMA WriteOpinionKeeps ==
    ASSUME StoreInv, NEW h \in Handlers, WriteOpinion(h)
    PROVE  StoreInv'
<1> DEFINE t == handlers[h].thread
<1>1. t \in Threads /\ handlers[h].n \in Nat /\ Path(t) \in Paths
  BY HandlerTypes, FileTypes DEF WriteOpinion, At, StoreInv
<1>2. UNCHANGED <<created, rows, postgres, meta, faults>> /\ Moves(h)
  BY EndStep DEF WriteOpinion
<1>3. CASE files' = Appended(Path(t), asked + 1, t, handlers[h].n) /\ asked' = asked + 1
  <2>1. asked + 1 \in Nat /\ CountersStep
    BY <1>2, <1>3, ThreadStoreAssumption DEF StoreInv, TypeOK, WriteOpinion, CountersStep
  <2>2. FilesAre' /\ \A q \in Paths : Numbers(q) \subseteq Numbers(q)'
    BY <1>1, <1>3, <2>1, AppendedAdds DEF StoreInv
  <2> QED BY <1>2, <2>1, <2>2, RowsKept, MessagesGrow, MovesKeep
<1>4. CASE files' = Touched(Path(t)) /\ UNCHANGED asked
  BY <1>1, <1>2, <1>4, RowsKept, TouchedStep, CountersKept, MovesKeep
<1> QED BY <1>3, <1>4 DEF WriteOpinion

\* A chat that becomes a project is a chat no more; without its metadata a store failed.
LEMMA PromoteKeeps ==
    ASSUME StoreInv, NEW h \in Handlers, Promote(h)
    PROVE  StoreInv'
<1> DEFINE t == handlers[h].thread
           s == handlers[h].slug
<1>1. t \in Threads /\ s \in Slugs
  BY HandlerTypes DEF Promote, At
<1>2. UNCHANGED <<created, rows, postgres, asked>> /\ Moves(h)
  BY EndStep DEF Promote
<1>3. CASE UNCHANGED <<files, meta, faults>>
  BY <1>2, <1>3, RowsKept, MessagesKept, CountersKept, MovesKeep
<1>4. CASE /\ SlugIsFree(s) /\ files' = Moved(t, s)
           /\ \/ meta' = Upsert(t, "project_setup", s) /\ UNCHANGED faults
              \/ faults < MaxFaults /\ faults' = faults + 1 /\ UNCHANGED meta
  <2>1. FilesAre' /\ \A u \in Threads \ {t} : Numbers(u)' = Numbers(u)
    BY <1>1, <1>4, MovedKeeps, FileTypes DEF StoreInv, Paths, Numbers
  <2>2. CASE meta' = Upsert(t, "project_setup", s) /\ UNCHANGED faults
    <3>1. RowsStep /\ meta'[t].slug # NoSlug
      BY <1>1, <1>2, <1>4, <2>2, UpsertStep, UpsertKeeps, FileTypes DEF StoreInv
    <3>2. MessagesStep
      BY <1>2, <2>1, <3>1, HandlerTypes DEF StoreInv, TypeOK, MessagesStep
    <3> QED BY <1>2, <2>2, <3>1, <3>2, CountersKept, MovesKeep
  <2>3. CASE faults < MaxFaults /\ faults' = faults + 1 /\ UNCHANGED meta
    <3>1. CountersStep /\ faults' # 0
      BY <1>2, <2>3, FaultCounted
    <3>2. MessagesStep
      BY <1>2, <2>1, <3>1 DEF StoreInv, TypeOK, MessagesStep
    <3> QED BY <1>2, <2>3, <3>1, <3>2, RowsKept, MovesKeep
  <2> QED BY <1>4, <2>2, <2>3
<1> QED BY <1>3, <1>4 DEF Promote

LEMMA NoteSlugKeeps ==
    ASSUME StoreInv, NEW h \in Handlers, NoteSlug(h)
    PROVE  StoreInv'
<1> DEFINE slug == meta[handlers[h].thread].slug
<1>1. /\ handlers[h] \in Handler /\ handlers[h].op = "delete"
      /\ handlers[h].thread \in created /\ slug \in Slugs \cup {NoSlug}
  BY HandlerTypes DEF NoteSlug, At, StoreInv, TypeOK, Meta
<1>2. [handlers[h] EXCEPT !.stage = "resolved", !.slug = slug] \in Handler
  BY <1>1, Zenon DEF Handler, Stages
<1>3. PICK r \in Handler : r = [handlers[h] EXCEPT !.stage = "resolved", !.slug = slug]
  BY <1>2
<1>4. handlers' = [handlers EXCEPT ![h] = r] /\ UNCHANGED <<Stores, asked, faults>>
  BY <1>3 DEF NoteSlug
<1>5. r.stage = "resolved" /\ r.op = "delete" /\ r.thread \in created'
  BY <1>1, <1>3, <1>4 DEF Handler, Stores
<1>6. Moves(h)
  BY <1>4, <1>5 DEF Moves, HandlerStep
<1> QED BY <1>4, <1>6, RowsKept, MessagesKept, CountersKept, MovesKeep DEF Stores

LEMMA DeleteRowKeeps ==
    ASSUME StoreInv, NEW h \in Handlers, DeleteRow(h)
    PROVE  StoreInv'
<1>1. PICK t \in Threads : t = handlers[h].thread
  BY HandlerTypes DEF DeleteRow, At
<1>2. /\ rows' = rows \ {t} /\ postgres' = [postgres EXCEPT ![t] = {}]
      /\ UNCHANGED <<created, meta, files, asked, faults>>
  BY <1>1 DEF DeleteRow
<1>3. Moves(h)
  <2>1. CASE End(h)
    BY <2>1, EndStep
  <2>2. CASE Goto(h, "purging")
    <3>1. "purging" \in Stages /\ handlers[h].op = "delete"
      BY DEF Stages, DeleteRow, At
    <3>2. PICK r \in Handler :
              /\ handlers' = [handlers EXCEPT ![h] = r]
              /\ r.stage = "purging" /\ r.op = "delete" /\ r.thread = t
      BY <1>1, <2>2, <3>1, GotoMoves
    <3>3. HandlerStep(h, r)
      BY <1>1, <1>2, <3>2, HandlerTypes DEF HandlerStep, DeleteRow, At
    <3> QED BY <3>3 DEF Moves
  <2> QED BY <2>1, <2>2 DEF DeleteRow
<1>4. postgres \in [Threads -> SUBSET Nat] /\ FilesAre
  BY DEF StoreInv, TypeOK, FilesAre
<1>5. /\ postgres' \in [Threads -> SUBSET Nat] /\ postgres'[t] = {}
      /\ \A u \in Threads \ {t} : postgres'[u] = postgres[u]
  BY <1>2, <1>4
<1>6. FilesAre' /\ \A q : Numbers(q)' = Numbers(q)
  BY <1>2, <1>4 DEF FilesAre, Numbers, Contents, Opened
<1>7. MessagesStep
  BY <1>5, <1>6 DEF MessagesStep
<1>8. RowsStep
  BY <1>2, HandlerTypes DEF StoreInv, TypeOK, RowsStep
<1> QED BY <1>2, <1>3, <1>7, <1>8, CountersKept, MovesKeep

\* The files that are removed are those of a thread without a row and of projects.
LEMMA PurgeKeeps ==
    ASSUME StoreInv, NEW h \in Handlers, Purge(h)
    PROVE  StoreInv'
<1> DEFINE t == handlers[h].thread
           s == handlers[h].slug
<1>1. t \in Threads /\ t \notin rows /\ s \in Slugs \cup {NoSlug}
  BY HandlerTypes DEF Purge, At, StoreInv, PurgedAreGone
<1>2. UNCHANGED <<created, rows, postgres, asked>> /\ Moves(h)
  BY EndStep DEF Purge
<1>3. FilesAre' /\ \A u \in Threads \ {t} : Contents(u)' = Contents(u)
  <2>1. CASE files' = Purged(t, s)
    BY <1>1, <2>1, PurgedKeeps, FileTypes, ThreadStoreAssumption DEF StoreInv, Paths
  <2>2. CASE files' = Purged(t, NoSlug)
    BY <1>1, <2>2, PurgedKeeps, FileTypes, ThreadStoreAssumption DEF StoreInv, Paths
  <2>3. CASE UNCHANGED files
    BY <2>3 DEF StoreInv, TypeOK, FilesAre, Contents, Opened
  <2> QED BY <2>1, <2>2, <2>3 DEF Purge
<1>4. \A u \in rows : Numbers(u)' = Numbers(u)
  BY <1>1, <1>3, HandlerTypes DEF Numbers
<1>5. MessagesStep
  BY <1>2, <1>3, <1>4 DEF StoreInv, TypeOK, MessagesStep
<1>6. CASE meta' = [meta EXCEPT ![t] = Unknown] /\ UNCHANGED faults
  <2>1. meta \in [Threads -> Meta] /\ Unknown \in Meta
    BY DEF StoreInv, TypeOK, Meta, Unknown
  <2>2. meta' \in [Threads -> Meta] /\ \A u \in Threads \ {t} : meta'[u] = meta[u]
    BY <1>6, <2>1
  <2>3. RowsStep
    BY <1>1, <1>2, <2>2, HandlerTypes DEF RowsStep
  <2> QED BY <1>2, <1>5, <1>6, <2>3, CountersKept, MovesKeep
<1>7. CASE faults < MaxFaults /\ faults' = faults + 1 /\ UNCHANGED meta
  BY <1>2, <1>5, <1>7, RowsKept, FaultCounted, MovesKeep
<1> QED BY <1>6, <1>7 DEF Purge

LEMMA CrashKeeps ==
    ASSUME StoreInv, Crash
    PROVE  StoreInv'
<1>1. /\ UNCHANGED <<created, rows, postgres, meta, files, asked>>
      /\ handlers' = [k \in Handlers |-> Idle]
  BY DEF Crash, Stores
<1>2. faults' \in 0 .. MaxFaults /\ faults' # 0
  BY ThreadStoreAssumption DEF StoreInv, TypeOK, Crash
<1>3. Idle \in Handler /\ Idle.stage = "idle" /\ Idle.op = "none"
  BY DEF Idle, Serving, Handler, Ops, Stages
<1>4. handlers' \in [Handlers -> Handler] /\ \A k \in Handlers : handlers'[k] = Idle
  BY <1>1, <1>3
<1>5. TypeOK'
  BY <1>1, <1>2, <1>4 DEF StoreInv, TypeOK
<1>6. HandlersKnow' /\ PurgedAreGone'
  BY <1>3, <1>4 DEF HandlersKnow, PurgedAreGone
<1>7. FutureIsEmpty'
  BY <1>1 DEF StoreInv, FutureIsEmpty
<1>8. ChatsComplete'
  BY <1>2 DEF ChatsComplete
<1> QED BY <1>5, <1>6, <1>7, <1>8 DEF StoreInv

LEMMA InitStore ==
    ASSUME Init
    PROVE  StoreInv
<1>1. /\ handlers \in [Handlers -> Handler]
      /\ \A h \in Handlers : handlers[h].stage = "idle" /\ handlers[h].op = "none"
  <2>1. Idle \in Handler /\ Idle.stage = "idle" /\ Idle.op = "none"
    BY DEF Idle, Serving, Handler, Ops, Stages
  <2> QED BY <2>1 DEF Init
<1>2. /\ created \in SUBSET Threads /\ rows \in SUBSET created
      /\ postgres \in [Threads -> SUBSET Nat]
      /\ meta \in [Threads -> Meta] /\ asked \in 0 .. MaxMessages /\ faults \in 0 .. MaxFaults
  BY ThreadStoreAssumption DEF Init, Meta, Unknown
<1>3. /\ files \in [Paths -> Seq(Message) \cup {NoFile}]
      /\ \A t \in Earlier : files[t] \in Seq(Message) /\ 0 \in {m.n : m \in ToSet(files[t])}
  <2> DEFINE first(t) == <<[n |-> 0, thread |-> t, anchor |-> 0]>>
  <2>1. ASSUME NEW t \in Threads
        PROVE  first(t) \in Seq(Message) /\ 0 \in {m.n : m \in ToSet(first(t))}
    <3>1. [n |-> 0, thread |-> t, anchor |-> 0] \in Message
      BY DEF Message
    <3> QED BY <3>1 DEF ToSet
  <2>2. files = [p \in Paths |-> IF p \in Earlier THEN first(p) ELSE NoFile]
    BY DEF Init
  <2> HIDE DEF first
  <2> QED BY <2>1, <2>2, ThreadStoreAssumption DEF Paths
<1>4. HandlersKnow /\ PurgedAreGone
  BY <1>1 DEF HandlersKnow, PurgedAreGone
<1>5. FutureIsEmpty
  BY DEF Init, FutureIsEmpty
<1>6. ChatsComplete
  <2>1. \A t \in Earlier : 0 \in Numbers(t)
    BY <1>3, NoFileAssumption DEF Numbers, Contents, Opened
  <2> QED BY <1>1, <2>1, ThreadStoreAssumption
          DEF Init, ChatsComplete, ChatIsComplete, Written, At
<1> QED BY <1>1, <1>2, <1>3, <1>4, <1>5, <1>6 DEF StoreInv, TypeOK

LEMMA NextKeeps ==
    ASSUME StoreInv, [Next]_vars
    PROVE  StoreInv'
<1>1. CASE UNCHANGED vars
  BY <1>1 DEF vars, StoreInv, TypeOK, HandlersKnow, PurgedAreGone, FutureIsEmpty, ChatsComplete,
              ChatIsComplete, Written, At, Numbers, Contents, Opened
<1>2. CASE Crash
  BY <1>2, CrashKeeps
<1>3. ASSUME NEW h \in Handlers, Arrive(h)
      PROVE  StoreInv'
  <2>1. asked \in Nat
    BY DEF StoreInv, TypeOK
  <2> QED BY <1>3, <2>1, InsertThreadKeeps, FindThreadKeeps, ConsultKeeps DEF Arrive
<1>4. ASSUME NEW h \in Handlers, Work(h)
      PROVE  StoreInv'
  BY <1>4, DescribeThreadKeeps, DescribeWorkspaceKeeps, OpenKeeps, ResolveKeeps, ReadHistoryKeeps, WriteSqliteKeeps,
     CommitPostgresKeeps, GiveUpKeeps, WriteOpinionKeeps, PromoteKeeps, NoteSlugKeeps,
     DeleteRowKeeps, PurgeKeeps
     DEF Work
<1> QED BY <1>1, <1>2, <1>3, <1>4 DEF Next

-----------------------------------------------------------------------------
(***************************************************************************)
(* What becomes of a message.                                              *)
(***************************************************************************)
\* What a file showed, some file shows.
Kept == \A p \in Paths : \A m \in Contents(p) : \E q \in Paths : m \in Contents(q)'

LEMMA WritesKeep ==
    ASSUME StoreInv
    PROVE  /\ UNCHANGED files => Kept
           /\ \A p \in Paths : files' = Touched(p) => Kept
           /\ \A p \in Paths, n \in Nat, t \in Threads, anchor \in Nat :
                  files' = Appended(p, n, t, anchor) => Kept
           /\ \A t \in Threads, s \in Slugs : SlugIsFree(s) /\ files' = Moved(t, s) => Kept
<1>1. UNCHANGED files => Kept
  BY DEF Kept, Contents, Opened
<1>2. ASSUME NEW p \in Paths, files' = Touched(p) PROVE Kept
  BY <1>2, TouchedKeeps DEF StoreInv, Kept
<1>3. ASSUME NEW p \in Paths, NEW n \in Nat, NEW t \in Threads, NEW anchor \in Nat,
             files' = Appended(p, n, t, anchor)
      PROVE  Kept
  BY <1>3, AppendedAdds DEF StoreInv, Kept
<1>4. ASSUME NEW t \in Threads, NEW s \in Slugs, SlugIsFree(s), files' = Moved(t, s) PROVE Kept
  BY <1>4, MovedKeeps DEF StoreInv, Kept, Paths
<1> QED BY <1>1, <1>2, <1>3, <1>4

LEMMA StepsKeep ==
    ASSUME StoreInv, Next
    PROVE  Kept \/ \E h \in Handlers : Purge(h)
<1>1. CASE Crash
  BY <1>1, WritesKeep DEF Crash, Stores
<1>2. ASSUME NEW h \in Handlers, Arrive(h)
      PROVE  Kept
  BY <1>2, WritesKeep, FileTypes DEF Arrive, InsertThread, FindThread, Consult, Stores, StoreInv
<1>3. ASSUME NEW h \in Handlers, Work(h), ~Purge(h)
      PROVE  Kept
  <2> DEFINE t == handlers[h].thread
  <2>1. handlers[h].stage # "idle" => t \in Threads /\ Path(t) \in Paths
    BY HandlerTypes, FileTypes DEF StoreInv
  <2>2. handlers[h].n \in Nat /\ asked + 1 \in Nat
    BY HandlerTypes DEF StoreInv, TypeOK
  <2>3. CASE Open(h) \/ ReadHistory(h)
    BY <2>1, <2>3, WritesKeep DEF Open, ReadHistory, At
  <2>4. CASE WriteSqlite(h)
    <3>1. t \in Threads /\ Path(t) \in Paths
      BY <2>1, <2>4 DEF WriteSqlite, At
    <3> QED BY <2>2, <2>4, <3>1, WritesKeep DEF WriteSqlite
  <2>5. CASE WriteOpinion(h)
    <3>1. t \in Threads /\ Path(t) \in Paths
      BY <2>1, <2>5 DEF WriteOpinion, At
    <3> QED BY <2>2, <2>5, <3>1, WritesKeep DEF WriteOpinion
  <2>6. CASE Promote(h)
    <3>1. t \in Threads /\ handlers[h].slug \in Slugs
      BY <2>1, <2>6, HandlerTypes DEF Promote, At
    <3> QED BY <2>6, <3>1, WritesKeep DEF Promote
  <2> QED BY <1>3, <2>3, <2>4, <2>5, <2>6, WritesKeep
          DEF Work, DescribeThread, DescribeWorkspace, Resolve, CommitPostgres, GiveUp, NoteSlug,
              DeleteRow, Stores
<1> QED BY <1>1, <1>2, <1>3 DEF Next

LEMMA PurgeTakes ==
    ASSUME StoreInv, NEW h \in Handlers, Purge(h), NEW p \in Paths
    PROVE  \/ Contents(p)' = Contents(p)
           \/ /\ At(h, "delete", "purging") /\ handlers'[h] = Idle
              /\ p \in {handlers[h].slug, Path(handlers[h].thread)}
<1>1. handlers[h].thread \in Threads /\ p # NoSlug
  BY HandlerTypes, ThreadStoreAssumption DEF Purge, At, Paths
<1>2. At(h, "delete", "purging") /\ handlers'[h] = Idle
  BY DEF Purge, End, StoreInv, TypeOK
<1>3. CASE files' = Purged(handlers[h].thread, handlers[h].slug)
  BY <1>1, <1>2, <1>3, PurgedKeeps DEF StoreInv
<1>4. CASE files' = Purged(handlers[h].thread, NoSlug)
  BY <1>1, <1>2, <1>4, PurgedKeeps DEF StoreInv
<1>5. CASE UNCHANGED files
  BY <1>5 DEF Contents, Opened
<1> QED BY <1>3, <1>4, <1>5 DEF Purge

-----------------------------------------------------------------------------
(***************************************************************************)
(* The order a file is shown in.  The recursion goes from a message to     *)
(* later ones only, so there is a function that satisfies it, and what is  *)
(* read from a message on is known when it is known of the later ones.     *)
(***************************************************************************)
\* A set of natural numbers below a bound has a least and a greatest element.
LEMMA ExtremesExist ==
    ASSUME NEW n \in Nat, NEW S \in SUBSET (1..n), S # {}
    PROVE  /\ \E m \in S : \A k \in S : m <= k
           /\ \E m \in S : \A k \in S : k <= m
<1> DEFINE R == StrictSubsetOrdering(S)
<1>1. IsFiniteSet(S) /\ S \subseteq Int
  <2>1. IsFiniteSet(1..n) /\ 1..n \subseteq Int
    <3>1. 1 \in Int /\ n \in Int
      OBVIOUS
    <3>2. IsFiniteSet(1..n)
      BY <3>1, FS_Interval, Zenon
    <3> QED BY <3>2
  <2> QED BY <2>1, FS_Subset, Zenon
<1>2. IsWellFoundedOn(R, FiniteSubsetsOf(S)) /\ FiniteSubsetsOf(S) = SUBSET S
  BY <1>1, FS_StrictSubsetOrderingWellFounded, FS_FiniteSubsetsOfFinite
<1>3. ASSUME NEW T \in SUBSET SUBSET S, T # {}
      PROVE  \E U \in T : \A V \in T : <<V, U>> \notin R
  <2> HIDE DEF R
  <2> QED BY <1>2, <1>3, WFMin
<1>4. \E m \in S : \A k \in S : m <= k
  <2> DEFINE below(i) == {j \in S : j < i}
             T == {below(i) : i \in S}
  <2>0. T \in SUBSET SUBSET S /\ T # {}
    OBVIOUS
  <2>1. PICK U \in T : \A V \in T : <<V, U>> \notin R
    <3> HIDE DEF T, R
    <3> QED BY <1>3, <2>0
  <2>2. PICK m \in S : U = below(m)
    OBVIOUS
  <2>3. ASSUME NEW k \in S, k < m PROVE FALSE
    <3>0. \A i, j \in S : i \in Int /\ (k < m /\ j < k => j < m) /\ ~ (k < k)
      BY <1>1, <2>3
    <3>1. below(k) \subseteq below(m) /\ k \in below(m) /\ k \notin below(k)
      BY <2>3, <3>0
    <3>2. <<below(k), below(m)>> \in R
      BY <3>1 DEF StrictSubsetOrdering
    <3> QED BY <2>1, <2>2, <3>2
  <2> QED BY <1>1, <2>3
<1>5. \E m \in S : \A k \in S : k <= m
  <2> DEFINE above(i) == {j \in S : j > i}
             T == {above(i) : i \in S}
  <2>0. T \in SUBSET SUBSET S /\ T # {}
    OBVIOUS
  <2>1. PICK U \in T : \A V \in T : <<V, U>> \notin R
    <3> HIDE DEF T, R
    <3> QED BY <1>3, <2>0
  <2>2. PICK m \in S : U = above(m)
    OBVIOUS
  <2>3. ASSUME NEW k \in S, k > m PROVE FALSE
    <3>0. \A i, j \in S : i \in Int /\ (k > m /\ j > k => j > m) /\ ~ (k > k)
      BY <1>1, <2>3
    <3>1. above(k) \subseteq above(m) /\ k \in above(m) /\ k \notin above(k)
      BY <2>3, <3>0
    <3>2. <<above(k), above(m)>> \in R
      BY <3>1 DEF StrictSubsetOrdering
    <3> QED BY <2>1, <2>2, <3>2
  <2> QED BY <1>1, <2>3
<1> QED BY <1>4, <1>5

\* What holds of a place when it holds of the later ones holds of all.
LEMMA FromTheEnd ==
    ASSUME NEW n \in Nat, NEW Good,
           \A k \in 1..n : (\A j \in k + 1 .. n : j \in Good) => k \in Good
    PROVE  1..n \subseteq Good
<1> DEFINE bad == {k \in 1..n : k \notin Good}
<1> SUFFICES ASSUME bad # {} PROVE FALSE
  OBVIOUS
<1>1. PICK m \in bad : \A k \in bad : k <= m
  <2>1. bad \in SUBSET (1..n)
    OBVIOUS
  <2> HIDE DEF bad
  <2> QED BY <2>1, ExtremesExist
<1>2. \A j \in m + 1 .. n : j \in Good
  BY <1>1
<1> QED BY <1>1, <1>2

\* Every message is older than those below it.
Anchored(file) == \A k \in DOMAIN file : file[k].anchor < k

\* The first of some messages is one of them, or the end of the file if there is none.
LEMMA FirstIs ==
    ASSUME NEW file \in Seq(Message), NEW set \in SUBSET DOMAIN file
    PROVE  /\ FirstOf(set, file) \in 1..Len(file) + 1
           /\ FirstOf(set, file) # Len(file) + 1 => FirstOf(set, file) \in set
           /\ \A k \in set : FirstOf(set, file) <= k /\ FirstOf(set, file) # Len(file) + 1
<1> DEFINE n == Len(file)
           all == set \cup {n + 1}
<1>1. n \in Nat /\ DOMAIN file = 1..n /\ all \in SUBSET (1..n + 1) /\ all # {}
  OBVIOUS
<1>2. \E m \in all : \A k \in all : m <= k
  <2> DEFINE bound == n + 1
  <2>1. bound \in Nat /\ all \in SUBSET (1..bound) /\ all # {}
    BY <1>1
  <2> HIDE DEF all, bound
  <2> QED BY <2>1, ExtremesExist
<1>3. FirstOf(set, file) \in all /\ \A k \in all : FirstOf(set, file) <= k
  BY <1>2, Zenon DEF FirstOf, Min
<1> QED BY <1>1, <1>3

\* What walk goes on with lies later in the file.
LEMMA StepsAre ==
    ASSUME NEW file \in Seq(Message), Anchored(file)
    PROVE  /\ \A i \in 0..Len(file) :
                 /\ FirstBelow(i, file) \in i + 1 .. Len(file) + 1
                 /\ FirstBelow(i, file) # Len(file) + 1 => file[FirstBelow(i, file)].anchor = i
                 /\ \A k \in DOMAIN file : file[k].anchor = i => k >= FirstBelow(i, file)
           /\ \A i \in 1..Len(file) :
                 /\ NextTo(i, file) \in i + 1 .. Len(file) + 1
                 /\ NextTo(i, file) # Len(file) + 1 => file[NextTo(i, file)].anchor = file[i].anchor
                 /\ \A k \in DOMAIN file : k > i /\ file[k].anchor = file[i].anchor => k >= NextTo(i, file)
<1>0. /\ Len(file) \in Nat /\ DOMAIN file = 1..Len(file)
      /\ \A k \in DOMAIN file : file[k].anchor \in Nat /\ file[k].anchor < k
  <2>1. Len(file) \in Nat /\ DOMAIN file = 1..Len(file)
    OBVIOUS
  <2>2. \A k \in DOMAIN file : file[k] \in Message
    OBVIOUS
  <2>3. \A m \in Message : m.anchor \in Nat
    BY DEF Message
  <2> QED BY <2>1, <2>2, <2>3 DEF Anchored
<1>1. ASSUME NEW i \in 0..Len(file)
      PROVE  /\ FirstBelow(i, file) \in i + 1 .. Len(file) + 1
             /\ FirstBelow(i, file) # Len(file) + 1 => file[FirstBelow(i, file)].anchor = i
             /\ \A k \in DOMAIN file : file[k].anchor = i => k >= FirstBelow(i, file)
  <2> DEFINE set == {k \in DOMAIN file : file[k].anchor = i}
             f == FirstOf(set, file)
  <2>1. set \in SUBSET DOMAIN file
    OBVIOUS
  <2>2. f \in 1..Len(file) + 1 /\ (f # Len(file) + 1 => f \in set) /\ \A k \in set : f <= k
    <3> HIDE DEF set
    <3> QED BY <2>1, FirstIs
  <2> HIDE DEF f
  <2>3. f \in i + 1 .. Len(file) + 1
    BY <1>0, <2>2
  <2> QED BY <2>2, <2>3 DEF f, FirstBelow
<1>2. ASSUME NEW i \in 1..Len(file)
      PROVE  /\ NextTo(i, file) \in i + 1 .. Len(file) + 1
             /\ NextTo(i, file) # Len(file) + 1 => file[NextTo(i, file)].anchor = file[i].anchor
             /\ \A k \in DOMAIN file : k > i /\ file[k].anchor = file[i].anchor => k >= NextTo(i, file)
  <2> DEFINE set == {k \in DOMAIN file : k > i /\ file[k].anchor = file[i].anchor}
             f == FirstOf(set, file)
  <2>1. set \in SUBSET DOMAIN file
    OBVIOUS
  <2>2. f \in 1..Len(file) + 1 /\ (f # Len(file) + 1 => f \in set) /\ \A k \in set : f <= k
    <3> HIDE DEF set
    <3> QED BY <2>1, FirstIs
  <2> HIDE DEF f
  <2>3. f \in i + 1 .. Len(file) + 1
    BY <1>0, <2>2
  <2> QED BY <2>2, <2>3 DEF f, NextTo
<1> QED BY <1>1, <1>2

\* The function that Reading defines by recursion.
Walk(file) ==
    CHOOSE walk : walk = [i \in 1..Len(file) + 1 |->
        IF i = Len(file) + 1 THEN <<>>
        ELSE <<i>> \o walk[FirstBelow(i, file)] \o walk[NextTo(i, file)]]

\* ... and Reading is what it gives for the first turn.
LEMMA ReadingIsWalk ==
    ASSUME NEW file
    PROVE  Reading(file) = Walk(file)[FirstBelow(0, file)]
BY Zenon DEF Reading, Walk

\* It exists, and computes what its definition says.
LEMMA WalkComputes ==
    ASSUME NEW file \in Seq(Message), Anchored(file)
    PROVE  \A i \in 1..Len(file) + 1 :
               Walk(file)[i] = IF i = Len(file) + 1 THEN <<>>
                   ELSE <<i>> \o Walk(file)[FirstBelow(i, file)] \o Walk(file)[NextTo(i, file)]
<1> DEFINE n == Len(file) + 1
           F(i) == FirstBelow(i, file)
           X(i) == NextTo(i, file)
           Computes(f, k) ==
               f = [i \in k..n |-> IF i = n THEN <<>> ELSE <<i>> \o f[F(i)] \o f[X(i)]]
           Good == {k \in 1..n : \E f : Computes(f, k)}
<1>1. n \in Nat /\ \A i \in 1..n : i # n => F(i) \in i + 1 .. n /\ X(i) \in i + 1 .. n
  BY StepsAre
<1> HIDE DEF n, F, X
<1>2. ASSUME NEW k \in 1..n, \A j \in k + 1 .. n : j \in Good
      PROVE  k \in Good
  <2>1. PICK g : k # n => \A i \in k + 1 .. n :
                    g[i] = IF i = n THEN <<>> ELSE <<i>> \o g[F(i)] \o g[X(i)]
    <3>1. CASE k # n
      <4>1. k + 1 \in k + 1 .. n
        BY <1>1, <3>1
      <4>2. PICK g : Computes(g, k + 1)
        BY <1>2, <4>1
      <4>3. \A i \in k + 1 .. n : g[i] = IF i = n THEN <<>> ELSE <<i>> \o g[F(i)] \o g[X(i)]
        BY <4>2
      <4> QED BY <4>3
    <3>2. CASE k = n
      BY <3>2
    <3> QED BY <3>1, <3>2
  <2> DEFINE f == [i \in k..n |-> IF i = k
                      THEN IF k = n THEN <<>> ELSE <<k>> \o g[F(k)] \o g[X(k)]
                      ELSE g[i]]
  <2>2. ASSUME NEW i \in k..n
        PROVE  f[i] = IF i = n THEN <<>> ELSE <<i>> \o f[F(i)] \o f[X(i)]
    <3>1. CASE i = n
      <4>1. CASE k = n
        BY <3>1, <4>1
      <4>2. CASE k # n
        <5>1. n \in k + 1 .. n
          BY <1>1, <4>2
        <5>2. g[n] = <<>>
          BY <2>1, <4>2, <5>1
        <5> QED BY <3>1, <4>2, <5>2
      <4> QED BY <4>1, <4>2
    <3>2. CASE i # n
      <4>1. k # n /\ i \in 1..n /\ F(i) \in i + 1 .. n /\ X(i) \in i + 1 .. n
        BY <1>1, <3>2
      <4>2. F(i) \in k..n /\ X(i) \in k..n /\ F(i) # k /\ X(i) # k
        BY <1>1, <4>1
      <4>3. f[F(i)] = g[F(i)] /\ f[X(i)] = g[X(i)]
        BY <4>2
      <4>4. CASE i = k
        BY <3>2, <4>3, <4>4
      <4>5. CASE i # k
        <5>1. i \in k + 1 .. n
          BY <1>1, <4>1, <4>5
        <5>2. g[i] = <<i>> \o g[F(i)] \o g[X(i)]
          BY <2>1, <3>2, <4>1, <5>1
        <5> QED BY <3>2, <4>3, <4>5, <5>2
      <4> QED BY <4>4, <4>5
    <3> QED BY <3>1, <3>2
  <2>3. f = [i \in k..n |-> f[i]]
    OBVIOUS
  <2> HIDE DEF f
  <2> DEFINE h == [i \in k..n |-> IF i = n THEN <<>> ELSE <<i>> \o f[F(i)] \o f[X(i)]]
  <2>4. \A i \in k..n : f[i] = h[i]
    BY <2>2
  <2>5. h = [i \in k..n |-> h[i]]
    OBVIOUS
  <2> HIDE DEF h
  <2>6. f = h
    BY <2>3, <2>4, <2>5, Zenon
  <2>7. Computes(f, k)
    BY <2>6 DEF h
  <2> QED BY <2>7
<1>3. 1..n \subseteq Good
  <2> HIDE DEF Good
  <2> QED BY <1>1, <1>2, FromTheEnd
<1>4. 1 \in 1..n
  BY <1>1 DEF n
<1>5. PICK f : f = [i \in 1..n |-> IF i = n THEN <<>> ELSE <<i>> \o f[F(i)] \o f[X(i)]]
  BY <1>3, <1>4
<1>6. Walk(file) = [i \in 1..n |->
            IF i = n THEN <<>> ELSE <<i>> \o Walk(file)[F(i)] \o Walk(file)[X(i)]]
  BY <1>5, Zenon DEF Walk, n, F, X
<1>7. \A i \in 1..n : Walk(file)[i] =
            IF i = n THEN <<>> ELSE <<i>> \o Walk(file)[F(i)] \o Walk(file)[X(i)]
  BY <1>6
<1> QED BY <1>7 DEF n, F, X

\* The sequence reads, from message number from on, what is below anchor a and all that
\* is below that.
Walked(s, from, a, file) ==
    /\ s \in Seq(1..Len(file))
    /\ \A i, j \in 1..Len(s) : s[i] = s[j] => i = j
    /\ \A x \in ToSet(s) : x >= from
    /\ \A x \in 1..Len(file) :
           x \in ToSet(s) <=> (x >= from /\ file[x].anchor = a) \/ file[x].anchor \in ToSet(s)
    /\ \A i \in 1..Len(s) : file[s[i]].anchor # a =>
           \E j \in 1..i - 1 : /\ s[j] = file[s[i]].anchor
                               /\ \A l \in j + 1 .. i : file[s[l]].anchor # a
    /\ \A i, j \in 1..Len(s) : i < j /\ file[s[i]].anchor = file[s[j]].anchor => s[i] < s[j]

\* A sequence over a set, by its elements.
LEMMA Elements ==
    ASSUME NEW S, NEW s \in Seq(S)
    PROVE  /\ Len(s) \in Nat /\ \A i \in 1..Len(s) : s[i] \in ToSet(s) /\ s[i] \in S
           /\ \A x \in ToSet(s) : x \in S /\ \E i \in 1..Len(s) : s[i] = x
<1>1. Len(s) \in Nat /\ DOMAIN s = 1..Len(s) /\ \A i \in 1..Len(s) : s[i] \in S
  OBVIOUS
<1>2. \A i \in DOMAIN s : s[i] \in ToSet(s)
  BY Zenon DEF ToSet
<1>3. \A x \in ToSet(s) : \E i \in DOMAIN s : s[i] = x
  BY Zenon DEF ToSet
<1> QED BY <1>1, <1>2, <1>3

\* A sequence and another after it.
LEMMA Concat ==
    ASSUME NEW S, NEW r \in Seq(S), NEW u \in Seq(S)
    PROVE  /\ r \o u \in Seq(S) /\ Len(r \o u) = Len(r) + Len(u)
           /\ \A i \in 1..Len(r) : (r \o u)[i] = r[i]
           /\ \A i \in 1..Len(u) : (r \o u)[Len(r) + i] = u[i]
<1> DEFINE s == r \o u
<1>1. s \in Seq(S) /\ Len(s) = Len(r) + Len(u)
  OBVIOUS
<1>2. \A i \in 1..Len(r) : s[i] = r[i]
  OBVIOUS
<1>3. \A i \in 1..Len(u) : s[Len(r) + i] = u[i]
  OBVIOUS
<1> QED BY <1>1, <1>2, <1>3

\* Where the parts of a joined sequence are.
LEMMA Joined ==
    ASSUME NEW S, NEW k \in S, NEW t \in Seq(S), NEW u \in Seq(S)
    PROVE  /\ <<k>> \o t \o u \in Seq(S)
           /\ Len(<<k>> \o t \o u) = 1 + Len(t) + Len(u) /\ (<<k>> \o t \o u)[1] = k
           /\ \A i \in 1..Len(t) : (<<k>> \o t \o u)[1 + i] = t[i]
           /\ \A i \in 1..Len(u) : (<<k>> \o t \o u)[1 + Len(t) + i] = u[i]
           /\ ToSet(<<k>> \o t \o u) = {k} \cup ToSet(t) \cup ToSet(u)
<1> DEFINE one == <<k>>
           s == <<k>> \o t \o u
<1>0. t \in Seq(S) /\ u \in Seq(S) /\ one \in Seq(S) /\ Len(one) = 1 /\ one[1] = k
  OBVIOUS
<1> HIDE DEF one
<1>1. PICK r : r = one \o t
  OBVIOUS
<1>2. /\ r \in Seq(S) /\ Len(t) \in Nat /\ Len(u) \in Nat
      /\ Len(r) = 1 + Len(t) /\ r[1] = k /\ \A i \in 1..Len(t) : r[1 + i] = t[i]
  <2>1. /\ r \in Seq(S) /\ Len(r) = Len(one) + Len(t)
        /\ \A i \in 1..Len(one) : r[i] = one[i]
        /\ \A i \in 1..Len(t) : r[Len(one) + i] = t[i]
    <3>1. t \in Seq(S) /\ one \in Seq(S)
      BY <1>0
    <3> DEFINE both == one \o t
    <3>2. /\ both \in Seq(S) /\ Len(both) = Len(one) + Len(t)
          /\ \A i \in 1..Len(one) : both[i] = one[i]
          /\ \A i \in 1..Len(t) : both[Len(one) + i] = t[i]
      BY <3>1, Concat
    <3>3. r = both
      BY <1>1
    <3> HIDE DEF both
    <3> QED BY <3>2, <3>3
  <2>2. Len(t) \in Nat /\ Len(u) \in Nat
    BY <1>0
  <2> QED BY <1>0, <2>1, <2>2
<1>3. s = r \o u
  BY <1>1, Zenon DEF one
<1> HIDE DEF s
<1>4. /\ s \in Seq(S) /\ Len(s) = Len(r) + Len(u)
      /\ \A i \in 1..Len(r) : s[i] = r[i]
      /\ \A i \in 1..Len(u) : s[Len(r) + i] = u[i]
  <2>1. r \in Seq(S) /\ u \in Seq(S)
    BY <1>0, <1>2
  <2> DEFINE both == r \o u
  <2>2. /\ both \in Seq(S) /\ Len(both) = Len(r) + Len(u)
        /\ \A i \in 1..Len(r) : both[i] = r[i]
        /\ \A i \in 1..Len(u) : both[Len(r) + i] = u[i]
    BY <2>1, Concat
  <2>3. s = both
    BY <1>3
  <2> HIDE DEF both
  <2> QED BY <2>2, <2>3
<1>5. s[1] = k /\ \A i \in 1..Len(t) : s[1 + i] = t[i]
  BY <1>2, <1>4
<1>6. \A i \in 1..Len(u) : s[1 + Len(t) + i] = u[i]
  BY <1>2, <1>4
<1>7. Len(s) = 1 + Len(t) + Len(u)
  BY <1>2, <1>4
<1>8. ASSUME NEW x \in ToSet(s) PROVE x \in {k} \cup ToSet(t) \cup ToSet(u)
  <2>1. PICK i \in 1..Len(s) : s[i] = x
    BY <1>4, Elements
  <2>2. CASE i = 1
    BY <1>5, <2>1, <2>2
  <2>3. CASE i \in 2 .. 1 + Len(t)
    <3>1. i - 1 \in 1..Len(t) /\ s[i] = t[i - 1]
      BY <1>2, <1>5, <2>3
    <3> QED BY <2>1, <3>1, Elements
  <2>4. CASE i \in 2 + Len(t) .. Len(s)
    <3>1. i - 1 - Len(t) \in 1..Len(u) /\ i = 1 + Len(t) + (i - 1 - Len(t))
      BY <1>2, <1>7, <2>4
    <3>2. s[i] = u[i - 1 - Len(t)]
      BY <1>6, <3>1
    <3> QED BY <2>1, <3>1, <3>2, Elements
  <2> QED BY <1>2, <1>7, <2>2, <2>3, <2>4
<1>9. ASSUME NEW x \in {k} \cup ToSet(t) \cup ToSet(u) PROVE x \in ToSet(s)
  <2>0. \A i \in 1..Len(s) : s[i] \in ToSet(s)
    BY <1>4, Elements
  <2>1. CASE x = k
    <3>1. 1 \in 1..Len(s) /\ s[1] = x
      BY <1>2, <1>5, <1>7, <2>1
    <3> QED BY <2>0, <3>1
  <2>2. CASE x \in ToSet(t)
    <3>1. PICK i \in 1..Len(t) : t[i] = x
      BY <2>2, Elements
    <3>2. 1 + i \in 1..Len(s) /\ s[1 + i] = x
      BY <1>2, <1>5, <1>7, <3>1
    <3> QED BY <2>0, <3>2
  <2>3. CASE x \in ToSet(u)
    <3>1. PICK i \in 1..Len(u) : u[i] = x
      BY <2>3, Elements
    <3>2. 1 + Len(t) + i \in 1..Len(s) /\ s[1 + Len(t) + i] = x
      BY <1>2, <1>6, <1>7, <3>1
    <3> QED BY <2>0, <3>2
  <2> QED BY <2>1, <2>2, <2>3
<1>10. ToSet(s) = {k} \cup ToSet(t) \cup ToSet(u)
  BY <1>8, <1>9
<1> QED BY <1>4, <1>5, <1>6, <1>7, <1>10, Zenon DEF s

\* A place of a joined sequence is in one of its parts.
LEMMA Places ==
    ASSUME NEW m \in Nat, NEW n \in Nat, NEW i \in 1 .. 1 + m + n
    PROVE  \/ i = 1
           \/ \E j \in 1..m : i = 1 + j
           \/ \E j \in 1..n : i = 1 + m + j
<1>1. CASE i = 1
  BY <1>1
<1>2. CASE i > 1 /\ i <= 1 + m
  <2>1. i - 1 \in 1..m /\ i = 1 + (i - 1)
    BY <1>2
  <2> QED BY <2>1
<1>3. CASE i > 1 + m
  <2>1. i - 1 - m \in 1..n /\ i = 1 + m + (i - 1 - m)
    BY <1>3
  <2> QED BY <2>1
<1> QED BY <1>1, <1>2, <1>3

\* A message, what is below it and what is next to it, walked.
LEMMA WalkOn ==
    ASSUME NEW file \in Seq(Message), Anchored(file), NEW k \in 1..Len(file),
           NEW t, Walked(t, FirstBelow(k, file), k, file),
           NEW u, Walked(u, NextTo(k, file), file[k].anchor, file),
           NEW s, s = <<k>> \o t \o u
    PROVE  Walked(s, k, file[k].anchor, file)
<1> DEFINE n == Len(file)
           anc == [x \in 1..n |-> file[x].anchor]
           a == anc[k]
           f == FirstBelow(k, file)
           x2 == NextTo(k, file)
<1>0. \A x \in 1..n : file[x].anchor = anc[x]
  OBVIOUS
<1>1. n \in Nat /\ \A x \in 1..n : anc[x] \in Nat /\ anc[x] < x
  <2>1. n \in Nat /\ DOMAIN file = 1..n /\ \A x \in 1..n : file[x] \in Message
    OBVIOUS
  <2>2. \A m \in Message : m.anchor \in Nat
    BY DEF Message
  <2> QED BY <2>1, <2>2 DEF Anchored
<1>2. /\ f \in Nat /\ x2 \in Nat /\ f > k /\ x2 > k
      /\ \A y \in 1..n : anc[y] = k => y >= f
      /\ \A y \in 1..n : y > k /\ anc[y] = a => y >= x2
  <2>1. k \in 0..n /\ k \in 1..n /\ DOMAIN file = 1..n
    OBVIOUS
  <2>2. f \in k + 1 .. n + 1 /\ \A y \in 1..n : anc[y] = k => y >= f
    <3>1. f \in k + 1 .. n + 1 /\ \A y \in DOMAIN file : file[y].anchor = k => y >= f
      BY <2>1, StepsAre
    <3> QED BY <1>0, <2>1, <3>1
  <2>3. x2 \in k + 1 .. n + 1 /\ \A y \in 1..n : y > k /\ anc[y] = a => y >= x2
    <3>1. /\ x2 \in k + 1 .. n + 1
          /\ \A y \in DOMAIN file : y > k /\ file[y].anchor = file[k].anchor => y >= x2
      BY <2>1, StepsAre
    <3> QED BY <1>0, <2>1, <3>1
  <2>4. f \in Nat /\ f > k
    <3> HIDE DEF f
    <3> QED BY <2>1, <2>2
  <2>5. x2 \in Nat /\ x2 > k
    <3> HIDE DEF x2
    <3> QED BY <2>1, <2>3
  <2> HIDE DEF f, x2, anc, a, n
  <2> QED BY <2>2, <2>3, <2>4, <2>5
<1>32. file[k].anchor = a /\ k \in 1..n
  OBVIOUS
<1> HIDE DEF n, anc, f, x2
<1>3. /\ t \in Seq(1..n) /\ \A i, j \in 1..Len(t) : t[i] = t[j] => i = j
      /\ \A x \in ToSet(t) : x >= f
      /\ \A x \in 1..n : x \in ToSet(t) <=> (x >= f /\ anc[x] = k) \/ anc[x] \in ToSet(t)
  BY <1>0 DEF Walked, n, f
<1>4. /\ u \in Seq(1..n) /\ \A i, j \in 1..Len(u) : u[i] = u[j] => i = j
      /\ \A x \in ToSet(u) : x >= x2
      /\ \A x \in 1..n : x \in ToSet(u) <=> (x >= x2 /\ anc[x] = a) \/ anc[x] \in ToSet(u)
  <2>1. Walked(u, x2, a, file)
    BY <1>32 DEF x2
  <2> HIDE DEF a
  <2> QED BY <1>0, <2>1 DEF Walked, n
<1>5. k \in 1..n /\ a \in Nat /\ a < k
  BY <1>1, <1>32
<1>6. /\ s \in Seq(1..n) /\ Len(s) = 1 + Len(t) + Len(u) /\ s[1] = k
      /\ \A i \in 1..Len(t) : s[1 + i] = t[i]
      /\ \A i \in 1..Len(u) : s[1 + Len(t) + i] = u[i]
      /\ ToSet(s) = {k} \cup ToSet(t) \cup ToSet(u)
  <2>1. n \in Nat /\ k \in 1..n /\ t \in Seq(1..n) /\ u \in Seq(1..n)
    BY <1>1, <1>3, <1>4, <1>5
  <2> DEFINE all == <<k>> \o t \o u
             S == 1..n
  <2>2. k \in S /\ t \in Seq(S) /\ u \in Seq(S)
    BY <2>1
  <2> HIDE DEF S
  <2>3. /\ all \in Seq(S) /\ Len(all) = 1 + Len(t) + Len(u) /\ all[1] = k
        /\ \A i \in 1..Len(t) : all[1 + i] = t[i]
        /\ \A i \in 1..Len(u) : all[1 + Len(t) + i] = u[i]
        /\ ToSet(all) = {k} \cup ToSet(t) \cup ToSet(u)
    BY <2>2, Joined
  <2>4. s = all
    OBVIOUS
  <2> HIDE DEF all
  <2>5. s \in Seq(1..n)
    BY <2>3, <2>4, Zenon DEF S
  <2> QED BY <2>3, <2>4, <2>5
<1>7. /\ Len(t) \in Nat /\ Len(u) \in Nat
      /\ \A i \in 1..Len(t) : t[i] \in ToSet(t) /\ t[i] \in 1..n
      /\ \A i \in 1..Len(u) : u[i] \in ToSet(u) /\ u[i] \in 1..n
      /\ ToSet(t) \subseteq 1..n /\ ToSet(u) \subseteq 1..n
  BY <1>1, <1>3, <1>4, Elements
<1>8. /\ \A i \in 1..Len(t) : file[t[i]].anchor = anc[t[i]]
      /\ \A i \in 1..Len(u) : file[u[i]].anchor = anc[u[i]]
      /\ file[k].anchor = a
  BY <1>0, <1>5, <1>7
<1>9. k \notin ToSet(t) /\ k \notin ToSet(u)
  BY <1>2, <1>3, <1>4, <1>5
<1>10. ASSUME NEW x \in ToSet(t) PROVE anc[x] # a /\ (anc[x] = k \/ anc[x] \in ToSet(t))
  <2>1. x \in 1..n /\ (anc[x] = k \/ anc[x] \in ToSet(t))
    BY <1>3, <1>7
  <2>2. anc[x] \in ToSet(t) => anc[x] >= f
    BY <1>3
  <2> QED BY <1>1, <1>2, <1>5, <2>1, <2>2
<1>11. ASSUME NEW x \in ToSet(u) PROVE anc[x] = a \/ anc[x] \in ToSet(u)
  BY <1>4, <1>7
<1>12. ToSet(t) \cap ToSet(u) = {}
  <2> DEFINE both == ToSet(t) \cap ToSet(u)
  <2> SUFFICES ASSUME both # {} PROVE FALSE
    OBVIOUS
  <2>1. PICK x \in both : \A y \in both : x <= y
    <3>1. both \in SUBSET (1..n)
      BY <1>7
    <3> HIDE DEF both
    <3> QED BY <1>1, <3>1, ExtremesExist
  <2>2. x \in 1..n /\ anc[x] < x /\ anc[x] \in Nat
    BY <1>1, <1>7
  <2>3. anc[x] \in both
    BY <1>9, <1>10, <1>11
  <2> QED BY <2>1, <2>2, <2>3
<1> DEFINE T == ToSet(t)
           U == ToSet(u)
           p == Len(t)
           q == Len(u)
<1>13. /\ p \in Nat /\ q \in Nat /\ Len(s) = 1 + p + q
       /\ s[1] = k /\ \A i \in 1..p : s[1 + i] = t[i] /\ t[i] \in T /\ t[i] \in 1..n
       /\ \A i \in 1..q : s[1 + p + i] = u[i] /\ u[i] \in U /\ u[i] \in 1..n
  BY <1>6, <1>7
<1>14. \A i \in 1..Len(s) : i = 1 \/ (\E j \in 1..p : i = 1 + j) \/ \E j \in 1..q : i = 1 + p + j
  <2> HIDE DEF p, q
  <2> QED BY <1>13, Places
<1>15. \A i, j \in 1..Len(s) : s[i] = s[j] => i = j
  <2>1. /\ \A i, j \in 1..p : t[i] = t[j] => i = j
        /\ \A i, j \in 1..q : u[i] = u[j] => i = j
    BY <1>3, <1>4
  <2> HIDE DEF T, U, p, q
  <2>2. T \cap U = {} /\ k \notin T /\ k \notin U
    BY <1>9, <1>12 DEF T, U
  <2> SUFFICES ASSUME NEW i \in 1..Len(s), NEW j \in 1..Len(s), s[i] = s[j] PROVE i = j
    OBVIOUS
  <2>3. CASE i = 1
    <3>1. ASSUME NEW h \in 1..p, j = 1 + h PROVE FALSE
      BY <1>13, <2>2, <2>3, <3>1
    <3>2. ASSUME NEW h \in 1..q, j = 1 + p + h PROVE FALSE
      <4>1. s[j] = u[h] /\ u[h] \in U /\ s[j] = k
        BY <1>13, <2>3, <3>2
      <4> QED BY <2>2, <4>1
    <3> QED BY <1>14, <2>3, <3>1, <3>2
  <2>4. ASSUME NEW g \in 1..p, i = 1 + g PROVE i = j
    <3>0. s[i] = t[g] /\ t[g] \in T
      BY <1>13, <2>4
    <3>1. ASSUME NEW h \in 1..p, j = 1 + h PROVE i = j
      <4>1. s[j] = t[h]
        BY <1>13, <3>1
      <4> QED BY <2>1, <2>4, <3>0, <3>1, <4>1
    <3>2. ASSUME NEW h \in 1..q, j = 1 + p + h PROVE FALSE
      BY <1>13, <2>2, <3>0, <3>2
    <3>3. j # 1
      BY <1>13, <2>2, <3>0
    <3> QED BY <1>14, <3>1, <3>2, <3>3
  <2>5. ASSUME NEW g \in 1..q, i = 1 + p + g PROVE i = j
    <3>0. s[i] = u[g] /\ u[g] \in U
      BY <1>13, <2>5
    <3>1. ASSUME NEW h \in 1..q, j = 1 + p + h PROVE i = j
      <4>1. s[j] = u[h]
        BY <1>13, <3>1
      <4> QED BY <2>1, <2>5, <3>0, <3>1, <4>1
    <3>2. ASSUME NEW h \in 1..p, j = 1 + h PROVE FALSE
      BY <1>13, <2>2, <3>0, <3>2
    <3>3. j # 1
      BY <1>13, <2>2, <3>0
    <3> QED BY <1>14, <3>1, <3>2, <3>3
  <2> QED BY <1>14, <2>3, <2>4, <2>5
<1>16. \A x \in ToSet(s) : x >= k
  <2> SUFFICES ASSUME NEW x \in ToSet(s) PROVE x >= k
    OBVIOUS
  <2>1. CASE x = k
    BY <1>5, <2>1
  <2>2. CASE x \in ToSet(t)
    <3>1. x >= f /\ x \in 1..n
      BY <1>3, <1>7, <2>2
    <3> QED BY <1>2, <1>5, <3>1
  <2>3. CASE x \in ToSet(u)
    <3>1. x >= x2 /\ x \in 1..n
      BY <1>4, <1>7, <2>3
    <3> QED BY <1>2, <1>5, <3>1
  <2> QED BY <1>6, <2>1, <2>2, <2>3
<1>17. ASSUME NEW x \in 1..n
       PROVE  x \in ToSet(s) <=> (x >= k /\ anc[x] = a) \/ anc[x] \in ToSet(s)
  <2>1. x \in T <=> (x >= f /\ anc[x] = k) \/ anc[x] \in T
    BY <1>3
  <2>2. x \in U <=> (x >= x2 /\ anc[x] = a) \/ anc[x] \in U
    BY <1>4
  <2>3. ToSet(s) = {k} \cup T \cup U
    BY <1>6
  <2> HIDE DEF T, U
  <2> QED BY <1>2, <1>5, <2>1, <2>2, <2>3
<1>18. \A i \in 1..p : anc[t[i]] # k =>
           \E j \in 1..i - 1 : t[j] = anc[t[i]] /\ \A l \in j + 1 .. i : anc[t[l]] # k
  <2> SUFFICES ASSUME NEW i \in 1..p, anc[t[i]] # k
               PROVE  \E j \in 1..i - 1 : t[j] = anc[t[i]] /\ \A l \in j + 1 .. i : anc[t[l]] # k
    OBVIOUS
  <2>1. PICK j \in 1..i - 1 : t[j] = file[t[i]].anchor /\ \A l \in j + 1 .. i : file[t[l]].anchor # k
    BY <1>8 DEF Walked
  <2>2. \A l \in j + 1 .. i : l \in 1..p
    BY <1>7
  <2> QED BY <1>8, <2>1, <2>2
<1>19. \A i \in 1..q : anc[u[i]] # a =>
           \E j \in 1..i - 1 : u[j] = anc[u[i]] /\ \A l \in j + 1 .. i : anc[u[l]] # a
  <2> SUFFICES ASSUME NEW i \in 1..q, anc[u[i]] # a
               PROVE  \E j \in 1..i - 1 : u[j] = anc[u[i]] /\ \A l \in j + 1 .. i : anc[u[l]] # a
    OBVIOUS
  <2> HIDE DEF a
  <2>1. PICK j \in 1..i - 1 : u[j] = file[u[i]].anchor /\ \A l \in j + 1 .. i : file[u[l]].anchor # a
    <3>1. file[u[i]].anchor # file[k].anchor
      BY <1>8, <1>32
    <3>2. PICK j \in 1..i - 1 : /\ u[j] = file[u[i]].anchor
                                /\ \A l \in j + 1 .. i : file[u[l]].anchor # file[k].anchor
      BY <3>1 DEF Walked
    <3> QED BY <1>32, <3>2, Zenon
  <2>2. \A l \in j + 1 .. i : l \in 1..q
    BY <1>7
  <2> QED BY <1>8, <2>1, <2>2
<1>20. /\ \A i, j \in 1..p : i < j /\ anc[t[i]] = anc[t[j]] => t[i] < t[j]
       /\ \A i, j \in 1..q : i < j /\ anc[u[i]] = anc[u[j]] => u[i] < u[j]
  BY <1>8 DEF Walked
<1>21. \A i \in 1..p : anc[t[i]] # a /\ (anc[t[i]] = k \/ anc[t[i]] \in T)
  BY <1>10, <1>13
<1>22. \A i \in 1..q : anc[u[i]] = a \/ anc[u[i]] \in U
  BY <1>11, <1>13
<1>23. T \cap U = {} /\ k \notin T /\ k \notin U
  BY <1>9, <1>12
<1>24. \A x \in ToSet(s) : x \in 1..n
  BY <1>6, <1>7, <1>5
<1> HIDE DEF T, U, p, q
<1>25. ASSUME NEW i \in 1..Len(s), anc[s[i]] # a
       PROVE  \E j \in 1..i - 1 : s[j] = anc[s[i]] /\ \A l \in j + 1 .. i : anc[s[l]] # a
  <2>1. CASE i = 1
    BY <1>13, <1>25, <2>1
  <2>2. ASSUME NEW j \in 1..p, i = 1 + j
        PROVE  \E h \in 1..i - 1 : s[h] = anc[s[i]] /\ \A l \in h + 1 .. i : anc[s[l]] # a
    <3>1. \A l \in 2..i : anc[s[l]] # a
      <4> SUFFICES ASSUME NEW l \in 2..i PROVE anc[s[l]] # a
        OBVIOUS
      <4>1. l - 1 \in 1..p /\ l = 1 + (l - 1)
        BY <1>13, <2>2
      <4>2. s[l] = t[l - 1]
        BY <1>13, <4>1
      <4> QED BY <1>21, <4>1, <4>2
    <3>2. s[i] = t[j]
      BY <1>13, <2>2
    <3>3. CASE anc[t[j]] = k
      <4>1. 1 \in 1..i - 1 /\ s[1] = anc[s[i]]
        BY <1>13, <2>2, <3>2, <3>3
      <4>2. \A l \in 1 + 1 .. i : anc[s[l]] # a
        BY <3>1
      <4> QED BY <4>1, <4>2, Zenon
    <3>4. CASE anc[t[j]] # k
      <4>1. PICK h \in 1..j - 1 : t[h] = anc[t[j]]
        BY <1>18, <3>4
      <4>2. h \in 1..p /\ 1 + h \in 1..i - 1
        BY <1>13, <2>2
      <4>3. s[1 + h] = anc[s[i]]
        BY <1>13, <3>2, <4>1, <4>2
      <4>4. PICK g \in 1..i - 1 : g = 1 + h
        BY <4>2
      <4>5. \A l \in g + 1 .. i : anc[s[l]] # a
        <5>1. \A l \in g + 1 .. i : l \in 2..i
          BY <4>2, <4>4
        <5> QED BY <3>1, <5>1
      <4> QED BY <4>3, <4>4, <4>5
    <3> QED BY <3>3, <3>4
  <2>3. ASSUME NEW j \in 1..q, i = 1 + p + j
        PROVE  \E h \in 1..i - 1 : s[h] = anc[s[i]] /\ \A l \in h + 1 .. i : anc[s[l]] # a
    <3>1. s[i] = u[j] /\ anc[u[j]] # a
      BY <1>13, <1>25, <2>3
    <3>2. PICK h \in 1..j - 1 : u[h] = anc[u[j]] /\ \A l \in h + 1 .. j : anc[u[l]] # a
      BY <1>19, <3>1
    <3>3. h \in 1..q /\ 1 + p + h \in 1..i - 1
      BY <1>13, <2>3
    <3>4. s[1 + p + h] = anc[s[i]]
      BY <1>13, <3>1, <3>2, <3>3
    <3>5. ASSUME NEW l \in (1 + p + h) + 1 .. i PROVE anc[s[l]] # a
      <4>1. l - 1 - p \in h + 1 .. j /\ l - 1 - p \in 1..q /\ l = 1 + p + (l - 1 - p)
        BY <1>13, <2>3, <3>3
      <4>2. s[l] = u[l - 1 - p]
        BY <1>13, <4>1
      <4> QED BY <3>2, <4>1, <4>2
    <3>6. PICK g \in 1..i - 1 : g = 1 + p + h
      BY <3>3
    <3>7. \A l \in g + 1 .. i : anc[s[l]] # a
      BY <3>5, <3>6
    <3> QED BY <3>4, <3>6, <3>7
  <2> QED BY <1>14, <2>1, <2>2, <2>3
<1>26. ASSUME NEW i \in 1..Len(s), NEW j \in 1..Len(s), i < j, anc[s[i]] = anc[s[j]]
       PROVE  s[i] < s[j]
  <2>1. CASE i = 1
    <3>1. s[j] \in ToSet(s) /\ s[j] \in 1..n
      BY <1>1, <1>6, Elements
    <3>2. s[j] >= k /\ s[j] # s[1]
      BY <1>15, <1>16, <1>13, <1>26, <2>1, <3>1
    <3> QED BY <1>5, <1>13, <2>1, <3>1, <3>2
  <2>2. ASSUME NEW g \in 1..p, i = 1 + g PROVE s[i] < s[j]
    <3>1. s[i] = t[g]
      BY <1>13, <2>2
    <3>2. ASSUME NEW h \in 1..p, j = 1 + h PROVE s[i] < s[j]
      <4>1. s[j] = t[h] /\ g < h
        BY <1>13, <1>26, <2>2, <3>2
      <4> QED BY <1>20, <1>26, <3>1, <4>1
    <3>3. ASSUME NEW h \in 1..q, j = 1 + p + h PROVE FALSE
      <4>1. s[j] = u[h]
        BY <1>13, <3>3
      <4> QED BY <1>21, <1>22, <1>23, <1>26, <3>1, <4>1
    <3> QED BY <1>13, <1>14, <1>26, <2>2, <3>2, <3>3
  <2>3. ASSUME NEW g \in 1..q, i = 1 + p + g PROVE s[i] < s[j]
    <3>1. PICK h \in 1..q : j = 1 + p + h
      BY <1>13, <1>14, <1>26, <2>3
    <3>2. s[i] = u[g] /\ s[j] = u[h] /\ g < h
      <4>1. s[i] = u[g] /\ s[j] = u[h]
        BY <1>13, <2>3, <3>1
      <4>2. g < h
        BY <1>13, <1>26, <2>3, <3>1
      <4> QED BY <4>1, <4>2
    <3> QED BY <1>20, <1>26, <3>2
  <2> QED BY <1>14, <2>1, <2>2, <2>3
<1>27. \A i \in 1..Len(s) : file[s[i]].anchor = anc[s[i]]
  BY <1>0, <1>1, <1>6, Elements
<1>28. \A i \in 1..Len(s) : file[s[i]].anchor # a =>
           \E j \in 1..i - 1 : /\ s[j] = file[s[i]].anchor
                               /\ \A l \in j + 1 .. i : file[s[l]].anchor # a
  <2> SUFFICES ASSUME NEW i \in 1..Len(s), file[s[i]].anchor # a
               PROVE  \E j \in 1..i - 1 : /\ s[j] = file[s[i]].anchor
                               /\ \A l \in j + 1 .. i : file[s[l]].anchor # a
    OBVIOUS
  <2>1. PICK j \in 1..i - 1 : s[j] = anc[s[i]] /\ \A l \in j + 1 .. i : anc[s[l]] # a
    BY <1>25, <1>27
  <2>2. \A l \in j + 1 .. i : l \in 1..Len(s)
    BY <1>13
  <2> QED BY <1>27, <2>1, <2>2
<1>29. \A i, j \in 1..Len(s) : i < j /\ file[s[i]].anchor = file[s[j]].anchor => s[i] < s[j]
  <2> SUFFICES ASSUME NEW i \in 1..Len(s), NEW j \in 1..Len(s),
                      i < j, file[s[i]].anchor = file[s[j]].anchor
               PROVE  s[i] < s[j]
    OBVIOUS
  <2>1. anc[s[i]] = anc[s[j]]
    BY <1>27
  <2> QED BY <1>26, <2>1
<1>30. \A x \in 1..n :
           x \in ToSet(s) <=> (x >= k /\ file[x].anchor = a) \/ file[x].anchor \in ToSet(s)
  BY <1>0, <1>17
<1>31. Walked(s, k, a, file)
  <2> HIDE DEF a
  <2> QED BY <1>6, <1>15, <1>16, <1>28, <1>29, <1>30 DEF Walked, n
<1> QED BY <1>32, <1>31

\* What walk reads from a message on, and that it reads nothing at the end.
LEMMA Walks ==
    ASSUME NEW file \in Seq(Message), Anchored(file)
    PROVE  /\ \A k \in 1..Len(file) : Walked(Walk(file)[k], k, file[k].anchor, file)
           /\ \A a \in Nat : Walked(Walk(file)[Len(file) + 1], Len(file) + 1, a, file)
<1> DEFINE n == Len(file)
           w == Walk(file)
           F(i) == FirstBelow(i, file)
           X(i) == NextTo(i, file)
           Good == {k \in 1..n : Walked(w[k], k, file[k].anchor, file)}
<1>1. n \in Nat /\ DOMAIN file = 1..n
  OBVIOUS
<1>2. /\ w[n + 1] = <<>>
      /\ \A k \in 1..n : w[k] = <<k>> \o w[F(k)] \o w[X(k)]
  <2>1. \A i \in 1..n + 1 : w[i] = IF i = n + 1 THEN <<>> ELSE <<i>> \o w[F(i)] \o w[X(i)]
    BY WalkComputes
  <2> HIDE DEF w, F, X, n
  <2>2. n + 1 \in 1..n + 1 /\ \A k \in 1..n : k \in 1..n + 1 /\ k # n + 1
    BY <1>1
  <2> QED BY <2>1, <2>2
<1>3. \A a \in Nat : Walked(w[n + 1], n + 1, a, file)
  <2> SUFFICES ASSUME NEW a \in Nat PROVE Walked(w[n + 1], n + 1, a, file)
    OBVIOUS
  <2> DEFINE s == w[n + 1]
  <2>1. s = <<>>
    BY <1>2
  <2> HIDE DEF s
  <2>2. s \in Seq(1..n) /\ Len(s) = 0 /\ ToSet(s) = {}
    BY <2>1 DEF ToSet
  <2>3. Walked(s, n + 1, a, file)
    BY <1>1, <2>2 DEF Walked
  <2> QED BY <2>3 DEF s
<1>4. ASSUME NEW k \in 1..n, \A j \in k + 1 .. n : j \in Good
      PROVE  k \in Good
  <2>1. /\ F(k) \in k + 1 .. n + 1 /\ (F(k) # n + 1 => file[F(k)].anchor = k)
        /\ X(k) \in k + 1 .. n + 1 /\ (X(k) # n + 1 => file[X(k)].anchor = file[k].anchor)
    <3>1. k \in 0..n
      OBVIOUS
    <3> QED BY <3>1, StepsAre
  <2>2. k \in Nat /\ file[k].anchor \in Nat
    <3>1. file[k] \in Message
      OBVIOUS
    <3> QED BY <1>1, <3>1 DEF Message
  <2> HIDE DEF w, F, X
  <2>3. Walked(w[F(k)], F(k), k, file)
    <3>1. CASE F(k) = n + 1
      BY <1>3, <2>2, <3>1
    <3>2. CASE F(k) # n + 1
      <4>1. F(k) \in Good
        BY <1>1, <1>4, <2>1, <3>2
      <4> QED BY <2>1, <3>2, <4>1
    <3> QED BY <3>1, <3>2
  <2>4. Walked(w[X(k)], X(k), file[k].anchor, file)
    <3>1. CASE X(k) = n + 1
      BY <1>3, <2>2, <3>1
    <3>2. CASE X(k) # n + 1
      <4>1. X(k) \in Good
        BY <1>1, <1>4, <2>1, <3>2
      <4> QED BY <2>1, <3>2, <4>1
    <3> QED BY <3>1, <3>2
  <2>5. w[k] = <<k>> \o w[F(k)] \o w[X(k)]
    BY <1>2
  <2>6. Walked(w[k], k, file[k].anchor, file)
    BY <2>3, <2>4, <2>5, WalkOn DEF F, X
  <2> QED BY <2>6
<1>5. 1..n \subseteq Good
  <2> HIDE DEF Good, n
  <2> QED BY <1>1, <1>4, FromTheEnd
<1> QED BY <1>3, <1>5

\* What is read from the first turn on.
LEMMA ReadingWalked ==
    ASSUME NEW file \in Seq(Message), Anchored(file)
    PROVE  Walked(Reading(file), FirstBelow(0, file), 0, file)
<1> DEFINE f == FirstBelow(0, file)
<1>1. /\ f \in 0 + 1 .. Len(file) + 1
      /\ f # Len(file) + 1 => file[f].anchor = 0
  <2>1. 0 \in 0..Len(file)
    OBVIOUS
  <2> QED BY <2>1, StepsAre
<1>2. Reading(file) = Walk(file)[f]
  BY ReadingIsWalk
<1>0. /\ \A k \in 1..Len(file) : Walked(Walk(file)[k], k, file[k].anchor, file)
      /\ \A a \in Nat : Walked(Walk(file)[Len(file) + 1], Len(file) + 1, a, file)
  BY Walks
<1> SUFFICES Walked(Reading(file), f, 0, file)
  OBVIOUS
<1> HIDE DEF f
<1>3. CASE f = Len(file) + 1
  <2>1. 0 \in Nat
    OBVIOUS
  <2>2. Walked(Walk(file)[Len(file) + 1], Len(file) + 1, 0, file)
    BY <1>0, <2>1
  <2> QED BY <1>2, <1>3, <2>2
<1>4. CASE f # Len(file) + 1
  <2>1. f \in 1..Len(file)
    BY <1>1, <1>4
  <2>2. Walked(Walk(file)[f], f, file[f].anchor, file) /\ file[f].anchor = 0
    BY <1>0, <1>1, <1>4, <2>1
  <2> QED BY <1>2, <2>2
<1> QED BY <1>3, <1>4

\* It is all of the file.
LEMMA ReadingIsWhole ==
    ASSUME NEW file \in Seq(Message), Anchored(file)
    PROVE  ToSet(Reading(file)) = 1..Len(file) /\ Len(Reading(file)) = Len(file)
<1> DEFINE n == Len(file)
           s == Reading(file)
           f == FirstBelow(0, file)
<1>1. n \in Nat /\ \A x \in 1..n : file[x].anchor \in Nat /\ file[x].anchor < x
  <2>1. n \in Nat /\ DOMAIN file = 1..n /\ \A x \in 1..n : file[x] \in Message
    OBVIOUS
  <2>2. \A m \in Message : m.anchor \in Nat
    BY DEF Message
  <2> QED BY <2>1, <2>2 DEF Anchored
<1>2. \A x \in 1..n : file[x].anchor = 0 => x >= f
  <2>1. 0 \in 0..Len(file) /\ DOMAIN file = 1..n
    OBVIOUS
  <2> QED BY <2>1, StepsAre
<1>3. /\ s \in Seq(1..n) /\ \A i, j \in 1..Len(s) : s[i] = s[j] => i = j
      /\ \A x \in 1..n : x \in ToSet(s) <=> (x >= f /\ file[x].anchor = 0) \/ file[x].anchor \in ToSet(s)
  BY ReadingWalked DEF Walked
<1> HIDE DEF n, s, f
<1>4. ToSet(s) = 1..n
  <2> DEFINE left == {x \in 1..n : x \notin ToSet(s)}
  <2>1. ASSUME left # {} PROVE FALSE
    <3>1. PICK x \in left : \A y \in left : x <= y
      <4>1. left \in SUBSET (1..n)
        OBVIOUS
      <4> HIDE DEF left
      <4> QED BY <1>1, <2>1, <4>1, ExtremesExist
    <3>2. file[x].anchor # 0
      BY <1>2, <1>3, <3>1
    <3>3. file[x].anchor \in 1..n /\ file[x].anchor < x /\ x \in Nat
      BY <1>1, <3>1, <3>2
    <3>4. file[x].anchor \notin left
      BY <3>1, <3>3
    <3> QED BY <1>3, <3>1, <3>3, <3>4
  <2>2. ToSet(s) \subseteq 1..n
    BY <1>3, Elements
  <2> QED BY <2>1, <2>2
<1>5. Len(s) = n
  <2> DEFINE A == 1..Len(s)
             B == 1..n
  <2>1. Len(s) \in Nat
    BY <1>3
  <2>2. s \in [A -> B]
    <3>1. s \in Seq(B)
      BY <1>3
    <3> HIDE DEF B
    <3> QED BY <3>1
  <2>3. \A y \in B : \E i \in A : s[i] = y
    <3>1. \A y \in ToSet(s) : \E i \in 1..Len(s) : s[i] = y
      BY <1>3, Elements
    <3> QED BY <1>4, <3>1
  <2>4. \A i, j \in A : s[i] = s[j] => i = j
    BY <1>3
  <2>5. /\ IsFiniteSet(A) /\ Cardinality(A) = Len(s)
        /\ IsFiniteSet(B) /\ Cardinality(B) = n
    <3>1. 1 \in Int /\ n \in Int /\ Len(s) \in Int
      BY <1>1, <2>1
    <3>2. /\ IsFiniteSet(A) /\ Cardinality(A) = IF 1 > Len(s) THEN 0 ELSE Len(s) - 1 + 1
          /\ IsFiniteSet(B) /\ Cardinality(B) = IF 1 > n THEN 0 ELSE n - 1 + 1
      BY <3>1, FS_Interval
    <3> QED BY <1>1, <2>1, <3>2
  <2> HIDE DEF A, B
  <2>6. s \in Bijection(A, B)
    BY <2>2, <2>3, <2>4 DEF Bijection, Injection, Surjection, IsInjective
  <2>7. ExistsBijection(A, B)
    BY <2>6 DEF ExistsBijection
  <2>8. Cardinality(A) = Cardinality(B)
    BY <2>5, <2>7, FS_Bijection
  <2> QED BY <2>5, <2>8
<1> QED BY <1>4, <1>5 DEF s, n

\* OrderIsAReading, of one file.
IsAReading(file) ==
    LET order == Reading(file)
        Place(k) == CHOOSE i \in DOMAIN order : order[i] = k
    IN  /\ Len(order) = Len(file) /\ ToSet(order) = DOMAIN file
        /\ \A k \in DOMAIN file : file[k].anchor # 0 =>
               /\ Place(file[k].anchor) < Place(k)
               /\ \A i \in Place(file[k].anchor) + 1 .. Place(k) : file[order[i]].anchor # 0
        /\ \A j, k \in DOMAIN file :
               file[j].anchor = file[k].anchor /\ j < k => Place(j) < Place(k)

\* The order of an anchored file is a reading of it.
LEMMA ReadingReads ==
    ASSUME NEW file \in Seq(Message), Anchored(file)
    PROVE  IsAReading(file)
<1> DEFINE n == Len(file)
           order == Reading(file)
           Place(k) == CHOOSE i \in DOMAIN order : order[i] = k
<1>1. /\ order \in Seq(1..n) /\ \A i, j \in 1..Len(order) : order[i] = order[j] => i = j
      /\ \A i \in 1..Len(order) : file[order[i]].anchor # 0 =>
           \E j \in 1..i - 1 : /\ order[j] = file[order[i]].anchor
                               /\ \A l \in j + 1 .. i : file[order[l]].anchor # 0
      /\ \A i, j \in 1..Len(order) :
             i < j /\ file[order[i]].anchor = file[order[j]].anchor => order[i] < order[j]
  BY ReadingWalked DEF Walked
<1>2. n \in Nat /\ Len(order) = n /\ ToSet(order) = 1..n /\ DOMAIN file = 1..n
  BY ReadingIsWhole
<1>3. DOMAIN order = 1..n
  <2> HIDE DEF order, n
  <2> QED BY <1>1, <1>2
<1>4. \A k \in 1..n : \E i \in 1..n : order[i] = k
  <2>1. \A x \in ToSet(order) : \E i \in 1..Len(order) : order[i] = x
    <3> HIDE DEF order, n
    <3> QED BY <1>1, Elements
  <2> QED BY <1>2, <2>1
<1>5. \A k \in 1..n : Place(k) \in 1..n /\ order[Place(k)] = k
  BY <1>3, <1>4
<1>6. \A i \in 1..n : Place(order[i]) = i
  <2> SUFFICES ASSUME NEW i \in 1..n PROVE Place(order[i]) = i
    OBVIOUS
  <2>1. order[i] \in 1..n
    <3> HIDE DEF order, n
    <3> QED BY <1>1, <1>2
  <2>2. Place(order[i]) \in 1..n /\ order[Place(order[i])] = order[i]
    BY <1>5, <2>1
  <2> HIDE DEF Place, order, n
  <2> QED BY <1>1, <1>2, <2>2
<1> HIDE DEF Place, order, n
<1>7. ASSUME NEW k \in 1..n, file[k].anchor # 0
      PROVE  /\ Place(file[k].anchor) < Place(k)
             /\ \A i \in Place(file[k].anchor) + 1 .. Place(k) : file[order[i]].anchor # 0
  <2>1. Place(k) \in 1..n /\ order[Place(k)] = k
    BY <1>5
  <2>2. PICK j \in 1..Place(k) - 1 : /\ order[j] = file[k].anchor
                                     /\ \A l \in j + 1 .. Place(k) : file[order[l]].anchor # 0
    BY <1>1, <1>2, <1>7, <2>1
  <2>3. j \in 1..n /\ j < Place(k)
    BY <1>2, <2>1
  <2>4. Place(file[k].anchor) = j
    BY <1>6, <2>2, <2>3
  <2> QED BY <2>2, <2>3, <2>4
<1>8. ASSUME NEW j \in 1..n, NEW k \in 1..n, file[j].anchor = file[k].anchor, j < k
      PROVE  Place(j) < Place(k)
  <2>1. /\ Place(j) \in 1..n /\ order[Place(j)] = j
        /\ Place(k) \in 1..n /\ order[Place(k)] = k
    BY <1>5
  <2>2. ~ (Place(k) < Place(j))
    <3> SUFFICES ASSUME Place(k) < Place(j) PROVE FALSE
      OBVIOUS
    <3>1. order[Place(k)] < order[Place(j)]
      BY <1>1, <1>2, <1>8, <2>1
    <3> QED BY <1>2, <1>8, <2>1, <3>1
  <2>3. Place(k) # Place(j)
    BY <1>2, <1>8, <2>1
  <2> QED BY <1>2, <2>1, <2>2, <2>3
<1>9. /\ Len(order) = Len(file) /\ ToSet(order) = DOMAIN file
      /\ \A k \in DOMAIN file : file[k].anchor # 0 =>
             /\ Place(file[k].anchor) < Place(k)
             /\ \A i \in Place(file[k].anchor) + 1 .. Place(k) : file[order[i]].anchor # 0
      /\ \A j, k \in DOMAIN file :
             file[j].anchor = file[k].anchor /\ j < k => Place(j) < Place(k)
  <2>1. Len(order) = Len(file) /\ ToSet(order) = DOMAIN file
    BY <1>2 DEF n
  <2> QED BY <1>2, <1>7, <1>8, <2>1, Zenon
<1> QED BY <1>9, Zenon DEF IsAReading, Place, order

-----------------------------------------------------------------------------
(***************************************************************************)
(* Every file is anchored, whatever the requests do to it.                 *)
(***************************************************************************)
\* Every file is older above than below.
FilesAnchored == \A p \in Paths : files[p] # NoFile => Anchored(files[p])

\* A file that is not there is read as an empty one.
LEMMA OpenedAnchored ==
    ASSUME TypeOK, FilesAnchored, NEW p \in Paths
    PROVE  Opened(p) \in Seq(Message) /\ Anchored(Opened(p))
<1>1. Anchored(<<>>)
  BY DEF Anchored
<1> QED BY <1>1, FileTypes DEF Opened, FilesAnchored

\* A message below one that the file has leaves the file anchored.
LEMMA AppendAnchored ==
    ASSUME NEW file \in Seq(Message), Anchored(file), NEW m \in Message, m.anchor <= Len(file)
    PROVE  Anchored(Append(file, m))
<1> DEFINE n == Len(file)
           a == Append(file, m)
<1>1. /\ n \in Nat /\ DOMAIN a = 1 .. n + 1 /\ DOMAIN file = 1..n
      /\ a[n + 1] = m /\ \A k \in 1..n : a[k] = file[k]
  OBVIOUS
<1>2. m.anchor \in Nat
  BY DEF Message
<1> HIDE DEF a
<1>3. ASSUME NEW k \in 1 .. n + 1 PROVE a[k].anchor < k
  <2>1. CASE k = n + 1
    BY <1>1, <1>2, <2>1
  <2>2. CASE k # n + 1
    <3>1. k \in 1..n
      BY <1>1, <2>2
    <3> QED BY <1>1, <3>1 DEF Anchored
  <2> QED BY <2>1, <2>2
<1> QED BY <1>1, <1>3 DEF Anchored, a

\* So does every way a request changes a file.
LEMMA WritesAnchor ==
    ASSUME TypeOK, FilesAnchored
    PROVE  /\ UNCHANGED files => FilesAnchored'
           /\ \A p \in Paths : files' = Touched(p) => FilesAnchored'
           /\ \A p \in Paths, n \in Nat, t \in Threads, anchor \in Nat :
                  anchor <= Len(Opened(p)) /\ files' = Appended(p, n, t, anchor) => FilesAnchored'
           /\ \A t \in Threads, s \in Slugs : files' = Moved(t, s) => FilesAnchored'
           /\ \A t \in Threads : \A s : files' = Purged(t, s) => FilesAnchored'
<1>0. files \in [Paths -> Seq(Message) \cup {NoFile}]
  BY DEF TypeOK
<1>1. UNCHANGED files => FilesAnchored'
  BY DEF FilesAnchored
<1>2. ASSUME NEW p \in Paths, files' = Touched(p) PROVE FilesAnchored'
  BY <1>0, <1>2, OpenedAnchored DEF Touched, FilesAnchored
<1>3. ASSUME NEW p \in Paths, NEW n \in Nat, NEW t \in Threads, NEW anchor \in Nat,
             anchor <= Len(Opened(p)), files' = Appended(p, n, t, anchor)
      PROVE  FilesAnchored'
  <2> DEFINE m == [n |-> n, thread |-> t, anchor |-> anchor]
             file == Append(Opened(p), m)
  <2>1. m \in Message /\ m.anchor = anchor
    BY DEF Message
  <2>2. files' = [files EXCEPT ![p] = file]
    BY <1>3 DEF Appended
  <2> HIDE DEF m
  <2>3. Anchored(file)
    BY <1>3, <2>1, OpenedAnchored, AppendAnchored
  <2> HIDE DEF file
  <2> QED BY <1>0, <2>2, <2>3 DEF FilesAnchored
<1>4. ASSUME NEW t \in Threads, NEW s \in Slugs, files' = Moved(t, s) PROVE FilesAnchored'
  <2>1. CASE files[t] = NoFile
    BY <1>4, <2>1 DEF Moved, FilesAnchored
  <2>2. CASE files[t] # NoFile
    <3>1. files' = [files EXCEPT ![s] = files[t], ![t] = NoFile]
      BY <1>4, <2>2 DEF Moved
    <3>2. s \in Paths /\ t \in Paths
      BY DEF Paths
    <3>3. files'[t] = NoFile /\ \A q \in Paths \ {t} : files'[q] = files[q] \/ files'[q] = files[t]
      BY <1>0, <3>1, <3>2
    <3> QED BY <3>2, <3>3 DEF FilesAnchored
  <2> QED BY <2>1, <2>2
<1>5. ASSUME NEW t \in Threads, NEW s, files' = Purged(t, s) PROVE FilesAnchored'
  BY <1>5 DEF Purged, FilesAnchored
<1> QED BY <1>1, <1>2, <1>3, <1>4, <1>5

\* The exchange of an earlier chat is below nothing.
LEMMA InitAnchored ==
    ASSUME Init
    PROVE  FilesAnchored
<1> SUFFICES ASSUME NEW p \in Paths, files[p] # NoFile PROVE Anchored(files[p])
  BY DEF FilesAnchored
<1>1. files[p] = <<[n |-> 0, thread |-> p, anchor |-> 0]>>
  BY DEF Init
<1> QED BY <1>1 DEF Anchored

\* An opinion is written below a message that is there: the foreign key refuses others.
LEMMA NextAnchors ==
    ASSUME StoreInv, FilesAnchored, [Next]_vars
    PROVE  FilesAnchored'
<1>0. TypeOK
  BY DEF StoreInv
<1>1. CASE UNCHANGED vars
  BY <1>1 DEF vars, FilesAnchored
<1>2. CASE Crash
  BY <1>0, <1>2, WritesAnchor DEF Crash, Stores
<1>3. ASSUME NEW h \in Handlers, Arrive(h)
      PROVE  FilesAnchored'
  BY <1>0, <1>3, WritesAnchor, FileTypes DEF Arrive, InsertThread, FindThread, Consult, Stores
<1>4. ASSUME NEW h \in Handlers, Work(h)
      PROVE  FilesAnchored'
  <2> DEFINE t == handlers[h].thread
  <2>1. handlers[h].stage # "idle" => t \in Threads /\ Path(t) \in Paths
    BY HandlerTypes, FileTypes DEF StoreInv
  <2>2. handlers[h].n \in Nat /\ asked + 1 \in Nat
    BY HandlerTypes DEF StoreInv, TypeOK
  <2>3. CASE Open(h) \/ ReadHistory(h)
    BY <1>0, <2>1, <2>3, WritesAnchor DEF Open, ReadHistory, At
  <2>4. CASE WriteSqlite(h)
    <3>1. t \in Threads /\ Path(t) \in Paths
      BY <2>1, <2>4 DEF WriteSqlite, At
    <3>2. 0 \in Nat /\ 0 <= Len(Opened(Path(t)))
      <4>1. Opened(Path(t)) \in Seq(Message)
        BY <1>0, <3>1, OpenedAnchored
      <4>2. Len(Opened(Path(t))) \in Nat
        BY <4>1
      <4> QED BY <4>2
    <3>3. UNCHANGED files \/ files' = Appended(Path(t), asked + 1, t, 0)
      BY <2>4 DEF WriteSqlite
    <3> QED BY <1>0, <2>2, <3>1, <3>2, <3>3, WritesAnchor
  <2>5. CASE WriteOpinion(h)
    <3>1. t \in Threads /\ Path(t) \in Paths
      BY <2>1, <2>5 DEF WriteOpinion, At
    <3>2. \/ files' = Touched(Path(t))
          \/ /\ handlers[h].n <= Len(Opened(Path(t)))
             /\ files' = Appended(Path(t), asked + 1, t, handlers[h].n)
      BY <2>5 DEF WriteOpinion
    <3> QED BY <1>0, <2>2, <3>1, <3>2, WritesAnchor
  <2>6. CASE Promote(h)
    <3>1. t \in Threads /\ handlers[h].slug \in Slugs
      BY <2>1, <2>6, HandlerTypes DEF Promote, At, StoreInv
    <3> QED BY <1>0, <2>6, <3>1, WritesAnchor DEF Promote
  <2>7. CASE Purge(h)
    <3>1. t \in Threads
      BY <2>1, <2>7 DEF Purge, At
    <3>2. UNCHANGED files \/ files' = Purged(t, NoSlug) \/ files' = Purged(t, handlers[h].slug)
      BY <2>7 DEF Purge
    <3> QED BY <1>0, <3>1, <3>2, WritesAnchor
  <2> QED BY <1>0, <1>4, <2>3, <2>4, <2>5, <2>6, <2>7, WritesAnchor
          DEF Work, DescribeThread, DescribeWorkspace, Resolve, CommitPostgres, GiveUp, NoteSlug,
              DeleteRow, Stores
<1> QED BY <1>1, <1>2, <1>3, <1>4 DEF Next

-----------------------------------------------------------------------------
\* Every request is about a thread that was created; the files of a thread are
\* removed after its row; and a chat's file has what Postgres has, while no store fails.
THEOREM StoreInvariant == Spec => []StoreInv
<1>1. Init => StoreInv
  BY InitStore
<1>2. StoreInv /\ [Next]_vars => StoreInv'
  BY NextKeeps
<1> QED BY <1>1, <1>2, PTL DEF Spec

\* The state and every request have their types.
THEOREM StoreTypes == Spec => []TypeOK
<1>1. StoreInv => TypeOK
  BY DEF StoreInv
<1> QED BY <1>1, StoreInvariant, PTL

\* A chat that no project was made of shows every exchange that Postgres has, though
\* its SQLite file hides Postgres, for any number of turns, promotions and deletions
\* at once (thread_service.py:403).
THEOREM ChatsShowAll == Spec => []ChatShowsAll
<1>1. StoreInv => ChatShowsAll
  <2> SUFFICES ASSUME StoreInv, faults = 0, NEW t \in rows, meta[t].slug = NoSlug
               PROVE  postgres[t] \subseteq Shown(t)
    BY DEF ChatShowsAll
  <2>1. Path(t) = t
    BY FileTypes, HandlerTypes DEF StoreInv, TypeOK
  <2>2. postgres[t] \subseteq Numbers(t)
    BY DEF StoreInv, ChatsComplete, ChatIsComplete
  <2> QED BY <2>1, <2>2 DEF Shown
<1> QED BY <1>1, StoreInvariant, PTL

\* A message leaves the files only when its thread is deleted, or one that names the
\* project it is in: also when stores fail, or the process dies, in between
\* (thread_store.py:333, thread_service.py:200).
THEOREM TranscriptsLast == Spec => TranscriptsOutlive
<1> DEFINE Outlives ==
        \A p \in Paths : \A m \in Contents(p) :
           m.n \in UNION {Numbers(q)' : q \in Paths} \/
           \E h \in Handlers :
               /\ At(h, "delete", "purging") /\ handlers'[h] = Idle
               /\ \/ m.thread = handlers[h].thread
                  \/ p \in {handlers[h].slug, Path(handlers[h].thread)}
<1>1. StoreInv /\ [Next]_vars => [Outlives]_vars
  <2> SUFFICES ASSUME StoreInv, Next PROVE Outlives
    OBVIOUS
  <2>1. CASE Kept
    BY <2>1 DEF Kept, Numbers
  <2>2. ASSUME NEW h \in Handlers, Purge(h) PROVE Outlives
    BY <2>2, PurgeTakes DEF Numbers
  <2> QED BY <2>1, <2>2, StepsKeep
<1>2. Spec => [][Outlives]_vars
  BY <1>1, StoreInvariant, PTL DEF Spec
<1> QED BY <1>2 DEF TranscriptsOutlive

\* Whatever was written, moved or removed, and however old the window is that an
\* opinion was asked from: the order shown has every message of a file once, each
\* opinion below what it is about with only opinions between the two, and the
\* messages of one anchor in the order they came in (thread_store.py:209).
THEOREM OrdersAreReadings == Spec => []OrderIsAReading
<1>1. Init => FilesAnchored
  BY InitAnchored
<1>2. StoreInv /\ FilesAnchored /\ [Next]_vars => FilesAnchored'
  BY NextAnchors
<1>3. Spec => []FilesAnchored
  BY <1>1, <1>2, StoreInvariant, PTL DEF Spec
<1>4. StoreInv /\ FilesAnchored => OrderIsAReading
  <2> SUFFICES ASSUME StoreInv, FilesAnchored, NEW p \in Paths PROVE IsAReading(Opened(p))
    BY Zenon DEF OrderIsAReading, IsAReading
  <2>1. Opened(p) \in Seq(Message) /\ Anchored(Opened(p))
    BY OpenedAnchored DEF StoreInv
  <2> QED BY <2>1, ReadingReads
<1> QED BY <1>3, <1>4, StoreInvariant, PTL
=============================================================================
