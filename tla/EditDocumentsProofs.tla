------------------------ MODULE EditDocumentsProofs ------------------------
(***************************************************************************)
(* Proofs about EditDocuments: what a window is told of its save is true,  *)
(* and an unconfirmed save is not lost, whatever requests are repeated,    *)
(* reordered or lost, and whatever windows are reloaded in between.        *)
(***************************************************************************)
EXTENDS EditDocuments, FiniteSetTheorems, TLAPS

\* No request of the save can be committed any more: it creates a document that
\* exists or has no room, or revises one that has moved on or is full.
Barred(k) ==
    /\ ~Committed(k)
    /\ IF save[k].base = 0
       THEN Cardinality(Stored) >= MaxDocuments \/ hist[save[k].doc] # <<>>
       ELSE \/ save[k].base < Len(hist[save[k].doc])
            \/ Len(hist[save[k].doc]) >= MaxRevisions

\* What a definite answer says of the save.
AnswerHolds(k, answer) ==
    /\ answer = "saved" => Committed(k)
    /\ answer \in {"conflict", "limit"} => Barred(k)

\* A document's n-th revision was made by a save of that document, on the one before.
HistoriesHold ==
    /\ IsFiniteSet(Stored)
    /\ \A d \in Docs : \A n \in 1 .. Len(hist[d]) :
          save[hist[d][n]] # None /\ save[hist[d][n]].doc = d /\ save[hist[d][n]].base = n - 1

\* A save asks for no revision past the history, and not to replace what its window
\* did not show unless it was resumed; every answer it got is true.
SavesHold ==
    \A k \in Keys :
        /\ save[k] = None => told[k] = {}
        /\ save[k] # None => /\ save[k].base <= Len(hist[save[k].doc])
                             /\ save[k].resumed \/ save[k].base <= save[k].seen
        /\ \A answer \in Definite : answer \in told[k] => AnswerHolds(k, answer)

\* Storage and network carry saves that were made.
MessagesHold ==
    /\ \A m \in wire : save[m[1]] # None
    /\ \A b \in Browsers : slot[b] # None => save[slot[b]] # None /\ save[slot[b]].by = b

\* A session of a window of browser b works on a head the history has, waits for
\* a save of its own document and browser, and the answer it holds is true.
Sound(s, b) ==
    /\ s.phase # "closed" => /\ s.doc \in Docs
                             /\ s.head <= Len(hist[s.doc])
                             /\ s.resumed \/ s.head <= s.seen
    /\ s.phase = "closed" => s.pending = None
    /\ s.phase \in {"waiting", "answered"} => s.pending # None
    /\ s.pending # None => /\ save[s.pending] # None
                           /\ save[s.pending].doc = s.doc
                           /\ save[s.pending].by = b
    /\ \A k \in Keys, answer \in Definite :
          s.phase = "answered" /\ s.pending = k /\ s.reply = answer => AnswerHolds(k, answer)

SessionsHold == \A t \in Tabs : Sound(tab[t], home[t])

\* The only window of a browser waits for the save in its storage, and that is the
\* only save of the browser that has no answer.
KeptAlone(b) ==
    /\ \A t \in Tabs : home[t] = b /\ ~In(t, "closed") => tab[t].pending = slot[b]
    /\ \A k \in Keys : save[k] # None /\ save[k].by = b /\ told[k] = {} => slot[b] = k

KeptHold == \A b \in Browsers : Alone(b) => KeptAlone(b)

EditInv ==
    /\ TypeOK
    /\ HistoriesHold
    /\ SavesHold
    /\ MessagesHold
    /\ SessionsHold
    /\ KeptHold

-----------------------------------------------------------------------------
(***************************************************************************)
(* The history.                                                            *)
(***************************************************************************)
\* A request that commits its save puts it on the revision it was based on.
Inserts(k) ==
    /\ ~Committed(k)
    /\ hist' = [hist EXCEPT ![save[k].doc] = Append(@, k)]
    /\ save[k].base = Len(hist[save[k].doc]) /\ Len(hist[save[k].doc]) < MaxRevisions
    /\ save[k].base = 0 => Cardinality(Stored) < MaxDocuments

\* A request commits its save or is answered truly.
LEMMA TransactEnds ==
    ASSUME EditInv, NEW k \in Keys, save[k] # None, NEW answer, Transact(k, answer)
    PROVE  \/ hist' = hist /\ AnswerHolds(k, answer)
           \/ Inserts(k) /\ answer \in {"saved", "unsure"}
<1> DEFINE d == save[k].doc
<1>0. /\ d \in Docs /\ save[k].base \in Nat /\ save[k].base <= Len(hist[d])
      /\ hist[d] \in Seq(Keys) /\ Len(hist[d]) \in Nat
  BY DEF EditInv, TypeOK, Save, SavesHold
<1>1. CASE Committed(k)
  BY <1>1 DEF Transact, AnswerHolds
<1>2. CASE ~Committed(k) /\ Create(k, answer)
  <2>1. CASE hist' = hist /\ answer = "limit" /\ Cardinality(Stored) >= MaxDocuments
    BY <1>2, <2>1 DEF Create, AnswerHolds, Barred
  <2>2. CASE hist' = hist /\ answer = "conflict" /\ d \in Stored
    BY <1>2, <2>2 DEF Create, AnswerHolds, Barred, Stored
  <2>3. CASE Cardinality(Stored) < MaxDocuments /\ d \notin Stored /\ Commit(k, answer)
    <3>1. hist[d] = <<>> /\ Len(hist[d]) = 0 /\ save[k].base = 0
      BY <1>0, <1>2, <2>3 DEF Stored, Create
    <3>2. CASE hist' = hist /\ answer = "unsure"
      BY <3>2 DEF AnswerHolds
    <3>3. CASE hist' = [hist EXCEPT ![d] = Append(@, k)] /\ answer \in {"saved", "unsure"}
      BY <1>2, <2>3, <3>1, <3>3, BoundAssumption DEF Inserts
    <3> QED BY <2>3, <3>2, <3>3 DEF Commit
  <2> QED BY <1>2, <2>1, <2>2, <2>3 DEF Create
<1>3. CASE ~Committed(k) /\ Revise(k, answer)
  <2>1. CASE hist' = hist /\ answer = "conflict" /\ save[k].base # Len(hist[d])
    BY <1>0, <1>3, <2>1 DEF Revise, AnswerHolds, Barred
  <2>2. CASE hist' = hist /\ answer = "limit" /\ Len(hist[d]) >= MaxRevisions
    BY <1>0, <1>3, <2>2 DEF Revise, AnswerHolds, Barred
  <2>3. CASE save[k].base = Len(hist[d]) /\ Len(hist[d]) < MaxRevisions /\ Commit(k, answer)
    <3>1. CASE hist' = hist /\ answer = "unsure"
      BY <3>1 DEF AnswerHolds
    <3>2. CASE hist' = [hist EXCEPT ![d] = Append(@, k)] /\ answer \in {"saved", "unsure"}
      BY <1>3, <2>3, <3>2 DEF Revise, Inserts
    <3> QED BY <2>3, <3>1, <3>2 DEF Commit
  <2> QED BY <1>3, <2>1, <2>2, <2>3 DEF Revise
<1> QED BY <1>1, <1>2, <1>3 DEF Transact

\* What an appended sequence holds.
LEMMA AppendedSet ==
    ASSUME NEW S, NEW s \in Seq(S), NEW x \in S
    PROVE  ToSet(Append(s, x)) = ToSet(s) \cup {x}
<1> DEFINE a == Append(s, x)
<1>1. /\ DOMAIN s = 1 .. Len(s) /\ Len(s) \in Nat
      /\ DOMAIN a = 1 .. Len(s) + 1
      /\ a[Len(s) + 1] = x /\ \A n \in DOMAIN s : a[n] = s[n]
  OBVIOUS
<1>2. \A n \in DOMAIN a : n = Len(s) + 1 \/ n \in DOMAIN s
  BY <1>1
<1>3. DOMAIN s \subseteq DOMAIN a /\ Len(s) + 1 \in DOMAIN a
  BY <1>1
<1> HIDE DEF a
<1> QED BY <1>1, <1>2, <1>3 DEF ToSet

\* A committed save keeps the histories, and everything told of any save.
LEMMA InsertStep ==
    ASSUME EditInv, NEW k \in Keys, save[k] # None, Inserts(k), save' = save
    PROVE  /\ HistoriesHold'
           /\ hist' \in [Docs -> Seq(Keys)]
           /\ \A d \in Docs : Len(hist[d]) <= Len(hist'[d]) /\ Len(hist'[d]) <= MaxRevisions
           /\ Cardinality(Stored)' <= MaxDocuments
           /\ \A j \in Keys, answer \in Definite :
                 save[j] # None /\ AnswerHolds(j, answer) => AnswerHolds(j, answer)'
           /\ Committed(k)'
<1> DEFINE d == save[k].doc
<1>0. /\ d \in Docs /\ save[k].base \in Nat
      /\ hist \in [Docs -> Seq(Keys)] /\ Len(hist[d]) \in Nat
      /\ Len(hist[d]) = 0 => hist[d] = <<>>
      /\ \A j \in Keys : save[j] # None => save[j].doc \in Docs /\ save[j].base \in Nat
  BY DEF EditInv, TypeOK, Save
<1>1. /\ hist' \in [Docs -> Seq(Keys)]
      /\ hist'[d] = Append(hist[d], k)
      /\ \A e \in Docs \ {d} : hist'[e] = hist[e]
  BY <1>0 DEF Inserts
<1>2. /\ Len(hist'[d]) = Len(hist[d]) + 1 /\ hist'[d] # <<>>
      /\ hist'[d][Len(hist[d]) + 1] = k
      /\ \A n \in 1 .. Len(hist[d]) : hist'[d][n] = hist[d][n]
  BY <1>0, <1>1
<1>3. \A e \in Docs : Len(hist[e]) <= Len(hist'[e]) /\ Len(hist'[e]) <= MaxRevisions
  <2> TAKE e \in Docs
  <2>1. Len(hist[e]) \in Nat /\ Len(hist[e]) <= MaxRevisions
    BY <1>0 DEF EditInv, TypeOK
  <2> QED BY <1>0, <1>1, <1>2, <2>1, BoundAssumption DEF Inserts
<1>4. /\ ToSet(hist'[d]) = ToSet(hist[d]) \cup {k}
      /\ \A e \in Docs \ {d} : ToSet(hist'[e]) = ToSet(hist[e])
  BY <1>0, <1>1, AppendedSet
<1>5. /\ Stored' = Stored \cup {d} /\ IsFiniteSet(Stored)
      /\ d \in Stored <=> Len(hist[d]) # 0
  BY <1>0, <1>1, <1>2 DEF Stored, EditInv, HistoriesHold
<1>6. /\ IsFiniteSet(Stored') /\ Cardinality(Stored) \in Nat /\ Cardinality(Stored') \in Nat
      /\ Cardinality(Stored') = IF d \in Stored THEN Cardinality(Stored) ELSE Cardinality(Stored) + 1
  BY <1>5, FS_AddElement, FS_CardinalityType
<1>7. Cardinality(Stored') <= MaxDocuments
  BY <1>0, <1>5, <1>6, BoundAssumption DEF Inserts, EditInv, TypeOK
<1>8. HistoriesHold'
  <2> SUFFICES ASSUME NEW e \in Docs, NEW n \in 1 .. Len(hist'[e])
               PROVE  /\ save[hist'[e][n]] # None /\ save[hist'[e][n]].doc = e
                      /\ save[hist'[e][n]].base = n - 1
    BY <1>6 DEF HistoriesHold
  <2>1. CASE e # d \/ n # Len(hist[d]) + 1
    <3>1. CASE e = d
      <4>1. n \in 1 .. Len(hist[d]) /\ hist'[d][n] = hist[d][n]
        BY <1>0, <1>2, <2>1, <3>1
      <4> QED BY <1>0, <3>1, <4>1 DEF EditInv, HistoriesHold
    <3>2. CASE e # d
      BY <1>1, <3>2 DEF EditInv, HistoriesHold
    <3> QED BY <3>1, <3>2
  <2>2. CASE e = d /\ n = Len(hist[d]) + 1
    BY <1>0, <1>2, <2>2 DEF Inserts
  <2> QED BY <2>1, <2>2
<1>9. Committed(k)'
  BY <1>4 DEF Committed
<1>10. ASSUME NEW j \in Keys, save[j] # None PROVE Committed(j)' <=> Committed(j) \/ j = k
  BY <1>0, <1>4, <1>10 DEF Committed
<1>11. ASSUME NEW j \in Keys, save[j] # None, Barred(j) PROVE Barred(j)'
  <2>1. j # k
    BY <1>0, <1>6, <1>11, BoundAssumption DEF Barred, Inserts
  <2>2. hist[save[j].doc] # <<>> => hist'[save[j].doc] # <<>>
    BY <1>0, <1>1, <1>2, <1>11
  <2>3. /\ Len(hist[save[j].doc]) \in Nat /\ Len(hist'[save[j].doc]) \in Nat
        /\ Len(hist[save[j].doc]) <= Len(hist'[save[j].doc])
    BY <1>0, <1>1, <1>3, <1>11
  <2> QED BY <1>0, <1>6, <1>10, <1>11, <2>1, <2>2, <2>3, BoundAssumption DEF Barred
<1> QED BY <1>1, <1>3, <1>7, <1>8, <1>9, <1>10, <1>11 DEF AnswerHolds

-----------------------------------------------------------------------------
(***************************************************************************)
(* The windows.                                                            *)
(***************************************************************************)
\* A step of one window that makes no save: it leaves a sound session, and adds
\* only true answers and saves that were made.
LEMMA WindowStep ==
    ASSUME EditInv, UNCHANGED <<home, hist, save>>,
           NEW t \in Tabs, NEW s \in Session, tab' = [tab EXCEPT ![t] = s], Sound(s, home[t]),
           posts' \in [Keys -> 0 .. MaxPosts],
           wire' \subseteq Keys \X (1 .. MaxPosts), \A m \in wire' : save[m[1]] # None,
           slot' \in [Browsers -> Keys \cup {None}],
           \A b \in Browsers : slot'[b] \in {slot[b], None},
           told' \in [Keys -> SUBSET Definite],
           \A k \in Keys, answer \in Definite :
               answer \in told'[k] => \/ answer \in told[k]
                                      \/ save[k] # None /\ AnswerHolds(k, answer)
    PROVE  TypeOK' /\ HistoriesHold' /\ SavesHold' /\ MessagesHold' /\ SessionsHold'
<1>1. TypeOK'
  BY DEF EditInv, TypeOK, Stored
<1>2. HistoriesHold'
  BY DEF EditInv, HistoriesHold, Stored
<1>3. \A k \in Keys, answer \in Definite : AnswerHolds(k, answer)' <=> AnswerHolds(k, answer)
  BY DEF AnswerHolds, Barred, Committed, Stored
<1>4. SavesHold'
  <2> SUFFICES ASSUME NEW k \in Keys
               PROVE  /\ save[k] = None => told'[k] = {}
                      /\ \A answer \in Definite : answer \in told'[k] => AnswerHolds(k, answer)
    BY <1>3 DEF EditInv, SavesHold
  <2>1. told'[k] \subseteq Definite
    OBVIOUS
  <2> QED BY <2>1 DEF EditInv, SavesHold
<1>5. MessagesHold'
  BY DEF EditInv, MessagesHold
<1>6. SessionsHold'
  <2> SUFFICES ASSUME NEW u \in Tabs PROVE Sound(tab[u], home[u])'
    BY DEF SessionsHold
  <2>1. tab'[u] = IF u = t THEN s ELSE tab[u]
    BY DEF EditInv, TypeOK
  <2>2. Sound(tab'[u], home[u])
    BY <2>1 DEF EditInv, SessionsHold
  <2> QED BY <1>3, <2>2 DEF Sound
<1> QED BY <1>1, <1>2, <1>4, <1>5, <1>6

\* What it has to leave for the only window of a browser.
LEMMA KeptStep ==
    ASSUME EditInv, UNCHANGED <<home, save>>,
           NEW t \in Tabs, NEW s \in Session, tab' = [tab EXCEPT ![t] = s],
           \A b \in Browsers \ {home[t]} : slot'[b] = slot[b],
           \A k \in Keys : save[k] # None /\ save[k].by # home[t] => told'[k] = told[k],
           Alone(home[t]) /\ s.phase # "closed" => s.pending = slot'[home[t]],
           Alone(home[t]) => \A k \in Keys : save[k] # None /\ save[k].by = home[t] /\ told'[k] = {}
                                                => slot'[home[t]] = k
    PROVE  KeptHold'
<1> SUFFICES ASSUME NEW b \in Browsers, Alone(b) PROVE KeptAlone(b)'
  BY DEF KeptHold, Alone
<1>1. \A u \in Tabs : tab'[u] = IF u = t THEN s ELSE tab[u]
  BY DEF EditInv, TypeOK
<1>2. KeptAlone(b)
  BY DEF EditInv, KeptHold
<1>3. CASE b = home[t]
  <2>1. \A u \in Tabs : home[u] = b => u = t
    BY <1>3 DEF Alone
  <2> QED BY <1>1, <1>3, <2>1 DEF KeptAlone, In
<1>4. CASE b # home[t]
  BY <1>1, <1>2, <1>4 DEF KeptAlone, In
<1> QED BY <1>3, <1>4

\* Both, for a step that neither touches the storage nor hears an answer.
LEMMA QuietStep ==
    ASSUME EditInv, UNCHANGED <<home, hist, save, slot, told>>,
           NEW t \in Tabs, NEW s \in Session, tab' = [tab EXCEPT ![t] = s], Sound(s, home[t]),
           posts' \in [Keys -> 0 .. MaxPosts],
           wire' \subseteq Keys \X (1 .. MaxPosts), \A m \in wire' : save[m[1]] # None,
           s.phase # "closed" => \/ s.pending = slot[home[t]]
                                 \/ ~In(t, "closed") /\ s.pending = tab[t].pending
    PROVE  EditInv'
<1>0. /\ slot \in [Browsers -> Keys \cup {None}] /\ told \in [Keys -> SUBSET Definite]
      /\ home[t] \in Browsers
      /\ Alone(home[t]) => KeptAlone(home[t])
  BY DEF EditInv, TypeOK, KeptHold
<1>1. TypeOK' /\ HistoriesHold' /\ SavesHold' /\ MessagesHold' /\ SessionsHold'
  BY <1>0, WindowStep
<1>2. KeptHold'
  BY <1>0, KeptStep DEF KeptAlone
<1> QED BY <1>1, <1>2 DEF EditInv

LEMMA ResumeStep ==
    ASSUME EditInv, NEW t \in Tabs, Resume(t)
    PROVE  EditInv'
<1> DEFINE k == slot[home[t]]
           n == IF save[k].base # 0 THEN Len(hist[save[k].doc]) ELSE 0
           s == Opened(save[k].doc, n, save[k].base, TRUE, k)
<1>0. /\ k \in Keys /\ save[k] \in Save /\ save[k].by = home[t] /\ save[k] # None
      /\ save[k].doc \in Docs /\ save[k].base \in Nat /\ hist[save[k].doc] \in Seq(Keys)
      /\ n \in Nat /\ n <= Len(hist[save[k].doc])
  BY DEF Resume, EditInv, TypeOK, MessagesHold, Save
<1>1. tab' = [tab EXCEPT ![t] = s]
  BY DEF Resume
<1>2. s \in Session
  BY <1>0, BoundAssumption DEF Opened, Session
<1>3. Sound(s, home[t]) /\ s.pending = k
  BY <1>0 DEF Opened, Sound
<1> HIDE DEF s, n
<1> QED BY <1>1, <1>2, <1>3, QuietStep DEF Resume, EditInv, TypeOK, MessagesHold

LEMMA OpenStep ==
    ASSUME EditInv, NEW t \in Tabs, Open(t)
    PROVE  EditInv'
<1> PICK d \in Docs : tab' = [tab EXCEPT ![t] = Opened(d, Len(hist[d]), Len(hist[d]), FALSE, None)]
  BY DEF Open
<1> DEFINE s == Opened(d, Len(hist[d]), Len(hist[d]), FALSE, None)
<1>0. Len(hist[d]) \in Nat
  BY DEF EditInv, TypeOK
<1>1. tab' = [tab EXCEPT ![t] = s]
  OBVIOUS
<1>2. s \in Session
  BY <1>0, BoundAssumption DEF Opened, Session
<1>3. Sound(s, home[t]) /\ s.pending = None
  BY <1>0, NoneAssumption DEF Opened, Sound
<1> HIDE DEF s
<1> QED BY <1>1, <1>2, <1>3, QuietStep DEF Open, EditInv, TypeOK, MessagesHold

\* The parts of a session.
LEMMA SessionParts ==
    ASSUME EditInv, NEW t \in Tabs
    PROVE  /\ tab[t] \in Session /\ Sound(tab[t], home[t])
           /\ tab[t].phase \in {"closed", "editing", "waiting", "answered"}
           /\ tab[t].doc \in Docs \cup {None} /\ tab[t].head \in Nat /\ tab[t].seen \in Nat
           /\ tab[t].resumed \in BOOLEAN /\ tab[t].pending \in Keys \cup {None}
           /\ tab[t].req \in 0 .. MaxPosts /\ tab[t].reply \in Definite \cup {"none", "unsure"}
  BY DEF EditInv, TypeOK, SessionsHold, Session

LEMMA LoadStep ==
    ASSUME EditInv, NEW t \in Tabs, LoadLatest(t)
    PROVE  EditInv'
<1> DEFINE n == Len(hist[tab[t].doc])
           s == [tab[t] EXCEPT !.head = n, !.seen = n]
<1>0. /\ tab[t] \in Session /\ tab[t].doc \in Docs /\ tab[t].phase = "editing"
      /\ hist[tab[t].doc] \in Seq(Keys) /\ n \in Nat /\ tab[t].pending = None
  BY SessionParts DEF LoadLatest, In, Sound, EditInv, TypeOK
<1>1. tab' = [tab EXCEPT ![t] = s]
  BY Zenon DEF LoadLatest
<1>2. /\ s.phase = tab[t].phase /\ s.doc = tab[t].doc /\ s.head = n /\ s.seen = n
      /\ s.pending = tab[t].pending
  BY <1>0 DEF Session
<1>3. s \in Session
  BY <1>0, Zenon DEF Session
<1> HIDE DEF s
<1>4. Sound(s, home[t])
  BY <1>0, <1>2, NoneAssumption DEF Sound
<1> QED BY <1>0, <1>1, <1>2, <1>3, <1>4, QuietStep DEF LoadLatest, In, EditInv, TypeOK, MessagesHold

LEMMA RetryStep ==
    ASSUME EditInv, NEW t \in Tabs, Retry(t)
    PROVE  EditInv'
<1> DEFINE k == tab[t].pending
           s == [tab[t] EXCEPT !.phase = "waiting", !.pending = k, !.req = posts[k] + 1]
<1>0. /\ tab[t] \in Session /\ tab[t].phase = "editing" /\ k \in Keys
      /\ posts \in [Keys -> 0 .. MaxPosts] /\ posts[k] < MaxPosts
      /\ posts[k] + 1 \in 1 .. MaxPosts /\ posts[k] + 1 \in 0 .. MaxPosts
      /\ save[k] # None
  BY SessionParts, BoundAssumption DEF Retry, Post, In, Sound, EditInv, TypeOK
<1>1. tab' = [tab EXCEPT ![t] = s]
  BY Zenon DEF Retry, Post
<1>2. /\ s.phase = "waiting" /\ s.doc = tab[t].doc /\ s.head = tab[t].head /\ s.seen = tab[t].seen
      /\ s.resumed = tab[t].resumed /\ s.pending = k
  BY <1>0 DEF Session
<1>3. s \in Session
  BY <1>0, Zenon DEF Session
<1> HIDE DEF s
<1>4. Sound(s, home[t])
  BY <1>0, <1>2, NoneAssumption, SessionParts DEF Sound
<1>5. /\ posts' \in [Keys -> 0 .. MaxPosts]
      /\ wire' \subseteq Keys \X (1 .. MaxPosts) /\ \A m \in wire' : save[m[1]] # None
  BY <1>0 DEF Retry, Post, EditInv, TypeOK, MessagesHold
<1> QED BY <1>0, <1>1, <1>2, <1>3, <1>4, <1>5, QuietStep DEF Retry, In

LEMMA UnconfirmedStep ==
    ASSUME EditInv, NEW t \in Tabs, Unconfirmed(t)
    PROVE  EditInv'
<1> DEFINE s == [tab[t] EXCEPT !.phase = "editing", !.reply = "none"]
<1>0. tab[t] \in Session /\ tab[t].phase \in {"waiting", "answered"}
  BY SessionParts DEF Unconfirmed, In
<1>1. tab' = [tab EXCEPT ![t] = s]
  BY Zenon DEF Unconfirmed
<1>2. /\ s.phase = "editing" /\ s.doc = tab[t].doc /\ s.head = tab[t].head /\ s.seen = tab[t].seen
      /\ s.resumed = tab[t].resumed /\ s.pending = tab[t].pending
  BY <1>0 DEF Session
<1>3. s \in Session
  BY <1>0, Zenon DEF Session
<1> HIDE DEF s
<1>4. Sound(s, home[t])
  BY <1>0, <1>2, SessionParts DEF Sound
<1> QED BY <1>0, <1>1, <1>2, <1>3, <1>4, QuietStep DEF Unconfirmed, In, EditInv, TypeOK, MessagesHold

LEMMA ReloadStep ==
    ASSUME EditInv, NEW t \in Tabs, Reload(t)
    PROVE  EditInv'
<1>1. Closed \in Session /\ Closed.phase = "closed" /\ Closed.pending = None
  BY BoundAssumption DEF Closed, Session
<1>2. Sound(Closed, home[t])
  BY DEF Closed, Sound
<1> QED BY <1>1, <1>2, QuietStep DEF Reload, EditInv, TypeOK, MessagesHold

\* The number of a committed save is its place in the history.
LEMMA NumberIsPlace ==
    ASSUME EditInv, NEW k \in Keys, Committed(k)
    PROVE  Number(k) \in 1 .. Len(hist[save[k].doc])
<1> DEFINE h == hist[save[k].doc]
           I == {i \in 1 .. Len(h) : h[i] = k}
<1>1. save[k].doc \in Docs /\ h \in Seq(Keys)
  BY DEF EditInv, TypeOK, Save, Committed
<1>2. PICK i \in 1 .. Len(h) : h[i] = k
  BY <1>1 DEF Committed, ToSet
<1>3. \A j \in 1 .. Len(h) : h[j] = k => j = i
  BY <1>1, <1>2 DEF EditInv, HistoriesHold
<1>4. I = {i} /\ i \in Nat
  BY <1>1, <1>2, <1>3
<1>5. Min(I) = i
  BY <1>4 DEF Min
<1>6. Number(k) = IF I # {} THEN Min(I) ELSE 0
  BY DEF Number, SelectInSeq
<1> QED BY <1>2, <1>4, <1>5, <1>6

\* Removing the entry that was answered leaves nothing behind.
LEMMA SavedStep ==
    ASSUME EditInv, NEW t \in Tabs, Saved(t)
    PROVE  EditInv'
<1> DEFINE k == tab[t].pending
           n == Number(k)
           shown == [tab[t] EXCEPT !.phase = "editing", !.head = n, !.seen = n, !.reply = "none"]
           ended == [shown EXCEPT !.pending = None, !.resumed = FALSE]
<1>0. /\ tab[t] \in Session /\ tab[t].phase = "answered" /\ tab[t].reply = "saved"
      /\ k \in Keys /\ save[k] # None /\ save[k].doc = tab[t].doc /\ tab[t].doc \in Docs
      /\ save[k].by = home[t] /\ home[t] \in Browsers
  BY SessionParts DEF Saved, In, Sound, EditInv, TypeOK
<1>1. AnswerHolds(k, "saved") /\ Committed(k)
  BY <1>0, SessionParts DEF Sound, AnswerHolds, Definite
<1>2. n \in Nat /\ n <= Len(hist[tab[t].doc])
  <2>1. Len(hist[tab[t].doc]) \in Nat
    BY <1>0 DEF EditInv, TypeOK
  <2> QED BY <1>0, <1>1, <2>1, NumberIsPlace
<1> HIDE DEF n
<1>3. /\ shown \in Session /\ shown.phase = "editing" /\ shown.doc = tab[t].doc
      /\ shown.head = n /\ shown.seen = n /\ shown.pending = k
  <2>1. shown \in Session
    BY <1>0, <1>2, Zenon DEF Session
  <2> QED BY <1>0, <2>1 DEF Session
<1> HIDE DEF shown
<1>4. /\ ended \in Session /\ ended.phase = "editing" /\ ended.doc = tab[t].doc
      /\ ended.head = n /\ ended.seen = n /\ ended.pending = None
  <2>1. ended \in Session
    BY <1>3, Zenon DEF Session
  <2> QED BY <1>3, <2>1 DEF Session
<1> HIDE DEF ended
<1>5. Sound(shown, home[t]) /\ Sound(ended, home[t])
  BY <1>0, <1>2, <1>3, <1>4, NoneAssumption DEF Sound
<1>6. /\ UNCHANGED <<home, hist, save, posts, wire>>
      /\ told' = [told EXCEPT ![k] = @ \cup {"saved"}]
      /\ \/ tab' = [tab EXCEPT ![t] = ended] /\ slot' = [slot EXCEPT ![home[t]] = None]
         \/ tab' = [tab EXCEPT ![t] = shown] /\ slot' = slot
  BY <1>0, Zenon DEF Saved, Tell, shown, ended, n
<1>7. /\ told' \in [Keys -> SUBSET Definite] /\ told'[k] # {}
      /\ \A j \in Keys \ {k} : told'[j] = told[j]
      /\ \A j \in Keys, answer \in Definite :
            answer \in told'[j] => \/ answer \in told[j]
                                   \/ save[j] # None /\ AnswerHolds(j, answer)
  BY <1>0, <1>1, <1>6 DEF EditInv, TypeOK, Definite
<1>8. /\ slot \in [Browsers -> Keys \cup {None}] /\ posts \in [Keys -> 0 .. MaxPosts]
      /\ wire \subseteq Keys \X (1 .. MaxPosts) /\ \A m \in wire : save[m[1]] # None
      /\ \A j \in Keys : told[j] = {} \/ told'[j] # {}
      /\ Alone(home[t]) => KeptAlone(home[t])
  BY <1>0, <1>6, <1>7 DEF EditInv, TypeOK, MessagesHold, KeptHold
<1>9. Alone(home[t]) => slot[home[t]] = k
  BY <1>0, <1>8 DEF KeptAlone, In
<1>10. Alone(home[t]) => \A j \in Keys : save[j] # None /\ save[j].by = home[t] => told'[j] # {}
  BY <1>0, <1>7, <1>8, <1>9 DEF KeptAlone
<1>11. CASE tab' = [tab EXCEPT ![t] = ended] /\ slot' = [slot EXCEPT ![home[t]] = None]
  <2>1. TypeOK' /\ HistoriesHold' /\ SavesHold' /\ MessagesHold' /\ SessionsHold'
    BY <1>4, <1>5, <1>6, <1>7, <1>8, <1>11, WindowStep
  <2>2. slot'[home[t]] = None /\ \A b \in Browsers \ {home[t]} : slot'[b] = slot[b]
    BY <1>0, <1>8, <1>11
  <2>3. KeptHold'
    BY <1>0, <1>4, <1>6, <1>7, <1>10, <1>11, <2>2, KeptStep
  <2> QED BY <2>1, <2>3 DEF EditInv
<1>12. CASE tab' = [tab EXCEPT ![t] = shown] /\ slot' = slot
  <2>1. TypeOK' /\ HistoriesHold' /\ SavesHold' /\ MessagesHold' /\ SessionsHold'
    BY <1>3, <1>5, <1>6, <1>7, <1>8, <1>12, WindowStep
  <2>2. KeptHold'
    BY <1>0, <1>3, <1>6, <1>7, <1>8, <1>9, <1>10, <1>12, KeptStep
  <2> QED BY <2>1, <2>2 DEF EditInv
<1> QED BY <1>6, <1>11, <1>12

LEMMA RejectedStep ==
    ASSUME EditInv, NEW t \in Tabs, Rejected(t)
    PROVE  EditInv'
<1> DEFINE k == tab[t].pending
           a == tab[t].reply
           s == [tab[t] EXCEPT !.phase = "editing", !.pending = None, !.reply = "none"]
<1>0. /\ tab[t] \in Session /\ tab[t].phase = "answered" /\ a \in Definite
      /\ k \in Keys /\ save[k] # None /\ save[k].by = home[t] /\ home[t] \in Browsers
  BY SessionParts DEF Rejected, In, Sound, EditInv, TypeOK
<1>1. \A answer \in Definite : answer = a => AnswerHolds(k, answer)
  BY <1>0, SessionParts DEF Sound
<1>2. /\ s.phase = "editing" /\ s.doc = tab[t].doc /\ s.head = tab[t].head /\ s.seen = tab[t].seen
      /\ s.resumed = tab[t].resumed /\ s.pending = None /\ s \in Session
  <2>1. s \in Session
    BY <1>0, Zenon DEF Session
  <2> QED BY <1>0, <2>1 DEF Session
<1>3. /\ UNCHANGED <<home, hist, save, posts, wire>>
      /\ told' = [told EXCEPT ![k] = @ \cup {a}]
      /\ tab' = [tab EXCEPT ![t] = s] /\ slot' = [slot EXCEPT ![home[t]] = None]
  BY Zenon DEF Rejected, Tell
<1> HIDE DEF s, a
<1>4. Sound(s, home[t])
  BY <1>0, <1>2, NoneAssumption, SessionParts DEF Sound
<1>5. /\ told' \in [Keys -> SUBSET Definite] /\ told'[k] # {}
      /\ \A j \in Keys \ {k} : told'[j] = told[j]
      /\ \A j \in Keys, answer \in Definite :
            answer \in told'[j] => \/ answer \in told[j]
                                   \/ save[j] # None /\ AnswerHolds(j, answer)
  BY <1>0, <1>1, <1>3 DEF EditInv, TypeOK
<1>6. /\ slot \in [Browsers -> Keys \cup {None}] /\ posts \in [Keys -> 0 .. MaxPosts]
      /\ wire \subseteq Keys \X (1 .. MaxPosts) /\ \A m \in wire : save[m[1]] # None
      /\ \A j \in Keys : told[j] = {} \/ told'[j] # {}
      /\ Alone(home[t]) => KeptAlone(home[t])
  BY <1>0, <1>3, <1>5 DEF EditInv, TypeOK, MessagesHold, KeptHold
<1>7. Alone(home[t]) => slot[home[t]] = k
  BY <1>0, <1>6 DEF KeptAlone, In
<1>8. Alone(home[t]) => \A j \in Keys : save[j] # None /\ save[j].by = home[t] => told'[j] # {}
  BY <1>0, <1>5, <1>6, <1>7 DEF KeptAlone
<1>9. slot'[home[t]] = None /\ \A b \in Browsers \ {home[t]} : slot'[b] = slot[b]
  BY <1>0, <1>3, <1>6
<1>10. TypeOK' /\ HistoriesHold' /\ SavesHold' /\ MessagesHold' /\ SessionsHold'
  BY <1>2, <1>3, <1>4, <1>5, <1>6, WindowStep
<1>11. KeptHold'
  BY <1>0, <1>2, <1>3, <1>5, <1>8, <1>9, KeptStep
<1> QED BY <1>10, <1>11 DEF EditInv

\* A new save is unknown to every history and to every other window.
LEMMA NewSaveStep ==
    ASSUME EditInv, NEW t \in Tabs, NewSave(t)
    PROVE  EditInv'
<1> PICK k \in Keys : /\ save[k] = None
                      /\ save' = [save EXCEPT ![k] =
                            [doc |-> tab[t].doc, base |-> tab[t].head, by |-> home[t],
                             seen |-> tab[t].seen, resumed |-> tab[t].resumed]]
                      /\ Keep(home[t], k)
                      /\ Post(t, k)
  BY DEF NewSave
<1> DEFINE r == [doc |-> tab[t].doc, base |-> tab[t].head, by |-> home[t],
                 seen |-> tab[t].seen, resumed |-> tab[t].resumed]
           s == [tab[t] EXCEPT !.phase = "waiting", !.pending = k, !.req = posts[k] + 1]
<1>0. /\ tab[t] \in Session /\ tab[t].phase = "editing" /\ tab[t].pending = None
      /\ tab[t].doc \in Docs /\ home[t] \in Browsers /\ Sound(tab[t], home[t])
      /\ posts \in [Keys -> 0 .. MaxPosts] /\ posts[k] < MaxPosts
      /\ posts[k] + 1 \in 1 .. MaxPosts /\ posts[k] + 1 \in 0 .. MaxPosts
      /\ k # None /\ None \notin Keys
  BY SessionParts, BoundAssumption, NoneAssumption DEF NewSave, Post, In, Sound, EditInv, TypeOK
<1>1. r \in Save /\ r # None /\ r.doc = tab[t].doc /\ r.base = tab[t].head
      /\ r.by = home[t] /\ r.seen = tab[t].seen /\ r.resumed = tab[t].resumed
  <2>1. r \in Save
    BY <1>0, SessionParts DEF Save
  <2> QED BY <2>1, NoneAssumption
<1>2. /\ s.phase = "waiting" /\ s.doc = tab[t].doc /\ s.head = tab[t].head /\ s.seen = tab[t].seen
      /\ s.resumed = tab[t].resumed /\ s.pending = k /\ s \in Session
  <2>1. s \in Session
    BY <1>0, Zenon DEF Session
  <2> QED BY <1>0, <2>1 DEF Session
<1>3. /\ UNCHANGED <<home, hist, told>>
      /\ save' = [save EXCEPT ![k] = r] /\ tab' = [tab EXCEPT ![t] = s]
      /\ slot' = [slot EXCEPT ![home[t]] = k]
      /\ posts' = [posts EXCEPT ![k] = @ + 1] /\ wire' = wire \cup {<<k, posts[k] + 1>>}
  BY Zenon DEF NewSave, Keep, Post
<1> HIDE DEF r, s
<1>4. /\ \A j \in Keys : save'[j] = IF j = k THEN r ELSE save[j]
      /\ \A u \in Tabs : tab'[u] = IF u = t THEN s ELSE tab[u]
      /\ \A b \in Browsers : slot'[b] = IF b = home[t] THEN k ELSE slot[b]
  BY <1>3 DEF EditInv, TypeOK
<1>5. \A j \in Keys, answer \in Definite :
         save[j] # None => (AnswerHolds(j, answer)' <=> AnswerHolds(j, answer))
  BY <1>3, <1>4 DEF AnswerHolds, Barred, Committed, Stored
<1>6. TypeOK'
  BY <1>0, <1>1, <1>2, <1>3 DEF EditInv, TypeOK, Stored
<1>7. HistoriesHold'
  <2>1. \A d \in Docs : \A n \in 1 .. Len(hist[d]) : hist[d][n] \in Keys /\ hist[d][n] # k
    BY DEF EditInv, TypeOK, HistoriesHold
  <2> QED BY <1>3, <1>4, <2>1 DEF EditInv, HistoriesHold, Stored
<1>8. SavesHold'
  <2> SUFFICES ASSUME NEW j \in Keys
               PROVE  /\ save'[j] = None => told[j] = {}
                      /\ save'[j] # None => /\ save'[j].base <= Len(hist[save'[j].doc])
                                            /\ save'[j].resumed \/ save'[j].base <= save'[j].seen
                      /\ \A answer \in Definite : answer \in told[j] => AnswerHolds(j, answer)'
    BY <1>3 DEF SavesHold
  <2>1. CASE j = k
    BY <1>0, <1>1, <1>4, <2>1 DEF EditInv, SavesHold, Sound
  <2>2. CASE j # k
    <3>1. \A answer \in Definite : answer \in told[j] => AnswerHolds(j, answer)'
      BY <1>5 DEF EditInv, SavesHold
    <3> QED BY <1>4, <2>2, <3>1 DEF EditInv, SavesHold
  <2> QED BY <2>1, <2>2
<1>9. MessagesHold'
  <2>1. \A m \in wire : m[1] \in Keys /\ save[m[1]] # None
    BY DEF EditInv, TypeOK, MessagesHold
  <2>2. \A m \in wire' : save'[m[1]] # None
    BY <1>1, <1>3, <1>4, <2>1
  <2>3. \A b \in Browsers : slot'[b] # None => save'[slot'[b]] # None /\ save'[slot'[b]].by = b
    BY <1>1, <1>4 DEF EditInv, TypeOK, MessagesHold
  <2> QED BY <2>2, <2>3 DEF MessagesHold
<1>10. SessionsHold'
  <2> SUFFICES ASSUME NEW u \in Tabs PROVE Sound(tab[u], home[u])'
    BY DEF SessionsHold
  <2>1. CASE u = t
    BY <1>0, <1>1, <1>2, <1>3, <1>4, <2>1 DEF Sound
  <2>2. CASE u # t
    <3>1. /\ tab'[u] = tab[u] /\ Sound(tab[u], home[u]) /\ tab[u].pending \in Keys \cup {None}
      BY <1>4, <2>2, SessionParts
    <3> QED BY <1>0, <1>3, <1>4, <1>5, <3>1 DEF Sound
  <2> QED BY <2>1, <2>2
<1>11. KeptHold'
  <2> SUFFICES ASSUME NEW b \in Browsers, Alone(b) PROVE KeptAlone(b)'
    BY <1>3 DEF KeptHold, Alone
  <2>1. KeptAlone(b)
    BY DEF EditInv, KeptHold
  <2>2. CASE b = home[t]
    <3>1. \A u \in Tabs : home[u] = b => u = t
      BY <2>2 DEF Alone
    <3>2. slot[b] = None
      BY <1>0, <2>1, <2>2 DEF KeptAlone, In
    <3>3. \A j \in Keys : save[j] # None /\ save[j].by = b => told[j] # {}
      BY <1>0, <2>1, <3>2 DEF KeptAlone
    <3> QED BY <1>2, <1>3, <1>4, <2>2, <3>1, <3>3 DEF KeptAlone, In
  <2>3. CASE b # home[t]
    BY <1>1, <1>3, <1>4, <2>1, <2>3 DEF KeptAlone, In
  <2> QED BY <2>2, <2>3
<1> QED BY <1>6, <1>7, <1>8, <1>9, <1>10, <1>11 DEF EditInv

\* What the server does to the histories keeps every answer true, its own included.
LEMMA RequestStep ==
    ASSUME EditInv, save' = save, NEW k \in Keys, save[k] # None, NEW answer,
           \/ Transact(k, answer)
           \/ answer \in {"denied", "unsure"} /\ hist' = hist
    PROVE  /\ HistoriesHold'
           /\ hist' \in [Docs -> Seq(Keys)]
           /\ \A d \in Docs : Len(hist[d]) <= Len(hist'[d]) /\ Len(hist'[d]) <= MaxRevisions
           /\ Cardinality(Stored)' <= MaxDocuments
           /\ \A j \in Keys, a \in Definite : save[j] # None /\ AnswerHolds(j, a) => AnswerHolds(j, a)'
           /\ \A a \in Definite : a = answer => AnswerHolds(k, a)'
<1>1. CASE hist' = hist /\ AnswerHolds(k, answer)
  <2>1. HistoriesHold' /\ Cardinality(Stored)' <= MaxDocuments
    BY <1>1 DEF EditInv, TypeOK, HistoriesHold, Stored
  <2>2. \A j \in Keys, a \in Definite : AnswerHolds(j, a) => AnswerHolds(j, a)'
    BY <1>1 DEF AnswerHolds, Barred, Committed, Stored
  <2>3. /\ \A d \in Docs : Len(hist[d]) <= Len(hist[d]) /\ Len(hist[d]) <= MaxRevisions
        /\ hist \in [Docs -> Seq(Keys)]
    BY DEF EditInv, TypeOK
  <2>4. \A a \in Definite : a = answer => AnswerHolds(k, a)'
    BY <1>1, <2>2
  <2> QED BY <1>1, <2>1, <2>2, <2>3, <2>4
<1>2. CASE Inserts(k) /\ answer \in {"saved", "unsure"}
  <2>1. \A a \in Definite : a = answer => AnswerHolds(k, a)'
    BY <1>2, InsertStep DEF AnswerHolds
  <2> QED BY <1>2, <2>1, InsertStep
<1>3. CASE answer \in {"denied", "unsure"} /\ hist' = hist
  BY <1>1, <1>3 DEF AnswerHolds
<1> QED BY <1>1, <1>2, <1>3, TransactEnds

\* The server answers a request: one revision more, or an answer only.
LEMMA HandleStep ==
    ASSUME EditInv, NEW k \in Keys, NEW n \in 1 .. MaxPosts, Handle(k, n)
    PROVE  EditInv'
<1>1. /\ save[k] # None /\ UNCHANGED <<home, save, posts, slot, told>>
      /\ wire' \subseteq wire
  BY DEF Handle, EditInv, MessagesHold
<1>2. PICK answer \in Definite \cup {"unsure"} :
          /\ \/ Transact(k, answer)
             \/ answer \in {"denied", "unsure"} /\ hist' = hist
          /\ tab' = [t \in Tabs |->
                        IF In(t, "waiting") /\ tab[t].pending = k /\ tab[t].req = n
                        THEN [tab[t] EXCEPT !.phase = "answered", !.reply = answer] ELSE tab[t]]
  BY DEF Handle
<1>3. /\ HistoriesHold'
      /\ hist' \in [Docs -> Seq(Keys)]
      /\ \A d \in Docs : Len(hist[d]) <= Len(hist'[d]) /\ Len(hist'[d]) <= MaxRevisions
      /\ Cardinality(Stored)' <= MaxDocuments
      /\ \A j \in Keys, a \in Definite : save[j] # None /\ AnswerHolds(j, a) => AnswerHolds(j, a)'
      /\ \A a \in Definite : a = answer => AnswerHolds(k, a)'
  BY <1>1, <1>2, RequestStep
<1>4. ASSUME NEW u \in Tabs
      PROVE  /\ tab'[u] \in Session /\ tab'[u].doc = tab[u].doc /\ tab'[u].head = tab[u].head
             /\ tab'[u].seen = tab[u].seen /\ tab'[u].resumed = tab[u].resumed
             /\ tab'[u].pending = tab[u].pending
             /\ \/ tab'[u].phase = tab[u].phase /\ tab'[u].reply = tab[u].reply
                \/ /\ tab[u].phase = "waiting" /\ tab'[u].phase = "answered"
                   /\ tab[u].pending = k /\ tab'[u].reply = answer
  <2> DEFINE s == [tab[u] EXCEPT !.phase = "answered", !.reply = answer]
  <2>1. tab[u] \in Session
    BY SessionParts
  <2>2. s \in Session
    BY <2>1, Zenon DEF Session
  <2>3. /\ s.doc = tab[u].doc /\ s.head = tab[u].head /\ s.seen = tab[u].seen
        /\ s.resumed = tab[u].resumed /\ s.pending = tab[u].pending
        /\ s.phase = "answered" /\ s.reply = answer
    BY <2>1 DEF Session
  <2>4. \/ tab'[u] = tab[u]
        \/ tab'[u] = s /\ tab[u].phase = "waiting" /\ tab[u].pending = k
    BY <1>2, Zenon DEF In
  <2> HIDE DEF s
  <2> QED BY <2>1, <2>2, <2>3, <2>4
<1>5. TypeOK'
  <2>1. tab' = [u \in Tabs |-> tab'[u]]
    BY <1>2, Zenon
  <2>2. tab' \in [Tabs -> Session]
    BY <1>4, <2>1
  <2> QED BY <1>1, <1>3, <2>2 DEF EditInv, TypeOK
<1>6. \A j \in Keys : save[j] # None => /\ save[j].doc \in Docs /\ save[j].base \in Nat
                                        /\ Len(hist[save[j].doc]) \in Nat
                                        /\ Len(hist'[save[j].doc]) \in Nat
  BY <1>3 DEF EditInv, TypeOK, Save
<1>7. SavesHold'
  <2> SUFFICES ASSUME NEW j \in Keys
               PROVE  /\ save[j] = None => told[j] = {}
                      /\ save[j] # None => /\ save[j].base <= Len(hist'[save[j].doc])
                                           /\ save[j].resumed \/ save[j].base <= save[j].seen
                      /\ \A a \in Definite : a \in told[j] => AnswerHolds(j, a)'
    BY <1>1 DEF SavesHold
  <2>1. save[j] # None => save[j].base <= Len(hist'[save[j].doc])
    BY <1>3, <1>6 DEF EditInv, SavesHold
  <2>2. \A a \in Definite : a \in told[j] => AnswerHolds(j, a)'
    BY <1>3 DEF EditInv, SavesHold
  <2> QED BY <2>1, <2>2 DEF EditInv, SavesHold
<1>8. MessagesHold'
  BY <1>1 DEF EditInv, MessagesHold
<1>9. SessionsHold'
  <2> SUFFICES ASSUME NEW u \in Tabs PROVE Sound(tab[u], home[u])'
    BY DEF SessionsHold
  <2>1. /\ Sound(tab[u], home[u]) /\ tab[u].pending \in Keys \cup {None} /\ tab[u].head \in Nat
        /\ \A d \in Docs : Len(hist[d]) \in Nat /\ Len(hist'[d]) \in Nat
    BY <1>3, SessionParts DEF EditInv, TypeOK
  <2>2. tab[u].phase # "closed" => tab[u].head <= Len(hist'[tab[u].doc])
    BY <1>3, <2>1 DEF Sound
  <2> QED BY <1>1, <1>3, <1>4, <2>1, <2>2 DEF Sound
<1>10. KeptHold'
  <2> SUFFICES ASSUME NEW b \in Browsers, Alone(b) PROVE KeptAlone(b)'
    BY <1>1 DEF KeptHold, Alone
  <2>1. KeptAlone(b)
    BY DEF EditInv, KeptHold
  <2> QED BY <1>1, <1>4, <2>1 DEF KeptAlone, In
<1> QED BY <1>3, <1>5, <1>7, <1>8, <1>9, <1>10 DEF EditInv

\* A request is lost, or nothing happens.
LEMMA LostStep ==
    ASSUME EditInv, wire' \subseteq wire, UNCHANGED <<home, hist, save, posts, tab, slot, told>>
    PROVE  EditInv'
<1>1. /\ TypeOK' /\ HistoriesHold' /\ MessagesHold' /\ KeptHold'
  BY DEF EditInv, TypeOK, HistoriesHold, MessagesHold, KeptHold, KeptAlone, Alone, In, Stored
<1>2. \A k \in Keys, answer \in Definite : AnswerHolds(k, answer)' <=> AnswerHolds(k, answer)
  BY DEF AnswerHolds, Barred, Committed, Stored
<1>3. SavesHold'
  BY <1>2 DEF EditInv, SavesHold
<1>4. SessionsHold'
  BY <1>2 DEF EditInv, SessionsHold, Sound
<1> QED BY <1>1, <1>3, <1>4 DEF EditInv

-----------------------------------------------------------------------------
(***************************************************************************)
(* The theorems.                                                           *)
(***************************************************************************)
LEMMA InitEdits == Init => EditInv
<1> SUFFICES ASSUME Init PROVE EditInv
  OBVIOUS
<1>1. Closed \in Session /\ Closed.phase = "closed" /\ Closed.pending = None
  BY BoundAssumption DEF Closed, Session
<1>2. /\ Stored = {} /\ \A d \in Docs : hist[d] = <<>> /\ Len(hist[d]) = 0
      /\ \A t \in Tabs : tab[t] = Closed
      /\ \A k \in Keys : save[k] = None /\ told[k] = {}
  BY DEF Init, Stored
<1>3. IsFiniteSet(Stored) /\ Cardinality(Stored) = 0
  BY <1>2, FS_EmptySet
<1>4. TypeOK
  BY <1>1, <1>3, BoundAssumption DEF Init, TypeOK
<1>5. HistoriesHold /\ SavesHold /\ MessagesHold
  BY <1>2, <1>3 DEF Init, HistoriesHold, SavesHold, MessagesHold
<1>6. SessionsHold
  BY <1>1, <1>2 DEF SessionsHold, Sound
<1>7. KeptHold
  BY <1>1, <1>2 DEF KeptHold, KeptAlone, In
<1> QED BY <1>4, <1>5, <1>6, <1>7 DEF EditInv

LEMMA NextEdits == EditInv /\ [Next]_vars => EditInv'
<1> SUFFICES ASSUME EditInv, [Next]_vars PROVE EditInv'
  OBVIOUS
<1>1. ASSUME NEW k \in Keys, NEW n \in 1 .. MaxPosts, Handle(k, n) \/ Lost(k, n) PROVE EditInv'
  BY <1>1, HandleStep, LostStep DEF Lost
<1>2. ASSUME NEW t \in Tabs,
             \/ Resume(t) \/ Open(t) \/ LoadLatest(t) \/ NewSave(t) \/ Retry(t)
             \/ Saved(t) \/ Rejected(t) \/ Unconfirmed(t) \/ Reload(t)
      PROVE  EditInv'
  BY <1>2, ResumeStep, OpenStep, LoadStep, NewSaveStep, RetryStep, SavedStep, RejectedStep,
     UnconfirmedStep, ReloadStep
<1>3. CASE UNCHANGED vars
  BY <1>3, LostStep DEF vars
<1> QED BY <1>1, <1>2, <1>3 DEF Next

\* The inductive invariant: histories in which each save is on the revision it was
\* based on, answers that stay true, sessions on heads that exist, and the one
\* unanswered save of a lone window in its storage.
THEOREM EditsInvariant == Spec => []EditInv
BY InitEdits, NextEdits, PTL DEF Spec

\* The types hold, and the histories and collections stay within their limits.
THEOREM EditTypes == Spec => []TypeOK
<1>1. EditInv => TypeOK
  BY DEF EditInv
<1> QED BY <1>1, EditsInvariant, PTL

\* What a window was told is saved is in the history for good, for any number of
\* windows, repeated requests, lost answers and reloads.
THEOREM NoEarlySaved == Spec => []AcknowledgedIsDurable
<1>1. EditInv => AcknowledgedIsDurable
  BY DEF EditInv, SavesHold, SessionsHold, Sound, HistoriesHold, AnswerHolds, Definite, In,
         AcknowledgedIsDurable
<1> QED BY <1>1, EditsInvariant, PTL

\* A save that was rejected for a conflict or a limit is never committed, not by a
\* request before the one that was answered and not by one still on its way.
THEOREM RejectedSavesStayOut == Spec => []ConflictMeansNotSaved
<1>1. EditInv => ConflictMeansNotSaved
  BY DEF EditInv, SavesHold, AnswerHolds, Barred, Definite, ConflictMeansNotSaved
<1> QED BY <1>1, EditsInvariant, PTL

\* The only window of a browser never loses a save that has no definite answer.
THEOREM UnconfirmedSavesKept == Spec => []UnconfirmedIsKept
<1>1. EditInv => UnconfirmedIsKept
  <2> SUFFICES ASSUME EditInv, NEW k \in Keys, save[k] # None, told[k] = {}, Alone(save[k].by)
               PROVE  slot[save[k].by] = k
    BY DEF UnconfirmedIsKept
  <2>1. save[k].by \in Browsers
    BY DEF EditInv, TypeOK, Save
  <2> QED BY <2>1 DEF EditInv, KeptHold, KeptAlone
<1> QED BY <1>1, EditsInvariant, PTL

\* A window that was not opened on an unconfirmed save never asks to replace a
\* revision it has not shown.
THEOREM OnlySeenReplaced == Spec => []OverwritesSeenUnlessResumed
<1>1. EditInv => OverwritesSeenUnlessResumed
  BY DEF EditInv, SavesHold, OverwritesSeenUnlessResumed
<1> QED BY <1>1, EditsInvariant, PTL
=============================================================================
