--------------------------- MODULE NewsEventsProofs ---------------------------
(***************************************************************************)
(* However many builds race, the versions of an event have no gap and no   *)
(* double, and its readers find one package: for that nothing is assumed   *)
(* of how articles are grouped.  The groups themselves, computed by        *)
(* recursion over sets of articles, are a partition of them into stories,  *)
(* and a build that nobody disturbs leaves each of them published.         *)
(***************************************************************************)
EXTENDS NewsEvents, FiniteSetTheorems, TLAPS

(***************************************************************************)
(* Versions.                                                               *)
(***************************************************************************)
\* What the argument needs of a build: that it has the fields of one, whatever
\* their values.
BuildOf(values) ==
    [stage : values, loaded : values, left : values, group : values, seen : values,
     alone : values]
Shaped(b) == \E values : b \in BuildOf(values)

\* The version a transaction has read of an event is not above the current one, as
\* versions only grow.
ReadIsPast ==
    \A p \in Processes :
        builders[p].stage = "commit" /\ builders[p].group.event \in Titles
            => /\ builders[p].seen \in Nat
               /\ builders[p].seen <= current[builders[p].group.event]

\* The versions, with what the builds have read of them.
VersionInv ==
    /\ current \in [Titles -> Nat]
    /\ DOMAIN builders = Processes /\ builders = [p \in Processes |-> builders[p]]
    /\ \A p \in Processes : Shaped(builders[p])
    /\ ReadIsPast
    /\ VersionsAreGapless

\* A process that does nothing has the fields of a build.
LEMMA IdleShape == Shaped(Idle)
<1> DEFINE values == {"idle", {}, NoGroup, 0, TRUE}
<1>1. Idle \in BuildOf(values)
  BY DEF Idle, BuildOf
<1> QED BY <1>1 DEF Shaped

\* Nothing is published, and nothing is read.
LEMMA InitVersions == Init => VersionInv
<1> SUFFICES ASSUME Init PROVE VersionInv
  OBVIOUS
<1>1. current \in [Titles -> Nat] /\ \A t \in Titles : current[t] = 0
  BY DEF Init
<1>2. /\ DOMAIN builders = Processes /\ builders = [p \in Processes |-> builders[p]]
      /\ \A p \in Processes : Shaped(builders[p]) /\ builders[p].stage = "idle"
  BY IdleShape DEF Init, Idle
<1>3. ReadIsPast
  BY <1>2 DEF ReadIsPast
<1>4. VersionsAreGapless
  <2>1. packages = {}
    BY DEF Init
  <2>2. \A t \in Titles : {k.version : k \in {q \in packages : q.event = t}} = {} /\ 1..current[t] = {}
    BY <2>1, <1>1
  <2> QED BY <2>1, <2>2 DEF VersionsAreGapless
<1> QED BY <1>1, <1>2, <1>3, <1>4 DEF VersionInv

\* A step that changes one build, none of the events, and reads nothing for a
\* commit keeps the invariant.
LEMMA OneBuildMoves ==
    ASSUME VersionInv, NEW p \in Processes, NEW b,
           UNCHANGED <<current, packages>>,
           builders' = [builders EXCEPT ![p] = b],
           Shaped(b),
           b.stage = "commit" /\ b.group.event \in Titles
               => b.seen \in Nat /\ b.seen <= current[b.group.event]
    PROVE  VersionInv'
<1>1. current' \in [Titles -> Nat]
  BY DEF VersionInv
<1>2. /\ DOMAIN builders' = Processes /\ builders' = [q \in Processes |-> builders'[q]]
      /\ builders'[p] = b /\ \A q \in Processes \ {p} : builders'[q] = builders[q]
  BY DEF VersionInv
<1>3. \A q \in Processes : Shaped(builders'[q])
  BY <1>2 DEF VersionInv
<1>4. ReadIsPast'
  BY <1>2 DEF VersionInv, ReadIsPast, Titles
<1>5. VersionsAreGapless'
  BY DEF VersionInv, VersionsAreGapless, Titles
<1> QED BY <1>1, <1>2, <1>3, <1>4, <1>5 DEF VersionInv, Shaped, Titles

\* Moving on to the next group leaves a build that holds no version.
LEMMA ProceedShape ==
    ASSUME NEW b, Shaped(b)
    PROVE  Shaped(Proceed(b)) /\ Proceed(b).stage # "commit"
<1>1. PICK values : b \in BuildOf(values)
  BY DEF Shaped
<1> DEFINE more == values \cup {"done", "look", NoGroup, 0}
<1>2. b \in BuildOf(more)
  BY <1>1 DEF BuildOf
<1>3. Proceed(b) \in BuildOf(more)
  BY <1>2 DEF BuildOf, Proceed
<1>4. Proceed(b).stage # "commit"
  BY <1>1 DEF BuildOf, Proceed
<1> QED BY <1>3, <1>4 DEF Shaped

\* The updates of a build that the steps make.
LEMMA AloneShape ==
    ASSUME NEW b, Shaped(b), NEW x, NEW r, r = [b EXCEPT !.alone = x]
    PROVE  Shaped(r) /\ r.stage = b.stage /\ r.group = b.group /\ r.seen = b.seen
<1>1. PICK values : b \in BuildOf(values)
  BY DEF Shaped
<1>2. PICK more : more = values \cup {x}
  OBVIOUS
<1>3. b \in BuildOf(more) /\ x \in more
  BY <1>1, <1>2 DEF BuildOf
<1>4. r \in BuildOf(more) /\ r.stage = b.stage /\ r.group = b.group /\ r.seen = b.seen
  BY <1>3 DEF BuildOf
<1> QED BY <1>4 DEF Shaped

LEMMA LeftShape ==
    ASSUME NEW b, Shaped(b), NEW x, NEW r, r = [b EXCEPT !.left = x]
    PROVE  Shaped(r)
<1>1. PICK values : b \in BuildOf(values)
  BY DEF Shaped
<1>2. PICK more : more = values \cup {x}
  OBVIOUS
<1>3. b \in BuildOf(more) /\ x \in more
  BY <1>1, <1>2 DEF BuildOf
<1>4. r \in BuildOf(more)
  BY <1>3 DEF BuildOf
<1> QED BY <1>4 DEF Shaped

LEMMA GroupShape ==
    ASSUME NEW b, Shaped(b), NEW x, NEW r, r = [b EXCEPT !.stage = "read", !.group = x]
    PROVE  Shaped(r) /\ r.stage = "read"
<1>1. PICK values : b \in BuildOf(values)
  BY DEF Shaped
<1>2. PICK more : more = values \cup {"read", x}
  OBVIOUS
<1>3. b \in BuildOf(more) /\ "read" \in more /\ x \in more
  BY <1>1, <1>2 DEF BuildOf
<1>4. r \in BuildOf(more) /\ r.stage = "read"
  BY <1>3 DEF BuildOf
<1> QED BY <1>4 DEF Shaped

LEMMA LoadedShape ==
    ASSUME NEW b, Shaped(b), NEW x, NEW y, NEW r, r = [b EXCEPT !.stage = "look", !.loaded = x, !.left = y]
    PROVE  Shaped(r) /\ r.stage = "look"
<1>1. PICK values : b \in BuildOf(values)
  BY DEF Shaped
<1>2. PICK more : more = values \cup {"look", x, y}
  OBVIOUS
<1>3. b \in BuildOf(more) /\ "look" \in more /\ x \in more /\ y \in more
  BY <1>1, <1>2 DEF BuildOf
<1>4. r \in BuildOf(more) /\ r.stage = "look"
  BY <1>3 DEF BuildOf
<1> QED BY <1>4 DEF Shaped

\* A published version is the one after the current one: the version read is not
\* above it, and what is not above it is taken.
LEMMA CommitIsNext ==
    ASSUME VersionInv, NEW p \in Processes, Commit(p), builders[p].group.event \in Titles
    PROVE  builders[p].seen = current[builders[p].group.event]
<1> DEFINE event == builders[p].group.event
           seen == builders[p].seen
<1>1. seen \in Nat /\ seen <= current[event] /\ current[event] \in Nat
  BY DEF VersionInv, ReadIsPast, Commit
<1>2. {k.version : k \in {q \in packages : q.event = event}} = 1..current[event]
  BY DEF VersionInv, VersionsAreGapless
<1>3. seen + 1 \notin {k.version : k \in {q \in packages : q.event = event}}
  BY DEF Commit, VersionIsFree
<1>4. seen + 1 \notin 1..current[event]
  BY <1>2, <1>3
<1> QED BY <1>1, <1>4

\* A commit publishes the version after the current one.
LEMMA CommitVersions ==
    ASSUME VersionInv, NEW p \in Processes, Commit(p)
    PROVE  VersionInv'
<1> DEFINE b == builders[p]
           event == b.group.event
           new == [event |-> event, version |-> b.seen + 1, members |-> b.group.members]
<1>1. /\ packages' = packages \cup {new}
      /\ current' = [current EXCEPT ![event] = b.seen + 1]
      /\ builders' = [q \in Processes |->
            IF q = p THEN Proceed(b) ELSE [builders[q] EXCEPT !.alone = builders[q] = Idle]]
      /\ VersionIsFree(event, b.seen + 1)
      /\ UNCHANGED articles
  BY DEF Commit
<1>2. \A t \in Titles : current'[t] = IF t = event THEN current[t] + 1 ELSE current[t]
  BY <1>1, CommitIsNext DEF VersionInv
<1>3. current' \in [Titles -> Nat]
  <2>1. current \in [Titles -> Nat]
    BY DEF VersionInv
  <2>2. \A t \in Titles : current'[t] \in Nat
    BY <1>2, <2>1
  <2>3. current' = [t \in Titles |-> current'[t]]
    BY <1>1, <2>1
  <2> QED BY <2>2, <2>3
<1>4. /\ DOMAIN builders' = Processes /\ builders' = [q \in Processes |-> builders'[q]]
  BY <1>1
<1>5. \A q \in Processes : Shaped(builders'[q]) /\ (builders'[q].stage = "commit" =>
          /\ builders[q].stage = "commit"
          /\ builders'[q].group = builders[q].group /\ builders'[q].seen = builders[q].seen)
  <2> SUFFICES ASSUME NEW q \in Processes
      PROVE  Shaped(builders'[q]) /\ (builders'[q].stage = "commit" =>
          /\ builders[q].stage = "commit"
          /\ builders'[q].group = builders[q].group /\ builders'[q].seen = builders[q].seen)
    OBVIOUS
  <2>1. Shaped(builders[q])
    BY DEF VersionInv
  <2>2. CASE q = p
    BY <1>1, <2>1, <2>2, ProceedShape
  <2>3. CASE q # p
    <3>1. PICK alone : alone = (builders[q] = Idle)
      OBVIOUS
    <3>2. builders'[q] = [builders[q] EXCEPT !.alone = alone]
      BY <1>1, <2>3, <3>1
    <3> QED BY <2>1, <3>2, AloneShape
  <2> QED BY <2>2, <2>3
<1>6. ReadIsPast'
  <2> SUFFICES ASSUME NEW q \in Processes, builders'[q].stage = "commit",
                      builders'[q].group.event \in Titles
      PROVE  /\ builders'[q].seen \in Nat
             /\ builders'[q].seen <= current'[builders'[q].group.event]
    BY DEF ReadIsPast, Titles
  <2>1. /\ builders[q].seen \in Nat /\ builders'[q].seen = builders[q].seen
        /\ builders[q].seen <= current[builders'[q].group.event]
    BY <1>5 DEF VersionInv, ReadIsPast
  <2>2. /\ current[builders'[q].group.event] \in Nat /\ current'[builders'[q].group.event] \in Nat
        /\ current[builders'[q].group.event] <= current'[builders'[q].group.event]
    BY <1>2, <1>3 DEF VersionInv
  <2> QED BY <2>1, <2>2
<1>7. VersionsAreGapless'
  <2>1. \A j, k \in packages' : j.event = k.event /\ j.version = k.version => j = k
    BY <1>1 DEF VersionInv, VersionsAreGapless, VersionIsFree
  <2>2. ASSUME NEW t \in Titles
        PROVE  {k.version : k \in {q \in packages' : q.event = t}} = 1..current'[t]
    <3>1. {k.version : k \in {q \in packages : q.event = t}} = 1..current[t] /\ current[t] \in Nat
      BY DEF VersionInv, VersionsAreGapless
    <3>2. CASE t = event
      <4>1. {k.version : k \in {q \in packages' : q.event = t}}
            = {k.version : k \in {q \in packages : q.event = t}} \cup {new.version}
        <5>1. new.event = t
          BY <3>2
        <5> HIDE DEF new
        <5>2. {q \in packages' : q.event = t} = {q \in packages : q.event = t} \cup {new}
          BY <1>1, <5>1
        <5> QED BY <5>2
      <4>2. b.seen = current[t] /\ current'[t] = current[t] + 1
        BY <1>2, <3>2, CommitIsNext
      <4>3. new.version = current[t] + 1
        BY <4>2
      <4> HIDE DEF new
      <4> QED BY <3>1, <4>1, <4>2, <4>3
    <3>3. CASE t # event
      <4>1. {q \in packages' : q.event = t} = {q \in packages : q.event = t}
        BY <1>1, <3>3
      <4> QED BY <1>2, <3>1, <3>3, <4>1
    <3> QED BY <3>2, <3>3
  <2> QED BY <2>1, <2>2 DEF VersionsAreGapless, Titles
<1> QED BY <1>3, <1>4, <1>5, <1>6, <1>7 DEF VersionInv, Shaped, Titles

\* Every step keeps the versions without gap and double.
LEMMA StepVersions == VersionInv /\ [Next]_vars => VersionInv'
<1> SUFFICES ASSUME VersionInv, [Next]_vars PROVE VersionInv'
  OBVIOUS
<1>1. ASSUME UNCHANGED <<current, packages, builders>> PROVE VersionInv'
  BY <1>1 DEF VersionInv, Shaped, ReadIsPast, VersionsAreGapless, Titles
<1>2. CASE DayPasses
  BY <1>1, <1>2 DEF DayPasses
<1>3. ASSUME NEW s \in Sources, SetEnabled(s) PROVE VersionInv'
  BY <1>1, <1>3 DEF SetEnabled
<1>4. ASSUME NEW i \in Items, NEW c \in Feed[i], Collect(i, c) PROVE VersionInv'
  BY <1>1, <1>4 DEF Collect
<1>5. ASSUME NEW p \in Processes, BeginBuild(p) PROVE VersionInv'
  <2> DEFINE b == [Idle EXCEPT !.stage = "look", !.loaded = Loaded, !.left = Groups(Loaded)]
  <2>1. Shaped(Idle)
    BY IdleShape
  <2>2. b.stage = "look" /\ Shaped(b)
    BY <2>1, LoadedShape
  <2> HIDE DEF b
  <2>3. builders' = [builders EXCEPT ![p] = b] /\ UNCHANGED <<current, packages>>
    BY <1>5 DEF BeginBuild, b
  <2> QED BY <2>2, <2>3, OneBuildMoves
<1>6. ASSUME NEW p \in Processes, Look(p) PROVE VersionInv'
  <2>1. PICK group : LET rest == [builders[p] EXCEPT !.left = @ \ {group}] IN
            builders' = [builders EXCEPT ![p] =
                IF Unchanged(group) THEN Proceed(rest)
                ELSE [rest EXCEPT !.stage = "read", !.group = group]]
    BY <1>6 DEF Look
  <2> DEFINE rest == [builders[p] EXCEPT !.left = @ \ {group}]
             b == IF Unchanged(group) THEN Proceed(rest)
                  ELSE [rest EXCEPT !.stage = "read", !.group = group]
  <2>2. Shaped(rest)
    BY LeftShape DEF VersionInv
  <2>3. b.stage # "commit" /\ Shaped(b)
    <3> HIDE DEF rest
    <3>1. CASE Unchanged(group)
      BY <2>2, <3>1, ProceedShape
    <3>2. CASE ~Unchanged(group)
      BY <2>2, <3>2, GroupShape
    <3> QED BY <3>1, <3>2
  <2>4. builders' = [builders EXCEPT ![p] = b] /\ UNCHANGED <<current, packages>>
    BY <1>6, <2>1 DEF Look
  <2> HIDE DEF b
  <2> QED BY <2>3, <2>4, OneBuildMoves
<1>7. ASSUME NEW p \in Processes, Read(p) PROVE VersionInv'
  <2> DEFINE seen == current[builders[p].group.event]
             b == [builders[p] EXCEPT !.stage = "commit", !.seen = seen]
  <2>1. Shaped(b) /\ b.seen = seen /\ b.group = builders[p].group
    <3>1. PICK values : builders[p] \in BuildOf(values)
      BY DEF VersionInv, Shaped
    <3>2. PICK more : more = values \cup {"commit", seen}
      OBVIOUS
    <3> HIDE DEF seen
    <3>3. builders[p] \in BuildOf(more) /\ "commit" \in more /\ seen \in more
      BY <3>1, <3>2 DEF BuildOf
    <3>4. b \in BuildOf(more) /\ b.seen = seen /\ b.group = builders[p].group
      BY <3>3 DEF BuildOf
    <3> QED BY <3>4 DEF Shaped
  <2>2. b.group.event \in Titles => seen \in Nat /\ seen <= seen
    BY <2>1 DEF VersionInv
  <2>3. builders' = [builders EXCEPT ![p] = b] /\ UNCHANGED <<current, packages>>
    BY <1>7 DEF Read, VersionInv
  <2> HIDE DEF b
  <2> QED BY <2>1, <2>2, <2>3, OneBuildMoves
<1>8. ASSUME NEW p \in Processes, Commit(p) PROVE VersionInv'
  BY <1>8, CommitVersions
<1>9. ASSUME NEW p \in Processes, PublishFails(p) PROVE VersionInv'
  <2> DEFINE failed == [builders[p] EXCEPT !.alone = FALSE]
             b == Proceed(failed)
  <2>1. Shaped(failed)
    BY AloneShape DEF VersionInv
  <2>2. b.stage # "commit" /\ Shaped(b)
    BY <2>1, ProceedShape
  <2>3. builders' = [builders EXCEPT ![p] = b] /\ UNCHANGED <<current, packages>>
    BY <1>9 DEF PublishFails
  <2> HIDE DEF b
  <2> QED BY <2>2, <2>3, OneBuildMoves
<1>10. ASSUME NEW p \in Processes, EndBuild(p) PROVE VersionInv'
  <2>1. Idle.stage # "commit" /\ Shaped(Idle)
    BY IdleShape DEF Idle
  <2>2. builders' = [builders EXCEPT ![p] = Idle] /\ UNCHANGED <<current, packages>>
    BY <1>10 DEF EndBuild
  <2> QED BY <2>1, <2>2, OneBuildMoves
<1>11. CASE UNCHANGED vars
  BY <1>1, <1>11 DEF vars
<1> QED
  BY <1>2, <1>3, <1>4, <1>5, <1>6, <1>7, <1>8, <1>9, <1>10, <1>11 DEF Next

\* Builds of two processes, or of one after a crash, only ever publish the version
\* after the current one, because what a transaction has read is never above it.
THEOREM VersionsInvariant == Spec => []VersionInv
<1> QED BY InitVersions, StepVersions, PTL DEF Spec

\* Of every event, the packages are those of versions 1 to the current one, one
\* of each, whatever builds race, fail or die (event_package_service.py:57).
THEOREM VersionsHold == Spec => []VersionsAreGapless
<1>1. VersionInv => VersionsAreGapless
  BY DEF VersionInv
<1> QED BY <1>1, VersionsInvariant, PTL

\* get_event_package: an event that has been published is never without its
\* package, nor has two.
ReadersFindOne ==
    \A t \in Titles : current[t] > 0 => \E members : Published(t) = {members}

\* Readers of a published event find its package while others publish, as both are
\* written in one commit (event_package_service.py:51).
THEOREM ReadersAreServed == Spec => []ReadersFindOne
<1>1. VersionInv => ReadersFindOne
  <2> SUFFICES ASSUME VersionInv, NEW t \in Titles, current[t] > 0
      PROVE  \E members : Published(t) = {members}
    BY DEF ReadersFindOne
  <2>1. /\ current[t] \in Nat
        /\ {k.version : k \in {q \in packages : q.event = t}} = 1..current[t]
        /\ \A j, k \in packages : j.event = k.event /\ j.version = k.version => j = k
    BY DEF VersionInv, VersionsAreGapless
  <2>2. PICK k \in packages : k.event = t /\ k.version = current[t]
    <3>1. current[t] \in 1..current[t]
      BY <2>1
    <3> QED BY <2>1, <3>1
  <2>3. {q \in packages : q.event = t /\ q.version = current[t]} = {k}
    BY <2>1, <2>2
  <2>4. Published(t) = {k.members}
    BY <2>3 DEF Published
  <2> QED BY <2>4
<1> QED BY <1>1, VersionsInvariant, PTL

(***************************************************************************)
(* Recursion over the subsets of a finite set.                             *)
(***************************************************************************)
\* What holds of a set when it holds of its smaller subsets holds of all subsets.
LEMMA SubsetInduction ==
    ASSUME NEW S, IsFiniteSet(S), NEW Good,
           \A T \in SUBSET S : (\A U \in SUBSET T : U # T => U \in Good) => T \in Good
    PROVE  SUBSET S \subseteq Good
<1> DEFINE bad == {T \in SUBSET S : T \notin Good}
           R == StrictSubsetOrdering(S)
<1> SUFFICES ASSUME bad # {} PROVE FALSE
  OBVIOUS
<1>1. IsWellFoundedOn(R, FiniteSubsetsOf(S))
  BY FS_StrictSubsetOrderingWellFounded
<1>2. bad \subseteq FiniteSubsetsOf(S)
  BY FS_Subset DEF FiniteSubsetsOf
<1>3. PICK T \in bad : \A U \in bad : <<U, T>> \notin R
  <2> HIDE DEF bad, R
  <2> QED BY <1>1, <1>2, WFMin
<1>4. \A U \in SUBSET T : U # T => U \in Good
  <2> SUFFICES ASSUME NEW U \in SUBSET T, U # T, U \notin Good PROVE FALSE
    OBVIOUS
  <2>1. U \in bad
    OBVIOUS
  <2>2. <<U, T>> \in R
    BY <2>1 DEF StrictSubsetOrdering
  <2> QED BY <1>3, <2>1, <2>2
<1> QED BY <1>4

\* f computes on the subsets of T, from that of a smaller set, a value of every set.
Solves(f, T, V, b, sub, G) ==
    /\ f \in [SUBSET T -> V]
    /\ \A R \in SUBSET T : f[R] = IF R = {} THEN b ELSE G[R][f[sub[R]]]

\* Two functions that compute the same agree where both are defined.
LEMMA SolutionsAgree ==
    ASSUME NEW S, IsFiniteSet(S), NEW V, NEW b, NEW sub, NEW G,
           \A R \in SUBSET S : R # {} => sub[R] \in SUBSET R /\ sub[R] # R,
           NEW A \in SUBSET S, NEW B \in SUBSET A, NEW f, NEW g,
           Solves(f, A, V, b, sub, G), Solves(g, B, V, b, sub, G)
    PROVE  \A R \in SUBSET B : f[R] = g[R]
<1> DEFINE Good == {R \in SUBSET B : f[R] = g[R]}
<1>1. IsFiniteSet(B)
  BY FS_Subset
<1>2. ASSUME NEW T \in SUBSET B, \A U \in SUBSET T : U # T => U \in Good
      PROVE  T \in Good
  <2>1. CASE T = {}
    BY <2>1 DEF Solves
  <2>2. CASE T # {}
    <3>1. sub[T] \in Good
      BY <1>2, <2>2
    <3>2. f[T] = G[T][f[sub[T]]] /\ g[T] = G[T][g[sub[T]]]
      BY <2>2 DEF Solves
    <3> QED BY <3>1, <3>2
  <2> QED BY <2>1, <2>2
<1>3. SUBSET B \subseteq Good
  <2> HIDE DEF Good
  <2> QED BY <1>1, <1>2, SubsetInduction, Zenon
<1> QED BY <1>3

\* There is such a function, when every set but the empty one has a smaller set to
\* go on with.
LEMMA SubsetRecursion ==
    ASSUME NEW S, IsFiniteSet(S), NEW V, NEW b \in V, NEW sub,
           \A R \in SUBSET S : R # {} => sub[R] \in SUBSET R /\ sub[R] # R,
           NEW G \in [SUBSET S -> [V -> V]]
    PROVE  \E f : Solves(f, S, V, b, sub, G)
<1> DEFINE Good == {T \in SUBSET S : \E f : Solves(f, T, V, b, sub, G)}
<1>1. ASSUME NEW T \in SUBSET S, \A U \in SUBSET T : U # T => U \in Good
      PROVE  T \in Good
  <2> DEFINE h(U) == CHOOSE f : Solves(f, U, V, b, sub, G)
  <2>1. \A U \in SUBSET T : U # T => Solves(h(U), U, V, b, sub, G)
    BY <1>1
  <2> HIDE DEF h
  <2> DEFINE F == [R \in SUBSET T |-> IF R # T THEN h(R)[R]
                                      ELSE IF T = {} THEN b ELSE G[T][h(sub[T])[sub[T]]]]
  <2>2. ASSUME NEW R \in SUBSET T, R # T PROVE F[R] = h(R)[R] /\ F[R] \in V
    <3>1. h(R) \in [SUBSET R -> V] /\ R \in SUBSET R
      BY <2>1, <2>2 DEF Solves
    <3>2. F[R] = h(R)[R]
      BY <2>2
    <3> QED BY <3>1, <3>2
  <2>3. F[T] = IF T = {} THEN b ELSE G[T][h(sub[T])[sub[T]]]
    OBVIOUS
  <2>4. F = [R \in SUBSET T |-> F[R]]
    OBVIOUS
  <2> HIDE DEF F
  <2>5. ASSUME NEW R \in SUBSET T, R # {}
        PROVE  F[R] = G[R][F[sub[R]]] /\ F[R] \in V
    <3>1. sub[R] \in SUBSET R /\ sub[R] # R /\ sub[R] \in SUBSET T /\ sub[R] # T /\ R \in SUBSET S
      BY <2>5
    <3>2. F[sub[R]] = h(sub[R])[sub[R]] /\ F[sub[R]] \in V
      BY <2>2, <3>1
    <3>3. CASE R = T
      BY <2>3, <2>5, <3>1, <3>2, <3>3
    <3>4. CASE R # T
      <4>1. Solves(h(R), R, V, b, sub, G) /\ Solves(h(sub[R]), sub[R], V, b, sub, G)
        BY <2>1, <3>1, <3>4
      <4>2. h(R)[sub[R]] = h(sub[R])[sub[R]]
        <5> DEFINE f == h(R)
                   g == h(sub[R])
        <5>1. Solves(f, R, V, b, sub, G) /\ Solves(g, sub[R], V, b, sub, G)
          BY <4>1
        <5> HIDE DEF f, g
        <5> DEFINE B == sub[R]
        <5>3. R \in SUBSET S /\ B \in SUBSET R /\ B \in SUBSET B /\ Solves(g, B, V, b, sub, G)
          BY <5>1, <3>1
        <5> HIDE DEF B
        <5>4. \A U \in SUBSET B : f[U] = g[U]
          BY <5>1, <5>3, SolutionsAgree
        <5>2. f[sub[R]] = g[sub[R]]
          BY <5>3, <5>4 DEF B
        <5> QED BY <5>2 DEF f, g
      <4>3. h(R)[R] = G[R][h(R)[sub[R]]]
        BY <2>5, <4>1 DEF Solves
      <4> QED BY <2>2, <3>2, <3>4, <4>2, <4>3
    <3> QED BY <3>3, <3>4
  <2>6. {} \in SUBSET T => F[{}] = b
    <3>1. CASE T = {}
      BY <2>3, <3>1
    <3>2. CASE T # {}
      <4>1. Solves(h({}), {}, V, b, sub, G)
        BY <2>1, <3>2
      <4> QED BY <2>2, <3>2, <4>1 DEF Solves
    <3> QED BY <3>1, <3>2
  <2>7. Solves(F, T, V, b, sub, G)
    <3>1. \A R \in SUBSET T : F[R] = (IF R = {} THEN b ELSE G[R][F[sub[R]]]) /\ F[R] \in V
      BY <2>5, <2>6
    <3>2. F \in [SUBSET T -> V]
      BY <2>4, <3>1, Zenon
    <3> QED BY <3>1, <3>2 DEF Solves
  <2> QED BY <2>7
<1>2. SUBSET S \subseteq Good
  <2> HIDE DEF Good
  <2> QED BY <1>1, SubsetInduction
<1> QED BY <1>2

(***************************************************************************)
(* The headline of a group: the first of its articles.                     *)
(***************************************************************************)
Stored == {i \in Items : articles[i] # None}

\* What a row that was stored says.
RowsAre ==
    \A i \in Stored : /\ articles[i].time \in Nat /\ articles[i].dated \in BOOLEAN
                      /\ IsFiniteSet(articles[i].title)

\* The order of headlines is total: of two rows that agree, the ids decide.
LEMMA BeforeIsOrder ==
    ASSUME RowsAre
    PROVE  /\ \A i, j \in Stored : Before(i, j) \/ Before(j, i)
           /\ \A i, j \in Stored : Before(i, j) /\ Before(j, i) => i = j
           /\ \A i, j, k \in Stored : Before(i, j) /\ Before(j, k) => Before(i, k)
<1>1. \A i \in Stored : /\ i \in Nat /\ SourceOf[i] \in Nat
                         /\ articles[i].time \in Nat /\ articles[i].dated \in BOOLEAN
  BY NewsAssumption DEF RowsAre, Stored
<1> QED BY <1>1 DEF Before

\* There are finitely many rows.
LEMMA StoredIsFinite == IsFiniteSet(Stored)
BY NewsAssumption, FS_Subset DEF Stored

\* Of all the articles of a group, one comes first.
LEMMA FirstExists ==
    ASSUME RowsAre, NEW group \in SUBSET Stored, group # {}
    PROVE  \E m \in group : \A i \in group : Before(m, i)
<1> DEFINE Good == {g \in SUBSET Stored : g # {} => \E m \in g : \A i \in g : Before(m, i)}
<1>1. ASSUME NEW g \in SUBSET Stored, \A h \in SUBSET g : h # g => h \in Good
      PROVE  g \in Good
  <2> SUFFICES ASSUME NEW x \in g
               PROVE  \E m \in g : \A i \in g : Before(m, i)
    OBVIOUS
  <2>1. g \ {x} \in Good
    BY <1>1
  <2>2. x \in Stored /\ Before(x, x)
    BY BeforeIsOrder
  <2>3. CASE g \ {x} = {}
    BY <2>2, <2>3
  <2>4. CASE g \ {x} # {}
    <3>1. PICK m \in g \ {x} : \A i \in g \ {x} : Before(m, i)
      BY <2>1, <2>4
    <3>2. CASE Before(m, x)
      BY <3>1, <3>2
    <3>3. CASE ~Before(m, x)
      <4>1. Before(x, m) /\ m \in Stored
        BY <2>2, <3>3, BeforeIsOrder
      <4>2. \A i \in g : Before(x, i)
        BY <2>2, <3>1, <4>1, BeforeIsOrder
      <4> QED BY <4>2
    <3> QED BY <3>2, <3>3
  <2> QED BY <2>3, <2>4
<1>2. SUBSET Stored \subseteq Good
  <2> HIDE DEF Good
  <2> QED BY <1>1, StoredIsFinite, SubsetInduction
<1> QED BY <1>2

\* The headline of a group is one of its articles, and comes before the others.
LEMMA MedoidIsFirst ==
    RowsAre =>
        \A group \in SUBSET Stored : group # {} =>
            /\ Medoid(group) \in group
            /\ \A i \in group : Before(Medoid(group), i)
<1> SUFFICES ASSUME RowsAre, NEW group \in SUBSET Stored, group # {}
             PROVE  Medoid(group) \in group /\ \A i \in group : Before(Medoid(group), i)
  OBVIOUS
<1>1. \E m \in group : \A i \in group : Before(m, i)
  BY FirstExists
<1> QED BY <1>1, Zenon DEF Medoid

\* Part of a group that has its headline has the same one.
LEMMA MedoidOfPart ==
    ASSUME RowsAre, NEW group \in SUBSET Stored, NEW part \in SUBSET group, Medoid(group) \in part
    PROVE  Medoid(part) = Medoid(group)
<1>1. Medoid(part) \in part /\ Before(Medoid(part), Medoid(group)) /\ Before(Medoid(group), Medoid(part))
  BY MedoidIsFirst
<1> QED BY <1>1, BeforeIsOrder

\* Likeness has no direction.
LEMMA MergeIsSymmetric ==
    ASSUME RowsAre, NEW i \in Stored, NEW j \in Stored
    PROVE  /\ ShouldMerge(i, i)
           /\ ShouldMerge(i, j) <=> ShouldMerge(j, i)
           /\ Compared(i, j) <=> Compared(j, i)
<1>1. Apart(i, j) = Apart(j, i)
  BY DEF RowsAre, Apart
<1>2. \A s, t : s \cap t = t \cap s /\ s \cup t = t \cup s
  OBVIOUS
<1>3. Similar(articles[i].title, articles[j].title) <=> Similar(articles[j].title, articles[i].title)
  BY <1>2, Zenon DEF Similar
<1> QED BY <1>1, <1>3 DEF ShouldMerge, Compared

(***************************************************************************)
(* The components.                                                         *)
(***************************************************************************)
LEMMA ComponentIsClosed ==
    ASSUME NEW records, NEW i \in records
    PROVE  /\ i \in ComponentOf(i, records) /\ ComponentOf(i, records) \subseteq records
           /\ Closed(ComponentOf(i, records), records)
           /\ \A set \in SUBSET records :
                  i \in set /\ Closed(set, records) => ComponentOf(i, records) \subseteq set
BY DEF ComponentOf, Closed

\* The components part the records, and nothing in two of them is compared and alike.
LEMMA ComponentsPart ==
    ASSUME RowsAre, NEW records \in SUBSET Stored
    PROVE  /\ UNION Components(records) = records
           /\ \A c, d \in Components(records) : c # d =>
                  /\ c \cap d = {}
                  /\ \A i \in c, j \in d : ~(Compared(i, j) /\ ShouldMerge(i, j))
<1> DEFINE C(i) == ComponentOf(i, records)
<1>1. \A i \in records : i \in C(i) /\ C(i) \subseteq records /\ Closed(C(i), records)
  BY ComponentIsClosed
<1>2. \A i \in records : \A set \in SUBSET records : i \in set /\ Closed(set, records) => C(i) \subseteq set
  BY ComponentIsClosed
<1>3. UNION Components(records) = records
  BY <1>1 DEF Components
<1>4. ASSUME NEW i \in records, NEW j \in C(i)
      PROVE  C(j) = C(i)
  <2>1. j \in records /\ C(j) \subseteq C(i)
    BY <1>1, <1>2
  <2>2. i \in C(j)
    <3> SUFFICES ASSUME i \notin C(j) PROVE FALSE
      OBVIOUS
    <3> DEFINE rest == C(i) \ C(j)
    <3>1. ASSUME NEW k \in rest, NEW l \in records, Compared(k, l), ShouldMerge(k, l)
          PROVE  l \in rest
      <4>1. l \in C(i) /\ k \in records
        BY <1>1, <3>1 DEF Closed
      <4>2. Compared(l, k) /\ ShouldMerge(l, k)
        BY <3>1, <4>1, MergeIsSymmetric
      <4>3. l \notin C(j)
        BY <1>1, <2>1, <3>1, <4>1, <4>2 DEF Closed
      <4> QED BY <4>1, <4>3
    <3>2. Closed(rest, records)
      BY <3>1 DEF Closed
    <3>3. i \in rest /\ rest \in SUBSET records
      BY <1>1
    <3>4. C(i) \subseteq rest
      BY <1>2, <3>2, <3>3
    <3> QED BY <1>1, <2>1, <3>4
  <2>3. C(i) \subseteq C(j)
    BY <1>1, <1>2, <2>1, <2>2
  <2> QED BY <2>1, <2>3
<1> HIDE DEF C
<1>5. ASSUME NEW i \in records, NEW j \in records, C(i) # C(j)
      PROVE  /\ C(i) \cap C(j) = {}
             /\ \A k \in C(i), l \in C(j) : ~(Compared(k, l) /\ ShouldMerge(k, l))
  <2>1. C(i) \cap C(j) = {}
    BY <1>4, <1>5
  <2>2. ASSUME NEW k \in C(i), NEW l \in C(j), Compared(k, l), ShouldMerge(k, l) PROVE FALSE
    BY <1>1, <2>1, <2>2 DEF Closed
  <2> QED BY <2>1, <2>2
<1> QED BY <1>3, <1>5 DEF Components, C

(***************************************************************************)
(* The clusters: what is not like the headline is grouped again.           *)
(***************************************************************************)
\* The function that Clusters defines by recursion.
Split(component) ==
    CHOOSE split : split = [rest \in SUBSET component |->
        IF rest = {} THEN {} ELSE {Kept(rest)} \cup split[rest \ Kept(rest)]]

\* The clusters are what the recursion makes of the whole component.
LEMMA ClustersAreSplit ==
    ASSUME NEW component
    PROVE  Clusters(component) = Split(component)[component]
BY Zenon DEF Clusters, Split

\* The headline of the rest is kept, so that less is left.
LEMMA KeptIsPart ==
    ASSUME RowsAre, NEW rest \in SUBSET Stored, rest # {}
    PROVE  /\ Medoid(rest) \in Kept(rest) /\ Kept(rest) \subseteq rest
           /\ rest \ Kept(rest) \in SUBSET rest /\ rest \ Kept(rest) # rest
           /\ Medoid(Kept(rest)) = Medoid(rest)
<1>1. Medoid(rest) \in rest
  BY MedoidIsFirst
<1>2. Medoid(rest) \in Stored
  BY <1>1
<1>3. ShouldMerge(Medoid(rest), Medoid(rest))
  BY <1>2, MergeIsSymmetric
<1>4. Medoid(rest) \in Kept(rest) /\ Kept(rest) \in SUBSET rest
  BY <1>1, <1>3 DEF Kept
<1>5. Medoid(Kept(rest)) = Medoid(rest)
  <2> DEFINE part == Kept(rest)
  <2>1. part \in SUBSET rest /\ Medoid(rest) \in part
    BY <1>4
  <2> HIDE DEF part
  <2>2. Medoid(part) = Medoid(rest)
    BY <2>1, MedoidOfPart
  <2> QED BY <2>2 DEF part
<1> QED BY <1>4, <1>5

\* It exists, and computes what its definition says.
LEMMA SplitComputes ==
    ASSUME RowsAre, NEW component \in SUBSET Stored
    PROVE  \A rest \in SUBSET component :
                Split(component)[rest] = IF rest = {} THEN {}
                    ELSE {Kept(rest)} \cup Split(component)[rest \ Kept(rest)]
<1> DEFINE V == SUBSET SUBSET component
           sub == [rest \in SUBSET component |-> rest \ Kept(rest)]
           G == [rest \in SUBSET component |->
                    [v \in V |-> {Kept(rest)} \cup v]]
<1>1. IsFiniteSet(component)
  BY StoredIsFinite, FS_Subset
<1>2. \A rest \in SUBSET component : Kept(rest) \in SUBSET component
  BY DEF Kept
<1>3. G \in [SUBSET component -> [V -> V]]
  <2> SUFFICES ASSUME NEW rest \in SUBSET component PROVE [v \in V |-> {Kept(rest)} \cup v] \in [V -> V]
    OBVIOUS
  <2> QED BY <1>2
<1>4. \A R \in SUBSET component : R # {} => sub[R] \in SUBSET R /\ sub[R] # R
  BY KeptIsPart
<1>5. {} \in V
  OBVIOUS
<1>6. \A R \in SUBSET component : sub[R] = R \ Kept(R) /\ \A v \in V : G[R][v] = {Kept(R)} \cup v
  OBVIOUS
<1> HIDE DEF V, sub, G
<1>7. PICK f : Solves(f, component, V, {}, sub, G)
  BY <1>1, <1>3, <1>4, <1>5, SubsetRecursion
<1>8. f \in [SUBSET component -> V]
  BY <1>7 DEF Solves
<1>9. ASSUME NEW R \in SUBSET component
      PROVE  f[R] = IF R = {} THEN {} ELSE {Kept(R)} \cup f[R \ Kept(R)]
  <2>1. R \ Kept(R) \in SUBSET component
    OBVIOUS
  <2>2. f[R \ Kept(R)] \in V
    BY <1>8, <2>1
  <2>3. f[R] = IF R = {} THEN {} ELSE G[R][f[sub[R]]]
    BY <1>7 DEF Solves
  <2> QED BY <1>6, <2>2, <2>3
<1>10. f = [rest \in SUBSET component |->
               IF rest = {} THEN {} ELSE {Kept(rest)} \cup f[rest \ Kept(rest)]]
  <2> DEFINE H == [rest \in SUBSET component |->
               IF rest = {} THEN {} ELSE {Kept(rest)} \cup f[rest \ Kept(rest)]]
  <2>1. \A R \in SUBSET component : f[R] = H[R]
    BY <1>9
  <2>2. f = [R \in SUBSET component |-> f[R]] /\ H = [R \in SUBSET component |-> H[R]]
    BY <1>8, Zenon
  <2> HIDE DEF H
  <2>3. f = H
    BY <2>1, <2>2, Zenon
  <2> QED BY <2>3 DEF H
<1>11. Split(component) = [rest \in SUBSET component |->
               IF rest = {} THEN {} ELSE {Kept(rest)} \cup Split(component)[rest \ Kept(rest)]]
  BY <1>10, Zenon DEF Split
<1>12. ASSUME NEW R \in SUBSET component
      PROVE  Split(component)[R] = IF R = {} THEN {} ELSE {Kept(R)} \cup Split(component)[R \ Kept(R)]
  BY <1>11
<1> QED BY <1>12

\* The rest is parted into clusters of articles like their headline, whose
\* headlines are not alike.
SplitInto(rest, clusters) ==
    /\ UNION clusters = rest
    /\ \A c \in clusters : c # {} /\ \A i \in c : ShouldMerge(i, Medoid(c))
    /\ \A c, d \in clusters : c # d => c \cap d = {} /\ ~ ShouldMerge(Medoid(c), Medoid(d))

\* Nothing that is left is like the headline of what was kept.
LEMMA SplitOfRest ==
    ASSUME RowsAre, NEW rest \in SUBSET Stored, rest # {}, NEW clusters,
           SplitInto(rest \ Kept(rest), clusters)
    PROVE  SplitInto(rest, {Kept(rest)} \cup clusters)
<1> DEFINE kept == Kept(rest)
<1>1. /\ Medoid(rest) \in kept /\ kept \subseteq rest /\ Medoid(kept) = Medoid(rest)
  BY KeptIsPart
<1>2. \A i \in rest : i \in kept <=> ShouldMerge(i, Medoid(kept))
  BY <1>1 DEF Kept
<1>3. ASSUME NEW c \in clusters
      PROVE  /\ c \cap kept = {} /\ Medoid(c) \in rest /\ Medoid(c) \notin kept
             /\ ~ ShouldMerge(Medoid(kept), Medoid(c)) /\ ~ ShouldMerge(Medoid(c), Medoid(kept))
  <2>1. c \subseteq rest \ kept /\ c # {}
    BY DEF SplitInto
  <2>2. Medoid(c) \in c
    BY <2>1, MedoidIsFirst
  <2>3. Medoid(c) \in rest /\ Medoid(c) \notin kept
    BY <2>1, <2>2
  <2>4. Medoid(c) \in Stored /\ Medoid(kept) \in Stored
    BY <1>1, <2>3
  <2> DEFINE m == Medoid(kept)
             n == Medoid(c)
  <2>5. ShouldMerge(m, n) <=> ShouldMerge(n, m)
    <3>1. m \in Stored /\ n \in Stored
      BY <2>4
    <3> HIDE DEF m, n
    <3> QED BY <3>1, MergeIsSymmetric
  <2>6. ~ ShouldMerge(n, m)
    BY <1>2, <2>3
  <2> QED BY <2>1, <2>3, <2>5, <2>6
<1>4. UNION clusters = rest \ kept
  BY DEF SplitInto
<1> HIDE DEF kept
<1>5. UNION ({kept} \cup clusters) = rest
  BY <1>1, <1>4
<1>6. \A c \in {kept} \cup clusters : c # {} /\ \A i \in c : ShouldMerge(i, Medoid(c))
  BY <1>1, <1>2 DEF SplitInto
<1>7. \A c, d \in {kept} \cup clusters : c # d => c \cap d = {} /\ ~ ShouldMerge(Medoid(c), Medoid(d))
  BY <1>3 DEF SplitInto
<1> QED BY <1>5, <1>6, <1>7 DEF SplitInto, kept

\* The clusters of a component part it as the recursion goes on.
LEMMA ClustersSplit ==
    ASSUME RowsAre, NEW component \in SUBSET Stored
    PROVE  SplitInto(component, Clusters(component))
<1> DEFINE split == Split(component)
           Good == {rest \in SUBSET component : SplitInto(rest, split[rest])}
<1>1. IsFiniteSet(component)
  BY StoredIsFinite, FS_Subset
<1>2. \A rest \in SUBSET component :
          split[rest] = IF rest = {} THEN {} ELSE {Kept(rest)} \cup split[rest \ Kept(rest)]
  BY SplitComputes
<1> HIDE DEF split
<1>3. ASSUME NEW T \in SUBSET component, \A U \in SUBSET T : U # T => U \in Good
      PROVE  T \in Good
  <2>1. CASE T = {}
    BY <1>2, <2>1 DEF SplitInto
  <2>2. CASE T # {}
    <3>1. T \ Kept(T) \in SUBSET T /\ T \ Kept(T) # T /\ T \in SUBSET Stored
      BY <2>2, KeptIsPart
    <3>2. SplitInto(T \ Kept(T), split[T \ Kept(T)])
      BY <1>3, <3>1
    <3>3. SplitInto(T, {Kept(T)} \cup split[T \ Kept(T)])
      BY <2>2, <3>1, <3>2, SplitOfRest
    <3> QED BY <1>2, <2>2, <3>3
  <2> QED BY <2>1, <2>2
<1>4. SUBSET component \subseteq Good
  <2> HIDE DEF Good
  <2> QED BY <1>1, <1>3, SubsetInduction, Zenon
<1>5. SplitInto(component, split[component])
  BY <1>4
<1> QED BY <1>5, ClustersAreSplit DEF split

(***************************************************************************)
(* The groups of a build.                                                  *)
(***************************************************************************)
\* What a build makes of its articles.
Stories(records) ==
    LET groups == Groups(records) IN
    /\ UNION {g.members : g \in groups} = records
    /\ \A g \in groups : \A i \in g.members : ShouldMerge(i, g.medoid)
    /\ \A g, h \in groups : g # h =>
           /\ g.members \cap h.members = {}
           /\ ~(Compared(g.medoid, h.medoid) /\ ShouldMerge(g.medoid, h.medoid))
           /\ Twins(records) \/ g.event # h.event

\* Whatever the articles, their groups are stories, named after their headlines.
LEMMA GroupsTellStories ==
    ASSUME RowsAre, NEW records \in SUBSET Stored
    PROVE  /\ Stories(records)
           /\ \A g \in Groups(records) :
                 /\ g = [event |-> articles[g.medoid].title, medoid |-> g.medoid, members |-> g.members]
                 /\ g.members \subseteq records /\ g.medoid \in g.members
<1> DEFINE clusters == UNION {Clusters(d) : d \in Components(records)}
<1>1. \A d \in Components(records) : SplitInto(d, Clusters(d))
  <2> SUFFICES ASSUME NEW d \in Components(records) PROVE SplitInto(d, Clusters(d))
    OBVIOUS
  <2>1. d \in SUBSET Stored
    BY ComponentsPart
  <2> QED BY <2>1, ClustersSplit
<1>2. UNION clusters = records
  <2>1. \A d \in Components(records) : UNION Clusters(d) = d
    BY <1>1 DEF SplitInto
  <2>2. UNION Components(records) = records
    BY ComponentsPart
  <2> QED BY <2>1, <2>2
<1>3. ASSUME NEW c \in clusters
      PROVE  c \subseteq records /\ Medoid(c) \in c /\ \A i \in c : ShouldMerge(i, Medoid(c))
  <2>1. PICK d \in Components(records) : c \in Clusters(d)
    OBVIOUS
  <2>2. SplitInto(d, Clusters(d))
    BY <1>1
  <2>3. c # {} /\ c \subseteq records /\ \A i \in c : ShouldMerge(i, Medoid(c))
    BY <1>2, <2>1, <2>2 DEF SplitInto
  <2>4. Medoid(c) \in c
    BY <2>3, MedoidIsFirst
  <2> QED BY <2>3, <2>4
<1>4. ASSUME NEW c \in clusters, NEW e \in clusters, c # e
      PROVE  c \cap e = {} /\ ~(Compared(Medoid(c), Medoid(e)) /\ ShouldMerge(Medoid(c), Medoid(e)))
  <2>1. PICK d \in Components(records) : c \in Clusters(d)
    OBVIOUS
  <2>2. PICK f \in Components(records) : e \in Clusters(f)
    OBVIOUS
  <2>3. SplitInto(d, Clusters(d)) /\ SplitInto(f, Clusters(f))
    BY <1>1
  <2>4. CASE d = f
    BY <1>4, <2>1, <2>2, <2>3, <2>4 DEF SplitInto
  <2>5. CASE d # f
    <3>1. d \cap f = {} /\ \A i \in d, j \in f : ~(Compared(i, j) /\ ShouldMerge(i, j))
      BY <2>5, ComponentsPart
    <3>2. c \subseteq d /\ e \subseteq f
      BY <2>1, <2>2, <2>3 DEF SplitInto
    <3>3. Medoid(c) \in c /\ Medoid(e) \in e
      BY <1>3
    <3> QED BY <3>1, <3>2, <3>3
  <2> QED BY <2>4, <2>5
<1>5. Groups(records) = {Group(c) : c \in clusters}
  BY DEF Groups
<1> HIDE DEF clusters
<1>6. ASSUME NEW g \in Groups(records)
      PROVE  /\ g.members \in clusters /\ g.medoid = Medoid(g.members)
             /\ g.event = articles[g.medoid].title
             /\ g = [event |-> articles[g.medoid].title, medoid |-> g.medoid, members |-> g.members]
             /\ g = Group(g.members)
  BY <1>5 DEF Group, EventOf
<1>7. UNION {g.members : g \in Groups(records)} = records
  <2>1. {g.members : g \in Groups(records)} = clusters
    <3>1. \A c \in clusters : Group(c) \in Groups(records) /\ Group(c).members = c
      BY <1>5 DEF Group
    <3> QED BY <1>6, <3>1
  <2> QED BY <1>2, <2>1
<1>8. \A g \in Groups(records) : \A i \in g.members : ShouldMerge(i, g.medoid)
  BY <1>3, <1>6
<1>9. ASSUME NEW g \in Groups(records), NEW h \in Groups(records), g # h
      PROVE  /\ g.members \cap h.members = {}
             /\ ~(Compared(g.medoid, h.medoid) /\ ShouldMerge(g.medoid, h.medoid))
             /\ Twins(records) \/ g.event # h.event
  <2>1. g.members # h.members
    BY <1>6, <1>9
  <2>2. /\ g.members \cap h.members = {}
        /\ ~(Compared(g.medoid, h.medoid) /\ ShouldMerge(g.medoid, h.medoid))
    BY <1>4, <1>6, <2>1
  <2>3. g.medoid \in records /\ h.medoid \in records
    BY <1>3, <1>6
  <2>4. g.event = h.event => Twins(records)
    BY <1>6, <2>2, <2>3 DEF Twins
  <2> QED BY <2>2, <2>4
<1>10. Stories(records)
  BY <1>7, <1>8, <1>9 DEF Stories
<1>11. \A g \in Groups(records) : g.members \subseteq records /\ g.medoid \in g.members
  BY <1>3, <1>6
<1> QED BY <1>6, <1>10, <1>11

\* The groups of articles say no more than their rows.
LEMMA GroupsAreStable ==
    ASSUME RowsAre, NEW records \in SUBSET Stored, \A i \in records : articles'[i] = articles[i]
    PROVE  Groups(records)' = Groups(records)
<1>1. ASSUME NEW i \in records, NEW j \in records
      PROVE  /\ Apart(i, j)' = Apart(i, j)
             /\ Compared(i, j)' <=> Compared(i, j)
             /\ ShouldMerge(i, j)' <=> ShouldMerge(i, j)
             /\ Before(i, j)' <=> Before(i, j)
  <2>1. articles'[i] = articles[i] /\ articles'[j] = articles[j]
    OBVIOUS
  <2>2. Apart(i, j)' = Apart(i, j)
    BY <2>1, Zenon DEF Apart
  <2>3. Similar(articles[i].title, articles[j].title)' <=> Similar(articles[i].title, articles[j].title)
    BY <2>1, Zenon DEF Similar
  <2>4. Compared(i, j)' <=> Compared(i, j)
    BY <2>1, <2>2 DEF Compared
  <2>5. ShouldMerge(i, j)' <=> ShouldMerge(i, j)
    BY <2>1, <2>2, <2>3 DEF ShouldMerge
  <2>6. Before(i, j)' <=> Before(i, j)
    BY <2>1 DEF Before
  <2> QED BY <2>2, <2>4, <2>5, <2>6
<1>2. \A group \in SUBSET records : Medoid(group)' = Medoid(group)
  <2> SUFFICES ASSUME NEW group \in SUBSET records PROVE Medoid(group)' = Medoid(group)
    OBVIOUS
  <2>1. \A i, j \in group : Before(i, j)' <=> Before(i, j)
    BY <1>1
  <2> QED BY <2>1, Zenon DEF Medoid
<1>3. ASSUME NEW rest \in SUBSET records PROVE Kept(rest)' = Kept(rest)
  <2>1. CASE rest = {}
    BY <2>1 DEF Kept
  <2>2. CASE rest # {}
    <3>1. PICK m \in rest : m = Medoid(rest)
      BY <2>2, MedoidIsFirst
    <3>2. Medoid(rest)' = m
      BY <1>2, <3>1
    <3>3. \A i \in rest : ShouldMerge(i, m)' <=> ShouldMerge(i, m)
      BY <1>1
    <3>4. Kept(rest) = {i \in rest : ShouldMerge(i, m)}
      BY <3>1 DEF Kept
    <3>5. Kept(rest)' = {i \in rest : ShouldMerge(i, m)'}
      BY <3>2, Zenon DEF Kept
    <3> QED BY <3>3, <3>4, <3>5
  <2> QED BY <2>1, <2>2
<1>4. ASSUME NEW d \in SUBSET records PROVE Clusters(d)' = Clusters(d)
  <2>1. \A split : [rest \in SUBSET d |->
                        IF rest = {} THEN {} ELSE {Kept(rest)'} \cup split[rest \ Kept(rest)']]
                  = [rest \in SUBSET d |->
                        IF rest = {} THEN {} ELSE {Kept(rest)} \cup split[rest \ Kept(rest)]]
    BY <1>3
  <2>2. Split(d)' = Split(d)
    BY <2>1, Zenon DEF Split
  <2>3. Clusters(d) = Split(d)[d] /\ Clusters(d)' = Split(d)'[d]
    BY Zenon DEF Clusters, Split
  <2> QED BY <2>2, <2>3
<1>5. Components(records)' = Components(records)
  <2>1. \A set \in SUBSET records : Closed(set, records)' <=> Closed(set, records)
    BY <1>1 DEF Closed
  <2>2. \A i \in records : ComponentOf(i, records)' = ComponentOf(i, records)
    BY <2>1 DEF ComponentOf
  <2> QED BY <2>2 DEF Components
<1>6. \A d \in Components(records) : d \subseteq records
  BY DEF Components, ComponentOf
<1>7. ASSUME NEW c \in SUBSET records, c # {} PROVE Group(c)' = Group(c)
  <2>1. PICK m \in c : m = Medoid(c)
    BY <1>7, MedoidIsFirst
  <2>2. Medoid(c)' = m /\ articles'[m] = articles[m]
    BY <1>2, <2>1
  <2> QED BY <2>1, <2>2 DEF Group, EventOf
<1>8. UNION {Clusters(d) : d \in Components(records)}' = UNION {Clusters(d) : d \in Components(records)}
  BY <1>4, <1>5, <1>6
<1>9. ASSUME NEW c \in UNION {Clusters(d) : d \in Components(records)}
      PROVE  c \in SUBSET records /\ c # {}
  <2>1. PICK d \in Components(records) : c \in Clusters(d)
    BY <1>9
  <2>2. d \in SUBSET Stored /\ d \subseteq records
    BY <1>6, <2>1
  <2>3. SplitInto(d, Clusters(d))
    BY <2>2, ClustersSplit
  <2> QED BY <2>1, <2>2, <2>3 DEF SplitInto
<1> DEFINE clusters == UNION {Clusters(d) : d \in Components(records)}
<1>10. PICK made : made = clusters
  OBVIOUS
<1>11. clusters' = made
  BY <1>8, <1>10
<1>12. \A c \in made : Group(c)' = Group(c)
  BY <1>7, <1>9, <1>10
<1>13. Groups(records) = {Group(c) : c \in made} /\ Groups(records)' = {Group(c)' : c \in made}
  BY <1>10, <1>11 DEF Groups
<1> QED BY <1>12, <1>13

(***************************************************************************)
(* Builds.                                                                 *)
(***************************************************************************)
\* Readers of an event find one package at most.
LEMMA PublishedIsOne ==
    ASSUME VersionInv, NEW t \in Titles, NEW x \in Published(t)
    PROVE  Published(t) = {x}
BY DEF VersionInv, VersionsAreGapless, Published

\* A group of a build is still to come, is at hand, is what readers get, or has
\* its event taken by another of the build.
Handled(b, g) ==
    \/ g \in b.left
    \/ b.stage \in {"read", "commit"} /\ b.group = g
    \/ Published(g.event) = {g.members}
    \/ \E h \in Groups(b.loaded) : h # g /\ h.event = g.event

\* What a build holds is made of its articles, and while it is alone it has lost
\* none of its groups.
InHand(b) ==
    /\ b.loaded \subseteq Stored
    /\ b.left \subseteq Groups(b.loaded)
    /\ b.stage \in {"read", "commit"} => b.group \in Groups(b.loaded)
    /\ b.stage = "done" => b.left = {}
    /\ b.stage # "idle" /\ b.alone => \A g \in Groups(b.loaded) : Handled(b, g)

\* The builds, with the types they need.
StoryInv ==
    /\ TypeOK
    /\ articles = [i \in Items |-> articles[i]]
    /\ \A p \in Processes : InHand(builders[p])

\* A row is what a feed once said, dated at the latest when it was stored.
LEMMA TypesOfRows ==
    TypeOK => RowsAre /\ \A i \in Stored : articles[i].title \in Titles
<1> SUFFICES ASSUME TypeOK, NEW i \in Stored
             PROVE  /\ articles[i].time \in Nat /\ articles[i].dated \in BOOLEAN
                    /\ IsFiniteSet(articles[i].title) /\ articles[i].title \in Titles
  BY DEF RowsAre
<1>0. PICK c \in Feed[i] : articles[i] \in {[c EXCEPT !.time = d] : d \in {c.time} \cup FirstDay..MaxDay}
  BY DEF TypeOK, Stored
<1>1. PICK d \in {c.time} \cup FirstDay..MaxDay : articles[i] = [c EXCEPT !.time = d]
  BY <1>0
<1>2. /\ i \in Items /\ c \in [title : {c.title}, url : {c.url}, time : Nat, dated : BOOLEAN]
      /\ IsFiniteSet(c.title)
  BY NewsAssumption DEF Stored
<1>3. d \in Nat
  BY <1>2, NewsAssumption
<1>4. articles[i].time = d /\ articles[i].title = c.title /\ articles[i].dated = c.dated
  BY <1>1, <1>2
<1>5. c.title \in Titles
  BY <1>2 DEF Titles
<1> QED BY <1>2, <1>3, <1>4, <1>5

\* The groups of stored articles are of the type that a build holds.
LEMMA TypesOfGroups ==
    ASSUME TypeOK, NEW records \in SUBSET Stored
    PROVE  Groups(records) \subseteq ArticleGroup
<1> SUFFICES ASSUME NEW g \in Groups(records) PROVE g \in ArticleGroup
  OBVIOUS
<1>1. /\ g = [event |-> articles[g.medoid].title, medoid |-> g.medoid, members |-> g.members]
      /\ g.members \subseteq records /\ g.medoid \in g.members
  BY TypesOfRows, GroupsTellStories
<1>2. g.medoid \in Stored /\ g.medoid \in Items /\ g.members \subseteq Items
  BY <1>1 DEF Stored
<1>3. articles[g.medoid].title \in Titles
  BY <1>2, TypesOfRows
<1> DEFINE e == articles[g.medoid].title
           m == g.medoid
           s == g.members
<1>4. g = [event |-> e, medoid |-> m, members |-> s] /\ e \in Titles /\ m \in Items /\ s \in SUBSET Items
  BY <1>1, <1>2, <1>3
<1> HIDE DEF e, m, s
<1> QED BY <1>4 DEF ArticleGroup

\* No process builds yet.
LEMMA InitStories == Init => StoryInv
<1> SUFFICES ASSUME Init PROVE StoryInv
  OBVIOUS
<1>1. Idle \in Builder /\ Idle.loaded = {} /\ Idle.left = {} /\ Idle.stage = "idle"
  BY DEF Idle, Builder
<1>2. TypeOK
  BY <1>1, NewsAssumption DEF Init, TypeOK
<1>3. articles = [i \in Items |-> articles[i]]
  BY DEF Init
<1>4. \A p \in Processes : builders[p] = Idle
  BY DEF Init
<1>5. InHand(Idle)
  BY <1>1 DEF InHand
<1> QED BY <1>2, <1>3, <1>4, <1>5 DEF StoryInv

\* A build in hand stays so in a step that changes none of its rows and, while
\* it is alone, no package.
LEMMA StaysInHand ==
    ASSUME RowsAre, NEW b, InHand(b), NEW c,
           c.loaded = b.loaded, c.left = b.left, c.group = b.group, c.stage = b.stage,
           c.alone => b.alone,
           \A i \in b.loaded : articles'[i] = articles[i] /\ i \in Stored',
           b.stage # "idle" /\ c.alone => UNCHANGED <<packages, current>>
    PROVE  InHand(c)'
<1>1. PICK records \in SUBSET Stored : records = b.loaded
  BY DEF InHand
<1>2. Groups(records)' = Groups(records)
  BY <1>1, GroupsAreStable
<1>3. UNCHANGED <<packages, current>> => \A e : Published(e)' = Published(e)
  BY DEF Published
<1> QED BY <1>1, <1>2, <1>3 DEF InHand, Handled

\* Moving on changes the stage, and neither the articles nor what is left.
LEMMA ProceedIs ==
    ASSUME NEW b \in Builder
    PROVE  /\ Proceed(b) \in Builder
           /\ Proceed(b).stage = (IF b.left = {} THEN "done" ELSE "look")
           /\ Proceed(b).loaded = b.loaded /\ Proceed(b).left = b.left
           /\ Proceed(b).alone = b.alone
BY DEF Proceed, Builder

\* A step that changes one build, and nothing it is made of.
LEMMA OneStory ==
    ASSUME StoryInv, NEW p \in Processes, NEW b,
           UNCHANGED <<now, enabled, articles, current, packages>>, builds' \in 0..MaxBuilds,
           builders' = [builders EXCEPT ![p] = b],
           b \in Builder, InHand(b)'
    PROVE  StoryInv'
<1>1. RowsAre /\ builders \in [Processes -> Builder]
  BY TypesOfRows DEF StoryInv, TypeOK
<1>2. TypeOK'
  BY <1>1 DEF StoryInv, TypeOK, Sources, Titles, Package, Builder, ArticleGroup, NoGroup
<1>3. ASSUME NEW q \in Processes PROVE InHand(builders[q])'
  <2>1. CASE q = p
    <3>1. builders'[q] = b
      BY <1>1, <2>1
    <3> QED BY <3>1
  <2>2. CASE q # p
    <3>1. PICK c : c = builders[q]
      OBVIOUS
    <3>2. builders'[q] = c
      BY <1>1, <2>2, <3>1
    <3>3. InHand(c)
      BY <3>1 DEF StoryInv
    <3>4. \A i \in c.loaded : articles'[i] = articles[i] /\ i \in Stored'
      BY <3>3 DEF InHand, Stored
    <3>5. InHand(c)'
      BY <1>1, <3>3, <3>4, StaysInHand
    <3> QED BY <3>2, <3>5
  <2> QED BY <2>1, <2>2
<1> QED BY <1>2, <1>3 DEF StoryInv

\* The same build, as a step leaves it that changes neither rows nor packages.
LEMMA StillInHand ==
    ASSUME NEW b, InHand(b), UNCHANGED <<articles, current, packages>>, RowsAre
    PROVE  InHand(b)'
<1>1. \A i \in b.loaded : articles'[i] = articles[i] /\ i \in Stored'
  BY DEF InHand, Stored
<1> QED BY <1>1, StaysInHand

\* A build begins with all its groups still to come.
LEMMA BeginStories ==
    ASSUME StoryInv, NEW p \in Processes, BeginBuild(p)
    PROVE  StoryInv'
<1> DEFINE b == [Idle EXCEPT !.stage = "look", !.loaded = Loaded, !.left = Groups(Loaded)]
<1>1. Loaded \subseteq Stored /\ Stored \subseteq Items
  BY DEF Loaded, Recent, Stored
<1>2. RowsAre /\ Groups(Loaded) \subseteq ArticleGroup
  BY <1>1, TypesOfRows, TypesOfGroups DEF StoryInv
<1>3. Idle \in Builder
  BY DEF Idle, Builder
<1>4. PICK l : l = Loaded
  OBVIOUS
<1>5. PICK gs : gs = Groups(l)
  OBVIOUS
<1>6. l \in SUBSET Items /\ gs \in SUBSET ArticleGroup
  BY <1>1, <1>2, <1>4, <1>5
<1>7. PICK c : c = [Idle EXCEPT !.stage = "look", !.loaded = l, !.left = gs]
  OBVIOUS
<1>8. c \in Builder /\ c.stage = "look" /\ c.loaded = l /\ c.left = gs
  BY <1>3, <1>6, <1>7 DEF Builder
<1>9. InHand(c)
  BY <1>1, <1>4, <1>5, <1>8 DEF InHand, Handled
<1>10. InHand(c)'
  BY <1>2, <1>9, StillInHand DEF BeginBuild
<1>11. builders' = [builders EXCEPT ![p] = c]
  BY <1>4, <1>5, <1>7 DEF BeginBuild
<1>12. builds' \in 0..MaxBuilds
  BY NewsAssumption DEF BeginBuild, StoryInv, TypeOK
<1> QED BY <1>8, <1>10, <1>11, <1>12, OneStory DEF BeginBuild

\* Reading the version leaves the group at hand.
LEMMA ReadStories ==
    ASSUME StoryInv, NEW p \in Processes, Read(p)
    PROVE  StoryInv'
<1>1. RowsAre /\ builders \in [Processes -> Builder] /\ InHand(builders[p])
  BY TypesOfRows DEF StoryInv, TypeOK
<1>2. PICK b \in Builder : b = builders[p] /\ InHand(b)
  BY <1>1
<1>3. b.group \in ArticleGroup
  <2>1. b.loaded \in SUBSET Stored /\ b.group \in Groups(b.loaded)
    BY <1>2 DEF InHand, Read
  <2> QED BY <2>1, TypesOfGroups DEF StoryInv
<1>4. PICK n \in Nat : n = current[b.group.event]
  BY <1>3 DEF StoryInv, TypeOK, ArticleGroup
<1>5. PICK c : c = [b EXCEPT !.stage = "commit", !.seen = n]
  OBVIOUS
<1>6. /\ c \in Builder /\ c.stage = "commit" /\ c.loaded = b.loaded /\ c.left = b.left
      /\ c.group = b.group /\ c.alone = b.alone
  BY <1>5 DEF Builder
<1>7. InHand(c)
  BY <1>2, <1>6 DEF InHand, Handled, Read
<1>8. builders' = [builders EXCEPT ![p] = c]
  BY <1>1, <1>2, <1>4, <1>5 DEF Read
<1> QED BY <1>1, <1>6, <1>7, <1>8, StillInHand, OneStory DEF Read, StoryInv, TypeOK

\* A group taken for unchanged is what readers get, any other is at hand.
LEMMA LookStories ==
    ASSUME StoryInv, VersionInv, NEW p \in Processes, Look(p)
    PROVE  StoryInv'
<1>1. RowsAre /\ builders \in [Processes -> Builder] /\ InHand(builders[p])
  BY TypesOfRows DEF StoryInv, TypeOK
<1>2. PICK b \in Builder : b = builders[p] /\ InHand(b)
  BY <1>1
<1>3. PICK group \in b.left :
         LET rest == [b EXCEPT !.left = b.left \ {group}] IN
             builders' = [builders EXCEPT ![p] =
                 IF Unchanged(group) THEN Proceed(rest)
                 ELSE [rest EXCEPT !.stage = "read", !.group = group]]
  BY <1>2 DEF Look
<1>4. PICK rest : rest = [b EXCEPT !.left = b.left \ {group}]
  OBVIOUS
<1>5. /\ b.left \subseteq ArticleGroup /\ group \in ArticleGroup
      /\ group \in Groups(b.loaded) /\ b.stage = "look"
  BY <1>2 DEF Builder, InHand, Look
<1>6. /\ rest \in Builder /\ rest.stage = "look" /\ rest.loaded = b.loaded
      /\ rest.left = b.left \ {group} /\ rest.alone = b.alone
  BY <1>4, <1>5 DEF Builder
<1>7. CASE Unchanged(group)
  <2>1. PICK c : c = Proceed(rest)
    OBVIOUS
  <2>2. /\ c \in Builder /\ c.stage = (IF rest.left = {} THEN "done" ELSE "look")
        /\ c.loaded = b.loaded /\ c.left = b.left \ {group} /\ c.alone = b.alone
    BY <1>6, <2>1, ProceedIs
  <2>3. Published(group.event) = {group.members}
    BY <1>5, <1>7, PublishedIsOne DEF Unchanged, ArticleGroup
  <2>4. InHand(c)
    BY <1>2, <1>5, <1>6, <2>2, <2>3 DEF InHand, Handled
  <2>5. builders' = [builders EXCEPT ![p] = c]
    BY <1>3, <1>4, <1>7, <2>1
  <2> QED BY <1>1, <2>2, <2>4, <2>5, StillInHand, OneStory DEF Look, StoryInv, TypeOK
<1>8. CASE ~Unchanged(group)
  <2>1. PICK c : c = [rest EXCEPT !.stage = "read", !.group = group]
    OBVIOUS
  <2>2. /\ c \in Builder /\ c.stage = "read" /\ c.group = group
        /\ c.loaded = b.loaded /\ c.left = b.left \ {group} /\ c.alone = b.alone
    BY <1>5, <1>6, <2>1 DEF Builder
  <2>3. InHand(c)
    BY <1>2, <1>5, <2>2 DEF InHand, Handled
  <2>4. builders' = [builders EXCEPT ![p] = c]
    BY <1>3, <1>4, <1>8, <2>1
  <2> QED BY <1>1, <2>2, <2>3, <2>4, StillInHand, OneStory DEF Look, StoryInv, TypeOK
<1> QED BY <1>7, <1>8

\* A build whose publication fails is not alone, and owes nothing.
LEMMA FailStories ==
    ASSUME StoryInv, NEW p \in Processes, PublishFails(p)
    PROVE  StoryInv'
<1>1. RowsAre /\ builders \in [Processes -> Builder] /\ InHand(builders[p])
  BY TypesOfRows DEF StoryInv, TypeOK
<1>2. PICK b \in Builder : b = builders[p] /\ InHand(b)
  BY <1>1
<1>3. PICK failed : failed = [b EXCEPT !.alone = FALSE]
  OBVIOUS
<1>4. /\ failed \in Builder /\ failed.loaded = b.loaded /\ failed.left = b.left /\ ~failed.alone
  BY <1>3 DEF Builder
<1>5. PICK c : c = Proceed(failed)
  OBVIOUS
<1>6. /\ c \in Builder /\ c.stage = (IF b.left = {} THEN "done" ELSE "look")
      /\ c.loaded = b.loaded /\ c.left = b.left /\ ~c.alone
  BY <1>4, <1>5, ProceedIs
<1>7. InHand(c)
  BY <1>2, <1>6 DEF InHand
<1>8. builders' = [builders EXCEPT ![p] = c]
  BY <1>2, <1>3, <1>5 DEF PublishFails
<1> QED BY <1>1, <1>6, <1>7, <1>8, StillInHand, OneStory DEF PublishFails, StoryInv, TypeOK

\* A build that ended owes nothing.
LEMMA EndStories ==
    ASSUME StoryInv, NEW p \in Processes, EndBuild(p)
    PROVE  StoryInv'
<1>1. Idle \in Builder /\ Idle.loaded = {} /\ Idle.left = {} /\ Idle.stage = "idle"
  BY DEF Idle, Builder
<1>2. InHand(Idle)
  BY <1>1 DEF InHand
<1>3. RowsAre
  BY TypesOfRows DEF StoryInv
<1>4. PICK c : c = Idle
  OBVIOUS
<1>5. InHand(c)'
  BY <1>2, <1>3, <1>4, StillInHand DEF EndBuild
<1> QED BY <1>1, <1>4, <1>5, OneStory DEF EndBuild, StoryInv, TypeOK

\* A collection stores new rows and changes none.
LEMMA CollectStories ==
    ASSUME StoryInv, NEW i \in Items, NEW c \in Feed[i], Collect(i, c) PROVE StoryInv'
<1>1. RowsAre /\ articles = [j \in Items |-> articles[j]] /\ now \in FirstDay..MaxDay
  BY TypesOfRows DEF StoryInv, TypeOK
<1>2. CASE articles[i] # None
  <2>1. articles' = articles
    BY <1>2 DEF Collect, Persisted
  <2>2. TypeOK'
    BY <2>1 DEF StoryInv, TypeOK, Collect
  <2>3. ASSUME NEW q \in Processes PROVE InHand(builders[q])'
    <3>1. PICK b : b = builders[q] /\ InHand(b)
      BY DEF StoryInv
    <3>2. InHand(b)'
      BY <1>1, <2>1, <3>1, StillInHand DEF Collect
    <3> QED BY <3>1, <3>2 DEF Collect
  <2> QED BY <2>1, <2>2, <2>3 DEF StoryInv
<1>3. CASE articles[i] = None
  <2>1. PICK d \in {c.time} \cup FirstDay..MaxDay : d = (IF c.dated THEN c.time ELSE now)
    BY <1>1
  <2>2. PICK row : row = [c EXCEPT !.time = d]
    OBVIOUS
  <2>3. articles' = [articles EXCEPT ![i] = row]
    BY <1>3, <2>1, <2>2 DEF Collect, Persisted
  <2>4. articles' = [j \in Items |-> articles'[j]] /\ articles'[i] = row
        /\ \A j \in Items \ {i} : articles'[j] = articles[j]
    BY <1>1, <2>3
  <2>5. TypeOK'
    <3>1. \A j \in Items : articles'[j] = None \/
             \E x \in Feed[j] : articles'[j] \in {[x EXCEPT !.time = y] : y \in {x.time} \cup FirstDay..MaxDay}
      BY <2>1, <2>2, <2>4 DEF StoryInv, TypeOK
    <3> QED BY <3>1 DEF StoryInv, TypeOK, Collect
  <2>6. ASSUME NEW q \in Processes PROVE InHand(builders[q])'
    <3>1. PICK b : b = builders[q] /\ InHand(b)
      BY DEF StoryInv
    <3>2. \A j \in b.loaded : articles'[j] = articles[j] /\ j \in Stored'
      BY <1>3, <2>4, <3>1 DEF InHand, Stored
    <3>3. InHand(b)'
      BY <1>1, <3>1, <3>2, StaysInHand DEF Collect
    <3> QED BY <3>1, <3>3 DEF Collect
  <2> QED BY <2>4, <2>5, <2>6 DEF StoryInv
<1> QED BY <1>2, <1>3

\* A commit makes the group at hand what readers get of its event, and disturbs the
\* builds of the others.
LEMMA CommitStories ==
    ASSUME StoryInv, NEW p \in Processes, Commit(p)
    PROVE  StoryInv'
<1>1. RowsAre /\ builders \in [Processes -> Builder] /\ InHand(builders[p])
  BY TypesOfRows DEF StoryInv, TypeOK
<1>2. PICK b \in Builder : b = builders[p] /\ InHand(b)
  BY <1>1
<1>3. b.stage = "commit" /\ b.group \in Groups(b.loaded) /\ b.loaded \in SUBSET Stored
  BY <1>2 DEF InHand, Commit
<1>4. b.group \in ArticleGroup
  BY <1>3, TypesOfGroups DEF StoryInv
<1>5. PICK g \in ArticleGroup : g = b.group
  BY <1>4
<1>6. PICK version \in Nat : version = b.seen + 1
  BY DEF Builder
<1>7. PICK new \in Package : new = [event |-> g.event, version |-> version, members |-> g.members]
  BY DEF Package, ArticleGroup
<1>8. /\ packages' = packages \cup {new}
      /\ current' = [current EXCEPT ![g.event] = version]
      /\ builders' = [q \in Processes |->
            IF q = p THEN Proceed(b) ELSE [builders[q] EXCEPT !.alone = builders[q] = Idle]]
      /\ VersionIsFree(g.event, version)
      /\ UNCHANGED <<now, enabled, articles, builds>>
  BY <1>2, <1>5, <1>6, <1>7 DEF Commit
<1>9. current \in [Titles -> Nat] /\ g.event \in Titles /\ packages \subseteq Package
  BY DEF StoryInv, TypeOK, ArticleGroup
<1>10. Published(g.event)' = {g.members}
  <2>1. current'[g.event] = version
    BY <1>8, <1>9
  <2>2. new.event = g.event /\ new.version = version /\ new.members = g.members
    BY <1>7
  <2>3. {q \in packages' : q.event = g.event /\ q.version = version} = {new}
    BY <1>8, <2>2 DEF VersionIsFree
  <2> QED BY <2>1, <2>2, <2>3 DEF Published
<1>11. ASSUME NEW e, e # g.event PROVE Published(e)' = Published(e)
  <2>1. current'[e] = current[e]
    BY <1>8, <1>9, <1>11
  <2>2. {q \in packages' : q.event = e /\ q.version = current'[e]}
        = {q \in packages : q.event = e /\ q.version = current[e]}
    BY <1>7, <1>8, <1>11, <2>1
  <2> QED BY <2>2 DEF Published
<1>12. PICK c : c = Proceed(b)
  OBVIOUS
<1>13. /\ c \in Builder /\ c.stage = (IF b.left = {} THEN "done" ELSE "look")
       /\ c.loaded = b.loaded /\ c.left = b.left /\ c.alone = b.alone
  BY <1>12, ProceedIs
<1>14. InHand(c)'
  <2>1. Groups(b.loaded)' = Groups(b.loaded)
    <3>1. PICK records \in SUBSET Stored : records = b.loaded
      BY <1>3
    <3>2. Groups(records)' = Groups(records)
      BY <1>1, <1>8, GroupsAreStable
    <3> QED BY <3>1, <3>2
  <2>2. Stored' = Stored
    BY <1>8 DEF Stored
  <2>3. ASSUME NEW h \in Groups(b.loaded), b.alone PROVE Handled(c, h)'
    <3>1. Handled(b, h)
      BY <1>2, <1>3, <2>3 DEF InHand
    <3>2. CASE h.event # g.event
      <4>1. Published(h.event)' = Published(h.event)
        BY <1>11, <3>2
      <4>2. h # g
        BY <3>2
      <4> QED BY <1>5, <1>13, <2>1, <3>1, <4>1, <4>2 DEF Handled
    <3>3. CASE h.event = g.event /\ h # g
      BY <1>3, <1>5, <1>13, <2>1, <3>3 DEF Handled
    <3>4. CASE h = g
      BY <1>10, <3>4 DEF Handled
    <3> QED BY <3>2, <3>3, <3>4
  <2> QED BY <1>2, <1>13, <2>1, <2>2, <2>3 DEF InHand
<1>15. ASSUME NEW q \in Processes
       PROVE  builders'[q] \in Builder /\ InHand(builders[q])'
  <2>1. CASE q = p
    <3>1. builders'[q] = c
      BY <1>8, <1>12, <2>1
    <3> QED BY <1>13, <1>14, <3>1
  <2>2. CASE q # p
    <3>1. PICK d \in Builder : d = builders[q] /\ InHand(d)
      BY <1>1 DEF StoryInv
    <3>2. PICK alone \in BOOLEAN : alone = (d = Idle)
      OBVIOUS
    <3>3. PICK e : e = [d EXCEPT !.alone = alone]
      OBVIOUS
    <3>4. /\ e \in Builder /\ e.stage = d.stage /\ e.loaded = d.loaded /\ e.left = d.left
          /\ e.group = d.group /\ e.alone = alone
      BY <3>3 DEF Builder
    <3>5. alone => d.stage = "idle" /\ d.alone
      <4>1. Idle.stage = "idle" /\ Idle.alone
        BY DEF Idle
      <4>2. alone => d = Idle
        BY <3>2
      <4> QED BY <4>1, <4>2
    <3>6. \A i \in d.loaded : articles'[i] = articles[i] /\ i \in Stored'
      BY <1>8, <3>1 DEF InHand, Stored
    <3>7. InHand(e)'
      BY <1>1, <3>1, <3>4, <3>5, <3>6, StaysInHand
    <3>8. builders'[q] = e
      BY <1>8, <2>2, <3>1, <3>2, <3>3
    <3> QED BY <3>4, <3>7, <3>8
  <2> QED BY <2>1, <2>2
<1>16. TypeOK'
  <2>1. current' \in [Titles -> Nat]
    BY <1>8, <1>9
  <2>2. packages' \subseteq Package
    BY <1>8, <1>9
  <2>3. builders' \in [Processes -> Builder]
    BY <1>8, <1>15
  <2>4. /\ now' \in FirstDay..MaxDay /\ builds' \in 0..MaxBuilds /\ enabled' \subseteq Sources
        /\ articles' = articles
    BY <1>8 DEF StoryInv, TypeOK
  <2> QED BY <2>1, <2>2, <2>3, <2>4 DEF StoryInv, TypeOK, Sources, Titles
<1> QED BY <1>8, <1>15, <1>16 DEF StoryInv

\* Every step keeps the builds in hand.
LEMMA StepStories == StoryInv /\ VersionInv /\ [Next]_vars => StoryInv'
<1> SUFFICES ASSUME StoryInv, VersionInv, [Next]_vars PROVE StoryInv'
  OBVIOUS
<1>1. ASSUME UNCHANGED <<articles, current, packages, builders>>, TypeOK' PROVE StoryInv'
  <2>1. ASSUME NEW q \in Processes PROVE InHand(builders[q])'
    <3>1. PICK b : b = builders[q] /\ InHand(b)
      BY DEF StoryInv
    <3>2. InHand(b)'
      BY <1>1, <3>1, StillInHand, TypesOfRows DEF StoryInv
    <3> QED BY <1>1, <3>1, <3>2
  <2> QED BY <1>1, <2>1 DEF StoryInv
<1>2. CASE DayPasses
  <2>1. TypeOK'
    BY <1>2, NewsAssumption DEF DayPasses, StoryInv, TypeOK, Sources, Titles, Package, Builder, ArticleGroup, NoGroup
  <2> QED BY <1>1, <1>2, <2>1 DEF DayPasses
<1>3. ASSUME NEW s \in Sources, SetEnabled(s) PROVE StoryInv'
  <2>1. TypeOK'
    BY <1>3 DEF SetEnabled, StoryInv, TypeOK, Sources, Titles, Package, Builder, ArticleGroup, NoGroup
  <2> QED BY <1>1, <1>3, <2>1 DEF SetEnabled
<1>4. ASSUME NEW i \in Items, NEW c \in Feed[i], Collect(i, c) PROVE StoryInv'
  BY <1>4, CollectStories
<1>5. ASSUME NEW p \in Processes,
             BeginBuild(p) \/ Look(p) \/ Read(p) \/ Commit(p) \/ PublishFails(p) \/ EndBuild(p)
      PROVE  StoryInv'
  BY <1>5, BeginStories, LookStories, ReadStories, CommitStories, FailStories, EndStories
<1>6. CASE UNCHANGED vars
  <2>1. TypeOK'
    BY <1>6 DEF vars, StoryInv, TypeOK, Sources, Titles, Package, Builder, ArticleGroup, NoGroup
  <2> QED BY <1>1, <1>6, <2>1 DEF vars
<1> QED BY <1>2, <1>3, <1>4, <1>5, <1>6 DEF Next

\* The rows of a build stay as they are, and each of its groups is still to come, is
\* at hand, is what readers get, or has lost its event to another of them.
THEOREM StoryInvariant == Spec => []StoryInv
<1> QED BY InitStories, StepStories, VersionsInvariant, PTL DEF Spec

\* Every variable keeps its type: what is published comes from titles that were
\* collected.
THEOREM NewsTypes == Spec => []TypeOK
<1>1. StoryInv => TypeOK
  BY DEF StoryInv
<1> QED BY <1>1, StoryInvariant, PTL

\* Of whatever articles a build loads, its groups are a partition, of articles like
\* their headline, with no two of one story (heuristic_event_builder.py:391, :435).
THEOREM GroupsTell == Spec => []GroupsAreStories
<1>1. StoryInv => GroupsAreStories
  <2> SUFFICES ASSUME StoryInv, NEW p \in Processes PROVE Stories(builders[p].loaded)
    BY DEF GroupsAreStories, Stories
  <2>1. RowsAre /\ builders[p].loaded \in SUBSET Stored
    BY TypesOfRows DEF StoryInv, InHand
  <2> QED BY <2>1, GroupsTellStories
<1> QED BY <1>1, StoryInvariant, PTL

\* A build that nobody disturbed leaves its articles in the packages that readers get
\* (heuristic_event_builder.py:812).
THEOREM BuildsSettle == Spec => []BuildSettles
<1>1. StoryInv => BuildSettles
  <2> SUFFICES ASSUME StoryInv, NEW p \in Processes, builders[p].stage = "done",
                      builders[p].alone, ~Twins(builders[p].loaded),
                      NEW g \in Groups(builders[p].loaded)
               PROVE  Published(g.event) = {g.members}
    BY DEF BuildSettles
  <2>1. PICK b : b = builders[p] /\ InHand(b)
    BY DEF StoryInv
  <2>2. Handled(b, g) /\ b.left = {}
    BY <2>1 DEF InHand
  <2>3. RowsAre /\ b.loaded \in SUBSET Stored
    BY <2>1, TypesOfRows DEF StoryInv, InHand
  <2>4. Stories(b.loaded)
    BY <2>3, GroupsTellStories
  <2>5. \A h \in Groups(b.loaded) : h # g => h.event # g.event
    BY <2>1, <2>4 DEF Stories
  <2> QED BY <2>1, <2>2, <2>5 DEF Handled
<1> QED BY <1>1, StoryInvariant, PTL

===============================================================================
