------------------------------ MODULE NewsEvents ------------------------------
(***************************************************************************)
(* News: collections store the items of feeds as articles, and builds      *)
(* group the recent articles by title, address and time into events, whose *)
(* versioned packages are all that readers see                             *)
(* (heuristic_event_builder.py, event_package_service.py,                  *)
(* persist_articles.py).  The API and the cron script                      *)
(* (scripts/run_news_pipeline.py) are two processes: "one build at a time" *)
(* holds in each of them, not between them.  Time is in days.              *)
(***************************************************************************)
EXTENDS Integers, FiniteSets

CONSTANTS
    Items,          \* articles, as the order of their ids: a set of naturals
    SourceOf,       \* the source of each, as the order of the sources' ids
    Feed,           \* what the feed may say of each item
    Processes,
    None,
    Lookback,       \* lookback_hours, in days
    MaxArticles,    \* max_articles
    FirstDay, MaxDay, MaxBuilds

ASSUME NewsAssumption ==
    /\ Items \subseteq Nat /\ IsFiniteSet(Items) /\ SourceOf \in [Items -> Nat]
    /\ \A i \in Items : \A c \in Feed[i] :
           /\ c \in [title : {c.title}, url : {c.url}, time : Nat, dated : BOOLEAN]
           /\ c.title # {} /\ IsFiniteSet(c.title)
    /\ Lookback \in Nat /\ MaxArticles \in Nat /\ FirstDay \in Nat
    /\ MaxDay \in Nat /\ FirstDay <= MaxDay /\ MaxBuilds \in Nat

VARIABLES
    now,
    enabled,        \* sources that are enabled
    articles,       \* news_articles: the row of each item, or None
    current,        \* current_package_version of each event, 0 before it is one
    packages,       \* news_event_packages
    builders,       \* the build each process is doing
    builds

vars == <<now, enabled, articles, current, packages, builders, builds>>

Sources == {SourceOf[i] : i \in Items}
Titles == {c.title : c \in UNION {Feed[i] : i \in Items}}

\* What a package says (headline, summary, times, cards and sources) is a
\* function of its members' rows, which never change.
Package == [event : Titles, version : Nat, members : SUBSET Items]

ArticleGroup == [event : Titles, medoid : Items, members : SUBSET Items]
NoGroup == [event |-> None, medoid |-> None, members |-> {}]

\* loaded: the articles of the build; left: the groups still to look at; seen:
\* the version the open transaction read; alone: nobody else has published and
\* nothing failed since it began (kept for the properties only).
Builder == [stage : {"idle", "look", "read", "commit", "done"}, loaded : SUBSET Items,
            left : SUBSET ArticleGroup, group : ArticleGroup \cup {NoGroup},
            seen : Nat, alone : BOOLEAN]
Idle == [stage |-> "idle", loaded |-> {}, left |-> {}, group |-> NoGroup,
         seen |-> 0, alone |-> TRUE]

Init ==
    /\ now = FirstDay
    /\ enabled = Sources
    /\ articles = [i \in Items |-> None]
    /\ current = [t \in Titles |-> 0]
    /\ packages = {}
    /\ builders = [p \in Processes |-> Idle]
    /\ builds = 0

(***************************************************************************)
(* Grouping: group_articles and what it calls.                             *)
(***************************************************************************)
Apart(i, j) ==
    LET d == articles[i].time - articles[j].time IN IF d < 0 THEN -d ELSE d

\* _block_keys: each article is filed under its day and the days around it (the
\* keys with title words only refine these) and under its address.
Compared(i, j) == Apart(i, j) <= 2 \/ articles[i].url = articles[j].url

\* jaccard >= 0.55
Similar(s, t) == 100 * Cardinality(s \cap t) >= 55 * Cardinality(s \cup t)

\* _should_merge
ShouldMerge(i, j) ==
    \/ i = j
    \/ /\ Apart(i, j) <= Lookback
       /\ \/ articles[i].url = articles[j].url
          \/ Similar(articles[i].title, articles[j].title)

\* select_medoid: by date, undated last, then by source and id.
Before(i, j) ==
    LET a == articles[i]  b == articles[j] IN
    \/ a.dated /\ ~b.dated
    \/ a.dated /\ b.dated /\ a.time < b.time
    \/ /\ a.dated = b.dated /\ (a.dated => a.time = b.time)
       /\ SourceOf[i] < SourceOf[j] \/ (SourceOf[i] = SourceOf[j] /\ i <= j)
Medoid(group) == CHOOSE m \in group : \A i \in group : Before(m, i)

\* The union-find over the compared pairs: an article is with those that no set
\* closed under its unions can tell from it.
Closed(set, records) ==
    \A i \in set, j \in records : Compared(i, j) /\ ShouldMerge(i, j) => j \in set
ComponentOf(i, records) ==
    {j \in records : \A set \in SUBSET records : i \in set /\ Closed(set, records) => j \in set}
Components(records) == {ComponentOf(i, records) : i \in records}

\* Mutant of Clusters: no second look at the chains the union-find makes.
ClustersWhole(component) == {component}

\* _medoid_filter: what is not like the medoid is grouped again without it.
Kept(rest) == {i \in rest : ShouldMerge(i, Medoid(rest))}
Clusters(component) ==
    LET split[rest \in SUBSET component] ==
            IF rest = {} THEN {} ELSE {Kept(rest)} \cup split[rest \ Kept(rest)]
    IN  split[component]

\* topic_signature_for, event_id_for: the words of the medoid's title, hashed; the
\* code keeps their repeats, so that it has fewer twins than the model.
EventOf(medoid) == articles[medoid].title

Group(members) ==
    [event |-> EventOf(Medoid(members)), medoid |-> Medoid(members), members |-> members]
Groups(records) == {Group(c) : c \in UNION {Clusters(d) : d \in Components(records)}}

(***************************************************************************)
(* Collections.                                                            *)
(***************************************************************************)
\* persist_normalized_items, ON CONFLICT DO NOTHING: what a feed says later of an
\* item changes nothing.  A row without a date counts as of its creation.
Persisted(i, c) ==
    IF articles[i] = None
    THEN [articles EXCEPT ![i] = [c EXCEPT !.time = IF c.dated THEN c.time ELSE now]]
    ELSE articles

\* _run_collect, one item of the feed.  The source was enabled when the collection
\* began, and may no longer be; one that fails or runs out of its budget has done
\* this or nothing.
Collect(i, c) ==
    /\ articles' = Persisted(i, c)
    /\ UNCHANGED <<now, enabled, current, packages, builders, builds>>

SetEnabled(s) ==
    /\ enabled' = IF s \in enabled THEN enabled \ {s} ELSE enabled \cup {s}
    /\ UNCHANGED <<now, articles, current, packages, builders, builds>>

DayPasses ==
    /\ now < MaxDay /\ now' = now + 1
    /\ UNCHANGED <<enabled, articles, current, packages, builders, builds>>

(***************************************************************************)
(* Builds.                                                                 *)
(***************************************************************************)
\* _load_candidate_articles: the newest of the window, of enabled sources.
Recent == {i \in Items : articles[i] # None /\ SourceOf[i] \in enabled
                         /\ articles[i].time >= now - Lookback}
Newer(i, j) ==
    \/ articles[i].time > articles[j].time
    \/ articles[i].time = articles[j].time /\ i > j
Loaded == {i \in Recent : Cardinality({j \in Recent : Newer(j, i)}) < MaxArticles}

\* A build is refused while another one of the process is going on.
BeginBuild(p) ==
    /\ builders[p] = Idle
    /\ builds < MaxBuilds /\ builds' = builds + 1
    /\ Loaded # {}
    /\ builders' = [builders EXCEPT ![p] =
           [Idle EXCEPT !.stage = "look", !.loaded = Loaded, !.left = Groups(Loaded)]]
    /\ UNCHANGED <<now, enabled, articles, current, packages>>

\* The payload that readers of an event get, as the set of its articles.
Published(event) == {k.members : k \in {q \in packages :
                        q.event = event /\ q.version = current[event]}}

\* On to the next group, if there is one.
Proceed(b) == [b EXCEPT !.stage = IF b.left = {} THEN "done" ELSE "look", !.group = NoGroup,
                       !.seen = 0]

\* Mutant of Unchanged: an event that has a package is taken for unchanged.
UnchangedEvent(group) == Published(group.event) # {}

\* fingerprint_from_package of what is published and of what would be.
Unchanged(group) == group.members \in Published(group.event)

\* Groups come in the order of their event ids, two of one event in that of their
\* medoids' ids.
Look(p) ==
    LET b == builders[p] IN
    /\ b.stage = "look"
    /\ \E group \in b.left :
           /\ \A g \in b.left : g.event = group.event => group.medoid <= g.medoid
           /\ LET rest == [b EXCEPT !.left = @ \ {group}] IN
              builders' = [builders EXCEPT ![p] =
                  IF Unchanged(group) THEN Proceed(rest)
                  ELSE [rest EXCEPT !.stage = "read", !.group = group]]
    /\ UNCHANGED <<now, enabled, articles, current, packages, builds>>

\* publish_event_package: its transaction reads the event, and creates it.
Read(p) ==
    /\ builders[p].stage = "read"
    /\ builders' = [builders EXCEPT ![p].stage = "commit",
                                    ![p].seen = current[builders[p].group.event]]
    /\ UNCHANGED <<now, enabled, articles, current, packages, builds>>

\* Mutant of VersionIsFree: no unique constraint.
AnyVersion(event, version) == TRUE

\* uq_news_event_packages_event_version and the primary key of the events.
VersionIsFree(event, version) ==
    ~ \E k \in packages : k.event = event /\ k.version = version

\* The insert and the update in one commit, or an error for the next group.
Commit(p) ==
    LET b == builders[p]
        event == b.group.event
    IN  /\ b.stage = "commit"
        /\ VersionIsFree(event, b.seen + 1)
        /\ packages' = packages \cup
               {[event |-> event, version |-> b.seen + 1, members |-> b.group.members]}
        /\ current' = [current EXCEPT ![event] = b.seen + 1]
        /\ builders' = [q \in Processes |->
               IF q = p THEN Proceed(b) ELSE [builders[q] EXCEPT !.alone = builders[q] = Idle]]
        /\ UNCHANGED <<now, enabled, articles, builds>>

\* The commit is refused, or the database fails: the build goes on.
PublishFails(p) ==
    /\ builders[p].stage \in {"read", "commit"}
    /\ builders' = [builders EXCEPT ![p] = Proceed([builders[p] EXCEPT !.alone = FALSE])]
    /\ UNCHANGED <<now, enabled, articles, current, packages, builds>>

\* The build returns, its request is cancelled, or the process dies.
EndBuild(p) ==
    /\ builders[p] # Idle
    /\ builders' = [builders EXCEPT ![p] = Idle]
    /\ UNCHANGED <<now, enabled, articles, current, packages, builds>>

Next ==
    \/ DayPasses
    \/ \E s \in Sources : SetEnabled(s)
    \/ \E i \in Items : \E c \in Feed[i] : Collect(i, c)
    \/ \E p \in Processes :
           BeginBuild(p) \/ Look(p) \/ Read(p) \/ Commit(p) \/ PublishFails(p) \/ EndBuild(p)

Spec == Init /\ [][Next]_vars

(***************************************************************************)
(* Properties.                                                             *)
(***************************************************************************)
TypeOK ==
    /\ now \in FirstDay..MaxDay /\ builds \in 0..MaxBuilds
    /\ enabled \subseteq Sources
    /\ \A i \in Items : articles[i] = None \/
           \E c \in Feed[i] : articles[i] \in {[c EXCEPT !.time = d] : d \in {c.time} \cup FirstDay..MaxDay}
    /\ current \in [Titles -> Nat]
    /\ packages \subseteq Package
    /\ builders \in [Processes -> Builder]

\* Two articles of one event that no comparison brings together: one title, and
\* more days apart than the blocks reach or the window is long.
Twins(records) ==
    \E i, j \in records : articles[i].title = articles[j].title
                           /\ ~(Compared(i, j) /\ ShouldMerge(i, j))

\* The groups of a build are a partition of its articles; each member is like
\* the headline, however long the chain that joined them; no two of them tell
\* the same story, as far as their headlines were compared; and, but for twins,
\* no two of them are one event (heuristic_event_builder.py:391, :435).
GroupsAreStories ==
    \A p \in Processes : builders[p].stage = "done" =>
        LET loaded == builders[p].loaded
            groups == Groups(loaded)
        IN  /\ UNION {g.members : g \in groups} = loaded
            /\ \A g \in groups : \A i \in g.members : ShouldMerge(i, g.medoid)
            /\ \A g, h \in groups : g # h =>
                   /\ g.members \cap h.members = {}
                   /\ ~(Compared(g.medoid, h.medoid) /\ ShouldMerge(g.medoid, h.medoid))
                   /\ Twins(loaded) \/ g.event # h.event

\* However many builds race, an event has one package of each version up to the
\* current one: its readers always find exactly one (event_package_service.py:57).
VersionsAreGapless ==
    /\ \A j, k \in packages : j.event = k.event /\ j.version = k.version => j = k
    /\ \A t \in Titles :
           {k.version : k \in {q \in packages : q.event = t}} = 1..current[t]

\* A build that nobody disturbed leaves every article it loaded in the package
\* that readers get of its event, and nothing else with it, so that the same
\* articles built again publish nothing; two twins take the package from each
\* other (heuristic_event_builder.py:812).
BuildSettles ==
    \A p \in Processes :
        LET b == builders[p] IN
        b.stage = "done" /\ b.alone /\ ~Twins(b.loaded) =>
            \A g \in Groups(b.loaded) : Published(g.event) = {g.members}

===============================================================================
