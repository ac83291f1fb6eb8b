---------------------------- MODULE RequestGuard ----------------------------
(***************************************************************************)
(* The two guards in front of POST /chat and POST /council, both in the    *)
(* memory of one process: the idempotency registry (ops/idempotency.py)    *)
(* and the load governor (ops/load_governance.py), with the part of the    *)
(* handlers (main.py, chat_service.py, council_service.py) that holds      *)
(* their slots and writes the thread stores.                               *)
(*                                                                         *)
(* The process is one asyncio loop, and the locks of the two guards are    *)
(* never held across a suspension, so they are never contended: a request  *)
(* runs from begin to its admission in one step, and from the end of its   *)
(* work to its response in one step.  What interleaves is the work.        *)
(***************************************************************************)
EXTENDS Integers, FiniteSets

CONSTANTS
    Requests,     \* HTTP requests, retries included
    Keys,         \* client request ids
    NoKey,        \* the request carries none
    Questions,    \* normalised questions of one tenant
    MaxChat,      \* BEN_MAX_CONCURRENT_CHAT
    MaxCouncil,   \* BEN_MAX_CONCURRENT_COUNCIL
    MaxTotal      \* BEN_MAX_TOTAL_INFLIGHT

ASSUME QuestionAssumption == Questions # {}
ASSUME KeyAssumption    == NoKey \notin Keys
ASSUME LimitAssumption  == {MaxChat, MaxCouncil, MaxTotal} \subseteq Nat \ {0}

VARIABLES
    reqs,         \* request -> where its handler is
    entries,      \* <<route, key>> -> idempotency entry
    inFlight,     \* question -> the request whose start time the governor keeps
    chatActive, councilActive,   \* the counters of the governor
    sqlite, postgres   \* <<route, key>> -> exchanges appended to each thread store

vars == <<reqs, entries, inFlight, chatActive, councilActive, sqlite, postgres>>

Routes == {"chat", "council"}
Slots  == Routes \X Keys
Nobody == "nobody"

ASSUME NobodyAssumption == Nobody \notin Requests

\* A running request is past admission; "written" and "stored" are chat only.
Running  == {"running", "written", "stored"}
Finished == {"replayed", "rejected", "ok", "error"}

\* old: past the duplicate window (45 s); late: past the pending TTL (120 s).
Ages == {"fresh", "old", "late"}

Request == [phase : {"idle"} \cup Running \cup Finished, route : Routes,
            key : Keys \cup {NoKey}, question : Questions, age : Ages]

\* owner is the request whose begin made the entry: its age is the entry's age
\* while the entry is pending.  expired: a completed entry past its TTL.
Entry == [state : {"none", "pending", "completed"}, owner : Requests \cup {Nobody},
          expired : BOOLEAN]

NoEntry == [state |-> "none", owner |-> Nobody, expired |-> FALSE]

Init ==
    /\ reqs = [r \in Requests |->
                 [phase |-> "idle", route |-> "chat", key |-> NoKey,
                  question |-> CHOOSE q \in Questions : TRUE, age |-> "fresh"]]
    /\ entries = [s \in Slots |-> NoEntry]
    /\ inFlight = [q \in Questions |-> Nobody]
    /\ chatActive = 0
    /\ councilActive = 0
    /\ sqlite = [s \in Slots |-> 0]
    /\ postgres = [s \in Slots |-> 0]

IsRunning(r) == reqs[r].phase \in Running
Slot(r) == <<reqs[r].route, reqs[r].key>>
Keyed(r) == reqs[r].key # NoKey

(***************************************************************************)
(* Arrival: registry.begin, then the governor.                             *)
(***************************************************************************)
Stale(e) ==
    \/ e.state = "pending" /\ reqs[e.owner].age = "late"
    \/ e.state = "completed" /\ e.expired

\* _purge_expired, at every begin that carries a key.
PurgedEntries == [s \in Slots |-> IF Stale(entries[s]) THEN NoEntry ELSE entries[s]]

\* _purge_council_keys, at every council that reaches the governor.
PurgedInFlight ==
    [q \in Questions |-> IF inFlight[q] # Nobody /\ reqs[inFlight[q]].age # "fresh"
                         THEN Nobody ELSE inFlight[q]]

Arrived(r, route, k, q, phase) ==
    reqs' = [reqs EXCEPT ![r] = [phase |-> phase, route |-> route, key |-> k,
                                 question |-> q, age |-> "fresh"]]

StateAt(e, route, k) == IF k = NoKey THEN "none" ELSE e[<<route, k>>].state

\* A completed entry answers, a pending one refuses with 409; neither reaches
\* the governor or the except blocks of the handler.
Answered(r, route, k, q) ==
    /\ reqs[r].phase = "idle"
    /\ StateAt(PurgedEntries, route, k) \in {"pending", "completed"}
    /\ Arrived(r, route, k, q,
               IF StateAt(PurgedEntries, route, k) = "completed" THEN "replayed" ELSE "rejected")
    /\ entries' = PurgedEntries
    /\ UNCHANGED <<inFlight, chatActive, councilActive, sqlite, postgres>>

TotalActive == chatActive + councilActive

\* Mutant of Admits: the duplicate check is left to the registry.
AdmitsDuplicates(route, q) ==
    /\ TotalActive < MaxTotal
    /\ route = "chat" => chatActive < MaxChat
    /\ route = "council" => councilActive < MaxCouncil

\* Mutant of Admits: the cap is compared with > instead of >=.
AdmitsOneMore(route, q) ==
    /\ TotalActive < MaxTotal
    /\ route = "chat" => chatActive <= MaxChat
    /\ route = "council" => councilActive < MaxCouncil /\ PurgedInFlight[q] = Nobody

Admits(route, q) ==
    /\ TotalActive < MaxTotal
    /\ route = "chat" => chatActive < MaxChat
    /\ route = "council" => councilActive < MaxCouncil /\ PurgedInFlight[q] = Nobody

\* Mutant of Begun: a begin releases what another request holds.
BegunOver(r, route, k) ==
    IF k = NoKey THEN entries
    ELSE [PurgedEntries EXCEPT ![<<route, k>>] = NoEntry]

\* The entries with the slot taken.
Begun(r, route, k) ==
    IF k = NoKey THEN entries
    ELSE [PurgedEntries EXCEPT ![<<route, k>>] =
            [state |-> "pending", owner |-> r, expired |-> FALSE]]

\* The governor refuses (429 or 503): the except block releases the slot.
Overloaded(r, route, k, q) ==
    /\ reqs[r].phase = "idle"
    /\ StateAt(PurgedEntries, route, k) = "none"
    /\ ~Admits(route, q)
    /\ Arrived(r, route, k, q, "rejected")
    /\ entries' = IF k = NoKey THEN entries ELSE PurgedEntries
    /\ inFlight' = IF route = "council" THEN PurgedInFlight ELSE inFlight
    /\ UNCHANGED <<chatActive, councilActive, sqlite, postgres>>

Admitted(r, route, k, q) ==
    /\ reqs[r].phase = "idle"
    /\ StateAt(PurgedEntries, route, k) = "none"
    /\ Admits(route, q)
    /\ Arrived(r, route, k, q, "running")
    /\ entries' = Begun(r, route, k)
    /\ IF route = "council"
       THEN /\ councilActive' = councilActive + 1
            /\ inFlight' = [PurgedInFlight EXCEPT ![q] = r]
            /\ UNCHANGED chatActive
       ELSE /\ chatActive' = chatActive + 1
            /\ UNCHANGED <<councilActive, inFlight>>
    /\ UNCHANGED <<sqlite, postgres>>

(***************************************************************************)
(* The work.  run_council answers from the model and writes no message;    *)
(* handle_chat writes the exchange to SQLite, where an error is logged and *)
(* swallowed, and then to Postgres.                                        *)
(***************************************************************************)
Appended(store, r) == IF Keyed(r) THEN [store EXCEPT ![Slot(r)] = @ + 1] ELSE store

WriteSqlite(r) ==
    /\ reqs[r].phase = "running" /\ reqs[r].route = "chat"
    /\ reqs' = [reqs EXCEPT ![r].phase = "written"]
    /\ sqlite' \in {sqlite, Appended(sqlite, r)}
    /\ UNCHANGED <<entries, inFlight, chatActive, councilActive, postgres>>

CommitPostgres(r) ==
    /\ reqs[r].phase = "written"
    /\ reqs' = [reqs EXCEPT ![r].phase = "stored"]
    /\ postgres' = Appended(postgres, r)
    /\ UNCHANGED <<entries, inFlight, chatActive, councilActive, sqlite>>

(***************************************************************************)
(* The end: the governor's finally block, then complete or fail.           *)
(***************************************************************************)
Floor0(n) == IF n > 0 THEN n - 1 ELSE 0

\* The start time of the question goes, whoever's it is.
ReleaseSlot(r) ==
    IF reqs[r].route = "council"
    THEN /\ councilActive' = Floor0(councilActive)
         /\ inFlight' = [inFlight EXCEPT ![reqs[r].question] = Nobody]
         /\ UNCHANGED chatActive
    ELSE /\ chatActive' = Floor0(chatActive)
         /\ UNCHANGED <<councilActive, inFlight>>

\* Mutant of Completes: the response is cached when the work begins to store.
CompletesEarly(r) == reqs[r].route = "chat" => reqs[r].phase \in {"written", "stored"}

Completes(r) == reqs[r].route = "chat" => reqs[r].phase = "stored"

\* complete: whatever entry is there now becomes the response of r.
Succeed(r) ==
    /\ IsRunning(r)
    /\ Completes(r)
    /\ ReleaseSlot(r)
    /\ reqs' = [reqs EXCEPT ![r].phase = "ok"]
    /\ entries' = IF Keyed(r) /\ entries[Slot(r)].state # "none"
                  THEN [entries EXCEPT ![Slot(r)].state = "completed", ![Slot(r)].expired = FALSE]
                  ELSE entries
    /\ UNCHANGED <<sqlite, postgres>>

\* Mutant of Released: fail is not called on the way out of an exception.
ReleasedNever(r) == entries

\* fail: whatever entry is there now is dropped if it is pending.
Released(r) ==
    IF Keyed(r) /\ entries[Slot(r)].state = "pending"
    THEN [entries EXCEPT ![Slot(r)] = NoEntry]
    ELSE entries

\* An exception before the response: providers, stores, database.
Fail(r) ==
    /\ IsRunning(r)
    /\ reqs[r].phase # "stored"
    /\ ReleaseSlot(r)
    /\ reqs' = [reqs EXCEPT ![r].phase = "error"]
    /\ entries' = Released(r)
    /\ UNCHANGED <<sqlite, postgres>>

(***************************************************************************)
(* Time.                                                                   *)
(***************************************************************************)
Older == [a \in Ages |-> IF a = "fresh" THEN "old" ELSE "late"]

RequestAges(r) ==
    /\ IsRunning(r)
    /\ reqs[r].age # "late"
    /\ reqs' = [reqs EXCEPT ![r].age = Older[@]]
    /\ UNCHANGED <<entries, inFlight, chatActive, councilActive, sqlite, postgres>>

EntryExpires(s) ==
    /\ entries[s].state = "completed" /\ ~entries[s].expired
    /\ entries' = [entries EXCEPT ![s].expired = TRUE]
    /\ UNCHANGED <<reqs, inFlight, chatActive, councilActive, sqlite, postgres>>

Arrive(r) ==
    \E route \in Routes, k \in Keys \cup {NoKey}, q \in Questions :
        Answered(r, route, k, q) \/ Overloaded(r, route, k, q) \/ Admitted(r, route, k, q)

Work(r) == WriteSqlite(r) \/ CommitPostgres(r) \/ Succeed(r) \/ Fail(r)

Next ==
    \/ \E r \in Requests : Arrive(r) \/ Work(r) \/ RequestAges(r)
    \/ \E s \in Slots : EntryExpires(s)

Spec == Init /\ [][Next]_vars

\* Provider and database calls have timeouts, so a request that runs ends.
FairSpec == Spec /\ \A r \in Requests : WF_vars(Work(r))

(***************************************************************************)
(* Properties.                                                             *)
(***************************************************************************)
\* The type invariant.
TypeOK ==
    /\ reqs \in [Requests -> Request]
    /\ entries \in [Slots -> Entry]
    /\ inFlight \in [Questions -> Requests \cup {Nobody}]
    /\ chatActive \in Nat /\ councilActive \in Nat
    /\ sqlite \in [Slots -> Nat] /\ postgres \in [Slots -> Nat]

RunningOn(route) == {r \in Requests : IsRunning(r) /\ reqs[r].route = route}

\* The counters count the requests that run, through every rejection and
\* failure, and the three caps hold: no slot leaks and none is given back twice.
SlotsExact ==
    /\ chatActive = Cardinality(RunningOn("chat"))
    /\ councilActive = Cardinality(RunningOn("council"))
    /\ chatActive <= MaxChat /\ councilActive <= MaxCouncil /\ TotalActive <= MaxTotal

\* docs/BEN_RUNTIME_CONTRACTS.md 119: while a request is pending its id starts
\* no second execution, until a request outlives the pending TTL.
OneExecutionPerKey ==
    (\A r \in Requests : reqs[r].age # "late") =>
        \A r, s \in Requests :
            IsRunning(r) /\ IsRunning(s) /\ Keyed(r) /\ Slot(r) = Slot(s) => r = s

\* One council per question at a time, until a request outlives the window.
OneCouncilPerQuestion ==
    (\A r \in Requests : reqs[r].age = "fresh") =>
        \A r, s \in RunningOn("council") : reqs[r].question = reqs[s].question => r = s

\* A pending entry always has a request behind it that will release it, also
\* when requests outlive the TTL and complete or drop each other's entries.
PendingIsHeld ==
    \A s \in Slots : entries[s].state = "pending" =>
        \E r \in Requests : IsRunning(r) /\ Keyed(r) /\ Slot(r) = s

\* A chat response that is replayed stands for an exchange Postgres has.
ReplayIsStored ==
    \A k \in Keys : entries[<<"chat", k>>].state = "completed" => postgres[<<"chat", k>>] >= 1

\* A client request id whose request failed is free again: retries may proceed.
KeyIsFreed == \A s \in Slots : entries[s].state = "pending" ~> entries[s].state # "pending"

=============================================================================
