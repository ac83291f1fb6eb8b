------------------------- MODULE RequestGuardProofs -------------------------
(***************************************************************************)
(* Proofs about RequestGuard, for any set of requests, keys and questions  *)
(* and any limits.                                                         *)
(***************************************************************************)
EXTENDS RequestGuard, FiniteSetTheorems, TLAPS

(***************************************************************************)
(* Types.                                                                  *)
(***************************************************************************)
\* What purging leaves is a subset of what was there.
LEMMA PurgedTypes ==
    ASSUME TypeOK
    PROVE  /\ PurgedEntries \in [Slots -> Entry]
           /\ PurgedInFlight \in [Questions -> Requests \cup {Nobody}]
           /\ NoEntry \in Entry
BY DEF TypeOK, PurgedEntries, PurgedInFlight, Entry, NoEntry

\* The slot of a request that carries a key.
LEMMA SlotType ==
    ASSUME TypeOK, NEW r \in Requests, Keyed(r)
    PROVE  Slot(r) \in Slots
BY DEF TypeOK, Keyed, Slot, Slots, Request

LEMMA InitTypeOK == Init => TypeOK
<1> SUFFICES ASSUME Init PROVE TypeOK
  OBVIOUS
<1>1. (CHOOSE q \in Questions : TRUE) \in Questions
  BY QuestionAssumption
<1>2. reqs \in [Requests -> Request]
  BY <1>1 DEF Init, Request, Routes, Ages
<1> QED BY <1>2 DEF Init, TypeOK, Entry, NoEntry

LEMMA ReleaseTypes ==
    ASSUME TypeOK, NEW r \in Requests, ReleaseSlot(r)
    PROVE  /\ inFlight' \in [Questions -> Requests \cup {Nobody}]
           /\ chatActive' \in Nat
           /\ councilActive' \in Nat
BY DEF TypeOK, ReleaseSlot, Floor0

LEMMA AppendTypes ==
    ASSUME NEW r \in Requests, TypeOK, NEW store \in [Slots -> Nat]
    PROVE  Appended(store, r) \in [Slots -> Nat]
BY SlotType DEF Appended

\* Every step keeps the types.
LEMMA NextTypeOK == TypeOK /\ [Next]_vars => TypeOK'
<1> SUFFICES ASSUME TypeOK, [Next]_vars PROVE TypeOK'
  OBVIOUS
<1> USE PurgedTypes
<1>1. ASSUME NEW r \in Requests, NEW route \in Routes, NEW k \in Keys \cup {NoKey},
             NEW q \in Questions, Answered(r, route, k, q)
      PROVE  TypeOK'
  BY <1>1 DEF TypeOK, Answered, Arrived, Request, Running, Finished, Ages
<1>2. ASSUME NEW r \in Requests, NEW route \in Routes, NEW k \in Keys \cup {NoKey},
             NEW q \in Questions, Overloaded(r, route, k, q)
      PROVE  TypeOK'
  BY <1>2 DEF TypeOK, Overloaded, Arrived, Request, Running, Finished, Ages
<1>3. ASSUME NEW r \in Requests, NEW route \in Routes, NEW k \in Keys \cup {NoKey},
             NEW q \in Questions, Admitted(r, route, k, q)
      PROVE  TypeOK'
  <2>1. reqs' \in [Requests -> Request]
    BY <1>3 DEF TypeOK, Admitted, Arrived, Request, Running, Ages
  <2>2. entries' \in [Slots -> Entry]
    <3>1. CASE k = NoKey
      BY <1>3, <3>1 DEF TypeOK, Admitted, Begun
    <3>2. CASE k # NoKey
      BY <1>3, <3>2 DEF Admitted, Begun, Slots, Entry
    <3> QED BY <3>1, <3>2
  <2>3. inFlight' \in [Questions -> Requests \cup {Nobody}]
        /\ chatActive' \in Nat /\ councilActive' \in Nat
    BY <1>3 DEF TypeOK, Admitted
  <2> QED BY <1>3, <2>1, <2>2, <2>3 DEF TypeOK, Admitted
<1>4. ASSUME NEW r \in Requests, WriteSqlite(r) PROVE TypeOK'
  BY <1>4, AppendTypes DEF TypeOK, WriteSqlite, Request, Running
<1>5. ASSUME NEW r \in Requests, CommitPostgres(r) PROVE TypeOK'
  BY <1>5, AppendTypes DEF TypeOK, CommitPostgres, Request, Running
<1>6. ASSUME NEW r \in Requests, Succeed(r) PROVE TypeOK'
  <2>1. reqs' \in [Requests -> Request]
    BY <1>6 DEF TypeOK, Succeed, Request, Finished
  <2>2. entries' \in [Slots -> Entry]
    BY <1>6, SlotType DEF TypeOK, Succeed, Entry
  <2> QED BY <1>6, <2>1, <2>2, ReleaseTypes DEF TypeOK, Succeed
<1>7. ASSUME NEW r \in Requests, Fail(r) PROVE TypeOK'
  <2>1. reqs' \in [Requests -> Request]
    BY <1>7 DEF TypeOK, Fail, Request, Finished
  <2>2. entries' \in [Slots -> Entry]
    BY <1>7, SlotType DEF TypeOK, Fail, Released
  <2> QED BY <1>7, <2>1, <2>2, ReleaseTypes DEF TypeOK, Fail
<1>8. ASSUME NEW r \in Requests, RequestAges(r) PROVE TypeOK'
  BY <1>8 DEF TypeOK, RequestAges, Request, Ages, Older
<1>9. ASSUME NEW s \in Slots, EntryExpires(s) PROVE TypeOK'
  BY <1>9 DEF TypeOK, EntryExpires, Entry
<1>10. CASE UNCHANGED vars
  BY <1>10 DEF TypeOK, vars
<1> QED BY <1>1, <1>2, <1>3, <1>4, <1>5, <1>6, <1>7, <1>8, <1>9, <1>10
        DEF Next, Arrive, Work

\* Requests, entries, counters and stores keep their types.
THEOREM GuardTypes == Spec => []TypeOK
  BY InitTypeOK, NextTypeOK, PTL DEF Spec

(***************************************************************************)
(* The registry: a pending entry names the request that will release it.   *)
(***************************************************************************)
Owned(s) ==
    /\ entries[s].owner \in Requests
    /\ IsRunning(entries[s].owner)
    /\ Keyed(entries[s].owner)
    /\ Slot(entries[s].owner) = s

Held == \A s \in Slots : entries[s].state = "pending" => Owned(s)

\* A request that is not running owns nothing: changing it, and dropping
\* entries, keeps Held.
LEMMA HeldDropping ==
    ASSUME Held, TypeOK, NEW r \in Requests, ~IsRunning(r),
           \A p \in Requests : p # r => reqs'[p] = reqs[p],
           \A s \in Slots : entries'[s] = entries[s] \/ entries'[s].state # "pending"
    PROVE  Held'
<1> SUFFICES ASSUME NEW s \in Slots, entries'[s].state = "pending"
             PROVE  Owned(s)'
  BY DEF Held
<1>1. entries'[s] = entries[s] /\ entries[s].owner \in Requests /\ entries[s].owner # r
  BY DEF Held, Owned
<1>2. reqs'[entries[s].owner] = reqs[entries[s].owner]
  BY <1>1
<1> QED BY <1>1, <1>2 DEF Held, Owned, IsRunning, Keyed, Slot

\* A step of a running request that only moves it on, or makes it older.
LEMMA HeldMoving ==
    ASSUME Held, TypeOK, NEW r \in Requests, entries' = entries, IsRunning(r)',
           reqs'[r].key = reqs[r].key, reqs'[r].route = reqs[r].route,
           \A p \in Requests : p # r => reqs'[p] = reqs[p]
    PROVE  Held'
BY DEF Held, Owned, IsRunning, Keyed, Slot

\* The end of a request takes its entry out of the pending ones.
LEMMA HeldEnding ==
    ASSUME Held, TypeOK, NEW r \in Requests,
           \A p \in Requests : p # r => reqs'[p] = reqs[p],
           \A s \in Slots : \/ entries'[s].state # "pending"
                            \/ entries'[s] = entries[s] /\ ~(Keyed(r) /\ Slot(r) = s)
    PROVE  Held'
<1> SUFFICES ASSUME NEW s \in Slots, entries'[s].state = "pending"
             PROVE  Owned(s)'
  BY DEF Held
<1>1. entries'[s] = entries[s] /\ entries[s].owner \in Requests /\ entries[s].owner # r
  BY DEF Held, Owned
<1>2. reqs'[entries[s].owner] = reqs[entries[s].owner]
  BY <1>1
<1> QED BY <1>1, <1>2 DEF Held, Owned, IsRunning, Keyed, Slot

LEMMA PurgedDrops ==
    \A s \in Slots : PurgedEntries[s] = entries[s] \/ PurgedEntries[s].state # "pending"
BY DEF PurgedEntries, NoEntry

LEMMA NextHeld == TypeOK /\ Held /\ [Next]_vars => Held'
<1> SUFFICES ASSUME TypeOK, Held, [Next]_vars PROVE Held'
  OBVIOUS
<1>1. ASSUME NEW r \in Requests, NEW route \in Routes, NEW k \in Keys \cup {NoKey},
             NEW q \in Questions, Answered(r, route, k, q) \/ Overloaded(r, route, k, q)
      PROVE  Held'
  <2>1. /\ ~IsRunning(r)
        /\ \A p \in Requests : p # r => reqs'[p] = reqs[p]
        /\ entries' \in {entries, PurgedEntries}
    BY <1>1 DEF Answered, Overloaded, Arrived, IsRunning, Running, TypeOK
  <2> QED BY <2>1, PurgedDrops, HeldDropping
<1>2. ASSUME NEW r \in Requests, NEW route \in Routes, NEW k \in Keys \cup {NoKey},
             NEW q \in Questions, Admitted(r, route, k, q)
      PROVE  Held'
  <2>1. ~IsRunning(r) /\ \A p \in Requests : p # r => reqs'[p] = reqs[p]
    BY <1>2 DEF Admitted, Arrived, IsRunning, Running, TypeOK
  <2>2. CASE k = NoKey
    BY <1>2, <2>1, <2>2, HeldDropping DEF Admitted, Begun
  <2>3. CASE k # NoKey
    <3> SUFFICES ASSUME NEW s \in Slots, entries'[s].state = "pending"
                 PROVE  Owned(s)'
      BY DEF Held
    <3>1. CASE s = <<route, k>>
      <4>1. reqs'[r].phase = "running" /\ reqs'[r].route = route /\ reqs'[r].key = k
        BY <1>2 DEF Admitted, Arrived, TypeOK
      <4>2. entries'[s].owner = r
        BY <1>2, <2>3, <3>1, PurgedTypes DEF Admitted, Begun
      <4> QED BY <2>3, <3>1, <4>1, <4>2 DEF Owned, IsRunning, Running, Keyed, Slot
    <3>2. CASE s # <<route, k>>
      <4>1. entries'[s] = entries[s]
        BY <1>2, <2>3, <3>2, PurgedTypes, PurgedDrops DEF Admitted, Begun
      <4>2. entries[s].owner \in Requests /\ entries[s].owner # r
        BY <4>1, <2>1 DEF Held, Owned
      <4>3. reqs'[entries[s].owner] = reqs[entries[s].owner]
        BY <2>1, <4>2
      <4> QED BY <4>1, <4>2, <4>3 DEF Held, Owned, IsRunning, Keyed, Slot
    <3> QED BY <3>1, <3>2
  <2> QED BY <2>2, <2>3
<1>3. ASSUME NEW r \in Requests, WriteSqlite(r) \/ CommitPostgres(r) \/ RequestAges(r)
      PROVE  Held'
  <2>1. /\ entries' = entries
        /\ IsRunning(r)'
        /\ reqs'[r].key = reqs[r].key /\ reqs'[r].route = reqs[r].route
        /\ \A p \in Requests : p # r => reqs'[p] = reqs[p]
    BY <1>3 DEF TypeOK, Request, WriteSqlite, CommitPostgres, RequestAges, IsRunning, Running
  <2> QED BY <2>1, HeldMoving
<1>4. ASSUME NEW r \in Requests, Succeed(r) PROVE Held'
  <2>1. \A p \in Requests : p # r => reqs'[p] = reqs[p]
    BY <1>4 DEF Succeed, TypeOK
  <2>2. \A s \in Slots : \/ entries'[s].state # "pending"
                         \/ entries'[s] = entries[s] /\ ~(Keyed(r) /\ Slot(r) = s)
    BY <1>4, SlotType DEF Succeed, TypeOK, Entry
  <2> QED BY <2>1, <2>2, HeldEnding
<1>5. ASSUME NEW r \in Requests, Fail(r) PROVE Held'
  <2>1. \A p \in Requests : p # r => reqs'[p] = reqs[p]
    BY <1>5 DEF Fail, TypeOK
  <2>2. \A s \in Slots : \/ entries'[s].state # "pending"
                         \/ entries'[s] = entries[s] /\ ~(Keyed(r) /\ Slot(r) = s)
    BY <1>5, SlotType DEF Fail, Released, NoEntry, TypeOK
  <2> QED BY <2>1, <2>2, HeldEnding
<1>6. ASSUME NEW s \in Slots, EntryExpires(s) PROVE Held'
  <2>1. reqs' = reqs /\ \A t \in Slots : entries'[t] = entries[t] \/ entries'[t].state # "pending"
    BY <1>6 DEF EntryExpires, TypeOK, Entry
  <2> QED BY <2>1 DEF Held, Owned, IsRunning, Keyed, Slot
<1>7. CASE UNCHANGED vars
  BY <1>7 DEF vars, Held, Owned, IsRunning, Keyed, Slot
<1> QED BY <1>1, <1>2, <1>3, <1>4, <1>5, <1>6, <1>7 DEF Next, Arrive, Work

\* A pending entry always has a running request of its id behind it, also when
\* requests outlive the time to live and complete each other's entries.
THEOREM NoOrphanedKey == Spec => []PendingIsHeld
<1>1. Init => Held
  BY DEF Init, Held, NoEntry
<1>2. TypeOK /\ Held => PendingIsHeld
  BY DEF Held, Owned, PendingIsHeld
<1> QED BY <1>1, <1>2, NextHeld, GuardTypes, PTL DEF Spec

(***************************************************************************)
(* What holds until a request outlives the windows of the guards.          *)
(***************************************************************************)
InTime   == \A r \in Requests : reqs[r].age # "late"
InWindow == \A r \in Requests : reqs[r].age = "fresh"

\* What a running request holds.
HoldsKey(r) ==
    IsRunning(r) /\ Keyed(r) => entries[Slot(r)].state = "pending" /\ entries[Slot(r)].owner = r

HoldsQuestion(r) ==
    IsRunning(r) /\ reqs[r].route = "council" => inFlight[reqs[r].question] = r

IdleIsFresh      == \A r \in Requests : reqs[r].phase = "idle" => reqs[r].age = "fresh"
KeysAreHeld      == InTime => \A r \in Requests : HoldsKey(r)
QuestionsAreHeld == InWindow => \A r \in Requests : HoldsQuestion(r)

\* A request is fresh when it arrives.
LEMMA NextIdleIsFresh == TypeOK /\ IdleIsFresh /\ [Next]_vars => IdleIsFresh'
<1> SUFFICES ASSUME TypeOK, IdleIsFresh, [Next]_vars, NEW p \in Requests,
                    reqs'[p].phase = "idle"
             PROVE  reqs'[p].age = "fresh"
  BY DEF IdleIsFresh
<1>1. ASSUME NEW r \in Requests, NEW route \in Routes, NEW k \in Keys \cup {NoKey},
             NEW q \in Questions,
             Answered(r, route, k, q) \/ Overloaded(r, route, k, q) \/ Admitted(r, route, k, q)
      PROVE  reqs'[p].age = "fresh"
  BY <1>1 DEF Answered, Overloaded, Admitted, Arrived, TypeOK, IdleIsFresh
<1>2. ASSUME NEW r \in Requests, Work(r) PROVE reqs'[p].age = "fresh"
  BY <1>2 DEF Work, WriteSqlite, CommitPostgres, Succeed, Fail, TypeOK, Request, IdleIsFresh
<1>3. ASSUME NEW r \in Requests, RequestAges(r) PROVE reqs'[p].age = "fresh"
  BY <1>3 DEF RequestAges, IsRunning, Running, TypeOK, Request, IdleIsFresh
<1>4. CASE reqs' = reqs
  BY <1>4 DEF IdleIsFresh
<1> QED BY <1>1, <1>2, <1>3, <1>4 DEF Next, Arrive, EntryExpires, vars

\* No request gets younger: who is in time has been in time.
LEMMA AgesGrow ==
    ASSUME TypeOK, IdleIsFresh, [Next]_vars
    PROVE  (InTime' => InTime) /\ (InWindow' => InWindow)
<1> SUFFICES ASSUME NEW p \in Requests
             PROVE  /\ reqs[p].age = "late" => reqs'[p].age = "late"
                    /\ reqs[p].age # "fresh" => reqs'[p].age # "fresh"
  BY DEF InTime, InWindow
<1>1. ASSUME NEW r \in Requests, NEW route \in Routes, NEW k \in Keys \cup {NoKey},
             NEW q \in Questions,
             Answered(r, route, k, q) \/ Overloaded(r, route, k, q) \/ Admitted(r, route, k, q)
      PROVE  reqs[p].age # "fresh" => reqs'[p] = reqs[p]
  BY <1>1 DEF Answered, Overloaded, Admitted, Arrived, TypeOK, IdleIsFresh
<1>2. ASSUME NEW r \in Requests, Work(r) PROVE reqs'[p].age = reqs[p].age
  BY <1>2 DEF Work, WriteSqlite, CommitPostgres, Succeed, Fail, TypeOK, Request
<1>3. ASSUME NEW r \in Requests, RequestAges(r)
      PROVE  /\ reqs[p].age = "late" => reqs'[p].age = "late"
             /\ reqs[p].age # "fresh" => reqs'[p].age # "fresh"
  BY <1>3 DEF RequestAges, TypeOK, Request, Older, Ages
<1>4. CASE reqs' = reqs
  BY <1>4
<1> QED BY <1>1, <1>2, <1>3, <1>4 DEF Next, Arrive, EntryExpires, vars

\* In time, no pending entry is purged; within the window, no start time is.
LEMMA NothingPurged ==
    ASSUME TypeOK, Held
    PROVE  /\ InWindow => PurgedInFlight = inFlight
           /\ InTime => \A s \in Slots : entries[s].state = "pending" =>
                                           PurgedEntries[s] = entries[s]
<1>1. InWindow => PurgedInFlight = inFlight
  BY DEF TypeOK, InWindow, PurgedInFlight
<1>2. InTime => \A s \in Slots : entries[s].state = "pending" => ~Stale(entries[s])
  BY DEF Held, Owned, InTime, Stale
<1> QED BY <1>1, <1>2 DEF PurgedEntries

\* A step of r that takes no key from the other requests.
LEMMA KeysFrame ==
    ASSUME TypeOK, NEW r \in Requests, \A p \in Requests : HoldsKey(p),
           \A p \in Requests : p # r => reqs'[p] = reqs[p],
           HoldsKey(r)',
           \A s \in Slots : entries[s].state = "pending" /\ entries[s].owner # r
              => entries'[s] = entries[s]
    PROVE  \A p \in Requests : HoldsKey(p)'
<1> SUFFICES ASSUME NEW p \in Requests, p # r PROVE HoldsKey(p)'
  OBVIOUS
<1>1. reqs'[p] = reqs[p] /\ HoldsKey(p)
  OBVIOUS
<1> QED BY <1>1, SlotType DEF HoldsKey, IsRunning, Keyed, Slot

\* A step of r that takes no question from the other requests.
LEMMA QuestionsFrame ==
    ASSUME TypeOK, NEW r \in Requests, \A p \in Requests : HoldsQuestion(p),
           \A p \in Requests : p # r => reqs'[p] = reqs[p],
           HoldsQuestion(r)',
           \A q \in Questions : inFlight[q] \notin {r, Nobody} => inFlight'[q] = inFlight[q]
    PROVE  \A p \in Requests : HoldsQuestion(p)'
<1> SUFFICES ASSUME NEW p \in Requests, p # r PROVE HoldsQuestion(p)'
  OBVIOUS
<1>1. reqs'[p] = reqs[p] /\ HoldsQuestion(p)
  OBVIOUS
<1> QED BY <1>1, NobodyAssumption DEF HoldsQuestion, IsRunning, TypeOK, Request

LEMMA NextHolds ==
    ASSUME TypeOK, Held, KeysAreHeld, QuestionsAreHeld, IdleIsFresh, [Next]_vars
    PROVE  KeysAreHeld' /\ QuestionsAreHeld'
<1> USE DEF KeysAreHeld, QuestionsAreHeld
<1>1. ASSUME NEW r \in Requests, NEW route \in Routes, NEW k \in Keys \cup {NoKey},
             NEW q \in Questions, Answered(r, route, k, q) \/ Overloaded(r, route, k, q)
      PROVE  KeysAreHeld' /\ QuestionsAreHeld'
  <2>1. /\ \A p \in Requests : p # r => reqs'[p] = reqs[p]
        /\ reqs'[r].phase \notin Running
        /\ entries' \in {entries, PurgedEntries} /\ inFlight' \in {inFlight, PurgedInFlight}
    BY <1>1 DEF Answered, Overloaded, Arrived, Running, TypeOK
  <2>2. HoldsKey(r)' /\ HoldsQuestion(r)'
    BY <2>1 DEF HoldsKey, HoldsQuestion, IsRunning
  <2>3. InTime' => KeysAreHeld'
    BY <2>1, <2>2, NothingPurged, KeysFrame, AgesGrow
  <2>4. InWindow' => QuestionsAreHeld'
    BY <2>1, <2>2, NothingPurged, QuestionsFrame, AgesGrow
  <2> QED BY <2>3, <2>4
<1>2. ASSUME NEW r \in Requests, NEW route \in Routes, NEW k \in Keys \cup {NoKey},
             NEW q \in Questions, Admitted(r, route, k, q)
      PROVE  KeysAreHeld' /\ QuestionsAreHeld'
  <2>1. /\ \A p \in Requests : p # r => reqs'[p] = reqs[p]
        /\ reqs'[r] = [phase |-> "running", route |-> route, key |-> k, question |-> q,
                       age |-> "fresh"]
    BY <1>2 DEF Admitted, Arrived, TypeOK
  <2>2. HoldsKey(r)'
    BY <1>2, <2>1, PurgedTypes DEF HoldsKey, Keyed, Slot, Slots, Admitted, Begun
  <2>3. HoldsQuestion(r)'
    BY <1>2, <2>1, PurgedTypes DEF HoldsQuestion, Admitted
  <2>4. InTime => \A s \in Slots : entries[s].state = "pending" => entries'[s] = entries[s]
    BY <1>2, NothingPurged, PurgedTypes DEF Admitted, Begun, StateAt
  <2>5. InWindow => \A p \in Questions : inFlight[p] # Nobody => inFlight'[p] = inFlight[p]
    BY <1>2, NothingPurged DEF Admitted, Admits, TypeOK
  <2>6. InTime' => KeysAreHeld'
    BY <2>1, <2>2, <2>4, KeysFrame, AgesGrow
  <2>7. InWindow' => QuestionsAreHeld'
    BY <2>1, <2>3, <2>5, QuestionsFrame, AgesGrow
  <2> QED BY <2>6, <2>7
<1>3. ASSUME NEW r \in Requests, WriteSqlite(r) \/ CommitPostgres(r) \/ RequestAges(r)
      PROVE  KeysAreHeld' /\ QuestionsAreHeld'
  <2>1. /\ entries' = entries /\ inFlight' = inFlight /\ IsRunning(r)
        /\ reqs'[r].key = reqs[r].key /\ reqs'[r].route = reqs[r].route
        /\ reqs'[r].question = reqs[r].question
        /\ \A p \in Requests : p # r => reqs'[p] = reqs[p]
    BY <1>3 DEF TypeOK, Request, WriteSqlite, CommitPostgres, RequestAges, IsRunning, Running
  <2>2. HoldsKey(r) => HoldsKey(r)'
    BY <2>1 DEF HoldsKey, IsRunning, Keyed, Slot
  <2>3. HoldsQuestion(r) => HoldsQuestion(r)'
    BY <2>1 DEF HoldsQuestion, IsRunning
  <2>4. InTime' => KeysAreHeld'
    BY <2>1, <2>2, KeysFrame, AgesGrow
  <2>5. InWindow' => QuestionsAreHeld'
    BY <2>1, <2>3, QuestionsFrame, AgesGrow
  <2> QED BY <2>4, <2>5
<1>4. ASSUME NEW r \in Requests, Succeed(r) \/ Fail(r)
      PROVE  KeysAreHeld' /\ QuestionsAreHeld'
  <2>1. /\ \A p \in Requests : p # r => reqs'[p] = reqs[p]
        /\ reqs'[r].phase \notin Running /\ IsRunning(r)
    BY <1>4 DEF Succeed, Fail, Running, TypeOK, Request
  <2>2. HoldsKey(r)' /\ HoldsQuestion(r)'
    BY <2>1 DEF HoldsKey, HoldsQuestion, IsRunning
  <2>3. HoldsKey(r) =>
          \A s \in Slots : entries[s].state = "pending" /\ entries[s].owner # r
             => entries'[s] = entries[s]
    BY <1>4, <2>1, SlotType DEF Succeed, Fail, Released, HoldsKey, TypeOK
  <2>4. HoldsQuestion(r) =>
          \A q \in Questions : inFlight[q] \notin {r, Nobody} => inFlight'[q] = inFlight[q]
    BY <1>4, <2>1 DEF Succeed, Fail, ReleaseSlot, HoldsQuestion, TypeOK
  <2>5. InTime' => KeysAreHeld'
    BY <2>1, <2>2, <2>3, KeysFrame, AgesGrow
  <2>6. InWindow' => QuestionsAreHeld'
    BY <2>1, <2>2, <2>4, QuestionsFrame, AgesGrow
  <2> QED BY <2>5, <2>6
<1>5. ASSUME NEW s \in Slots, EntryExpires(s) PROVE KeysAreHeld' /\ QuestionsAreHeld'
  <2>1. /\ reqs' = reqs /\ inFlight' = inFlight
        /\ \A t \in Slots : entries[t].state = "pending" => entries'[t] = entries[t]
    BY <1>5 DEF EntryExpires, TypeOK
  <2> QED BY <2>1, SlotType
          DEF InTime, InWindow, HoldsKey, HoldsQuestion, IsRunning, Keyed, Slot
<1>6. CASE UNCHANGED vars
  BY <1>6 DEF vars, InTime, InWindow, HoldsKey, HoldsQuestion, IsRunning, Keyed, Slot
<1> QED BY <1>1, <1>2, <1>3, <1>4, <1>5, <1>6 DEF Next, Arrive, Work

LEMMA SpecHolds == Spec => [](KeysAreHeld /\ QuestionsAreHeld)
<1>1. Init => KeysAreHeld /\ QuestionsAreHeld /\ IdleIsFresh
  BY DEF Init, KeysAreHeld, QuestionsAreHeld, IdleIsFresh, HoldsKey, HoldsQuestion,
         IsRunning, Running
<1>2. Init => Held
  BY DEF Init, Held, NoEntry
<1>3. TypeOK /\ Held /\ KeysAreHeld /\ QuestionsAreHeld /\ IdleIsFresh /\ [Next]_vars
         => (KeysAreHeld /\ QuestionsAreHeld)'
  BY NextHolds
<1> QED BY <1>1, <1>2, <1>3, NextHeld, NextIdleIsFresh, GuardTypes, PTL DEF Spec

\* Until a request outlives the time to live of a pending entry, an id starts
\* one execution at a time, for any number of retries.
THEOREM OneExecution == Spec => []OneExecutionPerKey
<1>1. KeysAreHeld => OneExecutionPerKey
  <2> SUFFICES ASSUME KeysAreHeld, InTime, NEW r \in Requests, NEW s \in Requests,
                      IsRunning(r), IsRunning(s), Keyed(r), Slot(r) = Slot(s)
               PROVE  r = s
    BY DEF OneExecutionPerKey, InTime
  <2>1. Keyed(s)
    BY DEF Keyed, Slot
  <2>2. entries[Slot(r)].owner = r /\ entries[Slot(s)].owner = s
    BY <2>1 DEF KeysAreHeld, HoldsKey
  <2> QED BY <2>2
<1> QED BY <1>1, SpecHolds, PTL

\* Until a request outlives the duplicate window, a question is put to one
\* council at a time.
THEOREM OneCouncil == Spec => []OneCouncilPerQuestion
<1>1. QuestionsAreHeld => OneCouncilPerQuestion
  BY DEF QuestionsAreHeld, InWindow, HoldsQuestion, OneCouncilPerQuestion, RunningOn, IsRunning
<1> QED BY <1>1, SpecHolds, PTL

(***************************************************************************)
(* The counters of the governor.                                           *)
(***************************************************************************)
Counted ==
    /\ \A route \in Routes : IsFiniteSet(RunningOn(route))
    /\ SlotsExact

\* The set of requests running on a route changes by the request that steps.
LEMMA RunningOnFrame ==
    ASSUME TypeOK, NEW r \in Requests, NEW route,
           \A p \in Requests : p # r => reqs'[p] = reqs[p]
    PROVE  /\ IsRunning(r)' /\ reqs'[r].route = route
                => RunningOn(route)' = RunningOn(route) \cup {r}
           /\ ~(IsRunning(r)' /\ reqs'[r].route = route)
                => RunningOn(route)' = RunningOn(route) \ {r}
BY DEF RunningOn, IsRunning

\* A step that does not start or end a request.
LEMMA CountedMoving ==
    ASSUME TypeOK, Counted, NEW r \in Requests,
           \A p \in Requests : p # r => reqs'[p] = reqs[p],
           IsRunning(r)' <=> IsRunning(r),
           IsRunning(r) => reqs'[r].route = reqs[r].route,
           chatActive' = chatActive, councilActive' = councilActive
    PROVE  Counted'
<1>1. \A route \in Routes : RunningOn(route)' = RunningOn(route)
  BY RunningOnFrame DEF RunningOn
<1> QED BY <1>1 DEF Counted, SlotsExact, Routes, TotalActive

LEMMA CountedStarting ==
    ASSUME TypeOK, Counted, NEW r \in Requests, NEW route \in Routes,
           \A p \in Requests : p # r => reqs'[p] = reqs[p],
           ~IsRunning(r), IsRunning(r)', reqs'[r].route = route,
           TotalActive < MaxTotal,
           IF route = "council"
           THEN councilActive < MaxCouncil /\ councilActive' = councilActive + 1
                /\ chatActive' = chatActive
           ELSE chatActive < MaxChat /\ chatActive' = chatActive + 1
                /\ councilActive' = councilActive
    PROVE  Counted'
<1>1. RunningOn(route)' = RunningOn(route) \cup {r}
  BY RunningOnFrame
<1>2. r \notin RunningOn(route)
  BY DEF RunningOn
<1>3. \A other \in Routes \ {route} : RunningOn(other)' = RunningOn(other)
  BY DEF RunningOn, IsRunning
<1>4. /\ IsFiniteSet(RunningOn(route)')
      /\ Cardinality(RunningOn(route)') = Cardinality(RunningOn(route)) + 1
  BY <1>1, <1>2, FS_AddElement DEF Counted
<1>5. chatActive \in Nat /\ councilActive \in Nat
      /\ MaxChat \in Nat /\ MaxCouncil \in Nat /\ MaxTotal \in Nat
  BY LimitAssumption DEF TypeOK
<1>6. CASE route = "chat"
  BY <1>3, <1>4, <1>5, <1>6 DEF Counted, SlotsExact, Routes, TotalActive
<1>7. CASE route = "council"
  BY <1>3, <1>4, <1>5, <1>7 DEF Counted, SlotsExact, Routes, TotalActive
<1> QED BY <1>6, <1>7 DEF Routes

LEMMA CountedEnding ==
    ASSUME TypeOK, Counted, NEW r \in Requests, NEW route \in Routes, reqs[r].route = route,
           \A p \in Requests : p # r => reqs'[p] = reqs[p],
           IsRunning(r), ~IsRunning(r)', ReleaseSlot(r)
    PROVE  Counted'
<1>2. RunningOn(route)' = RunningOn(route) \ {r} /\ r \in RunningOn(route)
  BY RunningOnFrame DEF RunningOn
<1>3. \A other \in Routes \ {route} : RunningOn(other)' = RunningOn(other)
  BY DEF RunningOn, IsRunning
<1>4. /\ IsFiniteSet(RunningOn(route)')
      /\ Cardinality(RunningOn(route)') = Cardinality(RunningOn(route)) - 1
  BY <1>2, FS_RemoveElement DEF Counted
<1>5. Cardinality(RunningOn(route)) # 0
  BY <1>2, FS_EmptySet DEF Counted
<1>6. chatActive \in Nat /\ councilActive \in Nat
      /\ MaxChat \in Nat /\ MaxCouncil \in Nat /\ MaxTotal \in Nat
  BY LimitAssumption DEF TypeOK
<1>7. CASE route = "chat"
  <2>1. chatActive' = chatActive - 1 /\ councilActive' = councilActive
    BY <1>5, <1>6, <1>7 DEF ReleaseSlot, Floor0, Counted, SlotsExact
  <2> QED BY <1>3, <1>4, <1>6, <1>7, <2>1 DEF Counted, SlotsExact, Routes, TotalActive
<1>8. CASE route = "council"
  <2>1. councilActive' = councilActive - 1 /\ chatActive' = chatActive
    BY <1>5, <1>6, <1>8 DEF ReleaseSlot, Floor0, Counted, SlotsExact
  <2> QED BY <1>3, <1>4, <1>6, <1>8, <2>1 DEF Counted, SlotsExact, Routes, TotalActive
<1> QED BY <1>7, <1>8 DEF Routes

LEMMA NextCounted == TypeOK /\ Counted /\ [Next]_vars => Counted'
<1> SUFFICES ASSUME TypeOK, Counted, [Next]_vars PROVE Counted'
  OBVIOUS
<1>1. ASSUME NEW r \in Requests, NEW route \in Routes, NEW k \in Keys \cup {NoKey},
             NEW q \in Questions, Answered(r, route, k, q) \/ Overloaded(r, route, k, q)
      PROVE  Counted'
  <2>1. /\ \A p \in Requests : p # r => reqs'[p] = reqs[p]
        /\ ~IsRunning(r) /\ ~IsRunning(r)'
        /\ chatActive' = chatActive /\ councilActive' = councilActive
    BY <1>1 DEF Answered, Overloaded, Arrived, IsRunning, Running, TypeOK
  <2> QED BY <2>1, CountedMoving
<1>2. ASSUME NEW r \in Requests, NEW route \in Routes, NEW k \in Keys \cup {NoKey},
             NEW q \in Questions, Admitted(r, route, k, q)
      PROVE  Counted'
  <2>1. /\ \A p \in Requests : p # r => reqs'[p] = reqs[p]
        /\ ~IsRunning(r) /\ IsRunning(r)' /\ reqs'[r].route = route
    BY <1>2 DEF Admitted, Arrived, IsRunning, Running, TypeOK
  <2> QED BY <1>2, <2>1, CountedStarting DEF Admitted, Admits, Routes
<1>3. ASSUME NEW r \in Requests, WriteSqlite(r) \/ CommitPostgres(r) \/ RequestAges(r)
      PROVE  Counted'
  <2>1. /\ \A p \in Requests : p # r => reqs'[p] = reqs[p]
        /\ IsRunning(r) /\ IsRunning(r)' /\ reqs'[r].route = reqs[r].route
        /\ chatActive' = chatActive /\ councilActive' = councilActive
    BY <1>3 DEF TypeOK, Request, WriteSqlite, CommitPostgres, RequestAges, IsRunning, Running
  <2> QED BY <2>1, CountedMoving
<1>4. ASSUME NEW r \in Requests, Succeed(r) \/ Fail(r) PROVE Counted'
  <2>1. /\ \A p \in Requests : p # r => reqs'[p] = reqs[p]
        /\ IsRunning(r) /\ ~IsRunning(r)' /\ ReleaseSlot(r) /\ reqs[r].route \in Routes
    BY <1>4 DEF Succeed, Fail, IsRunning, Running, TypeOK, Request
  <2> QED BY <2>1, CountedEnding
<1>5. ASSUME UNCHANGED <<reqs, chatActive, councilActive>> PROVE Counted'
  BY <1>5 DEF Counted, SlotsExact, RunningOn, IsRunning, TotalActive
<1> QED BY <1>1, <1>2, <1>3, <1>4, <1>5 DEF Next, Arrive, Work, EntryExpires, vars

\* The governor's counters are the number of requests that run, and the three
\* caps hold, for any number of requests and any limits.
THEOREM NoSlotLeaks == Spec => []SlotsExact
<1>1. Init => Counted
  <2> SUFFICES ASSUME Init PROVE Counted
    OBVIOUS
  <2>1. \A route \in Routes : RunningOn(route) = {}
    BY DEF Init, RunningOn, IsRunning, Running
  <2>2. IsFiniteSet({}) /\ Cardinality({}) = 0
    BY FS_EmptySet
  <2>3. Cardinality(RunningOn("chat")) = 0 /\ Cardinality(RunningOn("council")) = 0
    BY <2>1, <2>2 DEF Routes
  <2>4. /\ chatActive = 0 /\ councilActive = 0
        /\ MaxChat \in Nat /\ MaxCouncil \in Nat /\ MaxTotal \in Nat
    BY LimitAssumption DEF Init
  <2> QED BY <2>1, <2>2, <2>3, <2>4 DEF Counted, SlotsExact, TotalActive
<1> QED BY <1>1, NextCounted, GuardTypes, PTL DEF Spec, Counted

(***************************************************************************)
(* What a replayed chat response stands for.                               *)
(***************************************************************************)
\* A chat that is about to answer has its exchange in Postgres.
Stored ==
    /\ \A r \in Requests : reqs[r].phase = "stored" /\ Keyed(r) => postgres[Slot(r)] >= 1
    /\ ReplayIsStored

LEMMA StoredFrame ==
    ASSUME TypeOK, Stored, NEW r \in Requests, postgres' = postgres,
           \A p \in Requests : p # r => reqs'[p] = reqs[p],
           reqs'[r].phase # "stored" \/ reqs'[r] = [reqs[r] EXCEPT !.age = reqs'[r].age],
           \A s \in Slots : entries'[s].state = "completed" =>
              \/ entries[s].state = "completed"
              \/ Keyed(r) /\ Slot(r) = s /\ (s[1] = "chat" => reqs[r].phase = "stored")
    PROVE  Stored'
<1>1. \A p \in Requests : reqs'[p].phase = "stored" =>
         reqs[p].phase = "stored" /\ reqs'[p].key = reqs[p].key /\ reqs'[p].route = reqs[p].route
  BY DEF TypeOK, Request
<1>2. ASSUME NEW k \in Keys, entries'[<<"chat", k>>].state = "completed"
      PROVE  postgres[<<"chat", k>>] >= 1
  BY <1>2 DEF Stored, ReplayIsStored, Slots, Routes
<1> QED BY <1>1, <1>2 DEF Stored, ReplayIsStored, Keyed, Slot

LEMMA NextStored == TypeOK /\ Stored /\ [Next]_vars => Stored'
<1> SUFFICES ASSUME TypeOK, Stored, [Next]_vars PROVE Stored'
  OBVIOUS
<1>1. \A s \in Slots : PurgedEntries[s].state = "completed" => entries[s].state = "completed"
  BY DEF PurgedEntries, NoEntry
<1>2. ASSUME NEW r \in Requests, NEW route \in Routes, NEW k \in Keys \cup {NoKey},
             NEW q \in Questions,
             Answered(r, route, k, q) \/ Overloaded(r, route, k, q) \/ Admitted(r, route, k, q)
      PROVE  Stored'
  <2>1. /\ \A p \in Requests : p # r => reqs'[p] = reqs[p]
        /\ reqs'[r].phase # "stored" /\ postgres' = postgres
    BY <1>2 DEF Answered, Overloaded, Admitted, Arrived, TypeOK
  <2>2. \A s \in Slots : entries'[s].state = "completed" => entries[s].state = "completed"
    BY <1>1, <1>2, PurgedTypes DEF Answered, Overloaded, Admitted, Begun
  <2> QED BY <2>1, <2>2, StoredFrame
<1>3. ASSUME NEW r \in Requests, WriteSqlite(r) PROVE Stored'
  <2>1. /\ \A p \in Requests : p # r => reqs'[p] = reqs[p]
        /\ reqs'[r].phase # "stored" /\ postgres' = postgres /\ entries' = entries
    BY <1>3 DEF WriteSqlite, TypeOK, Request
  <2> QED BY <2>1, StoredFrame
<1>4. ASSUME NEW r \in Requests, CommitPostgres(r) PROVE Stored'
  <2>1. \A s \in Slots : postgres'[s] \in Nat /\ postgres'[s] >= postgres[s]
    BY <1>4, SlotType DEF CommitPostgres, Appended, TypeOK
  <2>2. Keyed(r) => Slot(r) \in Slots /\ postgres'[Slot(r)] >= 1
    BY <1>4, SlotType DEF CommitPostgres, Appended, TypeOK
  <2>3. /\ \A p \in Requests : p # r => reqs'[p] = reqs[p]
        /\ reqs'[r].key = reqs[r].key /\ reqs'[r].route = reqs[r].route
        /\ entries' = entries
    BY <1>4 DEF CommitPostgres, TypeOK, Request
  <2>4. ASSUME NEW p \in Requests, reqs'[p].phase = "stored", Keyed(p)'
        PROVE  postgres'[Slot(p)'] >= 1
    <3>1. CASE p = r
      BY <2>2, <2>3, <2>4, <3>1 DEF Keyed, Slot
    <3>2. CASE p # r
      <4>1. Keyed(p) /\ Slot(p)' = Slot(p) /\ Slot(p) \in Slots /\ postgres[Slot(p)] >= 1
        BY <2>3, <2>4, <3>2, SlotType DEF Keyed, Slot, Stored
      <4> QED BY <2>1, <4>1 DEF TypeOK
    <3> QED BY <3>1, <3>2
  <2>5. ASSUME NEW k \in Keys, entries[<<"chat", k>>].state = "completed"
        PROVE  postgres'[<<"chat", k>>] >= 1
    <3>1. <<"chat", k>> \in Slots /\ postgres[<<"chat", k>>] >= 1
      BY <2>5 DEF Stored, ReplayIsStored, Slots, Routes
    <3> QED BY <2>1, <3>1 DEF TypeOK
  <2> QED BY <2>3, <2>4, <2>5 DEF Stored, ReplayIsStored
<1>5. ASSUME NEW r \in Requests, Succeed(r) \/ Fail(r) PROVE Stored'
  <2>1. /\ \A p \in Requests : p # r => reqs'[p] = reqs[p]
        /\ reqs'[r].phase # "stored" /\ postgres' = postgres
    BY <1>5 DEF Succeed, Fail, TypeOK, Request
  <2>2. \A s \in Slots : entries'[s].state = "completed" =>
           \/ entries[s].state = "completed"
           \/ Keyed(r) /\ Slot(r) = s /\ (s[1] = "chat" => reqs[r].phase = "stored")
    BY <1>5, SlotType DEF Succeed, Completes, Fail, Released, NoEntry, TypeOK, Slot
  <2> QED BY <2>1, <2>2, StoredFrame
<1>6. ASSUME NEW r \in Requests, RequestAges(r) PROVE Stored'
  <2>1. /\ \A p \in Requests : p # r => reqs'[p] = reqs[p]
        /\ reqs'[r] = [reqs[r] EXCEPT !.age = reqs'[r].age]
        /\ postgres' = postgres /\ entries' = entries
    BY <1>6 DEF RequestAges, TypeOK, Request
  <2> QED BY <2>1, StoredFrame
<1>7. ASSUME NEW s \in Slots, EntryExpires(s) PROVE Stored'
  <2>1. /\ reqs' = reqs /\ postgres' = postgres
        /\ \A t \in Slots : entries'[t].state = entries[t].state
    BY <1>7 DEF EntryExpires, TypeOK, Entry
  <2> QED BY <2>1 DEF Stored, ReplayIsStored, Keyed, Slot, Slots, Routes
<1>8. CASE UNCHANGED vars
  BY <1>8 DEF vars, Stored, ReplayIsStored, Keyed, Slot
<1> QED BY <1>2, <1>3, <1>4, <1>5, <1>6, <1>7, <1>8 DEF Next, Arrive, Work

\* A chat response that is replayed stands for an exchange Postgres has, also
\* when a late request completes the entry of another.
THEOREM ReplaysAreStored == Spec => []ReplayIsStored
<1>1. Init => Stored
  BY DEF Init, Stored, ReplayIsStored, NoEntry, Slots, Routes
<1> QED BY <1>1, NextStored, GuardTypes, PTL DEF Spec, Stored
=============================================================================
