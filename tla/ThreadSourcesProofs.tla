-------------------------- MODULE ThreadSourcesProofs --------------------------
(***************************************************************************)
(* However uploads, drains, announcements and chat turns interleave, and   *)
(* whatever announcements are lost, a thread is answered from its own      *)
(* files, a file that has left its sources stays out, and one that is      *)
(* pending is not forgotten: for every set of files and of turns.          *)
(***************************************************************************)
EXTENDS ThreadSources, SequenceTheorems, TLAPS

\* A state of a thread, by its fields: the mutators are proved field by field.
SourceFields == {"conversation", "pending", "active", "recent", "latest", "burst",
                 "unused", "burstOpen", "idle"}
IsRecord(r) == r = [x \in SourceFields |-> r[x]]

LEMMA StateByFields ==
    ASSUME NEW r, IsRecord(r),
           r.conversation \in Seq(Files), r.pending \subseteq Files, r.active \subseteq Files,
           r.recent \subseteq Files, r.latest \subseteq Files, r.burst \subseteq Files,
           r.unused \in 0 .. MaxUnused - 1, r.burstOpen \in BOOLEAN, r.idle \in BOOLEAN
    PROVE  r \in SourceState
BY DEF SourceState, SourceFields, IsRecord

LEMMA FieldsOfState ==
    ASSUME NEW s \in SourceState
    PROVE  /\ IsRecord(s)
           /\ s.conversation \in Seq(Files) /\ s.pending \subseteq Files /\ s.active \subseteq Files
           /\ s.recent \subseteq Files /\ s.latest \subseteq Files /\ s.burst \subseteq Files
           /\ s.unused \in 0 .. MaxUnused - 1 /\ s.burstOpen \in BOOLEAN /\ s.idle \in BOOLEAN
BY DEF SourceState, SourceFields, IsRecord

\* The state of a thread holds together: its sources are files of the
\* conversation, and a file is pending, active or recent, never two of these.
Coherent(s) ==
    /\ s \in SourceState
    /\ s.pending \cup s.active \cup s.recent \cup s.latest \subseteq Conversation(s)
    /\ s.pending \cap s.active = {}
    /\ s.recent \cap Live(s) = {}

\* What every mutator grants: no file leaves the conversation or the recent
\* files, a recent one does not come back, and only files in new become pending.
Follows(s, r, new) ==
    /\ Coherent(r)
    /\ Conversation(s) \subseteq Conversation(r)
    /\ Conversation(r) \subseteq Conversation(s) \cup new
    /\ s.recent \subseteq r.recent
    /\ s.recent \cap Live(r) = {}
    /\ r.pending \subseteq s.pending \cup new

LEMMA FollowsItself ==
    ASSUME NEW s, Coherent(s)
    PROVE  Follows(s, s, {})
BY DEF Follows, Coherent

LEMMA AppendedConversation ==
    ASSUME NEW s \in SourceState, NEW r, NEW f \in Files,
           r.conversation = Append(s.conversation, f)
    PROVE  /\ r.conversation \in Seq(Files)
           /\ Conversation(r) = Conversation(s) \cup {f}
<1>1. s.conversation \in Seq(Files)
  BY DEF SourceState
<1> DEFINE new == Append(s.conversation, f)
           n == Len(s.conversation)
<1>2. /\ new \in Seq(Files) /\ Len(new) = n + 1 /\ n \in Nat
      /\ \A i \in 1 .. n : new[i] = s.conversation[i]
      /\ new[n + 1] = f
  BY <1>1, AppendProperties, LenProperties
<1>3. DOMAIN new = 1 .. n + 1 /\ DOMAIN s.conversation = 1 .. n
  BY <1>1, <1>2, LenProperties
<1> HIDE DEF new, n
<1>4. {new[i] : i \in 1 .. n + 1} = {s.conversation[i] : i \in 1 .. n} \cup {f}
  <2>1. 1 .. n + 1 = (1 .. n) \cup {n + 1}
    BY <1>2
  <2> QED BY <1>2, <2>1
<1> QED BY <1>2, <1>3, <1>4 DEF Conversation, new

LEMMA SameConversation ==
    ASSUME NEW s, NEW r, r.conversation = s.conversation
    PROVE  Conversation(r) = Conversation(s)
BY DEF Conversation

\* An upload that is not yet in the conversation is in none of the sources, so
\* it can join them.
LEMMA UploadedFollows ==
    ASSUME NEW s, Coherent(s), NEW f \in Files, f \notin Conversation(s)
    PROVE  Follows(s, Uploaded(s, f), {f})
<1> DEFINE r == Uploaded(s, f)
<1>1. s \in SourceState
  BY DEF Coherent
<1>2. /\ r.conversation = Append(s.conversation, f)
      /\ r.pending \in {{f}, s.pending \cup {f}}
      /\ r.pending = {f} => r.active \in {{}, s.active}
  BY <1>1 DEF Uploaded, SourceState
<1>3. /\ r.conversation \in Seq(Files) /\ Conversation(r) = Conversation(s) \cup {f}
  BY <1>1, <1>2, AppendedConversation
<1>4. CASE s.burstOpen /\ Live(s) # {}
  <2>1. r = [s EXCEPT !.conversation = Append(@, f), !.pending = @ \cup {f}, !.burst = @ \cup {f}]
    BY <1>4 DEF Uploaded
  <2>2. /\ r.pending = s.pending \cup {f} /\ r.active = s.active /\ r.recent = s.recent
        /\ r.latest = s.latest
    BY <1>1, <2>1 DEF SourceState
  <2>3. r \in SourceState
    <3>1. IsRecord(r)
      BY <1>1, FieldsOfState DEF Uploaded, SourceFields, IsRecord
    <3>2. r.burst = s.burst \cup {f} /\ r.unused = s.unused
      BY <1>1, <2>1 DEF SourceState
    <3>3. r.burstOpen \in BOOLEAN /\ r.idle \in BOOLEAN
      BY <1>1, <1>4 DEF Uploaded, SourceState
    <3> HIDE DEF r
    <3> QED BY <1>1, <1>3, <2>2, <3>1, <3>2, <3>3, FieldsOfState, StateByFields
  <2> QED BY <1>3, <2>2, <2>3 DEF Follows, Coherent, Live
<1>5. CASE ~(s.burstOpen /\ Live(s) # {})
  <2>1. /\ r.pending = {f} /\ r.active = {} /\ r.recent = s.recent \cup Live(s)
        /\ r.latest \in {s.pending, s.active, s.latest}
    BY <1>1, <1>5 DEF Uploaded, SourceState
  <2>2. r \in SourceState
    <3>1. IsRecord(r)
      BY <1>1, FieldsOfState DEF Uploaded, SourceFields, IsRecord
    <3>2. r.burst = {f} /\ r.unused = 0
      BY <1>1, <1>5 DEF Uploaded, SourceState
    <3>3. r.burstOpen \in BOOLEAN /\ r.idle \in BOOLEAN
      BY <1>1, <1>5 DEF Uploaded, SourceState
    <3> HIDE DEF r
    <3> QED BY <1>1, <1>3, <2>1, <3>1, <3>2, <3>3, FieldsOfState, StateByFields DEF Live, MaxUnused
  <2> QED BY <1>3, <2>1, <2>2 DEF Follows, Coherent, Live
<1> QED BY <1>4, <1>5

LEMMA FileReadyFollows ==
    ASSUME NEW s, Coherent(s), NEW f \in Files
    PROVE  /\ Follows(s, FileReady(s, f), {})
           /\ f \notin FileReady(s, f).pending
<1> DEFINE r == FileReady(s, f)
<1>1. CASE f \notin s.pending
  BY <1>1, FollowsItself DEF FileReady
<1>2. CASE f \in s.pending
  <2>1. s \in SourceState
    BY DEF Coherent
  <2>2. /\ r.conversation = s.conversation /\ r.pending = s.pending \ {f}
        /\ r.active = s.active \cup {f} /\ r.recent = s.recent /\ r.latest = s.latest
    BY <1>2, <2>1 DEF FileReady, SourceState
  <2>4. r \in SourceState
    <3>1. IsRecord(r)
      BY <2>1, FieldsOfState DEF FileReady, SourceFields, IsRecord
    <3>2. r.burst = s.burst /\ r.unused \in 0 .. MaxUnused - 1
      BY <1>2, <2>1 DEF FileReady, SourceState, MaxUnused
    <3>3. r.burstOpen \in BOOLEAN /\ r.idle \in BOOLEAN
      BY <1>2, <2>1 DEF FileReady, SourceState
    <3> HIDE DEF r
    <3> QED BY <2>1, <2>2, <3>1, <3>2, <3>3, FieldsOfState, StateByFields
  <2>3. Conversation(r) = Conversation(s)
    BY <2>2, SameConversation
  <2> HIDE DEF r
  <2>5. Follows(s, r, {}) /\ f \notin r.pending
    BY <1>2, <2>2, <2>3, <2>4 DEF Follows, Coherent, Live
  <2> QED BY <2>5 DEF r
<1> QED BY <1>1, <1>2

LEMMA FileFailedFollows ==
    ASSUME NEW s, Coherent(s), NEW f \in Files
    PROVE  /\ Follows(s, FileFailed(s, f), {})
           /\ f \notin FileFailed(s, f).pending
<1> DEFINE r == FileFailed(s, f)
<1>1. s \in SourceState
  BY DEF Coherent
<1>2. /\ r.conversation = s.conversation /\ r.pending = s.pending \ {f}
      /\ r.active = s.active \ {f} /\ r.recent = s.recent /\ r.latest = s.latest
  BY <1>1 DEF FileFailed, SourceState
<1>5. r \in SourceState
  <2>1. IsRecord(r)
    BY <1>1, FieldsOfState DEF FileFailed, SourceFields, IsRecord
  <2>2. r.burst = s.burst \ {f} /\ r.unused \in 0 .. MaxUnused - 1
    BY <1>1 DEF FileFailed, SourceState, MaxUnused
  <2>3. r.burstOpen \in BOOLEAN /\ r.idle \in BOOLEAN
    BY <1>1 DEF FileFailed, SourceState
  <2> HIDE DEF r
  <2> QED BY <1>1, <1>2, <2>1, <2>2, <2>3, FieldsOfState, StateByFields
<1>3. Conversation(r) = Conversation(s)
  BY <1>2, SameConversation
<1> HIDE DEF r
<1>4. Follows(s, r, {}) /\ f \notin r.pending
  BY <1>2, <1>3, <1>5 DEF Follows, Coherent, Live
<1> QED BY <1>4 DEF r

LEMMA ActiveToRecentFollows ==
    ASSUME NEW s, Coherent(s)
    PROVE  Follows(s, ActiveToRecent(s), {})
<1> DEFINE r == ActiveToRecent(s)
<1>1. s \in SourceState
  BY DEF Coherent
<1>2. /\ r.conversation = s.conversation /\ r.pending = s.pending
      /\ r.active = {} /\ r.recent = s.recent \cup s.active /\ r.latest \in {s.latest, s.active}
  BY <1>1 DEF ActiveToRecent, SourceState
<1>5. r \in SourceState
  <2>1. IsRecord(r)
    BY <1>1, FieldsOfState DEF ActiveToRecent, SourceFields, IsRecord
  <2>2. r.burst = s.burst /\ r.unused \in 0 .. MaxUnused - 1
    BY <1>1 DEF ActiveToRecent, SourceState, MaxUnused
  <2>3. r.burstOpen \in BOOLEAN /\ r.idle \in BOOLEAN
    BY <1>1 DEF ActiveToRecent, SourceState
  <2> HIDE DEF r
  <2> QED BY <1>1, <1>2, <2>1, <2>2, <2>3, FieldsOfState, StateByFields
<1>3. Conversation(r) = Conversation(s)
  BY <1>2, SameConversation
<1> HIDE DEF r
<1>4. Follows(s, r, {})
  BY <1>2, <1>3, <1>5 DEF Follows, Coherent, Live
<1> QED BY <1>4 DEF r

LEMMA ExpiredFollows ==
    ASSUME NEW s, Coherent(s)
    PROVE  Follows(s, Expired(s), {})
BY ActiveToRecentFollows, FollowsItself DEF Expired

LEMMA FollowsTwice ==
    ASSUME NEW s, NEW r, NEW q, Follows(s, r, {}), Follows(r, q, {})
    PROVE  Follows(s, q, {})
BY DEF Follows, Coherent

\* A turn that is recorded only ever moves active files to the recent ones.
LEMMA AfterTurnFollows ==
    ASSUME NEW s, Coherent(s), NEW used
    PROVE  Follows(s, AfterTurn(s, used), {})
<1> DEFINE e == Expired(s)
<1>1. Follows(s, e, {}) /\ Coherent(e) /\ e \in SourceState
  BY ExpiredFollows DEF Follows, Coherent
<1> HIDE DEF e
<1>2. ASSUME NEW r \in SourceState, r.conversation = e.conversation, r.pending = e.pending,
             r.active = e.active, r.recent = e.recent, r.latest = e.latest
      PROVE  Follows(e, r, {})
  BY <1>1, <1>2, SameConversation DEF Follows, Coherent, Live
<1>3. Follows(e, [e EXCEPT !.unused = 0, !.idle = FALSE], {})
  <2> DEFINE r == [e EXCEPT !.unused = 0, !.idle = FALSE]
  <2>1. r.conversation = e.conversation /\ r.pending = e.pending
        /\ r.active = e.active /\ r.recent = e.recent /\ r.latest = e.latest /\ r.burst = e.burst
        /\ r.unused = 0 /\ r.burstOpen = e.burstOpen
    BY <1>1 DEF SourceState
  <2>2. IsRecord(r) /\ r.idle \in BOOLEAN
    BY <1>1, FieldsOfState DEF SourceFields, IsRecord
  <2> HIDE DEF r
  <2>3. r \in SourceState
    BY <1>1, <2>1, <2>2, FieldsOfState, StateByFields DEF MaxUnused
  <2>4. Follows(e, r, {})
    BY <1>2, <2>1, <2>3
  <2> QED BY <2>4 DEF r
<1>4. ASSUME ~(e.unused + 1 >= MaxUnused)
      PROVE  Follows(e, [e EXCEPT !.unused = @ + 1], {})
  <2> DEFINE r == [e EXCEPT !.unused = @ + 1]
  <2>1. r \in SourceState /\ r.conversation = e.conversation /\ r.pending = e.pending
        /\ r.active = e.active /\ r.recent = e.recent /\ r.latest = e.latest
    BY <1>1, <1>4 DEF SourceState, MaxUnused
  <2> QED BY <1>2, <2>1
<1>5. AfterTurn(s, used) \in {e, [e EXCEPT !.unused = 0, !.idle = FALSE], ActiveToRecent(e)}
      \/ /\ ~(e.unused + 1 >= MaxUnused)
         /\ AfterTurn(s, used) = [e EXCEPT !.unused = @ + 1]
  BY DEF AfterTurn, e
<1> QED BY <1>1, <1>3, <1>4, <1>5, FollowsItself, ActiveToRecentFollows, FollowsTwice

-------------------------------------------------------------------------------
\* The announcement of f is still to come, or will not come.
Awaited(f) ==
    \/ f \in due \/ \E n \in notices : n.file = f
    \/ f \in lost \/ row[f] = "deleted"

\* An upload is recorded once, and is awaited from its commit on: the second
\* because its announcement may come before the upload is recorded.
SourcesInv ==
    /\ row \in [AllFiles -> {"absent", "unready", "ready", "deleted"}]
    /\ due \in SUBSET Files /\ unrecorded \in SUBSET Files /\ lost \in SUBSET Files
    /\ notices \in SUBSET [file : Files, is : {"ready", "unready"}]
    /\ Coherent(src)
    /\ unrecorded \cap Conversation(src) = {}
    /\ \A f \in Files : row[f] = "absent" => f \notin unrecorded \cup Conversation(src)
    /\ \A f \in src.pending \cup unrecorded : Awaited(f)

\* No file leaves the conversation, and no recent one comes back.
Onward ==
    /\ Conversation(src) \subseteq Conversation(src')
    /\ src.recent \subseteq src'.recent
    /\ src.recent \cap Live(src') = {}

LEMMA InitSources == Init => SourcesInv
<1> SUFFICES ASSUME Init PROVE SourcesInv
  OBVIOUS
<1>1. EmptyState \in SourceState
  <2>1. <<>> \in Seq(Files)
    BY EmptySeq
  <2> QED BY <2>1 DEF EmptyState, SourceState, MaxUnused
<1>2. Conversation(EmptyState) = {}
  BY DEF EmptyState, Conversation
<1>3. Coherent(EmptyState)
  BY <1>1, <1>2 DEF Coherent, EmptyState, Live
<1>4. EmptyState.pending = {}
  BY DEF EmptyState
<1> QED BY <1>2, <1>3, <1>4 DEF Init, SourcesInv, AllFiles

\* Where the thread's state is what it was, or follows it without a new file, the
\* conversation and the recent files are kept.
LEMMA FollowsOnward ==
    ASSUME NEW new, Follows(src, src', new)
    PROVE  Onward /\ Coherent(src')
BY DEF Follows, Onward

\* A mutator of the state that makes nothing pending, while the rows, the jobs and
\* the announcements stay.
LEMMA StateFollows ==
    ASSUME SourcesInv, Follows(src, src', {}), UNCHANGED <<row, due, unrecorded, notices, lost>>
    PROVE  SourcesInv' /\ Onward
<1>1. Onward /\ Coherent(src') /\ Conversation(src') = Conversation(src)
      /\ src'.pending \subseteq src.pending
  BY FollowsOnward DEF Follows
<1> QED BY <1>1 DEF SourcesInv, Awaited, AllFiles

\* The state of the thread stays, while its files move on.
LEMMA StateStays ==
    ASSUME SourcesInv, UNCHANGED src
    PROVE  Onward /\ Conversation(src)' = Conversation(src) /\ Coherent(src)' /\ Coherent(src)
BY DEF SourcesInv, Onward, Coherent, Conversation, Live

LEMMA StepSources ==
    ASSUME SourcesInv, [Next]_vars
    PROVE  SourcesInv' /\ Onward
<1> USE DEF SourcesInv, AllFiles
<1>1. ASSUME NEW f \in Files, Upload(f) PROVE SourcesInv' /\ Onward
  <2>1. UNCHANGED src
    BY <1>1 DEF Upload
  <2>2. f \in due' /\ f \in unrecorded' /\ row'[f] # "absent" /\ row[f] = "absent"
    BY <1>1 DEF Upload
  <2>3. \A g \in src.pending \cup unrecorded : g # f /\ Awaited(g)'
    <3>1. f \notin src.pending
      BY <2>2 DEF Coherent
    <3> QED BY <1>1, <3>1, <2>2 DEF Upload, Awaited
  <2>4. \A g \in src'.pending \cup unrecorded' : Awaited(g)'
    BY <1>1, <2>1, <2>2, <2>3 DEF Upload, Awaited
  <2>5. row' \in [AllFiles -> {"absent", "unready", "ready", "deleted"}]
    BY <1>1 DEF Upload
  <2>6. \A g \in Files : row'[g] = "absent" => g # f /\ row[g] = "absent"
    BY <1>1, <2>2 DEF Upload
  <2>7. UNCHANGED <<notices, lost>> /\ due' = due \cup {f} /\ unrecorded' = unrecorded \cup {f}
    BY <1>1 DEF Upload
  <2> QED BY <2>1, <2>2, <2>4, <2>5, <2>6, <2>7, StateStays DEF Upload
<1>2. ASSUME NEW f \in Files, RecordUpload(f) PROVE SourcesInv' /\ Onward
  <2>1. f \in unrecorded /\ f \notin Conversation(src) /\ src' = Uploaded(src, f)
        /\ unrecorded' = unrecorded \ {f} /\ UNCHANGED <<row, due, notices, lost>>
    BY <1>2 DEF RecordUpload
  <2>2. Follows(src, src', {f})
    BY <2>1, UploadedFollows
  <2>3. Onward /\ Coherent(src') /\ src'.pending \subseteq src.pending \cup {f}
        /\ Conversation(src') \subseteq Conversation(src) \cup {f}
    BY <2>2, FollowsOnward DEF Follows
  <2> QED BY <2>1, <2>3 DEF Awaited
<1>3. ASSUME NEW f \in Files, RecordUploadRaises(f) PROVE SourcesInv' /\ Onward
  BY <1>3, StateStays DEF RecordUploadRaises, Awaited
<1>4. ASSUME NEW f \in Files, Process(f) PROVE SourcesInv' /\ Onward
  <2>1. PICK result \in {"ready", "unready"} :
           /\ row' = [row EXCEPT ![f] = result]
           /\ notices' = notices \cup {[file |-> f, is |-> result]}
    BY <1>4 DEF Process
  <2>2. UNCHANGED <<src, unrecorded, lost>> /\ due' = due \ {f}
    BY <1>4 DEF Process
  <2>3. [file |-> f, is |-> result] \in notices'
    BY <2>1
  <2>4. \A g \in src.pending \cup unrecorded : Awaited(g)'
    <3> SUFFICES ASSUME NEW g \in src.pending \cup unrecorded PROVE Awaited(g)'
      OBVIOUS
    <3>1. CASE g = f
      BY <3>1, <2>3 DEF Awaited
    <3>2. CASE g # f
      BY <3>2, <2>1, <2>2 DEF Awaited
    <3> QED BY <3>1, <3>2
  <2>5. row' \in [AllFiles -> {"absent", "unready", "ready", "deleted"}]
        /\ notices' \in SUBSET [file : Files, is : {"ready", "unready"}]
    BY <2>1
  <2>6. \A g \in Files : row'[g] = "absent" => row[g] = "absent"
    BY <2>1
  <2> QED BY <2>2, <2>4, <2>5, <2>6, StateStays
<1>5. ASSUME NEW f \in Files, Retry(f) PROVE SourcesInv' /\ Onward
  BY <1>5, StateStays DEF Retry, Awaited
<1>6. ASSUME NEW f \in Files, Delete(f) PROVE SourcesInv' /\ Onward
  <2>1. UNCHANGED <<src, unrecorded, notices, lost>> /\ due' = due \ {f}
        /\ row' = [row EXCEPT ![f] = "deleted"]
    BY <1>6 DEF Delete
  <2>2. \A g \in src.pending \cup unrecorded : Awaited(g)'
    BY <2>1 DEF Awaited, Coherent, SourceState
  <2>3. row' \in [AllFiles -> {"absent", "unready", "ready", "deleted"}]
        /\ \A g \in Files : row'[g] = "absent" => row[g] = "absent"
    BY <2>1
  <2> QED BY <2>1, <2>2, <2>3, StateStays
<1>7. ASSUME NEW n \in notices, Notify(n) PROVE SourcesInv' /\ Onward
  <2>1. n.file \in Files /\ UNCHANGED <<row, due, unrecorded>> /\ notices' = notices \ {n}
        /\ lost' = lost \cup ({n.file} \cap unrecorded)
    BY <1>7 DEF Notify
  <2>2. Follows(src, src', {}) /\ (n.file \in Present => n.file \notin src'.pending)
    BY <1>7, <2>1, FollowsItself, FileReadyFollows, FileFailedFollows DEF Notify
  <2>3. Onward /\ Coherent(src') /\ src'.pending \subseteq src.pending
        /\ Conversation(src') = Conversation(src)
    BY <2>2, FollowsOnward DEF Follows
  <2>4. ASSUME NEW g \in src'.pending \cup unrecorded' PROVE Awaited(g)'
    <3>1. g \in src.pending \cup unrecorded /\ Awaited(g)
      BY <2>1, <2>3, <2>4
    <3>2. CASE g # n.file
      BY <2>1, <3>1, <3>2 DEF Awaited
    <3>3. CASE g = n.file /\ g \in unrecorded
      BY <2>1, <3>3 DEF Awaited
    <3>4. CASE g = n.file /\ g \notin unrecorded
      <4>1. g \in src.pending /\ g \notin Present /\ g \in Files
        BY <2>1, <2>2, <2>3, <2>4, <3>4
      <4>2. row[g] = "deleted"
        BY <4>1 DEF Present, Coherent
      <4> QED BY <2>1, <4>2 DEF Awaited
    <3> QED BY <3>2, <3>3, <3>4
  <2> QED BY <2>1, <2>3, <2>4
<1>8. ASSUME NEW n \in notices, NoticeLost(n) PROVE SourcesInv' /\ Onward
  <2>1. n.file \in Files /\ UNCHANGED <<row, due, unrecorded, src>> /\ notices' = notices \ {n}
        /\ lost' = lost \cup ({n.file} \cap (unrecorded \cup src.pending))
    BY <1>8 DEF NoticeLost
  <2>2. \A g \in src.pending \cup unrecorded : Awaited(g)'
    BY <2>1 DEF Awaited
  <2> QED BY <2>1, <2>2, StateStays
<1>9. ASSUME NEW t \in Turns, Serve(t) PROVE SourcesInv' /\ Onward
  <2>1. UNCHANGED <<row, due, unrecorded, notices, lost>>
    BY <1>9 DEF Serve, BeginTurn, ResolvePlain, ResolveMulti, ResolveRaises, LoadFiles, LoadRaises,
                RecordTurn, EndUnrecorded
  <2>2. src' \in {src, Expired(src), AfterTurn(src, turns[t].used)}
    BY <1>9 DEF Serve, BeginTurn, ResolvePlain, ResolveMulti, ResolveRaises, LoadFiles, LoadRaises,
                RecordTurn, EndUnrecorded
  <2>3. Follows(src, src', {})
    BY <2>2, FollowsItself, ExpiredFollows, AfterTurnFollows
  <2> QED BY <2>1, <2>3, StateFollows
<1>10. CASE BurstWindowEnds \/ IdleTimePasses
  <2>1. UNCHANGED <<row, due, unrecorded, notices, lost>>
        /\ src' \in {[src EXCEPT !.burstOpen = FALSE], [src EXCEPT !.idle = TRUE]}
    BY <1>10 DEF BurstWindowEnds, IdleTimePasses
  <2>2. src \in SourceState
    BY DEF Coherent
  <2>3. src'.conversation = src.conversation
        /\ src'.pending = src.pending /\ src'.active = src.active /\ src'.burst = src.burst
        /\ src'.recent = src.recent /\ src'.latest = src.latest /\ src'.unused = src.unused
    BY <2>1, <2>2 DEF SourceState
  <2>5. IsRecord(src') /\ src'.burstOpen \in BOOLEAN /\ src'.idle \in BOOLEAN
    BY <2>1, <2>2, FieldsOfState, Zenon DEF SourceFields, IsRecord
  <2>6. src' \in SourceState
    BY <2>2, <2>3, <2>5, FieldsOfState, StateByFields
  <2>4. Follows(src, src', {})
    BY <2>3, <2>6, SameConversation DEF Follows, Coherent, Live
  <2> QED BY <2>1, <2>4, StateFollows
<1>11. CASE UNCHANGED vars
  BY <1>11, StateStays DEF vars, Awaited
<1> QED
  BY <1>1, <1>2, <1>3, <1>4, <1>5, <1>6, <1>7, <1>8, <1>9, <1>10, <1>11 DEF Next

-------------------------------------------------------------------------------
\* What a turn may use is decided when it reads the sources, and kept while they
\* change: the conversation only grows.
TurnsInv ==
    /\ turns \in [Turns -> Turn]
    /\ \A t \in Turns : turns[t].phase = "resolved" /\ turns[t].bound
          => turns[t].allow \subseteq Conversation(src)
    /\ RestrictedToSources

\* A step of one turn to a state that is as restricted as the turn has to be.
LEMMA OneTurnMoves ==
    ASSUME TurnsInv, Conversation(src) \subseteq Conversation(src'),
           NEW t \in Turns, NEW turn \in Turn, Moves(t, turn),
           turn.phase = "resolved" /\ turn.bound => turn.allow \subseteq Conversation(src),
           turn.phase = "streaming" /\ turn.bound => turn.used \subseteq Conversation(src)
    PROVE  TurnsInv'
<1>1. /\ turns' \in [Turns -> Turn] /\ turns'[t] = turn
      /\ \A u \in Turns : u # t => turns'[u] = turns[u]
  BY DEF TurnsInv, Moves
<1> QED BY <1>1 DEF TurnsInv, RestrictedToSources

LEMMA NewTurnType == NewTurn \in Turn
BY DEF NewTurn, Turn

\* Whatever the message asks for, a comparison is of files of the conversation.
LEMMA SelectionsFromConversation ==
    ASSUME Coherent(src), NEW intent \in Intents, NEW S \in Selections(intent)
    PROVE  S \subseteq Conversation(src)
<1>1. /\ src.pending \subseteq Conversation(src) /\ src.active \subseteq Conversation(src)
      /\ src.latest \subseteq Conversation(src)
  BY DEF Coherent
<1>2. \A A : LastTwo(A) \subseteq A
  BY DEF LastTwo
<1>3. CASE intent = "last_two"
  <2>1. S = LastTwo(Conversation(src))
    BY <1>3 DEF Selections
  <2> QED BY <1>2, <2>1
<1>4. CASE intent = "previous_current"
  <2> DEFINE current == IF src.active # {} THEN src.active ELSE src.pending
  <2>1. PICK p \in src.latest : S = {p} \cup current
    BY <1>4 DEF Selections
  <2> QED BY <1>1, <2>1
<1>5. CASE intent = "pair"
  <2> DEFINE pool == IF Cardinality(Pool) >= 2 THEN Pool ELSE Conversation(src)
  <2>1. S = LastTwo(pool)
    BY <1>5 DEF Selections
  <2>2. pool \subseteq Conversation(src)
    BY DEF Pool
  <2> QED BY <1>2, <2>1, <2>2
<1>6. CASE intent = "uncounted"
  <2>1. S = Live(src) \/ S = Pool
    BY <1>6 DEF Selections
  <2> QED BY <1>1, <2>1 DEF Live, Pool
<1> QED BY <1>3, <1>4, <1>5, <1>6 DEF Intents

LEMMA ConversationOfFiles ==
    ASSUME Coherent(src)
    PROVE  Conversation(src) \subseteq Files
<1>1. src.conversation \in Seq(Files)
  BY DEF Coherent, SourceState
<1>2. \A i \in DOMAIN src.conversation : src.conversation[i] \in Files
  BY <1>1
<1> QED BY <1>2 DEF Conversation

LEMMA StepTurns ==
    ASSUME SourcesInv, TurnsInv, Onward, [Next]_vars
    PROVE  TurnsInv'
<1>0. /\ Coherent(src) /\ Conversation(src) \subseteq Conversation(src')
      /\ Conversation(src) \subseteq AllFiles
      /\ Live(src) \subseteq Conversation(src)
  BY ConversationOfFiles DEF SourcesInv, Onward, AllFiles, Coherent, Live
<1>1. ASSUME UNCHANGED turns PROVE TurnsInv'
  BY <1>0, <1>1 DEF TurnsInv, RestrictedToSources
<1>2. ASSUME NEW t \in Turns, BeginTurn(t) PROVE TurnsInv'
  <2>1. [turns[t] EXCEPT !.phase = "begun"] \in Turn
        /\ [turns[t] EXCEPT !.phase = "begun"].phase = "begun"
    BY DEF TurnsInv, Turn
  <2> QED BY <1>0, <1>2, <2>1, OneTurnMoves DEF BeginTurn
<1>3. ASSUME NEW t \in Turns, ResolvePlain(t) PROVE TurnsInv'
  <2> DEFINE bound == Live(src) # {}
             allow == IF Live(src) = {} THEN AllFiles ELSE Live(src)
             r == [turns[t] EXCEPT !.phase = "resolved", !.bound = bound, !.allow = allow]
  <2>1. Moves(t, r)
    BY <1>3 DEF ResolvePlain
  <2>2. turns[t] \in Turn /\ bound \in BOOLEAN /\ allow \in SUBSET AllFiles
    BY <1>0 DEF TurnsInv
  <2>3. r \in Turn /\ r.phase = "resolved" /\ r.bound = bound /\ r.allow = allow
    <3> HIDE DEF bound, allow
    <3> QED BY <2>2, Zenon DEF Turn
  <2>4. r.bound => r.allow \subseteq Conversation(src)
    BY <1>0, <2>3
  <2> HIDE DEF r
  <2> QED BY <1>0, <2>1, <2>3, <2>4, OneTurnMoves
<1>4. ASSUME NEW t \in Turns, ResolveMulti(t) PROVE TurnsInv'
  <2>1. CASE Moves(t, [NewTurn EXCEPT !.phase = "ended"])
    <3>1. [NewTurn EXCEPT !.phase = "ended"] \in Turn
          /\ [NewTurn EXCEPT !.phase = "ended"].phase = "ended"
      BY NewTurnType DEF Turn
    <3> QED BY <1>0, <2>1, <3>1, OneTurnMoves
  <2>2. ASSUME NEW intent \in Intents, NEW selected \in Selections(intent),
               Moves(t, [turns[t] EXCEPT !.phase = "resolved", !.bound = TRUE, !.multi = TRUE,
                                         !.allow = selected])
        PROVE  TurnsInv'
    <3> DEFINE r == [turns[t] EXCEPT !.phase = "resolved", !.bound = TRUE, !.multi = TRUE,
                                     !.allow = selected]
    <3>1. turns[t] \in Turn /\ selected \in SUBSET AllFiles /\ selected \subseteq Conversation(src)
      BY <1>0, SelectionsFromConversation DEF TurnsInv
    <3>2. r \in Turn /\ r.phase = "resolved" /\ r.allow = selected
      BY <3>1, Zenon DEF Turn
    <3> HIDE DEF r
    <3>3. Moves(t, r)
      BY <2>2 DEF r
    <3> QED BY <1>0, <3>1, <3>2, <3>3, OneTurnMoves
  <2> QED BY <1>4, <2>1, <2>2 DEF ResolveMulti
<1>5. ASSUME NEW t \in Turns, ResolveRaises(t) PROVE TurnsInv'
  <2> DEFINE bound == Live(src) # {}
             r == [turns[t] EXCEPT !.phase = "resolved", !.bound = bound, !.allow = {}]
  <2>1. Moves(t, r)
    BY <1>5 DEF ResolveRaises, OnError
  <2>2. turns[t] \in Turn /\ bound \in BOOLEAN
    BY DEF TurnsInv
  <2>3. r \in Turn /\ r.phase = "resolved" /\ r.allow = {}
    <3>1. {} \in SUBSET AllFiles
      OBVIOUS
    <3> HIDE DEF bound
    <3> QED BY <2>2, <3>1, Zenon DEF Turn
  <2> HIDE DEF r
  <2> QED BY <1>0, <2>1, <2>3, OneTurnMoves
<1>6. ASSUME NEW t \in Turns, NEW used \in SUBSET AllFiles, NEW bound \in BOOLEAN,
             Streams(t, used, bound), bound => used \subseteq Conversation(src)
      PROVE  TurnsInv'
  <2> DEFINE r == [turns[t] EXCEPT !.phase = "streaming", !.used = used, !.bound = bound,
                                   !.allow = {}, !.multi = FALSE]
  <2>1. Moves(t, r)
    BY <1>6 DEF Streams
  <2>2. turns[t] \in Turn
    BY DEF TurnsInv
  <2>3. r \in Turn /\ r.phase = "streaming" /\ r.used = used /\ (r.bound <=> bound)
    BY <1>6, <2>2, Zenon DEF Turn
  <2> HIDE DEF r
  <2> QED BY <1>0, <1>6, <2>1, <2>3, OneTurnMoves
<1>7. ASSUME NEW t \in Turns, LoadFiles(t) PROVE TurnsInv'
  <2>1. PICK named \in Namings :
           LET readyNamed == named \cap Ready
               allowed    == IF readyNamed # {} THEN readyNamed ELSE turns[t].allow \cap Ready
           IN  \E used \in Evidence(allowed) :
                 \/ Moves(t, [NewTurn EXCEPT !.phase = "ended"])
                 \/ Streams(t, used, turns[t].bound /\ readyNamed = {})
    BY <1>7 DEF LoadFiles
  <2> DEFINE readyNamed == named \cap Ready
             allowed    == IF readyNamed # {} THEN readyNamed ELSE turns[t].allow \cap Ready
  <2>2. PICK used \in SUBSET allowed :
           \/ Moves(t, [NewTurn EXCEPT !.phase = "ended"])
           \/ Streams(t, used, turns[t].bound /\ readyNamed = {})
    BY <2>1 DEF Evidence
  <2>3. CASE Moves(t, [NewTurn EXCEPT !.phase = "ended"])
    <3>1. [NewTurn EXCEPT !.phase = "ended"] \in Turn
          /\ [NewTurn EXCEPT !.phase = "ended"].phase = "ended"
      BY NewTurnType DEF Turn
    <3> QED BY <1>0, <2>3, <3>1, OneTurnMoves
  <2>4. CASE Streams(t, used, turns[t].bound /\ readyNamed = {})
    <3>1. used \in SUBSET AllFiles
      BY DEF Ready
    <3>2. turns[t].phase = "resolved"
      BY <1>7 DEF LoadFiles
    <3>3. turns[t].bound /\ readyNamed = {} => used \subseteq Conversation(src)
      BY <3>2 DEF TurnsInv
    <3>4. (turns[t].bound /\ readyNamed = {}) \in BOOLEAN
      OBVIOUS
    <3> HIDE DEF readyNamed, allowed
    <3> QED BY <1>6, <2>4, <3>1, <3>3, <3>4
  <2> QED BY <2>2, <2>3, <2>4
<1>8. ASSUME NEW t \in Turns, LoadRaises(t) PROVE TurnsInv'
  <2>1. turns[t].bound \in BOOLEAN
    BY DEF TurnsInv, Turn
  <2> QED BY <1>6, <1>8, <2>1 DEF LoadRaises
<1>9. ASSUME NEW t \in Turns, RecordTurn(t) \/ EndUnrecorded(t) PROVE TurnsInv'
  <2>1. src.active \subseteq Files
    BY <1>0 DEF Coherent, SourceState
  <2>2. PICK r : /\ Moves(t, r)
                 /\ r \in {[NewTurn EXCEPT !.phase = "recorded", !.saw = src.active],
                           [NewTurn EXCEPT !.phase = "ended"]}
    BY <1>9 DEF RecordTurn, EndUnrecorded
  <2>3. r \in Turn /\ r.phase \in {"recorded", "ended"}
    BY <2>1, <2>2, NewTurnType DEF Turn
  <2> QED BY <1>0, <2>2, <2>3, OneTurnMoves
<1>10. ASSUME NEW f \in Files, \/ Upload(f) \/ RecordUpload(f) \/ RecordUploadRaises(f)
                               \/ Process(f) \/ Retry(f) \/ Delete(f)
       PROVE  TurnsInv'
  BY <1>1, <1>10 DEF Upload, RecordUpload, RecordUploadRaises, Process, Retry, Delete
<1>11. ASSUME NEW n \in notices, Notify(n) \/ NoticeLost(n) PROVE TurnsInv'
  BY <1>1, <1>11 DEF Notify, NoticeLost
<1>12. CASE BurstWindowEnds \/ IdleTimePasses \/ UNCHANGED vars
  BY <1>1, <1>12 DEF BurstWindowEnds, IdleTimePasses, vars
<1> QED
  BY <1>2, <1>3, <1>4, <1>5, <1>7, <1>8, <1>9, <1>10, <1>11, <1>12 DEF Next, Serve

LEMMA InitTurns == Init => TurnsInv
<1>1. NewTurn \in Turn /\ NewTurn.phase = "waiting"
  BY NewTurnType DEF NewTurn
<1> QED BY <1>1 DEF Init, TurnsInv, RestrictedToSources

-------------------------------------------------------------------------------
\* The conversation, its sources and the turns that read them, whatever the
\* order of uploads, announcements, requests, retries and deletions.
THEOREM SourcesInvariant == Spec => [](SourcesInv /\ TurnsInv)
<1>1. Init => SourcesInv /\ TurnsInv
  BY InitSources, InitTurns
<1>2. SourcesInv /\ TurnsInv /\ [Next]_vars => (SourcesInv /\ TurnsInv)'
  BY StepSources, StepTurns
<1> QED BY <1>1, <1>2, PTL DEF Spec

\* The state row, the files and the turns have their types.
THEOREM SourcesTypeCorrect == Spec => []TypeOK
<1>1. SourcesInv /\ TurnsInv => TypeOK
  BY DEF SourcesInv, TurnsInv, TypeOK, Coherent
<1> QED BY <1>1, SourcesInvariant, PTL

\* While a thread has sources, a turn uses files of its conversation alone, unless
\* the message names another, also when the state could not be read and when files
\* fail or are deleted meanwhile (chat_service.py:408).
THEOREM TurnsAreRestricted == Spec => []RestrictedToSources
<1>1. TurnsInv => RestrictedToSources
  BY DEF TurnsInv
<1> QED BY <1>1, SourcesInvariant, PTL

\* A file that is pending has its announcement still to come, unless it was lost,
\* came too early, or the file is deleted (thread_sources.py, notify_file_processed).
THEOREM PendingFilesAreAwaited == Spec => []PendingIsAwaited
<1>1. SourcesInv => PendingIsAwaited
  BY DEF SourcesInv, PendingIsAwaited, Awaited
<1> QED BY <1>1, SourcesInvariant, PTL

\* No upload, late announcement or turn brings a recent file back among those that
\* restrict the thread.
THEOREM RecentFilesStayOut == Spec => RecentNeverReturns
<1>1. SourcesInv /\ [Next]_vars
        => [src.recent \subseteq src'.recent /\ src.recent \cap Live(src') = {}]_vars
  BY StepSources DEF Onward
<1> QED BY <1>1, SourcesInvariant, PTL DEF Spec, RecentNeverReturns
=============================================================================
