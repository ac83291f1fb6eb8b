---------------------------- MODULE EditDocuments ----------------------------
(***************************************************************************)
(* Saved video edits: the append-only revisions of                         *)
(* services/media/edit_repository.py and the editor windows of one account *)
(* on one video (frontend/src/lib/editSession.js).  A window stores its    *)
(* save, with an idempotency key, in the recovery storage of its browser   *)
(* before it posts it, and posts the same save again until it has a        *)
(* definite answer.                                                        *)
(*                                                                         *)
(* A save is known by its key, a revision by the save that made it and its *)
(* number by its place in the history.  Requests on one document queue at  *)
(* its row lock and creations at the owner's advisory lock, so a           *)
(* transaction is one step.                                                *)
(***************************************************************************)
EXTENDS Naturals, Sequences, FiniteSets, SequencesExt

CONSTANTS
    Tabs,          \* editor windows; a reload or a crash empties one
    Browsers,      \* recovery storages: windows of one browser share its entry
    Docs,          \* document ids the windows may generate
    Keys,          \* bound: saves
    MaxPosts,      \* bound: requests of one save
    MaxRetried,    \* bound: saves that are posted again
    MaxRevisions,  \* MAX_REVISIONS of a document
    MaxDocuments,  \* MAX_DOCUMENTS of an owner
    None

ASSUME BoundAssumption == /\ MaxPosts \in Nat /\ MaxRetried \in Nat /\ MaxDocuments \in Nat
                          /\ MaxRevisions \in Nat \ {0}

VARIABLES
    home,    \* the browser of a window
    hist,    \* document -> its revisions, as saves
    save,    \* save -> what it asks for, or None
    posts,   \* save -> requests made
    wire,    \* requests on their way or at the server, as <<save, request>>
    tab,     \* window -> its EditSession
    slot,    \* browser -> the pending save in its recovery storage
    told     \* save -> the definite answers windows have had

vars == <<home, hist, save, posts, wire, tab, slot, told>>

Definite == {"saved", "conflict", "limit", "denied"}

\* seen: the last revision whose content the window showed when the save was
\* made; resumed: the window had been opened on an unconfirmed save.
Save == [doc : Docs, base : Nat, by : Browsers, seen : Nat, resumed : BOOLEAN]

ASSUME NoneAssumption == None \notin Keys \cup Docs /\ None \notin Save

\* head, 0 for none: this.head.  pending: this.pending.  req: the request awaited.
Session == [phase : {"closed", "editing", "waiting", "answered"}, doc : Docs \cup {None},
            head : Nat, seen : Nat, resumed : BOOLEAN, pending : Keys \cup {None},
            req : 0 .. MaxPosts, reply : Definite \cup {"none", "unsure"}]

Closed == [phase |-> "closed", doc |-> None, head |-> 0, seen |-> 0, resumed |-> FALSE,
           pending |-> None, req |-> 0, reply |-> "none"]

Opened(d, head, seen, resumed, k) ==
    [phase |-> "editing", doc |-> d, head |-> head, seen |-> seen, resumed |-> resumed,
     pending |-> k, req |-> 0, reply |-> "none"]

Init ==
    /\ home \in [Tabs -> Browsers]
    /\ hist = [d \in Docs |-> <<>>]
    /\ save = [k \in Keys |-> None]
    /\ posts = [k \in Keys |-> 0]
    /\ wire = {}
    /\ tab = [t \in Tabs |-> Closed]
    /\ slot = [b \in Browsers |-> None]
    /\ told = [k \in Keys |-> {}]

In(t, phase) == tab[t].phase = phase
Number(k) == SelectInSeq(hist[save[k].doc], LAMBDA j : j = k)
Committed(k) == save[k] # None /\ k \in ToSet(hist[save[k].doc])
Stored == {d \in Docs : hist[d] # <<>>}

(***************************************************************************)
(* The server.                                                             *)
(***************************************************************************)
\* Mutant of Commit: the revision is answered although its commit fails.
CommitEarly(k, answer) ==
    LET d == save[k].doc
    IN  \/ hist' = [hist EXCEPT ![d] = Append(@, k)] /\ answer \in {"saved", "unsure"}
        \/ hist' = hist /\ answer \in {"saved", "unsure"}

\* The insertion and its commit: done, done with a lost confirmation, or not done.
Commit(k, answer) ==
    LET d == save[k].doc
    IN  \/ hist' = [hist EXCEPT ![d] = Append(@, k)] /\ answer \in {"saved", "unsure"}
        \/ hist' = hist /\ answer = "unsure"

\* create: the owner's quota, then the uniqueness of the document id.
Create(k, answer) ==
    LET d == save[k].doc
    IN  /\ save[k].base = 0
        /\ \/ Cardinality(Stored) >= MaxDocuments /\ answer = "limit" /\ hist' = hist
           \/ /\ Cardinality(Stored) < MaxDocuments
              /\ IF d \in Stored THEN answer = "conflict" /\ hist' = hist ELSE Commit(k, answer)

\* save: the base is the head, and the document has room.
Revise(k, answer) ==
    LET d == save[k].doc
    IN  /\ save[k].base # 0
        /\ \/ save[k].base # Len(hist[d]) /\ answer = "conflict" /\ hist' = hist
           \/ save[k].base = Len(hist[d]) /\ Len(hist[d]) >= MaxRevisions
                /\ answer = "limit" /\ hist' = hist
           \/ save[k].base = Len(hist[d]) /\ Len(hist[d]) < MaxRevisions /\ Commit(k, answer)

\* Mutant of Transact: the head is compared before the key is looked up.
TransactHeadFirst(k, answer) == Create(k, answer) \/ Revise(k, answer)

\* A save already committed is answered again, before the head is looked at.
Transact(k, answer) ==
    \/ Committed(k) /\ answer = "saved" /\ hist' = hist
    \/ ~Committed(k) /\ (Create(k, answer) \/ Revise(k, answer))

\* The flag, the authorization and the source may deny any request, 401, 403 or
\* 404, before it does anything; a database error, 503, may end it anywhere.
Handle(k, n) ==
    /\ <<k, n>> \in wire
    /\ \E answer \in Definite \cup {"unsure"} :
          /\ \/ Transact(k, answer)
             \/ answer \in {"denied", "unsure"} /\ hist' = hist
          /\ tab' = [t \in Tabs |->
                        IF In(t, "waiting") /\ tab[t].pending = k /\ tab[t].req = n
                        THEN [tab[t] EXCEPT !.phase = "answered", !.reply = answer] ELSE tab[t]]
    /\ wire' = wire \ {<<k, n>>}
    /\ UNCHANGED <<home, save, posts, slot, told>>

Lost(k, n) ==
    /\ <<k, n>> \in wire
    /\ wire' = wire \ {<<k, n>>}
    /\ UNCHANGED <<home, hist, save, posts, tab, slot, told>>

(***************************************************************************)
(* A window.                                                               *)
(***************************************************************************)
\* open finds a pending save in the storage: its draft is shown, and the head
\* is the latest revision, which is not.
Resume(t) ==
    LET k == slot[home[t]]
        latest == IF save[k].base # 0 THEN Len(hist[save[k].doc]) ELSE 0
    IN  /\ In(t, "closed") /\ k # None
        /\ tab' = [tab EXCEPT ![t] = Opened(save[k].doc, latest, save[k].base, TRUE, k)]
        /\ UNCHANGED <<home, hist, save, posts, wire, slot, told>>

Unused(d) == /\ d \notin Stored
             /\ \A k \in Keys : save[k] # None => save[k].doc # d
             /\ \A t \in Tabs : tab[t].doc # d

\* Without one it loads a document of the video, or begins a new one.
Open(t) ==
    /\ In(t, "closed") /\ slot[home[t]] = None
    /\ \E d \in Docs :
          /\ d \in Stored \/ (Stored = {} /\ Unused(d))
          /\ tab' = [tab EXCEPT ![t] = Opened(d, Len(hist[d]), Len(hist[d]), FALSE, None)]
    /\ UNCHANGED <<home, hist, save, posts, wire, slot, told>>

LoadLatest(t) ==
    /\ In(t, "editing") /\ tab[t].pending = None /\ tab[t].head # 0
    /\ LET n == Len(hist[tab[t].doc])
       IN  tab' = [tab EXCEPT ![t] = [@ EXCEPT !.head = n, !.seen = n]]
    /\ UNCHANGED <<home, hist, save, posts, wire, slot, told>>

Post(t, k) ==
    /\ posts[k] < MaxPosts
    /\ posts' = [posts EXCEPT ![k] = @ + 1]
    /\ wire' = wire \cup {<<k, posts[k] + 1>>}
    /\ tab' = [tab EXCEPT ![t] =
                  [@ EXCEPT !.phase = "waiting", !.pending = k, !.req = posts[k] + 1]]

\* Mutant of Keep: a save is posted although it could not be stored.
KeepIfPossible(b, k) == slot' = [slot EXCEPT ![b] = k] \/ slot' = slot

\* Without recovery storage nothing is posted.
Keep(b, k) == slot' = [slot EXCEPT ![b] = k]

\* The user saves: a new key, on the head the session has.
NewSave(t) ==
    /\ In(t, "editing") /\ tab[t].pending = None
    /\ \E k \in Keys :
          /\ save[k] = None
          /\ save' = [save EXCEPT ![k] = [doc |-> tab[t].doc, base |-> tab[t].head, by |-> home[t],
                                            seen |-> tab[t].seen, resumed |-> tab[t].resumed]]
          /\ Keep(home[t], k)
          /\ Post(t, k)
    /\ UNCHANGED <<home, hist, told>>

Retry(t) ==
    /\ In(t, "editing") /\ tab[t].pending # None
    /\ Cardinality({k \in Keys \ {tab[t].pending} : posts[k] > 1}) < MaxRetried
    /\ Post(t, tab[t].pending)
    /\ UNCHANGED <<home, hist, save, slot, told>>

Tell(t) == told' = [told EXCEPT ![tab[t].pending] = @ \cup {tab[t].reply}]

Saved(t) ==
    /\ In(t, "answered") /\ tab[t].reply = "saved"
    /\ LET n == Number(tab[t].pending)
           shown == [tab[t] EXCEPT !.phase = "editing", !.head = n, !.seen = n, !.reply = "none"]
       IN  \/ /\ tab' = [tab EXCEPT ![t] = [shown EXCEPT !.pending = None, !.resumed = FALSE]]
              /\ slot' = [slot EXCEPT ![home[t]] = None]
           \* the entry could not be removed
           \/ tab' = [tab EXCEPT ![t] = shown] /\ UNCHANGED slot
    /\ Tell(t)
    /\ UNCHANGED <<home, hist, save, posts, wire>>

\* Mutant of Rejected: after a conflict the head is brought up to date.
RejectedOnto(t) ==
    /\ In(t, "answered") /\ tab[t].reply \in Definite \ {"saved"}
    /\ tab' = [tab EXCEPT ![t] =
                  [@ EXCEPT !.phase = "editing", !.pending = None, !.reply = "none",
                            !.head = Len(hist[tab[t].doc])]]
    /\ slot' = [slot EXCEPT ![home[t]] = None]
    /\ Tell(t)
    /\ UNCHANGED <<home, hist, save, posts, wire>>

\* A rejection ends the save; the draft stays open, on the head the session has.
Rejected(t) ==
    /\ In(t, "answered") /\ tab[t].reply \in Definite \ {"saved"}
    /\ tab' = [tab EXCEPT ![t] =
                  [@ EXCEPT !.phase = "editing", !.pending = None, !.reply = "none"]]
    /\ slot' = [slot EXCEPT ![home[t]] = None]
    /\ Tell(t)
    /\ UNCHANGED <<home, hist, save, posts, wire>>

\* A 503, a time-out or a lost answer leaves the save pending.
Unconfirmed(t) ==
    /\ In(t, "waiting") \/ In(t, "answered")
    /\ tab' = [tab EXCEPT ![t] = [@ EXCEPT !.phase = "editing", !.reply = "none"]]
    /\ UNCHANGED <<home, hist, save, posts, wire, slot, told>>

Reload(t) ==
    /\ ~In(t, "closed")
    /\ tab' = [tab EXCEPT ![t] = Closed]
    /\ UNCHANGED <<home, hist, save, posts, wire, slot, told>>

Next ==
    \/ \E k \in Keys, n \in 1 .. MaxPosts : Handle(k, n) \/ Lost(k, n)
    \/ \E t \in Tabs : \/ Resume(t) \/ Open(t) \/ LoadLatest(t) \/ NewSave(t) \/ Retry(t)
                       \/ Saved(t) \/ Rejected(t) \/ Unconfirmed(t) \/ Reload(t)

Spec == Init /\ [][Next]_vars

(***************************************************************************)
(* Properties.                                                             *)
(***************************************************************************)
\* Histories and collections stay within their limits.
TypeOK ==
    /\ home \in [Tabs -> Browsers]
    /\ hist \in [Docs -> Seq(Keys)]
    /\ \A d \in Docs : Len(hist[d]) <= MaxRevisions
    /\ Cardinality(Stored) <= MaxDocuments
    /\ save \in [Keys -> Save \cup {None}]
    /\ posts \in [Keys -> 0 .. MaxPosts]
    /\ wire \subseteq Keys \X (1 .. MaxPosts)
    /\ tab \in [Tabs -> Session]
    /\ slot \in [Browsers -> Keys \cup {None}]
    /\ told \in [Keys -> SUBSET Definite]

\* docs/EDITOR_INTEGRATION_V1.md 29: no early "saved": what a window was told is
\* saved, and the head it works on, are in the history for good, each save in one
\* place and on the revision it was based on.
AcknowledgedIsDurable ==
    /\ \A k \in Keys : "saved" \in told[k] => Committed(k)
    /\ \A t \in Tabs : ~In(t, "closed") => tab[t].head <= Len(hist[tab[t].doc])
    /\ \A d \in Docs : \A n \in 1 .. Len(hist[d]) : save[hist[d][n]].base = n - 1

\* editSession.js 63: a conflict or a limit guarantees rejection: no request of
\* the save was committed before it, and none that is still on its way will be.
ConflictMeansNotSaved ==
    \A k \in Keys : told[k] \cap {"conflict", "limit"} # {} => ~Committed(k)

\* No two windows share the browser.
Alone(b) == \A t, u \in Tabs : home[t] = b /\ home[u] = b => t = u

\* A save that was posted and has no definite answer is in the recovery storage,
\* through lost answers and reloads, if no second window shares the browser.
UnconfirmedIsKept ==
    \A k \in Keys : save[k] # None /\ told[k] = {} /\ Alone(save[k].by) => slot[save[k].by] = k

\* A window that has not been opened on an unconfirmed save never asks to replace
\* a revision whose content it has not shown.
OverwritesSeenUnlessResumed ==
    \A k \in Keys : save[k] # None => save[k].resumed \/ save[k].base <= save[k].seen

\* docs/EDITOR_INTEGRATION_V1.md 33: saving never silently overwrites another
\* revision: what a save replaces its author was shown, or had saved there.
OverwritesOnlySeen ==
    \A k \in Keys : Committed(k) =>
        \A n \in save[k].seen + 1 .. save[k].base :
            save[hist[save[k].doc][n]].by = save[k].by
=============================================================================
