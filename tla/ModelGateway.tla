----------------------------- MODULE ModelGateway -----------------------------
(***************************************************************************)
(* Calls of language models (services/model_gateway.py) with the ledger    *)
(* they are booked in (services/inference) and the circuit breaker of each *)
(* provider, which all calls of the process share.  A call goes through    *)
(* the providers of its plan until one answers.  A cancellation - a client *)
(* that closes its stream, a shutdown - may reach it at any await.         *)
(*                                                                         *)
(* Modes: "send" is route_request, "stream" route_request_stream with its  *)
(* consumer stream_chat, "tool" accounted_openai_chat_completion.          *)
(***************************************************************************)
EXTENDS Integers, Sequences, FiniteSets

CONSTANTS
    Calls,        \* calls of one process
    Modes,        \* their kinds
    Chain,        \* _CHAIN: the providers a tier falls back to, in order
    MaxFailures,  \* 3 in the code: failures that open a breaker
    MaxCancels    \* bound: cancellations of one call

Providers == {Chain[i] : i \in DOMAIN Chain}

ASSUME ChainAssumption  == /\ Chain \in Seq(Providers) /\ Chain # <<>>
                           /\ \A i, j \in DOMAIN Chain : Chain[i] = Chain[j] => i = j
ASSUME ModesAssumption  == Modes \subseteq {"send", "stream", "tool"}
ASSUME BoundsAssumption == MaxFailures \in Nat \ {0} /\ MaxCancels \in Nat

VARIABLES
    keyed,     \* providers whose API key is configured
    breaker,   \* _CB: provider -> its circuit breaker
    streak,    \* provider -> its failures since it last answered
    call,      \* call -> where it is
    sent,      \* attempts whose HTTP request was made, as <<call, provider>>
    rows,      \* call -> provider -> rows in ben.inference_call_records
    logged,    \* attempts whose row could not be written and was logged
    unwritten, \* history: attempts whose row could not be written
    torn       \* history: attempts whose accounting was cancelled

ledger == <<rows, logged, unwritten>>
vars == <<keyed, breaker, streak, call, sent, ledger, torn>>

Phases == {"idle", "choosing", "waiting", "yielding", "booking", "booked", "failing", "failed",
           "rejecting", "answered", "refused", "cut", "stored"}
Ended  == {"refused", "cut", "stored"}

\* left: the providers still to be tried, the current one first.  cause: what
\* ended the attempt.
Call == [phase : Phases, mode : Modes, explicit : BOOLEAN, left : Seq(Providers),
         cause : {"none", "error", "cancel"}, cancels : 0 .. MaxCancels]

Breaker == [n : 0 .. MaxFailures - 1, until : {"none", "open", "past"}]

\* Earlier calls of the process may have failed, too few to open a breaker.
Init ==
    /\ keyed \in SUBSET Providers
    /\ \E n \in [Providers -> 0 .. MaxFailures - 1] :
          /\ breaker = [p \in Providers |-> [n |-> n[p], until |-> "none"]]
          /\ streak = n
    /\ call \in [Calls -> {[phase |-> "idle", mode |-> m, explicit |-> FALSE, left |-> <<>>,
                            cause |-> "none", cancels |-> 0] : m \in Modes}]
    /\ sent = {}
    /\ rows = [c \in Calls |-> [p \in Providers |-> 0]]
    /\ logged = {} /\ unwritten = {} /\ torn = {}

Now(c) == Head(call[c].left)
In(c, phase) == call[c].phase = phase
Goto(c, phase) == call' = [call EXCEPT ![c] = [@ EXCEPT !.phase = phase]]
PassOn(c) == call' = [call EXCEPT ![c] = [@ EXCEPT !.phase = "choosing", !.left = Tail(call[c].left), !.cause = "none"]]

(***************************************************************************)
(* The circuit breaker.                                                    *)
(***************************************************************************)
\* _cb_ready: a breaker whose minute has passed starts over.
Ready(p) == breaker[p].until # "open"
Restarted(p) == IF breaker[p].until = "past" THEN [n |-> 0, until |-> "none"] ELSE breaker[p]

\* Mutant of Worked: an answer closes the breaker and keeps the count.
WorkedKeeping(p) ==
    /\ breaker' = [breaker EXCEPT ![p].until = "none"]
    /\ streak' = [streak EXCEPT ![p] = 0]

\* _cb_ok
Worked(p) ==
    /\ breaker' = [breaker EXCEPT ![p] = [n |-> 0, until |-> "none"]]
    /\ streak' = [streak EXCEPT ![p] = 0]

\* _cb_fail: calls that began before it opened are counted as well.
Failed(p) ==
    /\ breaker' = [breaker EXCEPT ![p] =
                      IF @.n + 1 >= MaxFailures THEN [n |-> 0, until |-> "open"]
                                                ELSE [@ EXCEPT !.n = breaker[p].n + 1]]
    /\ streak' = [streak EXCEPT ![p] = @ + 1]

MinutePasses(p) ==
    /\ breaker[p].until = "open"
    /\ breaker' = [breaker EXCEPT ![p].until = "past"]
    /\ UNCHANGED <<keyed, streak, call, sent, ledger, torn>>

(***************************************************************************)
(* Choosing a provider.                                                    *)
(***************************************************************************)
\* _attempts: the provider the client named, or the tier's own followed by the
\* rest of the chain.  The free tier and a turn with an image have no fallback.
Attempts(primary) ==
    LET i == CHOOSE i \in DOMAIN Chain : Chain[i] = primary
    IN  <<primary>> \o SubSeq(Chain, 1, i - 1) \o SubSeq(Chain, i + 1, Len(Chain))

Start(c) ==
    /\ In(c, "idle") /\ call[c].mode # "tool"
    /\ \E p \in Providers, explicit \in BOOLEAN :
          \E plan \in {<<p>>} \cup (IF explicit THEN {} ELSE {Attempts(p)}) :
             call' = [call EXCEPT ![c] = [@ EXCEPT !.phase = "choosing", !.explicit = explicit, !.left = plan]]
    /\ UNCHANGED <<keyed, breaker, streak, sent, ledger, torn>>

\* accounted_openai_chat_completion knows one provider and no breaker.
StartTool(c) ==
    /\ In(c, "idle") /\ call[c].mode = "tool"
    /\ call' = [call EXCEPT ![c] = [@ EXCEPT !.phase = "choosing", !.explicit = TRUE, !.left = <<Chain[1]>>]]
    /\ UNCHANGED <<keyed, breaker, streak, sent, ledger, torn>>

\* No provider is left: the text of the last error, or "No provider available".
NoneLeft(c) ==
    /\ In(c, "choosing") /\ call[c].left = <<>>
    /\ Goto(c, "refused")
    /\ UNCHANGED <<keyed, breaker, streak, sent, ledger, torn>>

\* A provider without a key is passed over, unless the client named it.
MissingKey(c) ==
    /\ In(c, "choosing") /\ call[c].left # <<>> /\ Now(c) \notin keyed
    /\ IF call[c].explicit THEN Goto(c, "rejecting") ELSE PassOn(c)
    /\ UNCHANGED <<keyed, breaker, streak, sent, ledger, torn>>

\* So is one whose breaker is open.
PassOver(c) ==
    /\ In(c, "choosing") /\ call[c].left # <<>> /\ Now(c) \in keyed
    /\ call[c].mode # "tool" /\ ~Ready(Now(c))
    /\ PassOn(c)
    /\ UNCHANGED <<keyed, breaker, streak, sent, ledger, torn>>

\* The request is made, or the model is unknown.
Try(c) ==
    /\ In(c, "choosing") /\ call[c].left # <<>> /\ Now(c) \in keyed
    /\ IF call[c].mode = "tool"
       THEN UNCHANGED breaker
       ELSE Ready(Now(c)) /\ breaker' = [breaker EXCEPT ![Now(c)] = Restarted(Now(c))]
    /\ \/ Goto(c, "waiting") /\ sent' = sent \cup {<<c, Now(c)>>}
       \/ call[c].mode # "tool" /\ Goto(c, "rejecting") /\ UNCHANGED sent
    /\ UNCHANGED <<keyed, streak, ledger, torn>>

(***************************************************************************)
(* An attempt.                                                             *)
(***************************************************************************)
\* A piece of the answer goes to the client.
Chunk(c) ==
    /\ In(c, "waiting") /\ call[c].mode = "stream"
    /\ Goto(c, "yielding")
    /\ UNCHANGED <<keyed, breaker, streak, sent, ledger, torn>>

GoOn(c) ==
    /\ In(c, "yielding") /\ Goto(c, "waiting")
    /\ UNCHANGED <<keyed, breaker, streak, sent, ledger, torn>>

\* The provider has answered.  route_request closes the breaker before it books
\* the attempt, route_request_stream after.
Answer(c) ==
    /\ In(c, "waiting")
    /\ Goto(c, "booking")
    /\ IF call[c].mode = "send" THEN Worked(Now(c)) ELSE UNCHANGED <<breaker, streak>>
    /\ UNCHANGED <<keyed, sent, ledger, torn>>

\* Mutant of Error: the handler of the errors goes on without booking them.
ErrorUnbooked(c) ==
    /\ In(c, "waiting")
    /\ call' = [call EXCEPT ![c] = [@ EXCEPT !.phase = "failed", !.cause = "error"]]
    /\ UNCHANGED <<keyed, breaker, streak, sent, ledger, torn>>

Error(c) ==
    /\ In(c, "waiting")
    /\ call' = [call EXCEPT ![c] = [@ EXCEPT !.phase = "failing", !.cause = "error"]]
    /\ UNCHANGED <<keyed, breaker, streak, sent, ledger, torn>>

\* record_inference_call: one row; when it cannot be written, the attempt of an
\* answer is logged.  The fields of a failed or rejected one hold an error_class
\* beside that of the log call, which is a TypeError that nobody sees.
Written(c) ==
    \/ rows' = [rows EXCEPT ![c][Now(c)] = @ + 1] /\ UNCHANGED <<logged, unwritten>>
    \/ /\ unwritten' = unwritten \cup {<<c, Now(c)>>}
       /\ logged' = IF In(c, "booking") THEN logged \cup {<<c, Now(c)>>} ELSE logged
       /\ UNCHANGED rows

\* account_provider_attempt, up to the commit of its row.
Book(c) ==
    /\ \/ In(c, "booking") /\ Goto(c, "booked")
       \/ In(c, "failing") /\ Goto(c, "failed")
       \/ In(c, "rejecting") /\ Goto(c, "refused")
    /\ Written(c)
    /\ UNCHANGED <<keyed, breaker, streak, sent, torn>>

Booked(c) ==
    /\ In(c, "booked")
    /\ Goto(c, "answered")
    /\ IF call[c].mode = "stream" THEN Worked(Now(c)) ELSE UNCHANGED <<breaker, streak>>
    /\ UNCHANGED <<keyed, sent, ledger, torn>>

\* Mutant of FailedOver: a cancelled stream goes on to the next provider.
FailedOverAlways(c) ==
    /\ In(c, "failed") /\ call[c].mode # "tool"
    /\ PassOn(c) /\ Failed(Now(c))
    /\ UNCHANGED <<keyed, sent, ledger, torn>>

\* The failed attempt counts against its provider, and the next one is tried; a
\* cancelled stream is raised, a cancelled route_request goes on.
FailedOver(c) ==
    /\ In(c, "failed") /\ call[c].mode # "tool"
    /\ Failed(Now(c))
    /\ IF call[c].mode = "stream" /\ call[c].cause = "cancel" THEN Goto(c, "cut") ELSE PassOn(c)
    /\ UNCHANGED <<keyed, sent, ledger, torn>>

RaiseTool(c) ==
    /\ In(c, "failed") /\ call[c].mode = "tool"
    /\ Goto(c, "cut")
    /\ UNCHANGED <<keyed, breaker, streak, sent, ledger, torn>>

\* The callers write the exchange to the thread.  stream_chat takes a chunk
\* without a model for an error and stores nothing; handle_chat stores it.
Store(c) ==
    /\ \/ In(c, "answered") /\ call[c].mode # "tool"
       \/ In(c, "refused") /\ call[c].mode = "send"
    /\ Goto(c, "stored")
    /\ UNCHANGED <<keyed, breaker, streak, sent, ledger, torn>>

\* A cancellation is an exception at the await or the yield the call is at.  In
\* the attempt it is booked like an error; in the accounting of a success too,
\* whether or not the row is already there; elsewhere it ends the call.
Cancel(c) ==
    /\ call[c].cancels < MaxCancels
    /\ \/ /\ call[c].phase \in {"waiting", "yielding", "booking", "booked"}
          /\ call' = [call EXCEPT ![c] = [@ EXCEPT !.phase = "failing", !.cause = "cancel", !.cancels = call[c].cancels + 1]]
       \/ /\ call[c].phase \in {"failing", "failed", "rejecting", "answered"}
          /\ call' = [call EXCEPT ![c] = [@ EXCEPT !.phase = "cut", !.cancels = call[c].cancels + 1]]
    /\ torn' = IF call[c].phase \in {"booking", "booked", "failing", "failed", "rejecting"}
               THEN torn \cup {<<c, Now(c)>>} ELSE torn
    /\ UNCHANGED <<keyed, breaker, streak, sent, ledger>>

Step(c) ==
    \/ Start(c) \/ StartTool(c) \/ NoneLeft(c) \/ MissingKey(c) \/ PassOver(c) \/ Try(c)
    \/ Chunk(c) \/ GoOn(c) \/ Answer(c) \/ Error(c) \/ Book(c) \/ Booked(c)
    \/ FailedOver(c) \/ RaiseTool(c) \/ Store(c)

Next ==
    \/ \E c \in Calls : Step(c) \/ Cancel(c)
    \/ \E p \in Providers : MinutePasses(p)

Spec == Init /\ [][Next]_vars

(***************************************************************************)
(* Properties.                                                             *)
(***************************************************************************)
TypeOK ==
    /\ keyed \in SUBSET Providers
    /\ breaker \in [Providers -> Breaker]
    /\ streak \in [Providers -> Nat]
    /\ call \in [Calls -> Call]
    /\ sent \in SUBSET (Calls \X Providers)
    /\ rows \in [Calls -> [Providers -> Nat]]
    /\ logged \in SUBSET (Calls \X Providers)
    /\ unwritten \in SUBSET (Calls \X Providers)
    /\ torn \in SUBSET (Calls \X Providers)

\* An attempt of a call that has left it.
Over(c, p) ==
    /\ <<c, p>> \in sent
    /\ \/ call[c].phase \in {"answered"} \cup Ended
       \/ call[c].left = <<>> \/ Now(c) # p

\* The attempt whose answer the call is about to store, or has stored.
Answered(c, p) ==
    /\ <<c, p>> \in sent
    /\ call[c].phase \in {"answered", "stored"} /\ call[c].left # <<>> /\ Now(c) = p

\* docs/INFERENCE_ACCOUNTING.md 28: one provider attempt is one ledger record.
\* Each is put to the ledger once, through every error and fallback of its call
\* and every order of the calls; twice at most where its accounting was itself
\* cancelled; and an answer has a row, or the log line of a row that failed.
AttemptsAreAccounted ==
    \A c \in Calls, p \in Providers :
        LET booked == rows[c][p] + (IF <<c, p>> \in unwritten THEN 1 ELSE 0)
            shown  == rows[c][p] + (IF <<c, p>> \in logged THEN 1 ELSE 0)
        IN  /\ Over(c, p) /\ <<c, p>> \notin torn => booked = 1
            /\ Answered(c, p) /\ <<c, p>> \notin torn => shown = 1
            /\ booked <= 2

\* A breaker that refuses calls was opened by that many failures of its provider
\* without an answer among them, whichever calls they were and whenever they began.
BreakerIsEarned ==
    \A p \in Providers :
        /\ breaker[p].until # "none" => streak[p] >= MaxFailures
        /\ breaker[p].n <= streak[p]

\* A stream whose client has gone makes no further request.
CancelledStreamStops ==
    [][\A c \in Calls : call[c].mode = "stream" /\ call[c].cancels > 0
          => \A p \in Providers : <<c, p>> \in sent' => <<c, p>> \in sent]_vars
=============================================================================
