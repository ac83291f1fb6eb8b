-------------------------- MODULE ModelGatewayProofs --------------------------
(***************************************************************************)
(* Proofs about ModelGateway: the breaker of a provider is earned by its   *)
(* failures, a stream whose client has gone makes no further request, and  *)
(* every attempt of a call is accounted for.                               *)
(***************************************************************************)
EXTENDS ModelGateway, SequenceTheorems, TLAPS

-----------------------------------------------------------------------------
(***************************************************************************)
(* The plan of a call.                                                     *)
(***************************************************************************)
Distinct(s) == \A i, j \in 1 .. Len(s) : s[i] = s[j] => i = j

\* _attempts names no provider twice.
LEMMA PlanIsDistinct ==
    ASSUME NEW p \in Providers
    PROVE  Attempts(p) \in Seq(Providers) /\ Distinct(Attempts(p))
<1> DEFINE k == CHOOSE i \in DOMAIN Chain : Chain[i] = p
           before == SubSeq(Chain, 1, k - 1)
           after == SubSeq(Chain, k + 1, Len(Chain))
<1>1. /\ k \in 1 .. Len(Chain) /\ Chain[k] = p /\ Len(Chain) \in Nat
      /\ \A i \in 1 .. Len(Chain) : Chain[i] \in Providers
      /\ \A i, j \in 1 .. Len(Chain) : Chain[i] = Chain[j] => i = j
  BY ChainAssumption, LenProperties DEF Providers
<1> HIDE DEF k
<1>2. /\ before \in Seq(Providers) /\ Len(before) = k - 1
      /\ \A i \in 1 .. k - 1 : before[i] = Chain[i]
  <2>1. \A i \in 1 .. k - 1 : Chain[i] \in Providers
    BY <1>1
  <2> QED BY <1>1, <2>1, SubSeqProperties, Z3
<1>3. /\ after \in Seq(Providers) /\ Len(after) = Len(Chain) - k
      /\ \A i \in 1 .. Len(Chain) - k : after[i] = Chain[k + i]
  <2>1. \A i \in k + 1 .. Len(Chain) : Chain[i] \in Providers
    BY <1>1
  <2> QED BY <1>1, <2>1, SubSeqProperties, Z3
<1> HIDE DEF before, after
<1> DEFINE start == <<p>> \o before
<1>4. /\ start \in Seq(Providers) /\ Len(start) = k
      /\ \A i \in 1 .. k : start[i] = IF i = 1 THEN p ELSE Chain[i - 1]
  BY <1>1, <1>2, ConcatProperties
<1> HIDE DEF start
<1> DEFINE plan == start \o after
<1>5. /\ plan \in Seq(Providers) /\ Len(plan) = Len(Chain)
      /\ \A i \in 1 .. Len(Chain) : plan[i] = IF i <= k THEN start[i] ELSE after[i - k]
  <2>1. /\ plan \in Seq(Providers) /\ Len(plan) = Len(start) + Len(after)
        /\ \A i \in 1 .. Len(start) + Len(after) :
              plan[i] = IF i <= Len(start) THEN start[i] ELSE after[i - Len(start)]
    <3>1. start \in Seq(Providers) /\ after \in Seq(Providers)
      BY <1>3, <1>4
    <3> QED BY <3>1, ConcatProperties
  <2> HIDE DEF plan
  <2> QED BY <1>1, <1>3, <1>4, <2>1
<1>6. Attempts(p) = plan
  BY DEF Attempts, start, before, after, k
<1> HIDE DEF plan
<1>7. \A i \in 1 .. Len(Chain) :
         plan[i] = IF i = 1 THEN p ELSE IF i <= k THEN Chain[i - 1] ELSE Chain[i]
  <2> SUFFICES ASSUME NEW i \in 1 .. Len(Chain)
               PROVE  plan[i] = IF i = 1 THEN p ELSE IF i <= k THEN Chain[i - 1] ELSE Chain[i]
    OBVIOUS
  <2>1. CASE i <= k
    BY <1>1, <1>4, <1>5, <2>1
  <2>2. CASE i > k
    <3>1. i - k \in 1 .. Len(Chain) - k /\ k + (i - k) = i
      BY <1>1, <2>2
    <3> QED BY <1>1, <1>3, <1>5, <2>2, <3>1
  <2> QED BY <1>1, <2>1, <2>2
<1>8. Distinct(plan)
  BY <1>1, <1>5, <1>7 DEF Distinct
<1> QED BY <1>5, <1>6, <1>8

\* The rest of a plan is a plan.
LEMMA RestIsDistinct ==
    ASSUME NEW s \in Seq(Providers), s # <<>>, Distinct(s)
    PROVE  /\ Head(s) = s[1] /\ Tail(s) \in Seq(Providers) /\ Distinct(Tail(s))
           /\ Len(s) \in Nat \ {0} /\ Len(Tail(s)) = Len(s) - 1
           /\ \A i \in 1 .. Len(Tail(s)) : Tail(s)[i] = s[i + 1]
<1>1. /\ Len(s) \in Nat \ {0} /\ Tail(s) \in Seq(Providers) /\ Len(Tail(s)) = Len(s) - 1
      /\ \A i \in 1 .. Len(Tail(s)) : Tail(s)[i] = s[i + 1]
  BY EmptySeq, HeadTailProperties
<1>2. Distinct(Tail(s))
  BY <1>1 DEF Distinct
<1> QED BY <1>1, <1>2

-----------------------------------------------------------------------------
(***************************************************************************)
(* Types.                                                                  *)
(***************************************************************************)
BreakerTypes == breaker \in [Providers -> Breaker] /\ streak \in [Providers -> Nat]
CallTypes    == call \in [Calls -> Call]
LedgerTypes  == /\ sent \in SUBSET (Calls \X Providers)
                /\ rows \in [Calls -> [Providers -> Nat]]
                /\ logged \in SUBSET (Calls \X Providers)
                /\ unwritten \in SUBSET (Calls \X Providers)
                /\ torn \in SUBSET (Calls \X Providers)

\* The provider of an attempt.
LEMMA NowIsProvider ==
    ASSUME CallTypes, NEW c \in Calls, call[c].left # <<>>
    PROVE  Now(c) \in Providers
<1>1. call[c].left \in Seq(Providers)
  BY DEF CallTypes, Call
<1> QED BY <1>1, HeadTailProperties DEF Now

\* A call that has a provider to try has one, also while the attempt goes on.
Facing == {"waiting", "yielding", "booking", "booked", "failing", "failed", "rejecting", "answered"}
Faces == \A c \in Calls : call[c].phase \in Facing => call[c].left # <<>>

\* The ways in which a step changes a call.
LEMMA CallMoves ==
    ASSUME CallTypes, NEW c \in Calls
    PROVE  /\ \A s \in Phases : [call[c] EXCEPT !.phase = s] \in Call
           /\ call[c].left # <<>> =>
                [call[c] EXCEPT !.phase = "choosing", !.left = Tail(@), !.cause = "none"] \in Call
           /\ \A plan \in Seq(Providers), explicit \in BOOLEAN :
                [call[c] EXCEPT !.phase = "choosing", !.explicit = explicit, !.left = plan] \in Call
           /\ [call[c] EXCEPT !.phase = "failing", !.cause = "error"] \in Call
           /\ call[c].cancels < MaxCancels =>
                /\ [call[c] EXCEPT !.phase = "failing", !.cause = "cancel", !.cancels = @ + 1] \in Call
                /\ [call[c] EXCEPT !.phase = "cut", !.cancels = @ + 1] \in Call
<1>1. call[c] \in Call /\ {"choosing", "failing", "cut"} \subseteq Phases
  BY DEF CallTypes, Phases
<1>2. ASSUME NEW s \in Phases PROVE [call[c] EXCEPT !.phase = s] \in Call
  BY <1>1, <1>2, Zenon DEF Call
<1>3. ASSUME call[c].left # <<>>
      PROVE  [call[c] EXCEPT !.phase = "choosing", !.left = Tail(@), !.cause = "none"] \in Call
  <2>1. Tail(call[c].left) \in Seq(Providers)
    BY <1>1, <1>3, HeadTailProperties DEF Call
  <2> QED BY <1>1, <2>1, Zenon DEF Call
<1>4. ASSUME NEW plan \in Seq(Providers), NEW explicit \in BOOLEAN
      PROVE  [call[c] EXCEPT !.phase = "choosing", !.explicit = explicit, !.left = plan] \in Call
  BY <1>1, <1>4, Zenon DEF Call
<1>5. [call[c] EXCEPT !.phase = "failing", !.cause = "error"] \in Call
  BY <1>1, Zenon DEF Call
<1>6. ASSUME call[c].cancels < MaxCancels
      PROVE  /\ [call[c] EXCEPT !.phase = "failing", !.cause = "cancel", !.cancels = @ + 1] \in Call
             /\ [call[c] EXCEPT !.phase = "cut", !.cancels = @ + 1] \in Call
  <2>1. call[c].cancels + 1 \in 0 .. MaxCancels
    BY <1>1, <1>6, BoundsAssumption DEF Call
  <2> QED BY <1>1, <2>1, Zenon DEF Call
<1> QED BY <1>2, <1>3, <1>4, <1>5, <1>6


\* The calls keep their type.
LEMMA StepCallTypes ==
    ASSUME CallTypes, Faces, NEW c \in Calls, Step(c) \/ Cancel(c)
    PROVE  CallTypes'
<1>1. ASSUME NEW r \in Call, call' = [call EXCEPT ![c] = r] PROVE CallTypes'
  BY <1>1 DEF CallTypes
<1>2. ASSUME NEW s \in Phases, Goto(c, s) PROVE CallTypes'
  <2> DEFINE r == [call[c] EXCEPT !.phase = s]
  <2>1. r \in Call
    BY <1>2, CallMoves
  <2>2. call' = [call EXCEPT ![c] = r]
    BY <1>2, Zenon DEF Goto
  <2> HIDE DEF r
  <2> QED BY <1>1, <2>1, <2>2
<1>3. ASSUME call[c].left # <<>>, PassOn(c) PROVE CallTypes'
  <2> DEFINE r == [call[c] EXCEPT !.phase = "choosing", !.left = Tail(@), !.cause = "none"]
  <2>1. r \in Call
    BY <1>3, CallMoves
  <2>2. call' = [call EXCEPT ![c] = r]
    BY <1>3 DEF PassOn
  <2> HIDE DEF r
  <2> QED BY <1>1, <2>1, <2>2
<1>4. ASSUME NEW plan \in Seq(Providers), NEW explicit \in BOOLEAN,
             call' = [call EXCEPT ![c] = [@ EXCEPT !.phase = "choosing", !.explicit = explicit,
                                                   !.left = plan]]
      PROVE  CallTypes'
  <2> DEFINE r == [call[c] EXCEPT !.phase = "choosing", !.explicit = explicit, !.left = plan]
  <2>1. r \in Call
    BY CallMoves
  <2>2. call' = [call EXCEPT ![c] = r]
    BY <1>4
  <2> HIDE DEF r
  <2> QED BY <1>1, <2>1, <2>2
<1>5. CASE Start(c)
  <2>1. PICK p \in Providers, explicit \in BOOLEAN : \E plan \in {<<p>>, Attempts(p)} :
           call' = [call EXCEPT ![c] = [@ EXCEPT !.phase = "choosing", !.explicit = explicit,
                                                 !.left = plan]]
    BY <1>5, Zenon DEF Start
  <2>2. <<p>> \in Seq(Providers) /\ Attempts(p) \in Seq(Providers)
    BY PlanIsDistinct
  <2> QED BY <1>4, <2>1, <2>2
<1>6. CASE StartTool(c)
  <2>1. <<Chain[1]>> \in Seq(Providers)
    <3>1. Chain[1] \in Providers
      BY ChainAssumption, EmptySeq, LenProperties DEF Providers
    <3> QED BY <3>1
  <2> QED BY <1>4, <1>6, <2>1 DEF StartTool
<1>7. CASE MissingKey(c) \/ PassOver(c)
  BY <1>2, <1>3, <1>7 DEF MissingKey, PassOver, Phases
<1>8. CASE NoneLeft(c) \/ Try(c) \/ Chunk(c) \/ GoOn(c) \/ Answer(c)
  BY <1>2, <1>8 DEF NoneLeft, Try, Chunk, GoOn, Answer, Phases
<1>9. CASE Book(c) \/ Booked(c) \/ RaiseTool(c) \/ Store(c)
  BY <1>2, <1>9 DEF Book, Booked, RaiseTool, Store, Phases
<1>10. CASE Error(c)
  <2> DEFINE r == [call[c] EXCEPT !.phase = "failing", !.cause = "error"]
  <2>1. r \in Call
    BY CallMoves
  <2>2. call' = [call EXCEPT ![c] = r]
    BY <1>10 DEF Error
  <2> HIDE DEF r
  <2> QED BY <1>1, <2>1, <2>2
<1>11. CASE FailedOver(c)
  <2>1. call[c].left # <<>>
    BY <1>11 DEF FailedOver, In, Faces, Facing
  <2>2. Goto(c, "cut") \/ PassOn(c)
    BY <1>11 DEF FailedOver
  <2> QED BY <1>2, <1>3, <2>1, <2>2 DEF Phases
<1>12. CASE Cancel(c)
  <2> DEFINE failing == [call[c] EXCEPT !.phase = "failing", !.cause = "cancel", !.cancels = @ + 1]
             cut == [call[c] EXCEPT !.phase = "cut", !.cancels = @ + 1]
  <2>1. failing \in Call /\ cut \in Call
    BY <1>12, CallMoves DEF Cancel
  <2>2. call' = [call EXCEPT ![c] = failing] \/ call' = [call EXCEPT ![c] = cut]
    BY <1>12, Zenon DEF Cancel
  <2> HIDE DEF failing, cut
  <2> QED BY <1>1, <2>1, <2>2
<1> QED BY <1>5, <1>6, <1>7, <1>8, <1>9, <1>10, <1>11, <1>12 DEF Step

\* The breakers and the counts of failures keep their type.
LEMMA StepBreakerTypes ==
    ASSUME BreakerTypes, CallTypes, Faces, NEW c \in Calls, Step(c) \/ Cancel(c)
    PROVE  BreakerTypes'
<1>1. MaxFailures \in Nat \ {0}
  BY BoundsAssumption
<1>2. ASSUME NEW p \in Providers, Worked(p) PROVE BreakerTypes'
  BY <1>1, <1>2 DEF Worked, BreakerTypes, Breaker
<1>3. ASSUME NEW p \in Providers, Failed(p) PROVE BreakerTypes'
  <2>1. breaker[p] \in Breaker /\ streak[p] + 1 \in Nat
    BY DEF BreakerTypes
  <2>2. CASE breaker[p].n + 1 >= MaxFailures
    BY <1>1, <1>3, <2>1, <2>2 DEF Failed, BreakerTypes, Breaker
  <2>3. CASE ~(breaker[p].n + 1 >= MaxFailures)
    <3> DEFINE b == [breaker[p] EXCEPT !.n = @ + 1]
    <3>1. breaker' = [breaker EXCEPT ![p] = b] /\ streak' = [streak EXCEPT ![p] = @ + 1]
      BY <1>3, <2>3, Zenon DEF Failed
    <3>2. breaker[p].n + 1 \in 0 .. MaxFailures - 1
      BY <1>1, <2>1, <2>3 DEF Breaker
    <3>3. b \in Breaker
      BY <2>1, <3>2, Zenon DEF Breaker
    <3> HIDE DEF b
    <3> QED BY <2>1, <3>1, <3>3 DEF BreakerTypes
  <2> QED BY <2>2, <2>3
<1>4. ASSUME NEW p \in Providers, breaker' = [breaker EXCEPT ![p] = Restarted(p)], UNCHANGED streak
      PROVE  BreakerTypes'
  BY <1>1, <1>4 DEF Restarted, BreakerTypes, Breaker
<1>5. CASE UNCHANGED <<breaker, streak>>
  BY <1>5 DEF BreakerTypes
<1>6. CASE Try(c)
  BY <1>4, <1>5, <1>6, NowIsProvider DEF Try
<1>7. CASE Answer(c) \/ Booked(c) \/ FailedOver(c)
  BY <1>2, <1>3, <1>5, <1>7, NowIsProvider DEF Answer, Booked, FailedOver, In, Faces, Facing
<1> QED BY <1>5, <1>6, <1>7
        DEF Step, Start, StartTool, NoneLeft, MissingKey, PassOver, Chunk, GoOn, Error, Book,
            RaiseTool, Store, Cancel

\* The ledger and the sets of attempts keep their type.
LEMMA StepLedgerTypes ==
    ASSUME LedgerTypes, CallTypes, Faces, NEW c \in Calls, Step(c) \/ Cancel(c)
    PROVE  LedgerTypes'
<1>1. CASE UNCHANGED <<sent, rows, logged, unwritten, torn>>
  BY <1>1 DEF LedgerTypes
<1>2. CASE Try(c)
  <2>1. Now(c) \in Providers
    BY <1>2, NowIsProvider DEF Try
  <2> QED BY <1>2, <2>1 DEF Try, LedgerTypes, ledger
<1>3. CASE Book(c)
  <2>1. Now(c) \in Providers
    BY <1>3, NowIsProvider DEF Book, In, Faces, Facing
  <2>2. CASE rows' = [rows EXCEPT ![c][Now(c)] = @ + 1] /\ UNCHANGED <<logged, unwritten>>
    <3>1. rows' \in [Calls -> [Providers -> Nat]]
      BY <2>1, <2>2 DEF LedgerTypes
    <3> QED BY <1>3, <2>2, <3>1 DEF Book, LedgerTypes
  <2>3. CASE /\ unwritten' = unwritten \cup {<<c, Now(c)>>}
             /\ logged' \in {logged, logged \cup {<<c, Now(c)>>}} /\ UNCHANGED rows
    BY <1>3, <2>1, <2>3 DEF Book, LedgerTypes
  <2> QED BY <1>3, <2>2, <2>3 DEF Book, Written
<1>4. CASE Cancel(c)
  <2>1. \/ torn' = torn
        \/ Now(c) \in Providers /\ torn' = torn \cup {<<c, Now(c)>>}
    BY <1>4, NowIsProvider DEF Cancel, Faces, Facing
  <2> QED BY <1>4, <2>1 DEF Cancel, LedgerTypes, ledger
<1> QED BY <1>1, <1>2, <1>3, <1>4
        DEF Step, Start, StartTool, NoneLeft, MissingKey, PassOver, Chunk, GoOn, Answer, Error,
            Booked, FailedOver, RaiseTool, Store, ledger

\* A step of one call leaves the others where they are.
LEMMA OtherCalls ==
    ASSUME CallTypes, NEW c \in Calls, Step(c) \/ Cancel(c), NEW d \in Calls, d # c
    PROVE  call'[d] = call[d]
<1>1. CASE \E r : call' = [call EXCEPT ![c] = r]
  BY <1>1 DEF CallTypes
<1>2. CASE Step(c)
  BY <1>1, <1>2, Zenon
     DEF Step, Start, StartTool, NoneLeft, MissingKey, PassOver, Try, Chunk, GoOn, Answer, Error,
         Book, Booked, FailedOver, RaiseTool, Store, Goto, PassOn
<1>3. CASE Cancel(c)
  BY <1>1, <1>3, Zenon DEF Cancel
<1> QED BY <1>2, <1>3

\* What becomes of the call a step is of.
LEMMA OwnMove ==
    ASSUME CallTypes, NEW c \in Calls
    PROVE  /\ \A s : Goto(c, s) =>
                /\ call'[c].phase = s /\ call'[c].left = call[c].left
                /\ call'[c].mode = call[c].mode /\ call'[c].cause = call[c].cause
                /\ call'[c].cancels = call[c].cancels
           /\ PassOn(c) =>
                /\ call'[c].phase = "choosing" /\ call'[c].left = Tail(call[c].left)
                /\ call'[c].mode = call[c].mode /\ call'[c].cancels = call[c].cancels
           /\ Start(c) =>
                /\ call'[c].phase = "choosing"
                /\ call'[c].left \in Seq(Providers) /\ Distinct(call'[c].left)
                /\ call'[c].mode = call[c].mode /\ call'[c].cancels = call[c].cancels
           /\ StartTool(c) =>
                /\ call'[c].phase = "choosing"
                /\ call'[c].left \in Seq(Providers) /\ Distinct(call'[c].left)
                /\ call'[c].mode = call[c].mode /\ call'[c].cancels = call[c].cancels
           /\ Error(c) =>
                /\ call'[c].phase = "failing" /\ call'[c].left = call[c].left
                /\ call'[c].mode = call[c].mode /\ call'[c].cancels = call[c].cancels
           /\ Cancel(c) =>
                /\ call'[c].left = call[c].left /\ call'[c].mode = call[c].mode
                /\ \/ /\ call[c].phase \in {"waiting", "yielding", "booking", "booked"}
                      /\ call'[c].phase = "failing" /\ call'[c].cause = "cancel"
                   \/ /\ call[c].phase \in {"failing", "failed", "rejecting", "answered"}
                      /\ call'[c].phase = "cut"
<1>1. call \in [Calls -> Call] /\ call[c] \in Call
  BY DEF CallTypes
<1>2. ASSUME NEW s, Goto(c, s)
      PROVE  /\ call'[c].phase = s /\ call'[c].left = call[c].left
             /\ call'[c].mode = call[c].mode /\ call'[c].cause = call[c].cause
             /\ call'[c].cancels = call[c].cancels
  BY <1>1, <1>2 DEF Goto, Call
<1>3. ASSUME PassOn(c)
      PROVE  /\ call'[c].phase = "choosing" /\ call'[c].left = Tail(call[c].left)
             /\ call'[c].mode = call[c].mode /\ call'[c].cancels = call[c].cancels
  BY <1>1, <1>3 DEF PassOn, Call
<1>4. ASSUME NEW plan \in Seq(Providers), NEW explicit,
             call' = [call EXCEPT ![c] = [@ EXCEPT !.phase = "choosing", !.explicit = explicit,
                                                   !.left = plan]]
      PROVE  /\ call'[c].phase = "choosing" /\ call'[c].left = plan
             /\ call'[c].mode = call[c].mode /\ call'[c].cancels = call[c].cancels
  BY <1>1, <1>4 DEF Call
<1>5. ASSUME NEW p \in Providers PROVE <<p>> \in Seq(Providers) /\ Distinct(<<p>>)
  BY DEF Distinct
<1>6. ASSUME Start(c)
      PROVE  /\ call'[c].phase = "choosing"
             /\ call'[c].left \in Seq(Providers) /\ Distinct(call'[c].left)
             /\ call'[c].mode = call[c].mode /\ call'[c].cancels = call[c].cancels
  <2>1. PICK p \in Providers, explicit \in BOOLEAN : \E plan \in {<<p>>, Attempts(p)} :
           call' = [call EXCEPT ![c] = [@ EXCEPT !.phase = "choosing", !.explicit = explicit,
                                                 !.left = plan]]
    BY <1>6, Zenon DEF Start
  <2>2. \A plan \in {<<p>>, Attempts(p)} : plan \in Seq(Providers) /\ Distinct(plan)
    BY <1>5, PlanIsDistinct
  <2> QED BY <1>4, <2>1, <2>2
<1>7. ASSUME StartTool(c)
      PROVE  /\ call'[c].phase = "choosing"
             /\ call'[c].left \in Seq(Providers) /\ Distinct(call'[c].left)
             /\ call'[c].mode = call[c].mode /\ call'[c].cancels = call[c].cancels
  <2>1. Chain[1] \in Providers
    BY ChainAssumption, EmptySeq, LenProperties DEF Providers
  <2> QED BY <1>4, <1>5, <1>7, <2>1 DEF StartTool
<1>8. ASSUME Error(c)
      PROVE  /\ call'[c].phase = "failing" /\ call'[c].left = call[c].left
             /\ call'[c].mode = call[c].mode /\ call'[c].cancels = call[c].cancels
  BY <1>1, <1>8 DEF Error, Call
<1>9. ASSUME Cancel(c)
      PROVE  /\ call'[c].left = call[c].left /\ call'[c].mode = call[c].mode
             /\ \/ /\ call[c].phase \in {"waiting", "yielding", "booking", "booked"}
                   /\ call'[c].phase = "failing" /\ call'[c].cause = "cancel"
                \/ /\ call[c].phase \in {"failing", "failed", "rejecting", "answered"}
                   /\ call'[c].phase = "cut"
  <2> DEFINE n == call[c].cancels + 1
  <2> HIDE DEF n
  <2>1. CASE /\ call[c].phase \in {"waiting", "yielding", "booking", "booked"}
             /\ call' = [call EXCEPT ![c] =
                           [@ EXCEPT !.phase = "failing", !.cause = "cancel", !.cancels = n]]
    BY <1>1, <2>1 DEF Call
  <2>2. CASE /\ call[c].phase \in {"failing", "failed", "rejecting", "answered"}
             /\ call' = [call EXCEPT ![c] = [@ EXCEPT !.phase = "cut", !.cancels = n]]
    BY <1>1, <2>2 DEF Call
  <2> QED BY <1>9, <2>1, <2>2, Zenon DEF Cancel, n
<1> QED BY <1>2, <1>3, <1>6, <1>7, <1>8, <1>9

\* A call that is about to try a provider, or at one, has one.
LEMMA StepFaces ==
    ASSUME CallTypes, Faces, NEW c \in Calls, Step(c) \/ Cancel(c)
    PROVE  Faces'
<1>1. call'[c].phase \in Facing => call'[c].left # <<>>
  <2>1. CASE Start(c) \/ StartTool(c)
    BY <2>1, OwnMove DEF Facing
  <2>2. CASE NoneLeft(c) \/ MissingKey(c) \/ PassOver(c) \/ Try(c)
    BY <2>2, OwnMove DEF NoneLeft, MissingKey, PassOver, Try, Facing
  <2>3. CASE Chunk(c) \/ GoOn(c) \/ Answer(c) \/ Error(c)
    BY <2>3, OwnMove DEF Chunk, GoOn, Answer, Error, In, Faces, Facing
  <2>4. CASE Book(c) \/ Booked(c) \/ FailedOver(c) \/ RaiseTool(c) \/ Store(c)
    BY <2>4, OwnMove DEF Book, Booked, FailedOver, RaiseTool, Store, In, Faces, Facing
  <2>5. CASE Cancel(c)
    BY <2>5, OwnMove DEF Faces, Facing
  <2> QED BY <2>1, <2>2, <2>3, <2>4, <2>5 DEF Step
<1> QED BY <1>1, OtherCalls DEF Faces

-----------------------------------------------------------------------------
(***************************************************************************)
(* The breaker.                                                            *)
(***************************************************************************)
LEMMA StepEarned ==
    ASSUME BreakerTypes, CallTypes, Faces, BreakerIsEarned, NEW c \in Calls, Step(c) \/ Cancel(c)
    PROVE  BreakerIsEarned'
<1> USE DEF BreakerTypes, Breaker
<1>0. MaxFailures \in Nat \ {0}
  BY BoundsAssumption
<1>1. CASE UNCHANGED <<breaker, streak>>
  BY <1>1 DEF BreakerIsEarned
<1>2. ASSUME NEW p \in Providers, Worked(p) PROVE BreakerIsEarned'
  BY <1>0, <1>2 DEF Worked, BreakerIsEarned
<1>3. ASSUME NEW p \in Providers, Failed(p) PROVE BreakerIsEarned'
  <2>1. breaker[p] \in Breaker /\ streak[p] \in Nat /\ streak'[p] = streak[p] + 1
    BY <1>3 DEF Failed
  <2>2. CASE breaker[p].n + 1 >= MaxFailures
    BY <1>0, <1>3, <2>1, <2>2 DEF Failed, BreakerIsEarned
  <2>3. CASE ~(breaker[p].n + 1 >= MaxFailures)
    BY <1>0, <1>3, <2>1, <2>3 DEF Failed, BreakerIsEarned
  <2> QED BY <2>2, <2>3
<1>4. CASE Try(c)
  BY <1>1, <1>4, NowIsProvider DEF Try, Restarted, BreakerIsEarned
<1>5. CASE Answer(c) \/ Booked(c) \/ FailedOver(c)
  BY <1>1, <1>2, <1>3, <1>5, NowIsProvider DEF Answer, Booked, FailedOver, In, Faces, Facing
<1> QED BY <1>1, <1>4, <1>5
        DEF Step, Start, StartTool, NoneLeft, MissingKey, PassOver, Chunk, GoOn, Error, Book,
            RaiseTool, Store, Cancel

-----------------------------------------------------------------------------
(***************************************************************************)
(* Streams.                                                                *)
(***************************************************************************)
\* A stream that was cancelled is past its last request.
StreamsStopped ==
    \A c \in Calls : call[c].mode = "stream" /\ call[c].cancels > 0 =>
        \/ call[c].phase = "cut"
        \/ call[c].phase \in {"failing", "failed"} /\ call[c].cause = "cancel"

\* The handlers of an attempt's errors keep a cancelled stream from going on.
LEMMA StepStreams ==
    ASSUME CallTypes, Faces, StreamsStopped, NEW c \in Calls, Step(c) \/ Cancel(c)
    PROVE  StreamsStopped'
<1>1. ASSUME call'[c].mode = "stream", call'[c].cancels > 0
      PROVE  \/ call'[c].phase = "cut"
             \/ call'[c].phase \in {"failing", "failed"} /\ call'[c].cause = "cancel"
  <2>1. CASE Cancel(c)
    <3>1. call[c].mode = "stream"
      BY <1>1, <2>1, OwnMove
    <3> QED BY <2>1, OwnMove
  <2>2. CASE Step(c)
    <3>1. CASE \/ Start(c) \/ StartTool(c) \/ NoneLeft(c) \/ MissingKey(c) \/ PassOver(c) \/ Try(c)
      BY <1>1, <3>1, OwnMove
         DEF Start, StartTool, NoneLeft, MissingKey, PassOver, Try, In, StreamsStopped
    <3>2. CASE Chunk(c) \/ GoOn(c) \/ Answer(c) \/ Error(c) \/ Booked(c) \/ RaiseTool(c) \/ Store(c)
      BY <1>1, <3>2, OwnMove
         DEF Chunk, GoOn, Answer, Error, Booked, RaiseTool, Store, In, StreamsStopped
    <3>3. CASE Book(c) \/ FailedOver(c)
      BY <1>1, <3>3, OwnMove DEF Book, FailedOver, In, StreamsStopped
    <3> QED BY <2>2, <3>1, <3>2, <3>3 DEF Step
  <2> QED BY <2>1, <2>2
<1> QED BY <1>1, OtherCalls DEF StreamsStopped

-----------------------------------------------------------------------------
(***************************************************************************)
(* The accounts.                                                           *)
(***************************************************************************)
\* How often an attempt was put to the ledger.
Records(c, p) == rows[c][p] + (IF <<c, p>> \in unwritten THEN 1 ELSE 0)

Untouched(c, p) == <<c, p>> \notin sent /\ <<c, p>> \notin torn /\ Records(c, p) = 0

Accounted(c, p) ==
    /\ Records(c, p) <= 2
    /\ <<c, p>> \in sent /\ <<c, p>> \notin torn => Records(c, p) = 1

\* What is known of the attempt with p that the call c is at.
Current(c, p) ==
    LET phase == call[c].phase
    IN  /\ phase \in {"choosing", "rejecting"} => Untouched(c, p)
        /\ phase \in {"waiting", "yielding", "booking"} => Records(c, p) = 0 /\ <<c, p>> \notin torn
        /\ phase = "booked" => Records(c, p) = 1 /\ <<c, p>> \notin torn
        /\ phase = "failing" => Records(c, p) <= 1 /\ (<<c, p>> \notin torn => Records(c, p) = 0)
        /\ phase \in {"failed", "answered"} \cup Ended => Accounted(c, p)

Members(s) == {s[i] : i \in 1 .. Len(s)}

\* Nothing was done yet with the providers a call has left, and all that was
\* done with those it has passed is in the accounts.
PlanAccounted(c, left) ==
    /\ Distinct(left)
    /\ call[c].phase = "idle" => left = <<>> /\ \A p \in Providers : Untouched(c, p)
    /\ \A i \in 2 .. Len(left) : Untouched(c, left[i])
    /\ left # <<>> => Current(c, left[1])
    /\ \A p \in Providers : p \notin Members(left) => Accounted(c, p)

CallAccounted(c) == PlanAccounted(c, call[c].left)

\* The accounts of c with p are as they were.
Same(c, p) ==
    /\ Records(c, p)' = Records(c, p)
    /\ <<c, p>> \in sent' <=> <<c, p>> \in sent
    /\ <<c, p>> \in torn' <=> <<c, p>> \in torn

\* A step writes only of the attempt its call is at.
LEMMA SameElsewhere ==
    ASSUME LedgerTypes, CallTypes, Faces, NEW c \in Calls, Step(c) \/ Cancel(c),
           NEW d \in Calls, NEW p \in Providers, d = c => call[c].left = <<>> \/ p # Now(c)
    PROVE  Same(d, p)
<1>1. CASE UNCHANGED <<sent, rows, logged, unwritten, torn>>
  BY <1>1 DEF Same, Records
<1>2. CASE Try(c)
  BY <1>2 DEF Try, Same, Records, ledger
<1>3. CASE Book(c)
  <2>1. Now(c) \in Providers /\ call[c].left # <<>>
    BY <1>3, NowIsProvider DEF Book, In, Faces, Facing
  <2>2. CASE rows' = [rows EXCEPT ![c][Now(c)] = @ + 1] /\ UNCHANGED <<logged, unwritten>>
    <3>1. rows'[d][p] = rows[d][p]
      BY <2>1, <2>2 DEF LedgerTypes
    <3> QED BY <1>3, <2>2, <3>1 DEF Book, Same, Records
  <2>3. CASE unwritten' = unwritten \cup {<<c, Now(c)>>} /\ UNCHANGED rows
    BY <1>3, <2>1, <2>3 DEF Book, Same, Records
  <2> QED BY <1>3, <2>2, <2>3 DEF Book, Written
<1>4. CASE Cancel(c)
  <2>1. call[c].left # <<>>
    BY <1>4 DEF Cancel, Faces, Facing
  <2> QED BY <1>4, <2>1 DEF Cancel, Same, Records, ledger
<1> QED BY <1>1, <1>2, <1>3, <1>4
        DEF Step, Start, StartTool, NoneLeft, MissingKey, PassOver, Chunk, GoOn, Answer, Error,
            Booked, FailedOver, RaiseTool, Store, ledger

\* The providers of a plan, and the first of them.
LEMMA PlanFacts ==
    ASSUME NEW s \in Seq(Providers), Distinct(s)
    PROVE  /\ Len(s) \in Nat /\ \A i \in 1 .. Len(s) : s[i] \in Providers
           /\ s # <<>> => /\ Head(s) = s[1] /\ s[1] \in Members(s) /\ s[1] \in Providers
                          /\ \A i \in 2 .. Len(s) : s[i] # s[1] /\ s[i] \in Providers
<1>1. Len(s) \in Nat /\ \A i \in 1 .. Len(s) : s[i] \in Providers
  BY LenProperties, ElementOfSeq
<1>2. ASSUME s # <<>>
      PROVE  /\ Head(s) = s[1] /\ s[1] \in Members(s) /\ s[1] \in Providers
             /\ \A i \in 2 .. Len(s) : s[i] # s[1] /\ s[i] \in Providers
  <2>1. Len(s) \in Nat \ {0} /\ Head(s) = s[1]
    BY <1>2, RestIsDistinct
  <2>2. 1 \in 1 .. Len(s) /\ \A i \in 2 .. Len(s) : i \in 1 .. Len(s) /\ i # 1
    BY <2>1
  <2> QED BY <1>1, <2>1, <2>2 DEF Distinct, Members
<1> QED BY <1>1, <1>2

\* The accounts of a plan are in order after a step if they are with each provider.
LEMMA PlanFollows ==
    ASSUME NEW c \in Calls, NEW s \in Seq(Providers), Distinct(s),
           call'[c].left = s, call'[c].phase # "idle",
           \A i \in 2 .. Len(s) : \A p \in {s[i]} : Untouched(c, p)',
           s # <<>> => \A p \in {s[1]} : Current(c, p)',
           \A p \in Providers : p \notin Members(s) => Accounted(c, p)'
    PROVE  CallAccounted(c)'
<1>1. \A i \in 2 .. Len(s) : Untouched(c, s[i])'
  BY DEF Untouched, Records
<1>2. s # <<>> => Current(c, s[1])'
  BY DEF Current, Untouched, Accounted, Records, Ended
<1>3. PlanAccounted(c, s)'
  BY <1>1, <1>2 DEF PlanAccounted
<1> QED BY <1>3 DEF CallAccounted

\* A step of one call leaves the accounts of the others in order.
LEMMA OthersAccounted ==
    ASSUME LedgerTypes, CallTypes, Faces, NEW c \in Calls, Step(c) \/ Cancel(c),
           NEW d \in Calls, d # c, CallAccounted(d)
    PROVE  CallAccounted(d)'
<1>1. PICK s \in Seq(Providers) : s = call[d].left
  BY DEF CallTypes, Call
<1>2. call'[d] = call[d]
  BY OtherCalls
<1>3. \A p \in Providers : Same(d, p)
  BY SameElsewhere
<1>4. PlanAccounted(d, s)
  BY <1>1 DEF CallAccounted
<1>5. Distinct(s) /\ (s # <<>> => s[1] \in Providers) /\ \A i \in 2 .. Len(s) : s[i] \in Providers
  BY <1>4, PlanFacts, EmptySeq DEF PlanAccounted
<1>6. \A i \in 2 .. Len(s) : \A p \in {s[i]} : Untouched(d, p)'
  <2> SUFFICES ASSUME NEW p \in Providers, Untouched(d, p) PROVE Untouched(d, p)'
    BY <1>4, <1>5 DEF PlanAccounted
  <2> QED BY <1>3 DEF Same, Untouched
<1>7. s # <<>> => \A p \in {s[1]} : Current(d, p)'
  <2> SUFFICES ASSUME NEW p \in Providers, Current(d, p) PROVE Current(d, p)'
    BY <1>4, <1>5 DEF PlanAccounted
  <2> QED BY <1>2, <1>3 DEF Same, Current, Untouched, Accounted
<1>8. \A p \in Providers : p \notin Members(s) => Accounted(d, p)'
  BY <1>3, <1>4 DEF PlanAccounted, Same, Accounted
<1>9. CASE call[d].phase # "idle"
  BY <1>1, <1>2, <1>5, <1>6, <1>7, <1>8, <1>9, PlanFollows
<1>10. CASE call[d].phase = "idle"
  <2>1. s = <<>> /\ call'[d].left = <<>> /\ \A p \in Providers : Untouched(d, p)'
    BY <1>1, <1>2, <1>3, <1>4, <1>10 DEF PlanAccounted, Same, Untouched
  <2>2. Len(<<>>) = 0
    OBVIOUS
  <2> QED BY <1>2, <1>5, <1>8, <1>10, <2>1, <2>2 DEF CallAccounted, PlanAccounted
<1> QED BY <1>9, <1>10

\* A step that stays with its provider has to answer for that one only.
LEMMA StaysAccounted ==
    ASSUME NEW c \in Calls, NEW s \in Seq(Providers), s # <<>>, PlanAccounted(c, s),
           call'[c].left = s, call'[c].phase # "idle",
           \A p \in Providers : p # s[1] => Same(c, p),
           \A p \in {s[1]} : Current(c, p)'
    PROVE  CallAccounted(c)'
<1>1. /\ Distinct(s) /\ s[1] \in Members(s)
      /\ \A i \in 2 .. Len(s) : s[i] # s[1] /\ s[i] \in Providers
  BY PlanFacts DEF PlanAccounted
<1>2. \A i \in 2 .. Len(s) : \A p \in {s[i]} : Untouched(c, p)'
  <2> SUFFICES ASSUME NEW p \in Providers, p # s[1], Untouched(c, p) PROVE Untouched(c, p)'
    BY <1>1 DEF PlanAccounted
  <2> QED BY DEF Same, Untouched
<1>3. \A p \in Providers : p \notin Members(s) => Accounted(c, p)'
  BY <1>1 DEF PlanAccounted, Same, Accounted
<1> QED BY <1>1, <1>2, <1>3, PlanFollows

\* A step that passes on leaves its provider accounted for.
LEMMA PassedAccounted ==
    ASSUME NEW c \in Calls, NEW s \in Seq(Providers), s # <<>>, PlanAccounted(c, s),
           call'[c].left = Tail(s), call'[c].phase = "choosing",
           \A p \in Providers : Same(c, p), \A p \in {s[1]} : Accounted(c, p)
    PROVE  CallAccounted(c)'
<1> DEFINE t == Tail(s)
<1>1. Distinct(s) /\ \A i \in 1 .. Len(s) : s[i] \in Providers
  BY PlanFacts DEF PlanAccounted
<1>2. /\ Distinct(t) /\ Len(s) \in Nat \ {0} /\ Len(t) = Len(s) - 1 /\ t \in Seq(Providers)
      /\ \A i \in 1 .. Len(t) : t[i] = s[i + 1]
  BY <1>1, RestIsDistinct
<1>0. call'[c].left = t
  OBVIOUS
<1> HIDE DEF t
<1>3. \A i \in 1 .. Len(t) : \A p \in {t[i]} : Untouched(c, p)'
  <2> SUFFICES ASSUME NEW i \in 1 .. Len(t), NEW p, p = t[i] PROVE Untouched(c, p)'
    OBVIOUS
  <2>1. i + 1 \in 2 .. Len(s) /\ i + 1 \in 1 .. Len(s) /\ t[i] = s[i + 1]
    BY <1>2
  <2>2. p \in Providers /\ Untouched(c, p)
    BY <1>1, <2>1 DEF PlanAccounted
  <2> QED BY <2>2 DEF Same, Untouched
<1>4. ASSUME NEW p \in Providers, p \notin Members(t)
      PROVE  Accounted(c, p)'
  <2>1. Accounted(c, p)
    <3>1. CASE p = s[1]
      BY <3>1
    <3>2. CASE p # s[1]
      <4>1. p \notin Members(s)
        <5> SUFFICES ASSUME NEW i \in 1 .. Len(s), p = s[i] PROVE FALSE
          BY DEF Members
        <5>1. i - 1 \in 1 .. Len(t) /\ (i - 1) + 1 = i
          BY <1>2, <3>2
        <5> QED BY <1>2, <1>4, <5>1 DEF Members
      <4> QED BY <4>1 DEF PlanAccounted
    <3> QED BY <3>1, <3>2
  <2> QED BY <2>1 DEF Same, Accounted
<1>5. t # <<>> => 1 \in 1 .. Len(t)
  BY <1>2, EmptySeq
<1>6. t # <<>> => \A p \in {t[1]} : Current(c, p)'
  <2> SUFFICES ASSUME NEW p, Untouched(c, p)' PROVE Current(c, p)'
    BY <1>3, <1>5
  <2> QED BY DEF Current, Ended
<1>7. \A i \in 2 .. Len(t) : i \in 1 .. Len(t)
  BY <1>2
<1>8. \A i \in 2 .. Len(t) : \A p \in {t[i]} : Untouched(c, p)'
  BY <1>3, <1>7
<1> QED BY <1>0, <1>2, <1>4, <1>6, <1>8, PlanFollows


\* Booking an attempt adds one record, written or not; a second that is not
\* written adds nothing.
LEMMA BookedOnce ==
    ASSUME LedgerTypes, NEW c \in Calls, NEW p \in Providers, p = Now(c), Written(c)
    PROVE  /\ Records(c, p) \in Nat /\ Records(c, p)' \in {Records(c, p), Records(c, p) + 1}
           /\ Records(c, p) = 0 => Records(c, p)' = 1
<1>1. rows[c][p] \in Nat
  BY DEF LedgerTypes
<1>2. CASE rows' = [rows EXCEPT ![c][Now(c)] = @ + 1] /\ UNCHANGED <<logged, unwritten>>
  <2>1. rows'[c][p] = rows[c][p] + 1
    BY <1>2 DEF LedgerTypes
  <2> QED BY <1>1, <1>2, <2>1 DEF Records
<1>3. CASE unwritten' = unwritten \cup {<<c, Now(c)>>} /\ UNCHANGED rows
  BY <1>1, <1>3 DEF Records
<1> QED BY <1>2, <1>3 DEF Written

\* A step of a call keeps its own accounts in order.
LEMMA OwnAccounted ==
    ASSUME LedgerTypes, CallTypes, Faces, NEW c \in Calls, CallAccounted(c), Step(c) \/ Cancel(c)
    PROVE  CallAccounted(c)'
<1>1. PICK s \in Seq(Providers) : s = call[c].left
  BY DEF CallTypes, Call
<1>2. PlanAccounted(c, s)
  BY <1>1 DEF CallAccounted
<1>3. /\ call[c].phase \in Facing => s # <<>>
      /\ s # <<>> => s[1] = Now(c) /\ s[1] \in Providers
  BY <1>1, <1>2, PlanFacts DEF Faces, PlanAccounted, Now
<1>4. \A p \in Providers : s = <<>> \/ p # s[1] => Same(c, p)
  BY <1>1, <1>3, SameElsewhere
<1>5. ASSUME UNCHANGED <<sent, rows, logged, unwritten, torn>>, NEW p PROVE Same(c, p)
  BY <1>5 DEF Same, Records
\* The call stays with its provider p.
<1> DEFINE Stays == /\ s # <<>> /\ call'[c].left = s /\ call'[c].phase # "idle"
                    /\ \A p \in {s[1]} : Current(c, p)'
<1>6. Stays => CallAccounted(c)'
  BY <1>2, <1>4, StaysAccounted
<1> HIDE DEF Stays
<1>7. ASSUME PassOn(c), s # <<>>, UNCHANGED <<sent, rows, logged, unwritten, torn>>,
             \A p \in {s[1]} : Accounted(c, p)
      PROVE  CallAccounted(c)'
  <2>1. call'[c].left = Tail(s) /\ call'[c].phase = "choosing"
    BY <1>1, <1>7, OwnMove
  <2> QED BY <1>2, <1>5, <1>7, <2>1, PassedAccounted
<1>8. CASE Start(c) \/ StartTool(c)
  <2>1. PICK t \in Seq(Providers) : t = call'[c].left /\ Distinct(t)
    BY <1>8, OwnMove
  <2>2. call'[c].phase = "choosing"
    BY <1>8, OwnMove
  <2>3. \A p \in Providers : Untouched(c, p)'
    <3>1. UNCHANGED <<sent, rows, logged, unwritten, torn>>
      BY <1>8 DEF Start, StartTool, ledger
    <3>2. \A p \in Providers : Untouched(c, p)
      BY <1>2, <1>8 DEF Start, StartTool, In, PlanAccounted
    <3> QED BY <1>5, <3>1, <3>2 DEF Same, Untouched
  <2>4. /\ \A i \in 2 .. Len(t) : t[i] \in Providers
        /\ t # <<>> => t[1] \in Providers
    BY <2>1, PlanFacts, EmptySeq
  <2>5. \A i \in 2 .. Len(t) : \A p \in {t[i]} : Untouched(c, p)'
    BY <2>3, <2>4
  <2>6. t # <<>> => \A p \in {t[1]} : Current(c, p)'
    <3> SUFFICES ASSUME NEW p, Untouched(c, p)' PROVE Current(c, p)'
      BY <2>3, <2>4
    <3> QED BY <2>2 DEF Current, Ended
  <2>7. \A p \in Providers : Accounted(c, p)'
    BY <2>3 DEF Untouched, Accounted
  <2> QED BY <2>1, <2>2, <2>5, <2>6, <2>7, PlanFollows
<1>9. CASE NoneLeft(c)
  <2>1. s = <<>> /\ call'[c].left = s /\ call'[c].phase = "refused"
    BY <1>1, <1>9, OwnMove DEF NoneLeft
  <2>2. \A p \in Providers : Accounted(c, p)'
    BY <1>2, <1>4, <2>1 DEF PlanAccounted, Members, Same, Accounted
  <2>3. Distinct(s) /\ Len(s) = 0
    BY <1>2, <2>1 DEF PlanAccounted
  <2>4. \A i \in 2 .. Len(s) : \A p \in {s[i]} : Untouched(c, p)'
    BY <2>3
  <2> QED BY <2>1, <2>2, <2>3, <2>4, PlanFollows
<1>10. CASE MissingKey(c) \/ PassOver(c)
  <2>1. s # <<>> /\ call[c].phase = "choosing" /\ UNCHANGED <<sent, rows, logged, unwritten, torn>>
    BY <1>1, <1>10 DEF MissingKey, PassOver, In, ledger
  <2>2. \A p \in {s[1]} : Untouched(c, p)
    BY <1>2, <2>1 DEF PlanAccounted, Current
  <2>3. CASE PassOn(c)
    BY <1>7, <2>1, <2>2, <2>3 DEF Untouched, Accounted
  <2>4. CASE Goto(c, "rejecting")
    <3>1. call'[c].left = s /\ call'[c].phase = "rejecting"
      BY <1>1, <2>4, OwnMove
    <3> QED BY <1>5, <1>6, <2>1, <2>2, <3>1 DEF Stays, Current, Same, Untouched, Ended
  <2> QED BY <1>10, <2>3, <2>4 DEF MissingKey, PassOver
<1>11. CASE Try(c)
  <2>1. s # <<>> /\ call[c].phase = "choosing" /\ UNCHANGED <<rows, logged, unwritten, torn>>
    BY <1>1, <1>11 DEF Try, In, ledger
  <2>2. \A p \in {s[1]} : Untouched(c, p)
    BY <1>2, <2>1 DEF PlanAccounted, Current
  <2>3. CASE Goto(c, "waiting")
    <3>1. call'[c].left = s /\ call'[c].phase = "waiting"
      BY <1>1, <2>3, OwnMove
    <3> QED BY <1>6, <2>1, <2>2, <3>1 DEF Stays, Current, Untouched, Records, Ended
  <2>4. CASE Goto(c, "rejecting") /\ UNCHANGED sent
    <3>1. call'[c].left = s /\ call'[c].phase = "rejecting"
      BY <1>1, <2>4, OwnMove
    <3> QED BY <1>5, <1>6, <2>1, <2>2, <2>4, <3>1 DEF Stays, Current, Same, Untouched, Ended
  <2> QED BY <1>11, <2>3, <2>4 DEF Try
<1>12. CASE Chunk(c) \/ GoOn(c) \/ Answer(c) \/ Error(c)
  <2>1. /\ s # <<>> /\ call[c].phase \in {"waiting", "yielding"}
        /\ UNCHANGED <<sent, rows, logged, unwritten, torn>>
    BY <1>3, <1>12 DEF Chunk, GoOn, Answer, Error, In, Facing, ledger
  <2>2. \A p \in {s[1]} : Records(c, p) = 0 /\ <<c, p>> \notin torn
    BY <1>2, <2>1 DEF PlanAccounted, Current
  <2>3. call'[c].left = s /\ call'[c].phase \in {"waiting", "yielding", "booking", "failing"}
    BY <1>1, <1>12, OwnMove DEF Chunk, GoOn, Answer, Error
  <2> QED BY <1>5, <1>6, <2>1, <2>2, <2>3 DEF Stays, Current, Same, Ended
<1>13. CASE Book(c)
  <2>1. /\ s # <<>> /\ call[c].phase \in {"booking", "failing", "rejecting"}
        /\ Written(c) /\ UNCHANGED <<sent, torn>>
    BY <1>3, <1>13 DEF Book, In, Facing
  <2>2. s[1] = Now(c) /\ s[1] \in Providers
    BY <1>3, <2>1
  <2>3. \A p \in {s[1]} : Current(c, p)
    BY <1>2, <2>1 DEF PlanAccounted
  <2>4. /\ call'[c].left = s
        /\ \/ call[c].phase = "booking" /\ call'[c].phase = "booked"
           \/ call[c].phase = "failing" /\ call'[c].phase = "failed"
           \/ call[c].phase = "rejecting" /\ call'[c].phase = "refused"
    BY <1>1, <1>13, OwnMove DEF Book, In
  <2>5. \A p \in {s[1]} : Current(c, p)'
    <3> SUFFICES ASSUME NEW p, p = s[1] PROVE Current(c, p)'
      OBVIOUS
    <3>0. /\ Records(c, p) \in Nat /\ Records(c, p)' \in {Records(c, p), Records(c, p) + 1}
          /\ Records(c, p) = 0 => Records(c, p)' = 1
          /\ Current(c, p) /\ UNCHANGED torn
      BY <2>1, <2>2, <2>3, BookedOnce
    <3>1. CASE call[c].phase = "booking" /\ call'[c].phase = "booked"
      BY <3>0, <3>1 DEF Current, Ended
    <3>2. CASE call[c].phase = "failing" /\ call'[c].phase = "failed"
      BY <3>0, <3>2 DEF Current, Accounted, Ended
    <3>3. CASE call[c].phase = "rejecting" /\ call'[c].phase = "refused"
      BY <3>0, <3>3 DEF Current, Untouched, Accounted, Ended
    <3> QED BY <2>4, <3>1, <3>2, <3>3
  <2> QED BY <1>6, <2>1, <2>4, <2>5 DEF Stays
<1>14. CASE Booked(c) \/ RaiseTool(c) \/ Store(c)
  <2>1. call[c].phase \in {"booked", "failed", "answered", "refused"} /\ UNCHANGED <<sent, rows, logged, unwritten, torn>>
    BY <1>14 DEF Booked, RaiseTool, Store, In, ledger
  <2>2. call'[c].left = s /\ call'[c].phase \in {"answered"} \cup Ended
    BY <1>1, <1>14, OwnMove DEF Booked, RaiseTool, Store, Ended
  <2>3. CASE s # <<>>
    <3>1. \A p \in {s[1]} : Accounted(c, p)
      BY <1>2, <2>1, <2>3 DEF PlanAccounted, Current, Accounted, Ended
    <3> QED BY <1>5, <1>6, <2>1, <2>2, <2>3, <3>1 DEF Stays, Current, Same, Accounted, Ended
  <2>4. CASE s = <<>>
    <3>1. \A p \in Providers : Accounted(c, p)'
      BY <1>2, <1>4, <2>4 DEF PlanAccounted, Members, Same, Accounted
    <3>2. Distinct(s) /\ Len(s) = 0
      BY <1>2, <2>4 DEF PlanAccounted
    <3>3. \A i \in 2 .. Len(s) : \A p \in {s[i]} : Untouched(c, p)'
      BY <3>2
    <3> QED BY <2>2, <2>4, <3>1, <3>2, <3>3, PlanFollows DEF Ended
  <2> QED BY <2>3, <2>4
<1>15. CASE FailedOver(c)
  <2>1. s # <<>> /\ call[c].phase = "failed" /\ UNCHANGED <<sent, rows, logged, unwritten, torn>>
    BY <1>3, <1>15 DEF FailedOver, In, Facing, ledger
  <2>2. \A p \in {s[1]} : Accounted(c, p)
    BY <1>2, <2>1 DEF PlanAccounted, Current
  <2>3. CASE PassOn(c)
    BY <1>7, <2>1, <2>2, <2>3
  <2>4. CASE Goto(c, "cut")
    <3>1. call'[c].left = s /\ call'[c].phase = "cut"
      BY <1>1, <2>4, OwnMove
    <3> QED BY <1>5, <1>6, <2>1, <2>2, <3>1 DEF Stays, Current, Same, Accounted, Ended
  <2> QED BY <1>15, <2>3, <2>4 DEF FailedOver
<1>16. CASE Cancel(c)
  <2>1. s # <<>> /\ call'[c].left = s /\ UNCHANGED <<sent, rows, logged, unwritten>>
    BY <1>1, <1>3, <1>16, OwnMove DEF Cancel, Facing, ledger
  <2>2. \A p \in {s[1]} : /\ Current(c, p) /\ Records(c, p)' = Records(c, p)
                           /\ Records(c, p) \in Nat
    BY <1>2, <1>3, <2>1 DEF PlanAccounted, Records, LedgerTypes
  <2>3. CASE call[c].phase \in {"waiting", "yielding", "answered"}
    <3>1. UNCHANGED torn
      BY <1>16, <2>3 DEF Cancel
    <3>2. call'[c].phase = IF call[c].phase = "answered" THEN "cut" ELSE "failing"
      BY <1>16, <2>3, OwnMove
    <3> QED BY <1>6, <2>1, <2>2, <2>3, <3>1, <3>2 DEF Stays, Current, Accounted, Ended
  <2>4. CASE call[c].phase \in {"booking", "booked", "failing", "failed", "rejecting"}
    <3>1. \A p \in {s[1]} : <<c, p>> \in torn'
      BY <1>3, <1>16, <2>1, <2>4 DEF Cancel
    <3>2. call'[c].phase = IF call[c].phase \in {"booking", "booked"} THEN "failing" ELSE "cut"
      BY <1>16, <2>4, OwnMove
    <3>3. \A p \in {s[1]} : Current(c, p)'
      <4>1. CASE call[c].phase \in {"booking", "booked"}
        BY <2>2, <3>1, <3>2, <4>1 DEF Current, Ended
      <4>2. CASE call[c].phase = "failing"
        BY <2>2, <3>1, <3>2, <4>2 DEF Current, Accounted, Ended
      <4>3. CASE call[c].phase = "failed"
        BY <2>2, <3>1, <3>2, <4>3 DEF Current, Accounted, Ended
      <4>4. CASE call[c].phase = "rejecting"
        BY <2>2, <3>1, <3>2, <4>4 DEF Current, Untouched, Accounted, Ended
      <4> QED BY <2>4, <4>1, <4>2, <4>3, <4>4
    <3> QED BY <1>6, <2>1, <2>4, <3>2, <3>3 DEF Stays
  <2> QED BY <1>16, <2>3, <2>4 DEF Cancel
<1> QED BY <1>8, <1>9, <1>10, <1>11, <1>12, <1>13, <1>14, <1>15, <1>16 DEF Step

\* Only a row that could not be written has a log line, and one that is the
\* record of an answer has it.
AnswersLogged ==
    /\ logged \subseteq unwritten
    /\ \A c \in Calls, p \in Providers :
          /\ call[c].left # <<>> /\ Now(c) = p /\ <<c, p>> \in sent /\ <<c, p>> \notin torn
          /\ call[c].phase \in {"booked", "answered", "refused", "stored"}
          /\ <<c, p>> \in unwritten
          => <<c, p>> \in logged

LEMMA StepLogged ==
    ASSUME LedgerTypes, CallTypes, Faces, AnswersLogged, NEW c \in Calls, CallAccounted(c),
           Step(c) \/ Cancel(c)
    PROVE  AnswersLogged'
<1> DEFINE Quiet == UNCHANGED <<sent, rows, logged, unwritten, torn>>
\* What is asked of the attempt with p that the call d is at.
<1> DEFINE Asked(d, p) == /\ call[d].left # <<>> /\ Now(d) = p /\ <<d, p>> \in sent
                          /\ <<d, p>> \notin torn /\ call[d].phase \in {"booked", "answered", "refused", "stored"}
                          /\ <<d, p>> \in unwritten
<1>1. \A d \in Calls, p \in Providers : Asked(d, p) => <<d, p>> \in logged
  BY DEF AnswersLogged
\* It is enough to look at the call of the step.
<1>2. ASSUME logged' \subseteq unwritten', logged \subseteq logged',
             \A d \in Calls, p \in Providers : d # c =>
                 /\ <<d, p>> \in unwritten' => <<d, p>> \in unwritten
                 /\ <<d, p>> \in sent' => <<d, p>> \in sent
                 /\ <<d, p>> \notin torn' => <<d, p>> \notin torn,
             \A p \in Providers : Asked(c, p)' => <<c, p>> \in logged'
      PROVE  AnswersLogged'
  <2>1. ASSUME NEW d \in Calls, NEW p \in Providers, Asked(d, p)' PROVE <<d, p>> \in logged'
    <3>1. CASE d # c
      <4>1. call'[d] = call[d]
        BY <3>1, OtherCalls
      <4>2. Asked(d, p)
        BY <1>2, <2>1, <3>1, <4>1 DEF Now
      <4> QED BY <1>1, <1>2, <4>2
    <3>2. CASE d = c
      BY <1>2, <2>1, <3>2
    <3> QED BY <3>1, <3>2
  <2> QED BY <1>2, <2>1 DEF AnswersLogged
<1>3. ASSUME Quiet, \A p \in Providers : Asked(c, p)' => Asked(c, p) PROVE AnswersLogged'
  BY <1>1, <1>2, <1>3 DEF AnswersLogged
<1>4. ASSUME logged' = logged, unwritten' = unwritten,
             \/ call'[c].phase \notin {"booked", "answered", "refused", "stored"}
             \/ call'[c].left = <<>>,
             \A d \in Calls, p \in Providers : d # c =>
                 /\ <<d, p>> \in sent' => <<d, p>> \in sent
                 /\ <<d, p>> \notin torn' => <<d, p>> \notin torn
      PROVE  AnswersLogged'
  BY <1>2, <1>4 DEF AnswersLogged
<1>5. CASE Book(c)
  <2>1. Now(c) \in Providers /\ call[c].left # <<>>
    BY <1>5, NowIsProvider DEF Book, In, Faces, Facing
  <2>2. logged' \subseteq unwritten' /\ logged \subseteq logged' /\ UNCHANGED <<sent, torn>>
    BY <1>5 DEF Book, Written, AnswersLogged
  <2>3. \A d \in Calls, p \in Providers : d # c => (<<d, p>> \in unwritten' => <<d, p>> \in unwritten)
    BY <1>5 DEF Book, Written
  <2>4. ASSUME NEW p \in Providers, Asked(c, p)' PROVE <<c, p>> \in logged'
    <3>1. /\ call'[c].left = call[c].left
          /\ \/ call[c].phase = "booking" /\ call'[c].phase = "booked"
             \/ call[c].phase = "failing" /\ call'[c].phase = "failed"
             \/ call[c].phase = "rejecting" /\ call'[c].phase = "refused"
      BY <1>5, OwnMove DEF Book, In
    <3>6. call[c].phase # "rejecting"
      <4>1. PICK s \in Seq(Providers) : s = call[c].left
        BY DEF CallTypes, Call
      <4>2. PlanAccounted(c, s) /\ s # <<>>
        BY <2>1, <4>1 DEF CallAccounted
      <4>3. s[1] = p
        BY <2>4, <3>1, <4>1, <4>2, PlanFacts DEF Now, PlanAccounted
      <4>4. <<c, p>> \in sent
        BY <2>2, <2>4
      <4> QED BY <4>2, <4>3, <4>4 DEF PlanAccounted, Current, Untouched
    <3>2. In(c, "booking") /\ p = Now(c) /\ <<c, p>> \in unwritten'
      BY <2>4, <3>1, <3>6 DEF Now, In
    <3>3. <<c, p>> \notin unwritten
      <4>1. PICK s \in Seq(Providers) : s = call[c].left
        BY DEF CallTypes, Call
      <4>2. PlanAccounted(c, s) /\ s # <<>>
        BY <2>1, <4>1 DEF CallAccounted
      <4>3. s[1] = p
        BY <3>2, <4>1, <4>2, PlanFacts DEF Now, PlanAccounted
      <4>4. Records(c, p) = 0
        BY <3>2, <4>2, <4>3 DEF PlanAccounted, Current, In
      <4>5. rows[c][p] \in Nat
        BY DEF LedgerTypes
      <4> QED BY <4>4, <4>5 DEF Records
    <3>4. CASE logged' = IF In(c, "booking") THEN logged \cup {<<c, Now(c)>>} ELSE logged
      BY <3>2, <3>4
    <3>5. CASE UNCHANGED unwritten
      BY <3>2, <3>3, <3>5
    <3> QED BY <1>5, <3>4, <3>5 DEF Book, Written
  <2> QED BY <1>2, <2>2, <2>3, <2>4
<1>6. CASE Booked(c)
  <2>1. /\ Quiet /\ call[c].phase = "booked"
        /\ call'[c].phase = "answered" /\ call'[c].left = call[c].left
    BY <1>6, OwnMove DEF Booked, In, ledger
  <2> QED BY <1>3, <2>1 DEF Now
<1>7. CASE Store(c)
  <2>1. /\ Quiet /\ call[c].phase \in {"answered", "refused"}
        /\ call'[c].phase = "stored" /\ call'[c].left = call[c].left
    BY <1>7, OwnMove DEF Store, In, ledger
  <2> QED BY <1>3, <2>1 DEF Now
<1>8. CASE Cancel(c)
  <2>1. call'[c].phase \in {"failing", "cut"}
    BY <1>8, OwnMove
  <2>2. UNCHANGED <<sent, logged, unwritten>> /\ torn \subseteq torn'
    BY <1>8 DEF Cancel, ledger
  <2> QED BY <1>4, <2>1, <2>2
<1>9. CASE Try(c)
  <2>1. call'[c].phase \in {"waiting", "rejecting"}
    BY <1>9, OwnMove DEF Try
  <2>2. UNCHANGED <<logged, unwritten, torn>> /\ (sent' = sent \/ sent' = sent \cup {<<c, Now(c)>>})
    BY <1>9 DEF Try, ledger
  <2> QED BY <1>4, <2>1, <2>2
<1>10. CASE \/ Start(c) \/ StartTool(c) \/ NoneLeft(c) \/ MissingKey(c) \/ PassOver(c)
            \/ Chunk(c) \/ GoOn(c) \/ Answer(c) \/ Error(c) \/ FailedOver(c) \/ RaiseTool(c)
  <2>1. Quiet
    BY <1>10 DEF Start, StartTool, NoneLeft, MissingKey, PassOver, Chunk, GoOn, Answer, Error,
                 FailedOver, RaiseTool, ledger
  <2>2. \/ call'[c].phase \in {"choosing", "rejecting", "waiting", "yielding", "booking", "failing", "cut"}
        \/ call'[c].left = <<>>
    <3>1. CASE Start(c) \/ StartTool(c) \/ Error(c)
      BY <3>1, OwnMove
    <3>2. CASE NoneLeft(c) \/ Chunk(c) \/ GoOn(c) \/ Answer(c) \/ RaiseTool(c)
      BY <3>2, OwnMove DEF NoneLeft, Chunk, GoOn, Answer, RaiseTool
    <3>3. CASE MissingKey(c) \/ PassOver(c) \/ FailedOver(c)
      <4>1. PassOn(c) \/ Goto(c, "rejecting") \/ Goto(c, "cut")
        BY <3>3 DEF MissingKey, PassOver, FailedOver
      <4> QED BY <4>1, OwnMove
    <3> QED BY <1>10, <3>1, <3>2, <3>3
  <2> QED BY <1>4, <2>1, <2>2
<1> QED BY <1>5, <1>6, <1>7, <1>8, <1>9, <1>10 DEF Step

-----------------------------------------------------------------------------
(***************************************************************************)
(* The theorems.                                                           *)
(***************************************************************************)
GatewayInv ==
    /\ TypeOK
    /\ Faces
    /\ BreakerIsEarned
    /\ StreamsStopped
    /\ \A c \in Calls : CallAccounted(c)
    /\ AnswersLogged

\* The initial states satisfy the inductive invariant.
LEMMA InitGatewayInv == Init => GatewayInv
<1> SUFFICES ASSUME Init PROVE GatewayInv
  OBVIOUS
<1>1. PICK n \in [Providers -> 0 .. MaxFailures - 1] :
          /\ breaker = [p \in Providers |-> [n |-> n[p], until |-> "none"]]
          /\ streak = n
  BY DEF Init
<1>2. BreakerTypes /\ BreakerIsEarned
  BY <1>1, BoundsAssumption DEF BreakerTypes, Breaker, BreakerIsEarned
<1>3. \A c \in Calls : \E m \in Modes :
         call[c] = [phase |-> "idle", mode |-> m, explicit |-> FALSE, left |-> <<>>,
                    cause |-> "none", cancels |-> 0]
  BY DEF Init
<1>4. \A m \in Modes : [phase |-> "idle", mode |-> m, explicit |-> FALSE, left |-> <<>>,
                         cause |-> "none", cancels |-> 0] \in Call
  <2> TAKE m \in Modes
  <2>1. /\ "idle" \in Phases /\ m \in {"send", "stream", "tool"} /\ FALSE \in BOOLEAN
        /\ <<>> \in Seq(Providers) /\ "none" \in {"none", "error", "cancel"} /\ 0 \in 0 .. MaxCancels
    BY ModesAssumption, BoundsAssumption, EmptySeq DEF Phases
  <2> QED BY <2>1, Zenon DEF Call
<1>5. CallTypes
  BY <1>4 DEF Init, CallTypes
<1>6. LedgerTypes
  BY DEF Init, LedgerTypes
<1>7. \A c \in Calls : call[c].phase = "idle" /\ call[c].left = <<>> /\ call[c].cancels = 0
  <2> TAKE c \in Calls
  <2>1. PICK m \in Modes : call[c] = [phase |-> "idle", mode |-> m, explicit |-> FALSE, left |-> <<>>,
                                      cause |-> "none", cancels |-> 0]
    BY <1>3
  <2> QED BY <2>1
<1>8. Faces /\ StreamsStopped
  BY <1>7 DEF Faces, Facing, StreamsStopped
<1>9. \A c \in Calls, p \in Providers : Untouched(c, p)
  BY DEF Init, Untouched, Records
<1>10. \A c \in Calls : CallAccounted(c)
  BY <1>7, <1>9 DEF CallAccounted, PlanAccounted, Distinct, Untouched, Accounted
<1>11. keyed \in SUBSET Providers /\ AnswersLogged
  BY DEF Init, AnswersLogged
<1> QED BY <1>2, <1>5, <1>6, <1>8, <1>10, <1>11
        DEF GatewayInv, TypeOK, BreakerTypes, CallTypes, LedgerTypes

\* Every step keeps the inductive invariant.
LEMMA NextGatewayInv == GatewayInv /\ [Next]_vars => GatewayInv'
<1> SUFFICES ASSUME GatewayInv, [Next]_vars PROVE GatewayInv'
  OBVIOUS
<1>0. /\ keyed \in SUBSET Providers /\ BreakerTypes /\ CallTypes /\ LedgerTypes
      /\ Faces /\ BreakerIsEarned /\ StreamsStopped /\ \A c \in Calls : CallAccounted(c)
      /\ AnswersLogged
  BY DEF GatewayInv, TypeOK, BreakerTypes, CallTypes, LedgerTypes
<1>1. ASSUME NEW c \in Calls, Step(c) \/ Cancel(c) PROVE GatewayInv'
  <2>1. BreakerTypes' /\ CallTypes' /\ LedgerTypes' /\ Faces' /\ BreakerIsEarned' /\ StreamsStopped'
    BY <1>0, <1>1, StepBreakerTypes, StepCallTypes, StepLedgerTypes, StepFaces, StepEarned, StepStreams
  <2>2. ASSUME NEW d \in Calls PROVE CallAccounted(d)'
    <3>1. CASE d = c
      BY <1>0, <1>1, <3>1, OwnAccounted
    <3>2. CASE d # c
      BY <1>0, <1>1, <3>2, OthersAccounted
    <3> QED BY <3>1, <3>2
  <2>4. AnswersLogged'
    BY <1>0, <1>1, StepLogged
  <2>3. keyed' = keyed
    BY <1>1 DEF Step, Start, StartTool, NoneLeft, MissingKey, PassOver, Try, Chunk, GoOn, Answer,
                Error, Book, Booked, FailedOver, RaiseTool, Store, Cancel
  <2> QED BY <1>0, <2>1, <2>2, <2>3, <2>4 DEF GatewayInv, TypeOK, BreakerTypes, CallTypes, LedgerTypes
<1>2. ASSUME UNCHANGED <<keyed, streak, call, sent, ledger, torn>>,
             BreakerTypes' /\ BreakerIsEarned'
      PROVE  GatewayInv'
  <2>1. CallTypes' /\ LedgerTypes' /\ Faces' /\ StreamsStopped' /\ keyed' = keyed
    BY <1>0, <1>2 DEF ledger, CallTypes, LedgerTypes, Faces, StreamsStopped
  <2>2. \A c \in Calls : CallAccounted(c)'
    BY <1>0, <1>2 DEF ledger, CallAccounted, PlanAccounted, Untouched, Accounted, Current, Records
  <2>3. AnswersLogged'
    BY <1>0, <1>2 DEF ledger, AnswersLogged, Now
  <2> QED BY <1>0, <1>2, <2>1, <2>2, <2>3 DEF GatewayInv, TypeOK, BreakerTypes, CallTypes, LedgerTypes
<1>3. ASSUME NEW p \in Providers, MinutePasses(p) PROVE GatewayInv'
  <2>1. BreakerTypes' /\ BreakerIsEarned'
    BY <1>0, <1>3 DEF MinutePasses, BreakerTypes, Breaker, BreakerIsEarned
  <2> QED BY <1>2, <1>3, <2>1 DEF MinutePasses
<1>4. CASE UNCHANGED vars
  BY <1>0, <1>2, <1>4 DEF vars, ledger, BreakerTypes, BreakerIsEarned
<1> QED BY <1>1, <1>3, <1>4 DEF Next

\* The invariant of the gateway, for any chain of distinct providers, any number of
\* calls and of cancellations, and any threshold of the breaker.
THEOREM GatewayInvariant == Spec => []GatewayInv
  BY InitGatewayInv, NextGatewayInv, PTL DEF Spec

\* The breakers, the calls and the ledger keep their types.
THEOREM GatewayTypes == Spec => []TypeOK
  BY GatewayInvariant, PTL DEF GatewayInv

\* A breaker that refuses calls was opened by MaxFailures failures of its provider
\* in a row, also when calls that began before it opened go on failing.
THEOREM BreakersAreEarned == Spec => []BreakerIsEarned
  BY GatewayInvariant, PTL DEF GatewayInv

\* Every attempt that a call has left was put to the ledger once, and none more
\* than twice, through every error, fallback and cancellation; an answer has a row
\* or the log line of one that could not be written.
THEOREM EveryAttemptAccounted == Spec => []AttemptsAreAccounted
<1>1. GatewayInv => AttemptsAreAccounted
  <2> DEFINE Shown(c, p) == rows[c][p] + (IF <<c, p>> \in logged THEN 1 ELSE 0)
  <2> SUFFICES ASSUME GatewayInv, NEW c \in Calls, NEW p \in Providers
               PROVE  /\ Over(c, p) /\ <<c, p>> \notin torn => Records(c, p) = 1
                      /\ Answered(c, p) /\ <<c, p>> \notin torn => Shown(c, p) = 1
                      /\ Records(c, p) <= 2
    BY DEF AttemptsAreAccounted, Records
  <2>1. PICK s \in Seq(Providers) : s = call[c].left
    BY DEF GatewayInv, TypeOK, Call
  <2>2. PlanAccounted(c, s) /\ call[c].phase \in Phases
    BY <2>1 DEF GatewayInv, CallAccounted, TypeOK, Call
  <2>3. /\ Over(c, p) /\ <<c, p>> \notin torn => Records(c, p) = 1
        /\ Records(c, p) <= 2
    <3>1. CASE p \notin Members(s)
      BY <2>2, <3>1 DEF PlanAccounted, Accounted, Over
    <3>2. ASSUME NEW i \in 1 .. Len(s), p = s[i], i # 1
          PROVE  <<c, p>> \notin sent /\ Records(c, p) = 0
      BY <2>2, <3>2 DEF PlanAccounted, Untouched
    <3>3. CASE s # <<>> /\ p = s[1]
      <4>1. Now(c) = p /\ call[c].left # <<>>
        BY <2>1, <2>2, <3>3, PlanFacts DEF Now, PlanAccounted
      <4>2. Current(c, p) /\ call[c].phase # "idle"
        BY <2>2, <3>3 DEF PlanAccounted
      <4>3. Records(c, p) \in Nat
        BY DEF GatewayInv, TypeOK, Records
      <4> QED BY <2>2, <4>1, <4>2, <4>3 DEF Current, Over, Untouched, Accounted, Phases, Ended
    <3>4. p \in Members(s) => s # <<>> /\ \E i \in 1 .. Len(s) : p = s[i]
      BY <2>2 DEF Members
    <3> QED BY <3>1, <3>2, <3>3, <3>4 DEF Over
  <2>4. ASSUME Answered(c, p), <<c, p>> \notin torn PROVE Shown(c, p) = 1
    <3>1. Records(c, p) = 1
      BY <2>3, <2>4 DEF Answered, Over, Ended
    <3>2. <<c, p>> \in unwritten <=> <<c, p>> \in logged
      BY <2>4 DEF Answered, GatewayInv, AnswersLogged
    <3> QED BY <3>1, <3>2 DEF Records
  <2> QED BY <2>3, <2>4
<1> QED BY <1>1, GatewayInvariant, PTL

\* A stream whose client has gone makes no further request.
THEOREM CancelledStreamsStop == Spec => CancelledStreamStops
<1> DEFINE Stop == \A c \in Calls : call[c].mode = "stream" /\ call[c].cancels > 0
                     => \A p \in Providers : <<c, p>> \in sent' => <<c, p>> \in sent
<1>1. GatewayInv /\ [Next]_vars => [Stop]_vars
  <2> SUFFICES ASSUME GatewayInv, Next, NEW c \in Calls, call[c].mode = "stream",
                      call[c].cancels > 0, NEW p \in Providers, <<c, p>> \in sent'
               PROVE  <<c, p>> \in sent
    OBVIOUS
  <2>1. call[c].phase # "choosing"
    BY DEF GatewayInv, StreamsStopped
  <2>2. ASSUME NEW d \in Calls, Step(d) \/ Cancel(d) PROVE <<c, p>> \in sent
    <3>1. CASE Try(d)
      BY <2>1, <3>1 DEF Try, In
    <3> QED BY <2>2, <3>1
            DEF Step, Start, StartTool, NoneLeft, MissingKey, PassOver, Chunk, GoOn, Answer,
                Error, Book, Booked, FailedOver, RaiseTool, Store, Cancel
  <2> QED BY <2>2 DEF Next, MinutePasses
<1>2. Spec => [][Stop]_vars
  BY <1>1, GatewayInvariant, PTL DEF Spec
<1> QED BY <1>2 DEF CancelledStreamStops
=============================================================================
