-------------------------- MODULE SdkClientProofs --------------------------
(***************************************************************************)
(* Proofs about the SDK and the rate limiter, for every bucket, timeout    *)
(* and set of concurrent calls.                                            *)
(***************************************************************************)
EXTENDS SdkClient, TLAPS

\* What admitted requests and tokens left may amount to: a tick adds one to
\* both sides, a request moves one from the tokens to the admitted.
LimiterInv == LimiterTypeOK /\ stretch.admitted + tokens <= Burst + stretch.ticks

LEMMA LimiterInvInit == LimiterInit => LimiterInv
  BY LimiterAssumption
  DEF LimiterInit, LimiterInv, LimiterTypeOK, NewStretch

LEMMA LimiterInvNext == LimiterInv /\ [LimiterNext]_limiterVars => LimiterInv'
<1> SUFFICES ASSUME LimiterInv, [LimiterNext]_limiterVars PROVE LimiterInv'
  OBVIOUS
<1> USE LimiterAssumption DEF LimiterInv, LimiterTypeOK
<1>1. CASE Tick
  BY <1>1 DEF Tick, Refill, NewStretch
<1>2. CASE Admit
  BY <1>2 DEF Admit
<1>3. CASE Throttle \/ UNCHANGED limiterVars
  BY <1>3 DEF Throttle, limiterVars
<1>4. QED BY <1>1, <1>2, <1>3 DEF LimiterNext

\* In every stretch of k ticks at most Burst + k requests are admitted, for
\* every capacity of the bucket and every length of the stretch.
THEOREM BucketBoundsEveryStretch == LimiterSpec => []BurstThenRate
<1>1. LimiterInv => BurstThenRate
  BY LimiterAssumption DEF LimiterInv, LimiterTypeOK, BurstThenRate
<1>2. QED BY <1>1, LimiterInvInit, LimiterInvNext, PTL DEF LimiterSpec

\* The SDK's steps are steps of the limiter or leave it alone.
LEMMA SdkImplementsLimiter == SdkSpec => LimiterSpec
<1>1. SdkInit => LimiterInit
  BY DEF SdkInit
<1>2. SdkNext => [LimiterNext]_limiterVars
  <2>1. ASSUME NEW c \in Calls, ClientStep(c) PROVE UNCHANGED limiterVars
    <3>1. Invoke(c) => UNCHANGED limiterVars
      BY DEF Invoke, GetSiblingPath, InvalidCommitment, GetTreeRoot, GetHealth, Fetch
    <3>2. QED BY <2>1, <3>1
         DEF ClientStep, TimerFires, FetchFails, HeadersArrive, BodyArrives, BodyBreaks
  <2>2. ASSUME NEW c \in Calls, SidecarStep(c) PROVE [LimiterNext]_limiterVars
    BY <2>2 DEF SidecarStep, RequestThrottled, RequestAdmitted, ProxyAnswers,
      RequestHandled, RequestLost, LimiterNext
  <2>3. ClockTicks \/ TickerTicks => [LimiterNext]_limiterVars
    BY DEF ClockTicks, TickerTicks, LimiterNext
  <2>4. QED BY <2>1, <2>2, <2>3 DEF SdkNext
<1>3. UNCHANGED sdkVars => UNCHANGED limiterVars
  BY DEF sdkVars
<1>4. QED BY <1>1, <1>2, <1>3, PTL DEF SdkSpec, LimiterSpec
-----------------------------------------------------------------------------
(***************************************************************************)
(* Types.                                                                  *)
(***************************************************************************)
Bodies == {"json503", "json", "text"}
Ages == 0..(Timeout + 1)
CallSet ==
  [step : {"idle", "fetch", "json503", "json", "text", "settled"},
   method : Methods, timer : {"armed", "off"}, age : Ages,
   commitment : Commitments, response : ResponseSet, outcome : Outcomes]
RequestSet ==
  [at : {"none", "sent", "handled", "answered"}, response : ResponseSet]

Typed == call \in [Calls -> CallSet] /\ request \in [Calls -> RequestSet]

LEMMA StatusType ==
  ASSUME NEW n \in {0, 200, 400, 404, 429, 502, 503}
  PROVE  Status(n) \in ResponseSet
  BY ClientAssumption DEF Status, Response, ResponseSet

LEMMA RefusedType == Refused \in ResponseSet
  BY ClientAssumption DEF Refused, Response, ResponseSet

LEMMA ProofType ==
  ASSUME NEW ledger \in {"found", "missed", "unread"},
         NEW n \in {HexWidth - 1, HexWidth}
  PROVE  Proof(ledger, n) \in ResponseSet
  BY ClientAssumption DEF Proof, Response, ResponseSet

LEMMA NotInTreeType == NotInTree \in ResponseSet
  BY ClientAssumption DEF NotInTree, Response, ResponseSet

LEMMA NothingYetType == NoResponse \in ResponseSet /\ NoRequest \in RequestSet
  BY ClientAssumption DEF NoResponse, Response, NoRequest, ResponseSet, RequestSet

LEMMA NoCommitmentType == NoCommitment \in Commitments
  BY DEF NoCommitment, Commitments, Writings

LEMMA AgeType == 0 \in Ages /\ \A n \in Ages : n <= Timeout => n + 1 \in Ages
  BY ClientAssumption DEF Ages

LEMMA NewCallType == NewCall \in CallSet
<1>1. "none" \in Outcomes /\ "getHealth" \in Methods
  BY DEF Outcomes, Methods
<1>2. QED BY <1>1, AgeType, NothingYetType, NoCommitmentType DEF NewCall, CallSet

LEMMA SettledType ==
  ASSUME NEW r \in CallSet, NEW o \in Outcomes
  PROVE  Settled(r, o) \in CallSet
  BY AgeType DEF Settled, CallSet

LEMMA FetchType ==
  ASSUME NEW method \in Methods, NEW commitment \in Commitments
  PROVE  [NewCall EXCEPT !.step = "fetch", !.method = method,
            !.timer = Armed(method), !.commitment = commitment] \in CallSet
  BY NewCallType DEF CallSet, Armed

LEMMA BodyType ==
  ASSUME NEW method, NEW status
  PROVE  Body(method, status) \in Bodies \cup {"none"}
  BY DEF Body, Bodies

LEMMA HeadersType ==
  ASSUME NEW r \in CallSet, NEW response \in ResponseSet, NEW body \in Bodies
  PROVE  /\ [r EXCEPT !.response = response] \in CallSet
         /\ [[r EXCEPT !.response = response] EXCEPT !.step = body,
               !.timer = Cleared(r.method)] \in CallSet
  BY DEF CallSet, Bodies, Cleared

LEMMA ResponsesType ==
  ASSUME Typed, NEW c \in Calls
  PROVE  Responses(c) \subseteq ResponseSet
  BY StatusType, RefusedType, NotInTreeType, ProofType
  DEF Responses, ProofResponses, Lookup

LEMMA GiveUpType ==
  ASSUME Typed, NEW c \in Calls, GiveUp(c)
  PROVE  request' \in [Calls -> RequestSet]
  BY NothingYetType DEF GiveUp, Typed

LEMMA SettleType ==
  ASSUME Typed, NEW c \in Calls, NEW o \in Outcomes, Settle(c, o)
  PROVE  call' \in [Calls -> CallSet]
  BY SettledType DEF Settle, Typed

LEMMA AnswerType ==
  ASSUME Typed, NEW c \in Calls, NEW response \in ResponseSet, Answer(c, response)
  PROVE  request' \in [Calls -> RequestSet]
  BY DEF Answer, Typed, RequestSet

LEMMA InvokeTyped ==
  ASSUME Typed, NEW c \in Calls, Invoke(c)
  PROVE  Typed'
<1>1. ASSUME NEW method \in Methods, NEW commitment \in Commitments,
             Fetch(c, method, commitment)
      PROVE  Typed'
  BY <1>1, FetchType, NothingYetType DEF Fetch, Typed, RequestSet
<1>2. ASSUME NEW commitment \in Commitments, InvalidCommitment(c, commitment)
      PROVE  Typed'
  <2>1. [NewCall EXCEPT !.method = "getSiblingPath"] \in CallSet
    BY NewCallType DEF CallSet, Methods
  <2>2. "TypeError" \in Outcomes
    BY DEF Outcomes
  <2>3. QED BY <1>2, <2>1, <2>2, SettledType DEF InvalidCommitment, Typed
<1>3. QED BY <1>1, <1>2, NoCommitmentType
     DEF Invoke, GetSiblingPath, GetTreeRoot, GetHealth, Methods

LEMMA ClientTyped ==
  ASSUME Typed, NEW c \in Calls, ClientStep(c)
  PROVE  Typed'
<1>1. CASE Invoke(c)
  BY <1>1, InvokeTyped
<1>2. \A error \in Outcomes : Caught(c, error) \in Outcomes
  BY DEF Caught, Outcomes
<1>3. {"Error", "MnemoxTimeoutError", "MnemoxNotFoundError", "result",
       "MnemoxDesyncError", "rejection"} \subseteq Outcomes
  BY DEF Outcomes
<1>4. CASE TimerFires(c)
  BY <1>2, <1>3, <1>4, SettleType, GiveUpType DEF TimerFires, Typed
<1>5. CASE FetchFails(c)
  BY <1>2, <1>3, <1>5, SettleType, GiveUpType DEF FetchFails, Typed
<1>6. CASE HeadersArrive(c)
  <2> DEFINE response == request[c].response
             method == call[c].method
             body == Body(method, response.status)
             received == [call[c] EXCEPT !.response = response]
  <2>1. call[c] \in CallSet /\ response \in ResponseSet
    BY DEF Typed, RequestSet
  <2>2. HeadersError(method, response.status) \in Outcomes
    BY <1>3 DEF HeadersError
  <2>3. received \in CallSet
    BY <2>1 DEF CallSet
  <2>4. CASE body = "none"
    <3>1. call' = [call EXCEPT ![c] =
                     Settled(received, HeadersError(method, response.status))]
      BY <1>6, <2>4 DEF HeadersArrive
    <3>2. QED BY <1>6, <2>2, <2>3, <3>1, SettledType, NothingYetType
         DEF HeadersArrive, Typed
  <2>5. CASE body # "none"
    <3>1. body \in Bodies
      BY <2>5, BodyType
    <3>2. call' = [call EXCEPT ![c] = [received EXCEPT !.step = body,
                                         !.timer = Cleared(method)]]
      BY <1>6, <2>5 DEF HeadersArrive
    <3>3. [received EXCEPT !.step = body, !.timer = Cleared(method)] \in CallSet
      BY <2>1, <3>1, HeadersType
    <3>4. call' \in [Calls -> CallSet]
      BY <3>2, <3>3 DEF Typed
    <3>5. QED BY <1>6, <3>4, NothingYetType DEF HeadersArrive, Typed
  <2>6. QED BY <2>4, <2>5
<1>7. CASE BodyArrives(c)
  <2>1. PICK o \in Outcomes : Settle(c, o)
    BY <1>3, <1>7 DEF BodyArrives, Error503, InBody, InProgress, At, Typed, CallSet
  <2>2. QED BY <1>7, <2>1, SettleType DEF BodyArrives, Typed
<1>8. CASE BodyBreaks(c)
  BY <1>3, <1>8, SettleType DEF BodyBreaks, Typed
<1>9. QED BY <1>1, <1>4, <1>5, <1>6, <1>7, <1>8 DEF ClientStep

LEMMA SidecarTyped ==
  ASSUME Typed, NEW c \in Calls, SidecarStep(c)
  PROVE  Typed'
<1>1. CASE RequestThrottled(c)
  BY <1>1, StatusType, AnswerType DEF RequestThrottled, Typed
<1>2. CASE RequestAdmitted(c)
  BY <1>2, NothingYetType DEF RequestAdmitted, Typed, RequestSet
<1>3. CASE ProxyAnswers(c)
  BY <1>3, StatusType, AnswerType DEF ProxyAnswers, ProxyErrors, Typed
<1>4. CASE RequestHandled(c)
  BY <1>4, ResponsesType, AnswerType DEF RequestHandled, Typed
<1>5. CASE RequestLost(c)
  BY <1>5, NothingYetType DEF RequestLost, Typed
<1>6. QED BY <1>1, <1>2, <1>3, <1>4, <1>5 DEF SidecarStep

LEMMA TypedNext == Typed /\ [SdkNext]_sdkVars => Typed'
<1> SUFFICES ASSUME Typed, [SdkNext]_sdkVars PROVE Typed'
  OBVIOUS
<1>1. CASE \E c \in Calls : ClientStep(c) \/ SidecarStep(c)
  BY <1>1, ClientTyped, SidecarTyped
<1>2. CASE ClockTicks
  <2>1. ASSUME NEW c \in Calls, call[c].age <= Timeout
        PROVE  [call[c] EXCEPT !.age = @ + 1] \in CallSet
    BY <2>1, AgeType DEF Typed, CallSet
  <2>2. QED BY <1>2, <2>1 DEF ClockTicks, Typed
<1>3. CASE TickerTicks \/ UNCHANGED sdkVars
  BY <1>3 DEF TickerTicks, sdkVars, Typed
<1>4. QED BY <1>1, <1>2, <1>3 DEF SdkNext

LEMMA TypedInit == SdkInit => Typed
  BY NewCallType, NothingYetType DEF SdkInit, Typed

\* Calls, requests and the bucket keep their types, for every number of calls.
THEOREM SdkTypeCorrect == SdkSpec => []SdkTypeOK
<1>1. LimiterInv /\ Typed => SdkTypeOK
  BY DEF LimiterInv, Typed, SdkTypeOK, CallSet, RequestSet, Ages
<1>2. SdkSpec => []LimiterInv
  BY SdkImplementsLimiter, LimiterInvInit, LimiterInvNext, PTL DEF LimiterSpec
<1>3. QED BY <1>1, <1>2, TypedInit, TypedNext, PTL DEF SdkSpec
-----------------------------------------------------------------------------
(***************************************************************************)
(* What holds of a call and of its request at every step.                  *)
(***************************************************************************)
\* What may answer a call that passed assertValidCommitmentHex.
Answers(r) ==
  {Status(n) : n \in ProxyErrors} \cup
  IF r.method # "getSiblingPath" THEN {Status(200)}
  ELSE {Refused} \cup
       IF r.commitment.indexed
       THEN {Proof(ledger, n) :
               ledger \in Lookup(r.commitment), n \in {HexWidth - 1, HexWidth}}
       ELSE {NotInTree}

\* The timer covers fetch, and the body for getHealth only; until it fires
\* the call is no older than the timeout.
TimerInv(r) ==
  /\ r.step = "fetch" => r.timer = "armed"
  /\ r.step \in Bodies => (r.timer = "armed" <=> r.method = "getHealth")
  /\ r.timer = "armed" => r.age <= Timeout
  /\ r.step \in {"idle", "settled"} => r.age = 0 /\ r.timer = "off"

\* A call under way has a valid commitment, and a body one of the answers.
StepInv(r) ==
  /\ r.step \in Bodies \cup {"fetch"} /\ r.method = "getSiblingPath" =>
       ValidCommitmentHex(r.commitment)
  /\ r.step \in {"idle", "fetch"} => r.response = NoResponse
  /\ r.step \in Bodies =>
       r.response \in Answers(r) /\ r.step = Body(r.method, r.response.status)

\* What a 404 to a call for the commitment is: handleProof found no leaf, or a
\* proxy answered.
Missing(a, commitment) ==
  \/ a = NotInTree /\ ~commitment.indexed
  \/ a = Status(404)

\* What the outcome of a call says of its response.
OutcomeInv(r) ==
  /\ r.step # "settled" => r.outcome = "none"
  /\ r.outcome = "MnemoxDesyncError" => r.response = Refused
  /\ r.outcome = "MnemoxNotFoundError" => Missing(r.response, r.commitment)
  /\ r.outcome = "MnemoxTimeoutError" => r.response = NoResponse
  /\ r.outcome = "result" /\ r.method = "getSiblingPath" /\ r.response.ledger = "missed" =>
       r.commitment.written = "upper"

\* Only a call in fetch has a request in the sidecar or an answer under way.
RequestInv(r, q) ==
  /\ q.at \in {"handled", "answered"} => r.step = "fetch"
  /\ q.at # "answered" => q.response = NoResponse
  /\ q.at = "answered" => q.response \in Answers(r)

Holds(r, q) == TimerInv(r) /\ StepInv(r) /\ OutcomeInv(r) /\ RequestInv(r, q)
SdkInv == \A c \in Calls : Holds(call[c], request[c])

LEMMA SdkInvInit == SdkInit => SdkInv
  BY ClientAssumption
  DEF SdkInit, SdkInv, Holds, TimerInv, StepInv, OutcomeInv, RequestInv, NewCall,
      NoRequest, NoResponse, Response, Bodies

LEMMA SettledFields ==
  ASSUME NEW r \in CallSet, NEW o \in Outcomes
  PROVE  LET s == Settled(r, o) IN
         /\ s.step = "settled" /\ s.timer = "off" /\ s.age = 0 /\ s.outcome = o
         /\ s.method = r.method /\ s.commitment = r.commitment
         /\ s.response = r.response
  BY DEF Settled, CallSet

\* Settling keeps the invariant if the outcome is true of the response.
LEMMA SettledHolds ==
  ASSUME NEW r \in CallSet, NEW o \in Outcomes, NEW q,
         q.at \in {"none", "sent"}, q.response = NoResponse,
         o = "MnemoxDesyncError" => r.response = Refused,
         o = "MnemoxNotFoundError" =>
           Missing(r.response, r.commitment),
         o = "MnemoxTimeoutError" => r.response = NoResponse,
         o = "result" /\ r.method = "getSiblingPath" /\ r.response.ledger = "missed" =>
           r.commitment.written = "upper"
  PROVE  Holds(Settled(r, o), q)
<1> DEFINE s == Settled(r, o)
<1>1. /\ s.step = "settled" /\ s.timer = "off" /\ s.age = 0 /\ s.outcome = o
      /\ s.method = r.method /\ s.commitment = r.commitment
      /\ s.response = r.response
  BY SettledFields
<1> HIDE DEF s
<1>2. TimerInv(s)
  BY <1>1, ClientAssumption DEF TimerInv, Bodies
<1>3. StepInv(s)
  BY <1>1 DEF StepInv, Bodies
<1>4. OutcomeInv(s)
  BY <1>1 DEF OutcomeInv
<1>5. RequestInv(s, q)
  BY <1>1 DEF RequestInv
<1>6. QED BY <1>2, <1>3, <1>4, <1>5 DEF Holds, s

LEMMA FetchHolds ==
  ASSUME NEW method \in Methods, NEW commitment \in Commitments,
         method = "getSiblingPath" => ValidCommitmentHex(commitment)
  PROVE  Holds([NewCall EXCEPT !.step = "fetch", !.method = method,
                  !.timer = Armed(method), !.commitment = commitment],
               [at |-> "sent", response |-> NoResponse])
<1> DEFINE r == [NewCall EXCEPT !.step = "fetch", !.method = method,
                   !.timer = Armed(method), !.commitment = commitment]
           q == [at |-> "sent", response |-> NoResponse]
<1>1. /\ r.step = "fetch" /\ r.method = method /\ r.timer = "armed" /\ r.age = 0
      /\ r.commitment = commitment /\ r.response = NoResponse /\ r.outcome = "none"
  BY DEF NewCall, Armed
<1>2. q.at = "sent" /\ q.response = NoResponse
  OBVIOUS
<1> HIDE DEF r, q
<1>3. TimerInv(r) /\ StepInv(r) /\ OutcomeInv(r) /\ RequestInv(r, q)
  BY <1>1, <1>2, ClientAssumption DEF TimerInv, StepInv, OutcomeInv, RequestInv, Bodies
<1>4. QED BY <1>3 DEF Holds, r, q

\* An action of one call keeps the invariant if it does for that call.
LEMMA OneCall ==
  ASSUME SdkInv, NEW c \in Calls, Holds(call'[c], request'[c]),
         \A d \in Calls \ {c} : call'[d] = call[d] /\ request'[d] = request[d]
  PROVE  SdkInv'
  BY DEF SdkInv

LEMMA GiveUpHolds ==
  ASSUME Typed, SdkInv, NEW c \in Calls, GiveUp(c)
  PROVE  /\ request'[c].at \in {"none", "sent"} /\ request'[c].response = NoResponse
         /\ \A d \in Calls \ {c} : request'[d] = request[d]
  BY DEF GiveUp, Typed, SdkInv, Holds, RequestInv, NoRequest

LEMMA InvokeInv ==
  ASSUME Typed, SdkInv, NEW c \in Calls, Invoke(c)
  PROVE  SdkInv'
<1>1. ASSUME NEW method \in Methods, NEW commitment \in Commitments,
             method = "getSiblingPath" => ValidCommitmentHex(commitment),
             Fetch(c, method, commitment)
      PROVE  SdkInv'
  <2>1. Holds(call'[c], request'[c])
    BY <1>1, FetchHolds DEF Fetch, Typed
  <2>2. QED BY <1>1, <2>1, OneCall DEF Fetch, Typed
<1>2. ASSUME NEW commitment \in Commitments, InvalidCommitment(c, commitment)
      PROVE  SdkInv'
  <2> DEFINE r == [NewCall EXCEPT !.method = "getSiblingPath"]
  <2>1. r \in CallSet /\ "TypeError" \in Outcomes
    BY NewCallType DEF CallSet, Methods, Outcomes
  <2>2. call'[c] = Settled(r, "TypeError") /\ request'[c] = request[c]
    BY <1>2 DEF InvalidCommitment, Typed
  <2>3. request[c].at \in {"none", "sent"} /\ request[c].response = NoResponse
    BY <1>2 DEF InvalidCommitment, Free, SdkInv, Holds, RequestInv
  <2>4. Holds(call'[c], request'[c])
    BY <2>1, <2>2, <2>3, SettledHolds
  <2>5. QED BY <1>2, <2>4, OneCall DEF InvalidCommitment, Typed
<1>3. QED BY <1>1, <1>2, NoCommitmentType
     DEF Invoke, GetSiblingPath, GetTreeRoot, GetHealth, Methods

\* The errors a call settles with that say nothing of its response.
Untyped == {"Error", "rejection", "TypeError"}

LEMMA SettleInv ==
  ASSUME Typed, SdkInv, NEW c \in Calls, NEW o \in Outcomes, Settle(c, o),
         request'[c].at \in {"none", "sent"}, request'[c].response = NoResponse,
         \A d \in Calls \ {c} : request'[d] = request[d],
         o = "MnemoxDesyncError" => call[c].response = Refused,
         o = "MnemoxTimeoutError" => call[c].response = NoResponse,
         o # "MnemoxNotFoundError",
         o = "result" /\ call[c].method = "getSiblingPath"
           /\ call[c].response.ledger = "missed" =>
           call[c].commitment.written = "upper"
  PROVE  SdkInv'
<1>1. call[c] \in CallSet
  BY DEF Typed
<1>2. call'[c] = Settled(call[c], o) /\ \A d \in Calls \ {c} : call'[d] = call[d]
  BY DEF Settle, Typed
<1>3. Holds(call'[c], request'[c])
  BY <1>1, <1>2, SettledHolds
<1>4. QED BY <1>2, <1>3, OneCall

LEMMA TimerFiresInv ==
  ASSUME Typed, SdkInv, NEW c \in Calls, TimerFires(c)
  PROVE  SdkInv'
<1> DEFINE o == Caught(c, "MnemoxTimeoutError")
<1>1. o \in {"rejection", "MnemoxTimeoutError"} /\ o \in Outcomes
  BY DEF Caught, Outcomes
<1>2. o = "MnemoxTimeoutError" => call[c].response = NoResponse
  <2>1. call[c].timer = "armed" /\ call[c].step \in Bodies \cup {"idle", "fetch", "settled"}
    BY DEF TimerFires, Due, Typed, CallSet, Bodies
  <2>2. o = "MnemoxTimeoutError" => call[c].method # "getHealth"
    BY DEF Caught, Calling
  <2>3. QED BY <2>1, <2>2 DEF SdkInv, Holds, TimerInv, StepInv
<1>3. QED BY <1>1, <1>2, GiveUpHolds, SettleInv DEF TimerFires

LEMMA FetchFailsInv ==
  ASSUME Typed, SdkInv, NEW c \in Calls, FetchFails(c)
  PROVE  SdkInv'
<1>1. Caught(c, "Error") \in Untyped /\ Untyped \subseteq Outcomes
  BY DEF Caught, Untyped, Outcomes
<1>2. QED BY <1>1, GiveUpHolds, SettleInv DEF FetchFails, Untyped

\* In the body of an answer: a call with no request, whose timer runs for
\* getHealth only.
LEMMA BodyFacts ==
  ASSUME Typed, SdkInv, NEW c \in Calls, InBody(c)
  PROVE  /\ call[c].step \in Bodies
         /\ call[c].response \in Answers(call[c])
         /\ call[c].step = Body(call[c].method, call[c].response.status)
         /\ request[c].at \in {"none", "sent"} /\ request[c].response = NoResponse
<1>1. call[c].step \in Bodies
  BY DEF InBody, InProgress, At, Typed, CallSet, Bodies
<1>2. request[c].at \in {"none", "sent", "handled", "answered"}
  BY DEF Typed, RequestSet
<1>3. QED BY <1>1, <1>2 DEF SdkInv, Holds, StepInv, RequestInv, Bodies

\* What the answers tell a caller.
LEMMA AnswerFacts ==
  ASSUME NEW r \in CallSet, NEW a \in Answers(r),
         r.method = "getSiblingPath" => ValidCommitmentHex(r.commitment)
  PROVE  /\ a \in ResponseSet
         /\ a.status # 400
         /\ a.code = "DESYNC_LAG_PROTECTION" => a = Refused
         /\ a.status = 404 => Missing(a, r.commitment)
         /\ a.ledger = "missed" => r.commitment.written = "upper"
<1>1. CASE \E n \in {200} \cup ProxyErrors : a = Status(n)
  BY <1>1, StatusType DEF ProxyErrors, Status, Response, Missing
<1>2. CASE a = Refused
  BY <1>2, RefusedType DEF Refused, Response
<1>3. CASE ~r.commitment.indexed /\ a = NotInTree
  <2>1. a.status = 404 /\ a.code = "NOT_IN_TREE" /\ a.ledger = "none"
    BY <1>3 DEF NotInTree, Response
  <2>2. Missing(a, r.commitment)
    BY <1>3 DEF Missing
  <2>3. QED BY <1>3, <2>1, <2>2, NotInTreeType
<1>4. CASE /\ r.method = "getSiblingPath"
           /\ \E ledger \in Lookup(r.commitment), n \in {HexWidth - 1, HexWidth} :
                a = Proof(ledger, n)
  <2>1. PICK ledger \in Lookup(r.commitment), n \in {HexWidth - 1, HexWidth} :
          a = Proof(ledger, n)
    BY <1>4
  <2>2. ledger \in {"found", "missed", "unread"}
    BY DEF Lookup
  <2>3. ledger = "missed" => r.commitment.written = "upper"
    BY <1>4 DEF Lookup, InStore, ValidCommitmentHex
  <2>4. QED BY <2>1, <2>2, <2>3, ProofType DEF Proof, Response
<1>5. QED BY <1>1, <1>2, <1>3, <1>4 DEF Answers

LEMMA BodyArrivesInv ==
  ASSUME Typed, SdkInv, NEW c \in Calls, BodyArrives(c)
  PROVE  SdkInv'
<1> DEFINE response == call[c].response
<1>1. InBody(c)
  BY DEF BodyArrives
<1>2. /\ call[c] \in CallSet
      /\ call[c].method = "getSiblingPath" => ValidCommitmentHex(call[c].commitment)
  BY <1>1, BodyFacts DEF Typed, SdkInv, Holds, StepInv
<1>3. /\ response.code = "DESYNC_LAG_PROTECTION" => response = Refused
      /\ response.ledger = "missed" => call[c].commitment.written = "upper"
  BY <1>1, <1>2, BodyFacts, AnswerFacts
<1>4. PICK o \in {"result", "MnemoxDesyncError", "Error"} :
        Settle(c, o) /\ (o = "MnemoxDesyncError" => response = Refused)
  BY <1>1, <1>3, BodyFacts DEF BodyArrives, Bodies, At, Error503
<1>5. o \in Outcomes
  BY DEF Outcomes
<1>6. request' = request
  BY DEF BodyArrives
<1>7. QED BY <1>1, <1>3, <1>4, <1>5, <1>6, BodyFacts, SettleInv

LEMMA BodyBreaksInv ==
  ASSUME Typed, SdkInv, NEW c \in Calls, BodyBreaks(c)
  PROVE  SdkInv'
<1>1. PICK o \in Untyped : Settle(c, o)
  BY DEF BodyBreaks, Untyped
<1>2. o \in Outcomes
  BY DEF Outcomes, Untyped
<1>3. InBody(c) /\ request' = request
  BY DEF BodyBreaks
<1>4. QED BY <1>1, <1>2, <1>3, BodyFacts, SettleInv DEF Untyped

LEMMA HeadersArriveInv ==
  ASSUME Typed, SdkInv, NEW c \in Calls, HeadersArrive(c)
  PROVE  SdkInv'
<1> DEFINE response == request[c].response
           method == call[c].method
           body == Body(method, response.status)
           received == [call[c] EXCEPT !.response = response]
           error == HeadersError(method, response.status)
<1>1. /\ call[c] \in CallSet /\ call[c].step = "fetch"
      /\ call[c].outcome = "none" /\ call[c].age <= Timeout
      /\ method = "getSiblingPath" => ValidCommitmentHex(call[c].commitment)
      /\ response \in Answers(call[c])
  BY DEF HeadersArrive, At, Typed, SdkInv, Holds, TimerInv, StepInv, OutcomeInv, RequestInv
<1>2. /\ response \in ResponseSet
      /\ response.status = 404 => Missing(response, call[c].commitment)
  BY <1>1, AnswerFacts
<1>3. /\ received \in CallSet
      /\ received.method = method /\ received.commitment = call[c].commitment
      /\ received.response = response /\ received.outcome = "none"
      /\ received.age = call[c].age
  BY <1>1, <1>2 DEF CallSet
<1>4. /\ request'[c] = NoRequest
      /\ \A d \in Calls \ {c} : call'[d] = call[d] /\ request'[d] = request[d]
  BY DEF HeadersArrive, Typed
<1>5. NoRequest.at = "none" /\ NoRequest.response = NoResponse
  BY DEF NoRequest
<1>6. CASE body = "none"
  <2>1. call'[c] = Settled(received, error)
    BY <1>6 DEF HeadersArrive, Typed
  <2>2. error \in {"MnemoxNotFoundError", "Error"} /\ error \in Outcomes
    BY DEF HeadersError, Outcomes
  <2>3. error = "MnemoxNotFoundError" => response.status = 404
    BY DEF HeadersError
  <2>4. Holds(Settled(received, error), NoRequest)
    <3> HIDE DEF received, error, response, method
    <3>1. QED BY <1>2, <1>3, <1>5, <2>2, <2>3, SettledHolds
  <2>5. QED BY <1>4, <2>1, <2>4, OneCall
<1>7. CASE body # "none"
  <2> DEFINE r == [received EXCEPT !.step = body, !.timer = Cleared(method)]
  <2>1. call'[c] = r
    BY <1>7 DEF HeadersArrive, Typed
  <2>2. body \in Bodies
    BY <1>7, BodyType
  <2>3. /\ r.step = body /\ r.timer = Cleared(method) /\ r.method = method
        /\ r.commitment = call[c].commitment /\ r.response = response
        /\ r.outcome = "none" /\ r.age = call[c].age
    BY <1>3 DEF CallSet
  <2>4. Answers(r) = Answers(call[c])
    <3> HIDE DEF r
    <3>1. QED BY <2>3 DEF Answers
  <2>5. Holds(r, NoRequest)
    <3> HIDE DEF r, body
    <3>1. TimerInv(r)
      BY <1>1, <2>2, <2>3 DEF TimerInv, Cleared, Bodies
    <3>2. StepInv(r)
      BY <1>1, <2>2, <2>3, <2>4 DEF StepInv, Bodies, body
    <3>3. OutcomeInv(r)
      BY <2>3 DEF OutcomeInv
    <3>4. RequestInv(r, NoRequest)
      BY <1>5 DEF RequestInv
    <3>5. QED BY <3>1, <3>2, <3>3, <3>4 DEF Holds
  <2>6. QED BY <1>4, <2>1, <2>5, OneCall
<1>8. QED BY <1>6, <1>7

LEMMA ClockTicksInv ==
  ASSUME Typed, SdkInv, ClockTicks
  PROVE  SdkInv'
<1> SUFFICES ASSUME NEW c \in Calls PROVE Holds(call'[c], request'[c])
  BY DEF SdkInv
<1>1. request'[c] = request[c] /\ Holds(call[c], request[c]) /\ call[c] \in CallSet
  BY DEF ClockTicks, SdkInv, Typed
<1>2. CASE call'[c] = call[c]
  BY <1>1, <1>2
<1>3. CASE call'[c] # call[c]
  <2> DEFINE r == call'[c]
  <2>1. r = [call[c] EXCEPT !.age = @ + 1] /\ InProgress(c) /\ ~Due(c)
    BY <1>3 DEF ClockTicks, Typed
  <2>2. /\ r.step = call[c].step /\ r.timer = call[c].timer
        /\ r.method = call[c].method /\ r.commitment = call[c].commitment
        /\ r.response = call[c].response /\ r.outcome = call[c].outcome
        /\ r.age = call[c].age + 1
    BY <1>1, <2>1 DEF CallSet
  <2>3. Answers(r) = Answers(call[c])
    <3> HIDE DEF r
    <3>1. QED BY <2>2 DEF Answers
  <2> HIDE DEF r
  <2>4. TimerInv(r)
    <3>1. r.timer = "armed" => call[c].age < Timeout
      BY <1>1, <2>1, <2>2, ClientAssumption DEF Due, CallSet, Ages
    <3>2. r.step \notin {"idle", "settled"}
      BY <2>1, <2>2 DEF InProgress
    <3>3. QED BY <1>1, <2>2, <3>1, <3>2, ClientAssumption
         DEF TimerInv, Holds, CallSet, Ages
  <2>5. StepInv(r) /\ OutcomeInv(r) /\ RequestInv(r, request'[c])
    BY <1>1, <2>2, <2>3 DEF Holds, StepInv, OutcomeInv, RequestInv
  <2>6. QED BY <2>4, <2>5 DEF Holds, r
<1>4. QED BY <1>2, <1>3

LEMMA SidecarInv ==
  ASSUME Typed, SdkInv, NEW c \in Calls, SidecarStep(c)
  PROVE  SdkInv'
<1>1. ASSUME NEW response \in Answers(call[c]), Answer(c, response), call' = call
      PROVE  SdkInv'
  <2>1. /\ request'[c] = [at |-> "answered", response |-> response]
        /\ \A d \in Calls \ {c} : request'[d] = request[d]
    BY <1>1 DEF Answer, Typed
  <2>2. call[c].step = "fetch" /\ Holds(call[c], request[c])
    BY <1>1 DEF Answer, At, SdkInv
  <2>3. Holds(call'[c], request'[c])
    BY <1>1, <2>1, <2>2 DEF Holds, RequestInv
  <2>4. QED BY <1>1, <2>1, <2>3, OneCall
<1>2. Status(429) \in Answers(call[c])
      /\ \A n \in ProxyErrors : Status(n) \in Answers(call[c])
  BY DEF Answers, ProxyErrors
<1>3. CASE RequestThrottled(c)
  BY <1>1, <1>2, <1>3 DEF RequestThrottled
<1>4. CASE ProxyAnswers(c)
  BY <1>1, <1>2, <1>4 DEF ProxyAnswers
<1>5. CASE RequestHandled(c)
  <2>1. call[c].step = "fetch" /\ Holds(call[c], request[c])
    BY <1>5 DEF RequestHandled, SdkInv, Holds, RequestInv
  <2>2. Responses(c) \subseteq Answers(call[c])
    <3>1. CASE call[c].method = "getSiblingPath"
      <4>1. ValidCommitmentHex(call[c].commitment)
        BY <2>1, <3>1 DEF Holds, StepInv
      <4>2. BareHex(call[c].commitment) = call[c].commitment
            /\ HandlerAccepts(call[c].commitment)
        BY <4>1 DEF BareHex, HandlerAccepts, ValidCommitmentHex
      <4>3. QED BY <3>1, <4>2 DEF Responses, ProofResponses, Answers, Calling
    <3>2. CASE call[c].method # "getSiblingPath"
      BY <3>2 DEF Responses, Answers, Calling
    <3>3. QED BY <3>1, <3>2
  <2>3. QED BY <1>1, <1>5, <2>2 DEF RequestHandled
<1>6. CASE RequestAdmitted(c)
  <2>1. Holds(call[c], request[c]) /\ request[c].at = "sent"
    BY <1>6 DEF RequestAdmitted, SdkInv
  <2>2. /\ call' = call
        /\ \A d \in Calls \ {c} : request'[d] = request[d]
        /\ \/ At(c, "fetch") /\ request'[c] = [request[c] EXCEPT !.at = "handled"]
           \/ request'[c] = NoRequest
    BY <1>6 DEF RequestAdmitted, Typed
  <2>3. RequestInv(call[c], request'[c])
    <3>1. request[c].response = NoResponse
      BY <2>1 DEF Holds, RequestInv
    <3>2. request[c] \in RequestSet
      BY DEF Typed
    <3>3. QED BY <2>2, <3>1, <3>2 DEF At, RequestInv, NoRequest, RequestSet
  <2>4. Holds(call'[c], request'[c])
    BY <2>1, <2>2, <2>3 DEF Holds
  <2>5. QED BY <2>2, <2>4, OneCall
<1>7. CASE RequestLost(c)
  <2>1. call' = call /\ request'[c] = NoRequest
        /\ \A d \in Calls \ {c} : request'[d] = request[d]
    BY <1>7 DEF RequestLost, Typed
  <2>2. Holds(call'[c], request'[c])
    BY <2>1 DEF SdkInv, Holds, RequestInv, NoRequest
  <2>3. QED BY <2>1, <2>2, OneCall
<1>8. QED BY <1>3, <1>4, <1>5, <1>6, <1>7 DEF SidecarStep

LEMMA SdkInvNext == Typed /\ SdkInv /\ [SdkNext]_sdkVars => SdkInv'
<1> SUFFICES ASSUME Typed, SdkInv, [SdkNext]_sdkVars PROVE SdkInv'
  OBVIOUS
<1>1. ASSUME NEW c \in Calls, ClientStep(c) PROVE SdkInv'
  BY <1>1, InvokeInv, TimerFiresInv, FetchFailsInv, HeadersArriveInv, BodyArrivesInv,
     BodyBreaksInv DEF ClientStep
<1>2. ASSUME NEW c \in Calls, SidecarStep(c) PROVE SdkInv'
  BY <1>2, SidecarInv
<1>3. CASE ClockTicks
  BY <1>3, ClockTicksInv
<1>4. CASE TickerTicks \/ UNCHANGED sdkVars
  BY <1>4 DEF TickerTicks, sdkVars, SdkInv
<1>5. QED BY <1>1, <1>2, <1>3, <1>4 DEF SdkNext

LEMMA SdkInvariant == SdkSpec => [](Typed /\ SdkInv)
  BY TypedInit, TypedNext, SdkInvInit, SdkInvNext, PTL DEF SdkSpec

\* A typed error is true of what the sidecar answered, for every number of
\* concurrent calls.
THEOREM ErrorsTrue == SdkSpec => []TypedErrorsAreTrue
<1>1. SdkInv => TypedErrorsAreTrue
  BY DEF SdkInv, Holds, OutcomeInv, Missing, TypedErrorsAreTrue
<1>2. QED BY <1>1, SdkInvariant, PTL

\* No request that passed the client's validator is malformed for the
\* sidecar's.
THEOREM ValidatorsAgree == SdkSpec => []NeverBadRequest
<1>1. Typed /\ SdkInv => NeverBadRequest
  <2> SUFFICES ASSUME Typed, SdkInv, NEW c \in Calls
               PROVE  request[c].response.status # 400
    BY DEF NeverBadRequest
  <2>1. CASE request[c].at # "answered"
    BY <2>1 DEF SdkInv, Holds, RequestInv, NoResponse, Response
  <2>2. CASE request[c].at = "answered"
    <3>1. /\ call[c] \in CallSet /\ request[c].response \in Answers(call[c])
          /\ call[c].method = "getSiblingPath" => ValidCommitmentHex(call[c].commitment)
      BY <2>2 DEF Typed, SdkInv, Holds, RequestInv, StepInv
    <3>2. QED BY <3>1, AnswerFacts
  <2>3. QED BY <2>1, <2>2
<1>2. QED BY <1>1, SdkInvariant, PTL

\* For every timeout only the body of a proof or of a root outlives it.
THEOREM OverdueInBody == SdkSpec => []OverdueOnlyInBody
<1>1. Typed /\ SdkInv => OverdueOnlyInBody
  <2> SUFFICES ASSUME Typed, SdkInv, NEW c \in Calls, call[c].age > Timeout
               PROVE  InBody(c) /\ ~Calling(c, "getHealth")
    BY DEF OverdueOnlyInBody
  <2>1. TimerInv(call[c]) /\ call[c].age \in Int /\ call[c].timer \in {"armed", "off"}
        /\ call[c].step \in Bodies \cup {"idle", "fetch", "settled"}
    BY DEF SdkInv, Holds, Typed, CallSet, Ages, Bodies
  <2>2. call[c].timer = "off" /\ call[c].age # 0
    BY <2>1, ClientAssumption DEF TimerInv
  <2>3. call[c].step \in Bodies
    BY <2>1, <2>2 DEF TimerInv
  <2>4. QED BY <2>1, <2>2, <2>3 DEF TimerInv, InBody, InProgress, At, Calling, Bodies
<1>2. QED BY <1>1, SdkInvariant, PTL

\* A leaf whose event is missed was asked for in upper case.
THEOREM MissesAreUpperCase == SdkSpec => []LedgerMissingOnlyInUpperCase
<1>1. SdkInv => LedgerMissingOnlyInUpperCase
  <2> SUFFICES ASSUME SdkInv, NEW c \in Calls, call[c].outcome = "result",
                      Calling(c, "getSiblingPath"), call[c].response.ledger = "missed"
               PROVE  call[c].commitment.written = "upper"
    BY DEF LedgerMissingOnlyInUpperCase
  <2>1. OutcomeInv(call[c])
    BY DEF SdkInv, Holds
  <2>2. QED BY <2>1 DEF OutcomeInv, Calling
<1>2. QED BY <1>1, SdkInvariant, PTL

\* For every width of the field the fields of a witness have it.
THEOREM WitnessWidth == SdkSpec => []WitnessIsFixedWidth
<1>1. Typed => WitnessIsFixedWidth
  <2> SUFFICES ASSUME Typed, NEW c \in Calls
               PROVE  ToNoirFormat(call[c].response) = [root |-> HexWidth, siblings |-> HexWidth]
    BY DEF WitnessIsFixedWidth
  <2>1. call[c].response.digits \in 0..HexWidth
    BY DEF Typed, CallSet, ResponseSet
  <2>2. PadHex64(call[c].response.digits) = HexWidth /\ PadHex64(HexWidth) = HexWidth
    BY <2>1, ClientAssumption DEF PadHex64
  <2>3. QED BY <2>2 DEF ToNoirFormat
<1>2. QED BY <1>1, SdkInvariant, PTL
=============================================================================
