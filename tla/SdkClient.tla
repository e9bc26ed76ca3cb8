----------------------------- MODULE SdkClient -----------------------------
(***************************************************************************)
(* MnemoxClient (ui/sdk/src/index.ts): concurrent calls of its three       *)
(* methods to a sidecar behind its rate limiter.                           *)
(*                                                                         *)
(* A call waits first for the headers of the response, in `fetch`, and     *)
(* then for its body.  getSiblingPath and getTreeRoot arm a timer that     *)
(* aborts the fetch and is cleared when fetch returns; getHealth passes    *)
(* AbortSignal.timeout, which covers the body too.  The network may lose   *)
(* a request, a response or the rest of a body, and may cut a connection;  *)
(* only the client's clock and timers are sure to go on.                   *)
(*                                                                         *)
(* A commitment is the value it denotes and the way it is written, a hex   *)
(* string the number of its digits.                                        *)
(***************************************************************************)
EXTENDS RateLimiter

CONSTANTS
  Calls,       \* calls that may be in progress at once
  Timeout,     \* MnemoxConfig.timeout, in ticks of the client's clock
  HexWidth     \* digits of a 256-bit number: 64

ASSUME ClientAssumption == Timeout \in Nat \ {0} /\ HexWidth \in Nat \ {0}

VARIABLES
  call,        \* the calls, as the client sees them
  request      \* what became of the request of each call

sdkVars == <<limiterVars, call, request>>

Methods == {"getSiblingPath", "getTreeRoot", "getHealth"}

\* "bare" has no 0x prefix, "short" fewer than 64 digits, "tail" something
\* other than a digit after the 64th.
Writings == {"lower", "upper", "bare", "short", "tail"}
Commitments == [indexed : BOOLEAN, written : Writings]
NoCommitment == [indexed |-> FALSE, written |-> "lower"]

\* assertValidCommitmentHex.  Mutants: the expression is not anchored at the
\* end, the prefix is optional.
Unanchored(c) == c.written \in {"lower", "upper", "tail"}
PrefixOptional(c) == c.written \in {"lower", "upper", "bare"}
ValidCommitmentHex(c) == c.written \in {"lower", "upper"}

\* commitmentHash.slice(2): the prefix, or two digits where there is none.
BareHex(c) ==
  IF c.written = "bare" THEN [indexed |-> FALSE, written |-> "short"] ELSE c

\* padHex64.  Mutant: the prefix is normalised, the width is not.
PrefixOnly(digits) == digits
PadHex64(digits) == IF digits < HexWidth THEN HexWidth ELSE digits

(***************************************************************************)
(* Responses, with what their payload says went wrong.  A 200 to a proof   *)
(* request has an event_ledger, which is 0 where the store has no such     *)
(* event or could not be read, and as many digits of the root as %x        *)
(* prints.                                                                 *)
(***************************************************************************)
Response(status, code, ledger, digits) ==
  [status |-> status, code |-> code, ledger |-> ledger, digits |-> digits]

NoResponse == Response(0, "none", "none", 0)
Status(n) == Response(n, "none", "none", 0)
Refused == Response(503, "DESYNC_LAG_PROTECTION", "none", 0)
NotInTree == Response(404, "NOT_IN_TREE", "none", 0)
Proof(ledger, digits) == Response(200, "none", ledger, digits)

NoRequest == [at |-> "none", response |-> NoResponse]

\* toNoirFormat of buildProofResponse: the widths of a witness.
ToNoirFormat(r) == [root |-> PadHex64(r.digits), siblings |-> PadHex64(HexWidth)]

NewCall == [step |-> "idle", method |-> "getHealth", timer |-> "off",
            age |-> 0, commitment |-> NoCommitment, response |-> NoResponse,
            outcome |-> "none"]

At(c, step) == call[c].step = step
InProgress(c) == call[c].step \notin {"idle", "settled"}
InBody(c) == InProgress(c) /\ ~At(c, "fetch")
Calling(c, method) == call[c].method = method

\* The promise of a call settles.
Settled(record, outcome) ==
  [record EXCEPT !.step = "settled", !.timer = "off", !.age = 0,
                 !.outcome = outcome]
Settle(c, outcome) == call' = [call EXCEPT ![c] = Settled(@, outcome)]
-----------------------------------------------------------------------------
(***************************************************************************)
(* The client.                                                             *)
(***************************************************************************)
\* new AbortController and setTimeout, or AbortSignal.timeout.  Mutant: one
\* method arms no timer.
ArmedExceptRoot(method) == IF method = "getTreeRoot" THEN "off" ELSE "armed"
Armed(method) == "armed"

Fetch(c, method, commitment) ==
  /\ call' = [call EXCEPT ![c] =
                [NewCall EXCEPT !.step = "fetch", !.method = method,
                                !.timer = Armed(method),
                                !.commitment = commitment]]
  /\ request' = [request EXCEPT ![c] = [at |-> "sent", response |-> NoResponse]]
  /\ UNCHANGED limiterVars

Free(c) == ~InProgress(c) /\ request[c].at = "none"

GetSiblingPath(c, commitment) ==
  /\ Free(c)
  /\ ValidCommitmentHex(commitment)
  /\ Fetch(c, "getSiblingPath", commitment)

\* A TypeError, before any network I/O.
InvalidCommitment(c, commitment) ==
  /\ Free(c)
  /\ ~ValidCommitmentHex(commitment)
  /\ call' = [call EXCEPT ![c] =
                Settled([NewCall EXCEPT !.method = "getSiblingPath"], "TypeError")]
  /\ UNCHANGED <<limiterVars, request>>

GetTreeRoot(c) == Free(c) /\ Fetch(c, "getTreeRoot", NoCommitment)
GetHealth(c) == Free(c) /\ Fetch(c, "getHealth", NoCommitment)

\* An error that getHealth does not catch is the platform's own.
Caught(c, error) == IF Calling(c, "getHealth") THEN "rejection" ELSE error

\* A caller that leaves takes the response with it, but a request that has
\* not reached the limiter may still cost a token.
GiveUp(c) ==
  request' = [request EXCEPT ![c] = IF @.at = "sent" THEN @ ELSE NoRequest]

\* The timer fires and aborts what its signal still covers.
Due(c) == call[c].timer = "armed" /\ call[c].age >= Timeout
TimerFires(c) ==
  /\ Due(c)
  /\ Settle(c, Caught(c, "MnemoxTimeoutError"))
  /\ GiveUp(c)
  /\ UNCHANGED limiterVars

\* fetch rejects for a reason of the network.
FetchFails(c) ==
  /\ At(c, "fetch")
  /\ Settle(c, Caught(c, "Error"))
  /\ GiveUp(c)
  /\ UNCHANGED limiterVars

\* The timer once fetch has returned: clearTimeout, but for getHealth, which
\* has none to clear.  Mutant: getHealth clears its timer as well.
ClearedAlways(method) == "off"
Cleared(method) == IF method = "getHealth" THEN "armed" ELSE "off"

\* How the method reads the body of a response, if it does.
Body(method, status) ==
  CASE status = 200 -> "json"
    [] method = "getHealth" -> "none"
    [] method = "getSiblingPath" /\ status = 503 -> "json503"
    [] method = "getSiblingPath" /\ status \in {404, 429} -> "none"
    [] OTHER -> "text"

\* The error for a response whose body is not read.
HeadersError(method, status) ==
  IF method = "getSiblingPath" /\ status = 404 THEN "MnemoxNotFoundError"
  ELSE "Error"

HeadersArrive(c) ==
  /\ At(c, "fetch")
  /\ request[c].at = "answered"
  /\ LET r == request[c].response
         method == call[c].method
         received == [call[c] EXCEPT !.response = r]
     IN call' = [call EXCEPT ![c] =
          IF Body(method, r.status) = "none"
          THEN Settled(received, HeadersError(method, r.status))
          ELSE [received EXCEPT !.step = Body(method, r.status),
                                !.timer = Cleared(method)]]
  /\ request' = [request EXCEPT ![c] = NoRequest]
  /\ UNCHANGED limiterVars

\* The error for a 503 whose body was read.
Error503(code) ==
  IF code = "DESYNC_LAG_PROTECTION" THEN "MnemoxDesyncError" ELSE "Error"

\* The whole body arrives.
BodyArrives(c) ==
  /\ InBody(c)
  /\ Settle(c, CASE At(c, "json") -> "result"
                 [] At(c, "json503") -> Error503(call[c].response.code)
                 [] At(c, "text") -> "Error")
  /\ UNCHANGED <<limiterVars, request>>

\* The body is cut off or no JSON.  Only the error branches catch it.
BodyBreaks(c) ==
  /\ InBody(c)
  /\ Settle(c, IF At(c, "json") THEN "rejection" ELSE "Error")
  /\ UNCHANGED <<limiterVars, request>>

\* The client's clock: a timer that is due fires before time goes on.
ClockTicks ==
  /\ \A c \in Calls : ~Due(c)
  /\ call' = [c \in Calls |->
               IF InProgress(c) /\ call[c].age <= Timeout
               THEN [call[c] EXCEPT !.age = @ + 1] ELSE call[c]]
  /\ UNCHANGED <<limiterVars, request>>
-----------------------------------------------------------------------------
(***************************************************************************)
(* The sidecar, and what may stand before it.                              *)
(***************************************************************************)
Answer(c, response) ==
  /\ At(c, "fetch")
  /\ request' = [request EXCEPT ![c] = [at |-> "answered", response |-> response]]

RequestThrottled(c) ==
  /\ request[c].at = "sent"
  /\ Throttle
  /\ Answer(c, Status(429))
  /\ UNCHANGED call

RequestAdmitted(c) ==
  /\ request[c].at = "sent"
  /\ Admit
  /\ request' = [request EXCEPT ![c] =
                   IF At(c, "fetch") THEN [@ EXCEPT !.at = "handled"] ELSE NoRequest]
  /\ UNCHANGED call

\* A proxy of a federated deployment answers in the sidecar's place: it knows
\* no such path, has a limit of its own, or does not reach the sidecar.
ProxyErrors == {404, 429, 502, 503}

ProxyAnswers(c) ==
  /\ request[c].at = "sent"
  /\ \E status \in ProxyErrors : Answer(c, Status(status))
  /\ UNCHANGED <<limiterVars, call>>

\* What handleProof requires of the commitment in the path, 0x removed: hex
\* digits only, as many as two commitments have at most.
HandlerAccepts(commitment) == commitment.written # "tail"

\* FindLeaf lower-cases what it looks up, GetEventByValue does not, and the
\* store holds lower case.  Mutant: the store holds upper case.
HeldInUpperCase(commitment) == commitment.written = "upper"
InStore(commitment) == commitment.written = "lower"

\* GetEventByValue, an error of which is not looked at.
Lookup(commitment) ==
  {"unread", IF InStore(commitment) THEN "found" ELSE "missed"}

\* handleProof: validation, assertSyncState, FindLeaf, GetEventByValue.
ProofResponses(commitment) ==
  IF ~HandlerAccepts(commitment) THEN {Status(400)}
  ELSE {Refused} \cup
       IF commitment.indexed
       THEN {Proof(ledger, n) :
               ledger \in Lookup(commitment), n \in {HexWidth - 1, HexWidth}}
       ELSE {NotInTree}

\* handleRoot and handleHealth answer 200 whatever their reads return.
Responses(c) ==
  IF Calling(c, "getSiblingPath") THEN ProofResponses(BareHex(call[c].commitment))
  ELSE {Status(200)}

RequestHandled(c) ==
  /\ request[c].at = "handled"
  /\ \E response \in Responses(c) : Answer(c, response)
  /\ UNCHANGED <<limiterVars, call>>

\* The request never arrives, or the limiter never sees it.
RequestLost(c) ==
  /\ request[c].at = "sent"
  /\ ~At(c, "fetch")
  /\ request' = [request EXCEPT ![c] = NoRequest]
  /\ UNCHANGED <<limiterVars, call>>

TickerTicks == Tick /\ UNCHANGED <<call, request>>
-----------------------------------------------------------------------------
SdkInit ==
  /\ LimiterInit
  /\ call = [c \in Calls |-> NewCall]
  /\ request = [c \in Calls |-> NoRequest]

Invoke(c) ==
  \/ \E commitment \in Commitments :
        GetSiblingPath(c, commitment) \/ InvalidCommitment(c, commitment)
  \/ GetTreeRoot(c)
  \/ GetHealth(c)

ClientStep(c) ==
  \/ Invoke(c) \/ TimerFires(c) \/ FetchFails(c)
  \/ HeadersArrive(c) \/ BodyArrives(c) \/ BodyBreaks(c)

SidecarStep(c) ==
  \/ RequestThrottled(c) \/ RequestAdmitted(c) \/ ProxyAnswers(c)
  \/ RequestHandled(c) \/ RequestLost(c)

SdkNext ==
  \/ \E c \in Calls : ClientStep(c) \/ SidecarStep(c)
  \/ ClockTicks \/ TickerTicks

SdkSpec == SdkInit /\ [][SdkNext]_sdkVars

\* The event loop of the client goes on: its clock advances and due timers
\* run.  Nothing is assumed of the network or of the sidecar.
SdkFairSpec ==
  /\ SdkSpec
  /\ WF_sdkVars(ClockTicks)
  /\ \A c \in Calls : WF_sdkVars(TimerFires(c))
-----------------------------------------------------------------------------
Outcomes == {"none", "result", "rejection", "TypeError", "Error",
             "MnemoxDesyncError", "MnemoxNotFoundError", "MnemoxTimeoutError"}
ResponseSet == [status : {0, 200, 400, 404, 429, 502, 503},
                code : {"none", "DESYNC_LAG_PROTECTION", "NOT_IN_TREE"},
                ledger : {"none", "found", "missed", "unread"},
                digits : 0..HexWidth]

\* The types of calls and requests.
SdkTypeOK ==
  /\ LimiterTypeOK
  /\ call \in [Calls ->
       [step : {"idle", "fetch", "json503", "json", "text", "settled"},
        method : Methods, timer : {"armed", "off"}, age : 0..(Timeout + 1),
        commitment : Commitments, response : ResponseSet, outcome : Outcomes]]
  /\ request \in [Calls -> [at : {"none", "sent", "handled", "answered"},
                            response : ResponseSet]]

\* MnemoxDesyncError, MnemoxNotFoundError, MnemoxTimeoutError: a caller that
\* acts on the type of an error acts on what happened.  Only the refusal of
\* the sync guard reads as a desync (a proxy's 503 does not), and only a
\* response that had not begun as a timeout.  Every 404 reads as not found;
\* where it is the answer of handleProof, the commitment is missing, and was
\* looked up as the caller meant it.
TypedErrorsAreTrue ==
  \A c \in Calls :
    /\ call[c].outcome = "MnemoxDesyncError" => call[c].response = Refused
    /\ call[c].outcome = "MnemoxNotFoundError" =>
         \/ call[c].response = NotInTree /\ ~call[c].commitment.indexed
         \/ call[c].response = Status(404)
    /\ call[c].outcome = "MnemoxTimeoutError" => call[c].response = NoResponse

\* assertValidCommitmentHex lets nothing through that handleProof rejects:
\* the two validators, in two languages, are never at odds for a caller.
NeverBadRequest ==
  \A c \in Calls : request[c].response.status # 400

\* "Per-request abort timeout" (MnemoxConfig): a call outlives it only as a
\* proof or a root whose headers were in time and whose body is not all
\* there, since clearTimeout runs between the two.
OverdueOnlyInBody ==
  \A c \in Calls :
    call[c].age > Timeout => InBody(c) /\ ~Calling(c, "getHealth")

\* event_ledger: the store misses the event of a leaf it is asked for only if
\* the caller wrote the commitment in upper case, which both validators
\* accept.
LedgerMissingOnlyInUpperCase ==
  \A c \in Calls :
    call[c].outcome = "result" /\ Calling(c, "getSiblingPath")
      /\ call[c].response.ledger = "missed" => call[c].commitment.written = "upper"

\* toNoirFormat: every field of a witness has 64 digits, also when the root
\* begins with zeros, which the sidecar's %x leaves out.
WitnessIsFixedWidth ==
  \A c \in Calls :
    call[c].outcome = "result" /\ Calling(c, "getSiblingPath") =>
      ToNoirFormat(call[c].response) = [root |-> HexWidth, siblings |-> HexWidth]

\* Every call settles, whatever the network and the sidecar do, but for one
\* that waits for the body of a proof or of a root.
EveryCallSettles ==
  \A c \in Calls :
    InProgress(c) ~>
      At(c, "settled") \/ (InBody(c) /\ ~Calling(c, "getHealth"))
=============================================================================
