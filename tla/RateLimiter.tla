---------------------------- MODULE RateLimiter ----------------------------
(***************************************************************************)
(* The token bucket in front of every handler (rateLimit,                  *)
(* internal/server/server.go): a channel that holds up to Burst tokens, a  *)
(* ticker goroutine that adds one and discards it when the channel is      *)
(* full, and requests that take one without waiting or are answered 429.   *)
(*                                                                         *)
(* What it promises is about every stretch of time, not only the one that  *)
(* starts with the server: a measured stretch may begin at any tick.       *)
(***************************************************************************)
EXTENDS Integers

CONSTANTS
  Burst,       \* capacity of the channel: 60
  MaxTicks     \* bound: the length of a measured stretch, in ticks

ASSUME LimiterAssumption == Burst \in Nat \ {0} /\ MaxTicks \in Nat

VARIABLES
  tokens,      \* len(tokens)
  stretch      \* history: ticks and admitted requests since some tick

limiterVars == <<tokens, stretch>>

NewStretch == [ticks |-> 0, admitted |-> 0]

LimiterInit == tokens = Burst /\ stretch = NewStretch

\* Mutant: a full bucket does not discard.
RefillUnbounded(n) == n + 1
Refill(n) == IF n < Burst THEN n + 1 ELSE n

\* One tick of the ticker goroutine.
Tick ==
  /\ tokens' = Refill(tokens)
  /\ \/ /\ stretch.ticks < MaxTicks
        /\ stretch' = [stretch EXCEPT !.ticks = @ + 1]
     \/ stretch' = NewStretch

\* case <-tokens
Admit ==
  /\ tokens > 0
  /\ tokens' = tokens - 1
  /\ stretch' = [stretch EXCEPT !.admitted = @ + 1]

\* default: StatusTooManyRequests
Throttle == tokens = 0 /\ UNCHANGED limiterVars

LimiterNext == Tick \/ Admit \/ Throttle
LimiterSpec == LimiterInit /\ [][LimiterNext]_limiterVars
-----------------------------------------------------------------------------
LimiterTypeOK ==
  /\ tokens \in 0..Burst
  /\ stretch \in [ticks : 0..MaxTicks, admitted : Nat]

\* "60 burst / 30 sustained rps" (Handler): in any stretch of k ticks, at
\* most Burst + k requests get through, however long the server was idle
\* before and however the requests are spread over it.
BurstThenRate == stretch.admitted <= Burst + stretch.ticks
=============================================================================
