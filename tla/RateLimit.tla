------------------------------ MODULE RateLimit ------------------------------
(***************************************************************************)
(* checkRateLimit (packages/shared-redis/src/rate-limit.ts) for one key:   *)
(* every REST request passes it, and every WebSocket message if            *)
(* WS_RATE_LIMIT_MODE is redis.  A counter in Redis counts the checks of a *)
(* window; the check that makes it 1 gives it the time to live which ends  *)
(* the window.  The two commands are two calls, and whatever goes wrong    *)
(* with either lets the request pass.  Keys share nothing.                 *)
(***************************************************************************)
EXTENDS Naturals, FiniteSets

CONSTANTS
  Call,        \* checks of the key, by any process
  Limit,
  MaxFaults,   \* bound of commands that fail
  MaxCrashes   \* bound of calls that die with their process

RateLimitAssumption == Limit \in Nat /\ MaxFaults \in Nat /\ MaxCrashes \in Nat

VARIABLES
  count,    \* the counter, 0 while there is no key
  expires,  \* whether the key has a time to live
  stage,    \* what each call awaits, or its answer
  faults, crashes,
  window,   \* history: how many windows have ended
  counted   \* history: the window of each call's incr, if it was answered

rateVars == <<count, expires, stage, faults, crashes, window, counted>>

RateInit ==
  /\ count = 0 /\ expires = FALSE
  /\ stage = [c \in Call |-> "idle"]
  /\ faults = 0 /\ crashes = 0
  /\ window = 0
  /\ counted = [c \in Call |-> {}]

Become(c, s) == stage' = [stage EXCEPT ![c] = s]
Fault == faults < MaxFaults /\ faults' = faults + 1

(* A bug: the number is taken to be the counter before the check.            *)
BrokenFirst(n) == n = 0

(* The check that opens the window.                                          *)
First(n) == n = 1

(* A bug: the count is taken to be that of the checks before.                *)
BrokenAllowed(n) == n <= Limit + 1

Allowed(n) == n <= Limit
Verdict(n) == IF Allowed(n) THEN "passed" ELSE "refused"

-----------------------------------------------------------------------------
Incr(c) ==
  /\ stage[c] = "idle"
  /\ count' = count + 1
  /\ counted' = [counted EXCEPT ![c] = {window}]
  /\ Become(c, IF First(count') THEN "expire" ELSE Verdict(count'))
  /\ UNCHANGED <<expires, faults, crashes, window>>

(* incr fails, carried out or not: the request passes.                       *)
IncrFails(c) ==
  /\ stage[c] = "idle"
  /\ Fault
  /\ count' \in {count, count + 1}
  /\ Become(c, "unchecked")
  /\ UNCHANGED <<expires, crashes, window, counted>>

(* The key cannot have gone: nobody else gives it a time to live.            *)
Expire(c) ==
  /\ stage[c] = "expire"
  /\ expires' = TRUE
  /\ Become(c, Verdict(1))
  /\ UNCHANGED <<count, faults, crashes, window, counted>>

(* expire fails, carried out or not: the request passes.                     *)
ExpireFails(c) ==
  /\ stage[c] = "expire"
  /\ Fault
  /\ expires' \in BOOLEAN
  /\ Become(c, "unchecked")
  /\ UNCHANGED <<count, crashes, window, counted>>

Dies(c) ==
  /\ stage[c] \in {"idle", "expire"}
  /\ crashes < MaxCrashes
  /\ crashes' = crashes + 1
  /\ Become(c, "dead")
  /\ UNCHANGED <<count, expires, faults, window, counted>>

WindowEnds ==
  /\ expires
  /\ count' = 0 /\ expires' = FALSE
  /\ window' = window + 1
  /\ UNCHANGED <<stage, faults, crashes, counted>>

CheckRateLimit(c) == Incr(c) \/ IncrFails(c) \/ Expire(c) \/ ExpireFails(c)

RateNext == WindowEnds \/ \E c \in Call : CheckRateLimit(c) \/ Dies(c)

(* A call goes on when its command is answered; Redis ends windows.          *)
RateFairness ==
  /\ \A c \in Call : WF_rateVars(Expire(c) \/ ExpireFails(c))
  /\ WF_rateVars(WindowEnds)

RateSpec == RateInit /\ [][RateNext]_rateVars /\ RateFairness

-----------------------------------------------------------------------------
RateTypeOK ==
  /\ count \in Nat /\ expires \in BOOLEAN /\ window \in Nat
  /\ stage \in [Call -> {"idle", "expire", "passed", "refused", "unchecked", "dead"}]
  /\ counted \in [Call -> SUBSET Nat]
  /\ faults \in 0..MaxFaults /\ crashes \in 0..MaxCrashes

(* However calls of several processes interleave, a window lets no more than *)
(* the limit pass by their count; and nobody is refused in a window that has *)
(* not seen more than Limit calls, those that failed included                *)
(* (rate-limit.ts:23-26).                                                    *)
RedisLimitHolds ==
  \A w \in 0..window :
    LET of(s) == {c \in Call : stage[c] = s /\ counted[c] = {w}}
    IN  /\ Cardinality(of("passed")) <= Limit
        /\ of("refused") # {} =>
             faults + Cardinality({c \in Call : counted[c] = {w}}) > Limit

(* The key has no time to live, and whoever could have been to set it failed *)
(* or died: the incr that opened this window, or the expire after it.  An    *)
(* incr that failed has no window it was counted in.                         *)
Orphaned ==
  /\ ~expires
  /\ \A c \in Call : stage[c] # "expire"
  /\ \E c \in Call : \/ stage[c] = "unchecked" /\ counted[c] \in {{}, {window}}
                     \/ stage[c] = "dead" /\ counted[c] = {window}

(* Nobody is refused for ever: the window of a counter over the limit ends,  *)
(* in whatever order checks come in between, and however many before it were *)
(* left without an end, unless the very call that opened it failed or died   *)
(* before the time to live was set (rate-limit.ts:24-25).  Nothing ends the  *)
(* window then.                                                              *)
NotRefusedForEver == count > Limit ~> (count = 0 \/ Orphaned)
=============================================================================
