--------------------------- MODULE CircuitBreaker ---------------------------
(***************************************************************************)
(* The circuit breaker of BotState: a streak counter that exits bump and   *)
(* clear without a lock, a trip time behind a mutex, and a check that      *)
(* reads the counter before it waits for the mutex.  Two tasks run the     *)
(* check: the execution consumer on every signal and the heartbeat of the  *)
(* process once a minute.                                                  *)
(*                                                                         *)
(* Time is the age of the trip mark; it stops counting at Cooldown, past   *)
(* which the check makes no difference.                                    *)
(*                                                                         *)
(* Definitions have names of their own, so that WhaleExecution, which asks *)
(* the breaker, can be extended next to this module.                       *)
(***************************************************************************)
EXTENDS Naturals

CONSTANTS
  Callers,              \* tasks that call is_circuit_breaker_active
  Threshold,            \* CIRCUIT_BREAKER_THRESHOLD
  Cooldown,             \* CIRCUIT_BREAKER_COOLDOWN, in clock ticks
  Results,              \* results of closed trades: "win", "loss"
  MaxLosses,            \* bound: the counter stays below it
  NotTripped            \* circuit_breaker_tripped_at is None

ASSUME TripAssumption == Threshold \in Nat \ {0}
ASSUME CooldownAssumption  == Cooldown \in Nat
ASSUME LossesAssumption    == MaxLosses \in Nat
ASSUME NotTrippedAssumption == NotTripped \notin Nat

VARIABLES
  streak,               \* consecutive_losses
  age,                  \* elapsed() of circuit_breaker_tripped_at
  seen,                 \* per caller: the count it loaded
  check                 \* per caller: "out", or "waiting" for the mutex

breakerVars == <<streak, age, seen, check>>

BreakerTypeOK ==
  /\ streak \in 0..MaxLosses
  /\ age \in (0..Cooldown) \cup {NotTripped}
  /\ seen \in [Callers -> 0..MaxLosses]
  /\ check \in [Callers -> {"out", "waiting"}]

BreakerInit ==
  /\ streak = 0
  /\ age = NotTripped
  /\ seen = [c \in Callers |-> 0]
  /\ check = [c \in Callers |-> "out"]

-----------------------------------------------------------------------------
(* Faulty variant of CloseTrade: a win takes one loss back, and the usize   *)
(* counter may pass below zero.                                            *)
CloseTradeSubtracting(result) ==
  /\ streak' = IF result = "win" THEN streak - 1 ELSE streak + 1
  /\ streak' <= MaxLosses
  /\ UNCHANGED <<age, seen, check>>

(* A trade closes: store(0) after a win, fetch_add(1) after a loss.        *)
CloseTrade(result) ==
  /\ streak' = IF result = "win" THEN 0 ELSE streak + 1
  /\ streak' <= MaxLosses
  /\ UNCHANGED <<age, seen, check>>

(* The check, up to lock().await.                                          *)
LoadLosses(c) ==
  /\ check[c] = "out"
  /\ seen' = [seen EXCEPT ![c] = streak]
  /\ check' = [check EXCEPT ![c] = "waiting"]
  /\ UNCHANGED <<streak, age>>

(* The check under the mutex, deciding by the count loaded before.         *)
Leave(c) == check' = [check EXCEPT ![c] = "out"] /\ seen' = [seen EXCEPT ![c] = 0]

BelowThreshold(c) ==
  /\ check[c] = "waiting"
  /\ seen[c] < Threshold
  /\ age' = NotTripped
  /\ Leave(c)
  /\ UNCHANGED streak

Trip(c) ==
  /\ check[c] = "waiting"
  /\ seen[c] >= Threshold
  /\ age = NotTripped
  /\ age' = 0
  /\ Leave(c)
  /\ UNCHANGED streak

StillCooling(c) ==
  /\ check[c] = "waiting"
  /\ seen[c] >= Threshold
  /\ age # NotTripped
  /\ age < Cooldown
  /\ Leave(c)
  /\ UNCHANGED <<streak, age>>

(* Faulty variant of AutoReset: the counter keeps its value.               *)
AutoResetMarkOnly(c) ==
  /\ check[c] = "waiting"
  /\ seen[c] >= Threshold
  /\ age # NotTripped
  /\ age >= Cooldown
  /\ age' = NotTripped
  /\ Leave(c)
  /\ UNCHANGED streak

AutoReset(c) ==
  /\ check[c] = "waiting"
  /\ seen[c] >= Threshold
  /\ age # NotTripped
  /\ age >= Cooldown
  /\ age' = NotTripped
  /\ streak' = 0
  /\ Leave(c)

Tick ==
  /\ age # NotTripped
  /\ age < Cooldown
  /\ age' = age + 1
  /\ UNCHANGED <<streak, seen, check>>

-----------------------------------------------------------------------------
Check(c) == BelowThreshold(c) \/ Trip(c) \/ StillCooling(c) \/ AutoReset(c)

BreakerNext ==
  \/ \E r \in Results : CloseTrade(r)
  \/ \E c \in Callers : LoadLosses(c) \/ Check(c)
  \/ Tick

BreakerSpec == BreakerInit /\ [][BreakerNext]_breakerVars

(* Time passes; a caller inside the check gets the mutex, which is held    *)
(* only for the few lines of the check.  The heartbeat enters the check    *)
(* every minute for ever; the consumer only when a signal arrives.         *)
CONSTANT Heartbeat      \* the caller that checks periodically

ASSUME HeartbeatAssumption == Heartbeat \in Callers

FairBreakerSpec ==
  /\ BreakerSpec
  /\ WF_breakerVars(Tick)
  /\ WF_breakerVars(LoadLosses(Heartbeat))
  /\ \A c \in Callers : WF_breakerVars(Check(c))

-----------------------------------------------------------------------------
(* Once tripped, the breaker stays tripped for the whole cooldown: "How    *)
(* long the circuit breaker blocks new trades after tripping."             *)
CooldownHonoured ==
  [][age # NotTripped /\ age' = NotTripped => age >= Cooldown]_breakerVars

(* A streak at the threshold never pauses trading for good: the counter is *)
(* cleared again without a restart, although every check may run on a      *)
(* stale count and trades may still close meanwhile.                       *)
BreakerReopens == streak >= Threshold ~> streak < Threshold
=============================================================================
