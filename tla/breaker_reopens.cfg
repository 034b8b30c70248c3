SPECIFICATION FairBreakerSpec
CONSTANTS
  NotTripped = NotTripped
  Callers = {heartbeat, consumer}
  Heartbeat = heartbeat
  Results = {"win", "loss"}
  Threshold = 3
  Cooldown = 3
  MaxLosses = 5
INVARIANT BreakerTypeOK
PROPERTY BreakerReopens
