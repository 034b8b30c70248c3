------------------------------- MODULE Tipping -------------------------------
(***************************************************************************)
(* The tip engine: what it makes of an answer of the tip-floor service,    *)
(* and what it bids.  Amounts are lamports.                                *)
(***************************************************************************)
EXTENDS Naturals, Sequences

CONSTANTS
  MaxTelemetryAge,      \* max_telemetry_age
  MaxProfitShareBps,    \* max_profit_share_bps
  MinimumNetProfit      \* minimum_net_profit_lamports

ASSUME TippingAssumption ==
  /\ MaxTelemetryAge \in Nat
  /\ MaxProfitShareBps \in 0..65535
  /\ MinimumNetProfit \in Nat

Lesser(a, b) == IF a <= b THEN a ELSE b

Percentiles == [p50 : Nat, p75 : Nat, p95 : Nat]

(* parse_tip_floor_response: the last entry, its percentiles in order.     *)
(* Values that are negative or not finite make the answer as bad as one    *)
(* without entries.                                                        *)
ParseTipFloor(entries) ==
  IF entries = <<>> THEN {}
  ELSE LET e == entries[Len(entries)]
       IN  IF e.p50 <= e.p75 /\ e.p75 <= e.p95 THEN {e} ELSE {}

(* The bid an expected profit is worth, before the caps.                   *)
Candidate(floor, profit) ==
  CASE profit < 3 * floor.p50  -> floor.p50
    [] profit >= 3 * floor.p50 /\ profit < 10 * floor.p50 -> floor.p75
    [] OTHER -> Lesser(floor.p95, (profit * 2500) \div 10000)

Tip(floor, profit) ==
  Lesser(Candidate(floor, profit), (profit * MaxProfitShareBps) \div 10000)

NetProfit(profit, tip) == IF tip <= profit THEN profit - tip ELSE 0

(* calculate_tip: {bid}, or {} for a skip.                                 *)
CalculateTip(telemetry, profit, now) ==
  { Tip(t.floor, profit) :
      t \in { t \in telemetry :
                /\ now <= t.observedAt + MaxTelemetryAge
                /\ profit >= 2 * t.floor.p50
                /\ NetProfit(profit, Tip(t.floor, profit)) >= MinimumNetProfit } }
=============================================================================
