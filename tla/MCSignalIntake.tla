-------------------------- MODULE MCSignalIntake ---------------------------
(* Instance of SignalIntake for TLC: two whales, one of whom changes lanes *)
(* and then leaves the list; trades that take each way through the handler.*)
EXTENDS SignalIntake

CONSTANTS alice, bob, token

Row(w, n, l, win, pf) ==
  [wallet |-> w, columns |-> n, lane |-> l, winRate |-> win, profitFactor |-> pf]

MCFiles == <<
  <<Row(alice, 6, "Sniper", 50, 30), Row(bob, 4, "Swing", 50, 10)>>,
  <<Row(alice, 5, "", 30, 30), Row(bob, 6, "Swing", 50, 10), Row(bob, 6, "odd", 60, 21)>>,
  <<Row(bob, 5, "", 50, 30)>> >>

Buy(w, outputs, transfers) ==
  [wallet |-> w, wellFormed |-> TRUE, swap |-> TRUE, overflow |-> FALSE,
   outputs |-> outputs, transfers |-> transfers]

To(w, m) == [to |-> w, mint |-> m]

AliceBuys == Buy(alice, <<token>>, <<To(alice, Wsol)>>)
BobBuys   == Buy(bob, <<>>, <<To(alice, token), To(bob, Wsol), To(bob, token)>>)
BobSells  == Buy(bob, <<>>, <<To(bob, Wsol)>>)

Garbled   == [BobSells EXCEPT !.wellFormed = FALSE]

MCPayloads == { <<AliceBuys, BobSells, BobBuys>>, <<AliceBuys, Garbled>> }
=============================================================================
