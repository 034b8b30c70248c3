------------------------- MODULE MCSwapPreparation -------------------------
(* Instance of SwapPreparation for TLC: one pool for the token, a second   *)
(* one whose account on the chain names other vaults than the API does,    *)
(* and a third one that other traffic uses.                                *)
EXTENDS SwapPreparation, TLC

(* Built with @@, here and below, to be evaluated before the workers start. *)
KeysOf(pool, mint) ==
  ("base_mint" :> Wsol) @@ ("quote_mint" :> mint) @@ ("market_program_id" :> OpenBook)
  @@ [name \in KeyNames |-> pool \o "." \o name]

Good  == KeysOf("one", "token")
Other == KeysOf("two", "token")
Third == KeysOf("three", "gem")

TokenAccount(mint, authority) ==
  [owner |-> SplToken, kind |-> "token", ready |-> TRUE, mint |-> mint,
   authority |-> authority]

MintAccount == [owner |-> SplToken, kind |-> "mint", ready |-> TRUE]

Amm(state) == [owner |-> RaydiumV4, kind |-> "amm", status |-> 6, state |-> state]

Owned(by) == [owner |-> by, kind |-> "data"]

ChainOf(keys, state) ==
  [a \in {keys[n] : n \in KeyNames \ {"authority", "market_vault_signer"}} |->
     CASE a = keys.amm_id -> Amm(state)
       [] a \in {keys.base_mint, keys.quote_mint} -> MintAccount
       [] a = keys.target_orders -> Owned(RaydiumV4)
       [] a = keys.base_vault -> TokenAccount(keys.base_mint, keys.authority)
       [] a = keys.quote_vault -> TokenAccount(keys.quote_mint, keys.authority)
       [] a = keys.market_base_vault ->
            TokenAccount(keys.base_mint, keys.market_vault_signer)
       [] a = keys.market_quote_vault ->
            TokenAccount(keys.quote_mint, keys.market_vault_signer)
       [] OTHER -> Owned(OpenBook)]

MCChain ==
  ChainOf(Good, Good) @@ ChainOf(Third, Third)
  @@ ChainOf(Other, [Other EXCEPT !.base_vault = "two.old_vault"])

Entry(keys, tvl) ==
  [id |-> keys.amm_id, program |-> RaydiumV4, tvl |-> tvl, mintA |-> Wsol, mintB |-> "token"]

MCLists ==
  { <<Entry(Good, 9), Entry(Other, 3)>>,
    <<Entry(Good, 3), Entry(Other, 9)>>,
    <<Entry(Good, 9), Entry(Other, 9)>> }

Record(keys) ==
  [keys |-> keys, program |-> RaydiumV4, mintAProgram |-> SplToken,
   mintBProgram |-> SplToken]

MCRecords ==
  { {Record(Good)}, {Record(Other)},
    {[Record(Good) EXCEPT !.mintBProgram = "token2022"]},
    {Record([Good EXCEPT !.quote_vault = "one.market_quote_vault"])} }

MCSignals ==
  { [lane |-> "Sniper", pump |-> FALSE, target |-> "token", amountIn |-> 1000,
     timestamp |-> 1],
    [lane |-> "Unknown", pump |-> TRUE, target |-> "token", amountIn |-> 500,
     timestamp |-> 1] }

Quote(s, output, threshold, pool) ==
  [swapType |-> "BaseIn", inputMint |-> Wsol, outputMint |-> "token",
   slippage |-> Slippage(s), input |-> s.amountIn, output |-> output,
   threshold |-> threshold,
   route |-> <<[pool |-> pool, inputMint |-> Wsol, outputMint |-> "token"]>>]

MCQuotes ==
  { Quote(s, 300, LocalMinimum(300, Slippage(s)), Good.amm_id) : s \in MCSignals }
  \cup UNION { { Quote(s, 300, LocalMinimum(300, Slippage(s)) - 1, Good.amm_id),
                 Quote(s, 300, 300, Other.amm_id) } :
                 s \in { s \in MCSignals : ~s.pump } }

Held(mint, amount) ==
  [owner |-> SplToken, ready |-> TRUE, mint |-> mint, authority |-> Owner,
   amount |-> amount, native |-> mint = Wsol]

MCSourceAccounts == { Held(Wsol, 1000), Held(Wsol, 499) }

MCTargetAccounts == { {}, {Held("token", 0)}, {Held("token", 7)} }

MCAta == [mint \in {"wsol", "token"} |-> "ata." \o mint]

MCFloors ==
  { <<[p50 |-> 9, p75 |-> 1, p95 |-> 5]>>,
    <<[p50 |-> 9, p75 |-> 9, p95 |-> 9], [p50 |-> 2, p75 |-> 6, p95 |-> 7]>>,
    <<[p50 |-> 0, p75 |-> 1, p95 |-> 9]>> }

-----------------------------------------------------------------------------
(* Transactions of the network: swaps of given pools, in a given form and  *)
(* with given balance changes, all vaults holding 10 before.               *)
Swap(keys, legacy, trailing, toBase, amountIn, amountOut) ==
  [keys |-> keys, legacy |-> legacy, trailing |-> trailing, toBase |-> toBase,
   in |-> amountIn, out |-> amountOut]

AccountsOf(swap) ==
  LET accounts == SwapAccounts(swap.keys, Owner, "src", "dst")
      form == IF swap.legacy
              THEN SubSeq(accounts, 1, 4) \o <<swap.keys.target_orders>>
                     \o SubSeq(accounts, 5, 17)
              ELSE accounts
  IN  IF swap.trailing THEN Append(form, Sentinel) ELSE form

KeysAt(keys) ==
  <<keys.amm_id, keys.authority, keys.open_orders, keys.target_orders, keys.base_vault,
    keys.quote_vault, keys.market_id, keys.market_bids, keys.market_asks,
    keys.market_event_queue, keys.market_base_vault, keys.market_quote_vault,
    keys.market_vault_signer>>

AllKeys ==
  <<SplToken, OpenBook, Owner, "src", "dst", Sentinel>> \o KeysAt(Good) \o KeysAt(Third)

IndexOf(a) == CHOOSE i \in DOMAIN AllKeys : AllKeys[i] = a

InstructionOf(swap, at) ==
  LET accounts == AccountsOf(swap)
  IN  [program |-> RaydiumV4, op |-> "baseIn", at |-> at,
       accounts |-> [i \in DOMAIN accounts |-> IndexOf(accounts[i])]]

(* What the network makes of a swap.                                       *)
Executed(s, at) ==
  [pool |-> s.keys.amm_id, at |-> at,
   into |-> IF s.toBase THEN s.keys.base_vault ELSE s.keys.quote_vault,
   from |-> IF s.toBase THEN s.keys.quote_vault ELSE s.keys.base_vault,
   paid |-> s.in, got |-> s.out]

VaultsOf(k) == {k.base_vault, k.quote_vault}

Balances(executed) ==
  { [index |-> IndexOf(v), mint |-> MCChain[v].mint,
     amount |-> Ledger(executed, v, 10)[Len(executed)]] :
      v \in VaultsOf(Good) \cup VaultsOf(Third) }

(* The first swap is an outer instruction, a second one is invoked by it.  *)
Notice(swaps, failed) ==
  LET places   == <<<<1, 0>>, <<1, 1>>>>
      executed == IF failed THEN <<>>
                  ELSE [i \in 1..Len(swaps) |-> Executed(swaps[i], places[i])]
      code     == [i \in 1..Len(swaps) |-> InstructionOf(swaps[i], places[i])]
  IN  [tx |-> [failed |-> failed, signatureMatches |-> TRUE, keys |-> AllKeys,
               outer |-> SubSeq(code, 1, 1), inner |-> SubSeq(code, 2, Len(code)),
               pre |-> Balances(<<>>), post |-> Balances(executed)],
       executed |-> executed]

MCSwaps ==
  { Swap(k, legacy, trailing, toBase, 3, out) :
      k \in {Good, Third}, legacy, trailing, toBase \in BOOLEAN, out \in {1} }

MCTraffic ==
  { Notice(swaps, failed) : failed \in BOOLEAN,
      swaps \in { <<a>> : a \in MCSwaps } \cup
               { <<a, b>> : a \in { a \in MCSwaps : a.keys = Good },
                            b \in { b \in MCSwaps : ~b.trailing } } }
=============================================================================
