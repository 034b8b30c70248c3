----------------------------- MODULE RaydiumSwap -----------------------------
(***************************************************************************)
(* Swap instructions of the Raydium liquidity pool V4: how the executor    *)
(* builds them, and how the feed reads the swaps of any transaction back   *)
(* from its accounts and token balances.                                   *)
(*                                                                         *)
(* An address is an element of any set.  An operator that returns a Result *)
(* returns {x} for Ok(x) and {} for Err.                                   *)
(***************************************************************************)
EXTENDS Naturals, Sequences, FiniteSets

CONSTANTS
  RaydiumV4,            \* RAYDIUM_LIQUIDITY_POOL_V4_PROGRAM_ID
  SplToken,             \* spl_token::id()
  Wsol,                 \* WSOL_MINT
  NoKey                 \* Pubkey::default()

ASSUME ProgramsAssumption == RaydiumV4 # SplToken

SwapOps == {"baseIn", "baseOut"}

-----------------------------------------------------------------------------
(* The executor's side.                                                    *)

KeyNames ==
  {"amm_id", "authority", "open_orders", "target_orders", "base_vault", "quote_vault",
   "base_mint", "quote_mint", "market_program_id", "market_id", "market_bids",
   "market_asks", "market_event_queue", "market_base_vault", "market_quote_vault",
   "market_vault_signer"}

Valid(keys) == \A name \in KeyNames : keys[name] # NoKey

(* The accounts of the current form, which has no target_orders.           *)
SwapAccounts(keys, owner, source, destination) ==
  <<SplToken, keys.amm_id, keys.authority, keys.open_orders, keys.base_vault,
    keys.quote_vault, keys.market_program_id, keys.market_id, keys.market_bids,
    keys.market_asks, keys.market_event_queue, keys.market_base_vault,
    keys.market_quote_vault, keys.market_vault_signer, source, destination, owner>>

(* construct_raydium_swap_instruction                                      *)
Construct(keys, owner, source, destination, amountIn, minimumOut) ==
  IF /\ Valid(keys)
     /\ amountIn # 0 /\ minimumOut # 0
     /\ NoKey \notin {owner, source, destination}
     /\ Cardinality({owner, source, destination}) = 3
     /\ {source, destination} \cap {keys.base_vault, keys.quote_vault} = {}
  THEN {[program    |-> RaydiumV4,
         op         |-> "baseIn",
         accounts   |-> SwapAccounts(keys, owner, source, destination),
         amountIn   |-> amountIn,
         minimumOut |-> minimumOut]}
  ELSE {}

(* apply_jitodontfront_protection: the sentinel goes last, and once.       *)
Protect(ix, sentinel) ==
  CASE ix.program # RaydiumV4 -> {}
    [] \E i \in DOMAIN ix.accounts : ix.accounts[i] = sentinel -> {ix}
    [] OTHER -> {[ix EXCEPT !.accounts = Append(@, sentinel)]}

-----------------------------------------------------------------------------
(* The feed's side.  A transaction lists its account keys, its outer       *)
(* instructions and, per outer instruction, those it invoked; accounts are *)
(* indices into the keys.                                                  *)

IsSwap(ix) == ix.program = RaydiumV4 /\ ix.op \in SwapOps

(* Where the vaults are depends on the number of accounts alone.           *)
VaultPlaces(n) == CASE n = 17 -> {<<5, 6>>} [] n = 18 -> {<<6, 7>>} [] OTHER -> {}

(* decode_swap_instruction of an instruction that is a swap.               *)
SwapInstruction(keys, ix) ==
  { [pool |-> keys[ix.accounts[2]], base |-> keys[ix.accounts[p[1]]],
     quote |-> keys[ix.accounts[p[2]]], at |-> ix.at] :
      p \in { q \in VaultPlaces(Len(ix.accounts)) :
                LET named == <<ix.accounts[2], ix.accounts[q[1]], ix.accounts[q[2]]>>
                IN  /\ {ix.accounts[1]} \cup {named[i] : i \in 1..3} \subseteq DOMAIN keys
                    /\ keys[ix.accounts[1]] = SplToken
                    /\ NoKey \notin {keys[named[i]] : i \in 1..3}
                    /\ Cardinality({keys[named[i]] : i \in 1..3}) = 3 } }

(* The swaps of a transaction, outer instructions before inner ones.       *)
SwapsIn(tx) == SelectSeq(tx.outer \o tx.inner, IsSwap)

(* Faulty variant of Unambiguous: swaps are not compared.                  *)
AnyVaults(candidates) == TRUE

(* No two swaps share a pool or a vault: the balance change of a vault is  *)
(* then the doing of one swap.                                             *)
Unambiguous(candidates) ==
  \A i, j \in DOMAIN candidates :
    i < j => /\ candidates[i].pool # candidates[j].pool
             /\ {candidates[i].base, candidates[i].quote}
                  \cap {candidates[j].base, candidates[j].quote} = {}

(* account_index_for_pubkey and unique_token_balance: the one balance of a *)
(* vault whose key occurs once.                                            *)
BalanceOf(tx, balances, vault) ==
  LET places  == {i \in DOMAIN tx.keys : tx.keys[i] = vault}
      entries == {b \in balances : b.index \in places}
  IN  IF Cardinality(places) = 1 /\ Cardinality(entries) = 1 THEN entries ELSE {}

Delta(pre, post) == IF post > pre THEN post - pre ELSE pre - post

(* The decoded swap of a candidate: both vaults keep their mint, one gains *)
(* and the other loses, and exactly one of them holds wrapped SOL.         *)
DecodedSwap(tx, c) ==
  { LET token == IF v[1][1].mint = Wsol THEN v[2] ELSE v[1]
        wsol  == IF v[1][1].mint = Wsol THEN v[1] ELSE v[2]
    IN  [pool   |-> c.pool,
         at     |-> c.at,
         target |-> token[1].mint,
         tokens |-> Delta(token[1].amount, token[2].amount),
         wsol   |-> Delta(wsol[1].amount, wsol[2].amount)] :
      v \in { v \in (BalanceOf(tx, tx.pre, c.base) \X BalanceOf(tx, tx.post, c.base))
                   \X (BalanceOf(tx, tx.pre, c.quote) \X BalanceOf(tx, tx.post, c.quote)) :
                /\ v[1][1].mint = v[1][2].mint
                /\ v[2][1].mint = v[2][2].mint
                /\ \/ v[1][1].amount < v[1][2].amount /\ v[2][1].amount > v[2][2].amount
                   \/ v[1][1].amount > v[1][2].amount /\ v[2][1].amount < v[2][2].amount
                /\ (v[1][1].mint = Wsol) # (v[2][1].mint = Wsol) } }

TheOne(s) == CHOOSE x \in s : TRUE

(* decode_notification: every swap of the transaction, or none.            *)
Decode(tx) ==
  LET swaps      == SwapsIn(tx)
      candidates == [i \in DOMAIN swaps |-> TheOne(SwapInstruction(tx.keys, swaps[i]))]
  IN  IF /\ ~tx.failed
         /\ tx.signatureMatches
         /\ \A i \in DOMAIN tx.inner : tx.inner[i].at[1] \in DOMAIN tx.outer
         /\ \A i \in DOMAIN swaps : SwapInstruction(tx.keys, swaps[i]) # {}
         /\ Unambiguous(candidates)
         /\ \A i \in DOMAIN swaps : DecodedSwap(tx, candidates[i]) # {}
      THEN {[i \in DOMAIN swaps |-> TheOne(DecodedSwap(tx, candidates[i]))]}
      ELSE {}
=============================================================================
