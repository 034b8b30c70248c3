---------------------------- MODULE PoolResolution ----------------------------
(***************************************************************************)
(* From the answers of the Raydium API and the accounts on the chain to    *)
(* the keys of the one pool a signal is traded in.  A chain is a function  *)
(* from addresses to accounts.                                             *)
(***************************************************************************)
EXTENDS RaydiumSwap

CONSTANTS OpenBook      \* OPENBOOK_PROGRAM_ID

MintPairMatches(a, b, target) == {a, b} = {Wsol, target}

(* The candidate with more liquidity than every other one.                 *)
Selected(list, target) ==
  LET candidates == { i \in DOMAIN list :
                        /\ list[i].program = RaydiumV4
                        /\ list[i].tvl > 0
                        /\ MintPairMatches(list[i].mintA, list[i].mintB, target) }
  IN  { list[i] : i \in { i \in candidates :
                            \A j \in candidates \ {i} : list[j].tvl < list[i].tvl } }

(* parse_api_pool_keys: the record speaks of the selected pool.            *)
RecordMatches(record, selected, target) ==
  /\ record.keys.amm_id = selected.id
  /\ record.program = RaydiumV4
  /\ record.keys.market_program_id = OpenBook
  /\ MintPairMatches(record.keys.base_mint, record.keys.quote_mint, target)
  /\ record.mintAProgram = SplToken /\ record.mintBProgram = SplToken

(* require_owner of an account that has to exist.                          *)
OwnedBy(chain, a, program) == a \in DOMAIN chain /\ chain[a].owner = program

VerifyMint(chain, a) ==
  OwnedBy(chain, a, SplToken) /\ chain[a].kind = "mint" /\ chain[a].ready

VerifyTokenAccount(chain, a, mint, authority) ==
  /\ OwnedBy(chain, a, SplToken)
  /\ chain[a].kind = "token"
  /\ chain[a].ready
  /\ chain[a].mint = mint
  /\ chain[a].authority = authority

(* The fields of the pool's account; its authority is the program address  *)
(* derived from the nonce it stores.                                       *)
StateFields ==
  {"authority", "base_vault", "quote_vault", "base_mint", "quote_mint", "open_orders",
   "market_id", "market_program_id", "target_orders"}

VerifyAmmState(amm, keys) ==
  /\ amm.kind = "amm"
  /\ amm.status \in {1, 6}
  /\ \A f \in StateFields : amm.state[f] = keys[f]

(* Faulty variant of VerifyPoolKeysOnChain: the pool's account is believed *)
(* whatever it says.                                                       *)
VerifyPoolOwnersOnly(chain, keys) == OwnedBy(chain, keys.amm_id, RaydiumV4)

VerifyPoolKeysOnChain(chain, keys) ==
  /\ OwnedBy(chain, keys.amm_id, RaydiumV4)
  /\ VerifyAmmState(chain[keys.amm_id], keys)
  /\ OwnedBy(chain, keys.target_orders, RaydiumV4)
  /\ \A name \in {"open_orders", "market_id", "market_bids", "market_asks",
                  "market_event_queue"} : OwnedBy(chain, keys[name], keys.market_program_id)
  /\ VerifyMint(chain, keys.base_mint)
  /\ VerifyMint(chain, keys.quote_mint)
  /\ VerifyTokenAccount(chain, keys.base_vault, keys.base_mint, keys.authority)
  /\ VerifyTokenAccount(chain, keys.quote_vault, keys.quote_mint, keys.authority)
  /\ VerifyTokenAccount(chain, keys.market_base_vault, keys.base_mint,
                        keys.market_vault_signer)
  /\ VerifyTokenAccount(chain, keys.market_quote_vault, keys.quote_mint,
                        keys.market_vault_signer)

(* resolve_pool_keys, its requests answered with list and records.         *)
ResolvePoolKeys(chain, list, records, target) ==
  { r.keys : r \in { r \in records :
                       /\ target # Wsol
                       /\ Cardinality(records) = 1
                       /\ \E s \in Selected(list, target) : RecordMatches(r, s, target)
                       /\ Valid(r.keys)
                       /\ VerifyPoolKeysOnChain(chain, r.keys) } }
=============================================================================
