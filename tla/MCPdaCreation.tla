--------------------------- MODULE MCPdaCreation ---------------------------
(* The two initializers: the pool with its four children, whose lengths    *)
(* are final at once, and the config and the mint, which grows by its      *)
(* metadata.  Rents are 3 and 4 lamports, 2 for an account without data.   *)
EXTENDS PdaCreation

PoolAccounts == <<"pool", "vault_a", "vault_b", "lp_mint", "locked_lp">>
MintAccounts == <<"config", "mint">>
PoolAndMint == {PoolAccounts, MintAccounts}

Programs == [x \in Address |-> CASE x = "pool" -> "Amm" [] x = "config" -> "Stablecoin"
                                  [] OTHER -> "Token2022"]
LengthAtCreation == [x \in Address |-> IF x \in {"vault_a", "vault_b"} THEN 2 ELSE 1]
LengthAtTheEnd == [LengthAtCreation EXCEPT !["mint"] = 2]
Gifts == {1, 2}
AnyPurse == {0, 2, 8, 17}
=============================================================================
