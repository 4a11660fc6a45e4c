--------------------------- MODULE SolanaRuntime ---------------------------
(***************************************************************************)
(* The parts of the Solana runtime and of its standard programs that the   *)
(* SVM (executor/svm) and the bridge program call: accounts, and the       *)
(* instructions of the system, token and metadata programs. External code, *)
(* modelled from its use.                                                  *)
(*                                                                         *)
(* Accounts are a partial function from addresses to accounts; an address  *)
(* and the data of an account are tuples that start with a name. A call    *)
(* returns whether it succeeded and the accounts as it leaves them: what a *)
(* failed instruction has written stays in the transaction context, as the *)
(* feature set maps account data directly (executor/svm/src/genesis.rs).   *)
(***************************************************************************)
EXTENDS Naturals, Sequences, FiniteSets, TLC

CONSTANTS
  MaxU64   \* largest amount of lamports or tokens

SYSTEM == "system"
TOKEN  == "spl_token"
METADATA == "mpl_token_metadata"

\* load_account(..).unwrap_or_default()
Default == [lamports |-> 0, owner |-> SYSTEM, data |-> <<>>]

At(acc, k) == IF k \in DOMAIN acc THEN acc[k] ELSE Default
Set(acc, k, v) == (k :> v) @@ acc
SetData(acc, k, d) == Set(acc, k, [At(acc, k) EXCEPT !.data = d])
AddLamports(acc, k, n) == Set(acc, k, [At(acc, k) EXCEPT !.lamports = @ + n])
SubLamports(acc, k, n) == Set(acc, k, [At(acc, k) EXCEPT !.lamports = @ - n])

Ok(acc)  == [ok |-> TRUE, acc |-> acc]
Err(acc) == [ok |-> FALSE, acc |-> acc]
Then(r, F(_)) == IF r.ok THEN F(r.acc) ELSE r

\* Rent::minimum_balance: more for an account with data
minimum_balance(data) == IF data = <<>> THEN 1 ELSE 2

-----------------------------------------------------------------------------
\* The system program; signers is the set of addresses that have signed.

transfer(acc, signers, from, to, n) ==
  IF from \notin signers \/ At(acc, from).data # <<>> \/ At(acc, from).lamports < n THEN Err(acc)
  ELSE Ok(AddLamports(SubLamports(acc, from, n), to, n))

allocate(acc, k, data) ==
  IF At(acc, k).data # <<>> \/ At(acc, k).owner # SYSTEM THEN Err(acc) ELSE Ok(SetData(acc, k, data))

assign(acc, k, owner) ==
  IF At(acc, k).owner \notin {SYSTEM, owner} THEN Err(acc)
  ELSE Ok(Set(acc, k, [At(acc, k) EXCEPT !.owner = owner]))

\* A nonce account holds <<"nonce", authority, value>>; the next value is derived from the
\* block hash the runtime is given.
advance_nonce(acc, signers, k, next) ==
  LET d == At(acc, k).data
  IN  IF d = <<>> \/ d[2] \notin signers \/ d[3] = next THEN Err(acc)
      ELSE Ok(SetData(acc, k, <<"nonce", d[2], next>>))

-----------------------------------------------------------------------------
\* The token program: a mint holds <<"mint", decimals, supply>>, a token account
\* <<"token", mint, owner, amount>>.

associated_token(u, mint) == <<"token", u, mint>>

initialize_mint(acc, mint, decimals) == Ok(SetData(acc, mint, <<"mint", decimals, 0>>))

create_associated_token_account(acc, payer, u, mint) ==
  LET k == associated_token(u, mint)
  IN  Then(transfer(acc, {payer}, payer, k, minimum_balance(<<"token">>)), LAMBDA a :
        Ok(Set(a, k, [At(a, k) EXCEPT !.owner = TOKEN, !.data = <<"token", mint, u, 0>>])))

mint_to(acc, mint, k, n) ==
  LET m == At(acc, mint).data
      t == At(acc, k).data
  IN  IF t = <<>> \/ t[2] # mint \/ m[3] + n > MaxU64 THEN Err(acc)
      ELSE Ok(SetData(SetData(acc, mint, [m EXCEPT ![3] = @ + n]), k, [t EXCEPT ![4] = @ + n]))

burn_tokens(acc, signers, k, mint, n) ==
  LET m == At(acc, mint).data
      t == At(acc, k).data
  IN  IF t = <<>> \/ t[2] # mint \/ t[3] \notin signers \/ t[4] < n THEN Err(acc)
      ELSE Ok(SetData(SetData(acc, mint, [m EXCEPT ![3] = @ - n]), k, [t EXCEPT ![4] = @ - n]))

\* CreateMetadataAccountV3 and UpdateMetadataAccountV2
create_metadata(acc, signers, payer, k, name) ==
  IF At(acc, k).data # <<>> THEN Err(acc)
  ELSE Then(transfer(acc, signers, payer, k, minimum_balance(<<"metadata">>)), LAMBDA a :
         Ok(Set(a, k, [At(a, k) EXCEPT !.owner = METADATA, !.data = <<"metadata", name>>])))

update_metadata(acc, k, name) ==
  IF At(acc, k).owner # METADATA THEN Err(acc) ELSE Ok(SetData(acc, k, <<"metadata", name>>))
=============================================================================
