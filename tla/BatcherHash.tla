----------------------------- MODULE BatcherHash -----------------------------
(***************************************************************************)
(* How an L2 block carries the batcher address: the attributes builder     *)
(* writes it as the batcher hash of the L1 info transaction (primitives,   *)
(* derive.rs and deposit.rs), and the L2 providers read it back in         *)
(* system_config_by_number. There are two of them, and they disagree: the  *)
(* one over RPC (l2provider) reads what was written, the one of the client *)
(* program (proof/proof), over the preimage oracle, reads other bytes in   *)
(* another order.                                                          *)
(***************************************************************************)
EXTENDS Integers, SequencesExt

CONSTANTS
  AddressLength, \* 20
  WordLength     \* 32

ASSUME BytesAssumption == AddressLength \in Nat /\ WordLength \in Nat /\ AddressLength <= WordLength

\* the L2ChainProvider of l2provider, and that of proof/proof
Providers == {"online", "oracle"}

\* address_to_hash and U256::to_le_bytes: the batcher hash in an L1 info transaction
address_to_hash(a) == [i \in 1 .. WordLength - AddressLength |-> 0] \o a
to_le_bytes(word) == Reverse(word)
batcher_hash(a) == to_le_bytes(address_to_hash(a))

\* U160::from_le_slice(&hash[..20]) in the one, U160::from_be_slice(&hash[12..32]) in the other
from_slice(provider, word) ==
  IF provider = "online" THEN Reverse(SubSeq(word, 1, AddressLength))
  ELSE SubSeq(word, WordLength - AddressLength + 1, WordLength)

\* the address a provider reads back from a block that was built with the address a
ReadBack(provider, a) == from_slice(provider, batcher_hash(a))
=============================================================================
