------------------------------ MODULE Deposits ------------------------------
(***************************************************************************)
(* What the derivation reads from the receipts of an L1 block: the user    *)
(* deposits (primitives/src/deposit.rs) and the updates of the system      *)
(* config (primitives/src/system, system_update).                          *)
(*                                                                         *)
(* A receipt is a record [status, logs], a log a record [address, topics,  *)
(* data]. The data of a log are the fields the code cuts out of its bytes, *)
(* and their length. An L1 address is a number below AddressSpace, but the *)
(* address of a batcher a sequence of bytes (see Attributes). The hash of  *)
(* an L1 block is its number.                                              *)
(***************************************************************************)
EXTENDS Integers, Sequences, SequencesExt, TLC

CONSTANTS
  AddressSpace,         \* number of L1 addresses (2^160)
  AliasOffset,          \* 0x1111000000000000000000000000000000001111
  Portal,               \* cfg.optimism_portal_address
  Messenger,            \* cfg.l1_cross_domain_messenger
  StandardBridge,       \* cfg.l1_standard_bridge
  SystemConfigAddress,  \* cfg.l1_system_config_address
  U128Max,              \* largest amount an instruction of the bridge program holds
  U64Max                \* largest gas limit of a system config

ASSUME AddressAssumption ==
  /\ AddressSpace \in Nat \ {0}
  /\ {AliasOffset, Portal, Messenger, StandardBridge, SystemConfigAddress} \subseteq 0 .. AddressSpace - 1

DEPOSIT_EVENT == "TransactionDeposited"
CONFIG_UPDATE_TOPIC == "ConfigUpdate"
BRIDGE == "bridge"   \* SOON_BRIDGE_PUBKEY_HEX

\* The result of a parser that has failed, and of one that has panicked.
Err   == [deposit_type |-> "Err"]
Panic == [deposit_type |-> "Panic"]

\* The L1 portal, which applies the alias of a sender that is a contract.
apply_l1_to_l2_alias(a) == (a + AliasOffset) % AddressSpace

undo_l1_to_l2_alias(a) == IF a < AliasOffset THEN a + AddressSpace - AliasOffset ELSE a - AliasOffset

\* ExternalData::extract, which compares the length of the encoded data with 305, and
\* DepositType::try_from: the slices of shorter data panic.
DepositDataLength(selector) == IF selector = "eth" THEN 305 + 96 ELSE 305 + 160
EncodedLength(n) == n + 3

ParseOpaque(d) ==
  IF EncodedLength(d.length) < 305 THEN Err
  ELSE IF ~d.relay THEN Err
  ELSE IF d.length < 305 THEN Panic
  ELSE IF d.selector \notin {"eth", "erc20"} THEN Err
  ELSE IF d.from # StandardBridge \/ d.to # BRIDGE THEN Err
  ELSE IF d.length < DepositDataLength(d.selector) THEN Panic
  ELSE [deposit_type |-> d.selector, to |-> d.who, mint |-> d.mint, amount |-> d.amount]

\* UserDeposited::parse_from_log. Length -1 stands for data without offset and length.
parse_from_log(block, index, l) ==
  IF l.data.length = -1 \/ Len(l.topics) < 3 THEN Panic
  ELSE IF undo_l1_to_l2_alias(l.topics[2]) # Messenger \/ l.topics[3] # BRIDGE THEN Err
  ELSE [source |-> <<0, block, index>>] @@ ParseOpaque(l.data)

IsDepositLog(l) == l.topics # <<>> /\ l.topics[1] = DEPOSIT_EVENT /\ l.address = Portal

\* The logs of the receipts that have not failed, in order.
Logs(receipts) == FlattenSeq([i \in DOMAIN receipts |-> IF receipts[i].status THEN receipts[i].logs ELSE <<>>])

\* Mutant: the index of a log is counted within its receipt.
derive_deposits_local(block, receipts) ==
  FlattenSeq([r \in DOMAIN receipts |->
    IF ~receipts[r].status THEN <<>>
    ELSE LET logs == receipts[r].logs
         IN  SelectSeq([i \in DOMAIN logs |->
                          IF IsDepositLog(logs[i]) THEN parse_from_log(block, i - 1, logs[i]) ELSE Err],
                       LAMBDA d : d.deposit_type # "Err")])

\* derive_deposits: a log that does not parse is skipped.
derive_deposits(block, receipts) ==
  LET logs == Logs(receipts)
  IN  SelectSeq([i \in DOMAIN logs |->
                   IF IsDepositLog(logs[i]) THEN parse_from_log(block, i - 1, logs[i]) ELSE Err],
                LAMBDA d : d.deposit_type # "Err")

\* UserDeposited::to_sanitized_transaction fails
Inconvertible(d) == d.amount > U128Max \/ (d.deposit_type = "eth" /\ d.mint > U128Max)

-----------------------------------------------------------------------------
\* The system config.
Kinds == {"Batcher", "GasConfig", "GasLimit", "UnsafeBlockSigner", "Eip1559", "OperatorFee"}

\* TryFrom<&SystemConfigLog> of each kind: total length and length of the argument
DataLength(kind) == IF kind = "GasConfig" THEN 128 ELSE 96
ArgumentLength(kind) == IF kind = "GasConfig" THEN 64 ELSE 32

\* abi_decode_validate of the argument; the packed operator fees always decode
Decodes(kind, d) ==
  CASE kind = "GasLimit" -> d.value <= U64Max
    [] kind \in {"Batcher", "UnsafeBlockSigner", "Eip1559"} -> d.valid
    [] OTHER -> TRUE

\* SystemConfigLog::build succeeds
Builds(l) ==
  /\ Len(l.topics) >= 3
  /\ l.topics[2] = 0
  /\ l.topics[3] \in Kinds
  /\ l.data.len = DataLength(l.topics[3])
  /\ l.data.pointer = 32
  /\ l.data.length = ArgumentLength(l.topics[3])
  /\ Decodes(l.topics[3], l.data)

IsConfigLog(l) ==
  l.address = SystemConfigAddress /\ l.topics # <<>> /\ l.topics[1] = CONFIG_UPDATE_TOPIC

\* SystemConfigUpdate::apply: only the batcher address is not ignored.
apply(config, l) == IF l.topics[3] = "Batcher" THEN l.data.value ELSE config

\* SystemConfig::update_with_receipts, when it succeeds, and when not
update_with_receipts(config, receipts) ==
  FoldLeft(apply, config, SelectSeq(Logs(receipts), IsConfigLog))

UpdateFails(receipts) == \E i \in DOMAIN Logs(receipts) : IsConfigLog(Logs(receipts)[i]) /\ ~Builds(Logs(receipts)[i])
=============================================================================
