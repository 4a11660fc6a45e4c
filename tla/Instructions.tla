---------------------------- MODULE Instructions ----------------------------
(***************************************************************************)
(* The bytes that the bridge program and the L1 block info program         *)
(* exchange with the world (crates/programs): the data of an instruction,  *)
(* which a client packs and a processor unpacks, and the data of the       *)
(* accounts the processors write.                                          *)
(*                                                                         *)
(* A number is packed into its digits. Of a key or a hash only its length  *)
(* and its identity matter: its bytes are pairs of the value and a place.  *)
(***************************************************************************)
EXTENDS Naturals, Sequences, SequencesExt, TLC

CONSTANTS
  ByteBase,      \* values of a byte: 256
  AddressBytes,  \* bytes of an L1 address: 20
  PubkeyBytes,   \* bytes of a public key or a hash: 32
  U64Bytes,      \* 8
  U128Bytes      \* 16

ASSUME BytesAssumption ==
  /\ ByteBase \in Nat \ {0} /\ AddressBytes \in Nat \ {0} /\ PubkeyBytes \in Nat \ {0}
  /\ U64Bytes \in Nat \ {0} /\ U128Bytes \in Nat \ {0}

\* to_bytes of a key, an address or a hash, and Pubkey::try_from, Address::from_slice
Pieces(v, n) == [i \in 1 .. n |-> <<v, i>>]
FromPieces(b) == b[1][1]

\* to_le_bytes, from_le_bytes and the big-endian ones, of n bytes
to_le_bytes(v, n) == [i \in 1 .. n |-> (v \div ByteBase ^ (i - 1)) % ByteBase]
from_le_bytes(b) == FoldRight(LAMBDA d, v : v * ByteBase + d, b, 0)
to_be_bytes(v, n) == Reverse(to_le_bytes(v, n))
from_be_bytes(b) == from_le_bytes(Reverse(b))

-----------------------------------------------------------------------------
\* Unpacking: a value and the rest, or an error

Width(kind) ==
  CASE kind = "address" -> AddressBytes [] kind \in {"pubkey", "bytes32"} -> PubkeyBytes
    [] kind = "u128" -> U128Bytes [] kind = "u64" -> U64Bytes [] OTHER -> 1

Unpacked(v, input, n) == [ok |-> TRUE, value |-> v, rest |-> SubSeq(input, n + 1, Len(input))]
InvalidInstruction == [ok |-> FALSE]

\* unpack_address, unpack_pubkey and unpack_bytes32
unpack_pieces(input, n) == IF Len(input) >= n THEN Unpacked(FromPieces(input), input, n) ELSE InvalidInstruction

\* unpack_u128 and unpack_u64
unpack_number(input, n) ==
  IF Len(input) >= n THEN Unpacked(from_le_bytes(SubSeq(input, 1, n)), input, n) ELSE InvalidInstruction

unpack_u8(input) == IF input # <<>> THEN Unpacked(input[1], input, 1) ELSE InvalidInstruction

unpack_bool(input) ==
  IF input = <<>> \/ input[1] \notin {0, 1} THEN InvalidInstruction ELSE Unpacked(input[1] = 1, input, 1)

\* the characters of a string are bytes that are valid UTF-8
unpack_str(input) ==
  IF input = <<>> \/ Len(input) < 1 + input[1] THEN InvalidInstruction
  ELSE Unpacked(SubSeq(input, 2, 1 + input[1]), input, 1 + input[1])

UnpackField(kind, input) ==
  CASE kind \in {"address", "pubkey", "bytes32"} -> unpack_pieces(input, Width(kind))
    [] kind \in {"u128", "u64"} -> unpack_number(input, Width(kind))
    [] kind = "u8" -> unpack_u8(input) [] kind = "bool" -> unpack_bool(input) [] kind = "str" -> unpack_str(input)

\* The fields of a layout, one after the other. What is left over is ignored.
UnpackFields(layout, input) ==
  FoldLeft(LAMBDA s, f :
             IF ~s.ok THEN s
             ELSE LET r == UnpackField(f[2], s.rest)
                  IN  IF r.ok THEN [ok |-> TRUE, value |-> (f[1] :> r.value) @@ s.value, rest |-> r.rest] ELSE [s EXCEPT !.ok = FALSE],
           [ok |-> TRUE, value |-> <<>>, rest |-> input], layout)

\* Packing. A string whose length is not a byte is refused: no instruction is built.
pack_str(s) == <<Len(s)>> \o s

PackField(kind, v) ==
  CASE kind \in {"address", "pubkey", "bytes32"} -> Pieces(v, Width(kind))
    [] kind \in {"u128", "u64"} -> to_le_bytes(v, Width(kind))
    [] kind = "u8" -> <<v>> [] kind = "bool" -> <<IF v THEN 1 ELSE 0>> [] kind = "str" -> pack_str(v)

PackFields(layout, v) == FlattenSeq([i \in DOMAIN layout |-> PackField(layout[i][2], v[layout[i][1]])])

-----------------------------------------------------------------------------
\* BridgeInstruction

Names == << "CreateVaultAccount", "DepositETH", "CreateWithdrawalCounterAccount", "WithdrawETH", "CreateSPL",
            "DepositERC20", "WithdrawSPL", "CreateBridgeConfigAccount", "ChangeBridgeAdmin",
            "CreateUserWithdrawalCounterAccount", "UpdateSPLMetadata" >>
Tag(name) == (CHOOSE i \in DOMAIN Names : Names[i] = name) - 1

\* is_derived
is_derived(ix) == ix.name \in {"DepositETH", "DepositERC20"}

\* the fields of each instruction in the order in which pack writes them
PackLayout(name) ==
  CASE name = "DepositETH" ->
         << <<"from", "address">>, <<"to", "address">>, <<"mint", "u128">>, <<"value", "u128">>, <<"gas", "u64">>,
            <<"is_creation", "bool">>, <<"l1_block_num", "u64">>, <<"l1_block_hash", "bytes32">>, <<"log_index", "u128">>,
            <<"deposit_type", "u8">>, <<"deposit_from", "address">>, <<"deposit_to", "pubkey">>,
            <<"deposit_amount", "u128">>, <<"deposit_extra_data", "bytes32">>, <<"deposit_l2_contract", "pubkey">>,
            <<"deposit_l1_contract", "address">> >>
    [] name = "WithdrawETH" -> << <<"target", "address">>, <<"value", "u128">>, <<"gas_limit", "u128">> >>
    [] name = "CreateSPL" ->
         << <<"remote_token", "address">>, <<"tokenname", "str">>, <<"symbol", "str">>, <<"uri", "str">>, <<"decimals", "u8">> >>
    [] name = "DepositERC20" ->
         << <<"local_token", "pubkey">>, <<"remote_token", "address">>, <<"from", "address">>, <<"to", "pubkey">>, <<"amount", "u128">> >>
    [] name = "WithdrawSPL" ->
         << <<"remote_token", "address">>, <<"to", "address">>, <<"amount", "u128">>, <<"gas_limit", "u128">> >>
    [] name = "CreateBridgeConfigAccount" -> << <<"l1_cross_domain_messenger", "address">>, <<"l1_standard_bridge", "address">> >>
    [] name = "ChangeBridgeAdmin" -> << <<"new_admin", "pubkey">> >>
    [] name = "UpdateSPLMetadata" -> << <<"remote_token", "address">>, <<"tokenname", "str">>, <<"symbol", "str">>, <<"uri", "str">> >>
    [] OTHER -> <<>>

\* ... which is the order in which unpack reads them
UnpackLayout(name) == PackLayout(name)

Named(name, r) == IF r.ok THEN [ok |-> TRUE, ix |-> [name |-> name] @@ r.value] ELSE InvalidInstruction

\* BridgeInstruction::unpack: the instruction, or an error
unpack(input) ==
  IF input = <<>> \/ input[1] >= Len(Names) THEN InvalidInstruction
  ELSE Named(Names[input[1] + 1], UnpackFields(UnpackLayout(Names[input[1] + 1]), Tail(input)))

\* BridgeInstruction::pack
pack(ix) == <<Tag(ix.name)>> \o PackFields(PackLayout(ix.name), ix)

-----------------------------------------------------------------------------
\* L1BlockInfoInstruction. Its other instruction is no longer used.

InfoPackLayout ==
  << <<"number", "u64">>, <<"timestamp", "u64">>, <<"base_fee", "u128">>, <<"hash", "bytes32">>, <<"sequence_number", "u64">>,
     <<"batcher_hash", "bytes32">>, <<"fee_overhead", "u128">>, <<"fee_scalar", "u128">>, <<"gas", "u64">>, <<"is_system_tx", "bool">> >>

InfoUnpackLayout == InfoPackLayout

unpack_info(input) ==
  IF input = <<>> \/ input[1] > 1 THEN InvalidInstruction
  ELSE IF input[1] = 0 THEN Named("CreateL1BlockInfoAccount", [ok |-> TRUE, value |-> <<>>])
  ELSE Named("UpdateL1BlockInfo", UnpackFields(InfoUnpackLayout, Tail(input)))

pack_info(ix) ==
  IF ix.name = "UpdateL1BlockInfo" THEN <<1>> \o PackFields(InfoPackLayout, ix) ELSE <<0>>

-----------------------------------------------------------------------------
\* Account data (state.rs of both programs): at fixed places and, but for the counter, big-endian.

WithdrawalCounter(n) == to_le_bytes(n, U64Bytes)
UnpackCounter(data) == from_le_bytes(data)

BridgeOwner(admin) == Pieces(admin, PubkeyBytes)
UnpackOwner(data) == FromPieces(data)

BridgeConfig(messenger, bridge) == Pieces(messenger, AddressBytes) \o Pieces(bridge, AddressBytes)
UnpackConfig(data) ==
  [l1_cross_domain_messenger |-> FromPieces(data),
   l1_standard_bridge |-> FromPieces(SubSeq(data, AddressBytes + 1, 2 * AddressBytes))]

\* a U256 is packed as its high and its low word
U256(n) == to_be_bytes(0, U128Bytes) \o to_be_bytes(n, U128Bytes)
FromU256(b) == from_be_bytes(SubSeq(b, U128Bytes + 1, 2 * U128Bytes))
WordBytes == 2 * U128Bytes

\* ETHWithdrawalTransaction and SPLWithdrawalTransaction; the call data are one piece
WithdrawalTransaction(t) ==
  U256(t.nonce) \o Pieces(t.sender, PubkeyBytes) \o Pieces(t.target, AddressBytes) \o U256(t.value) \o U256(t.gas_limit)
    \o <<t.calldata>>
UnpackWithdrawal(data) ==
  LET sender == WordBytes
      target == sender + PubkeyBytes
      value == target + AddressBytes
      gas == value + WordBytes
  IN  [nonce |-> FromU256(SubSeq(data, 1, sender)), sender |-> FromPieces(SubSeq(data, sender + 1, target)),
       target |-> FromPieces(SubSeq(data, target + 1, value)), value |-> FromU256(SubSeq(data, value + 1, gas)),
       gas_limit |-> FromU256(SubSeq(data, gas + 1, gas + WordBytes)), calldata |-> data[gas + WordBytes + 1]]

\* L1BlockInfo: the fields of the instruction
InfoField(kind, v) == IF kind \in {"u64", "u128"} THEN to_be_bytes(v, Width(kind)) ELSE PackField(kind, v)
L1BlockInfo(info) == FlattenSeq([i \in DOMAIN InfoPackLayout |-> InfoField(InfoPackLayout[i][2], info[InfoPackLayout[i][1]])])

InfoOffset(i) == FoldLeft(LAMBDA n, f : n + Width(f[2]), 0, SubSeq(InfoUnpackLayout, 1, i - 1))
InfoValue(kind, b) ==
  CASE kind \in {"u64", "u128"} -> from_be_bytes(b) [] kind = "bool" -> b[1] = 1 [] OTHER -> FromPieces(b)
UnpackL1BlockInfo(data) ==
  [i \in DOMAIN InfoUnpackLayout |->
     InfoValue(InfoUnpackLayout[i][2], SubSeq(data, InfoOffset(i) + 1, InfoOffset(i) + Width(InfoUnpackLayout[i][2])))]
=============================================================================
