---------------------------- MODULE MCAttributes ----------------------------
(* Instance of Attributes for TLC. *)
EXTENDS Attributes

MCNibbles == 0 .. 3
MCValueLength(v) == 2
MCBatchers == {<<1, 2>>, <<3, 4>>}

\* A deposit the L1 bridge contracts emit, and logs that differ from it in one field.
Data(who) == [length |-> 305 + 160, relay |-> TRUE, from |-> StandardBridge, to |-> BRIDGE,
              selector |-> "eth", who |-> who, mint |-> 1, amount |-> 1]
DepositLog(data) ==
  [address |-> Portal, topics |-> <<DEPOSIT_EVENT, apply_l1_to_l2_alias(Messenger), BRIDGE>>, data |-> data]
Deposit(who) == DepositLog(Data(who))

Skipped ==
  << [Deposit("x") EXCEPT !.address = Messenger], [Deposit("x") EXCEPT !.topics[2] = Messenger],
     [Deposit("x") EXCEPT !.topics[3] = "other"], [Deposit("x") EXCEPT !.topics = <<>>],
     DepositLog([Data("x") EXCEPT !.relay = FALSE]), DepositLog([Data("x") EXCEPT !.from = Messenger]),
     DepositLog([Data("x") EXCEPT !.selector = "other"]), DepositLog([Data("x") EXCEPT !.length = 300, !.selector = "other"]) >>

Update(kind, value) ==
  [address |-> SystemConfigAddress, topics |-> <<CONFIG_UPDATE_TOPIC, 0, kind>>,
   data |-> [len |-> DataLength(kind), pointer |-> 32, length |-> ArgumentLength(kind),
             value |-> value, valid |-> TRUE]]

Ok(logs) == [status |-> TRUE, logs |-> logs]

\* Blocks with no receipts, with deposits and updates over more receipts than one nibble
\* indexes, with an ERC20 deposit, and with a log the derivation stops at.
MCL1Receipts ==
  { <<>>,
    << Ok(Skipped), Ok(<<Deposit("a"), Update("Batcher", <<3, 4>>)>>), [status |-> FALSE, logs |-> <<Deposit("x")>>],
       Ok(<<Deposit("b"), Update("GasLimit", 1), Update("OperatorFee", 1)>>) >>,
    << Ok(<<Update("Batcher", <<3, 4>>), DepositLog([Data("c") EXCEPT !.selector = "erc20"])>>),
       Ok(<<Update("GasConfig", 1), Update("Batcher", <<1, 2>>)>>) >>,
    << Ok(<<DepositLog([Data("d") EXCEPT !.amount = U128Max + 1])>>) >>,
    << Ok(<<[Update("Batcher", <<3, 4>>) EXCEPT !.data.valid = FALSE]>>) >>,
    << Ok(<<DepositLog([Data("e") EXCEPT !.length = 303])>>) >>,
    << Ok(<<DepositLog([Data("f") EXCEPT !.length = 305 + 50])>>) >> }
=============================================================================
