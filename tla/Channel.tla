------------------------------- MODULE Channel -------------------------------
(***************************************************************************)
(* A channel: the frames of one channel id, buffered until the closing     *)
(* frame and every frame below it are there (primitives/src/da/channel.rs).*)
(*                                                                         *)
(* A frame is a record [id, number, is_last, size]; its payload is not     *)
(* represented, `size' is what Frame::size returns (payload + overhead).   *)
(* L1 blocks are represented by their numbers.  Frame numbers are u16:     *)
(* U16Max is the largest, 65535 in the code.                               *)
(***************************************************************************)
EXTENDS Integers, FiniteSets, FiniteSetsExt

CONSTANTS ChannelIds,      \* the channel ids that occur in frames
          U16Max,          \* largest u16, the width of a frame number
          FrameSizes       \* what Frame::size may return

ASSUME U16MaxAssumption == U16Max \in Nat \ {0}
ASSUME FrameSizesAssumption == FrameSizes \subseteq Nat \ {0}

FrameNumbers == 0 .. U16Max

Frame == [id : ChannelIds, number : FrameNumbers, is_last : BOOLEAN, size : FrameSizes]

\* Channel::new
NewChannel(id, open) ==
    [id |-> id, open_block |-> open, estimated_size |-> 0, closed |-> FALSE,
     highest_frame_number |-> 0, last_frame_number |-> 0,
     inputs |-> [n \in {} |-> n], highest_l1_inclusion_block |-> 0]

\* The bytes a set of buffered frames really takes.
SizeOf(inputs, S) == MapThenSumSet(LAMBDA n : inputs[n].size, S)

\* The four error returns of Channel::add_frame.
RejectsFrame(c, f) ==
    \/ f.id # c.id
    \/ f.is_last /\ c.closed
    \/ f.number \in DOMAIN c.inputs
    \/ c.closed /\ f.number >= c.last_frame_number

\* A closing frame below the highest frame number prunes the frames above it.
PrunesOn(c, f) == f.is_last /\ f.number < c.highest_frame_number

\* The frames `retain' leaves, and the frames whose size its closure subtracts:
\* the subtraction is the closure's first statement, it runs for every frame.
RetainedOn(c, f) ==
    IF PrunesOn(c, f) THEN {n \in DOMAIN c.inputs : n < f.number} ELSE DOMAIN c.inputs

SubtractedOn(c, f) == IF PrunesOn(c, f) THEN DOMAIN c.inputs ELSE {}

\* Channel::add_frame once it can no longer fail.
AddFrame(c, f, inclusion) ==
    LET kept    == RetainedOn(c, f)
        highest == IF PrunesOn(c, f) THEN f.number ELSE c.highest_frame_number
    IN  [id |-> c.id,
         open_block |-> c.open_block,
         closed |-> c.closed \/ f.is_last,
         last_frame_number |-> IF f.is_last THEN f.number ELSE c.last_frame_number,
         highest_frame_number |-> IF f.number > highest THEN f.number ELSE highest,
         highest_l1_inclusion_block |->
            IF c.highest_l1_inclusion_block < inclusion THEN inclusion
            ELSE c.highest_l1_inclusion_block,
         estimated_size |-> c.estimated_size - SizeOf(c.inputs, SubtractedOn(c, f)) + f.size,
         inputs |-> [n \in kept \cup {f.number} |-> IF n = f.number THEN f ELSE c.inputs[n]]]

\* Channel::is_ready. `last_frame_number + 1' is a u16 addition and wraps.
IsReady(c) ==
    /\ c.closed
    /\ Cardinality(DOMAIN c.inputs) = (c.last_frame_number + 1) % (U16Max + 1)
    /\ 0 .. c.last_frame_number \subseteq DOMAIN c.inputs

\* Channel::frame_data: frame i of the channel is element i + 1.
FrameData(c) == [i \in 1 .. c.last_frame_number + 1 |-> c.inputs[i - 1]]
=============================================================================
