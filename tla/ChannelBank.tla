----------------------------- MODULE ChannelBank -----------------------------
(***************************************************************************)
(* The ChannelBank stage (derive/src/stages/channel/channel_bank.rs): it   *)
(* buffers channels in the order they were opened, drops the ones that     *)
(* time out and the oldest ones when the bank is too large, and emits the  *)
(* data of a channel once all of its frames are there.                     *)
(*                                                                         *)
(* One call of next_data is one action: DropTimedOut, EmitChannel,         *)
(* IngestFrame or ReturnError, according to what `read' returns.  The      *)
(* previous stage is the environment: it hands over any frame, or an       *)
(* error; between two calls the pipeline may advance the origin by one L1  *)
(* block, or deliver a signal that also moves the origin.                  *)
(***************************************************************************)
EXTENDS Channel, Sequences, SequencesExt

CONSTANTS ChannelTimeout,       \* cfg.channel_timeout
          MaxChannelBankSize,   \* FJORD_MAX_CHANNEL_BANK_SIZE
          MaxOrigin             \* bound: the highest L1 block of a behaviour

ASSUME ChannelTimeoutAssumption == ChannelTimeout \in Nat
ASSUME MaxBankAssumption == MaxChannelBankSize \in Nat
ASSUME MaxOriginAssumption == MaxOrigin \in Nat

VARIABLES origin,          \* prev.origin(), an L1 block number
          channels,        \* HashMap<ChannelId, Channel>
          channel_queue,   \* VecDeque<ChannelId>
          res,             \* the last call's result: "None", "Data", an error that is
                           \* passed on or temporary ("Err"), or the bank's own "Critical"
          emitted          \* the channel whose data the last call returned, or NoChannel

vars == <<origin, channels, channel_queue, res, emitted>>

NoChannel == [id |-> "none"]

\* Mutant: the timeout is one block late.
TimedOutLate(c) == c.open_block + ChannelTimeout + 1 < origin

TimedOut(c) == c.open_block + ChannelTimeout < origin

Without(f, S) == [x \in DOMAIN f \ S |-> f[x]]

\* try_read_channel_at_index succeeds.
Readable(i) ==
    LET c == channels[channel_queue[i]] IN ~TimedOut(c) /\ IsReady(c)

\* Mutant: only the first channel is tried, as before Canyon.
ReadFirstOnly ==
    CASE channel_queue = <<>> -> "Eof"
      [] channel_queue # <<>> /\ Head(channel_queue) \notin DOMAIN channels -> "Critical"
      [] OTHER -> IF TimedOut(channels[Head(channel_queue)]) THEN "Empty"
                  ELSE IF Readable(1) THEN "Data"
                  ELSE "Eof"

\* ChannelBank::read, the kind of its result.
Read ==
    CASE channel_queue = <<>> -> "Eof"
      [] channel_queue # <<>> /\ Head(channel_queue) \notin DOMAIN channels -> "Critical"
      [] OTHER -> IF TimedOut(channels[Head(channel_queue)]) THEN "Empty"
                  ELSE IF \E i \in DOMAIN channel_queue : Readable(i) THEN "Data"
                  ELSE "Eof"

Init ==
    /\ origin = 0
    /\ channels = [id \in {} |-> id]
    /\ channel_queue = <<>>
    /\ res = "None"
    /\ emitted = NoChannel

\* Mutant: the timed out channel stays in the queue.
DropTimedOutKeepsId ==
    /\ Read = "Empty"
    /\ channels' = Without(channels, {Head(channel_queue)})
    /\ res' = "None"
    /\ emitted' = NoChannel
    /\ UNCHANGED <<origin, channel_queue>>

\* read() finds the first channel timed out: it is dropped, next_data is Ok(None).
DropTimedOut ==
    /\ Read = "Empty"
    /\ channels' = Without(channels, {Head(channel_queue)})
    /\ channel_queue' = Tail(channel_queue)
    /\ res' = "None"
    /\ emitted' = NoChannel
    /\ UNCHANGED origin

\* read() returns the data of the first ready channel, and removes it.
EmitChannel ==
    /\ Read = "Data"
    /\ \E i \in DOMAIN channel_queue :
          /\ Readable(i)
          /\ \A j \in 1 .. i - 1 : ~Readable(j)
          /\ emitted' = channels[channel_queue[i]]
          /\ channels' = Without(channels, {channel_queue[i]})
          /\ channel_queue' = RemoveAt(channel_queue, i)
    /\ res' = "Data"
    /\ UNCHANGED origin

\* ChannelBank::size
BankSize(chs) == MapThenSumSet(LAMBDA id : chs[id].estimated_size, DOMAIN chs)

\* The loop of prune, after k iterations.
AfterPops(chs, q, k) == Without(chs, {q[j] : j \in 1 .. k})

\* The loop of prune ends after k pops: the bank is under its limit, no id is left, or the
\* next id has no channel.
PruneStops(chs, q, k) ==
    \/ BankSize(AfterPops(chs, q, k)) <= MaxChannelBankSize
    \/ k = Len(q)
    \/ k < Len(q) /\ q[k + 1] \notin DOMAIN AfterPops(chs, q, k)

\* ChannelBank::prune at the end of an ingest: next_data then returns NotEnoughData, or
\* the critical error of a bank that is still too large.
Prune(chs, q) ==
    \E k \in 0 .. Len(q) :
        LET left == AfterPops(chs, q, k)
            fits == BankSize(left) <= MaxChannelBankSize
        IN  /\ PruneStops(chs, q, k)
            /\ \A j \in 0 .. k - 1 : ~PruneStops(chs, q, j)
            /\ channels' = left
            /\ channel_queue' = SubSeq(q, IF fits THEN k + 1 ELSE k + 2, Len(q))
            /\ res' = IF fits THEN "Err" ELSE "Critical"

\* read() has nothing to return and the previous stage hands over a frame. A frame of a
\* channel that timed out, or that its channel rejects, is ignored.
IngestFrame(f) ==
    /\ Read = "Eof"
    /\ LET fresh  == f.id \notin DOMAIN channels
           q      == IF fresh THEN Append(channel_queue, f.id) ELSE channel_queue
           c      == IF fresh THEN NewChannel(f.id, origin) ELSE channels[f.id]
           Put(d) == [id \in DOMAIN channels \cup {f.id} |-> IF id = f.id THEN d ELSE channels[id]]
       IN  IF TimedOut(c) \/ RejectsFrame(c, f)
           THEN channels' = Put(c) /\ channel_queue' = q /\ res' = "Err"
           ELSE Prune(Put(AddFrame(c, f, origin)), q)
    /\ emitted' = NoChannel
    /\ UNCHANGED origin

\* read() has nothing to return and neither has the previous stage, or read() fails.
ReturnError ==
    /\ Read \in {"Eof", "Critical"}
    /\ res' = IF Read = "Eof" THEN "Err" ELSE "Critical"
    /\ emitted' = NoChannel
    /\ UNCHANGED <<origin, channels, channel_queue>>

NextData == DropTimedOut \/ EmitChannel \/ ReturnError \/ \E f \in Frame : IngestFrame(f)

\* advance_origin of the stages below.
AdvanceOrigin ==
    /\ origin < MaxOrigin
    /\ origin' = origin + 1
    /\ UNCHANGED <<channels, channel_queue, res, emitted>>

\* Mutant: a signal that does not clear the bank.
SignalKeepsBank ==
    /\ origin' \in 0 .. MaxOrigin
    /\ res' = "None"
    /\ emitted' = NoChannel
    /\ UNCHANGED <<channels, channel_queue>>

\* signal: the stages below take the origin of the signal, the bank is cleared.
Signal ==
    /\ origin' \in 0 .. MaxOrigin
    /\ channels' = [id \in {} |-> id]
    /\ channel_queue' = <<>>
    /\ res' = "None"
    /\ emitted' = NoChannel

Next == NextData \/ AdvanceOrigin \/ Signal

\* The driver calls the pipeline again as long as it has not reached its target, and a call
\* that finds a timed out or a ready channel does not depend on the previous stage.
Spec == Init /\ [][Next]_vars /\ WF_vars(DropTimedOut \/ EmitChannel)
-----------------------------------------------------------------------------
ChannelOk(c) ==
    /\ c.id \in ChannelIds /\ c.open_block \in Nat /\ c.closed \in BOOLEAN
    /\ c.highest_frame_number \in FrameNumbers /\ c.last_frame_number \in FrameNumbers
    /\ c.highest_l1_inclusion_block \in Nat
    /\ DOMAIN c.inputs \subseteq FrameNumbers
    /\ \A n \in DOMAIN c.inputs : c.inputs[n] \in Frame

\* Types of the stage's fields.
TypeOK ==
    /\ origin \in 0 .. MaxOrigin
    /\ DOMAIN channels \subseteq ChannelIds
    /\ \A id \in DOMAIN channels : ChannelOk(channels[id])
    /\ channel_queue \in Seq(ChannelIds)
    /\ res \in {"None", "Data", "Err", "Critical"}
    /\ emitted = NoChannel \/ ChannelOk(emitted)

\* A channel buffers frames of its own id under their numbers, up to the highest; if it is
\* closed the highest is the one closing frame, and the frames above it are gone, in
\* whatever order they came. Its last frame was included before it timed out.
ChannelsWellFormed ==
    \A id \in DOMAIN channels :
        LET c == channels[id]
        IN  /\ c.id = id
            /\ c.open_block <= origin
            /\ \A n \in DOMAIN c.inputs :
                  /\ c.inputs[n].id = id /\ c.inputs[n].number = n
                  /\ n <= c.highest_frame_number
                  /\ c.inputs[n].is_last <=> (c.closed /\ n = c.last_frame_number)
            /\ c.closed => /\ c.highest_frame_number = c.last_frame_number
                           /\ c.last_frame_number \in DOMAIN c.inputs
            /\ DOMAIN c.inputs # {} => c.open_block <= c.highest_l1_inclusion_block
            /\ c.highest_l1_inclusion_block <= c.open_block + ChannelTimeout

\* channel_queue lists the keys of the map, each once, whatever ingest, read, prune and
\* signal do to the two; so no lookup fails and next_data never returns the critical
\* ChannelProviderEmpty or ChannelNotFound.
QueueMatchesMap ==
    /\ Range(channel_queue) = DOMAIN channels
    /\ \A i, j \in DOMAIN channel_queue : channel_queue[i] = channel_queue[j] => i = j
    /\ res # "Critical"

\* The queue is in the order the channels were opened, so that looking at its first
\* element is enough: when read() has nothing to return no channel of the bank is timed
\* out, and ingest_frame never ignores a frame because its channel timed out.
TimedOutOnlyInFront ==
    /\ \A i, j \in DOMAIN channel_queue :
          i <= j => channels[channel_queue[i]].open_block <= channels[channel_queue[j]].open_block
    /\ Read = "Eof" => \A id \in DOMAIN channels : ~TimedOut(channels[id])

\* What the bank hands to the ChannelReader is one whole channel: frames 0 .. last of one
\* id, in order, the closing frame last and only there, and all of them included on L1
\* before the channel timed out.
EmitsWholeChannel ==
    emitted # NoChannel =>
        LET d == FrameData(emitted)
        IN  /\ \A i \in DOMAIN d : /\ d[i].id = emitted.id
                                   /\ d[i].number = i - 1
                                   /\ d[i].is_last <=> i = Len(d)
            /\ emitted.open_block <= emitted.highest_l1_inclusion_block
            /\ emitted.highest_l1_inclusion_block <= emitted.open_block + ChannelTimeout

\* The frames held by the bank stay within the limit that prune enforces on the estimate
\* of Channel::size, "the estimated size of the channel including [Frame] overhead".
BufferedWithinLimit ==
    MapThenSumSet(LAMBDA id : SizeOf(channels[id].inputs, DOMAIN channels[id].inputs),
                  DOMAIN channels) <= MaxChannelBankSize

\* A complete channel leaves the bank: emitted, or dropped by a timeout, prune or signal.
ReadyChannelLeaves ==
    \A id \in ChannelIds :
        (id \in DOMAIN channels /\ IsReady(channels[id])) ~> (id \notin DOMAIN channels)
=============================================================================
