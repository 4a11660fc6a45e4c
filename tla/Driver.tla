-------------------------------- MODULE Driver --------------------------------
(***************************************************************************)
(* Driver::advance_to_target (protocol/driver/src/core.rs), with           *)
(* produce_payload (driver/src/pipeline.rs), the step of the pipeline      *)
(* (derive/src/pipeline/core.rs) and the AttributesQueue                   *)
(* (derive/src/stages/attributes_queue.rs) it steps.                       *)
(*                                                                         *)
(* The stages below the AttributesQueue hand over a bounded number of      *)
(* batches for each L1 block.  An L2 block is its number, the hash of      *)
(* block n is n and so is its output root.                                 *)
(***************************************************************************)
EXTENDS PipelineCursor

CONSTANTS L1Start,        \* L1 origin of the agreed safe head, less the channel timeout
          L1Head,         \* the last L1 block
          L2Start,        \* number of the agreed L2 safe head
          Targets,        \* target block numbers; NoTarget for None
          MaxPerBlock,    \* bound: batches of one L1 block
          MaxResets       \* bound: pipeline resets in a behaviour

ASSUME StartAssumption ==
    /\ L1Start \in Nat /\ L1Head \in Nat /\ L1Start <= L1Head /\ L2Start \in Nat
    /\ Targets \subseteq Int /\ MaxPerBlock \in Nat

NoTarget == -1
NoBatch == -1

\* The output root of the safe head the cursor is created with.
ZeroRoot == -1

VARIABLES pc,             \* "check", "step" or "execute" in advance_to_target, or "done"
          target,         \* the target, lowered when L1 is exhausted
          cursor,         \* Driver.cursor
          l1,             \* origin of the pipeline
          left,           \* batches the stages below still have for this L1 block
          batch,          \* AttributesQueue.batch: the parent it was loaded for
          prepared,       \* DerivationPipeline.prepared: parents of attributes
          payload,        \* parent of the attributes produce_payload returned
          result,         \* of advance_to_target: "Ok" with the tip, "Err", or "None"
          built,          \* the last L2 block the executor built
          exhausted,      \* EndOfSource was seen
          goal,           \* the target the driver was called with
          resets

stages == <<left, batch, prepared>>
vars == <<pc, target, cursor, l1, stages, payload, result, built, exhausted, goal, resets>>

tip == Tip(cursor)

\* The cursor new_pipeline_cursor builds, with the zero hash as output root.
Init ==
    /\ pc = "check"
    /\ goal \in Targets /\ target = goal
    /\ built = [number |-> L2Start, root |-> ZeroRoot]
    /\ cursor = Advance(NewCursor(L1Start), L1Start, built)
    /\ l1 = L1Start
    /\ left \in 0 .. MaxPerBlock
    /\ batch = NoBatch /\ prepared = <<>> /\ payload = NoBatch
    /\ result = "None" /\ exhausted = FALSE
    /\ resets = 0

\* The head of the loop: the target is reached, or the pipeline is stepped.
CheckTarget ==
    /\ pc = "check"
    /\ IF target # NoTarget /\ tip.number >= target
       THEN pc' = "done" /\ result' = "Ok"
       ELSE pc' = "step" /\ UNCHANGED result
    /\ UNCHANGED <<target, cursor, l1, stages, payload, built, exhausted, goal, resets>>

\* AttributesQueue::load_batch: the batch it still has, or one of the stages below for the
\* safe head.
Loaded == IF batch # NoBatch THEN batch ELSE tip.number

\* load_batch has a batch to return, and takes it from the stages below if it must.
LoadBatch ==
    /\ batch # NoBatch \/ left > 0
    /\ left' = IF batch # NoBatch THEN left ELSE left - 1

\* Mutant: next_attributes keeps the batch, and its parent is not checked.
StepPreparedKeeps ==
    /\ pc = "step"
    /\ LoadBatch
    /\ batch' = Loaded
    /\ payload' = Head(Append(prepared, Loaded))
    /\ prepared' = Tail(Append(prepared, Loaded))
    /\ pc' = "execute"
    /\ UNCHANGED <<target, cursor, l1, result, built, exhausted, goal, resets>>

\* The attributes are built, queued, and taken from the queue by produce_payload.
StepPrepared ==
    /\ pc = "step"
    /\ LoadBatch
    /\ Loaded = tip.number
    /\ batch' = NoBatch
    /\ payload' = Head(Append(prepared, Loaded))
    /\ prepared' = Tail(Append(prepared, Loaded))
    /\ pc' = "execute"
    /\ UNCHANGED <<target, cursor, l1, result, built, exhausted, goal, resets>>

\* A temporary error: in the stages below, or in the attributes builder, when the batch that
\* was loaded is kept.
StepTemporary ==
    /\ pc = "step"
    /\ (LoadBatch /\ batch' = Loaded) \/ UNCHANGED <<batch, left>>
    /\ UNCHANGED <<pc, target, cursor, l1, prepared, payload, result, built, exhausted, goal, resets>>

\* The stages below are out of data: step advances the origin.
StepAdvanced ==
    /\ pc = "step"
    /\ batch = NoBatch /\ left = 0
    /\ l1 < L1Head
    /\ l1' = l1 + 1
    /\ left' \in 0 .. MaxPerBlock
    /\ UNCHANGED <<pc, target, cursor, batch, prepared, payload, result, built, exhausted, goal, resets>>

\* Mutant: EndOfSource leaves the target as it is.
StepEndOfSourceWaits ==
    /\ pc = "step"
    /\ batch = NoBatch /\ left = 0
    /\ l1 = L1Head
    /\ exhausted' = TRUE
    /\ pc' = "check"
    /\ UNCHANGED <<target, cursor, l1, stages, payload, result, built, goal, resets>>

\* L1 is exhausted: the safe head becomes the target.
StepEndOfSource ==
    /\ pc = "step"
    /\ batch = NoBatch /\ left = 0
    /\ l1 = L1Head
    /\ exhausted' = TRUE
    /\ target' = IF target = NoTarget THEN target ELSE tip.number
    /\ pc' = "check"
    /\ UNCHANGED <<cursor, l1, stages, payload, result, built, goal, resets>>

\* A reset error: produce_payload signals a reset to the current origin. The stages read
\* this L1 block again; prepared is not cleared.
StepReset ==
    /\ pc = "step"
    /\ resets < MaxResets /\ resets' = resets + 1
    /\ batch' = NoBatch
    /\ left' \in 0 .. MaxPerBlock
    /\ UNCHANGED <<pc, target, cursor, l1, prepared, payload, result, built, exhausted, goal>>

\* A critical error, or any error while a reset is signalled.
StepCritical ==
    /\ pc = "step"
    /\ pc' = "done" /\ result' = "Err"
    /\ UNCHANGED <<target, cursor, l1, stages, payload, built, exhausted, goal, resets>>

\* The payload is executed on the tip, and the new safe head goes into the cursor.
ExecutePayload ==
    /\ pc = "execute"
    /\ built' = [number |-> tip.number + 1, root |-> tip.number + 1]
    /\ cursor' = Advance(cursor, l1, built')
    /\ payload' = NoBatch
    /\ pc' = "check"
    /\ UNCHANGED <<target, l1, stages, result, exhausted, goal, resets>>

\* The execution fails: the payload is dropped, and the loop goes on from the same tip.
ExecuteFails ==
    /\ pc = "execute"
    /\ payload' = NoBatch
    /\ pc' = "check"
    /\ UNCHANGED <<target, cursor, l1, stages, result, built, exhausted, goal, resets>>

\* update_safe_head or compute_output_root fails: the driver returns before it advances the
\* cursor.
ExecutorError ==
    /\ pc = "execute"
    /\ pc' = "done" /\ result' = "Err"
    /\ payload' = NoBatch
    /\ UNCHANGED <<target, cursor, l1, stages, built, exhausted, goal, resets>>

Done == pc = "done" /\ UNCHANGED vars

Step == StepPrepared \/ StepTemporary \/ StepAdvanced \/ StepEndOfSource \/ StepReset \/ StepCritical

Next == CheckTarget \/ Step \/ ExecutePayload \/ ExecuteFails \/ ExecutorError \/ Done

\* The driver runs until it returns, and its providers do not fail for ever.
Spec ==
    /\ Init /\ [][Next]_vars
    /\ WF_vars(CheckTarget) /\ WF_vars(ExecutePayload)
    /\ WF_vars(StepPrepared) /\ WF_vars(StepAdvanced) /\ WF_vars(StepEndOfSource)
-----------------------------------------------------------------------------
\* Types of the driver's, the pipeline's and the cursor's fields.
TypeOK ==
    /\ pc \in {"check", "step", "execute", "done"}
    /\ target \in Int /\ l1 \in L1Start .. L1Head /\ left \in 0 .. MaxPerBlock
    /\ batch \in Int /\ payload \in Int /\ result \in {"None", "Ok", "Err"}
    /\ prepared = <<>>
    /\ cursor.origin \in L1Start .. L1Head
    /\ cursor.origins \in Seq(L1Start .. L1Head)
    /\ DOMAIN cursor.tips \subseteq L1Start .. L1Head

\* The cache has many entries and evicts by origin, but the entry tip() finds is always the
\* last L2 block the executor built: every block is built on the one before it.
TipIsLastBuilt == tip = built

\* The attributes that are executed were derived for the current tip, through temporary
\* errors, resets and failed executions that leave a batch or attributes behind.
PayloadOnTip == pc = "execute" => payload = tip.number

\* "capacity must be greater than the `channel_timeout` to allow for derivation to proceed
\* through a deep reorg": eviction leaves an entry to go back to for every fork of the last
\* three L1 blocks that is a channel timeout past the start.
ReorgAnchored ==
    \A fork \in cursor.origin - 3 .. cursor.origin :
        fork - ChannelTimeout >= L1Start => ResetAnchors(cursor, fork) # {}

\* A driver with a target returns.
Returns == (goal # NoTarget) ~> (pc = "done")
=============================================================================
