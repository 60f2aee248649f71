----------------------------- MODULE DepthParts ------------------------------
(*****************************************************************************)
(* Depth on both machines: the sender's workers (DepthPool), the way of a    *)
(* frame through the codec (DepthCodec) and the receiver's parallel decode   *)
(* (ParallelDecode), under names that no other component has, and what each  *)
(* promises.                                                                 *)
(*****************************************************************************)

\* The sender's workers
CONSTANTS PoolSlots, Compressors, FramesPerSlot, SlotBytes, Sizes, MaxDepthFrames, MaxSlots
VARIABLES slots, nextSlot, stopping, doing, work, late, out, gone, depthFrames
Pool == INSTANCE DepthPool WITH
    Slots <- PoolSlots, Workers <- Compressors, frames <- depthFrames,
    MaxFrames <- MaxDepthFrames, at <- doing
poolVars == <<slots, nextSlot, stopping, doing, work, late, out, gone, depthFrames>>

\* The receiver's parallel decode
CONSTANTS Callers, Decoders, Chunks, Helpers, TasksMax
VARIABLES tasks, call, hands
Decode == INSTANCE ParallelDecode WITH
    Workers <- Decoders, QueueMax <- TasksMax
decodeVars == <<tasks, call, hands>>

\* The way of a frame through the codec
CONSTANTS MaxRaw, MaxIndex, HalfByte, VarBase, RvlBase, RunMax, ChunkSamples, Shapes, Scales, Quants,
          Codecs
VARIABLES shape, frame, codec, scale, quant, coded, decoded
Codec == INSTANCE DepthCodec WITH packet <- coded
codecVars == <<shape, frame, codec, scale, quant, coded, decoded>>

-----------------------------------------------------------------------------
\* Depth is handed on in the order of capture, although several workers compress it.
DepthInOrder == Pool!DepthInOrder

\* A decode that returned left no helper at its frame, and each chunk is decoded once.
FramesWhole == Decode!FramesWhole

\* Depth has the values of capture again up to the quantisation, whatever the codec.
DepthRestored == Codec!DepthRestored
==============================================================================
