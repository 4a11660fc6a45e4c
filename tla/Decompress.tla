----------------------------- MODULE Decompress -----------------------------
(***************************************************************************)
(* The callers of the decompressor: the stream interface                   *)
(* (utilities/miniz_oxide/src/inflate/stream.rs), which decompresses       *)
(* through a window that wraps, and the whole-input functions of           *)
(* inflate/mod.rs, which grow one output buffer or read several slices.    *)
(*                                                                         *)
(* A stream that is decompressed is a record: its bytes, the data it       *)
(* stands for, whether it is well formed, and its format.                  *)
(***************************************************************************)
EXTENDS Inflate

CONSTANTS
  DictSize,    \* TINFL_LZ_DICT_SIZE: 32768
  Streams,     \* the streams that are decompressed
  After,       \* what follows a stream in the input of the caller
  Chunks,      \* sizes of the pieces of input of a call
  Rooms        \* sizes of the output of a call

Least(a, b) == IF a < b THEN a ELSE b
From(seq, n) == SubSeq(seq, n + 1, Len(seq))
Failure(status) == status \in {"Failed", "BadParam", "Adler32Mismatch", "FailedCannotMakeProgress"}

-----------------------------------------------------------------------------
\* inflate/mod.rs

Resized(buf, n) == buf \o [i \in 1 .. n - Len(buf) |-> 0]

\* c is the call that was made on the input; consumed is what the last call has read
RECURSIVE VecLoop(_, _, _, _, _)
VecLoop(c, input, pos, max, flags) ==
  CASE c.status = "Done" -> [ok |-> TRUE, data |-> SubSeq(c.out, 1, pos + c.written), consumed |-> c.in]
    [] c.status = "HasMoreOutput" /\ Len(c.out) < max ->
         VecLoop(decompress(c.r, From(input, c.in), Resized(c.out, Least(2 * Len(c.out), max)), pos + c.written, flags),
                 From(input, c.in), pos + c.written, max, flags)
    [] OTHER -> [ok |-> FALSE, data |-> c.out, consumed |-> 0]

decompress_to_vec_inner(input, flags, max) ==
  VecLoop(decompress(NewDecompressor, input, Resized(<<>>, Least(2 * Len(input), max)), 0, flags \cup {"nonwrapping"}),
          input, 0, max, flags \cup {"nonwrapping"})

\* the usize::MAX limit of the functions without one: more than any stream decompresses to
NoLimit == 2 ^ 20

decompress_to_vec_zlib(input) == decompress_to_vec_inner(input, {"zlib"}, NoLimit)

SliceFlags(zlib_header, ignore_adler32, has_more) ==
  {"nonwrapping"} \cup (IF zlib_header THEN {"zlib"} ELSE {})
                  \cup (IF ignore_adler32 THEN {"ignore"} ELSE {})
                  \cup (IF has_more THEN {"more"} ELSE {})

\* c is the call on the slice before the others; an empty iterator fails
RECURSIVE SliceLoop(_, _, _, _, _)
SliceLoop(c, pos, slices, zlib_header, ignore_adler32) ==
  CASE c.status = "NeedsMoreInput" /\ slices # <<>> ->
         SliceLoop(decompress(c.r, Head(slices), c.out, pos + c.written,
                              SliceFlags(zlib_header, ignore_adler32, Len(slices) > 1)),
                   pos + c.written, Tail(slices), zlib_header, ignore_adler32)
    [] c.status = "Done" -> [ok |-> TRUE, data |-> SubSeq(c.out, 1, pos + c.written)]
    [] OTHER -> [ok |-> FALSE, data |-> c.out]

decompress_slice_iter_to_slice(size, slices, zlib_header, ignore_adler32) ==
  SliceLoop([r |-> NewDecompressor, status |-> "NeedsMoreInput", out |-> Resized(<<>>, size), written |-> 0],
            0, slices, zlib_header, ignore_adler32)

-----------------------------------------------------------------------------
\* inflate/stream.rs

NewInflateState(format) ==
  [decomp |-> NewDecompressor, dict |-> Resized(<<>>, DictSize), dict_ofs |-> 0, dict_avail |-> 0,
   first_call |-> TRUE, has_flushed |-> FALSE, data_format |-> format, last_status |-> "NeedsMoreInput"]

\* MinReset: the window keeps its bytes
MinReset(state) ==
  [state EXCEPT !.decomp.state = "Start", !.dict_ofs = 0, !.dict_avail = 0, !.first_call = TRUE,
                !.has_flushed = FALSE, !.last_status = "NeedsMoreInput"]

ZeroReset(state) == [MinReset(state) EXCEPT !.dict = Resized(<<>>, DictSize)]

FullReset(state, format) == [ZeroReset(state) EXCEPT !.data_format = format]

Pushed(state, n) == [state EXCEPT !.dict_avail = @ - n, !.dict_ofs = (@ + n) % DictSize]
PushCount(state, room) == Least(state.dict_avail, room)
PushBytes(state, room) == SubSeq(state.dict, state.dict_ofs + 1, state.dict_ofs + PushCount(state, room))

\* what a call has done so far: the state, the bytes read, the bytes written and the result
Answer(state, consumed, out, status) == [state |-> state, in |-> consumed, out |-> out, status |-> status]

push_dict_out(state, consumed, out, room) ==
  Answer(Pushed(state, PushCount(state, room - Len(out))), consumed, out \o PushBytes(state, room - Len(out)), "Ok")

FormatFlags(format) ==
  (IF format = "Zlib" THEN {"adler"} ELSE {"ignore"})
    \cup (IF format \in {"Zlib", "ZLibIgnoreChecksum"} THEN {"zlib"} ELSE {})

\* the result of a pass of inflate_loop that ends it, or "Again"
FinishResult(a, status, room) ==
  IF status = "Done" THEN IF a.state.dict_avail # 0 THEN "Buf" ELSE "StreamEnd"
  ELSE IF Len(a.out) = room THEN "Buf" ELSE "Again"

MoreResult(a, status, input, room) ==
  IF status = "Done" /\ a.state.dict_avail = 0 THEN "StreamEnd"
  ELSE IF status = "Done" \/ a.in = Len(input) \/ Len(a.out) = room \/ a.state.dict_avail # 0 THEN "Ok"
  ELSE "Again"

LoopResult(a, status, input, room, flush) ==
  IF Failure(status) THEN "Data"
  ELSE IF status = "NeedsMoreInput" /\ input = <<>> THEN "Buf"
  ELSE IF flush = "Finish" THEN FinishResult(a, status, room)
  ELSE MoreResult(a, status, input, room)

Flushed(a, status, input, room, flush) == [a EXCEPT !.status = LoopResult(a, status, input, room, flush)]

LoopPass(a, c, input, room, flush) ==
  Flushed(push_dict_out([a.state EXCEPT !.decomp = c.r, !.dict = c.out, !.dict_avail = c.written,
                                        !.last_status = c.status], a.in + c.in, a.out, room),
          c.status, input, room, flush)

RECURSIVE inflate_loop(_, _, _, _, _)
inflate_loop(a, input, room, flags, flush) ==
  IF a.status # "Again" THEN a
  ELSE inflate_loop(LoopPass(a, decompress(a.state.decomp, From(input, a.in), a.state.dict, a.state.dict_ofs, flags),
                             input, room, flush), input, room, flags, flush)

\* the first call has all of the input and room for all of the output
WholeResult(c) ==
  IF c.status = "FailedCannotMakeProgress" THEN "Buf"
  ELSE IF Failure(c.status) THEN "Data"
  ELSE IF c.status # "Done" THEN "Buf" ELSE "StreamEnd"

InflateWhole(state, c) ==
  Answer([state EXCEPT !.decomp = c.r, !.last_status = IF c.status \in {"NeedsMoreInput", "HasMoreOutput"}
                                                       THEN "Failed" ELSE c.status],
         c.in, SubSeq(c.out, 1, c.written), WholeResult(c))

\* the window still holds output of the calls before
InflatePending(state, room) ==
  LET a == push_dict_out(state, 0, <<>>, room)
  IN  [a EXCEPT !.status = IF state.last_status = "Done" /\ a.state.dict_avail = 0 THEN "StreamEnd" ELSE "Ok"]

InflateCall(state, first_call, input, room, flush, flags) ==
  IF state.last_status = "FailedCannotMakeProgress" THEN Answer(state, 0, <<>>, "Buf")
  ELSE IF Failure(state.last_status) THEN Answer(state, 0, <<>>, "Data")
  ELSE IF state.has_flushed /\ flush # "Finish" THEN Answer(state, 0, <<>>, "Stream")
  ELSE IF flush = "Finish" /\ first_call
  THEN InflateWhole([state EXCEPT !.has_flushed = TRUE],
                    decompress(state.decomp, input, Resized(<<>>, room), 0, flags \cup {"nonwrapping"}))
  ELSE IF state.dict_avail # 0 THEN InflatePending([state EXCEPT !.has_flushed = flush = "Finish"], room)
  ELSE inflate_loop(Answer([state EXCEPT !.has_flushed = flush = "Finish"], 0, <<>>, "Again"), input, room,
                    IF flush = "Finish" THEN flags ELSE flags \cup {"more"}, flush)

inflate(state, input, room, flush) ==
  IF flush = "Full" THEN Answer(state, 0, <<>>, "Stream")
  ELSE InflateCall([state EXCEPT !.first_call = FALSE], state.first_call, input, room, flush,
                   FormatFlags(state.data_format))

-----------------------------------------------------------------------------
\* A caller that feeds a stream piece by piece: what it has not fed yet, what it has got, and the
\* result of its last call

VARIABLES stream, state, rest, got, result

streamVars == <<stream, state, rest, got, result>>

Open == result \in {"New", "Ok", "Stream"}

StreamInit(s) ==
  /\ stream = s
  /\ state = NewInflateState(s.format)
  /\ rest = s.bytes \o After
  /\ got = <<>>
  /\ result = "New"

Feed(n, room, flush) ==
  /\ Open
  /\ \E a \in {inflate(state, SubSeq(rest, 1, Least(n, Len(rest))), room, flush)} :
       /\ state' = a.state
       /\ rest' = From(rest, a.in)
       /\ got' = got \o a.out
       /\ result' = a.status
  /\ UNCHANGED stream

\* the whole stream in one go, in slices of n bytes and into an output with room to spare
SlicesOf(bytes, n) == [i \in 1 .. (Len(bytes) + n - 1) \div n |-> SubSeq(bytes, (i - 1) * n + 1, Least(i * n, Len(bytes)))]

Slices(n) ==
  /\ result = "New"
  /\ \E v \in {decompress_slice_iter_to_slice(Len(stream.data) + 1, SlicesOf(rest, n), stream.format # "Raw",
                                              stream.format = "ZLibIgnoreChecksum")} :
       /\ got' = IF v.ok THEN v.data ELSE <<>>
       /\ result' = IF v.ok THEN "Sliced" ELSE "SliceFailed"
  /\ UNCHANGED <<stream, state, rest>>

\* the state is reset for another stream, whatever it was doing
Reset(reset, s) ==
  /\ result \notin {"New", "Idle", "Sliced", "SliceFailed"}
  /\ state' = CASE reset = "Min" -> MinReset(state)
                [] reset = "Zero" -> ZeroReset(state)
                [] reset = "Full" -> FullReset(state, s.format)
  /\ reset # "Full" => s.format = state.data_format
  /\ stream' = s
  /\ rest' = s.bytes \o After
  /\ got' = <<>>
  /\ result' = "New"

-----------------------------------------------------------------------------
\* Whatever the pieces of input and output, what the decompressor has written is the beginning of
\* the data of the stream. It ends a stream only if it is well formed, with all of the data
\* written and exactly the bytes of the stream read; an error of a well-formed stream comes from
\* a call that asked for the end of it (MZFlush::Finish); and no bits are left at the end, as
\* the assertion of the last block has it (inflate/core.rs, inflate/stream.rs).
InflateFaithful ==
  /\ IsPrefix(got, stream.data)
  /\ result \in {"StreamEnd", "Sliced"} => stream.valid /\ got = stream.data
  /\ result = "StreamEnd" => rest = After
  /\ stream.valid /\ ~state.has_flushed => result \notin {"Data", "Buf", "SliceFailed"}
  /\ state.decomp.aligned
=============================================================================
