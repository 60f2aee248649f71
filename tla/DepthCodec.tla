------------------------------ MODULE DepthCodec ------------------------------
(***************************************************************************)
(* The way of a depth frame through the codec: the sender quantises and packs it     *)
(* (depth_compression.inl), the receiver checks the packet and restores the samples    *)
(* (media_decode.inl).  zlib and LZ4 give back what they were given; everything the     *)
(* code does around them is here: steps, indices, 12-bit packing, delta runs, chunk     *)
(* tables.  Words are as wide as the constants say.                                    *)
(***************************************************************************)
EXTENDS Integers, Sequences

CONSTANTS
    MaxRaw,        \* of a sample (uint16)
    MaxIndex,      \* of an 8-bit index
    HalfByte,      \* the values of half a byte; three of them hold a 12-bit index
    VarBase,       \* of a digit of a variable-length number of qdelta, 0x80
    RvlBase,       \* the same of rvl, 8
    RunMax,        \* longest run of non-zero samples of qdelta
    ChunkSamples,  \* kSamplesPerChunk
    Shapes,        \* [w, h] of frames
    Scales, Quants, \* depth scale and quantisation step, in one unit; 0 for an unusable scale
    Codecs

VARIABLES shape, frame, codec, scale, quant,
          packet,  \* what is on the way, or "none"
          decoded  \* what the receiver made of it, or "none"

vars == <<shape, frame, codec, scale, quant, packet, decoded>>

Bad == [bad |-> TRUE, samples |-> <<>>]
Good(s) == [bad |-> FALSE, samples |-> s]
NoPacket == [codec |-> "none yet"]

Init ==
    /\ shape \in Shapes /\ frame \in [1..(shape.w * shape.h) -> 0..MaxRaw]
    /\ codec \in Codecs /\ scale \in Scales /\ quant \in Quants
    /\ packet = NoPacket /\ decoded = Bad

Clamp(v, low, high) == IF v < low THEN low ELSE IF v > high THEN high ELSE v

\* raw_step_for_depth_scale
Step == IF scale = 0 \/ quant = 0 THEN 1 ELSE Clamp((quant + scale - 1) \div scale, 1, MaxRaw)

\* quantize_depth8_into and quantize_depth12
\* (Mutant of Quantized: a sample that is not zero may become zero.)
QuantizedToZero(v, step, max) == Clamp((v + (step \div 2)) \div step, 0, max)
Quantized(v, step, max) == IF v = 0 THEN 0 ELSE Clamp((v + (step \div 2)) \div step, 1, max)
Restored(index, step) == Clamp(index * step, 0, MaxRaw)

Max12 == HalfByte * HalfByte * HalfByte - 1
Byte == HalfByte * HalfByte

\* pack_depth12_payload: two indices in three bytes; a missing second one is 0.
At(s, i) == IF i <= Len(s) THEN s[i] ELSE 0
Pack12(s) ==
    [j \in 1..(3 * ((Len(s) + 1) \div 2)) |->
        LET a == s[2 * ((j - 1) \div 3) + 1]
            b == At(s, 2 * ((j - 1) \div 3) + 2)
        IN IF j % 3 = 1 THEN a % Byte
           ELSE IF j % 3 = 2 THEN (a \div Byte) + (b % HalfByte) * HalfByte
           ELSE b \div HalfByte]

\* unpack_depth12_into
Unpack12(p, n) ==
    [i \in 1..n |-> LET k == 3 * ((i - 1) \div 2)
                    IN IF i % 2 = 1 THEN p[k + 1] + (p[k + 2] % HalfByte) * Byte
                       ELSE (p[k + 2] \div HalfByte) + p[k + 3] * HalfByte]

\* append_varuint and its likes: the digits, least first, all but the last with a mark.
VarUint(value, base) ==
    LET digits[v \in 0..value] == IF v < base THEN <<v>> ELSE <<(v % base) + base>> \o digits[v \div base]
    IN digits[value]

\* read_varuint_checked and rvl_read_vle: the number that begins at p[i], and where the next begins.
Unread == [ok |-> FALSE, value |-> 0, next |-> 0]
ReadVar(p, i, base) ==
    LET read[j \in 1..(Len(p) + 1)] ==
            IF j > Len(p) THEN Unread
            ELSE IF p[j] < base THEN [ok |-> TRUE, value |-> p[j], next |-> j + 1]
            ELSE LET rest == read[j + 1]
                 IN [ok |-> rest.ok, value |-> (p[j] % base) + base * rest.value, next |-> rest.next]
    IN read[i]

\* zigzag_encode_i32 and zigzag_decode_i64
ZigZag(d) == IF d >= 0 THEN 2 * d ELSE -2 * d - 1
UnZigZag(z) == IF z % 2 = 0 THEN z \div 2 ELSE -((z + 1) \div 2)

\* How many samples after the first i are zero, or are not, at most so many.
Continues(s, i, zero) == i < Len(s) /\ (s[i + 1] = 0 <=> zero)
RunAfter(s, i, zero, most) ==
    CHOOSE n \in 0..most : /\ \A k \in 0..(n - 1) : Continues(s, i + k, zero)
                           /\ n = most \/ ~Continues(s, i + n, zero)

\* The digits of the n differences after the first i samples.
Deltas(s, i, n, previous, base) ==
    LET written[k \in 0..n] ==
            IF k = 0 THEN <<>>
            ELSE written[k - 1]
                 \o VarUint(ZigZag(s[i + k] - (IF k = 1 THEN previous ELSE s[i + k - 1])), base)
    IN written[n]

\* The encoders' loops: how many samples are coded, the last one's value, and the payload.
NothingCoded == [index |-> 0, previous |-> 0, out |-> <<>>]
QDeltaRun(s, e) ==
    LET zeros == RunAfter(s, e.index, TRUE, Len(s))
        n == RunAfter(s, e.index, FALSE, RunMax)
    IN IF e.index = Len(s) THEN e
       ELSE IF s[e.index + 1] = 0
       THEN [index |-> e.index + zeros, previous |-> 0,
             out |-> e.out \o (<<0>> \o VarUint(zeros, VarBase))]
       ELSE [index |-> e.index + n, previous |-> s[e.index + n],
             out |-> e.out \o (<<1, n>> \o Deltas(s, e.index, n, e.previous, VarBase))]

\* qdelta_compress_payload, with the step 1 that compress_depth_payload gives it: every
\* round codes a sample at least.
QDelta(s) ==
    LET coded[k \in 0..Len(s)] == IF k = 0 THEN NothingCoded ELSE QDeltaRun(s, coded[k - 1])
    IN coded[Len(s)].out

\* rvl, as other senders write it (external).
RvlRun(s, e) ==
    LET zeros == RunAfter(s, e.index, TRUE, Len(s))
        n == RunAfter(s, e.index + zeros, FALSE, Len(s))
    IN IF e.index = Len(s) THEN e
       ELSE [index |-> e.index + zeros + n,
             previous |-> IF n = 0 THEN e.previous ELSE s[e.index + zeros + n],
             out |-> e.out \o (VarUint(zeros, RvlBase) \o VarUint(n, RvlBase)
                               \o Deltas(s, e.index + zeros, n, e.previous, RvlBase))]
Rvl(s) ==
    LET coded[k \in 0..Len(s)] == IF k = 0 THEN NothingCoded ELSE RvlRun(s, coded[k - 1])
    IN coded[Len(s)].out

\* The decoders' loops: where the payload goes on, and the samples so far.
Started == [ok |-> TRUE, next |-> 1, previous |-> 0, samples |-> <<>>]
Failed(r) == [r EXCEPT !.ok = FALSE]
Zeros(n) == [k \in 1..n |-> 0]

\* One difference, and n of them.
Delta(p, r, step, base) ==
    LET v == ReadVar(p, r.next, base)
        current == r.previous + UnZigZag(v.value)
    IN IF ~r.ok THEN r
       ELSE IF ~v.ok \/ current < 0 THEN Failed(r)
       ELSE [ok |-> TRUE, next |-> v.next, previous |-> current,
             samples |-> Append(r.samples, Clamp(current * step, 0, MaxRaw))]
Run(p, r, n, step, base) ==
    LET done[k \in 0..n] == IF k = 0 THEN r ELSE Delta(p, done[k - 1], step, base)
    IN done[n]

\* qdelta_decompress_payload of n samples: every round takes a byte at least.
UnQDeltaRun(p, step, n, r) ==
    LET left == n - Len(r.samples)
        zeros == ReadVar(p, r.next + 1, VarBase)
    IN IF ~r.ok \/ left = 0 THEN r
       ELSE IF r.next > Len(p) THEN Failed(r)
       ELSE IF p[r.next] = 0
       THEN IF ~zeros.ok \/ zeros.value > left THEN Failed(r)
            ELSE [ok |-> TRUE, next |-> zeros.next, previous |-> 0,
                  samples |-> r.samples \o Zeros(zeros.value)]
       ELSE IF p[r.next] # 1 \/ r.next = Len(p) \/ p[r.next + 1] \notin 1..left THEN Failed(r)
       ELSE Run(p, [ok |-> TRUE, next |-> r.next + 2, previous |-> r.previous, samples |-> r.samples],
                p[r.next + 1], step, VarBase)
Result(r, n) == IF r.ok /\ Len(r.samples) = n THEN Good(r.samples) ELSE Bad
UnQDelta(p, step, n) ==
    LET decoding[k \in 0..Len(p)] == IF k = 0 THEN Started ELSE UnQDeltaRun(p, step, n, decoding[k - 1])
    IN Result(decoding[Len(p)], n)

\* rvl_decompress_payload of n samples
UnRvlRun(p, n, r) ==
    LET left == n - Len(r.samples)
        zeros == ReadVar(p, r.next, RvlBase)
        others == ReadVar(p, zeros.next, RvlBase)
    IN IF ~r.ok \/ left = 0 THEN r
       ELSE IF ~zeros.ok \/ zeros.value > left THEN Failed(r)
       ELSE IF ~others.ok \/ others.value > left - zeros.value THEN Failed(r)
       ELSE Run(p, [ok |-> TRUE, next |-> others.next, previous |-> r.previous,
                    samples |-> r.samples \o Zeros(zeros.value)], others.value, 1, RvlBase)
UnRvl(p, n) ==
    LET decoding[k \in 0..Len(p)] == IF k = 0 THEN Started ELSE UnRvlRun(p, n, decoding[k - 1])
    IN Result(decoding[Len(p)], n)

\* The chunk table of the formats that begin with p, and the chunks' samples.
ChunkCount(n) == (n + ChunkSamples - 1) \div ChunkSamples
Chunked(s) ==
    [k \in 1..ChunkCount(Len(s)) |->
        LET offset == (k - 1) * ChunkSamples
            count == IF k * ChunkSamples < Len(s) THEN ChunkSamples ELSE Len(s) - offset
        IN [offset |-> offset, count |-> count, data |-> SubSeq(s, offset + 1, offset + count)]]
Packed(chunks) ==
    [k \in DOMAIN chunks |->
        [offset |-> chunks[k].offset, count |-> chunks[k].count, data |-> Pack12(chunks[k].data)]]

Indices(s, max) == [i \in DOMAIN s |-> Quantized(s[i], Step, max)]

\* compress_depth_payload; plz4 and pzlib, q8zlib, lz4 and rvl come from other senders (external).
Payload ==
    CASE codec \in {"none", "zlib", "lz4"} -> [step |-> 1, chunks |-> <<>>, data |-> frame]
      [] codec = "qdelta" -> [step |-> 1, chunks |-> <<>>, data |-> QDelta(frame)]
      [] codec = "rvl" -> [step |-> 1, chunks |-> <<>>, data |-> Rvl(frame)]
      [] codec \in {"plz4", "pzlib"} -> [step |-> 1, chunks |-> Chunked(frame), data |-> <<>>]
      [] codec \in {"q8lz4", "q8zlib"} -> [step |-> Step, chunks |-> <<>>, data |-> Indices(frame, MaxIndex)]
      [] codec \in {"pq8zlib", "pq8lz4"} ->
            [step |-> Step, chunks |-> Chunked(Indices(frame, MaxIndex)), data |-> <<>>]
      [] codec = "pq12zlib" -> [step |-> Step, chunks |-> Packed(Chunked(Indices(frame, Max12))), data |-> <<>>]

\* depth_compression_loop: the packet of a frame.
Compress ==
    /\ packet = NoPacket
    /\ packet' = [codec |-> codec, w |-> shape.w, h |-> shape.h, uncompressed |-> 2 * Len(frame), payload |-> Payload]
    /\ UNCHANGED <<shape, frame, codec, scale, quant, decoded>>

\* validate_media_packet_metadata, for depth
ValidPacket == /\ packet.w # 0 /\ packet.h # 0 /\ packet.uncompressed = 2 * packet.w * packet.h
               /\ packet.codec = "none" => 2 * Len(packet.payload.data) = packet.uncompressed

\* The chunk tables of the receiver: every chunk begins where the one before ended, and they fill the frame.
EndOf(chunk) == chunk.offset + chunk.count
TableHolds(chunks, n) ==
    /\ chunks # <<>>
    /\ \A k \in DOMAIN chunks :
        /\ chunks[k].offset = IF k = 1 THEN 0 ELSE EndOf(chunks[k - 1])
        /\ chunks[k].count # 0 /\ chunks[k].count <= n - chunks[k].offset
    /\ EndOf(chunks[Len(chunks)]) = n

\* Each chunk's samples go to its place in the frame.
ChunkOf(chunks, i) == chunks[CHOOSE k \in DOMAIN chunks : chunks[k].offset < i /\ i <= EndOf(chunks[k])]
Joined(chunks, n) ==
    IF ~TableHolds(chunks, n) THEN Bad
    ELSE Good([i \in 1..n |-> ChunkOf(chunks, i).data[i - ChunkOf(chunks, i).offset]])
Unpacked(chunks) ==
    [k \in DOMAIN chunks |->
        [offset |-> chunks[k].offset, count |-> chunks[k].count,
         data |-> Unpack12(chunks[k].data, chunks[k].count)]]
Scaled(r, step) == IF r.bad THEN Bad ELSE Good([i \in DOMAIN r.samples |-> Restored(r.samples[i], step)])

\* normalized_depth_packet
Decode(p, n) ==
    CASE p.codec \in {"none", "zlib", "lz4"} -> Good(p.payload.data)
      [] p.codec = "qdelta" -> UnQDelta(p.payload.data, p.payload.step, n)
      [] p.codec = "rvl" -> UnRvl(p.payload.data, n)
      [] p.codec \in {"plz4", "pzlib"} -> Joined(p.payload.chunks, n)
      [] p.codec \in {"q8lz4", "q8zlib"} -> Scaled(Good(p.payload.data), p.payload.step)
      [] p.codec \in {"pq8zlib", "pq8lz4"} -> Scaled(Joined(p.payload.chunks, n), p.payload.step)
      [] p.codec = "pq12zlib" -> Scaled(Joined(Unpacked(p.payload.chunks), n), p.payload.step)

Receive ==
    /\ packet # NoPacket /\ decoded = Bad
    /\ decoded' = IF ValidPacket THEN Decode(packet, packet.uncompressed \div 2) ELSE Bad
    /\ UNCHANGED <<shape, frame, codec, scale, quant, packet>>

Next == Compress \/ Receive
Spec == Init /\ [][Next]_vars

-----------------------------------------------------------------------------
\* Every frame is restored: as many samples, none where there was none, the others within
\* half a step but for those below one step and those beyond the largest index; and a
\* nearer sample never becomes a farther one.
Nearest(v, r, step, max) ==
    \/ v - r <= step \div 2 /\ r - v <= step \div 2
    \/ v < step /\ r = Clamp(step, 0, MaxRaw)
    \/ v > max * step /\ r = max * step
DepthRestored ==
    packet # NoPacket =>
        LET d == Decode(packet, Len(frame))
            max == IF codec = "pq12zlib" THEN Max12 ELSE MaxIndex
        IN /\ ValidPacket /\ ~d.bad /\ Len(d.samples) = Len(frame)
           /\ \A i \in DOMAIN frame :
                /\ (d.samples[i] = 0) = (frame[i] = 0)
                /\ Nearest(frame[i], d.samples[i], packet.payload.step, max)
                /\ codec \in {"none", "zlib", "lz4", "plz4", "pzlib", "qdelta", "rvl"} => d.samples[i] = frame[i]
                /\ \A j \in DOMAIN frame : frame[i] <= frame[j] => d.samples[i] <= d.samples[j]
=============================================================================
