-------------------------------- MODULE Layout --------------------------------
(***************************************************************************)
(* Where TinyLM keeps a weight in its flat buffers (ml/model.ts) and where *)
(* the exporters put and look for it (core/Exporters.ts).                  *)
(*                                                                         *)
(* A config is a record of the sizes V, d, ctx, h, L, r and the flag lora. *)
(* A slice is a start and a length, counted in elements from 0; a tensor is*)
(* named by its layer (0 for the two embeddings) and its kind.             *)
(***************************************************************************)
EXTENDS Integers, Sequences, SequencesExt

(* Sizes are counts; the depth and the rank that are asked for are clamped.  *)
IsConfig(c) ==
  /\ c.V \in Nat /\ c.d \in Nat /\ c.ctx \in Nat /\ c.h \in Nat
  /\ c.L \in Int /\ c.r \in Int /\ c.lora \in BOOLEAN

Depth(c) == IF c.L < 1 THEN 1 ELSE c.L
Rank(c)  == LET r == IF c.r < 1 THEN 1 ELSE c.r IN IF r > c.d THEN c.d ELSE r

LayerParamCount(d, h)     == 3*d*d + d*h + h + h*d + d
LoraLayerParamCount(d, r) == 4*d*r

ParamCountFor(c) == c.V * c.d + c.ctx * c.d + Depth(c) * LayerParamCount(c.d, c.h)
LoraParamCountFor(c) ==
  IF c.lora THEN Depth(c) * LoraLayerParamCount(c.d, Rank(c)) ELSE 0
TrainerStateLengthFor(c) == 1 + 2 * ParamCountFor(c) + 3 * LoraParamCountFor(c)

Slice(start, length) == [start |-> start, length |-> length]
End(slice) == slice.start + slice.length

(* The offsets the forward and backward passes use, set up by the constructor. *)
LayerSlices(c, l) ==
  LET d == c.d  h == c.h
      o == c.V * d + c.ctx * d + (l - 1) * LayerParamCount(d, h) IN
  [attn_q    |-> Slice(o, d*d),
   attn_k    |-> Slice(o + d*d, d*d),
   attn_v    |-> Slice(o + 2*d*d, d*d),
   gate      |-> Slice(o + 3*d*d, d*h),
   gate_bias |-> Slice(o + 3*d*d + d*h, h),
   down      |-> Slice(o + 3*d*d + d*h + h, h*d),
   down_bias |-> Slice(o + 3*d*d + d*h + h + h*d, d)]

LoraSlices(c, l) ==
  LET d == c.d  r == Rank(c)  o == (l - 1) * LoraLayerParamCount(d, r) IN
  [aq |-> Slice(o, d*r), bq |-> Slice(o + d*r, r*d),
   av |-> Slice(o + d*r + r*d, d*r), bv |-> Slice(o + 2*d*r + r*d, r*d)]

(* serializeTrainerState: the parts of the optimizer's file. *)
StateSlices(c) ==
  LET P == ParamCountFor(c)  Q == LoraParamCountFor(c) IN
  [m |-> Slice(1, P), v |-> Slice(1 + P, P), lora |-> Slice(1 + 2*P, Q),
   loraM |-> Slice(1 + 2*P + Q, Q), loraV |-> Slice(1 + 2*P + 2*Q, Q)]

-----------------------------------------------------------------------------
Elements(shape) == IF Len(shape) = 1 THEN shape[1] ELSE shape[1] * shape[2]

RoundUp(n, align) == ((n + align - 1) \div align) * align

(* Laid(first, sizes, align)[i]: where the pieces of these sizes end after   *)
(* the first i of them, each laid at the next multiple of align.             *)
Laid(first, sizes, align) ==
  LET end[i \in 0..Len(sizes)] ==
        IF i = 0 THEN first ELSE RoundUp(end[i-1] + sizes[i], align)
  IN  end
Before(sizes, i) == Laid(0, sizes, 1)[i-1]
SumOf(sizes) == Laid(0, sizes, 1)[Len(sizes)]

Tensor(l, kind, shape) == [layer |-> l, kind |-> kind, shape |-> shape]
LayerTensors(c, l) ==
  <<Tensor(l, "attn_q", <<c.d, c.d>>), Tensor(l, "attn_k", <<c.d, c.d>>),
    Tensor(l, "attn_v", <<c.d, c.d>>), Tensor(l, "gate", <<c.d, c.h>>),
    Tensor(l, "gate_bias", <<c.h>>), Tensor(l, "down", <<c.h, c.d>>),
    Tensor(l, "down_bias", <<c.d>>)>>
Tensors(c) ==
  [i \in 1..2 + 7 * Depth(c) |->
     IF i = 1 THEN Tensor(0, "token_embd", <<c.V, c.d>>)
     ELSE IF i = 2 THEN Tensor(0, "pos_embd", <<c.ctx, c.d>>)
     ELSE LayerTensors(c, (i - 3) \div 7 + 1)[((i - 3) % 7) + 1]]

(* tensorLayout and sliceTensors: every tensor follows the ones before it.   *)
Sizes(c) == [i \in 1..2 + 7 * Depth(c) |-> Elements(Tensors(c)[i].shape)]
TensorLayout(c) ==
  [i \in 1..2 + 7 * Depth(c) |->
     [of |-> Tensors(c)[i], slice |-> Slice(Before(Sizes(c), i), Sizes(c)[i])]]

(* loraAdaptersFor: the adapters of q and of v, layer by layer.              *)
LoraAdaptersFor(c) ==
  LET d == c.d  r == Rank(c)  per == LoraLayerParamCount(d, r) IN
  [i \in 1..2*Depth(c) |->
     LET l == (i + 1) \div 2  o == (l - 1) * per + (IF i % 2 = 1 THEN 0 ELSE 2*d*r) IN
     [layer |-> l, target |-> IF i % 2 = 1 THEN "attn_q" ELSE "attn_v",
      A |-> Slice(o, d*r), B |-> Slice(o + d*r, d*r)]]

(* mergeLoraWeights: where the delta of an adapter is added.                 *)
MergedInto(c, adapter) ==
  (CHOOSE t \in ToSet(TensorLayout(c)) :
     t.of.layer = adapter.layer /\ t.of.kind = adapter.target).slice

(* loraAdapterTensors: the tensors of an adapter-only export.                *)
AdapterTensors(c) ==
  [i \in 1..4 * Depth(c) |->
     LET a == LoraAdaptersFor(c)[(i + 1) \div 2] IN IF i % 2 = 1 THEN a.A ELSE a.B]

-----------------------------------------------------------------------------
(* The containers; sizes and offsets in bytes of 4 to an element.            *)
Alignment == 32
Bytes(slices) == [i \in DOMAIN slices |-> 4 * slices[i].length]

(* writeGguf: the offsets in the tensor infos, relative to the data section. *)
GgufOffset(slices, i) == Laid(0, Bytes(slices), Alignment)[i-1]

(* Mutant: the tensors are written without padding between them. *)
GgufUnpadded(header, slices, i) ==
  Laid(RoundUp(header, Alignment), Bytes(slices), 1)[i-1]

(* ByteWriter, padTo: where a tensor is written after a header of that size. *)
GgufWritten(header, slices, i) ==
  Laid(RoundUp(header, Alignment), Bytes(slices), Alignment)[i-1]

(* writeSafetensors: data_offsets, relative to the end of the padded header. *)
SafetensorsOffsets(slices, i) ==
  LET o == Before(Bytes(slices), i) IN <<o, o + Bytes(slices)[i]>>

-----------------------------------------------------------------------------
(* Tiles(s, n): the slices cover 0..n-1 one after the other.                 *)
Tiles(slices, n) ==
  /\ \A i \in DOMAIN slices :
       slices[i].start = IF i = 1 THEN 0 ELSE End(slices[i-1])
  /\ slices # <<>> => End(slices[Len(slices)]) = n

(* The layout table of the exporters is the layout of the constructor.       *)
LayoutIsConstructors(c) ==
  LET t == TensorLayout(c) IN
  /\ Tiles([i \in DOMAIN t |-> t[i].slice], ParamCountFor(c))
  /\ \A i \in DOMAIN t : t[i].of.layer > 0 =>
       t[i].slice = LayerSlices(c, t[i].of.layer)[t[i].of.kind]

(* An adapter is exported from, and merged into, what the forward pass uses. *)
AdaptersAreConstructors(c) ==
  c.lora =>
    /\ Tiles(AdapterTensors(c), LoraParamCountFor(c))
    /\ \A i \in DOMAIN LoraAdaptersFor(c) :
         LET a == LoraAdaptersFor(c)[i]  s == LoraSlices(c, a.layer) IN
         /\ <<a.A, a.B>> = IF a.target = "attn_q" THEN <<s.aq, s.bq>> ELSE <<s.av, s.bv>>
         /\ MergedInto(c, a) = LayerSlices(c, a.layer)[a.target]
    /\ LET s == StateSlices(c) IN
       Tiles(<<Slice(0, 1), s.m, s.v, s.lora, s.loraM, s.loraV>>, TrainerStateLengthFor(c))

(* A reader that follows a file's offsets finds the tensor written there,    *)
(* whatever the length of the header.                                        *)
FilesAddressTensors(slices) ==
  \A i \in DOMAIN slices :
    /\ \A header \in 1..Alignment :
         GgufWritten(header, slices, i) = RoundUp(header, Alignment) + GgufOffset(slices, i)
    /\ SafetensorsOffsets(slices, i)[2] =
         IF i = Len(slices) THEN SumOf(Bytes(slices))
         ELSE SafetensorsOffsets(slices, i + 1)[1]
=============================================================================
