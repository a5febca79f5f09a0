--------------------------------- MODULE Bpe ---------------------------------
(***************************************************************************)
(* trainBpeMerges (ml/bpeParallel.ts): workers own a chunk of the sample   *)
(* each, rewrite it for every merge and answer with the change of their    *)
(* pair counts; the coordinator adds the answers up, in the order of the   *)
(* workers, and takes the next pair from a heap whose stale entries it     *)
(* discards.  And the encoder of ByteBpeTokenizer (ml/tokenizer.ts), which *)
(* applies the merges to other texts.                                      *)
(*                                                                         *)
(* A byte is a number below Bytes (256 in the code), the i-th merge makes  *)
(* the id Bytes + i; the key of a pair, a * 65536 + b, is the pair.        *)
(***************************************************************************)
EXTENDS Integers, Sequences, FiniteSetsExt, SequencesExt, Functions

CONSTANTS Bytes,     (* number of byte values            *)
          Threads,   (* number of worker threads         *)
          Samples,   (* texts to train on                *)
          Merges     (* total: targetVocab - Bytes       *)

ASSUME BpeAssumption ==
  /\ Bytes \in Nat \ {0} /\ Threads \in Nat \ {0} /\ Merges \in Nat
  /\ Samples \subseteq Seq(0..(Bytes - 1))

Workers == 1..Threads

Ids   == 0..(Bytes + Merges - 1)
Pairs == Ids \X Ids
None  == -1

VARIABLES text,    (* the chunk a worker was given                         *)
          ids,     (* what the worker has made of it                       *)
          at,      (* worker: "counting", "merging", "idle" or "gone"      *)
          reply,   (* the worker's last answer, a change per pair, or <<>> *)
          counts,  (* the coordinator's counts, 0 for a pair it lacks      *)
          heap,    (* MaxHeap: <<count, pair>>, the root first             *)
          merges,  (* the merge table so far                               *)
          phase,   (* "waiting", "choosing", "done", "aborted" or "failed" *)
          chosen   (* history: of the last merge and of the best by recount *)

vars == <<text, ids, at, reply, counts, heap, merges, phase, chosen>>

(* The contiguous chunks of a sample, one for each worker. *)
Split(sample) ==
  LET chunk == (Len(sample) + Threads - 1) \div Threads IN
  [w \in Workers |-> SubSeq(sample, (w-1)*chunk + 1, Min({Len(sample), w*chunk}))]

NoChange == [p \in Pairs |-> 0]
Bump(delta, x, y, d) ==
  IF x = None \/ y = None THEN delta ELSE [delta EXCEPT ![<<x, y>>] = @ + d]

(* Adjacent pairs, counted: op "count" and ByteBpeTokenizer.train. *)
Counted(s) == [p \in Pairs |-> Cardinality({ i \in 1..(Len(s)-1) : s[i] = p[1] /\ s[i+1] = p[2] })]

(* One pass from left to right that merges pair p, as encode makes it.        *)
RECURSIVE Pass(_, _, _)
Pass(s, p, newId) ==
  IF Len(s) < 2 THEN s
  ELSE IF s[1] = p[1] /\ s[2] = p[2]
  THEN <<newId>> \o Pass(SubSeq(s, 3, Len(s)), p, newId)
  ELSE <<s[1]>> \o Pass(Tail(s), p, newId)

(* Op "merge" of a worker: the chunk rewritten, with the changes of the      *)
(* counts around each merge; the left neighbour is read from the output.     *)
RECURSIVE Rewrite(_, _, _, _, _, _)
Rewrite(s, i, out, delta, p, newId) ==
  IF i > Len(s) THEN [ids |-> out, delta |-> delta]
  ELSE IF i < Len(s) /\ s[i] = p[1] /\ s[i+1] = p[2]
  THEN LET prev == IF out # <<>> THEN Last(out) ELSE None
           next == IF i + 2 <= Len(s) THEN s[i+2] ELSE None
           d1 == Bump(Bump(delta, prev, p[1], -1), prev, newId, 1)
           d2 == Bump(Bump(Bump(d1, p[1], p[2], -1), p[2], next, -1), newId, next, 1)
       IN Rewrite(s, i + 2, Append(out, newId), d2, p, newId)
  ELSE Rewrite(s, i + 1, Append(out, s[i]), delta, p, newId)

-----------------------------------------------------------------------------
(* MaxHeap.  Entry i has its children at 2i and 2i + 1. *)
Swap(h, i, j) == [h EXCEPT ![i] = h[j], ![j] = h[i]]

RECURSIVE SiftUp(_, _)
SiftUp(h, i) ==
  IF i = 1 \/ h[i \div 2][1] >= h[i][1] THEN h ELSE SiftUp(Swap(h, i, i \div 2), i \div 2)
Push(h, entry) == SiftUp(Append(h, entry), Len(h) + 1)

Larger(h, i, j) == IF j <= Len(h) /\ h[j][1] > h[i][1] THEN j ELSE i

(* Mutant: only the left child is looked at on the way down. *)
RECURSIVE SiftLeft(_, _)
SiftLeft(h, i) ==
  LET m == Larger(h, i, 2*i) IN IF m = i THEN h ELSE SiftLeft(Swap(h, i, m), m)

RECURSIVE SiftDown(_, _)
SiftDown(h, i) ==
  LET m == Larger(h, Larger(h, i, 2*i), 2*i + 1) IN
  IF m = i THEN h ELSE SiftDown(Swap(h, i, m), m)
Pop(h) == IF Len(h) = 1 THEN <<>> ELSE SiftDown(SubSeq(<<Last(h)>> \o Tail(h), 1, Len(h) - 1), 1)

(* absorb: one worker's changes, each with a heap entry of its own; a pair   *)
(* whose count is not positive is deleted.  An answer lists its pairs in the *)
(* order it met them, and also those whose changes cancel (their entry only  *)
(* repeats one); here the order, which settles ties, is that of the pairs.   *)
Absorb(state, delta) ==
  LET changed == SetToSortSeq({ p \in Pairs : delta[p] # 0 },
                              LAMBDA p, q : p[1] < q[1] \/ (p[1] = q[1] /\ p[2] < q[2]))
      new(p) == state.counts[p] + delta[p]
      left == SelectSeq(changed, LAMBDA p : new(p) > 0)
  IN [counts |-> [p \in Pairs |-> IF new(p) > 0 THEN new(p) ELSE 0],
      heap |-> FoldLeft(LAMBDA h, p : Push(h, <<new(p), p>>), state.heap, left)]

-----------------------------------------------------------------------------
Init ==
  /\ \E sample \in Samples : text = Split(sample)
  /\ ids = text
  /\ at = [w \in Workers |-> "counting"] /\ reply = [w \in Workers |-> <<>>]
  /\ counts = NoChange /\ heap = <<>> /\ merges = <<>>
  /\ phase = "waiting" /\ chosen = <<0, 0>>

(* A worker answers the message it was sent. *)
CountReply(w) ==
  /\ at[w] = "counting"
  /\ at' = [at EXCEPT ![w] = "idle"]
  /\ reply' = [reply EXCEPT ![w] = Counted(ids[w])]
  /\ UNCHANGED <<text, ids, counts, heap, merges, phase, chosen>>

MergeReply(w) ==
  /\ at[w] = "merging"
  /\ LET done == Rewrite(ids[w], 1, <<>>, NoChange, Last(merges), Bytes + Len(merges) - 1) IN
     /\ ids' = [ids EXCEPT ![w] = done.ids]
     /\ reply' = [reply EXCEPT ![w] = done.delta]
  /\ at' = [at EXCEPT ![w] = "idle"]
  /\ UNCHANGED <<text, counts, heap, merges, phase, chosen>>

(* finally: the workers are terminated. *)
Finish(how) == phase' = how /\ at' = [w \in Workers |-> "gone"]

(* A worker exits.  Before its answer its promise rejects and the training   *)
(* fails as a whole; after it nobody listens any more, and the next question *)
(* to it is never settled, so that the training waits for ever.              *)
WorkerDies(w) ==
  /\ phase = "waiting"
  /\ \/ at[w] \in {"counting", "merging"} /\ Finish("failed")
     \/ at[w] = "idle" /\ at' = [at EXCEPT ![w] = "gone"] /\ UNCHANGED phase
  /\ UNCHANGED <<text, ids, reply, counts, heap, merges, chosen>>

(* Promise.all: every worker has answered, those that are gone by now too.  *)
AllReplied ==
  /\ phase = "waiting" /\ \A w \in Workers : reply[w] # <<>>
  /\ LET all == FoldLeft(Absorb, [counts |-> counts, heap |-> heap],
                         [w \in Workers |-> reply[w]])
     IN counts' = all.counts /\ heap' = all.heap
  /\ reply' = [w \in Workers |-> <<>>]
  /\ phase' = "choosing"
  /\ UNCHANGED <<text, ids, at, merges, chosen>>

(* The signal is looked at once a round. *)
Aborted ==
  /\ phase = "choosing" /\ Len(merges) < Merges
  /\ Finish("aborted")
  /\ UNCHANGED <<text, ids, reply, counts, heap, merges, chosen>>

(* The heap without the stale entries at its top. *)
RECURSIVE Fresh(_)
Fresh(h) == IF h = <<>> \/ counts[h[1][2]] = h[1][1] THEN h ELSE Fresh(Pop(h))
BestCount(h) == IF h = <<>> THEN 0 ELSE h[1][1]

(* History: the most occurrences of a pair in the chunks as they are.        *)
MostFrequent == Max({ SumFunction([w \in Workers |-> Counted(ids[w])[p]]) : p \in Pairs })

(* The best pair is merged when that saves a token. *)
Choose ==
  /\ phase = "choosing" /\ Len(merges) < Merges
  /\ heap' = Fresh(heap)
  /\ BestCount(heap') >= 2
  /\ merges' = Append(merges, heap'[1][2])
  /\ chosen' = <<heap'[1][1], MostFrequent>>
  /\ at' = [w \in Workers |-> IF at[w] = "gone" THEN "gone" ELSE "merging"]
  /\ phase' = "waiting"
  /\ UNCHANGED <<text, ids, reply, counts>>

(* The table is full, or no pair is worth it. *)
Stop ==
  /\ phase = "choosing"
  /\ IF Len(merges) >= Merges THEN heap' = heap
     ELSE heap' = Fresh(heap) /\ BestCount(heap') < 2
  /\ Finish("done")
  /\ UNCHANGED <<text, ids, reply, counts, merges, chosen>>

Next == \/ \E w \in Workers : CountReply(w) \/ MergeReply(w) \/ WorkerDies(w)
        \/ AllReplied \/ Aborted \/ Choose \/ Stop

Spec == Init /\ [][Next]_vars

-----------------------------------------------------------------------------
(* ByteBpeTokenizer.encode and decode with the table learned so far.         *)
Rank(p) == IF p \in Range(merges) THEN { i \in DOMAIN merges : merges[i] = p } ELSE {}
Ranks(s) == UNION { Rank(<<s[i], s[i+1]>>) : i \in 1..(Len(s)-1) }

(* Mutant: the highest applicable merge is applied first. *)
RECURSIVE EncodeLast(_)
EncodeLast(s) ==
  IF Ranks(s) = {} THEN s
  ELSE LET r == Max(Ranks(s)) IN EncodeLast(Pass(s, merges[r], Bytes + r - 1))

RECURSIVE Encode(_)
Encode(s) ==
  IF Ranks(s) = {} THEN s
  ELSE LET r == Min(Ranks(s)) IN Encode(Pass(s, merges[r], Bytes + r - 1))

RECURSIVE Expand(_)
Expand(id) == IF id < Bytes THEN <<id>>
              ELSE Expand(merges[id - Bytes + 1][1]) \o Expand(merges[id - Bytes + 1][2])
Decode(s) == FlattenSeq([i \in DOMAIN s |-> Expand(s[i])])

(* Every merge takes the pair that a recount of the chunks would choose, and *)
(* training stops by itself only when the table is full or no pair occurs    *)
(* twice: the counts kept by adding up the workers' changes stay exact, runs *)
(* of one id included, and neither a stale entry nor the heap's order hides a*)
(* better pair.                                                              *)
BestPairFirst ==
  /\ chosen[1] = chosen[2]
  /\ phase = "done" /\ Len(merges) < Merges => MostFrequent < 2

(* Encoding a chunk with the table that was learned gives what training made *)
(* of it, and decoding that gives the chunk back: applying the lowest rank   *)
(* first retraces the merges in their order.                                 *)
EncodesAsTrained ==
  phase \in {"choosing", "done"} =>
    \A w \in Workers : Encode(text[w]) = ids[w] /\ Decode(ids[w]) = text[w]
=============================================================================
