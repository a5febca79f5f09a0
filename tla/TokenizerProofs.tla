---------------------------- MODULE TokenizerProofs ----------------------------
(***************************************************************************)
(* Proofs about Tokenizer, for every set of cache keys, every length of    *)
(* the stream, every size of a batch and any of the faults.                *)
(***************************************************************************)
EXTENDS Tokenizer, TLAPS

(* What a run has returned before it returns anything is well typed. *)
LEMMA NothingType ==
  Nothing \in [asked : Keys \cup {NoKey}, bin : Stored, tok : Keys \cup {NoKey, Corrupt},
               via : {"nothing", "cache", "warehouse", "fresh", "cancelled"}]
<1>1. NoBin \in Stored
  BY TokenizerAssumption DEF NoBin, Stored
<1>. QED
  BY <1>1 DEF Nothing

(* The initial state satisfies the inductive invariant. *)
LEMMA InitInvariant == Init => IInv
<1>. SUFFICES ASSUME Init PROVE IInv
  OBVIOUS
<1>. USE TokenizerAssumption DEF Init
<1>1. TypeOK
  <2>1. bin \in Stored /\ rows \in [Keys -> 0..Absent]
    BY DEF NoBin, Stored, Absent
  <2>2. served \in [asked : Keys \cup {NoKey}, bin : Stored, tok : Keys \cup {NoKey, Corrupt},
                    via : {"nothing", "cache", "warehouse", "fresh", "cancelled"}]
    BY NothingType
  <2>3. pc \in Places /\ written \in 0..Chunks /\ pending \in 0..Chunks
    BY DEF Places
  <2>. QED
    BY <2>1, <2>2, <2>3 DEF TypeOK
<1>2. FreshIsWhole /\ PartialOnlyIfCutShort /\ HitIsWholeUnlessTainted
  BY DEF FreshIsWhole, PartialOnlyIfCutShort, HitIsWholeUnlessTainted, Nothing
<1>3. OneRunAtATime /\ Consulted /\ EncodedInBoth /\ PartialHasCause /\ FilesAgree
  BY DEF OneRunAtATime, Consulted, EncodedInBoth, PartialHasCause, FilesAgree, Encoding, Writing, Nothing
<1>. QED
  BY <1>1, <1>2, <1>3 DEF IInv, Inv

(* Every step preserves it. *)
LEMMA NextInvariant == IInv /\ [Next]_vars => IInv'
<1>. SUFFICES ASSUME IInv, [Next]_vars PROVE IInv'
  OBVIOUS
<1>. USE TokenizerAssumption
     DEF IInv, Inv, TypeOK, FreshIsWhole, PartialOnlyIfCutShort, HitIsWholeUnlessTainted,
         OneRunAtATime, Consulted, EncodedInBoth, PartialHasCause, FilesAgree, NoBin, Nothing,
         Absent, Encoding, Writing, Stored, Places, Whole, ServedIsWhole, files, progress, history
<1>1. CASE ReadManifest
  BY <1>1 DEF ReadManifest, ManifestMatches, ConsultWarehouse
<1>2. CASE ReadTokenizer
  BY <1>2 DEF ReadTokenizer, ConsultWarehouse, Return
<1>3. CASE CopyBin
  BY <1>3 DEF CopyBin
<1>4. CASE CopyTokenizer
  BY <1>4 DEF CopyTokenizer
<1>5. CASE CopyManifest
  BY <1>5 DEF CopyManifest, Return
<1>6. CASE SampleDone
  BY <1>6 DEF SampleDone
<1>7. CASE LearningCancelled
  BY <1>7 DEF LearningCancelled
<1>8. CASE OpenShard
  BY <1>8 DEF OpenShard, CreateWriter
<1>9. CASE EncodeChunk
  BY <1>9 DEF EncodeChunk, AppendRow
<1>10. CASE EncodeDone
  BY <1>10 DEF EncodeDone
<1>11. CASE CloseShard
  BY <1>11 DEF CloseShard
<1>12. CASE Commit
  BY <1>12 DEF Commit
<1>13. CASE RollBack
  BY <1>13 DEF RollBack, Return
<1>14. CASE WriteManifest
  BY <1>14 DEF WriteManifest, Return
<1>15. CASE Cancel
  BY <1>15 DEF Cancel
<1>16. CASE LearningThrows
  BY <1>16 DEF LearningThrows
<1>17. CASE WriteThrows
  BY <1>17 DEF WriteThrows
<1>18. CASE Crash
  <2>1. TypeOK'
    BY <1>18 DEF Crash
  <2>2. FreshIsWhole' /\ PartialOnlyIfCutShort' /\ HitIsWholeUnlessTainted'
    BY <1>18 DEF Crash
  <2>3. OneRunAtATime' /\ Consulted' /\ EncodedInBoth'
    BY <1>18 DEF Crash
  <2>4. PartialHasCause' /\ FilesAgree'
    BY <1>18 DEF Crash
  <2>. QED
    BY <2>1, <2>2, <2>3, <2>4
<1>19. ASSUME NEW k \in Keys, Start(k) PROVE IInv'
  <2>1. TypeOK'
    <3>1. served' \in [asked : Keys \cup {NoKey}, bin : Stored, tok : Keys \cup {NoKey, Corrupt},
                       via : {"nothing", "cache", "warehouse", "fresh", "cancelled"}]
      BY <1>19, NothingType DEF Start
    <3>. QED
      BY <1>19, <3>1 DEF Start
  <2>2. FreshIsWhole' /\ PartialOnlyIfCutShort' /\ HitIsWholeUnlessTainted'
    BY <1>19 DEF Start
  <2>3. OneRunAtATime' /\ Consulted' /\ EncodedInBoth'
    BY <1>19 DEF Start
  <2>4. PartialHasCause' /\ FilesAgree'
    BY <1>19 DEF Start
  <2>. QED
    BY <2>1, <2>2, <2>3, <2>4
<1>20. CASE UNCHANGED vars
  BY <1>20 DEF vars
<1>. QED
  BY <1>1, <1>2, <1>3, <1>4, <1>5, <1>6, <1>7, <1>8, <1>9, <1>10, <1>11, <1>12, <1>13, <1>14, <1>15, <1>16, <1>17, <1>18, <1>19, <1>20 DEF Next, Step

-----------------------------------------------------------------------------
(* The inductive invariant holds throughout: a cancelled or completed run    *)
(* stores nothing partial, and a run that encodes its stream itself serves   *)
(* all of it.                                                                *)
THEOREM Invariance == Spec => []IInv
  BY InitInvariant, NextInvariant, PTL DEF Spec

(* A cache or warehouse hit serves the whole stream of its key, unless a     *)
(* write of the output files was left unfinished before.                     *)
THEOREM HitIsWhole == Spec => []HitIsWholeUnlessTainted
<1>1. IInv => HitIsWholeUnlessTainted
  BY DEF IInv
<1>. QED
  BY Invariance, <1>1, PTL

(* No run of any key, however it ends, loses a dataset that is complete.     *)
THEOREM CompleteStays == Spec => CompleteIsKept
<1>1. ASSUME IInv, [Next]_vars, NEW k \in Keys, rows[k] = Chunks,
             pc \notin Encoding \/ k # key
      PROVE  rows'[k] = Chunks
  <2>. USE <1>1, TokenizerAssumption DEF IInv, Inv, TypeOK, Encoding
  <2>1. CASE OpenShard
    BY <2>1 DEF OpenShard, CreateWriter, Consulted, Absent
  <2>2. CASE EncodeChunk
    BY <2>2 DEF EncodeChunk, AppendRow
  <2>3. CASE Commit
    BY <2>3 DEF Commit
  <2>4. CASE RollBack
    BY <2>4 DEF RollBack
  <2>5. CASE UNCHANGED rows
    BY <2>5
  <2>. QED
    BY <2>1, <2>2, <2>3, <2>4, <2>5
    DEF Next, Step, ReadManifest, ReadTokenizer, CopyBin, CopyTokenizer, CopyManifest, SampleDone,
        LearningCancelled, EncodeDone, CloseShard, WriteManifest, Cancel, LearningThrows,
        WriteThrows, Crash, Start, vars
<1>2. IInv /\ [Next]_vars =>
        [\A k \in Keys : rows[k] = Chunks /\ (pc \notin Encoding \/ k # key)
           => rows'[k] = Chunks]_vars
  BY <1>1
<1>. QED
  BY Invariance, <1>2, PTL DEF Spec, CompleteIsKept
=============================================================================
