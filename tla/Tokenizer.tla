------------------------------ MODULE Tokenizer ------------------------------
(***************************************************************************)
(* TokenizerNode.run over one output file, with the SQLite warehouse       *)
(* (DatasetDB.findByKey, loadTokens, createWriter) it mirrors its tokens   *)
(* into.  An action is the code between two awaits, so a cancellation, an  *)
(* exception or the death of the process can come between any two of them. *)
(*                                                                         *)
(* Tokens are abstracted to chunks: the stream of a cache key is Chunks    *)
(* chunks long, and what a file or a dataset holds is the number of leading *)
(* chunks and the key they belong to.  A merge table is named by the key   *)
(* it was trained for.                                                     *)
(***************************************************************************)
EXTENDS Naturals

CONSTANTS Keys,      (* cache keys: data set identity and parameters        *)
          NoKey,     (* no such file                                        *)
          Corrupt,   (* a JSON file that does not parse: its write was cut  *)
          Chunks,    (* chunks in a complete stream                         *)
          BatchRows, (* rows per warehouse transaction                      *)
          Faults     (* which of "cancel", "throw", "crash" may happen      *)

ASSUME TokenizerAssumption ==
  /\ NoKey \notin Keys /\ Corrupt \notin Keys /\ NoKey # Corrupt
  /\ Chunks \in Nat \ {0} /\ BatchRows \in Nat \ {0}
  /\ Faults \subseteq {"cancel", "throw", "crash"}

VARIABLES
  bin,      (* outPath: whose chunks it holds and how many                  *)
  tok,      (* tokPath: whose merge table                                   *)
  cache,    (* cachePath: the key in the manifest                           *)
  rows,     (* datasets and shards: chunks stored under a key, or Absent    *)
  pc,       (* the await the run stands at                                  *)
  key,      (* cacheKey of the run                                          *)
  aborted,  (* ctx.signal.aborted                                           *)
  written,  (* chunks encoded so far                                        *)
  pending,  (* appended rows the shard writer has not flushed               *)
  served,   (* what the last run returned                                   *)
  cutShort, (* history: keys whose encoding phase last ended by an          *)
            (* exception or a crash                                         *)
  tainted   (* history: some write of the output files was not completed    *)

files    == <<bin, tok, cache>>
progress == <<written, pending>>
history  == <<cutShort, tainted>>
vars     == <<files, rows, pc, key, aborted, progress, served, history>>

Absent  == Chunks + 1
NoBin   == [of |-> NoKey, n |-> 0]
Nothing == [asked |-> NoKey, bin |-> NoBin, tok |-> NoKey, via |-> "nothing"]

Init ==
  /\ bin = NoBin /\ tok = NoKey /\ cache = NoKey
  /\ rows = [k \in Keys |-> Absent]
  /\ pc = "idle" /\ key = NoKey /\ aborted = FALSE
  /\ written = 0 /\ pending = 0
  /\ served = Nothing /\ cutShort = {} /\ tainted = FALSE

(* The awaits that leave an output file unfinished, and those among them   *)
(* at which the shard writer is open.                                      *)
Encoding == {"encode", "close", "writeTok"}
Writing  == Encoding \cup {"copyBin", "copyTok", "copyManifest", "writeManifest"}

Return(via) ==
  /\ served' = [asked |-> key, bin |-> bin', tok |-> tok', via |-> via]
  /\ pc' = "idle"

-----------------------------------------------------------------------------
Start(k) ==
  /\ pc = "idle"
  /\ key' = k /\ aborted' = FALSE /\ served' = Nothing
  /\ pc' = "manifest"
  /\ UNCHANGED <<files, rows, progress, history>>

(* Mutant: the dataset is not looked up. *)
NeverStored == pc' = "sample" /\ UNCHANGED bin

(* findByKey: a row with this key is taken for the dataset, and its shards *)
(* are written out; otherwise the stream is sampled.                       *)
ConsultWarehouse ==
  IF rows[key] # Absent
  THEN pc' = "copyBin" /\ bin' = [of |-> key, n |-> 0]
  ELSE pc' = "sample" /\ UNCHANGED bin

(* Mutant: the manifest's key is not compared. *)
AnyManifest == cache \in Keys /\ bin # NoBin /\ tok # NoKey

(* The three files exist and the manifest names this run's key. *)
ManifestMatches == cache = key /\ bin # NoBin /\ tok # NoKey

ReadManifest ==
  /\ pc = "manifest"
  /\ IF ManifestMatches THEN pc' = "readTok" /\ UNCHANGED bin ELSE ConsultWarehouse
  /\ UNCHANGED <<tok, cache, rows, key, aborted, progress, served, history>>

(* The cache hit: a tokenizer file that does not parse is a miss. *)
ReadTokenizer ==
  /\ pc = "readTok"
  /\ IF tok # Corrupt THEN UNCHANGED bin /\ UNCHANGED tok /\ Return("cache")
     ELSE ConsultWarehouse /\ UNCHANGED <<tok, served>>
  /\ UNCHANGED <<cache, rows, key, aborted, progress, history>>

(* The warehouse hit: three files are written one after the other; each    *)
(* write truncates its file first.                                         *)
CopyBin ==
  /\ pc = "copyBin"
  /\ bin' = [of |-> key, n |-> rows[key]]
  /\ tok' = Corrupt
  /\ pc' = "copyTok"
  /\ UNCHANGED <<cache, rows, key, aborted, progress, served, history>>

CopyTokenizer ==
  /\ pc = "copyTok"
  /\ tok' = key
  /\ cache' = Corrupt
  /\ pc' = "copyManifest"
  /\ UNCHANGED <<bin, rows, key, aborted, progress, served, history>>

CopyManifest ==
  /\ pc = "copyManifest"
  /\ cache' = key
  /\ UNCHANGED <<bin, tok, rows, key, aborted, progress, history>>
  /\ Return("warehouse")

-----------------------------------------------------------------------------
(* Sampling and BPE training keep everything in memory, and throw when     *)
(* cancelled.                                                              *)
SampleDone ==
  /\ pc = "sample" /\ ~aborted
  /\ pc' = "bpe"
  /\ UNCHANGED <<files, rows, key, aborted, progress, served, history>>

LearningCancelled ==
  /\ pc \in {"sample", "bpe"} /\ aborted
  /\ pc' = "idle"
  /\ UNCHANGED <<files, rows, key, aborted, progress, served, history>>

(* The stream or a worker throws. *)
LearningThrows ==
  /\ "throw" \in Faults
  /\ pc \in {"sample", "bpe"}
  /\ pc' = "idle"
  /\ UNCHANGED <<files, rows, key, aborted, progress, served, history>>

(* createWriter: an empty dataset replaces the one of this key, outside    *)
(* any transaction.                                                        *)
CreateWriter == rows' = [rows EXCEPT ![key] = 0] /\ pending' = 0

(* createWriteStream truncates the output file. *)
OpenShard ==
  /\ pc = "bpe" /\ ~aborted
  /\ bin' = [of |-> key, n |-> 0]
  /\ CreateWriter
  /\ written' = 0
  /\ pc' = "encode"
  /\ UNCHANGED <<tok, cache, key, aborted, served, history>>

(* ShardWriter.append: a full batch is committed in its own transaction. *)
AppendRow ==
  IF pending + 1 >= BatchRows
  THEN pending' = 0 /\ rows' = [rows EXCEPT ![key] = @ + pending + 1]
  ELSE pending' = pending + 1 /\ UNCHANGED rows

EncodeChunk ==
  /\ pc = "encode" /\ ~aborted /\ written < Chunks
  /\ bin' = [bin EXCEPT !.n = @ + 1]
  /\ written' = written + 1
  /\ AppendRow
  /\ UNCHANGED <<tok, cache, pc, key, aborted, served, history>>

(* Mutant: the last chunk is left out. *)
EncodeDoneEarly ==
  /\ pc = "encode"
  /\ aborted \/ written + 1 >= Chunks
  /\ pc' = "close"
  /\ UNCHANGED <<files, rows, key, aborted, progress, served, history>>

(* Mutant: a cancellation is only seen between chunks that never come. *)
EncodeDoneUncancelled ==
  /\ pc = "encode"
  /\ written = Chunks
  /\ pc' = "close"
  /\ UNCHANGED <<files, rows, key, aborted, progress, served, history>>

EncodeDone ==
  /\ pc = "encode"
  /\ aborted \/ written = Chunks
  /\ pc' = "close"
  /\ UNCHANGED <<files, rows, key, aborted, progress, served, history>>

(* The stream, a file write or a flush throws: nothing catches it here, so *)
(* neither commit nor abort of the shard writer is called.                 *)
WriteThrows ==
  /\ "throw" \in Faults
  /\ pc \in Writing
  /\ pc' = "idle"
  /\ cutShort' = IF pc \in Encoding THEN cutShort \cup {key} ELSE cutShort
  /\ tainted' = TRUE
  /\ UNCHANGED <<files, rows, key, aborted, progress, served>>

(* ws.end() resolved; the tokenizer file is written next. *)
CloseShard ==
  /\ pc = "close"
  /\ tok' = Corrupt
  /\ pc' = "writeTok"
  /\ UNCHANGED <<bin, cache, rows, key, aborted, progress, served, history>>

(* A complete run commits the remaining rows and writes the manifest... *)
Commit ==
  /\ pc = "writeTok" /\ ~aborted
  /\ tok' = key
  /\ rows' = [rows EXCEPT ![key] = @ + pending]
  /\ pending' = 0
  /\ cache' = Corrupt
  /\ cutShort' = cutShort \ {key}
  /\ pc' = "writeManifest"
  /\ UNCHANGED <<bin, key, aborted, written, served, tainted>>

(* ... a cancelled one deletes the dataset and leaves the manifest alone. *)
RollBack ==
  /\ pc = "writeTok" /\ aborted
  /\ tok' = key
  /\ rows' = [rows EXCEPT ![key] = Absent]
  /\ pending' = 0
  /\ cutShort' = cutShort \ {key}
  /\ tainted' = TRUE
  /\ UNCHANGED <<bin, cache, key, aborted, written>>
  /\ Return("cancelled")

WriteManifest ==
  /\ pc = "writeManifest"
  /\ cache' = key
  /\ UNCHANGED <<bin, tok, rows, key, aborted, progress, history>>
  /\ Return("fresh")

-----------------------------------------------------------------------------
Cancel ==
  /\ "cancel" \in Faults
  /\ pc # "idle" /\ ~aborted
  /\ aborted' = TRUE
  /\ UNCHANGED <<files, rows, pc, key, progress, served, history>>

(* The process dies: buffered bytes of the output file are lost, committed *)
(* transactions stay.                                                      *)
Crash ==
  /\ "crash" \in Faults
  /\ pc # "idle"
  /\ pc' = "idle"
  /\ IF pc \in {"encode", "close"} THEN \E m \in 0..bin.n : bin' = [bin EXCEPT !.n = m]
                                 ELSE UNCHANGED bin
  /\ cutShort' = IF pc \in Encoding THEN cutShort \cup {key} ELSE cutShort
  /\ tainted' = (tainted \/ pc \in Writing)
  /\ UNCHANGED <<tok, cache, rows, key, aborted, progress, served>>

Step ==
  \/ ReadManifest \/ ReadTokenizer
  \/ CopyBin \/ CopyTokenizer \/ CopyManifest
  \/ SampleDone \/ LearningCancelled \/ OpenShard
  \/ EncodeChunk \/ EncodeDone \/ CloseShard
  \/ Commit \/ RollBack \/ WriteManifest

Next ==
  \/ Step
  \/ Cancel \/ LearningThrows \/ WriteThrows \/ Crash
  \/ \E k \in Keys : Start(k)

(* The awaited file operations and the finite stream resolve; no fault has *)
(* to happen.                                                              *)
Spec == Init /\ [][Next]_vars /\ WF_vars(Step)

-----------------------------------------------------------------------------
Stored == [of : Keys \cup {NoKey}, n : 0..Chunks]
Places == {"idle", "manifest", "readTok", "copyBin", "copyTok", "copyManifest", "sample",
           "bpe", "encode", "close", "writeTok", "writeManifest"}

(* Types of the node's files, rows and run state. *)
TypeOK ==
  /\ bin \in Stored
  /\ tok \in Keys \cup {NoKey, Corrupt} /\ cache \in Keys \cup {NoKey, Corrupt}
  /\ rows \in [Keys -> 0..Absent]
  /\ pc \in Places /\ key \in Keys \cup {NoKey} /\ aborted \in BOOLEAN
  /\ written \in 0..Chunks /\ pending \in 0..Chunks
  /\ served \in [asked : Keys \cup {NoKey}, bin : Stored, tok : Keys \cup {NoKey, Corrupt},
                 via : {"nothing", "cache", "warehouse", "fresh", "cancelled"}]
  /\ cutShort \subseteq Keys /\ tainted \in BOOLEAN

Whole(k) == [of |-> k, n |-> Chunks]

(* The last run got the whole stream of the key it asked for, and the      *)
(* merge table that stream was encoded with.                               *)
ServedIsWhole ==
  served.bin = Whole(served.asked) /\ served.tok = served.asked

(* A run that encodes its stream itself serves all of it, whatever         *)
(* happened to earlier runs.                                               *)
FreshIsWhole == served.via = "fresh" => ServedIsWhole

(* A cache or warehouse hit serves the whole stream of its key as long as  *)
(* no earlier run left the output files half written.                      *)
HitIsWholeUnlessTainted ==
  served.via \in {"cache", "warehouse"} /\ ~tainted => ServedIsWhole

(* Between runs a dataset with only some of its shards belongs to a run    *)
(* that ended in an exception or a crash: a cancelled run leaves none.     *)
PartialOnlyIfCutShort ==
  pc = "idle" => \A k \in Keys : rows[k] \in {Absent, Chunks} \/ k \in cutShort

(* Nothing partial is stored by a run that came to its own end, and nothing*)
(* partial is served by one that encoded its stream itself.                *)
Inv == TypeOK /\ FreshIsWhole /\ PartialOnlyIfCutShort

(* A complete dataset is never lost: a run replaces the dataset of its key *)
(* only when there was none, and rolls back only its own.                  *)
CompleteIsKept ==
  [][\A k \in Keys : rows[k] = Chunks /\ (pc \notin Encoding \/ k # key)
        => rows'[k] = Chunks]_vars

(* Every run ends. *)
RunEnds == pc # "idle" ~> pc = "idle"

(***************************************************************************)
(* The inductive invariant behind the safety properties (TokenizerProofs). *)
(***************************************************************************)

(* A run under way has a key and has returned nothing yet.                 *)
OneRunAtATime == pc # "idle" => key \in Keys /\ served.via = "nothing"

(* Manifest and warehouse are consulted before the stream is: a run that   *)
(* reads the merge table found its key, one that samples, or trains, has no *)
(* dataset under its key, and one that copies has one.                     *)
Consulted ==
  /\ pc = "readTok" => cache = key
  /\ pc \in {"sample", "bpe"} => rows[key] = Absent
  /\ pc = "copyBin" => rows[key] # Absent

(* While a run encodes, what it has written is in the file, and in the     *)
(* dataset but for the rows of an unfinished batch; only a cancelled run   *)
(* leaves the loop before the end of the stream.                           *)
EncodedInBoth ==
  /\ pc \in Encoding =>
       bin = [of |-> key, n |-> written] /\ rows[key] + pending = written
  /\ pc \in {"close", "writeTok"} => aborted \/ written = Chunks
  /\ pc = "writeManifest" => bin = Whole(key) /\ tok = key

(* A dataset that is neither missing nor complete was cut short, or is the *)
(* one being written.                                                      *)
PartialHasCause ==
  \A k \in Keys :
    rows[k] \in {Absent, Chunks} \/ k \in cutShort \/ (k = key /\ pc \in Encoding)

(* As long as every write of the output files was completed, the three     *)
(* files of the node agree whenever none of them is being written, and a   *)
(* copy of the warehouse is whole.                                         *)
FilesAgree ==
  ~tainted =>
    /\ cutShort = {}
    /\ pc \notin Writing /\ cache # NoKey =>
         cache \in Keys /\ bin = Whole(cache) /\ tok = cache
    /\ pc \in {"copyTok", "copyManifest"} => bin = Whole(key)
    /\ pc = "copyManifest" => tok = key

(* Output files, warehouse and the run that writes them hang together at   *)
(* every await.                                                            *)
IInv ==
  /\ Inv /\ HitIsWholeUnlessTainted
  /\ OneRunAtATime /\ Consulted /\ EncodedInBoth /\ PartialHasCause /\ FilesAgree
=============================================================================
