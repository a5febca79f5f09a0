-------------------------------- MODULE Ingest --------------------------------
(***************************************************************************)
(* JsIngestionNode: streamDocs pages through the rows API of the dataset   *)
(* server, config by config, and gives up on it for streamParquetRaw, which*)
(* looks the files of the config up and recovers documents from the bytes  *)
(* of each: maximal runs of printable characters, read in chunks of any    *)
(* size.  Each step ends where the generator awaits or yields.             *)
(*                                                                         *)
(* A file is a sequence of booleans: is this character printable?  The     *)
(* rows API serves the same runs, one per row, so that the same document   *)
(* from both sources is the same value.                                    *)
(***************************************************************************)
EXTENDS Integers, Sequences, SequencesExt, FiniteSetsExt

CONSTANTS Configs,    (* resolveConfigs' result: a sequence of keys         *)
          Candidates, (* the keys of the root index to try, per config      *)
          Shards,     (* files of each key, a sequence of sequences         *)
          MaxDocs, PageSize, MaxRetries,
          MinRun,     (* MIN_RAW_DOC_CHARS, the shortest document           *)
          MaxCarry,   (* a longer unfinished run is given out in pieces     *)
          MaxLimited  (* bound: answers with status 429                     *)

ASSUME IngestAssumption ==
  /\ Configs # <<>> /\ MaxDocs \in Nat /\ PageSize \in Nat \ {0}
  /\ MaxRetries \in Nat /\ MinRun \in Nat \ {0} /\ MaxCarry >= MinRun

Longest == Max(UNION { { Len(Shards[key][f]) : f \in DOMAIN Shards[key] } : key \in DOMAIN Shards })

VARIABLES at,         (* where the generator is                             *)
          config,     (* index of the config being streamed                 *)
          offset, page, row,  (* rows API: offset, the page, its next row   *)
          retries,    (* failed requests since the last healthy page        *)
          fallback,   (* useFallback                                        *)
          docs, configDocs,   (* delivered so far, and of this config       *)
          files, shard,       (* streamParquetRaw: a key, the file's index  *)
          read, scanned,      (* characters read, and not in the carry      *)
          found,      (* runs of the last chunk that are still to be yielded*)
          aborted,    (* ctx.signal.aborted                                 *)
          published,  (* what the parquet export offers: keys               *)
          limited,    (* answers with status 429 so far                     *)
          out         (* the documents delivered: config, route, document   *)

vars == <<at, config, offset, page, row, retries, fallback, docs, configDocs,
          files, shard, read, scanned, found, aborted, published, limited, out>>
paging == <<offset, page, row>>
raw == <<files, shard, read, scanned, found>>
given == <<published, aborted>>
counts == <<docs, configDocs, out>>

NoKey == "none"
Over == {"ended", "failed"}

(* The maximal printable runs of text, in order, as [at, len] records. *)
Runs(text) ==
  LET starts == { i \in DOMAIN text : text[i] /\ (i = 1 \/ ~text[i-1]) }
      end(i) == Min({ j \in i..Len(text) : j = Len(text) \/ ~text[j+1] })
  IN [n \in 1..Cardinality(starts) |->
        LET i == SetToSortSeq(starts, <)[n] IN [at |-> i, len |-> end(i) - i + 1]]

(* Rows of a config: every run of its files is one row, junk when too short. *)
Tagged(key, f) == [n \in DOMAIN Runs(Shards[key][f]) |->
                     [key |-> key, file |-> f] @@ Runs(Shards[key][f])[n]]
Rows(key) == FlattenSeq([f \in DOMAIN Shards[key] |-> Tagged(key, f)])
LongEnough(doc) == doc.len >= MinRun

PerConfig == (MaxDocs + Len(Configs) - 1) \div Len(Configs)
Key == Configs[config]
Wanted == docs < MaxDocs /\ configDocs < PerConfig /\ ~aborted

Init ==
  /\ at = "head" /\ config = 1 /\ offset = 0 /\ page = <<>> /\ row = 0
  /\ retries = 0 /\ fallback = FALSE /\ docs = 0 /\ configDocs = 0
  /\ files = NoKey /\ shard = 0 /\ read = 0 /\ scanned = 0 /\ found = <<>>
  /\ aborted = FALSE /\ published \in SUBSET (DOMAIN Shards) /\ limited = 0 /\ out = <<>>

Abort ==
  /\ ~aborted /\ at \notin Over
  /\ aborted' = TRUE
  /\ UNCHANGED <<at, config, paging, retries, fallback, raw, counts, published, limited>>

Goto(place) == at' = place
Deliver(doc, route) ==
  /\ docs' = docs + 1 /\ configDocs' = configDocs + 1
  /\ out' = Append(out, [config |-> config, route |-> route, doc |-> doc])

-----------------------------------------------------------------------------
(* The head of the paging loop. *)
PageHead ==
  /\ at = "head"
  /\ Goto(IF Wanted THEN "fetching" ELSE "paged")
  /\ UNCHANGED <<config, paging, retries, fallback, raw, counts, given, limited>>

(* Mutant: attempts are not counted. *)
RetryForever ==
  /\ at = "fetching" /\ ~aborted
  /\ Goto("waiting")
  /\ UNCHANGED <<config, paging, retries, fallback, raw, counts, given, limited>>

(* fetch rejects: an abort, or a transient failure that is tried again. *)
RequestFails ==
  /\ at = "fetching"
  /\ \/ aborted /\ Goto("ended") /\ UNCHANGED <<retries, fallback>>
     \/ /\ ~aborted /\ retries < MaxRetries
        /\ retries' = retries + 1 /\ Goto("waiting") /\ UNCHANGED fallback
     \/ /\ ~aborted /\ retries = MaxRetries
        /\ fallback' = TRUE /\ Goto("paged") /\ UNCHANGED retries
  /\ UNCHANGED <<config, paging, raw, counts, given, limited>>

RateLimited ==
  /\ at = "fetching" /\ limited < MaxLimited
  /\ limited' = limited + 1 /\ Goto("waiting")
  /\ UNCHANGED <<config, paging, retries, fallback, raw, counts, given>>

(* sleep resolves: its time is up or the signal came. *)
Wakes ==
  /\ at = "waiting"
  /\ Goto("head")
  /\ UNCHANGED <<config, paging, retries, fallback, raw, counts, given, limited>>

(* Any other status: the raw fallback at once. *)
Refused ==
  /\ at = "fetching"
  /\ fallback' = TRUE /\ Goto("paged")
  /\ UNCHANGED <<config, paging, retries, raw, counts, given, limited>>

(* A healthy page: rows beyond the last one give an empty page. *)
GotPage ==
  /\ at = "fetching"
  /\ retries' = 0
  /\ page' = SubSeq(Rows(Key), offset + 1, Min({offset + PageSize, Len(Rows(Key))}))
  /\ row' = 1
  /\ Goto(IF page' = <<>> THEN "paged" ELSE "rows")
  /\ UNCHANGED <<config, offset, fallback, raw, counts, given, limited>>

(* Its body cannot be read or parsed, or the signal came meanwhile: nothing  *)
(* catches that, and the stream throws.                                      *)
PageBroken ==
  /\ at = "fetching"
  /\ Goto("failed")
  /\ UNCHANGED <<config, paging, retries, fallback, raw, counts, given, limited>>

(* Mutant: the offset moves by what was delivered. *)
PageDoneByDocs ==
  /\ at = "rows" /\ (row > Len(page) \/ ~Wanted)
  /\ offset' = offset + Len(SelectSeq(page, LongEnough))
  /\ Goto("head")
  /\ UNCHANGED <<config, page, row, retries, fallback, raw, counts, given, limited>>

(* The page is used up, or the loop over it breaks off. *)
PageDone ==
  /\ at = "rows" /\ (row > Len(page) \/ ~Wanted)
  /\ offset' = offset + Len(page)
  /\ Goto("head")
  /\ UNCHANGED <<config, page, row, retries, fallback, raw, counts, given, limited>>

(* The next row: junk is skipped, a document is yielded. *)
TakeRow ==
  /\ at = "rows" /\ row <= Len(page) /\ Wanted
  /\ row' = row + 1
  /\ IF LongEnough(page[row]) THEN Deliver(page[row], "rows") ELSE UNCHANGED counts
  /\ UNCHANGED <<at, config, offset, page, retries, fallback, raw, given, limited>>

-----------------------------------------------------------------------------
(* After the paging loop: the fallback starts over, from the first file.     *)
Paged ==
  /\ at = "paged"
  /\ Goto(IF fallback /\ ~aborted THEN "index" ELSE "next")
  /\ UNCHANGED <<config, paging, retries, fallback, raw, counts, given, limited>>

StartFiles(key) == files' = key /\ shard' = 1 /\ read' = 0 /\ scanned' = 0 /\ found' = <<>>

(* The endpoint of the config lists its files, or the root index does under  *)
(* the first candidate key it publishes; with no such key the config is left *)
(* out.                                                                      *)
FindFiles ==
  /\ at = "index"
  /\ LET offered == SelectSeq(Candidates[Key], LAMBDA key : key \in published) IN
     IF offered = <<>> THEN Goto("next") /\ UNCHANGED raw
     ELSE StartFiles(offered[1]) /\ Goto("shard")
  /\ UNCHANGED <<config, paging, retries, fallback, counts, given, limited>>

(* Both endpoints fail: an abort of the first ends the fallback quietly, a   *)
(* failure of the second throws.                                             *)
NoIndex ==
  /\ at = "index"
  /\ Goto("failed") \/ (aborted /\ Goto("next"))
  /\ UNCHANGED <<config, paging, retries, fallback, raw, counts, given, limited>>

NextFile == shard' = shard + 1 /\ read' = 0 /\ scanned' = 0 /\ found' = <<>> /\ UNCHANGED files
Text == Shards[files][shard]

(* The next file: opened, skipped when its request fails, or there is none.  *)
OpenShard ==
  /\ at = "shard"
  /\ \/ (shard > Len(Shards[files]) \/ aborted) /\ Goto("next") /\ UNCHANGED raw
     \/ shard <= Len(Shards[files]) /\ ~aborted /\ Goto("reading") /\ UNCHANGED raw
     \/ shard <= Len(Shards[files]) /\ ~aborted /\ UNCHANGED at /\ NextFile
  /\ UNCHANGED <<config, paging, retries, fallback, counts, given, limited>>

(* Where the printable suffix of the characters read up to n begins. *)
HoldFrom(n) == Max({scanned} \cup { i \in (scanned+1)..n : ~Text[i] })
At(run, start) == [key |-> files, file |-> shard, at |-> run.at + start, len |-> run.len]

(* The runs of at least MinRun characters between two places of the file. *)
RunsBetween(from, to) ==
  SelectSeq([n \in DOMAIN Runs(SubSeq(Text, from + 1, to)) |->
               At(Runs(SubSeq(Text, from + 1, to))[n], from)], LongEnough)

(* Mutant: all of a chunk is scanned and nothing is carried over. *)
ChunkWithoutCarry(n) ==
  /\ at = "reading" /\ found = <<>> /\ ~aborted
  /\ n > read /\ n <= Len(Text)
  /\ read' = n /\ scanned' = n
  /\ found' = RunsBetween(scanned, n)
  /\ UNCHANGED <<at, config, paging, retries, fallback, files, shard, counts, given, limited>>

(* A chunk: the runs that ended in it are found, an unfinished one is carried*)
(* over, unless it is too long already.                                      *)
Chunk(n) ==
  /\ at = "reading" /\ found = <<>> /\ ~aborted
  /\ n > read /\ n <= Len(Text)
  /\ LET hold == HoldFrom(n)
         long == n - hold > MaxCarry
     IN /\ read' = n
        /\ scanned' = IF long THEN n ELSE hold
        /\ found' = RunsBetween(scanned, hold)
                      \o (IF long THEN <<At([at |-> 1, len |-> n - hold], hold)>> ELSE <<>>)
  /\ UNCHANGED <<at, config, paging, retries, fallback, files, shard, counts, given, limited>>

(* The end of the file, or an abort: what is carried over is the last run.   *)
EndOfFile ==
  /\ at = "reading" /\ found = <<>>
  /\ read = Len(Text) \/ aborted
  /\ IF read - scanned >= MinRun
     THEN /\ found' = <<At([at |-> 1, len |-> read - scanned], scanned)>>
          /\ Goto("last") /\ UNCHANGED <<files, shard, read, scanned>>
     ELSE Goto("shard") /\ NextFile
  /\ UNCHANGED <<config, paging, retries, fallback, counts, given, limited>>

(* The connection breaks while a file is read: nothing catches that. *)
ReadFails ==
  /\ at = "reading" /\ found = <<>>
  /\ Goto("failed")
  /\ UNCHANGED <<config, paging, retries, fallback, raw, counts, given, limited>>

(* streamDocs takes a run, or breaks off, which ends the fallback.           *)
TakeRun ==
  /\ at \in {"reading", "last"} /\ found # <<>>
  /\ IF Wanted
     THEN /\ Deliver(Head(found), "raw")
          /\ IF at = "last" THEN Goto("shard") /\ NextFile
             ELSE found' = Tail(found) /\ UNCHANGED <<at, files, shard, read, scanned>>
     ELSE Goto("next") /\ found' = <<>> /\ UNCHANGED <<files, shard, read, scanned, counts>>
  /\ UNCHANGED <<config, paging, retries, fallback, given, limited>>

(* The next config, or the end. *)
NextConfig ==
  /\ at = "next"
  /\ IF docs >= MaxDocs \/ aborted \/ config = Len(Configs)
     THEN Goto("ended") /\ UNCHANGED <<config, offset, retries, fallback, configDocs>>
     ELSE /\ Goto("head") /\ config' = config + 1
          /\ offset' = 0 /\ retries' = 0 /\ fallback' = FALSE /\ configDocs' = 0
  /\ UNCHANGED <<page, row, raw, docs, given, limited, out>>

-----------------------------------------------------------------------------
Work ==
  \/ PageHead \/ RequestFails \/ Wakes \/ Refused \/ GotPage \/ PageBroken
  \/ PageDone \/ TakeRow \/ Paged \/ FindFiles \/ NoIndex \/ OpenShard
  \/ \E n \in 1..Longest : Chunk(n)
  \/ EndOfFile \/ ReadFails \/ TakeRun \/ NextConfig

Next == Work \/ RateLimited \/ Abort

(* The consumer goes on pulling and every request is answered. *)
Spec == Init /\ [][Next]_vars /\ WF_vars(Work)

-----------------------------------------------------------------------------
Got(c, route) ==
  [n \in DOMAIN SelectSeq(out, LAMBDA o : o.config = c /\ o.route = route) |->
     SelectSeq(out, LAMBDA o : o.config = c /\ o.route = route)[n].doc]

(* Whatever requests fail and are tried again, the documents that a config's *)
(* pages deliver are its rows of sufficient length, in order, none twice and *)
(* none left out; and the paging of a config that did not give up stops only *)
(* when a quota is met or all of them are delivered.                         *)
RowsInOrder ==
  /\ \A c \in DOMAIN Configs :
       IsPrefix(Got(c, "rows"), SelectSeq(Rows(Configs[c]), LongEnough))
  /\ at = "paged" /\ ~fallback /\ Wanted =>
       Got(config, "rows") = SelectSeq(Rows(Key), LongEnough)

(* However a file is cut into chunks, the documents recovered from it are its*)
(* maximal runs of sufficient length, in order: none is split at the edge of *)
(* a chunk and none left out.  A run longer than MaxCarry may come in pieces.*)
FromFile(c, key, f) ==
  SelectSeq(Got(c, "raw"), LAMBDA d : d.key = key /\ d.file = f)
RunsWhole ==
  \A c \in DOMAIN Configs, key \in DOMAIN Shards : \A f \in DOMAIN Shards[key] :
    (\A n \in DOMAIN Tagged(key, f) : Tagged(key, f)[n].len <= MaxCarry) =>
      IsPrefix(FromFile(c, key, f), SelectSeq(Tagged(key, f), LongEnough))

(* A stream ends, with its documents or with an error: retries are counted,  *)
(* and every source runs dry.  A server that answers 429 for ever excepted,  *)
(* which only an abort ends.                                                 *)
StreamEnds == <>(at \in Over)
=============================================================================
